CONSTANTS
  N = 1
  ModuleLevel = 2
  MinLevel <- MC_MinLevel1
  Hook <- MC_Hook1
  Write <- MC_Write1
  Warnings = 0
  MaxApp = 2
  AppLevels = {2}
  PrettyDest = 1
  Production = TRUE
  MaxBuffered = 2
SPECIFICATION PrettyFanOutSpec
INVARIANT
  DroppingIsSafe
