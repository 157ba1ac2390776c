CONSTANTS
  N = 3
  ModuleLevel = 2
  MinLevel <- MC_MinLevel3
  Hook <- MC_Hook3
  Write <- MC_Write3
  Warnings = 0
  MaxApp = 2
  AppLevels = {2, 3}
  PrettyDest = 2
  Production = FALSE
  MaxBuffered = 1
SPECIFICATION PrettyFairSpec
INVARIANTS
  DiscardedIsElsewhere
  AcceptedHasOneOutcome
PROPERTY
  HeldIsResolved
