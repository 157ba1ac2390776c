CONSTANTS
  N = 3
  ModuleLevel = 1
  MinLevel <- MC_MinLevel3
  Hook <- MC_Any3
  Write <- MC_Write3
  Warnings = 1
  MaxApp = 1
  AppLevels = {1, 3}
SPECIFICATION Spec
INVARIANTS
  RescuerIsFirstOfTheLowest
  TotalFailureIsNotSilent
  RescuedOnceAfterBoot
  TeardownIsOrderly
