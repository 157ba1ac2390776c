CONSTANTS
  N = 2
  ModuleLevel = 2
  MinLevel <- MC_MinLevel2
  Hook <- MC_Any2
  Write <- MC_Any2
  Warnings = 1
  MaxApp = 1
  AppLevels = {2, 3}
SPECIFICATION FairSpec
INVARIANTS
  TypeOK
  RecordsAreExact
  ReadinessVouchesDelivery
PROPERTIES
  EveryEntrySettles
  LifecycleCompletes
  ImplementsEntryDelivery
