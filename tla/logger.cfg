CONSTANTS
  a = a
  b = b
  file = file
  socket = socket
  Stdout = Stdout
  Contexts = {a, b}
  Sinks = {file, socket}
  Setups <- MC_Setups
  Usage <- MC_Usage
  Answers <- MC_Answers
SPECIFICATION FairSpec
INVARIANTS
  LevelsAgree
  TraceLossIsAnnounced
  AttributionIsNotForged
  NoCauseIsLost
  SecretsStayCovered
  InjectedLabelHolds
  BrokenPipeIsSurvived
PROPERTY
  StartupSucceeds
CHECK_DEADLOCK FALSE
