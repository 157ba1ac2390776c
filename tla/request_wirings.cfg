CONSTANTS
  Requests = {r1}
  Outer = outer
  App = app
  None = none
  Wirings <- MC_Wirings
  Shapes <- MC_AnyShape
  Enclosed = FALSE
  Generate = TRUE
  Enabled = TRUE
  Filter = TRUE
  Stateful = TRUE
  Loses = TRUE
  Sets = {"userId", "tenantId"}
  Statuses = {200, 302, 404, 503}
  Failures = {"http4xx", "http5xx", "error"}
  MaxValues = 1
SPECIFICATION FairSpec
INVARIANTS
  TypeOK
  NothingIsLoggedTwice
  PromptRequestsAreAccountedFor
  SuccessMeansDelivered
  FailuresAreExplained
  AccessLinesAreJoinable
PROPERTY
  EveryStartIsClosed
