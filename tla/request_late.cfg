CONSTANTS
  Requests = {r1}
  Outer = outer
  App = app
  None = none
  Wirings <- MC_Late
  Shapes <- MC_Plain
  Enclosed = FALSE
  Generate = TRUE
  Enabled = TRUE
  Filter = TRUE
  Stateful = FALSE
  Loses = FALSE
  Sets = {}
  Statuses = {200}
  Failures = {"error"}
  MaxValues = 1
SPECIFICATION Spec
INVARIANTS
  EveryRequestIsAccountedFor
