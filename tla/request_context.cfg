CONSTANTS
  Requests = {r1, r2}
  Outer = outer
  App = app
  None = none
  Wirings <- MC_Pair
  Shapes <- MC_Logged
  Enclosed = TRUE
  Generate = FALSE
  Enabled = TRUE
  Filter = FALSE
  Stateful = FALSE
  Loses = FALSE
  Sets = {"userId", "tenantId", "requestId"}
  Statuses = {200}
  Failures = {}
  MaxValues = 1
SPECIFICATION Spec
SYMMETRY MC_Symmetry
INVARIANTS
  IdentityIsItsOwn
  SecondMountIsConsistent
