CONSTANTS
  Text = Text
  Undefined = Undefined
  Throws = Throws
  r = r
  outer = outer
  inner = inner
  x = x
  l = l
  fn = fn
  buf = buf
  Record = r
  Thrown = outer
  Heaps <- OwnToJsonGraph
  Names <- MC_Names
  Indexes <- MC_Indexes
  Policies <- MC_Policies
  MaxCauseDepth = 1
  MaxAggregate = 2
  MaxOmitted = 4
  MaxDepth = 4
  MaxVisits = 8
SPECIFICATION Spec
INVARIANT HostileErrorDegradesAlone
CHECK_DEADLOCK FALSE
