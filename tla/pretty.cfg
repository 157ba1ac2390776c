CONSTANTS
  MaxBuffered = 3
  MaxBytes = 5
  Sizes <- MC_Sizes
  MaxWrites = 6
SPECIFICATION Spec
INVARIANTS
  BufferIsExact
  ShownInOrder
