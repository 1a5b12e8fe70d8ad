SPECIFICATION Spec
CONSTANTS
  p1 = p1
  p2 = p2
  Event = {"status"}
  Proc = {p1, p2}
  Object = {"account"}
  Module = {"plugin"}
  None = None
  MaxSub = 3
  MaxId = 2
  MaxDepth = 2
SYMMETRY ProcSymmetry
CONSTRAINT NestedBound
INVARIANTS
  HandleNamesOwnSlot
  UnhookedIsGone
  CalledInOrder
  NoneSkipped
  NoneTwice
CHECK_DEADLOCK FALSE
