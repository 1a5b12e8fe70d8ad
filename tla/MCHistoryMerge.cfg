SPECIFICATION Spec
CONSTANTS
  c1 = c1
  c2 = c2
  m1 = m1
  p1 = p1
  p2 = p2
  Contact = {c1, c2, m1}
  Meta = {m1}
  Proc = {p1, p2}
  None = None
  MaxEvents = 2
  MaxStamp = 2
SYMMETRY HistorySymmetry
INVARIANT MetaHistoryComplete
CHECK_DEADLOCK FALSE
