SPECIFICATION Spec
CONSTANTS
  t1 = t1
  t2 = t2
  t3 = t3
  o1 = o1
  Thread = {t1, t2, t3}
  Owner = {o1}
  Main = Main
  None = None
SYMMETRY ThreadSymmetry
PROPERTY WaitEmAll
CHECK_DEADLOCK FALSE
