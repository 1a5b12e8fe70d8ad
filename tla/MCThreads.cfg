SPECIFICATION FairSpec
CONSTANTS
  t1 = t1
  t2 = t2
  t3 = t3
  o1 = o1
  Thread = {t1, t2}
  Owner = {o1}
  Main = Main
  None = None
INVARIANTS
  NoStaleEntry
  RegisteredWhileRunning
  NoLostWakeup
  ForkArgAlive
PROPERTIES
  ForkReturns
  ShutdownCompletes
CHECK_DEADLOCK FALSE
