SPECIFICATION FairSpec
CONSTANTS
  b1 = b1
  b2 = b2
  Proc = {"main", "worker"}
  Main = "main"
  Key = {"nick"}
  Contact = {"bob"}
  Owner <- MCOwner
  Scalar = {"s1"}
  Blob = {b1, b2}
  Length <- MCLength
  None = None
INVARIANTS
  CacheMatchesTable
  ListenersAgree
  ResidentNotStored
  ChangesScheduled
PROPERTY FlushedWhenQuiet
CHECK_DEADLOCK FALSE
