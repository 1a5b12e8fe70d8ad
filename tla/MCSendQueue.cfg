SPECIFICATION FairSpec
CONSTANTS
  c1 = c1
  c2 = c2
  m1 = m1
  Contact = {c1, c2, m1}
  Window = {m1, c1}
  ActiveContact <- MCActiveContact
  None = None
  NR_SENDJOBS = 2
  MaxMsg = 2
  MaxId = 3
  Chunks = 2
INVARIANTS
  TimerOnOwnJob
  ErrorNamesOwnFailure
  FailureShown
  LateAckFindsOwnJob
  StoredWhenSent
  CounterCoversJobs
PROPERTIES
  NoEndlessWait
  ImplementsOutbox
CHECK_DEADLOCK FALSE
