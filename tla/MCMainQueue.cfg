SPECIFICATION FairSpec
CONSTANTS
  Worker = {"w1", "w2"}
  Service = {"svc"}
  Object = {"account"}
  None = None
  Fn = Fn
  MaxCalls = 3
  QueueLimit = 2
  MaxDepth = 2
PROPERTIES ImplementsSyncCall AcceptedCallReturns
INVARIANTS
  ItemAlive
  SignalIsFresh
  AsyncNotOvertaken
CHECK_DEADLOCK FALSE
