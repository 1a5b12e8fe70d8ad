SPECIFICATION FairSpec
CONSTANTS
  Name = {"jabber_1", "irc"}
  Protocols = {"irc"}
  Addr = {"a1", "a2"}
  None = None
  MaxAccounts = 2
  MaxJobs = 2
INVARIANTS
  EnabledIsReachable
  ObjectsNotShared
  HookedIsAlive
  ServiceIsAccountedFor
PROPERTIES
  
  DeletedIsErased
CHECK_DEADLOCK FALSE
