SPECIFICATION Spec
CONSTANTS
  \* Subs: one subscription, an object of the database and one of the vendor
  SubIds = {1}
  DbObjs = {"d"}
  VendorObjs = {"v"}
  NotifiesAtStart = FALSE
  EarlyCrash = FALSE
  MaxSubMsgs = 2
  MaxWorldChanges = 2
  MaxSubRestarts = 2
  \* SubsRetry
  RetrySubs = {1}
  RetryPaths = {"a", "b"}
  MaxNotifs = 2
  MaxRequests = 1
  EndOfRun = 3
  \* BrokerMsgs
  CommandKeys = {"k"}
  LocalLimit = 1
  EarlyOperate = FALSE
  DisableSubs = FALSE
  MaxOperates = 2
  MaxPassed = 1
  MaxNotified = 2
  MaxBmFaults = 2
  MaxBmQueue = 1
  \* UspService: two threads of the vendor
  Vendors = {"v1", "v2"}
  ServiceOps = {"add"}
  MaxCalls = 2
  MaxRegisters = 1
  MaxSvcFaults = 1
  \* MsgEntry: a Broker and a service over both sockets
  ServiceLinks = {"bc", "ba"}
  AskTypes = {"OPERATE", "NOTIFY", "REGISTER", "DEREGISTER"}
  MaxAsked = 2
  MaxOdd = 1
  MaxUnsent = 1
INVARIANTS SubsInv RetryInv BrokerMsgsInv SvcInv MsgEntryInv
PROPERTY CallsReturn
\* Messages, changes and faults are bounded.
CHECK_DEADLOCK FALSE
