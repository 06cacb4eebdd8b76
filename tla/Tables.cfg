SPECIFICATION Spec
CONSTANTS
  \* Ctrust: a role, two permissions with search expressions, three rows
  TrustRoles = 1
  TrustPerms = {1, 2}
  TrustKeys = {"a", "b"}
  TrustRows = 3
  TableKinds = {"own", "vendor", "service"}
  NumbersReused = FALSE
  MaxTrustChanges = 2
  \* Challenge
  Askers = {"e1", "e2"}
  ChallengeSlots = 2
  ChallengeRefs = {1, 2}
  Expirations = {2}
  Retries = 2
  Lockout = 2
  MaxWrong = 3
  EndOfTime = 3
  MaxChallengeIds = 2
  \* MtpTables
  MtpSlots = 2
  MtpProtocols = {"STOMP", "MQTT", "CoAP", "WebSocket"}
  MaxMtpInst = 3
  MaxConnInst = 2
  MaxTableChanges = 3
  \* Uds: one endpoint, two sockets, two connections
  UdsPeers = {"e1"}
  UdsServers = 2
  UdsConns = 2
  MaxUdsConnects = 2
  MaxUdsMsgs = 1
  MaxUdsChanges = 1
  MaxUdsFaults = 1
  \* E2e
  Modes = {"Require", "Allow", "Forbid"}
  MaxSegments = 3
  MaxCtMessages = 2
  MaxE2eSessions = 2
  MaxE2eQueue = 2
  MaxE2eWaiting = 1
  MaxModeChanges = 1
  MaxE2eFaults = 1
INVARIANTS CtrustInv E2eInv MtpTablesInv UdsInv
PROPERTY LockoutHolds
\* Changes and faults are bounded.
CHECK_DEADLOCK FALSE
