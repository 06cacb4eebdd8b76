SPECIFICATION Spec
CONSTANTS
  \* Stomp
  Controllers = {c1}
  AgentQueues = {q1, q2}
  NoQueue = NoQueue
  NoFrame = NoFrame
  RacingConnect = FALSE
  MaxStarts = 2
  MaxChanges = 2
  MaxRecords = 2
  MaxQueued = 2
  \* StompRx
  MaxUnits = 3
  MaxUspMsgLen = 8
  \* BulkData: two interchangeable profiles, two slots in each thread, one retained report
  p1 = p1
  p2 = p2
  Profiles <- MCProfiles
  MaxProfiles = 2
  MaxRetained = 1
  Faults = {"read", "collect"}
  MaxFires = 3
  \* Controllers: one controller with two MTPs, one websocket client for them
  Conts = {1}
  ContMtps = {1, 2}
  ContProtocols = {"ws", "mqtt"}
  MqttInsts = {1}
  MaxControllers = 1
  MaxContMtps = 2
  MaxMtpClients = 1
  MaxTransOps = 2
  OneAdd = TRUE
SYMMETRY Symmetry
INVARIANTS
  SendQueueKept ConfigurationCurrent StreamIntact ReportingGoesOn 
PROPERTY KeepsNewest
\* The stream of StompRx ends, and timers fire a bounded number of times.
CHECK_DEADLOCK FALSE
