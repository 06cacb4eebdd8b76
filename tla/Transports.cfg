SPECIFICATION Spec
CONSTANTS
  \* Mqtt
  MaxMqttRecords = 2
  MaxMqttChanges = 3
  MaxMqttFailures = 1
  \* WsClient: the third record is a disconnect record; one pong may be missing
  MaxWsRecords = 3
  MaxWsPosts = 2
  MaxWsFaults = 1
  MaxWsPings = 2
  AllowedMissingPongs = 0
  \* WsServer
  WssSlots = 2
  MaxWssHandles = 2
  MaxWssRecords = 1
  MaxWssChanges = 1
  MaxWssFaults = 1
  \* Coap
  MaxCoapRecords = 2
  CoapSessions = 1
  MaxRetransmit = 2
  MaxCoapConns = 3
  MaxCoapFaults = 2
INVARIANTS MqttInv WsInv WssInv CoapInv
PROPERTIES MqttKeepsQueue WsKeepsQueue WssStops
\* Records, changes and faults are bounded.
CHECK_DEADLOCK FALSE
