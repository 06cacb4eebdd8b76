\* STOMP and the websocket server, or STOMP and the websocket client; either queue of
\* the exit may fill up.
SPECIFICATION MCSpec
CONSTANTS
    MtpThreads = {"STOMP", "WSSERVER"}
    MainCap = 2
    BdcCap = 1
    MaxRequests = 1
    MaxSignals = 2
INVARIANTS
    EarlyResponsesSent
    AgentStopsLast
PROPERTY
    EitherExitHappens
CHECK_DEADLOCK FALSE
