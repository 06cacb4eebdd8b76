\* STOMP and the websocket server: three threads announce their exits and two requests
\* arrive in a main queue of four.
SPECIFICATION FairSpec
CONSTANTS
    MtpThreads = {"STOMP", "WSSERVER"}
    MainCap = 4
    BdcCap = 2
    MaxRequests = 2
    MaxSignals = 1
PROPERTY
    StopsWhenAsked
CHECK_DEADLOCK FALSE
