------------------------------ MODULE WsServer ------------------------------
(***************************************************************************)
(* The WebSocket server MTP: starting, restarting and stopping the server, *)
(* its connections, and the rule that the agent's websocket client has     *)
(* precedence for a controller.                                            *)
(*                                                                         *)
(* Callbacks and functions hold wss_access_mutex.  Only a callback that    *)
(* also needs the mutex of the websocket client is split in two.           *)
(***************************************************************************)
EXTENDS Integers, Sequences, FiniteSets, SequencesExt, SendQueue

CONSTANTS
    WssSlots,       \* number of entries of ws_connections
    MaxWssHandles,  \* connections that controllers open
    MaxWssRecords,  \* records queued
    MaxWssChanges,  \* changes of Device.LocalAgent.MTP.{i}, and of the address of the interface
    MaxWssFaults    \* connections lost or refused, failed starts, expired records, pings

ASSUME WssAssumption == {WssSlots, MaxWssHandles, MaxWssRecords, MaxWssChanges, MaxWssFaults} \subseteq Nat

Controller == "eid"     \* the endpoint that the agent's websocket client connects to
WssConns == 1..WssSlots
WssRecs == 1..MaxWssRecords
WssConnect == 0         \* a connect record, of one chunk; the others have two
WssDisconnect == 0 - 1  \* the disconnect record of WSSERVER_DisconnectEndpoint
WssQueued == WssRecs \cup {WssConnect, WssDisconnect}
WssChunks(r) == IF r \in WssRecs THEN 2 ELSE 1

VARIABLES
    ws_srv,     \* wsserv: up (its context exists), the configurations, and what is scheduled
    ws_con,     \* ws_connections
    ws_conf,    \* the MTP in the data model: enabled, path, keep alive
    ws_exit,    \* "no", "activated" or "exited"
    ws_cli,     \* the websocket client: "down", "validating", "validated", "Running"
    ws_held,    \* the slot whose Established callback holds wss_access_mutex, or 0
    ws_req,     \* requests that the DM thread has yet to answer, by connection id
    ws_h, ws_n, ws_changes, ws_faults

wssBounds == <<ws_h, ws_n, ws_changes, ws_faults>>
wssVars == <<ws_srv, ws_con, ws_conf, ws_exit, ws_cli, ws_held, ws_req, wssBounds>>

NoWsconn == [handle |-> 0, id |-> 0, phase |-> "none", peer |-> "unknown", queue |-> <<>>, tx |-> 0, part |-> 0,
             ping |-> FALSE, disconnect |-> FALSE, writable |-> FALSE]

\* WSSERVER_Init, then DEVICE_MTP_StartMtpServers with an enabled websocket MTP
WssInit ==
    /\ ws_conf = [on |-> TRUE, path |-> 1, keep |-> 1]
    /\ ws_srv = [up |-> FALSE, cur |-> ws_conf, new |-> ws_conf, restart |-> "Activated", stop |-> "Off"]
    /\ ws_con = [c \in WssConns |-> NoWsconn] /\ ws_exit = "no" /\ ws_cli = "down" /\ ws_held = 0 /\ ws_req = {}
    /\ ws_h = 0 /\ ws_n = 0 /\ ws_changes = 0 /\ ws_faults = 0

WssFree == ws_held = 0 /\ ws_exit # "exited"      \* wss_access_mutex can be taken
WssChange == ws_changes < MaxWssChanges /\ ws_changes' = ws_changes + 1
WssFault == ws_faults < MaxWssFaults /\ ws_faults' = ws_faults + 1
Open == {c \in WssConns : ws_con[c].handle # 0}
WithEid(e) == {c \in Open : ws_con[c].peer = e}       \* FindWsConnectionByEndpointId
-----------------------------------------------------------------------------
(***************************************************************************)
(* The data model thread.                                                  *)
(***************************************************************************)
\* WSSERVER_EnableServer: a new keep alive is taken at once, any other change is a restart.
WSSERVER_EnableServer(conf) ==
    IF ws_srv.up /\ ws_srv.cur.path = conf.path /\ ws_srv.cur.keep # conf.keep
    THEN [ws_srv EXCEPT !.cur.keep = conf.keep]
    ELSE [ws_srv EXCEPT !.new = conf, !.restart = "Signalled"]

\* WSSERVER_DisableServer
WSSERVER_DisableServer == IF ws_srv.up THEN [ws_srv EXCEPT !.stop = "Signalled"] ELSE ws_srv

\* NotifyChange_AgentMtpEnable, NotifyChange_AgentMtpWebsockPath and the like
NotifyChange_Wss ==
    /\ WssFree /\ WssChange
    /\ \E conf \in [on : BOOLEAN, path : {1, 2}, keep : {1, 2}] :
          /\ Cardinality({f \in DOMAIN conf : conf[f] # ws_conf[f]}) = 1
          /\ ws_conf' = conf
          /\ ws_srv' = CASE conf.on -> WSSERVER_EnableServer(conf)
                         [] ~conf.on /\ ws_conf.on -> WSSERVER_DisableServer
                         [] OTHER -> ws_srv
    /\ UNCHANGED <<ws_con, ws_exit, ws_cli, ws_held, ws_req, ws_h, ws_n, ws_faults>>

\* WSSERVER_ActivateScheduledActions, when the response is queued; perhaps with an exit to activate
WssActivated(action) == IF action = "Signalled" THEN "Activated" ELSE action
WSSERVER_ActivateScheduledActions ==
    /\ WssFree /\ ws_exit' \in {ws_exit, "activated"}
    /\ ws_srv' = [ws_srv EXCEPT !.restart = WssActivated(@), !.stop = WssActivated(@)]
    /\ UNCHANGED <<ws_con, ws_conf, ws_cli, ws_held, ws_req, wssBounds>>

\* RemoveExpiredWsservMessages
RemoveExpiredWsservMessages(w, old) ==
    [w EXCEPT !.queue = Only(@, {r \in WssQueued : r \notin old \/ (w.tx # 0 /\ r = Head(w.queue))})]

WssOld(old) == IF old = {} THEN UNCHANGED ws_faults ELSE WssFault
WssOlds == {{}} \cup {{r} : r \in WssRecs}

\* WSSERVER_QueueBinaryMessage, for a connection that may be gone.  The agent answers a request.
WSSERVER_QueueBinaryMessage ==
    /\ WssFree /\ ws_n < MaxWssRecords /\ ws_n' = ws_n + 1
    /\ \E req \in ws_req, old \in WssOlds :
          LET C == {c \in Open : ws_con[c].id = req} IN
          /\ WssOld(old) /\ ws_req' = ws_req \ {req}
          /\ ws_con' = [c \in WssConns |->
                IF c \in C THEN [RemoveExpiredWsservMessages(ws_con[c], old) EXCEPT !.queue = Append(@, ws_n')] ELSE ws_con[c]]
          /\ old \subseteq UNION {ToSet(ws_con[c].queue) : c \in C}
    /\ UNCHANGED <<ws_srv, ws_conf, ws_exit, ws_cli, ws_held, ws_h, ws_changes>>
-----------------------------------------------------------------------------
(***************************************************************************)
(* The thread.                                                             *)
(***************************************************************************)
\* WantingToStopWsServer
WantingToStopWsServer == ws_srv.restart = "Activated" \/ ws_srv.stop = "Activated" \/ ws_exit = "activated"

\* StartWebsockServer(&wsserv.new_config)
StartWebsockServer(s) == [s EXCEPT !.up = TRUE, !.cur = s.new, !.restart = "Off", !.stop = "Off"]

\* The thread of a server that stopped exits if it is to exit.
WssExits == ws_exit' = IF ws_exit = "activated" THEN "exited" ELSE ws_exit

\* ServiceInactiveWebsockServer
ServiceInactiveWebsockServer ==
    /\ WssFree /\ ~ws_srv.up
    /\ \/ /\ ws_srv.stop = "Activated" \/ ws_exit = "activated"
          /\ WssExits /\ UNCHANGED <<ws_srv, ws_faults>>
       \/ /\ ws_srv.stop # "Activated" /\ ws_exit # "activated" /\ ws_srv.restart = "Activated"
          /\ \/ ws_srv' = StartWebsockServer(ws_srv) /\ UNCHANGED ws_faults
             \/ WssFault /\ UNCHANGED ws_srv
          /\ UNCHANGED ws_exit
    /\ UNCHANGED <<ws_con, ws_conf, ws_cli, ws_held, ws_req, ws_h, ws_n, ws_changes>>

\* AreAllWebsockServerMessagesSent and CountWsConnections: nothing is left to send and everyone is gone.
Quiesced == Open = {}

\* ServiceActiveWebsockServer when the server can be stopped: StopWebsockServer, and perhaps a new start
StopServer ==
    /\ WssFree /\ ws_srv.up /\ WantingToStopWsServer /\ Quiesced
    /\ \/ /\ ws_srv.stop = "Activated" \/ ws_exit = "activated"
          /\ ws_srv' = [ws_srv EXCEPT !.up = FALSE, !.stop = "Off"]
          /\ WssExits /\ UNCHANGED ws_faults
       \/ /\ ws_srv.stop # "Activated" /\ ws_exit # "activated"
          /\ \/ ws_srv' = StartWebsockServer(ws_srv) /\ UNCHANGED ws_faults
             \/ WssFault /\ ws_srv' = [ws_srv EXCEPT !.up = FALSE]
          /\ UNCHANGED ws_exit
    /\ UNCHANGED <<ws_con, ws_conf, ws_cli, ws_held, ws_req, ws_h, ws_n, ws_changes>>

\* Mutant: a callback is asked for only when there is something to send.
HasToSend(w) == w.queue # <<>>

\* Which connections ask libwebsockets for a writable callback
NeedsWritable(w) == w.queue # <<>> \/ WantingToStopWsServer \/ w.disconnect

\* ServiceActiveWebsockServer otherwise
ServiceActiveWebsockServer ==
    /\ WssFree /\ ws_srv.up /\ ~(WantingToStopWsServer /\ Quiesced)
    /\ ws_con' = [c \in WssConns |-> IF c \in Open /\ NeedsWritable(ws_con[c])
                                     THEN [ws_con[c] EXCEPT !.writable = TRUE] ELSE ws_con[c]]
    /\ UNCHANGED <<ws_srv, ws_conf, ws_exit, ws_cli, ws_held, ws_req, wssBounds>>

\* HandleWssEvent_WanPollTimer: the address of the interface has changed.
HandleWssEvent_WanPollTimer ==
    /\ WssFree /\ ws_srv.up /\ WssChange
    /\ ws_srv' = [ws_srv EXCEPT !.restart = "Activated"]
    /\ UNCHANGED <<ws_con, ws_conf, ws_exit, ws_cli, ws_held, ws_req, ws_h, ws_n, ws_faults>>
-----------------------------------------------------------------------------
(***************************************************************************)
(* Callbacks of libwebsockets.                                             *)
(***************************************************************************)
WssOthers == <<ws_srv, ws_conf, ws_exit, ws_cli, ws_changes>>
Destroyed(w) == [w EXCEPT !.handle = 0, !.queue = <<>>, !.writable = FALSE, !.phase = "none"]

\* HandleWssEvent_Destroyed frees what the connection holds; its identifier and tx_index stay until it is used again.
HandleWssEvent_Destroyed(c) == ws_con' = [ws_con EXCEPT ![c] = Destroyed(@)]

\* Mutant: the entry is used again as the last connection left it.
KeepTx(c) == [ws_con[c] EXCEPT !.handle = ws_h + 1, !.id = ws_h + 1, !.phase = "created", !.peer = "unknown",
                               !.disconnect = FALSE, !.ping = FALSE]

\* What HandleWssEvent_WsiCreate makes of a free entry.  Every handle is a new number, and so is conn_id_counter.
NewWsconn(c) == [NoWsconn EXCEPT !.handle = ws_h + 1, !.id = ws_h + 1, !.phase = "created"]

\* HandleWssEvent_WsiCreate, HandleWssEvent_NewClient
HandleWssEvent_WsiCreate ==
    /\ WssFree /\ ws_srv.up /\ ws_h < MaxWssHandles /\ ws_h' = ws_h + 1
    /\ LET F == WssConns \ Open IN
       ws_con' = IF F = {} THEN ws_con
                 ELSE LET c == CHOOSE c \in F : \A d \in F : c <= d IN [ws_con EXCEPT ![c] = NewWsconn(c)]
    /\ UNCHANGED <<WssOthers, ws_held, ws_req, ws_n, ws_faults>>

\* A connection is lost, its handshake fails or takes too long, or it sends a bad frame.
WssLost(c) ==
    /\ WssFree /\ c \in Open
    /\ IF ws_con[c].phase = "created" THEN UNCHANGED ws_faults ELSE WssFault
    /\ HandleWssEvent_Destroyed(c)
    /\ UNCHANGED <<WssOthers, ws_held, ws_req, ws_h, ws_n>>

\* HandleWssEvent_Established, up to WSCLIENT_IsEndpointConnected for a client that gives its endpoint id
EstablishedBegin(c) ==
    /\ WssFree /\ c \in Open /\ ws_con[c].phase = "created"
    /\ ws_held' = c
    /\ UNCHANGED <<WssOthers, ws_con, ws_req, ws_h, ws_n, ws_faults>>

\* Mutant: no look at the other connections.
PermitAny(e) == ws_cli # "Running"

\* Whether the controller may connect here (WSCLIENT_IsEndpointConnected, FindWsConnectionByEndpointId)
Permitted(e) == ws_cli # "Running" /\ WithEid(e) = {}

\* The rest, with wsc_access_mutex: refused, or established with the connect record first
EstablishedEnd ==
    /\ ws_held # 0 /\ ws_cli # "validating"
    /\ IF Permitted(Controller)
       THEN ws_con' = [ws_con EXCEPT ![ws_held].phase = "open", ![ws_held].peer = Controller,
                                     ![ws_held].queue = <<WssConnect>>]
       ELSE HandleWssEvent_Destroyed(ws_held)
    /\ ws_held' = 0
    /\ UNCHANGED <<WssOthers, ws_req, ws_h, ws_n, ws_faults>>

\* HandleWssEvent_Established of a client that gives no endpoint id
EstablishedUnknown(c) ==
    /\ WssFree /\ c \in Open /\ ws_con[c].phase = "created"
    /\ ws_con' = [ws_con EXCEPT ![c].phase = "open"]
    /\ UNCHANGED <<WssOthers, ws_held, ws_req, ws_h, ws_n, ws_faults>>

\* HandleWssEvent_Receive of a whole record
HandleWssEvent_Receive(c) ==
    /\ WssFree /\ c \in Open /\ ws_con[c].phase = "open" /\ Cardinality(ws_req) + ws_n < MaxWssRecords
    /\ ws_req' = ws_req \cup {ws_con[c].id}
    /\ UNCHANGED <<WssOthers, ws_con, ws_held, ws_h, ws_n, ws_faults>>

\* HandleWssEvent_PingTimer
HandleWssEvent_PingTimer(c) ==
    /\ WssFree /\ c \in Open /\ ws_con[c].phase = "open" /\ ~ws_con[c].ping /\ WssFault
    /\ ws_con' = [ws_con EXCEPT ![c].ping = TRUE, ![c].writable = TRUE]
    /\ UNCHANGED <<WssOthers, ws_held, ws_req, ws_h, ws_n>>

CanWrite(c) == WssFree /\ c \in Open /\ ws_con[c].phase = "open" /\ ws_con[c].writable

\* HandleWssEvent_Transmit after a disconnect record, or with nothing to send: the connection is closed when the
\* server is to stop.  A ping comes before everything but the close (SendWsservPing).
TransmitOther(c) ==
    LET w == ws_con[c] IN
    /\ CanWrite(c)
    /\ w.disconnect \/ w.ping \/ w.queue = <<>>
    /\ CASE w.disconnect -> HandleWssEvent_Destroyed(c)
         [] ~w.disconnect /\ w.ping -> ws_con' = [ws_con EXCEPT ![c].ping = FALSE, ![c].writable = FALSE]
         [] OTHER -> IF WantingToStopWsServer THEN HandleWssEvent_Destroyed(c)
                     ELSE ws_con' = [ws_con EXCEPT ![c].writable = FALSE]
    /\ UNCHANGED <<WssOthers, ws_held, ws_req, ws_h, ws_n, ws_faults>>

\* One chunk of the head of the queue
WssSent(w) ==
    LET r == Head(w.queue)
        last == w.tx + 1 = WssChunks(r)
    IN [w EXCEPT !.queue = IF last THEN Tail(@) ELSE @, !.tx = IF last THEN 0 ELSE @ + 1, !.part = r,
                 !.disconnect = (r = WssDisconnect), !.writable = FALSE]

\* HandleWssEvent_Transmit of a chunk
HandleWssEvent_Transmit(c) ==
    /\ CanWrite(c) /\ ~ws_con[c].disconnect /\ ~ws_con[c].ping /\ ws_con[c].queue # <<>>
    /\ \E old \in WssOlds :
          LET w == RemoveExpiredWsservMessages(ws_con[c], old) IN
          /\ WssOld(old) /\ old \subseteq ToSet(ws_con[c].queue)
          /\ ws_con' = [ws_con EXCEPT ![c] = IF w.queue = <<>> THEN [w EXCEPT !.writable = FALSE] ELSE WssSent(w)]
    /\ UNCHANGED <<WssOthers, ws_held, ws_req, ws_h, ws_n>>
-----------------------------------------------------------------------------
(***************************************************************************)
(* The agent's websocket client, for the same controller.                  *)
(***************************************************************************)
WssClient == <<ws_srv, ws_conf, ws_exit, ws_held, ws_req, ws_h, ws_n, ws_changes>>

\* The callback PRE_ESTABLISH, up to WSSERVER_DisconnectEndpoint: it holds wsc_access_mutex.
ValidateBegin ==
    /\ ws_cli = "down" /\ WssFault /\ ws_exit # "exited"
    /\ ws_cli' = "validating" /\ UNCHANGED <<WssClient, ws_con>>

\* WSSERVER_DisconnectEndpoint, with wss_access_mutex
WSSERVER_DisconnectEndpoint ==
    /\ ws_cli = "validating" /\ ws_held = 0 /\ ws_cli' = "validated"
    /\ ws_con' = [c \in WssConns |-> IF c \in WithEid(Controller) /\ WssDisconnect \notin ToSet(ws_con[c].queue)
                                     THEN [ws_con[c] EXCEPT !.queue = Append(@, WssDisconnect)] ELSE ws_con[c]]
    /\ UNCHANGED <<WssClient, ws_faults>>

\* HandleWscEvent_Connected, a callback of its own
ClientConnected ==
    /\ ws_cli = "validated" /\ ws_cli' = "Running"
    /\ UNCHANGED <<WssClient, ws_con, ws_faults>>
-----------------------------------------------------------------------------
WssThread ==
    \/ ServiceInactiveWebsockServer \/ StopServer \/ ServiceActiveWebsockServer \/ EstablishedEnd
    \/ WSSERVER_DisconnectEndpoint

WssNext ==
    \/ NotifyChange_Wss \/ WSSERVER_ActivateScheduledActions \/ WSSERVER_QueueBinaryMessage
    \/ WssThread \/ HandleWssEvent_WanPollTimer \/ HandleWssEvent_WsiCreate
    \/ ValidateBegin \/ ClientConnected
    \/ \E c \in WssConns :
          \/ WssLost(c) \/ EstablishedBegin(c) \/ EstablishedUnknown(c) \/ HandleWssEvent_Receive(c)
          \/ HandleWssEvent_PingTimer(c) \/ TransmitOther(c) \/ HandleWssEvent_Transmit(c)

\* The threads run, and libwebsockets calls back for a socket that can be written and ends a handshake that takes too long.
WssFairness ==
    /\ WF_wssVars(WssThread)
    /\ \A c \in WssConns : /\ WF_wssVars(TransmitOther(c) \/ HandleWssEvent_Transmit(c))
                           /\ WF_wssVars(ws_con[c].phase = "created" /\ WssLost(c))

WssSpec == WssInit /\ [][WssNext]_wssVars /\ WssFairness
-----------------------------------------------------------------------------
\* Both threads wait for the mutex that the other holds: wss_access_mutex and wsc_access_mutex.
CircularWait == ws_held # 0 /\ ws_cli = "validating"

\* Values of the variables.
WssTypeOK ==
    /\ ws_srv.up \in BOOLEAN /\ {ws_srv.restart, ws_srv.stop} \subseteq {"Off", "Signalled", "Activated"}
    /\ \A c \in WssConns : ws_con[c].tx \in 0..1 /\ ws_con[c].queue \in Seq(WssQueued)
    /\ Open # {} => ws_srv.up
    /\ ws_held \in 0..WssSlots /\ ws_exit \in {"no", "activated", "exited"}

\* A chunk continues the record whose first chunk was written on the same connection, whatever expired or was
\* queued in between, and although entries of the table are used again (wsserver.c:1101, :2175).
WssWellFramed ==
    \A c \in Open : ws_con[c].tx # 0 => ws_con[c].queue # <<>> /\ Head(ws_con[c].queue) = ws_con[c].part

\* A controller is connected to the server at most once (wsserver.c:1395).
WssUnique == Cardinality({c \in WithEid(Controller) : ~ws_con[c].disconnect}) <= 1

\* "Stops the agent's websocket server" (wsserver.c:306): once a stop, a restart or an exit is activated the server
\* goes down, unless the two websocket threads wait for each other; pings and records do not hold it up for ever.
WssStops == WantingToStopWsServer /\ ws_srv.up ~> ~ws_srv.up \/ ~WantingToStopWsServer \/ CircularWait

\* "Websocket client connection to a controller takes precedence over websocket server connection" (wsclient.c:2389):
\* the thread that closes the server's connection gets the mutex that it needs.
WssLocks == ~CircularWait

\* What a controller sees of its connection to the server is framed, and it has one only.
WssInv == WssTypeOK /\ WssWellFramed /\ WssUnique
=============================================================================
