------------------------------ MODULE WsClient ------------------------------
(***************************************************************************)
(* The WebSocket client MTP: one client, the messages that the data model  *)
(* thread posts to it, and the callbacks of libwebsockets.                 *)
(*                                                                         *)
(* WSCLIENT_Main handles one posted message, services the send queues and  *)
(* then runs the library, whose callbacks are actions of their own; each   *)
(* holds wsc_access_mutex.  Records are numbers, sent in WsChunks chunks.  *)
(***************************************************************************)
EXTENDS Integers, Sequences, FiniteSets, SequencesExt, SendQueue

CONSTANTS
    MaxWsRecords,   \* USP records posted by the data model thread
    MaxWsPosts,     \* other messages posted by it
    MaxWsFaults,    \* failed or lost connections, failed writes, expired records, bad frames
    MaxWsPings,     \* expiries of the keep alive timer
    AllowedMissingPongs     \* 2 in the code

ASSUME WsAssumption == {AllowedMissingPongs, MaxWsRecords, MaxWsPosts, MaxWsFaults, MaxWsPings} \subseteq Nat

WsRecs == 1..MaxWsRecords
UspConnect == 0           \* the connect record
WsQueued == WsRecs \cup {UspConnect}
WsChunks(r) == IF r = UspConnect THEN 1 ELSE 2      \* TX_CHUNK_SIZE
Disconnects == {MaxWsRecords}                     \* the last record posted is a disconnect record

VARIABLES
    wc,         \* the entry of wsclients
    wc_lib,     \* libwebsockets: a writable callback is due; the connection is to be killed
    wc_msgs,    \* wsclient_msg_queue
    wc_conf,    \* host, port and path of Device.LocalAgent.Controller.{i}.MTP.{i}, 0 when it is disabled
    wc_may,     \* DEVICE_CONTROLLER_CanMtpConnect
    wc_exit,    \* "no", "activated" (mtp_exit_scheduled), "exited" (the thread), "aborted" (USP_ASSERT)
    wc_wire,    \* the chunks written to the current connection
    wc_n, wc_posts, wc_faults, wc_pinged

wcBounds == <<wc_n, wc_posts, wc_faults, wc_pinged>>
wcVars == <<wc, wc_lib, wc_msgs, wc_conf, wc_may, wc_exit, wc_wire, wcBounds>>

NoWsclient == [state |-> "Idle", conf |-> 0, at |-> 0, reason |-> "Unknown", reconnect |-> "Off", close |-> "Off",
               disconnected |-> FALSE, ping |-> FALSE, pings |-> 0, queue |-> <<>>, tx |-> 0]
Quiet == [writable |-> FALSE, kill |-> FALSE]

\* WSCLIENT_Init
WsInit ==
    /\ wc = NoWsclient /\ wc_lib = Quiet /\ wc_msgs = <<>> /\ wc_conf = 0 /\ wc_may \in BOOLEAN
    /\ wc_exit = "no" /\ wc_wire = <<>> /\ wc_n = 0 /\ wc_posts = 0 /\ wc_faults = 0 /\ wc_pinged = 0

WsLive == wc_exit \in {"no", "activated"}
WsFault == wc_faults < MaxWsFaults /\ wc_faults' = wc_faults + 1
-----------------------------------------------------------------------------
(***************************************************************************)
(* Messages from the data model thread.                                    *)
(***************************************************************************)
Post(m) == wc_msgs' = Append(wc_msgs, m)
WsPost == WsLive /\ wc_posts < MaxWsPosts /\ wc_posts' = wc_posts + 1

\* WSCLIENT_StartClient, after a change of the table of controllers: enabled, or other parameters
WSCLIENT_StartClient ==
    /\ WsPost /\ wc_conf' \in {1, 2} \ {wc_conf}
    /\ Post([type |-> "StartClient", conf |-> wc_conf'])
    /\ UNCHANGED <<wc, wc_lib, wc_may, wc_exit, wc_wire, wc_n, wc_faults, wc_pinged>>

\* WSCLIENT_StopClient: the MTP was disabled or deleted
WSCLIENT_StopClient ==
    /\ WsPost /\ wc_conf # 0 /\ wc_conf' = 0
    /\ Post([type |-> "StopClient"])
    /\ UNCHANGED <<wc, wc_lib, wc_may, wc_exit, wc_wire, wc_n, wc_faults, wc_pinged>>

\* WSCLIENT_AllowConnect
WSCLIENT_AllowConnect ==
    /\ WsPost /\ ~wc_may /\ wc_may' = TRUE
    /\ Post([type |-> "AllowConnect"])
    /\ UNCHANGED <<wc, wc_lib, wc_conf, wc_exit, wc_wire, wc_n, wc_faults, wc_pinged>>

\* WSCLIENT_ActivateScheduledActions, at the end of a request: perhaps with an exit to activate
WSCLIENT_ActivateScheduledActions ==
    /\ WsPost /\ wc_exit' \in {wc_exit, "activated"}
    /\ Post([type |-> "ActivateScheduledActions"])
    /\ UNCHANGED <<wc, wc_lib, wc_conf, wc_may, wc_wire, wc_n, wc_faults, wc_pinged>>

\* WSCLIENT_QueueBinaryMessage
WSCLIENT_QueueBinaryMessage ==
    /\ WsLive /\ wc_n < MaxWsRecords /\ wc_n' = wc_n + 1
    /\ Post([type |-> "QueueUspRecord", rec |-> wc_n'])
    /\ UNCHANGED <<wc, wc_lib, wc_conf, wc_may, wc_exit, wc_wire, wc_posts, wc_faults, wc_pinged>>

\* DEVICE_CONTROLLER_RestartAllWSClientConnectionsWithNewTrustStore
RestartWithNewTrustStore ==
    /\ WsPost /\ wc_conf # 0
    /\ wc_msgs' = wc_msgs \o <<[type |-> "StopClient"], [type |-> "ForceTrustStoreReload"],
                               [type |-> "StartClient", conf |-> wc_conf]>>
    /\ UNCHANGED <<wc, wc_lib, wc_conf, wc_may, wc_exit, wc_wire, wc_n, wc_faults, wc_pinged>>
-----------------------------------------------------------------------------
(***************************************************************************)
(* Opening and closing.  State(w, l) is the client and the library after.  *)
(***************************************************************************)
State(w, l) == [wc |-> w, lib |-> l]
Become(s) == wc' = s.wc /\ wc_lib' = s.lib

\* DestroyWsclient
DestroyWsclient(w) == State(NoWsclient, Quiet)

\* Mutant: what is queued when the connection is lost is dropped.
RetryDropsQueue(w) == State([w EXCEPT !.state = "Retrying", !.queue = <<>>], Quiet)

\* ScheduleWsclientRetry
ScheduleWsclientRetry(w) == State([w EXCEPT !.state = "Retrying"], Quiet)

\* Mutant: connect again to where the last connection was.
ConnectAsBefore(w) ==
    State([w EXCEPT !.state = IF wc_may THEN "AwaitingConnected" ELSE "Retrying", !.at = IF @ = 0 THEN w.conf ELSE @,
                    !.reason = "Unknown", !.reconnect = "Off", !.close = "Off"], Quiet)

\* AttemptWsclientConnect.  Nothing sets tx_index back to 0, nor send_ping to false.
AttemptWsclientConnect(w) ==
    IF ~wc_may THEN State([w EXCEPT !.state = "Retrying"], Quiet)
    ELSE State([w EXCEPT !.state = "AwaitingConnected", !.at = w.conf, !.reason = "Unknown", !.disconnected = FALSE,
                         !.reconnect = "Off", !.close = "Off", !.pings = 0], Quiet)

\* ForceWsclientClose: the library kills the connection later.
ForceWsclientClose(w, reason) ==
    IF w.reason # "Unknown" THEN State(w, wc_lib)
    ELSE State([w EXCEPT !.reason = reason], [wc_lib EXCEPT !.kill = TRUE])

\* GracefullyCloseWsclient: the close is done by the next writable callback that finds nothing to send.
GracefullyCloseWsclient(w, l, reason) ==
    IF w.reason # "Unknown" THEN State(w, l)
    ELSE State([w EXCEPT !.reason = reason], [l EXCEPT !.writable = TRUE])

\* HandleWscEvent_Destroyed, which the library calls last for every connection
HandleWscEvent_Destroyed(w) ==
    CASE w.reason = "GracefulClose" -> DestroyWsclient(w)
      [] w.reason = "ConnParamsChanged" -> AttemptWsclientConnect(w)
      [] OTHER -> ScheduleWsclientRetry(w)

\* HandleWscEvent_Error, HandleWscEvent_Closed: they precede Destroyed.
ReasonOr(w, reason) == [w EXCEPT !.reason = IF @ = "Unknown" THEN reason ELSE @]
-----------------------------------------------------------------------------
(***************************************************************************)
(* The loop of the thread: one message, then the send queue.               *)
(***************************************************************************)
\* HandleWsclient_ConnParamsChanged
HandleWsclient_ConnParamsChanged(w, conf) ==
    LET v == [w EXCEPT !.conf = conf] IN
    CASE conf = w.conf -> State(w, wc_lib)
      [] w.state = "AwaitingConnected" /\ conf # w.conf -> ForceWsclientClose(v, "ConnParamsChanged")
      [] w.state = "Running" /\ conf # w.conf -> State([v EXCEPT !.reconnect = "Signalled"], wc_lib)
      [] w.state = "Retrying" /\ conf # w.conf -> AttemptWsclientConnect(v)

\* HandleWsclient_StartClient
HandleWsclient_StartClient(w, conf) ==
    IF w.state # "Idle" THEN HandleWsclient_ConnParamsChanged(w, conf)
    ELSE AttemptWsclientConnect([NoWsclient EXCEPT !.conf = conf])

\* HandleWsclient_StopClient
HandleWsclient_StopClient(w) ==
    CASE w.state = "Idle" -> State(w, wc_lib)
      [] w.state = "AwaitingConnected" -> ForceWsclientClose(w, "GracefulClose")
      [] w.state = "Running" -> State([w EXCEPT !.close = "Signalled"], wc_lib)
      [] w.state = "Retrying" -> DestroyWsclient(w)

\* HandleWsclient_AllowConnect
HandleWsclient_AllowConnect(w) ==
    IF w.state = "Retrying" THEN AttemptWsclientConnect(w) ELSE State(w, wc_lib)

\* HandleWsclient_ActivateScheduledActions
Activate(action) == IF action = "Signalled" THEN "Activated" ELSE action
HandleWsclient_ActivateScheduledActions(w) ==
    State([w EXCEPT !.reconnect = Activate(@), !.close = Activate(@)], wc_lib)

\* Mutant: a record that was begun may expire.
ExpireAny(w, old) == [w EXCEPT !.queue = Only(@, WsQueued \ old)]

\* RemoveExpiredWsclientMessages: not the head once some of it has been sent, and connect records never expire.
RemoveExpiredWsclientMessages(w, old) ==
    [w EXCEPT !.queue = Only(@, {r \in WsQueued : r \notin old \/ (w.tx # 0 /\ r = Head(w.queue))})]

\* Which records expire: at most one, as a fault.
Expiring(old) == IF old = {} THEN UNCHANGED wc_faults ELSE WsFault /\ old \subseteq ToSet(wc.queue)
Old == {{}} \cup {{r} : r \in WsRecs}

\* HandleWsclient_QueueUspRecord.  No two records posted here are equal.
HandleWsclient_QueueUspRecord(w, rec, old) ==
    IF w.state = "Idle" THEN State(w, wc_lib)
    ELSE State([RemoveExpiredWsclientMessages(w, old) EXCEPT !.queue = Append(@, rec)], wc_lib)

\* HandleWsclient_ForceTrustStoreReload: WSCLIENT_Destroy, and a new context without connections
HandleWsclient_ForceTrustStoreReload(w) == DestroyWsclient(w)

\* ServiceWsclientMessageQueue: the first message only
ServiceWsclientMessageQueue(old) ==
    IF wc_msgs = <<>> THEN State(wc, wc_lib)
    ELSE LET m == Head(wc_msgs) IN
         CASE m.type = "StartClient" -> HandleWsclient_StartClient(wc, m.conf)
           [] m.type = "StopClient" -> HandleWsclient_StopClient(wc)
           [] m.type = "AllowConnect" -> HandleWsclient_AllowConnect(wc)
           [] m.type = "ActivateScheduledActions" -> HandleWsclient_ActivateScheduledActions(wc)
           [] m.type = "QueueUspRecord" -> HandleWsclient_QueueUspRecord(wc, m.rec, old)
           [] m.type = "ForceTrustStoreReload" -> HandleWsclient_ForceTrustStoreReload(wc)

\* ServiceWsclientSendQueue
ServiceWsclientSendQueue(w, l) ==
    CASE w.state # "Running" -> State(w, l)
      [] w.state = "Running" /\ w.queue # <<>> -> State(w, [l EXCEPT !.writable = TRUE])
      [] w.state = "Running" /\ w.queue = <<>> /\ w.disconnected -> GracefullyCloseWsclient(w, l, "BadUspRecord")
      [] w.state = "Running" /\ w.queue = <<>> /\ ~w.disconnected /\ w.reconnect = "Activated" ->
            GracefullyCloseWsclient(w, l, "ConnParamsChanged")
      [] w.state = "Running" /\ w.queue = <<>> /\ ~w.disconnected /\ w.reconnect # "Activated" ->
            IF w.close = "Activated" \/ wc_exit = "activated" THEN GracefullyCloseWsclient(w, l, "GracefulClose")
            ELSE State(w, l)

\* AreAllWsclientResponsesSent looks at the queue of the client, not at wsclient_msg_queue.
AreAllWsclientResponsesSent(w) == w.state # "Running" \/ w.queue = <<>>

\* WSCLIENT_Main: one turn of its loop up to lws_service, and the exit of the thread
WSCLIENT_Main ==
    /\ WsLive
    /\ \E old \in Old :
          LET m == ServiceWsclientMessageQueue(old)
              s == ServiceWsclientSendQueue(m.wc, m.lib)
          IN /\ Expiring(old)
             /\ old # {} => wc_msgs # <<>> /\ Head(wc_msgs).type = "QueueUspRecord"
             /\ IF wc_exit = "activated" /\ AreAllWsclientResponsesSent(s.wc)
                THEN wc_exit' = "exited" /\ Become(DestroyWsclient(s.wc))
                ELSE UNCHANGED wc_exit /\ Become(s)
    /\ wc_msgs' = IF wc_msgs = <<>> THEN <<>> ELSE Tail(wc_msgs)
    /\ wc_wire' = IF wc'.state = "Running" THEN wc_wire ELSE <<>>
    /\ UNCHANGED <<wc_conf, wc_may, wc_n, wc_posts, wc_pinged>>
-----------------------------------------------------------------------------
(***************************************************************************)
(* Callbacks of libwebsockets.                                             *)
(***************************************************************************)
WsOthers == <<wc_msgs, wc_conf, wc_may, wc_exit, wc_n, wc_posts>>

\* The connection is gone: Error or Closed, and then Destroyed.
Lost(w) == Become(HandleWscEvent_Destroyed(w)) /\ wc_wire' = <<>>

\* It could not be made, was closed by the server, or was killed (ForceWsclientClose).
ConnectionEnds ==
    /\ WsLive /\ wc.state \in {"AwaitingConnected", "Running"}
    /\ IF wc_lib.kill THEN UNCHANGED wc_faults ELSE WsFault
    /\ Lost(ReasonOr(wc, IF wc.state = "Running" THEN "ServerDisconnect" ELSE "LibWebSocketsError"))
    /\ UNCHANGED <<WsOthers, wc_pinged>>

\* QueueUspConnectRecord_Wsclient: in front, and without the connect and disconnect records of earlier connections
QueueUspConnectRecord_Wsclient(w) ==
    [w EXCEPT !.queue = <<UspConnect>> \o Only(@, WsRecs \ Disconnects)]

\* HandleWscEvent_Connected
HandleWscEvent_Connected ==
    /\ WsLive /\ wc.state = "AwaitingConnected"
    /\ wc' = QueueUspConnectRecord_Wsclient([wc EXCEPT !.state = "Running"])
    /\ UNCHANGED <<WsOthers, wc_lib, wc_wire, wc_faults, wc_pinged>>

\* HandleWscEvent_Receive of a good frame, HandleWscEvent_PongReceived: the server is alive.
HandleWscEvent_PongReceived ==
    /\ WsLive /\ wc.state = "Running" /\ wc.pings # 0
    /\ wc' = [wc EXCEPT !.pings = 0]
    /\ UNCHANGED <<WsOthers, wc_lib, wc_wire, wc_faults, wc_pinged>>

\* HandleWscEvent_Receive of a text frame or of too much, CloseWsclientConnection
HandleWscEvent_ReceiveBad ==
    /\ WsLive /\ wc.state = "Running" /\ WsFault
    /\ Lost(ReasonOr([wc EXCEPT !.pings = 0], "BadUspRecord"))
    /\ UNCHANGED <<WsOthers, wc_pinged>>

\* HandleWscEvent_RetryTimer
HandleWscEvent_RetryTimer ==
    /\ WsLive /\ wc.state = "Retrying" /\ wc_may
    /\ Become(AttemptWsclientConnect(wc))
    /\ UNCHANGED <<WsOthers, wc_wire, wc_faults, wc_pinged>>

\* HandleWscEvent_PingTimer
HandleWscEvent_PingTimer ==
    /\ WsLive /\ wc.state = "Running" /\ wc_pinged < MaxWsPings /\ wc_pinged' = wc_pinged + 1
    /\ Become(State([wc EXCEPT !.ping = TRUE], [wc_lib EXCEPT !.writable = TRUE]))
    /\ UNCHANGED <<WsOthers, wc_wire, wc_faults>>

Writable == WsLive /\ wc.state = "Running" /\ wc_lib.writable
Written == [wc_lib EXCEPT !.writable = FALSE]

\* HandleWscEvent_Transmit, first part: SendWsclientPing
SendWsclientPing ==
    /\ Writable /\ wc.ping
    /\ IF wc.pings > AllowedMissingPongs THEN Lost([wc EXCEPT !.reason = "MissingPong"])
       ELSE /\ Become(State([wc EXCEPT !.ping = FALSE, !.pings = @ + 1], Written))
            /\ UNCHANGED wc_wire
    /\ UNCHANGED <<WsOthers, wc_faults, wc_pinged>>

\* HandleWscEvent_Transmit with nothing to send: the graceful close
TransmitNothing ==
    /\ Writable /\ ~wc.ping /\ wc.queue = <<>>
    /\ IF wc.reason # "Unknown" THEN Lost(wc) ELSE Become(State(wc, Written)) /\ UNCHANGED wc_wire
    /\ UNCHANGED <<WsOthers, wc_faults, wc_pinged>>

\* Writing one chunk of the head of the queue
Transmitted(w) ==
    LET r == Head(w.queue)
        last == w.tx + 1 = WsChunks(r)
    IN [w EXCEPT !.disconnected = @ \/ r \in Disconnects, !.tx = IF last THEN 0 ELSE @ + 1,
                 !.queue = IF last THEN Tail(@) ELSE @]

\* HandleWscEvent_Transmit of a chunk.  USP_ASSERT(bytes_remaining > 0) ends the agent.
HandleWscEvent_Transmit ==
    /\ Writable /\ ~wc.ping /\ wc.queue # <<>>
    /\ \E old \in Old :
          LET w == RemoveExpiredWsclientMessages(wc, old) IN
          /\ Expiring(old)
          /\ IF w.queue = <<>> THEN Become(State(w, Written)) /\ UNCHANGED <<wc_wire, wc_exit>>
             ELSE IF w.tx >= WsChunks(Head(w.queue)) THEN wc_exit' = "aborted" /\ UNCHANGED <<wc, wc_lib, wc_wire>>
             ELSE /\ Become(State(Transmitted(w), Written)) /\ UNCHANGED wc_exit
                  /\ wc_wire' = Append(wc_wire, <<Head(w.queue), w.tx + 1>>)
    /\ UNCHANGED <<wc_msgs, wc_conf, wc_may, wc_n, wc_posts, wc_pinged>>

\* HandleWscEvent_Transmit when lws_write fails
TransmitFails ==
    /\ Writable /\ WsFault
    /\ Lost(IF wc.ping THEN [wc EXCEPT !.reason = "InternalError", !.ping = FALSE, !.pings = @ + 1]
            ELSE ReasonOr(wc, "InternalError"))
    /\ wc.ping => wc.pings <= AllowedMissingPongs
    /\ ~wc.ping => wc.queue # <<>> /\ wc.tx < WsChunks(Head(wc.queue))
    /\ UNCHANGED <<WsOthers, wc_pinged>>
-----------------------------------------------------------------------------
WsNext ==
    \/ WSCLIENT_StartClient \/ WSCLIENT_StopClient \/ WSCLIENT_AllowConnect \/ WSCLIENT_ActivateScheduledActions
    \/ WSCLIENT_QueueBinaryMessage \/ RestartWithNewTrustStore
    \/ WSCLIENT_Main
    \/ ConnectionEnds \/ HandleWscEvent_Connected \/ HandleWscEvent_PongReceived \/ HandleWscEvent_ReceiveBad
    \/ HandleWscEvent_RetryTimer \/ HandleWscEvent_PingTimer
    \/ SendWsclientPing \/ TransmitNothing \/ HandleWscEvent_Transmit \/ TransmitFails

WsSpec == WsInit /\ [][WsNext]_wcVars
-----------------------------------------------------------------------------
\* Values of the variables.
WsTypeOK ==
    /\ wc.state \in {"Idle", "AwaitingConnected", "Running", "Retrying"}
    /\ wc.queue \in Seq(WsQueued) /\ wc.tx \in 0..1 /\ wc.pings \in 0..(AllowedMissingPongs + 1)
    /\ wc.conf \in 0..2 /\ wc.at \in 0..2 /\ (wc.state = "Idle") = (wc.conf = 0)
    /\ wc_lib.writable \/ wc_lib.kill => wc.state \in {"AwaitingConnected", "Running"}
    /\ wc_conf \in 0..2 /\ wc_exit \in {"no", "activated", "exited", "aborted"}

\* A server sees the connect record first, and then whole records, each once and in the order of
\* its chunks: only the last may be unfinished.  Records expire, connections are lost and pings are
\* sent in the middle of a record (wsclient.c:2024, :2148, :2443).
WsWellFramed ==
    /\ wc_wire # <<>> => wc_wire[1] = <<UspConnect, 1>>
    /\ \A i \in 1..Len(wc_wire) :
          /\ wc_wire[i][2] = 1 => i = 1 \/ wc_wire[i - 1][2] = WsChunks(wc_wire[i - 1][1])
          /\ wc_wire[i][2] # 1 => i # 1 /\ wc_wire[i - 1] = <<wc_wire[i][1], wc_wire[i][2] - 1>>

\* The client implements the queue that MtpQueue promises to the data model thread, through lost
\* connections, retries, new parameters, expiries and the reload of the trust store: a record is held
\* until its last chunk is written, it expires unbegun, or the client is destroyed.
WsQueue == INSTANCE MtpQueue WITH
    Records <- WsRecs \ Disconnects,
    open <- wc.state # "Idle",
    up <- wc.state = "Running",
    offered <- (1..wc_n) \ ({wc_msgs[i].rec : i \in {j \in DOMAIN wc_msgs : wc_msgs[j].type = "QueueUspRecord"}} \cup Disconnects),
    held <- ToSet(wc.queue) \ (Disconnects \cup {UspConnect}),
    begun <- wc.state = "Running" /\ wc.tx # 0 /\ Head(wc.queue) \notin Disconnects \cup {UspConnect},
    sent <- LET whole == Only(wc_wire, {<<r, WsChunks(r)>> : r \in WsRecs \ Disconnects})
            IN [i \in DOMAIN whole |-> whole[i][1]]
WsKeepsQueue == WsQueue!QSpec

\* A connection that will last is one to the parameters of the client: when they change, it is closed
\* or marked to be closed, or was not yet made (wsclient.c:1184).
WsParamsCurrent ==
    wc.state \in {"AwaitingConnected", "Running"} /\ wc.at # wc.conf =>
        wc.reconnect # "Off" \/ wc.reason # "Unknown"

\* "true if there are no pending USP Records to send to any controllers over websockets"
\* (wsclient.c:2476): the thread does not exit with a record for a connected controller still to send.
WsExitDrains ==
    [][wc_exit' = "exited" /\ wc_exit # "exited" /\ wc.state = "Running" =>
          \A i \in 1..Len(wc_msgs) : wc_msgs[i].type # "QueueUspRecord"]_wcVars

\* USP_ASSERT(bytes_remaining > 0) (wsclient.c:2098)
WsRemaining == wc_exit # "aborted"

\* What a controller sees of a connection is framed, and the connection is to where it is configured.
WsInv == WsTypeOK /\ WsWellFramed /\ WsParamsCurrent
=============================================================================
