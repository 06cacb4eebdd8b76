-------------------------------- MODULE Stomp --------------------------------
(***************************************************************************)
(* One connection to a STOMP broker: stomp.c, with the part of             *)
(* device_stomp.c, device_mtp.c and device_controller.c that drives it.    *)
(*                                                                         *)
(* The data model (DM) thread enables, disables and reconfigures the       *)
(* connection and queues USP records on it; the STOMP thread alternates    *)
(* between STOMP_UpdateAllSockSet and STOMP_ProcessAllSocketActivity.      *)
(* Every call holds stomp_access_mutex, so every call is one action; the   *)
(* threads interleave between them.  The connection slots share nothing    *)
(* but that mutex, so one slot is modelled.  Time is abstracted: a timeout *)
(* may have passed whenever the code looks at the clock.  The network, TLS *)
(* and the broker may do anything at each call.                            *)
(***************************************************************************)
EXTENDS Integers, Sequences, FiniteSets

CONSTANTS
    Controllers,        \* STOMP queues of the controllers on this connection
    AgentQueues,        \* names of queues the agent may subscribe to
    NoQueue,            \* an empty queue name
    NoFrame,            \* txframe == NULL
    RacingConnect,      \* a handshake may be handled while an older connect
                        \* or disconnect record is being transmitted
    MaxStarts,          \* bound: connections established
    MaxChanges,         \* bound: changes of configuration
    MaxRecords,         \* bound: records queued
    MaxQueued           \* bound: length of the send queue

ASSUME NamesAssumption ==
    /\ NoQueue \notin Controllers \cup AgentQueues
    /\ RacingConnect \in BOOLEAN
ASSUME FiniteControllers == IsFiniteSet(Controllers)
ASSUME StompBounds == {MaxStarts, MaxChanges, MaxRecords, MaxQueued} \subseteq Nat

VARIABLES
    sc,                 \* the stomp_connection_t
    mtp_pc,             \* which half of its loop the STOMP thread is at
    want,               \* the configuration held by the data model
    signalled,          \* mtp_reconnect_scheduled
    posts,              \* StompHandshakeComplete messages to the DM thread
    todo,               \* controllers it has still to queue a connect record for
    starts, changes, records

stompVars == <<sc, mtp_pc, want, signalled, posts, todo, starts, changes, records>>

-----------------------------------------------------------------------------
\* Types.

Handshake == {"SendingStompFrame", "AwaitingConnectedFrame", "SendingSubscribeFrame"}
Connected == Handshake \cup {"Running"}
StompState == Connected \cup {"Idle", "Retrying"}
Scheduled == {"Off", "Signalled", "Activated"}

\* params stands for host, port, credentials, heartbeats...: only whether they
\* are the latest ones matters.
Conf == [params : 0 .. MaxChanges, queue : AgentQueues \cup {NoQueue}]

\* A USP record to send.  controller_queue may be empty: the caller takes it
\* from a reply-to header or a parameter that need not be set.
Kind == {"record", "connect", "disconnect"}
Record == [n : 1 .. MaxRecords, kind : Kind, to : Controllers \cup {NoQueue}]

Frame == [kind : {"STOMP", "UNSUBSCRIBE"}]
           \cup [kind : {"SUBSCRIBE"}, dest : AgentQueues]
           \cup [kind : {"SEND"}, rec : Record]

\* failed is failure_code # kStompFailure_None and rx a partial frame in the
\* receive buffer.  History: subscribed is the queue that the broker has
\* subscribed the agent to; unsent are the accepted records that were neither
\* sent, nor expired, nor superseded, nor purged by disabling the connection;
\* missed says that the agent's queue was changed during the handshake.
Connection ==
    [enabled : BOOLEAN, state : StompState, failed : BOOLEAN,
     reconnect : Scheduled, resubscribe : Scheduled,
     perform : SUBSET {"unsub", "sub"},
     cur : Conf, next : Conf, subscribe_dest : AgentQueues \cup {NoQueue},
     rx : BOOLEAN, tx : Frame \cup {NoFrame}, has_record : BOOLEAN,
     queue : Seq(Record),
     subscribed : AgentQueues \cup {NoQueue}, unsent : SUBSET (1 .. MaxRecords),
     missed : BOOLEAN]

ASSUME FrameAssumption == NoFrame \notin Frame

NoConf == [params |-> 0, queue |-> NoQueue]

StompInit ==
    /\ sc = [enabled |-> FALSE, state |-> "Idle", failed |-> FALSE,
             reconnect |-> "Off", resubscribe |-> "Off", perform |-> {},
             cur |-> NoConf, next |-> NoConf, subscribe_dest |-> NoQueue,
             rx |-> FALSE, tx |-> NoFrame, has_record |-> FALSE, queue |-> <<>>,
             subscribed |-> NoQueue, unsent |-> {}, missed |-> FALSE]
    /\ mtp_pc = "update"
    /\ want = NoConf
    /\ signalled = FALSE
    /\ posts = 0
    /\ todo = {}
    /\ starts = 0 /\ changes = 0 /\ records = 0

-----------------------------------------------------------------------------
(***************************************************************************)
(* The functions of stomp.c.  Each takes the connection and gives the      *)
(* connection, or the set of connections, it may be left in.               *)
(***************************************************************************)

StopStompConnection(c, purge) ==
    [c EXCEPT !.state = "Idle", !.subscribe_dest = NoQueue, !.rx = FALSE,
              !.tx = NoFrame, !.queue = IF purge THEN <<>> ELSE @,
              !.subscribed = NoQueue]

InitStompConnection(c) ==
    [c EXCEPT !.state = "Idle", !.reconnect = "Off", !.resubscribe = "Off",
              !.perform = {}, !.subscribe_dest = NoQueue, !.rx = FALSE,
              !.tx = NoFrame, !.has_record = FALSE, !.missed = FALSE]

HandleStompSocketError(c) ==
    [StopStompConnection(c, FALSE) EXCEPT !.failed = TRUE, !.state = "Retrying"]

\* StartSendingFrame_XXX all set up the frame to transmit like this.
StartSendingFrame(c, frame) ==
    [c EXCEPT !.tx = frame, !.has_record = frame.kind = "SEND"]

\* Name lookup, TCP and TLS all succeed and the STOMP frame is ready to send, or
\* one of them fails.
ConnectToServer(c) ==
    {HandleStompSocketError(c),
     [StartSendingFrame(c, [kind |-> "STOMP"]) EXCEPT !.state = "SendingStompFrame"]}

\* Mutant: the connection is made with the parameters of the last one.
StartStompConnectionAsBefore(c) ==
    LET i == InitStompConnection(c)
    IN {[i EXCEPT !.state = "Retrying"]} \cup ConnectToServer(i)

\* DEVICE_CONTROLLER_CanMtpConnect may not allow the connection yet.
StartStompConnection(c) ==
    LET i == InitStompConnection([c EXCEPT !.cur = c.next])
    IN {[i EXCEPT !.state = "Retrying"]} \cup ConnectToServer(i)

\* The queue that SUBSCRIBE names.
AgentQueue(c) == IF c.subscribe_dest # NoQueue THEN c.subscribe_dest ELSE c.cur.queue

\* The queue without the records that have a number in N: the kth of the
\* records that stay is the kth record.
Without(q, N) ==
    LET stay == {i \in DOMAIN q : q[i].n \notin N}
        place(i) == Cardinality({j \in stay : j <= i})
    IN [k \in 1 .. Cardinality(stay) |-> q[CHOOSE i \in stay : place(i) = k]]

\* Remove the queued records with a number in N.
Drop(c, N) == [c EXCEPT !.queue = Without(@, N), !.unsent = @ \ N]

Numbers(q) == {q[i].n : i \in DOMAIN q}

\* Connect records never expire.
RemoveExpiredStompMessages(c) ==
    {Drop(c, N) : N \in SUBSET {c.queue[i].n :
                        i \in {j \in DOMAIN c.queue : c.queue[j].kind # "connect"}}}

GetNextStompMsgToSend(c) ==
    CASE "unsub" \in c.perform ->
           {StartSendingFrame([c EXCEPT !.perform = @ \ {"unsub"}], [kind |-> "UNSUBSCRIBE"])}
      [] "unsub" \notin c.perform /\ "sub" \in c.perform ->
           LET d == [c EXCEPT !.perform = @ \ {"sub"}]
           IN IF AgentQueue(d) = NoQueue
              THEN {HandleStompSocketError(d)}
              ELSE {StartSendingFrame(d, [kind |-> "SUBSCRIBE", dest |-> AgentQueue(d)])}
      [] OTHER ->
           {IF d.queue = <<>> THEN d
            ELSE IF Head(d.queue).to = NoQueue THEN HandleStompSocketError(d)
            ELSE StartSendingFrame(d, [kind |-> "SEND", rec |-> Head(d.queue)])
              : d \in RemoveExpiredStompMessages(c)}

HandleStompRunningState(c) ==
    IF c.tx = NoFrame THEN GetNextStompMsgToSend(c) ELSE {c}

TimedOut(c, states) ==
    {c} \cup {d \in {HandleStompSocketError(c)} : c.state \in states}

UpdateStompConnectionSockSet(c) ==
    UNION {CASE d.state = "Running" -> HandleStompRunningState(d)
             [] d.state = "Retrying" -> {d} \cup StartStompConnection(d)
             [] OTHER -> {d}
           : d \in TimedOut(c, Handshake)}

HandleStompSourceIPAddrChanges(c) ==
    {c} \cup IF c.state \in Connected
             THEN StartStompConnection(StopStompConnection(c, FALSE))
             ELSE {}

ResponsesSent(c) == c.queue = <<>> /\ c.tx = NoFrame /\ ~c.rx

\* Mutant: the reconnect does not wait for the queue to be sent.
ReconnectedAtOnce(c) ==
    IF c.reconnect = "Activated"
    THEN StartStompConnection([StopStompConnection(c, TRUE) EXCEPT !.reconnect = "Off"])
    ELSE {c}

Reconnected(c) ==
    IF c.reconnect = "Activated" /\ ResponsesSent(c)
    THEN StartStompConnection([StopStompConnection(c, TRUE) EXCEPT !.reconnect = "Off"])
    ELSE {c}

Resubscribed(c, responses_sent) ==
    IF c.resubscribe = "Activated" /\ responses_sent
    THEN [c EXCEPT !.cur.queue = c.next.queue, !.resubscribe = "Off",
                   !.perform = {"unsub", "sub"}, !.missed = FALSE]
    ELSE c

\* What STOMP_UpdateAllSockSet does to the connection: poll the source IP
\* address, reconnect, resubscribe, check for a heartbeat timeout (possible
\* once CONNECTED was received) and advance the state machine.
UpdatedSockSet(c) ==
    UNION {UNION {UNION {UpdateStompConnectionSockSet(t)
        : t \in TimedOut(Resubscribed(r, ResponsesSent(i)), {"SendingSubscribeFrame", "Running"})}
        : r \in Reconnected(i)}
        : i \in HandleStompSourceIPAddrChanges(c)}

\* The whole frame has been written.
FrameSent(c) ==
    [c EXCEPT !.tx = NoFrame,
              !.unsent = IF c.tx.kind = "SEND" THEN @ \ {c.tx.rec.n} ELSE @,
              !.subscribed = CASE c.tx.kind = "SUBSCRIBE" -> c.tx.dest
                               [] c.tx.kind = "UNSUBSCRIBE" -> NoQueue
                               [] OTHER -> @]

\* The record at the head of the queue is taken to be the one that was sent.
\* With an empty queue the code dereferences NULL: a crash.
RecordSent(c) ==
    LET d == [c EXCEPT !.queue = Tail(@)]
    IN IF c.queue = <<>> THEN [c EXCEPT !.state = "Crashed"]
       ELSE IF Head(c.queue).kind = "disconnect"
            THEN HandleStompSocketError([d EXCEPT !.has_record = FALSE])
            ELSE d

\* Mutant: the failure of an earlier attempt is not forgotten.
NextStateKeepsFailure(c) ==
    CASE c.state = "SendingStompFrame" -> [c EXCEPT !.state = "AwaitingConnectedFrame"]
      [] c.state = "SendingSubscribeFrame" -> [c EXCEPT !.state = "Running"]
      [] OTHER -> c

NextState(c) ==
    CASE c.state = "SendingStompFrame" -> [c EXCEPT !.state = "AwaitingConnectedFrame"]
      [] c.state = "SendingSubscribeFrame" -> [c EXCEPT !.state = "Running", !.failed = FALSE]
      [] OTHER -> c

\* The write sends a part of the frame, fails, or completes the frame.
TransmitStompMessage(c) ==
    LET d == FrameSent(c)
    IN {c, HandleStompSocketError(c), NextState(IF c.has_record THEN RecordSent(d) ELSE d)}

\* The agent subscribes, which fails when there is no queue to subscribe to.
StartSubscribing(c) ==
    IF AgentQueue(c) = NoQueue
    THEN HandleStompSocketError(c)
    ELSE [StartSendingFrame(c, [kind |-> "SUBSCRIBE", dest |-> AgentQueue(c)])
            EXCEPT !.state = "SendingSubscribeFrame"]

\* A CONNECTED frame, which may name the queue to subscribe to; the buffer may
\* hold the start of another frame after it.
HandleConnectedFrame(c) ==
    UNION {{StartSubscribing([c EXCEPT !.subscribe_dest = q, !.rx = rest]) : rest \in BOOLEAN}
           : q \in AgentQueues \cup {NoQueue}}

\* The read fails or brings an unexpected or oversized frame, or leaves a
\* partial frame, or completes frames; module StompRx has the buffer itself.
ReceiveStompMessage(c) ==
    {HandleStompSocketError(c)}
      \cup IF c.state = "AwaitingConnectedFrame"
           THEN {[c EXCEPT !.rx = TRUE]} \cup HandleConnectedFrame(c)
           ELSE {[c EXCEPT !.rx = rest] : rest \in BOOLEAN}

\* A heartbeat is sent, or fails to be.
UpdateAgentHeartbeat(c) == {c, HandleStompSocketError(c)}

ProcessedActivity(c) ==
    CASE c.state \in {"SendingStompFrame", "SendingSubscribeFrame"} -> {c} \cup TransmitStompMessage(c)
      [] c.state = "AwaitingConnectedFrame" -> {c} \cup ReceiveStompMessage(c)
      [] c.state = "Running" ->
           UNION {IF d.state # "Running" THEN {d}
                  ELSE IF d.tx # NoFrame THEN {d} \cup TransmitStompMessage(d)
                  ELSE {d} \cup UpdateAgentHeartbeat(d)
                  : d \in {c} \cup ReceiveStompMessage(c)}
      [] OTHER -> {c}

-----------------------------------------------------------------------------
\* The STOMP thread.

dmVars == <<want, signalled, todo, changes, records>>

STOMP_UpdateAllSockSet ==
    /\ mtp_pc = "update"
    /\ IF sc.enabled THEN \E c \in UpdatedSockSet(sc) : sc' = c ELSE UNCHANGED sc
    /\ starts' = IF sc'.state = "SendingStompFrame" /\ sc.state # "SendingStompFrame"
                 THEN starts + 1 ELSE starts
    /\ starts' <= MaxStarts
    /\ mtp_pc' = "process"
    /\ UNCHANGED <<posts, dmVars>>

STOMP_ProcessAllSocketActivity ==
    /\ mtp_pc = "process"
    /\ IF sc.enabled THEN \E c \in ProcessedActivity(sc) : sc' = c ELSE UNCHANGED sc
    /\ posts' = IF sc.state = "SendingSubscribeFrame" /\ sc'.state = "Running"
                THEN posts + 1 ELSE posts
    /\ mtp_pc' = "update"
    /\ UNCHANGED <<starts, dmVars>>

-----------------------------------------------------------------------------
\* The DM thread.

mtpVars == <<mtp_pc, starts>>
DmIdle == todo = {}

\* The data model's next configuration.
Changed(c) ==
    /\ DmIdle
    /\ changes < MaxChanges
    /\ changes' = changes + 1
    /\ want' = c

STOMP_EnableConnection(q) ==
    LET c == [params |-> changes + 1, queue |-> q] IN
    /\ ~sc.enabled
    /\ Changed(c)
    /\ sc' = [sc EXCEPT !.enabled = TRUE, !.next = c, !.cur = c, !.failed = FALSE,
                        !.state = "Retrying"]
    /\ UNCHANGED <<signalled, posts, todo, records, mtpVars>>

STOMP_DisableConnection ==
    /\ sc.enabled
    /\ Changed(NoConf)
    /\ sc' = [StopStompConnection(sc, TRUE) EXCEPT !.enabled = FALSE, !.cur = NoConf,
                                                  !.next = NoConf, !.unsent = {}]
    /\ UNCHANGED <<signalled, posts, todo, records, mtpVars>>

STOMP_ScheduleReconnect(q) ==
    LET c == [params |-> changes + 1, queue |-> q] IN
    /\ sc.enabled
    /\ Changed(c)
    /\ sc' = [sc EXCEPT !.next = c, !.reconnect = "Signalled", !.resubscribe = "Off",
                        !.perform = {}]
    /\ signalled' = TRUE
    /\ UNCHANGED <<posts, todo, records, mtpVars>>

\* Mutant: only a connection that is running is thought to be subscribed.
ScheduleResubscribeIfRunning(q) ==
    LET schedule == /\ sc.state = "Running"
                    /\ sc.subscribe_dest = NoQueue
                    /\ sc.reconnect = "Off"
    IN /\ sc.enabled
       /\ q # want.queue
       /\ Changed([want EXCEPT !.queue = q])
       /\ sc' = [sc EXCEPT !.next.queue = q,
                           !.resubscribe = IF schedule THEN "Signalled" ELSE @,
                           !.missed = @ \/ sc.state \in Handshake \ {"SendingSubscribeFrame"}]
       /\ signalled' = (signalled \/ schedule)
       /\ UNCHANGED <<posts, todo, records, mtpVars>>

STOMP_ScheduleResubscribe(q) ==
    LET schedule == /\ sc.state \in {"SendingSubscribeFrame", "Running"}
                    /\ sc.subscribe_dest = NoQueue
                    /\ sc.reconnect = "Off"
    IN /\ sc.enabled
       /\ q # want.queue
       /\ Changed([want EXCEPT !.queue = q])
       /\ sc' = [sc EXCEPT !.next.queue = q,
                           !.resubscribe = IF schedule THEN "Signalled" ELSE @,
                           !.missed = @ \/ sc.state \in Handshake \ {"SendingSubscribeFrame"}]
       /\ signalled' = (signalled \/ schedule)
       /\ UNCHANGED <<posts, todo, records, mtpVars>>

\* Called when the responses to the message that changed the configuration
\* have been queued.
STOMP_ActivateScheduledActions ==
    /\ DmIdle
    /\ signalled
    /\ LET active(s) == IF s = "Signalled" THEN "Activated" ELSE s
       IN sc' = [sc EXCEPT !.reconnect = active(@), !.resubscribe = active(@)]
    /\ signalled' = FALSE
    /\ UNCHANGED <<want, posts, todo, changes, records, mtpVars>>

\* Mutant: expired records are removed while one is being transmitted.
QueueBinaryMessageExpiring(kind, to) ==
    LET r == [n |-> records + 1, kind |-> kind, to |-> to] IN
    /\ DmIdle
    /\ sc.enabled
    /\ records < MaxRecords
    /\ Len(sc.queue) < MaxQueued
    /\ \E c \in RemoveExpiredStompMessages(sc) :
          sc' = [c EXCEPT !.queue = Append(@, r), !.unsent = @ \cup {r.n}]
    /\ records' = records + 1
    /\ UNCHANGED <<want, signalled, posts, todo, changes, mtpVars>>

\* A record that is already in the queue is not queued again.
STOMP_QueueBinaryMessage(kind, to) ==
    LET r == [n |-> records + 1, kind |-> kind, to |-> to] IN
    /\ DmIdle
    /\ sc.enabled
    /\ records < MaxRecords
    /\ Len(sc.queue) < MaxQueued
    /\ \E c \in IF sc.tx = NoFrame THEN RemoveExpiredStompMessages(sc) ELSE {sc} :
          sc' = [c EXCEPT !.queue = Append(@, r), !.unsent = @ \cup {r.n}]
    /\ records' = records + 1
    /\ UNCHANGED <<want, signalled, posts, todo, changes, mtpVars>>

\* The DM thread takes a StompHandshakeComplete message and queues a connect
\* record for every controller on the connection, each under its own lock.
HandshakeComplete ==
    /\ DmIdle
    /\ posts > 0
    /\ records + Cardinality(Controllers) <= MaxRecords
    /\ posts' = posts - 1
    /\ todo' = Controllers
    /\ UNCHANGED <<sc, want, signalled, changes, records, mtpVars>>

\* Older connect and disconnect records to the controller are removed,
\* whether or not one of them is being transmitted.
QueueUspConnectRecord_STOMP(c, r) ==
    LET stale == {i \in DOMAIN c.queue : c.queue[i].kind # "record" /\ c.queue[i].to = r.to}
        d == Drop(c, {c.queue[i].n : i \in stale})
    IN [d EXCEPT !.queue = IF ~d.has_record \/ d.queue = <<>>
                           THEN <<r>> \o @
                           ELSE <<Head(@), r>> \o Tail(@),
                 !.unsent = @ \cup {r.n}]

InFlight(to) ==
    /\ sc.tx # NoFrame
    /\ sc.tx.kind = "SEND"
    /\ sc.tx.rec.kind # "record"
    /\ sc.tx.rec.to = to

QueueStompConnectRecord(to) ==
    LET r == [n |-> records + 1, kind |-> "connect", to |-> to] IN
    /\ to \in todo
    /\ RacingConnect \/ ~InFlight(to)
    /\ todo' = todo \ {to}
    /\ IF sc.enabled
       THEN sc' = QueueUspConnectRecord_STOMP(sc, r) /\ records' = records + 1
       ELSE UNCHANGED <<sc, records>>
    /\ UNCHANGED <<want, signalled, posts, changes, mtpVars>>

StompNext ==
    \/ STOMP_UpdateAllSockSet
    \/ STOMP_ProcessAllSocketActivity
    \/ \E q \in AgentQueues \cup {NoQueue} :
          \/ STOMP_EnableConnection(q)
          \/ STOMP_ScheduleReconnect(q)
          \/ STOMP_ScheduleResubscribe(q)
    \/ STOMP_DisableConnection
    \/ STOMP_ActivateScheduledActions
    \/ \E kind \in {"record", "disconnect"}, to \in Controllers \cup {NoQueue} :
          STOMP_QueueBinaryMessage(kind, to)
    \/ HandshakeComplete
    \/ \E to \in Controllers : QueueStompConnectRecord(to)

StompSpec == StompInit /\ [][StompNext]_stompVars

-----------------------------------------------------------------------------
\* Properties.

\* Every variable has its type.
StompTypeOK ==
    /\ sc \in Connection
    /\ mtp_pc \in {"update", "process"}
    /\ want \in Conf
    /\ signalled \in BOOLEAN
    /\ posts \in Nat
    /\ todo \subseteq Controllers
    /\ starts \in 0 .. MaxStarts /\ changes \in 0 .. MaxChanges /\ records \in 0 .. MaxRecords

\* The frame being transmitted is the one the state machine is waiting to send,
\* a connection in good health shows no failure, and one that is stopped has no
\* frame: the conditions that STOMP_GetConnectionStatus, the processing of the
\* sockets and StartSendingFrame_XXX assert.
FramePhase ==
    /\ sc.state = "SendingStompFrame" => sc.tx = [kind |-> "STOMP"]
    /\ sc.state = "SendingSubscribeFrame" =>
          sc.tx = [kind |-> "SUBSCRIBE", dest |-> AgentQueue(sc)]
    /\ sc.state \notin Connected \/ sc.state = "AwaitingConnectedFrame" => sc.tx = NoFrame
    /\ sc.state = "Running" /\ sc.tx # NoFrame => sc.tx.kind # "STOMP"
    /\ sc.state = "Running" => ~sc.failed
    /\ sc.enabled = (sc.state # "Idle")

\* The record being transmitted is the one at the head of the send queue, which
\* is the one TransmitStompMessage removes when the frame has been sent.
InFlightIsHead ==
    sc.tx # NoFrame => /\ sc.has_record = (sc.tx.kind = "SEND")
                       /\ sc.has_record => sc.queue # <<>> /\ sc.tx.rec = Head(sc.queue)

\* A record accepted for sending stays in the queue through failures, retries,
\* reconnects and changes of the source IP address, until it has been sent,
\* has expired, is superseded by a new connect record, or the connection is
\* disabled.
Lossless == sc.unsent = Numbers(sc.queue)

\* A connection for which no reconnect is scheduled uses the parameters that
\* the data model holds.
ParamsCurrent ==
    sc.state \in Connected /\ sc.reconnect = "Off" => sc.cur.params = want.params

\* When nothing is scheduled or under way, the broker has subscribed the agent
\* to the queue it dictated, or else to the one that the data model holds,
\* unless that was changed before the handshake got to SUBSCRIBE.
QueueCurrent ==
    /\ sc.state = "Running"
    /\ sc.reconnect = "Off" /\ sc.resubscribe = "Off" /\ sc.perform = {}
    /\ sc.tx # NoFrame => sc.tx.kind = "SEND"
    /\ ~sc.missed
    => sc.subscribed = IF sc.subscribe_dest # NoQueue THEN sc.subscribe_dest ELSE want.queue

\* The send side of a connection: the frame in the buffer fits the state and the
\* head of the queue, and no record accepted for sending is lost.
SendQueueKept == StompTypeOK /\ FramePhase /\ InFlightIsHead /\ Lossless

\* A connection settles on the parameters and the queue of the data model,
\* however reconnects, resubscriptions and failures overlap.
ConfigurationCurrent == ParamsCurrent /\ QueueCurrent
==============================================================================
