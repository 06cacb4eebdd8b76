------------------------------- MODULE DmExec -------------------------------
(***************************************************************************)
(* The message queues of the data model thread (src/src/core/dm_exec.c).   *)
(*                                                                         *)
(* The data model (DM) thread owns the data model.  Every other thread     *)
(* talks to it through datagram socket pairs of bounded capacity: the MTP  *)
(* threads post the USP Records they receive and the connection events of  *)
(* USP Services, worker threads post signals and work to perform.          *)
(*                                                                         *)
(* While it handles a message the DM thread may send a request to a USP    *)
(* Service and wait for the answer (DM_EXEC_SendRequestAndWaitForResponse).*)
(* For the duration of the wait the flag divert_to_filter_queue makes the  *)
(* MTP threads post to a second queue, the filter queue, that the waiting  *)
(* DM thread reads: it keeps the answer and forwards the rest to the main  *)
(* queue.  The flag is read by the MTP threads and written by the DM       *)
(* thread without a lock, so a post is two steps here: choose the queue,   *)
(* then send.                                                              *)
(***************************************************************************)
EXTENDS Integers, Sequences, Functions

CONSTANTS
    Endpoints,      \* USP Services connected over an MTP
    Mtps,           \* MTP threads
    Workers,        \* threads using USP_SIGNAL_xxx and USP_PROCESS_DoWorkSync
    MtpOf,          \* the MTP thread that serves each endpoint
    MainCap,        \* datagrams the main queue holds before send() fails
    FilterCap,      \* datagrams the filter queue holds before send() fails
    MaxPosts,       \* bound: posts by each MTP thread
    MaxWork,        \* bound: posts by all the worker threads together
    MaxRequests     \* bound: requests the DM thread sends and waits for

ASSUME SendersAssumption == Endpoints \cap Workers = {}
ASSUME MtpOfAssumption   == MtpOf \in [Endpoints -> Mtps]
ASSUME CapAssumption     == MainCap \in Nat \ {0} /\ FilterCap \in Nat \ {0}
ASSUME BoundAssumption   == MaxPosts \in Nat /\ MaxWork \in Nat
                                /\ MaxRequests \in Nat

VARIABLES
    main_mq,                \* the datagrams in main_mq_sockets
    filter_mq,              \* the datagrams in filter_mq_sockets
    divert_to_filter_queue,
    dm_pc,                  \* where the DM thread is
    wanted,                 \* the request it waits for: endpoint and msg_id
    resp,                   \* the answer the last wait returned, or NoMsg
    service,                \* endpoints in the Broker's USP Service table
    conn,                   \* endpoints connected at the MTP layer
    unanswered,             \* requests queued to endpoints, not answered yet
    post,                   \* the message each MTP thread is about to send
    posted,                 \* number of posts each MTP thread has made
    worker,                 \* what each worker thread is doing
    work,                   \* number of posts the workers have made
    next_id,                \* msg_id of the next request
    handled                 \* history: messages the main loop has handled

vars == <<main_mq, filter_mq, divert_to_filter_queue, dm_pc, wanted, resp,
          service, conn, unanswered, post, posted, worker, work, next_id,
          handled>>

-----------------------------------------------------------------------------

\* kDmExecMsg_ProcessUspRecord is split by what the record carries: an answer,
\* a request that USP_BROKER_AttemptPassthru sends on to a USP Service, or a
\* request that it leaves alone.  Signal stands for the messages of the
\* USP_SIGNAL_xxx functions.
MtpKinds == {"Response", "PassthruRequest", "Request", "UdsHandshakeComplete",
             "UdsDisconnected"}
LifecycleKinds == {"UdsHandshakeComplete", "UdsDisconnected"}
WorkKinds == {"DoWorkSync", "Signal"}
Queues == {"main", "filter"}

\* dm_exec_msg_t.  route and seq are history: the queue chosen and the position
\* among the posts of the same thread.
MtpMessage  == [kind: MtpKinds, from: Endpoints, id: Nat, route: Queues,
                seq: Nat]
WorkMessage == [kind: WorkKinds, from: Workers, id: {0}, route: {"main"},
                seq: {0}]
Message == MtpMessage \cup WorkMessage
Request == [to: Endpoints, id: Nat]

NoMsg  == [kind |-> "none"]
NoWait == [to |-> "none", id |-> 0]

DmPcs == {"select", "forward", "handle", "send", "wait"}
WorkerStates == {"idle", "signal", "sync", "sleep"}

TypeOK ==
    /\ main_mq \in Seq(Message)
    /\ filter_mq \in Seq(Message)
    /\ divert_to_filter_queue \in BOOLEAN
    /\ dm_pc \in DmPcs
    /\ wanted \in Request \cup {NoWait}
    /\ dm_pc \in {"send", "wait"} => wanted \in Request
    /\ resp \in Message \cup {NoMsg}
    /\ service \subseteq Endpoints
    /\ conn \subseteq Endpoints
    /\ unanswered \subseteq Request
    /\ post \in [Mtps -> MtpMessage \cup {NoMsg}]
    /\ posted \in [Mtps -> Nat]
    /\ worker \in [Workers -> WorkerStates]
    /\ work \in Nat
    /\ next_id \in Nat
    /\ handled \in Seq(Message)

\* DM_EXEC_Init, and the thread and notification set-up of DM_EXEC_Main.
Init ==
    /\ main_mq = <<>>
    /\ filter_mq = <<>>
    /\ divert_to_filter_queue = FALSE
    /\ dm_pc = "select"
    /\ wanted = NoWait
    /\ resp = NoMsg
    /\ service = {}
    /\ conn = {}
    /\ unanswered = {}
    /\ post = [t \in Mtps |-> NoMsg]
    /\ posted = [t \in Mtps |-> 0]
    /\ worker = [w \in Workers |-> "idle"]
    /\ work = 0
    /\ next_id = 1
    /\ handled = <<>>

\* send() with MSG_DONTWAIT: the datagram is discarded if the queue is full.
SendDontWait(queue, cap, msg) ==
    IF Len(queue) < cap THEN Append(queue, msg) ELSE queue

-----------------------------------------------------------------------------
(* MTP threads.                                                            *)

mtpVars == <<main_mq, filter_mq, post>>
dmVars  == <<divert_to_filter_queue, dm_pc, wanted, resp, service, next_id,
             handled>>

\* An MTP thread forms a message and reads divert_to_filter_queue to decide
\* which queue to send it to.
ChooseQueue(kind, e, id) ==
    LET t == MtpOf[e] IN
    /\ post[t] = NoMsg
    /\ posted[t] < MaxPosts
    /\ posted' = [posted EXCEPT ![t] = @ + 1]
    /\ post' = [post EXCEPT ![t] =
                    [kind |-> kind, from |-> e, id |-> id,
                     route |-> IF divert_to_filter_queue THEN "filter"
                                                         ELSE "main",
                     seq |-> posted[t] + 1]]

\* DM_EXEC_PostUspRecord for a request from e, which may be one that the Broker
\* passes through to another USP Service.
PostUspRecord(e, kind) ==
    /\ kind \in {"Request", "PassthruRequest"}
    /\ e \in conn
    /\ ChooseQueue(kind, e, 0)
    /\ UNCHANGED <<main_mq, filter_mq, conn, unanswered, worker, work>>
    /\ UNCHANGED dmVars

\* DM_EXEC_PostUspRecord for the answer of e to request r.
PostUspResponse(e, r) ==
    /\ e \in conn
    /\ r \in unanswered
    /\ r.to = e
    /\ unanswered' = unanswered \ {r}
    /\ ChooseQueue("Response", e, r.id)
    /\ UNCHANGED <<main_mq, filter_mq, conn, worker, work>>
    /\ UNCHANGED dmVars

PostUdsHandshakeComplete(e) ==
    /\ e \notin conn
    /\ conn' = conn \cup {e}
    /\ ChooseQueue("UdsHandshakeComplete", e, 0)
    /\ UNCHANGED <<main_mq, filter_mq, unanswered, worker, work>>
    /\ UNCHANGED dmVars

\* Requests queued on the connection die with it.
PostUdsDisconnected(e) ==
    /\ e \in conn
    /\ conn' = conn \ {e}
    /\ unanswered' = {r \in unanswered : r.to # e}
    /\ ChooseQueue("UdsDisconnected", e, 0)
    /\ UNCHANGED <<main_mq, filter_mq, worker, work>>
    /\ UNCHANGED dmVars

\* The send() that ends each of the functions above.
SendPost(t) ==
    /\ post[t] # NoMsg
    /\ IF post[t].route = "main"
       THEN /\ main_mq' = SendDontWait(main_mq, MainCap, post[t])
            /\ UNCHANGED filter_mq
       ELSE /\ filter_mq' = SendDontWait(filter_mq, FilterCap, post[t])
            /\ UNCHANGED main_mq
    /\ post' = [post EXCEPT ![t] = NoMsg]
    /\ UNCHANGED <<conn, unanswered, posted, worker, work>>
    /\ UNCHANGED dmVars

-----------------------------------------------------------------------------
(* Worker threads.                                                         *)

\* A worker enters a USP_SIGNAL_xxx function or USP_PROCESS_DoWorkSync.
WorkerCall(w, state) ==
    /\ state \in {"signal", "sync"}
    /\ worker[w] = "idle"
    /\ work < MaxWork
    /\ work' = work + 1
    /\ worker' = [worker EXCEPT ![w] = state]
    /\ UNCHANGED <<conn, unanswered, posted>>
    /\ UNCHANGED mtpVars
    /\ UNCHANGED dmVars

\* Mutant of WorkerSend: the send does not block and its result is ignored.
WorkerSendDontWait(w) ==
    /\ worker[w] \in {"signal", "sync"}
    /\ main_mq' = SendDontWait(main_mq, MainCap,
                    [kind |-> IF worker[w] = "sync" THEN "DoWorkSync"
                                                    ELSE "Signal",
                     from |-> w, id |-> 0, route |-> "main", seq |-> 0])
    /\ worker' = [worker EXCEPT ![w] = IF @ = "sync" THEN "sleep" ELSE "idle"]
    /\ UNCHANGED <<filter_mq, post, conn, unanswered, posted, work>>
    /\ UNCHANGED dmVars

\* BLOCK_UNLESS_DM_THREAD: a worker's send() blocks while the queue is full.
\* The caller of USP_PROCESS_DoWorkSync then sleeps on its condition variable.
WorkerSend(w) ==
    /\ worker[w] \in {"signal", "sync"}
    /\ Len(main_mq) < MainCap
    /\ main_mq' = Append(main_mq,
                    [kind |-> IF worker[w] = "sync" THEN "DoWorkSync"
                                                    ELSE "Signal",
                     from |-> w, id |-> 0, route |-> "main", seq |-> 0])
    /\ worker' = [worker EXCEPT ![w] = IF @ = "sync" THEN "sleep" ELSE "idle"]
    /\ UNCHANGED <<filter_mq, post, conn, unanswered, posted, work>>
    /\ UNCHANGED dmVars

-----------------------------------------------------------------------------
(* The data model thread.                                                  *)

threadVars == <<conn, post, posted, work>>

\* The switch of ProcessMessageQueueSocketActivity: what a message changes in
\* the state kept here.
Handle(msg) ==
    /\ service' = CASE msg.kind = "UdsHandshakeComplete" ->
                            service \cup {msg.from}
                    [] msg.kind = "UdsDisconnected" -> service \ {msg.from}
                    [] OTHER -> service
    /\ worker' = IF msg.kind = "DoWorkSync"
                 THEN [worker EXCEPT ![msg.from] = "idle"]
                 ELSE worker

\* select() found the filter queue readable.  ForwardPendingMessagesOnFilterQueue
\* reuses the socket set for its own select(), so the main queue is not looked
\* at in this iteration of the loop.
SelectFilter ==
    /\ dm_pc = "select"
    /\ filter_mq # <<>>
    /\ dm_pc' = "forward"
    /\ UNCHANGED <<main_mq, filter_mq, divert_to_filter_queue, wanted, resp,
                   service, unanswered, worker, next_id, handled>>
    /\ UNCHANGED threadVars

\* select() found the main queue readable only: one message is taken off it.
SelectMain ==
    /\ dm_pc = "select"
    /\ filter_mq = <<>>
    /\ main_mq # <<>>
    /\ main_mq' = Tail(main_mq)
    /\ Handle(Head(main_mq))
    /\ handled' = Append(handled, Head(main_mq))
    /\ dm_pc' = "handle"
    /\ UNCHANGED <<filter_mq, divert_to_filter_queue, wanted, resp, unanswered,
                   next_id>>
    /\ UNCHANGED threadVars

\* select() timed out: the timers of this iteration may send requests too.
SelectTimeout ==
    /\ dm_pc = "select"
    /\ filter_mq = <<>>
    /\ main_mq = <<>>
    /\ dm_pc' = "handle"
    /\ UNCHANGED <<main_mq, filter_mq, divert_to_filter_queue, wanted, resp,
                   service, unanswered, worker, next_id, handled>>
    /\ UNCHANGED threadVars

\* Mutant of ForwardPendingMessage: it sends on filter_mq_tx_socket.
ForwardToFilterQueue ==
    /\ dm_pc = "forward"
    /\ filter_mq # <<>>
    /\ filter_mq' = Append(Tail(filter_mq), Head(filter_mq))
    /\ UNCHANGED <<main_mq, divert_to_filter_queue, dm_pc, wanted, resp, service,
                   unanswered, worker, next_id, handled>>
    /\ UNCHANGED threadVars

\* One round of the loop of ForwardPendingMessagesOnFilterQueue.  It gives up
\* for this iteration when the main queue is full, after discarding a message.
ForwardPendingMessage ==
    /\ dm_pc = "forward"
    /\ filter_mq # <<>>
    /\ filter_mq' = Tail(filter_mq)
    /\ main_mq' = SendDontWait(main_mq, MainCap, Head(filter_mq))
    /\ dm_pc' = IF Len(main_mq) < MainCap THEN "forward" ELSE "handle"
    /\ UNCHANGED <<divert_to_filter_queue, wanted, resp, service, unanswered,
                   worker, next_id, handled>>
    /\ UNCHANGED threadVars

ForwardEnd ==
    /\ dm_pc = "forward"
    /\ filter_mq = <<>>
    /\ dm_pc' = "handle"
    /\ UNCHANGED <<main_mq, filter_mq, divert_to_filter_queue, wanted, resp,
                   service, unanswered, worker, next_id, handled>>
    /\ UNCHANGED threadVars

\* The handlers and timers of this iteration are done.
HandleEnd ==
    /\ dm_pc = "handle"
    /\ dm_pc' = "select"
    /\ UNCHANGED <<main_mq, filter_mq, divert_to_filter_queue, wanted, resp,
                   service, unanswered, worker, next_id, handled>>
    /\ UNCHANGED threadVars

\* Mutant of DivertPosts: the flag is not set before the request is queued.
DivertNothing(e) ==
    /\ dm_pc = "handle"
    /\ e \in service
    /\ next_id <= MaxRequests
    /\ wanted' = [to |-> e, id |-> next_id]
    /\ next_id' = next_id + 1
    /\ resp' = NoMsg
    /\ dm_pc' = "send"
    /\ UNCHANGED <<main_mq, filter_mq, divert_to_filter_queue, service,
                   unanswered, worker, handled>>
    /\ UNCHANGED threadVars

\* DM_EXEC_SendRequestAndWaitForResponse, first step: posts are diverted before
\* the request is queued.
DivertPosts(e) ==
    /\ dm_pc = "handle"
    /\ e \in service
    /\ next_id <= MaxRequests
    /\ divert_to_filter_queue' = TRUE
    /\ wanted' = [to |-> e, id |-> next_id]
    /\ next_id' = next_id + 1
    /\ resp' = NoMsg
    /\ dm_pc' = "send"
    /\ UNCHANGED <<main_mq, filter_mq, service, unanswered, worker, handled>>
    /\ UNCHANGED threadVars

\* MSG_HANDLER_QueueMessage.  The request is dropped if the connection has gone.
QueueRequest ==
    /\ dm_pc = "send"
    /\ unanswered' = unanswered \cup
                        (IF wanted.to \in conn THEN {wanted} ELSE {})
    /\ dm_pc' = "wait"
    /\ UNCHANGED <<main_mq, filter_mq, divert_to_filter_queue, wanted, resp,
                   service, worker, next_id, handled>>
    /\ UNCHANGED threadVars

\* IsMatchingMsgId: the msg_id and the responder are those waited for.
IsMatchingMsgId(msg) ==
    /\ msg.kind = "Response"
    /\ msg.id = wanted.id
    /\ msg.from = wanted.to

\* The USP Service waited for has disconnected.  The wait ends and the message
\* goes on to the main queue; divert_to_filter_queue is left set.
WaitDisconnected ==
    /\ dm_pc = "wait"
    /\ filter_mq # <<>>
    /\ Head(filter_mq).kind = "UdsDisconnected"
    /\ Head(filter_mq).from = wanted.to
    /\ filter_mq' = Tail(filter_mq)
    /\ main_mq' = SendDontWait(main_mq, MainCap, Head(filter_mq))
    /\ dm_pc' = "handle"
    /\ wanted' = NoWait
    /\ UNCHANGED <<divert_to_filter_queue, resp, service, unanswered, worker,
                   next_id, handled>>
    /\ UNCHANGED threadVars

\* The answer has come.
WaitMatch ==
    /\ dm_pc = "wait"
    /\ filter_mq # <<>>
    /\ IsMatchingMsgId(Head(filter_mq))
    /\ filter_mq' = Tail(filter_mq)
    /\ resp' = Head(filter_mq)
    /\ divert_to_filter_queue' = FALSE
    /\ dm_pc' = "handle"
    /\ wanted' = NoWait
    /\ UNCHANGED <<main_mq, service, unanswered, worker, next_id, handled>>
    /\ UNCHANGED threadVars

\* Mutant of WaitOther: it forwards to the queue it has just read from.
WaitRequeue ==
    /\ dm_pc = "wait"
    /\ filter_mq # <<>>
    /\ LET msg == Head(filter_mq) IN
       /\ ~ (msg.kind = "UdsDisconnected" /\ msg.from = wanted.to)
       /\ ~ IsMatchingMsgId(msg)
       /\ filter_mq' = IF msg.kind = "PassthruRequest"
                       THEN Tail(filter_mq)
                       ELSE Append(Tail(filter_mq), msg)
    /\ UNCHANGED <<main_mq, divert_to_filter_queue, dm_pc, wanted, resp,
                   service, unanswered, worker, next_id, handled>>
    /\ UNCHANGED threadVars

\* Any other message: passed through at once, or forwarded to the main queue.
WaitOther ==
    /\ dm_pc = "wait"
    /\ filter_mq # <<>>
    /\ LET msg == Head(filter_mq) IN
       /\ ~ (msg.kind = "UdsDisconnected" /\ msg.from = wanted.to)
       /\ ~ IsMatchingMsgId(msg)
       /\ filter_mq' = Tail(filter_mq)
       /\ main_mq' = IF msg.kind = "PassthruRequest"
                     THEN main_mq
                     ELSE SendDontWait(main_mq, MainCap, msg)
    /\ UNCHANGED <<divert_to_filter_queue, dm_pc, wanted, resp, service,
                   unanswered, worker, next_id, handled>>
    /\ UNCHANGED threadVars

\* Mutant of WaitTimeout: the loop goes on after the flag has been cleared.
TimeoutGoesOn ==
    /\ dm_pc = "wait"
    /\ divert_to_filter_queue' = FALSE
    /\ UNCHANGED <<main_mq, filter_mq, dm_pc, wanted, resp, service, unanswered,
                   worker, next_id, handled>>
    /\ UNCHANGED threadVars

\* The timeout is tested after each message and when select() times out, so it
\* may strike with messages in the filter queue.
WaitTimeout ==
    /\ dm_pc = "wait"
    /\ divert_to_filter_queue' = FALSE
    /\ dm_pc' = "handle"
    /\ wanted' = NoWait
    /\ UNCHANGED <<main_mq, filter_mq, resp, service, unanswered, worker,
                   next_id, handled>>
    /\ UNCHANGED threadVars

-----------------------------------------------------------------------------

MtpStep ==
    \/ \E e \in Endpoints, k \in {"Request", "PassthruRequest"} :
            PostUspRecord(e, k)
    \/ \E e \in Endpoints, r \in unanswered : PostUspResponse(e, r)
    \/ \E e \in Endpoints : PostUdsHandshakeComplete(e)
    \/ \E e \in Endpoints : PostUdsDisconnected(e)
    \/ \E t \in Mtps : SendPost(t)

WorkerStep ==
    \/ \E w \in Workers, s \in {"signal", "sync"} : WorkerCall(w, s)
    \/ \E w \in Workers : WorkerSend(w)

DmLoopStep ==
    \/ SelectFilter
    \/ SelectMain
    \/ ForwardPendingMessage
    \/ ForwardEnd
    \/ HandleEnd
    \/ QueueRequest
    \/ WaitDisconnected
    \/ WaitMatch
    \/ WaitOther

DmStep ==
    \/ DmLoopStep
    \/ SelectTimeout
    \/ WaitTimeout
    \/ \E e \in Endpoints : DivertPosts(e)

Next == MtpStep \/ WorkerStep \/ DmStep

\* The threads run: the DM thread's loop, a thread inside send(), and the clock
\* that ends a wait.  Nothing makes a peer, a worker or a timer act.
Fairness ==
    /\ WF_vars(DmLoopStep)
    /\ WF_vars(WaitTimeout)
    /\ \A t \in Mtps : WF_vars(SendPost(t))
    /\ \A w \in Workers : SF_vars(WorkerSend(w))

Spec == Init /\ [][Next]_vars
FairSpec == Spec /\ Fairness

-----------------------------------------------------------------------------
(* Properties.                                                             *)

IsWanted(msg) == msg.kind = "Response" /\ msg.id = wanted.id

Posting == {post[t] : t \in Mtps} \ {NoMsg}

InFlight == Range(main_mq) \cup Range(filter_mq) \cup Posting

\* The answer the DM thread waits for never travels by the main queue, which
\* nobody reads during the wait: whichever MTP thread carries it read
\* divert_to_filter_queue after DM_EXEC_SendRequestAndWaitForResponse had set
\* it.  The flag is not protected by a lock.
WantedNeverOnMain ==
    dm_pc = "wait" =>
        /\ \A m \in Range(main_mq) : ~ IsWanted(m)
        /\ \A m \in Posting : IsWanted(m) => m.route = "filter"

\* The parts of WaitInv.
IdsIssued ==
    /\ next_id # 0
    /\ \A r \in unanswered : r.id < next_id
    /\ \A m \in InFlight : m.id < next_id
    /\ dm_pc \in {"send", "wait"} => wanted.id < next_id

DivertedDuringWait == dm_pc \in {"send", "wait"} => divert_to_filter_queue

RequestIsFresh ==
    dm_pc = "send" =>
        /\ \A r \in unanswered : r.id # wanted.id
        /\ \A m \in InFlight : ~ IsWanted(m)

OneResponder ==
    dm_pc = "wait" =>
        /\ \A r \in unanswered : r.id = wanted.id => r.to = wanted.to
        /\ \A m \in InFlight : IsWanted(m) => m.from = wanted.to

\* The inductive strengthening of WantedNeverOnMain.  Every msg_id in flight has
\* been issued; when a wait begins nothing in flight bears its msg_id; during the
\* wait posts are diverted and whatever bears its msg_id comes from the endpoint
\* the request went to, so IsMatchingMsgId accepts it.
WaitInv == /\ IdsIssued
           /\ DivertedDuringWait
           /\ RequestIsFresh
           /\ OneResponder
           /\ WantedNeverOnMain

\* m may be handled before n: they come from different MTP threads, or in this
\* order, or n was diverted to the filter queue and m was not.
MayPrecede(m, n) ==
    ( /\ m.kind \in MtpKinds
      /\ n.kind \in MtpKinds
      /\ MtpOf[m.from] = MtpOf[n.from]
      /\ n.seq < m.seq )
    => n.route = "filter" /\ m.route = "main"

AllPrecede(S, T) == \A m \in S, n \in T : MayPrecede(m, n)
Ordered(s) == \A i, j \in 1..Len(s) : i < j => MayPrecede(s[i], s[j])

\* The only way for the main loop to handle two messages of one MTP thread in
\* the wrong order: the earlier one was diverted to the filter queue and the
\* later one was not.  Forwarding from the filter queue, during a wait or by
\* the main loop, keeps the order otherwise.
OnlyDivertedIsOvertaken == Ordered(handled)

\* The parts of OrderInv.
PostsCounted ==
    /\ \A m \in InFlight \cup Range(handled) :
            m.kind \in MtpKinds => m.seq <= posted[MtpOf[m.from]]
    /\ \A t \in Mtps : post[t] # NoMsg => MtpOf[post[t].from] = t

FilterHoldsDiverted == \A m \in Range(filter_mq) : m.route = "filter"

\* The inductive strengthening of OnlyDivertedIsOvertaken: what has been
\* handled, the main queue, the filter queue and the MTP threads form one line
\* along which nothing is out of order, except as allowed.
OrderInv ==
    /\ PostsCounted
    /\ FilterHoldsDiverted
    /\ Ordered(filter_mq) /\ AllPrecede(Range(filter_mq), Posting)
    /\ Ordered(main_mq)   /\ AllPrecede(Range(main_mq), Range(filter_mq) \cup Posting)
    /\ OnlyDivertedIsOvertaken /\ AllPrecede(Range(handled), InFlight)

Wakes(m, w) == m.from = w /\ m.kind = "DoWorkSync"

\* A thread asleep in USP_PROCESS_DoWorkSync has exactly one message in the main
\* queue that will wake it up: its send() blocks rather than lose the message.
SleeperHasOneMessage ==
    \A w \in Workers :
        LET msgs == {i \in 1..Len(main_mq) : Wakes(main_mq[i], w)}
        IN  IF worker[w] = "sleep"
            THEN \E i \in msgs : msgs = {i}
            ELSE msgs = {}

\* What a reader of dm_exec.c relies on about its queues, in one invariant: the
\* types, the facts behind WantedNeverOnMain, the order in which messages of one
\* MTP thread are handled, and the message a sleeping worker waits for.
DmInv == TypeOK /\ WaitInv /\ OrderInv /\ SleeperHasOneMessage

\* No message is stranded: a thread that read divert_to_filter_queue before a
\* wait ended may send to the filter queue after it, and the flag stays set
\* when a wait ends by a disconnection, yet every message reaches the main loop
\* and every DoWorkSync returns.
EventuallyDrained ==
    <>[] ( /\ main_mq = <<>>
           /\ filter_mq = <<>>
           /\ \A t \in Mtps : post[t] = NoMsg
           /\ \A w \in Workers : worker[w] = "idle" )

\* What the comment in DM_EXEC_PostUdsHandshakeComplete promises: "disconnect and
\* handshake messages are always processed in the correct order".
LifecycleInOrder ==
    \A i, j \in 1..Len(handled) :
        ( /\ i < j
          /\ handled[i].kind \in LifecycleKinds
          /\ handled[j].kind \in LifecycleKinds
          /\ handled[i].from = handled[j].from )
        => handled[i].seq < handled[j].seq

=============================================================================
