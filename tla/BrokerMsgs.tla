----------------------------- MODULE BrokerMsgs -----------------------------
(***************************************************************************)
(* Messages between controllers and a USP Service that go through the      *)
(* Broker: commands in progress (the Request table and req_map), requests  *)
(* passed through (msg_map), and notifications.  While the DM thread waits *)
(* for an answer of the service it still passes messages through.  The     *)
(* capacity of its queues, and messages left in the filter queue, are      *)
(* modelled in DmExec; a message that arrives during a wait is looked at   *)
(* at once here.                                                           *)
(***************************************************************************)
EXTENDS Integers, Sequences, FiniteSets, SequencesExt, FiniteSetsExt

CONSTANTS
    CommandKeys,    \* command keys that controllers choose
    LocalLimit,     \* max_concurrency of the command of the agent itself
    EarlyOperate,   \* commands may arrive before notifications are enabled
    DisableSubs,    \* a controller may disable its subscription, as well as delete it
    MaxOperates, MaxPassed, MaxNotified, MaxBmFaults,
    MaxBmQueue      \* length of the queue at which controllers wait

ASSUME BrokerMsgsAssumption ==
    /\ LocalLimit \in Nat \ {0} /\ EarlyOperate \in BOOLEAN /\ DisableSubs \in BOOLEAN
    /\ {MaxOperates, MaxPassed, MaxNotified, MaxBmFaults, MaxBmQueue} \subseteq Nat

VARIABLES
    bm,         \* state of the DM thread: see BmInit
    bm_q,       \* main_mq
    bm_at,      \* "idle", or what it waits for
    bm_conn,    \* number of the connection of the service, and whether it is up
    bm_svc,     \* the service: request it was asked, commands that run, requests to answer, its subscription
    bm_workers, \* threads of the command of the agent itself
    bm_accepted, bm_reported,   \* commands that a controller was told were started, and completed
    bm_assert,  \* an assertion failed
    bm_n, bm_passed, bm_notified, bm_faults

bmBounds == <<bm_n, bm_passed, bm_notified, bm_faults>>
bmVars == <<bm, bm_q, bm_at, bm_conn, bm_svc, bm_workers, bm_accepted, bm_reported, bm_assert, bmBounds>>

NoService == [asked |-> "none", running |-> {}, owes |-> {}, sub |-> FALSE]

\* req: rows of Device.LocalAgent.Request; map: req_map; msgs: msg_map; us: connection of the service that is known,
\* 0 for none; on: notifications are enabled; sub: the subscription of the controller; smap: subs_map has it; cur: the
\* command being started.  The op of an entry is the command it was made for.
BmInit ==
    /\ bm = [req |-> {}, map |-> {}, msgs |-> {}, us |-> 0, on |-> FALSE, sub |-> "none", smap |-> FALSE, cur |-> 0]
    /\ bm_q = <<>> /\ bm_at = "idle" /\ bm_conn = [no |-> 0, up |-> FALSE] /\ bm_svc = NoService
    /\ bm_workers = {} /\ bm_accepted = {} /\ bm_reported = {} /\ bm_assert = FALSE
    /\ bm_n = 0 /\ bm_passed = 0 /\ bm_notified = 0 /\ bm_faults = 0

\* A request that reaches the service
Reached == bm_conn.up /\ bm.us = bm_conn.no
ToService(s) == bm_svc' = IF Reached THEN s ELSE bm_svc
-----------------------------------------------------------------------------
(***************************************************************************)
(* device_request.c.                                                       *)
(***************************************************************************)
Row(inst) == CHOOSE r \in bm.req : r.inst = inst
IsRequestInstanceValid(inst) == \E r \in bm.req : r.inst = inst

\* DM_INST_VECTOR_GetNextInstance: a number may be used again
NextInstance == Max({0} \cup {r.inst : r \in bm.req}) + 1
DEVICE_REQUEST_CountMatchingRequests(cmd) == Cardinality({r \in bm.req : r.cmd = cmd})
DEVICE_REQUEST_Add(cmd, key, op) == bm.req \cup {[inst |-> NextInstance, cmd |-> cmd, key |-> key, status |-> "Requested", op |-> op]}
DeleteInstance(req, inst) == {r \in req : r.inst # inst}

\* DEVICE_REQUEST_OperationComplete for instances of the table
DEVICE_REQUEST_OperationComplete(b, insts) ==
    /\ bm' = [b EXCEPT !.req = {r \in @ : r.inst \notin insts}]
    /\ bm_reported' = bm_reported \cup {r.op : r \in {s \in b.req : s.inst \in insts}}

DEVICE_REQUEST_UpdateOperationStatus(inst) ==
    bm' = [bm EXCEPT !.req = {IF r.inst = inst THEN [r EXCEPT !.status = "Active"] ELSE r : r \in @}]

\* DEVICE_REQUEST_RestartAsyncOperations: the command of the agent is started again or not; a command of the service
\* cannot be.
DEVICE_REQUEST_RestartAsyncOperations ==
    \E again \in SUBSET {r \in bm.req : r.cmd = "local"} :
       /\ DEVICE_REQUEST_OperationComplete([bm EXCEPT !.on = TRUE], {r.inst : r \in bm.req \ again})
       /\ bm_workers' = bm_workers \cup {[inst |-> r.inst, op |-> r.op] : r \in again}
-----------------------------------------------------------------------------
(***************************************************************************)
(* Requests that are passed through.                                       *)
(***************************************************************************)
PassTypes == {"GET", "SET", "ADD", "DELETE"}

\* What each request needs of every path: the groups that provide the objects are the service alone, and the role has
\* the permissions, in search expressions too.
Owned(r) == r.groups = {"service"} /\ (r.search => "GET" \in r.perms)
AttemptPassThruForGetRequest(r) == r.type = "GET" /\ Owned(r) /\ "GET" \in r.perms
AttemptPassThruForSetRequest(r) == r.type = "SET" /\ Owned(r) /\ "SET" \in r.perms
AttemptPassThruForAddRequest(r) == r.type = "ADD" /\ Owned(r) /\ {"ADD", "SET"} \subseteq r.perms
AttemptPassThruForDeleteRequest(r) == r.type = "DELETE" /\ Owned(r) /\ "DEL" \in r.perms

Permitted(r) ==
    \/ AttemptPassThruForGetRequest(r) \/ AttemptPassThruForSetRequest(r)
    \/ AttemptPassThruForAddRequest(r) \/ AttemptPassThruForDeleteRequest(r)

\* PassThruToUspService, with a message id of the Broker
PassThruToUspService(id) ==
    /\ bm' = [bm EXCEPT !.msgs = @ \cup {id}]
    /\ ToService([bm_svc EXCEPT !.owes = @ \cup {id}])
    /\ UNCHANGED bm_assert

\* Mutant: the entry is kept.
AnsweredTwice(id) == UNCHANGED <<bm, bm_assert>>

\* AttemptPassThruForResponse: back to the originator, if the request is known
AttemptPassThruForResponse(id) == bm' = [bm EXCEPT !.msgs = @ \ {id}] /\ UNCHANGED bm_assert

\* DEVICE_SUBSCRIPTION_RouteNotificationWithFds, of a notification whose subscription is in subs_map
AttemptPassThruForNotification ==
    /\ bm_assert' = (bm_assert \/ bm.sub # "enabled")
    /\ UNCHANGED <<bm, bm_svc>>

\* USP_BROKER_AttemptPassthru.  An OperComplete is not passed through.
Passable(m) ==
    \/ m.type = "request" /\ m.permitted /\ bm.us # 0
    \/ m.type = "response" /\ m.id \in bm.msgs
    \/ m.type = "notify" /\ bm.smap
USP_BROKER_AttemptPassthru(m) ==
    CASE m.type = "request" -> PassThruToUspService(m.id)
      [] m.type = "response" -> AttemptPassThruForResponse(m.id) /\ UNCHANGED bm_svc
      [] m.type = "notify" -> AttemptPassThruForNotification

\* A message arrives at the DM thread: it waits its turn, unless it can be passed through in a wait (IsMatchingMsgId).
Arrives(m) ==
    IF bm_at # "idle" /\ Passable(m)
    THEN USP_BROKER_AttemptPassthru(m) /\ UNCHANGED bm_q
    ELSE bm_q' = Append(bm_q, m) /\ UNCHANGED <<bm, bm_svc, bm_assert>>
-----------------------------------------------------------------------------
(***************************************************************************)
(* Controllers, the service and threads of the agent.                      *)
(***************************************************************************)
Others == UNCHANGED <<bm_at, bm_accepted, bm_reported>>
Room == Len(bm_q) < MaxBmQueue

ControllerOperates ==
    /\ Room /\ bm_n < MaxOperates /\ bm_n' = bm_n + 1 /\ (EarlyOperate \/ bm.on)
    /\ \E cmd \in {"local", "service"}, key \in CommandKeys :
          Arrives([type |-> "operate", cmd |-> cmd, key |-> key, op |-> bm_n'])
    /\ Others /\ UNCHANGED <<bm_conn, bm_workers, bm_passed, bm_notified, bm_faults>>

\* The first connection of an MTP, after which notifications are enabled
MtpConnects ==
    /\ ~bm.on /\ \A i \in DOMAIN bm_q : bm_q[i].type # "connected"
    /\ Arrives([type |-> "connected"]) /\ Others /\ UNCHANGED <<bm_conn, bm_workers, bmBounds>>

ControllerRequests ==
    /\ Room /\ bm_passed < MaxPassed /\ bm_passed' = bm_passed + 1
    /\ \E r \in [type : PassTypes, groups : {{"service"}, {"service", "none"}}, search : BOOLEAN,
                 perms : {{"GET"}, {"ADD"}, {"SET", "ADD", "DEL"}, {"GET", "SET", "ADD", "DEL"}}] :
          Arrives([type |-> "request", id |-> bm_passed', permitted |-> Permitted(r)])
    /\ Others /\ UNCHANGED <<bm_conn, bm_workers, bm_n, bm_notified, bm_faults>>

\* A controller changes or deletes its subscription.
ControllerSubscribes ==
    /\ Room /\ bm_notified < MaxNotified /\ bm_notified' = bm_notified + 1
    /\ \E sub \in {"none", "enabled"} \cup (IF DisableSubs THEN {"disabled"} ELSE {}) : Arrives([type |-> "sub", sub |-> sub])
    /\ Others /\ UNCHANGED <<bm_conn, bm_workers, bm_n, bm_passed, bm_faults>>

WorkerEnds ==
    /\ \E w \in bm_workers : /\ bm_workers' = bm_workers \ {w}
                             /\ Arrives([type |-> "complete", inst |-> w.inst, op |-> w.op])
    /\ Others /\ UNCHANGED <<bm_conn, bmBounds>>

\* The service answers requests that were passed to it, notifies, and completes commands.
FromService == bm_conn.up /\ Others /\ UNCHANGED <<bm_conn, bm_workers, bm_n, bm_passed, bm_faults>>
ServiceResponds ==
    /\ FromService /\ UNCHANGED bm_notified
    /\ \E id \in bm_svc.owes :
          /\ bm_svc' = [bm_svc EXCEPT !.owes = @ \ {id}]
          /\ IF bm_at # "idle" /\ id \in bm.msgs THEN AttemptPassThruForResponse(id) /\ UNCHANGED bm_q
             ELSE bm_q' = Append(bm_q, [type |-> "response", id |-> id]) /\ UNCHANGED <<bm, bm_assert>>
ServiceNotifies ==
    /\ FromService /\ bm_svc.sub /\ Room /\ bm_notified < MaxNotified /\ bm_notified' = bm_notified + 1 /\ Arrives([type |-> "notify"])
ServiceCompletes ==
    /\ FromService /\ UNCHANGED <<bm, bm_assert, bm_notified>>
    /\ \E c \in bm_svc.running : /\ bm_svc' = [bm_svc EXCEPT !.running = @ \ {c}]
                                 /\ bm_q' = IF bm_svc.sub THEN Append(bm_q, [type |-> "opercomplete", key |-> c]) ELSE bm_q

\* The connection of the service comes and goes: what it had to do is lost.  A wait ends when it goes.
ServiceConnects ==
    /\ ~bm_conn.up /\ bm_faults < MaxBmFaults /\ bm_faults' = bm_faults + 1
    /\ bm_conn' = [no |-> bm_conn.no + 1, up |-> TRUE] /\ bm_svc' = NoService
    /\ bm_q' = Append(bm_q, [type |-> "here", no |-> bm_conn'.no])
    /\ Others /\ UNCHANGED <<bm, bm_workers, bm_assert, bm_n, bm_passed, bm_notified>>
-----------------------------------------------------------------------------
(***************************************************************************)
(* The DM thread.                                                          *)
(***************************************************************************)
Idle(type) == bm_at = "idle" /\ bm_q # <<>> /\ Head(bm_q).type = type
Handled == bm_q' = Tail(bm_q)

\* HandleMtpConnected enables notifications
HandleConnected ==
    /\ Idle("connected") /\ Handled /\ DEVICE_REQUEST_RestartAsyncOperations
    /\ UNCHANGED <<bm_at, bm_conn, bm_svc, bm_accepted, bm_assert, bmBounds>>

\* MSG_HANDLER_HandleOperate of the command of the agent
OperateLocal ==
    LET m == Head(bm_q)
        ok == DEVICE_REQUEST_CountMatchingRequests("local") < LocalLimit
    IN /\ Idle("operate") /\ m.cmd = "local" /\ Handled
       /\ bm' = IF ok THEN [bm EXCEPT !.req = DEVICE_REQUEST_Add("local", m.key, m.op)] ELSE bm
       /\ bm_workers' = IF ok THEN bm_workers \cup {[inst |-> NextInstance, op |-> m.op]} ELSE bm_workers
       /\ bm_accepted' = IF ok THEN bm_accepted \cup {m.op} ELSE bm_accepted
       /\ UNCHANGED <<bm_at, bm_conn, bm_svc, bm_reported, bm_assert, bmBounds>>

\* USP_BROKER_CheckAsyncCommandIsSubscribedTo: the subscription stands for those to values and to completion.
CheckAsyncCommandIsSubscribedTo == bm.smap

\* ReqMap_Find
ReqMap_Find(key) == \E e \in bm.map : e.key = key

\* Broker_AsyncOperate, up to the wait.  The command is refused when the service has gone or works on it already.
Broker_AsyncOperate ==
    LET m == Head(bm_q) IN
    /\ Idle("operate") /\ m.cmd = "service" /\ Handled
    /\ IF bm.us = 0 \/ ~CheckAsyncCommandIsSubscribedTo \/ ReqMap_Find(m.key)
       THEN UNCHANGED <<bm, bm_svc, bm_at>>
       ELSE /\ bm' = [bm EXCEPT !.req = DEVICE_REQUEST_Add("service", m.key, m.op), !.cur = NextInstance,
                                !.map = @ \cup {[inst |-> NextInstance, key |-> m.key, op |-> m.op]}]
            /\ ToService([bm_svc EXCEPT !.asked = m.key])
            /\ bm_at' = "operate"
    /\ UNCHANGED <<bm_conn, bm_workers, bm_accepted, bm_reported, bm_assert, bmBounds>>

\* Mutant: the entry of req_map outlives the failure.
KeepsEntry(b) == [b EXCEPT !.req = DeleteInstance(@, b.cur), !.cur = 0]

\* The command could not be started: ReqMap_Remove, and the transaction is aborted (MSG_HANDLER_HandleOperate).
OperateFailed(b) == [b EXCEPT !.req = DeleteInstance(@, b.cur), !.map = DeleteInstance(@, b.cur), !.cur = 0]

\* It was, and its answer says that it runs, or that it is finished.
OperateStarted(complete) ==
    LET op == Row(bm.cur).op IN
    /\ bm' = [bm EXCEPT !.map = IF complete THEN DeleteInstance(@, bm.cur) ELSE @, !.cur = 0]
    /\ bm_q' = bm_q \o <<[type |-> "status", inst |-> bm.cur]>>
                    \o (IF complete THEN <<[type |-> "complete", inst |-> bm.cur, op |-> op]>> ELSE <<>>)
    /\ bm_accepted' = bm_accepted \cup {op}

\* SendOperateAndProcessResponse: the service answers in time.
ServiceAnswersOperate ==
    /\ bm_at = "operate" /\ Reached /\ bm_svc.asked # "none" /\ bm_at' = "idle"
    /\ \E answer \in {"path", "args", "failure"} :
          /\ bm_svc' = [bm_svc EXCEPT !.asked = "none", !.running = IF answer = "path" THEN @ \cup {bm_svc.asked} ELSE @]
          /\ IF answer = "failure" THEN bm' = OperateFailed(bm) /\ UNCHANGED <<bm_q, bm_accepted>>
             ELSE OperateStarted(answer = "args")
    /\ UNCHANGED <<bm_conn, bm_workers, bm_reported, bm_assert, bmBounds>>

\* The end of the other waits: subs_map follows whatever the answer was, except for a subscription that was not made.
SubWaitEnds(ok) ==
    [bm EXCEPT !.smap = (bm_at = "subscribe" /\ ok), !.sub = IF bm_at = "delete" THEN "none" ELSE @]
ServiceAnswersSub ==
    /\ bm_at \in {"subscribe", "disable", "delete"} /\ Reached /\ bm_at' = "idle"
    /\ \E ok \in BOOLEAN : /\ bm' = SubWaitEnds(ok)
                           /\ bm_svc' = IF ok THEN [bm_svc EXCEPT !.sub = (bm_at = "subscribe")] ELSE bm_svc
    /\ UNCHANGED <<bm_q, bm_conn, bm_workers, bm_accepted, bm_reported, bm_assert, bmBounds>>

\* A wait ends without an answer.
Unanswered == bm_at' = "idle" /\ bm' = IF bm_at = "operate" THEN OperateFailed(bm) ELSE SubWaitEnds(FALSE)

\* RESPONSE_TIMEOUT: the service may have done what it was asked.
WaitTimesOut ==
    /\ bm_at # "idle" /\ bm_faults < MaxBmFaults /\ bm_faults' = bm_faults + 1 /\ Unanswered
    /\ LET s == [bm_svc EXCEPT !.asked = "none"]
           done == IF bm_at = "operate" THEN [s EXCEPT !.running = @ \cup ({bm_svc.asked} \ {"none"})]
                                        ELSE [s EXCEPT !.sub = (bm_at = "subscribe")]
       IN bm_svc' \in (IF Reached THEN {s, done} ELSE {s})
    /\ UNCHANGED <<bm_q, bm_conn, bm_workers, bm_accepted, bm_reported, bm_assert, bm_n, bm_passed, bm_notified>>
ServiceDisconnects ==
    /\ bm_conn.up /\ bm_conn' = [bm_conn EXCEPT !.up = FALSE] /\ bm_svc' = NoService
    /\ bm_q' = Append(bm_q, [type |-> "gone"])
    /\ IF bm_at # "idle" THEN Unanswered ELSE UNCHANGED <<bm, bm_at>>
    /\ UNCHANGED <<bm_workers, bm_accepted, bm_reported, bm_assert, bmBounds>>

\* kDmExecMsg_OperComplete and kDmExecMsg_OperStatus: what a thread, or the Broker, signalled about an instance
HandleSignal ==
    LET m == Head(bm_q) IN
    /\ (Idle("complete") \/ Idle("status")) /\ Handled
    /\ IF m.type = "complete" /\ IsRequestInstanceValid(m.inst)
       THEN DEVICE_REQUEST_OperationComplete(bm, {m.inst})
       ELSE UNCHANGED bm_reported /\ (IF m.type = "status" THEN DEVICE_REQUEST_UpdateOperationStatus(m.inst) ELSE UNCHANGED bm)
    /\ UNCHANGED <<bm_at, bm_conn, bm_svc, bm_workers, bm_accepted, bm_assert, bmBounds>>

\* USP_BROKER_HandleNotification of an OperComplete: it is routed, then DeleteMatchingOperateRequest; one
\* whose subscription is not in subs_map is refused.
HandleOperComplete ==
    LET m == Head(bm_q)
        e == {x \in bm.map : x.key = m.key /\ bm.smap}
    IN /\ Idle("opercomplete") /\ Handled
       /\ DEVICE_REQUEST_OperationComplete([bm EXCEPT !.map = @ \ e], {x.inst : x \in e})
       /\ UNCHANGED <<bm_at, bm_conn, bm_svc, bm_workers, bm_accepted, bm_assert, bmBounds>>

\* Messages that may be passed through; others are handled by the agent, or refused.
HandlePassable ==
    LET m == Head(bm_q) IN
    /\ (Idle("request") \/ Idle("response") \/ Idle("notify")) /\ Handled
    /\ IF Passable(m) THEN USP_BROKER_AttemptPassthru(m) ELSE UNCHANGED <<bm, bm_svc, bm_assert>>
    /\ UNCHANGED <<bm_at, bm_conn, bm_workers, bm_accepted, bm_reported, bmBounds>>

\* NotifyChange_SubsEnable changes the subscription before the service is asked, NotifySubsDeleted after.
HandleSub ==
    LET s == Head(bm_q).sub IN
    /\ Idle("sub") /\ Handled
    /\ bm' = [bm EXCEPT !.sub = IF (@ = "none" /\ s = "disabled") \/ (bm.smap /\ s = "none") THEN @ ELSE s]
    /\ bm_at' = CASE s = "enabled" /\ bm.sub # "enabled" /\ bm.us # 0 -> "subscribe"
                  [] s = "disabled" /\ bm.smap -> "disable"
                  [] s = "none" /\ bm.smap -> "delete"
                  [] OTHER -> "idle"
    /\ UNCHANGED <<bm_conn, bm_svc, bm_workers, bm_accepted, bm_reported, bm_assert, bmBounds>>

\* HandleUspServiceAgentDisconnect: subs_map and msg_map are emptied, commands in progress fail.
HandleUspServiceAgentDisconnect ==
    /\ Idle("gone") /\ Handled
    /\ DEVICE_REQUEST_OperationComplete([bm EXCEPT !.us = 0, !.smap = FALSE, !.msgs = {}, !.map = {}], {e.inst : e \in bm.map})
    /\ UNCHANGED <<bm_at, bm_conn, bm_svc, bm_workers, bm_accepted, bm_assert, bmBounds>>

\* USP_BROKER_AddUspService and the registration that follows, which starts the subscriptions (UspBroker)
USP_BROKER_AddUspService ==
    /\ Idle("here") /\ Handled
    /\ bm' = [bm EXCEPT !.us = Head(bm_q).no]
    /\ bm_at' = IF bm.sub = "enabled" THEN "subscribe" ELSE "idle"
    /\ UNCHANGED <<bm_conn, bm_svc, bm_workers, bm_accepted, bm_reported, bm_assert, bmBounds>>

\* The agent stops and starts again: what was committed to the database is kept, commands that were started too.
AgentRestarts ==
    /\ bm_faults < MaxBmFaults /\ bm_faults' = bm_faults + 1
    /\ bm' = [bm EXCEPT !.req = DeleteInstance(@, bm.cur), !.cur = 0, !.map = {}, !.msgs = {}, !.us = 0, !.on = FALSE, !.smap = FALSE]
    /\ bm_q' = <<>> /\ bm_at' = "idle" /\ bm_conn' = [bm_conn EXCEPT !.up = FALSE]
    /\ bm_svc' = NoService /\ bm_workers' = {}
    /\ UNCHANGED <<bm_accepted, bm_reported, bm_assert, bm_n, bm_passed, bm_notified>>

BmNext ==
    \/ MtpConnects \/ ControllerOperates \/ ControllerRequests \/ ControllerSubscribes \/ WorkerEnds
    \/ ServiceResponds \/ ServiceNotifies \/ ServiceCompletes \/ ServiceConnects \/ ServiceDisconnects
    \/ HandleConnected \/ OperateLocal \/ Broker_AsyncOperate \/ ServiceAnswersOperate \/ ServiceAnswersSub \/ WaitTimesOut
    \/ HandleSignal \/ HandleOperComplete \/ HandlePassable \/ HandleSub \/ HandleUspServiceAgentDisconnect
    \/ USP_BROKER_AddUspService \/ AgentRestarts

BmSpec == BmInit /\ [][BmNext]_bmVars
-----------------------------------------------------------------------------
\* The values of the variables.
BmTypeOK ==
    /\ bm_at \in {"idle", "operate", "subscribe", "disable", "delete"} /\ bm.sub \in {"none", "enabled", "disabled"}
    /\ \A r, s \in bm.req : r.inst = s.inst => r = s
    /\ bm.cur # 0 <=> bm_at = "operate"

Queued(type) == {bm_q[i] : i \in {j \in DOMAIN bm_q : bm_q[j].type = type}}

\* Nobody forgets a command: one that a controller was told of has a row in the Request table until its completion was
\* notified (DEVICE_REQUEST_OperationComplete), each row has somebody who will complete it, and whoever holds the number
\* of a row means the command it was made for, although numbers are used again (Broker_AsyncOperate, req_map,
\* USP_SIGNAL_OperationComplete).
CommandsAccounted ==
    LET owners == bm.map \cup bm_workers \cup Queued("complete") IN
    /\ bm_accepted \subseteq bm_reported \cup {r.op : r \in bm.req}
    /\ bm.on => \A r \in bm.req : \E o \in owners : o.inst = r.inst
    /\ \A o \in owners : \E r \in bm.req : r.inst = o.inst /\ r.op = o.op

\* A request that was passed through is remembered exactly as long as its answer may come: the service has it or has
\* answered it, unless its connection went and the Broker has yet to hear of that (PassThruToUspService,
\* AttemptPassThruForResponse, HandleUspServiceAgentDisconnect).
PassedOn ==
    \A id \in bm.msgs : \/ id \in bm_svc.owes \/ \E m \in Queued("response") : m.id = id
                        \/ Queued("gone") # {}

\* The Broker will hear of the end of every command that the service was given: "necessary because otherwise the
\* Broker will not know when the USP Command has completed and hence will never delete the request from the Broker's
\* Request table" (USP_BROKER_CheckAsyncCommandIsSubscribedTo).
CompletionHeard == \A e \in bm.map : bm.smap \/ e.inst = bm.cur

\* "USP_ASSERT(sub->enable == true)" (DEVICE_SUBSCRIPTION_RouteNotificationWithFds) holds for every notification that
\* is passed through.
NotifiedSubEnabled == ~bm_assert

\* The Broker's tables of commands and of requests that it passed on hold what is going on, and nothing else.
BrokerMsgsInv == BmTypeOK /\ CommandsAccounted /\ PassedOn
=============================================================================
