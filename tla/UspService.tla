----------------------------- MODULE UspService -----------------------------
(***************************************************************************)
(* The agent running as a USP Service (usp_service.c).  Vendor threads     *)
(* call the blocking USP_SERVICE_* functions: the request is built on the  *)
(* caller's stack, posted to the data model thread, sent to the broker and *)
(* linked into usp_service_req_list, and the caller sleeps on a semaphore  *)
(* until the response, a timeout or the agent's stop posts it.  The same   *)
(* data model thread registers the service's objects with the broker.      *)
(*                                                                         *)
(* A request is named after the vendor thread that owns its stack frame,   *)
(* so a thread in two places of the list is a dangling pointer.  The       *)
(* counter of CalcUspServiceMessageId is read and written by every caller  *)
(* without a lock, hence in two steps.                                     *)
(***************************************************************************)
EXTENDS Integers, Sequences, Functions

CONSTANTS
  Vendors,          \* the vendor threads
  ServiceOps,       \* the kinds of request they make, of "get", "add", ...
  MaxCalls,         \* bound: calls made by all the threads
  MaxRegisters,     \* bound: Register requests sent
  MaxSvcFaults      \* bound: messages lost and connections dropped

ASSUME UspServiceAssumption ==
  /\ MaxCalls \in Nat /\ MaxRegisters \in Nat /\ MaxSvcFaults \in Nat
  /\ "dm" \notin Vendors

VARIABLES
  vendor,       \* Vendors -> the thread's request_t and where it is
  msgCount,     \* static count of CalcUspServiceMessageId
  doWork,       \* kDmExecMsg_DoWork messages in the main queue
  reqList,      \* usp_service_req_list
  svcTimers,    \* sync timers of the requests: label -> enabled
  label,        \* next timeout_id
  toBroker,     \* requests on their way to the broker
  fromBroker,   \* responses on their way back
  brokerAgent,  \* connection of usp_broker_agent_endpoint_id, 0 when NULL
  udsConn,      \* the connection that is up, 0 when none
  register,     \* register_msg_id (0: NULL), and what the log says of it
  svcFaults,    \* messages lost and connections dropped so far
  svcStopped    \* USP_SERVICE_Stop has run

svcVars == <<vendor, msgCount, doWork, reqList, svcTimers, label, toBroker,
             fromBroker, brokerAgent, udsConn, register, svcFaults, svcStopped>>

Results == {<<"ok">>, <<"ok", "fail">>}

NoReq == [pc |-> "idle", op |-> "set", seen |-> 0, id |-> 0, sem |-> 0,
          tid |-> 0, err |-> "none", own |-> "none", calls |-> 0]

TotalCalls == LET n[s \in SUBSET Vendors] ==
                    IF s = {} THEN 0
                    ELSE LET w == CHOOSE x \in s : TRUE
                         IN  vendor[w].calls + n[s \ {w}]
              IN  n[Vendors]

SvcInit ==
  /\ vendor = [w \in Vendors |-> NoReq]
  /\ msgCount = 0 /\ doWork = << >> /\ reqList = << >>
  /\ svcTimers = << >> /\ label = 1
  /\ toBroker = {} /\ fromBroker = {}
  /\ brokerAgent = 0 /\ udsConn = 0
  /\ register = [id |-> 0, sent |-> 0, log |-> "none"]
  /\ svcFaults = 0 /\ svcStopped = FALSE

-----------------------------------------------------------------------------
(* A vendor thread.                                                        *)

\* The request_t that USP_SERVICE_Get, ..., USP_SERVICE_Operate fill in on
\* their stack before they ask for a message id.
NewRequest(op, n) ==
  [NoReq EXCEPT !.pc = "count", !.op = op, !.seen = msgCount, !.calls = n]

\* CalcUspServiceMessageId, first half: count is read into a register.  A
\* thread that has been given a result before makes its next call here.
ReadCount(w, op) ==
  /\ ~svcStopped /\ vendor[w].pc = "idle" /\ TotalCalls < MaxCalls
  /\ vendor' = [vendor EXCEPT ![w] = NewRequest(op, vendor[w].calls + 1)]
  /\ UNCHANGED <<msgCount, doWork, reqList, svcTimers, label, toBroker,
                 fromBroker, brokerAgent, udsConn, register, svcFaults, svcStopped>>

\* CalcUspServiceMessageId, second half: count is written back and printed
\* into the message id.
CalcUspServiceMessageId(w) ==
  /\ vendor[w].pc = "count"
  /\ msgCount' = vendor[w].seen + 1
  /\ vendor' = [vendor EXCEPT ![w].pc = "perform", ![w].id = vendor[w].seen + 1]
  /\ UNCHANGED <<doWork, reqList, svcTimers, label, toBroker, fromBroker,
                 brokerAgent, udsConn, register, svcFaults, svcStopped>>

\* PerformUspServiceRequest while no broker is known: an error at once.
NotConnectedYet(w) ==
  /\ vendor[w].pc = "perform" /\ brokerAgent = 0
  /\ vendor' = [vendor EXCEPT ![w] = [NoReq EXCEPT !.calls = vendor[w].calls]]
  /\ UNCHANGED <<msgCount, doWork, reqList, svcTimers, label, toBroker,
                 fromBroker, brokerAgent, udsConn, register, svcFaults, svcStopped>>

\* PerformUspServiceRequest up to sem_wait.  USP_PROCESS_DoWork's return
\* code is not looked at; the main queue exists by the time a broker does.
PerformUspServiceRequest(w) ==
  /\ vendor[w].pc = "perform" /\ brokerAgent # 0
  /\ vendor' = [vendor EXCEPT ![w].pc = "wait", ![w].err = "fail", ![w].sem = 0]
  /\ doWork' = Append(doWork, w)
  /\ UNCHANGED <<msgCount, reqList, svcTimers, label, toBroker, fromBroker,
                 brokerAgent, udsConn, register, svcFaults, svcStopped>>

\* sem_wait returns: the stack frame, and the request in it, go.
Return(w) ==
  /\ vendor[w].pc = "wait" /\ vendor[w].sem > 0
  /\ vendor' = [vendor EXCEPT ![w] = [NoReq EXCEPT !.calls = vendor[w].calls]]
  /\ UNCHANGED <<msgCount, doWork, reqList, svcTimers, label, toBroker,
                 fromBroker, brokerAgent, udsConn, register, svcFaults, svcStopped>>

-----------------------------------------------------------------------------
(* The data model thread: requests.                                        *)

\* MSG_HANDLER_QueueMessage to the broker's agent connection: the UDS MTP
\* drops a message for a connection that is no longer there.
Sent(m) == IF brokerAgent = udsConn /\ udsConn # 0 THEN toBroker \cup {m} ELSE toBroker

\* MSG_UTILS_Create_*Req: the message sent for a thread's request.
RequestMsg(w) == [id |-> vendor[w].id, of |-> w, call |-> vendor[w].calls,
                  op |-> vendor[w].op]

\* A mutant: SYNC_TIMER_Add is forgotten.
QueuesUntimed ==
  /\ ~svcStopped /\ doWork # << >>
  /\ LET w == Head(doWork)
     IN  /\ doWork' = Tail(doWork)
         /\ toBroker' = Sent(RequestMsg(w))
         /\ vendor' = [vendor EXCEPT ![w].tid = label]
         /\ label' = label + 1
         /\ reqList' = Append(reqList, w)
         /\ svcTimers' = Append(svcTimers, FALSE)
  /\ UNCHANGED <<msgCount, fromBroker, brokerAgent, udsConn, register,
                 svcFaults, svcStopped>>

\* On the data model thread: the message is queued to the broker, the request
\* is linked and its timer started.
QueueUspServiceRequest ==
  /\ ~svcStopped /\ doWork # << >>
  /\ LET w == Head(doWork)
     IN  /\ doWork' = Tail(doWork)
         /\ toBroker' = Sent(RequestMsg(w))
         /\ vendor' = [vendor EXCEPT ![w].tid = label]
         /\ label' = label + 1
         /\ reqList' = Append(reqList, w)
         /\ svcTimers' = Append(svcTimers, TRUE)
  /\ UNCHANGED <<msgCount, fromBroker, brokerAgent, udsConn, register,
                 svcFaults, svcStopped>>

\* MSG_UTILS_ProcessUspService_*Response: what the response means for a
\* request of kind op.  An Add creates exactly one
\* object and an Operate runs exactly one command.
ResponseError(op, r) ==
  IF \/ r.type # op
     \/ op \in {"add", "operate"} /\ Len(r.results) # 1
     \/ \E i \in 1..Len(r.results) : r.results[i] # "ok"
  THEN "fail" ELSE "ok"

\* The places in the list of the requests with this message id.
Matches(id) == {i \in DOMAIN reqList : vendor[reqList[i]].id = id}
IsFirstOf(i, places) == i \in places /\ \A j \in places : i <= j

\* A mutant: only the first request of the list is ever unlinked.
OnlyHead(s, i) == IF i = 1 THEN Tail(s) ELSE s

\* DLLIST_Unlink of the request in place i.
Unlink(s, i) == [j \in 1..(Len(s) - 1) |-> IF j < i THEN s[j] ELSE s[j + 1]]

\* USP_SERVICE_AsController_IsExpectedResponse: the first request of the
\* list with the response's id is given its result, unlinked and woken.
ExpectedResponse(r) ==
  /\ ~svcStopped /\ r \in fromBroker /\ r.type # "register"
  /\ \E i \in DOMAIN reqList :
       LET w == reqList[i]
       IN  /\ IsFirstOf(i, Matches(r.id))
           /\ vendor' = [vendor EXCEPT
                ![w].err = ResponseError(vendor[w].op, r), ![w].sem = @ + 1,
                ![w].own = IF r.of = w /\ r.call = vendor[w].calls
                           THEN "own" ELSE "other"]
           /\ reqList' = Unlink(reqList, i)
           /\ svcTimers' = [svcTimers EXCEPT ![vendor[w].tid] = FALSE]
  /\ fromBroker' = fromBroker \ {r}
  /\ UNCHANGED <<msgCount, doWork, label, toBroker, brokerAgent, udsConn,
                 register, svcFaults, svcStopped>>

\* Any other response but a Register's: the caller has given up on it.
UnexpectedResponse(r) ==
  /\ ~svcStopped /\ r \in fromBroker /\ r.type # "register" /\ Matches(r.id) = {}
  /\ fromBroker' = fromBroker \ {r}
  /\ UNCHANGED <<vendor, msgCount, doWork, reqList, svcTimers, label, toBroker,
                 brokerAgent, udsConn, register, svcFaults, svcStopped>>

\* SYNC_TIMER_Execute disables the timer, which stays in the vector, and
\* HandleUspServiceControllerMessageResponseTimeout looks for its request.
ResponseTimeout(t) ==
  /\ ~svcStopped /\ t \in DOMAIN svcTimers /\ svcTimers[t]
  /\ svcTimers' = [svcTimers EXCEPT ![t] = FALSE]
  /\ LET late == {i \in DOMAIN reqList : vendor[reqList[i]].tid = t}
     IN  \/ late = {} /\ UNCHANGED <<vendor, reqList>>
         \/ \E i \in late :
              /\ IsFirstOf(i, late)
              /\ vendor' = [vendor EXCEPT ![reqList[i]].err = "fail",
                                          ![reqList[i]].sem = @ + 1]
              /\ reqList' = Unlink(reqList, i)
  /\ UNCHANGED <<msgCount, doWork, label, toBroker, fromBroker, brokerAgent,
                 udsConn, register, svcFaults, svcStopped>>

\* USP_SERVICE_Stop: every listed request fails and is woken.  The MTP
\* threads are gone by then, and the connection with them.
USP_SERVICE_Stop ==
  /\ ~svcStopped
  /\ vendor' = [w \in Vendors |->
       IF w \in Range(reqList)
       THEN [vendor[w] EXCEPT !.err = "fail", !.sem = @ + 1] ELSE vendor[w]]
  /\ reqList' = << >> /\ toBroker' = {} /\ fromBroker' = {}
  /\ brokerAgent' = 0 /\ svcStopped' = TRUE
  /\ UNCHANGED <<msgCount, doWork, svcTimers, label, udsConn, register, svcFaults>>

-----------------------------------------------------------------------------
(* The data model thread: the connection and the registration.             *)

\* ProcessUdsHandshakeComplete on the path to the broker's agent.
SetBrokerAgent ==
  /\ ~svcStopped /\ udsConn # 0 /\ brokerAgent # udsConn
  /\ brokerAgent' = udsConn
  /\ UNCHANGED <<vendor, msgCount, doWork, reqList, svcTimers, label, toBroker,
                 fromBroker, udsConn, register, svcFaults, svcStopped>>

\* USP_SERVICE_QueueRegisterRequest, after the handshake or from the CLI: a
\* path outside the schema ends it before anything is sent.
QueueRegisterRequest ==
  /\ ~svcStopped /\ udsConn # 0 /\ register.sent < MaxRegisters
  /\ msgCount' = msgCount + 1
  /\ register' = [id |-> msgCount + 1, sent |-> register.sent + 1, log |-> "waiting"]
  /\ toBroker' = toBroker \cup {[id |-> msgCount + 1, of |-> "dm",
                                 call |-> register.sent + 1, op |-> "register"]}
  /\ UNCHANGED <<vendor, doWork, reqList, svcTimers, label, fromBroker,
                 brokerAgent, udsConn, svcFaults, svcStopped>>

\* USP_SERVICE_HandleRegisterResp: a response is for the last Register sent
\* or it is ignored.
HandleRegisterResp(r) ==
  /\ ~svcStopped /\ r \in fromBroker /\ r.type = "register"
  /\ fromBroker' = fromBroker \ {r}
  /\ register' = IF register.id # r.id THEN register
                 ELSE [register EXCEPT !.id = 0, !.log = IF r.results = <<"ok">>
                                                         THEN "registered" ELSE "refused"]
  /\ UNCHANGED <<vendor, msgCount, doWork, reqList, svcTimers, label, toBroker,
                 brokerAgent, udsConn, svcFaults, svcStopped>>

-----------------------------------------------------------------------------
(* Outside: the broker and the Unix domain socket.                         *)

\* The broker answers a request with a result of its kind.
BrokerAnswers(m, res) ==
  /\ ~svcStopped /\ m \in toBroker
  /\ toBroker' = toBroker \ {m}
  /\ fromBroker' = fromBroker \cup {[id |-> m.id, of |-> m.of, call |-> m.call,
                                     type |-> m.op, results |-> res]}
  /\ UNCHANGED <<vendor, msgCount, doWork, reqList, svcTimers, label,
                 brokerAgent, udsConn, register, svcFaults, svcStopped>>

\* The connection goes with everything on it, and comes up again.
ConnectionLost ==
  /\ ~svcStopped /\ udsConn # 0 /\ svcFaults < MaxSvcFaults
  /\ udsConn' = 0 /\ toBroker' = {} /\ fromBroker' = {} /\ svcFaults' = svcFaults + 1
  /\ UNCHANGED <<vendor, msgCount, doWork, reqList, svcTimers, label,
                 brokerAgent, register, svcStopped>>

ConnectionUp ==
  /\ ~svcStopped /\ udsConn = 0 /\ udsConn' = svcFaults + 1
  /\ UNCHANGED <<vendor, msgCount, doWork, reqList, svcTimers, label, toBroker,
                 fromBroker, brokerAgent, register, svcFaults, svcStopped>>

-----------------------------------------------------------------------------
VendorStep(w) ==
  \/ CalcUspServiceMessageId(w) \/ NotConnectedYet(w)
  \/ PerformUspServiceRequest(w) \/ Return(w)

Responses == \E r \in fromBroker : ExpectedResponse(r) \/ UnexpectedResponse(r)
Timeouts == \E t \in DOMAIN svcTimers : ResponseTimeout(t)

SvcNext ==
  \/ \E w \in Vendors, op \in ServiceOps : ReadCount(w, op)
  \/ \E w \in Vendors : VendorStep(w)
  \/ QueueUspServiceRequest \/ Responses \/ Timeouts \/ USP_SERVICE_Stop
  \/ SetBrokerAgent \/ QueueRegisterRequest
  \/ \E r \in fromBroker : HandleRegisterResp(r)
  \/ \E m \in toBroker, res \in Results : BrokerAnswers(m, res)
  \/ ConnectionLost \/ ConnectionUp

\* The scheduler runs every thread, the data model thread serves its queue,
\* and a request's timer expires; the broker and the vendor promise nothing.
SvcFairness ==
  /\ \A w \in Vendors : WF_svcVars(VendorStep(w))
  /\ WF_svcVars(QueueUspServiceRequest)
  /\ WF_svcVars(Timeouts)

SvcSpec == SvcInit /\ [][SvcNext]_svcVars /\ SvcFairness

-----------------------------------------------------------------------------
(* Properties.                                                             *)

VendorReq ==
  [pc : {"idle", "count", "perform", "wait"}, op : ServiceOps \cup {"set"},
   seen : Nat, id : Nat, sem : Nat, tid : Nat, err : {"none", "ok", "fail"},
   own : {"none", "own", "other"}, calls : Nat]

\* The variables hold what the C types and the list discipline allow.
SvcTypeOK ==
  /\ vendor \in [Vendors -> VendorReq]
  /\ doWork \in Seq(Vendors) /\ reqList \in Seq(Vendors)
  /\ svcTimers \in Seq(BOOLEAN) /\ label = Len(svcTimers) + 1
  /\ msgCount \in Nat /\ svcStopped \in BOOLEAN
  /\ register \in [id : Nat, sent : Nat, log : {"none", "waiting", "registered", "refused"}]

\* The request's timer is in the vector and enabled.
TimerRuns(w) == vendor[w].tid \in DOMAIN svcTimers /\ svcTimers[vendor[w].tid]

\* PerformUspServiceRequest keeps the request on its own stack and sleeps:
\* a sleeping thread has exactly one wake-up to come (it is in the main
\* queue, or listed with a running timer, or already posted), and nothing
\* the data model thread holds points into the frame of a thread that is
\* not asleep.  Between the queueing, the response, the timeout and the
\* stop, a second post or a kept link would be a use after return.
OneWakeToCome ==
  /\ IsInjective(doWork) /\ IsInjective(reqList)
  /\ \A w \in Vendors :
       LET queued == w \in Range(doWork)
           listed == w \in Range(reqList)
       IN  IF vendor[w].pc = "wait"
           THEN \/ queued /\ ~listed /\ vendor[w].sem = 0
                \/ ~queued /\ listed /\ vendor[w].sem = 0 /\ TimerRuns(w)
                \/ ~queued /\ ~listed /\ vendor[w].sem = 1
           ELSE ~queued /\ ~listed

\* Listed requests have timers of their own (the rolling label of
\* QueueUspServiceRequest), so a timeout gives up on the right one.
TimersApart ==
  \A v, w \in Range(reqList) : vendor[v].tid = vendor[w].tid => v = w

\* Every blocking call returns: with the response, by its timeout, or from
\* the stop.  Only a request that is still in the main queue when the agent
\* stops is excused: nobody wakes its thread any more.
CallsReturn ==
  \A w \in Vendors :
    (vendor[w].pc = "wait")
      ~> (vendor[w].pc # "wait" \/ (svcStopped /\ w \in Range(doWork)))

\* usp_service.c:1228 and 1245 ("unique"): the result a call returns is that
\* of its own request.
OwnAnswer == \A w \in Vendors : vendor[w].own # "other"

\* The threads of the vendor and the data model thread agree on who waits.
SvcInv == SvcTypeOK /\ OneWakeToCome /\ TimersApart
=============================================================================
