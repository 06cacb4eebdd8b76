-------------------------- MODULE AgentExitProofs --------------------------
(***************************************************************************)
(* Proofs about AgentExit, for every set of MTP threads that is compiled   *)
(* in, every queue capacity and every bound.                               *)
(***************************************************************************)
EXTENDS AgentExit, TLAPS

USE MtpAssumption, CapAssumption, BoundAssumption

\* The builds whose exit is orderly: some MTP has a wakeup socket, so that
\* MTP_EXEC_ActivateScheduledActions does not exit by itself, and there is no
\* websocket client, whose message queue the exit test overlooks.
OrderlyBuild == WakeupThreads # {} /\ "WSCLIENT" \notin MtpThreads

-----------------------------------------------------------------------------
(* Queues.                                                                 *)

LEMMA RangeType ==
    ASSUME NEW S, NEW q \in Seq(S)
    PROVE  Range(q) \subseteq S
  BY DEF Range

LEMMA AppendRange ==
    ASSUME NEW S, NEW q \in Seq(S), NEW e \in S
    PROVE  Range(Append(q, e)) = Range(q) \cup {e}
  <1>1. Range(Append(q, e)) \subseteq Range(q) \cup {e}
    BY DEF Range
  <1>2. e \in Range(Append(q, e))
    <2>1. Len(q) + 1 \in 1..Len(Append(q, e)) /\ Append(q, e)[Len(q) + 1] = e
      OBVIOUS
    <2> QED
      BY <2>1 DEF Range
  <1>3. ASSUME NEW i \in 1..Len(q)
        PROVE  q[i] \in Range(Append(q, e))
    <2>1. i \in 1..Len(Append(q, e)) /\ Append(q, e)[i] = q[i]
      OBVIOUS
    <2> QED
      BY <2>1 DEF Range
  <1> QED
    BY <1>1, <1>2, <1>3 DEF Range

LEMMA ReadRange ==
    ASSUME NEW S, NEW q \in Seq(S), q # <<>>
    PROVE  /\ Head(q) \in S
           /\ Head(q) \in Range(q)
           /\ Tail(q) \in Seq(S)
           /\ Range(Tail(q)) \subseteq Range(q)
  <1>1. Len(q) \in Nat /\ Len(q) # 0 /\ Head(q) = q[1] /\ Head(q) \in S
    OBVIOUS
  <1>2. Tail(q) \in Seq(S)
    OBVIOUS
  <1>3. \A i \in 1..Len(Tail(q)) : i + 1 \in 1..Len(q) /\ Tail(q)[i] = q[i + 1]
    BY <1>1
  <1> QED
    BY <1>1, <1>2, <1>3 DEF Range

\* A discarding send adds the message or leaves the queue as it is.
LEMMA SendFacts ==
    ASSUME main_mq \in Seq(Message), NEW m \in Message
    PROVE  /\ SendDontWait(m) \in Seq(Message)
           /\ Range(SendDontWait(m)) \subseteq Range(main_mq) \cup {m}
  BY AppendRange DEF SendDontWait

-----------------------------------------------------------------------------
(* Type correctness.                                                       *)

LEMMA MtpStepType ==
    ASSUME TypeOK, NEW t \in MtpThreads,
           \/ ThreadStep(t)
           \/ MtpTimeout(t)
           \/ \E k \in {"Request", "RebootRequest"} : MtpReceive(t, k)
    PROVE  TypeOK'
  <1> USE DEF dmVars, inVars, exitVars, ThreadPcs, Threads
  <1>1. CASE MtpSend(t)
    <2>1. Tail(send_queue[t]) \in Seq(Responses)
      BY <1>1, ReadRange DEF MtpSend, TypeOK
    <2> QED
      BY <1>1, <2>1 DEF MtpSend, TypeOK
  <1>2. CASE MtpWake(t)
    BY <1>2 DEF MtpWake, TypeOK
  <1>3. CASE MtpCheckExit(t)
    BY <1>3 DEF MtpCheckExit, TypeOK
  <1>4. CASE MtpDestroy(t)
    <2>1. Range(send_queue[t]) \subseteq Responses
      BY RangeType DEF TypeOK
    <2>2. lost' \subseteq Responses
      BY <1>4, <2>1 DEF MtpDestroy, TypeOK
    <2> QED
      BY <1>4, <2>2 DEF MtpDestroy, TypeOK
  <1>5. CASE t = "WSCLIENT" /\ WsclientLoop
    <2> DEFINE msg == IF wsclient_msg_queue = <<>> THEN "none"
                                                   ELSE Head(wsclient_msg_queue)
               rest == IF msg = "none" THEN <<>> ELSE Tail(wsclient_msg_queue)
               queue == IF msg \in Responses THEN Append(send_queue[t], msg)
                                             ELSE send_queue[t]
    <2>1. rest \in Seq(Responses \cup {"Activate"})
      BY ReadRange DEF TypeOK
    <2>2. queue \in Seq(Responses)
      BY DEF TypeOK
    <2> HIDE DEF rest, queue
    <2>3. /\ send_queue' = [send_queue EXCEPT ![t] = queue]
          /\ wsclient_msg_queue' = <<>> \/ wsclient_msg_queue' = rest
          /\ lost' \subseteq lost \cup Responses
          /\ pc' \in {[pc EXCEPT ![t] = "post"], [pc EXCEPT ![t] = "select"]}
      BY <1>5 DEF WsclientLoop, rest, queue
    <2>4. wsclient_msg_queue' \in Seq(Responses \cup {"Activate"})
      <3>1. <<>> \in Seq(Responses \cup {"Activate"})
        OBVIOUS
      <3> QED
        BY <2>1, <2>3, <3>1, Zenon
    <2> QED
      BY <1>5, <2>2, <2>3, <2>4 DEF WsclientLoop, TypeOK
  <1>6. CASE t = "WSSERVER" /\ WsserverLoop
    BY <1>6 DEF WsserverLoop, TypeOK
  <1>7. CASE MtpTimeout(t)
    BY <1>7 DEF MtpTimeout, TypeOK
  <1>8. ASSUME NEW k \in {"Request", "RebootRequest"}, MtpReceive(t, k)
        PROVE  TypeOK'
    <2>1. [kind |-> k, thread |-> t] \in Message
      BY DEF Message, RequestMsg
    <2>2. main_mq' \in Seq(Message)
      BY <1>8, <2>1, SendFacts DEF MtpReceive, TypeOK
    <2> QED
      BY <1>8, <2>2 DEF MtpReceive, TypeOK
  <1> QED
    BY <1>1, <1>2, <1>3, <1>4, <1>5, <1>6, <1>7, <1>8 DEF ThreadStep

LEMMA OtherStepType ==
    ASSUME TypeOK,
           \/ \E t \in Threads : PostMtpThreadExited(t)
           \/ BdcExit
           \/ SigTerm
           \/ SignalReboot
    PROVE  TypeOK'
  <1> USE DEF dmVars, mtpVars, inVars, exitVars, ThreadPcs
  <1>1. ASSUME NEW t \in Threads, PostMtpThreadExited(t)
        PROVE  TypeOK'
    <2>1. [kind |-> "Exited", thread |-> t] \in Message
      BY DEF Message
    <2>2. main_mq' \in Seq(Message)
      BY <1>1, <2>1, SendFacts DEF PostMtpThreadExited, TypeOK
    <2> QED
      BY <1>1, <2>2 DEF PostMtpThreadExited, TypeOK
  <1>2. CASE BdcExit
    BY <1>2 DEF BdcExit, TypeOK, Threads
  <1>3. CASE SigTerm
    BY <1>3 DEF SigTerm, TypeOK
  <1>4. CASE SignalReboot
    <2>1. main_mq' \in Seq(Message)
      BY <1>4 DEF SignalReboot, TypeOK, Message
    <2> QED
      BY <1>4, <2>1 DEF SignalReboot, TypeOK
  <1> QED
    BY <1>1, <1>2, <1>3, <1>4

LEMMA StillQueuedType == TypeOK => StillQueued \subseteq Responses
  BY DEF TypeOK, StillQueued, Range

LEMMA DmStepType == TypeOK /\ DmStep => TypeOK'
  <1> SUFFICES ASSUME TypeOK, DmStep
               PROVE  TypeOK'
    OBVIOUS
  <1> USE DEF mtpVars, inVars, exitVars, DmPcs
  <1>1. CASE HandleRequest
    <2>1. main_mq' \in Seq(Message) /\ Head(main_mq) \in Message
      BY <1>1, ReadRange DEF HandleRequest, TypeOK
    <2>2. Head(main_mq).thread \in MtpThreads
      BY <1>1, <2>1 DEF HandleRequest, Message, RequestMsg
    <2>3. CASE Head(main_mq).kind = "RebootRequest"
      BY <1>1, <2>1, <2>2, <2>3 DEF HandleRequest, TypeOK
    <2>4. CASE Head(main_mq).kind # "RebootRequest"
      BY <1>1, <2>1, <2>2, <2>4 DEF HandleRequest, TypeOK
    <2> QED
      BY <2>3, <2>4
  <1>2. CASE HandleReboot
    <2>1. main_mq' \in Seq(Message)
      BY <1>2, ReadRange DEF HandleReboot, TypeOK
    <2> QED
      BY <1>2, <2>1 DEF HandleReboot, TypeOK
  <1>3. CASE HandleExited
    <2>1. main_mq' \in Seq(Message) /\ Head(main_mq) \in Message
      BY <1>3, ReadRange DEF HandleExited, TypeOK
    <2>2. Head(main_mq).thread \in Threads
      BY <1>3, <2>1 DEF HandleExited, Message, RequestMsg
    <2> QED
      BY <1>3, <2>1, <2>2, StillQueuedType DEF HandleExited, TypeOK
  <1>4. CASE Respond
    <2>1. dm_msg.thread \in MtpThreads
      BY <1>4 DEF Respond, TypeOK
    <2> DEFINE r == IF mtp_exit_scheduled = "Activated" THEN "late" ELSE "early"
    <2>2. r \in Responses
      BY DEF Responses
    <2> HIDE DEF r
    <2>3. /\ \/ wsclient_msg_queue' = wsclient_msg_queue
             \/ wsclient_msg_queue' = Append(wsclient_msg_queue, r)
          /\ \/ send_queue' = send_queue
             \/ send_queue' = [send_queue EXCEPT ![dm_msg.thread] = Append(@, r)]
          /\ wake' \in {wake, [wake EXCEPT ![dm_msg.thread] = TRUE]}
      BY <1>4 DEF Respond, r
    <2>4. wsclient_msg_queue' \in Seq(Responses \cup {"Activate"})
      <3>1. r \in Responses \cup {"Activate"}
        BY <2>2
      <3>2. Append(wsclient_msg_queue, r) \in Seq(Responses \cup {"Activate"})
        BY <3>1 DEF TypeOK
      <3> QED
        BY <2>3, <3>2, Zenon DEF TypeOK
    <2>5. send_queue' \in [MtpThreads -> Seq(Responses)]
      <3>1. Append(send_queue[dm_msg.thread], r) \in Seq(Responses)
        <4>1. send_queue[dm_msg.thread] \in Seq(Responses)
          BY <2>1 DEF TypeOK
        <4> QED
          BY <2>2, <4>1
      <3> QED
        BY <2>1, <2>3, <3>1 DEF TypeOK
    <2> QED
      BY <1>4, <2>1, <2>3, <2>4, <2>5 DEF Respond, TypeOK
  <1>5. CASE ActivateScheduledActions
    BY <1>5, StillQueuedType DEF ActivateScheduledActions, TypeOK
  <1>6. CASE WakeThreads
    <2>1. wsclient_msg_queue' \in Seq(Responses \cup {"Activate"})
      BY <1>6 DEF WakeThreads, TypeOK
    <2> QED
      BY <1>6, <2>1 DEF WakeThreads, TypeOK
  <1>7. CASE DmTimeout
    BY <1>7 DEF DmTimeout, TypeOK
  <1>8. CASE LoopEnd
    BY <1>8 DEF LoopEnd, TypeOK
  <1>9. CASE ScheduleBothExits
    <2>1. bdc_mq' \in Nat /\ mtp_exit_scheduled' \in {"Off", "Signalled", "Activated"}
      BY <1>9 DEF ScheduleBothExits, ScheduleExit, TypeOK
    <2>2. dm_msg # NoMsg /\ dm_pc = "reboot" => dm_msg.thread \in MtpThreads
      BY DEF TypeOK
    <2> QED
      BY <1>9, <2>1, <2>2 DEF ScheduleBothExits, TypeOK
  <1> QED
    BY <1>1, <1>2, <1>3, <1>4, <1>5, <1>6, <1>7, <1>8, <1>9 DEF DmStep

\* The queues, the loop positions of all threads and the exit flags keep their
\* types; in particular a handler that is about to respond knows an MTP thread.
THEOREM TypeCorrect == Spec => []TypeOK
  <1>1. Init => TypeOK
    <2>1. /\ <<>> \in Seq(Message)
          /\ <<>> \in Seq(Responses \cup {"Activate"})
          /\ <<>> \in Seq(Responses)
      OBVIOUS
    <2>2. Init => wake \in [MtpThreads -> BOOLEAN]
      BY Zenon DEF Init
    <2>3. Init => /\ mtp_reconnect_scheduled \in BOOLEAN
                  /\ dm_exit_scheduled \in BOOLEAN
                  /\ requested \in BOOLEAN
      BY Zenon DEF Init
    <2>4. Init => /\ send_queue \in [MtpThreads -> Seq(Responses)]
                  /\ pc \in [Threads -> ThreadPcs]
      BY <2>1, Zenon DEF Init, ThreadPcs
    <2> QED
      BY <2>1, <2>2, <2>3, <2>4 DEF Init, TypeOK, DmPcs
  <1>2. TypeOK /\ [Next]_vars => TypeOK'
    <2>1. TypeOK /\ UNCHANGED vars => TypeOK'
      BY DEF TypeOK, vars, inVars, exitVars
    <2> QED
      BY <2>1, MtpStepType, OtherStepType, DmStepType DEF Next
  <1> QED
    BY <1>1, <1>2, PTL DEF Spec

-----------------------------------------------------------------------------
(* The orderly exit.                                                       *)

LEMMA MtpStepExit ==
    ASSUME OrderlyBuild, TypeOK, TypeOK', ExitInv, NEW t \in MtpThreads,
           \/ ThreadStep(t)
           \/ MtpTimeout(t)
           \/ \E k \in {"Request", "RebootRequest"} : MtpReceive(t, k)
    PROVE  ExitInv'
  <1> USE DEF ExitInv, EarlyResponsesSent, AgentStopsLast, IsExited, dmVars,
              inVars, exitVars, Threads
  <1>1. t \in Threads /\ pc \in [Threads -> ThreadPcs]
    BY DEF TypeOK
  <1>2. CASE MtpSend(t)
    <2>1. Range(Tail(send_queue[t])) \subseteq Range(send_queue[t])
      BY <1>2, ReadRange DEF MtpSend, TypeOK
    <2>2. \A u \in MtpThreads : u # t => send_queue'[u] = send_queue[u]
      BY <1>2 DEF MtpSend, TypeOK
    <2> QED
      BY <1>1, <1>2, <2>1, <2>2 DEF MtpSend, TypeOK
  <1>3. CASE MtpWake(t)
    BY <1>1, <1>3 DEF MtpWake
  <1>4. CASE MtpCheckExit(t)
    <2>1. Range(<<>>) = {}
      BY DEF Range
    <2>2. \A u \in Threads : pc'[u] = "exited" <=> pc[u] = "exited"
      BY <1>1, <1>4 DEF MtpCheckExit
    <2>3. \A u \in MtpThreads : pc'[u] = "destroy" =>
                pc[u] = "destroy" \/ (mtp_exit_scheduled = "Activated"
                                          /\ send_queue[u] = <<>>)
      BY <1>1, <1>4 DEF MtpCheckExit
    <2>4. \A u \in MtpThreads : pc'[u] = "post" => pc[u] = "post"
      BY <1>1, <1>4 DEF MtpCheckExit
    <2>5. \A m \in Range(main_mq) : m.kind = "Exited" => m.thread \in Threads
      BY RangeType DEF TypeOK, Message, RequestMsg
    <2> QED
      BY <1>4, <2>1, <2>2, <2>3, <2>4, <2>5 DEF MtpCheckExit, TypeOK, Running
  <1>5. CASE MtpDestroy(t)
    <2>1. "early" \notin lost'
      BY <1>5 DEF MtpDestroy
    <2>2. \A u \in MtpThreads : send_queue'[u] = IF u = t THEN <<>> ELSE send_queue[u]
      BY <1>5 DEF MtpDestroy, TypeOK
    <2> QED
      BY <1>1, <1>5, <2>1, <2>2 DEF MtpDestroy, Running
  <1>6. CASE t = "WSCLIENT" /\ WsclientLoop
    BY <1>6 DEF OrderlyBuild
  <1>7. CASE t = "WSSERVER" /\ WsserverLoop
    BY <1>1, <1>7 DEF WsserverLoop, Running
  <1>8. CASE MtpTimeout(t)
    BY <1>1, <1>8 DEF MtpTimeout, Running
  <1>9. ASSUME NEW k \in {"Request", "RebootRequest"}, MtpReceive(t, k)
        PROVE  ExitInv'
    <2>1. [kind |-> k, thread |-> t] \in Message
      BY DEF Message, RequestMsg
    <2>2. Range(main_mq') \subseteq Range(main_mq) \cup {[kind |-> k, thread |-> t]}
      BY <1>9, <2>1, SendFacts DEF MtpReceive, TypeOK
    <2> QED
      BY <1>1, <1>9, <2>2 DEF MtpReceive, Running
  <1> QED
    BY <1>2, <1>3, <1>4, <1>5, <1>6, <1>7, <1>8, <1>9 DEF ThreadStep

LEMMA OtherStepExit ==
    ASSUME OrderlyBuild, TypeOK, ExitInv,
           \/ \E t \in Threads : PostMtpThreadExited(t)
           \/ BdcExit
           \/ SigTerm
           \/ SignalReboot
    PROVE  ExitInv'
  <1> USE DEF ExitInv, EarlyResponsesSent, AgentStopsLast, IsExited, dmVars,
              mtpVars, inVars, exitVars
  <1>1. pc \in [Threads -> ThreadPcs] /\ MtpThreads \subseteq Threads
    BY DEF TypeOK, Threads
  <1>2. ASSUME NEW t \in Threads, PostMtpThreadExited(t)
        PROVE  ExitInv'
    <2>1. [kind |-> "Exited", thread |-> t] \in Message
      BY DEF Message
    <2>2. Range(main_mq') \subseteq Range(main_mq)
                                     \cup {[kind |-> "Exited", thread |-> t]}
      BY <1>2, <2>1, SendFacts DEF PostMtpThreadExited, TypeOK
    <2> QED
      BY <1>1, <1>2, <2>2 DEF PostMtpThreadExited, Running
  <1>3. CASE BdcExit
    <2>1. "BDC" \in Threads /\ "BDC" \notin MtpThreads
      BY DEF Threads
    <2> QED
      BY <1>1, <1>3, <2>1 DEF BdcExit, Running
  <1>4. CASE SigTerm
    BY <1>4 DEF SigTerm, Running
  <1>5. CASE SignalReboot
    <2>1. Range(main_mq') = Range(main_mq) \cup {[kind |-> "Reboot", thread |-> "none"]}
      <3>1. [kind |-> "Reboot", thread |-> "none"] \in Message
        BY DEF Message
      <3> QED
        BY <1>5, <3>1, AppendRange DEF SignalReboot, TypeOK
    <2>2. \A m \in Range(main_mq') : m.kind = "Exited" => m \in Range(main_mq)
      BY <2>1
    <2> QED
      BY <1>5, <2>2 DEF SignalReboot, Running
  <1> QED
    BY <1>2, <1>3, <1>4, <1>5

LEMMA DmStepExit ==
    ASSUME OrderlyBuild, TypeOK, ExitInv, DmStep
    PROVE  ExitInv'
  <1> USE DEF ExitInv, EarlyResponsesSent, AgentStopsLast, IsExited, mtpVars,
              inVars, exitVars
  <1>1. main_mq # <<>> => /\ Head(main_mq) \in Range(main_mq)
                          /\ Range(Tail(main_mq)) \subseteq Range(main_mq)
    BY ReadRange DEF TypeOK
  <1>2. CASE HandleRequest
    BY <1>1, <1>2 DEF HandleRequest
  <1>3. CASE HandleReboot
    BY <1>1, <1>3 DEF HandleReboot
  <1>4. CASE HandleExited
    <2>1. pc[Head(main_mq).thread] = "exited"
      BY <1>1, <1>4 DEF HandleExited
    <2>2. \A t \in cumulative_mtp_threads_exited' : pc[t] = "exited"
      BY <1>4, <2>1 DEF HandleExited
    <2>3. CASE cumulative_mtp_threads_exited' = Threads
      <3>1. \A t \in MtpThreads : send_queue[t] = <<>>
        BY <2>2, <2>3 DEF Threads
      <3>2. StillQueued = {}
        BY <3>1 DEF StillQueued, Range
      <3> QED
        BY <1>1, <1>4, <2>2, <2>3, <3>2 DEF HandleExited
    <2>4. CASE cumulative_mtp_threads_exited' # Threads
      BY <1>1, <1>4, <2>2, <2>4 DEF HandleExited
    <2> QED
      BY <2>3, <2>4
  <1>5. CASE Respond
    <2> DEFINE t == dm_msg.thread
               r == IF mtp_exit_scheduled = "Activated" THEN "late" ELSE "early"
    <2>1. t \in MtpThreads /\ t # "WSCLIENT"
      BY <1>5 DEF Respond, TypeOK, OrderlyBuild
    <2>2. CASE IsExited(t)
      BY <1>5, <2>2 DEF Respond
    <2>3. CASE ~ IsExited(t)
      <3>1. Range(Append(send_queue[t], r)) = Range(send_queue[t]) \cup {r}
        <4>1. send_queue[t] \in Seq(Responses) /\ r \in Responses
          BY <2>1 DEF TypeOK, Responses
        <4> HIDE DEF r
        <4> QED
          BY <4>1, AppendRange
      <3>2. \A u \in MtpThreads :
                send_queue'[u] = IF u = t THEN Append(send_queue[t], r)
                                          ELSE send_queue[u]
        BY <1>5, <2>1, <2>3 DEF Respond, TypeOK
      <3>3. /\ dm_pc' = "activate"
            /\ UNCHANGED <<main_mq, wsclient_msg_queue, pc, lost, mtp_exit_scheduled,
                           cumulative_mtp_threads_exited>>
        BY <1>5, <2>1, <2>3 DEF Respond
      <3> QED
        BY <2>1, <2>3, <3>1, <3>2, <3>3
    <2> QED
      BY <2>2, <2>3
  <1>6. CASE ActivateScheduledActions
    BY <1>6 DEF ActivateScheduledActions, OrderlyBuild
  <1>7. CASE WakeThreads
    BY <1>7 DEF WakeThreads, OrderlyBuild
  <1>8. CASE DmTimeout
    BY <1>8 DEF DmTimeout
  <1>9. CASE LoopEnd
    BY <1>9 DEF LoopEnd
  <1>10. CASE ScheduleBothExits
    BY <1>10 DEF ScheduleBothExits, ScheduleExit
  <1> QED
    BY <1>2, <1>3, <1>4, <1>5, <1>6, <1>7, <1>8, <1>9, <1>10 DEF DmStep

\* The inductive invariant of the exit: a thread that is about to destroy its state
\* saw an empty queue after the exit was activated, and Exited messages come only
\* from threads that have destroyed theirs.
THEOREM ExitInvariant == ASSUME OrderlyBuild PROVE Spec => []ExitInv
  <1>1. Init => ExitInv
    BY DEF Init, ExitInv, EarlyResponsesSent, AgentStopsLast, IsExited, Range, Threads
  <1>2. TypeOK /\ TypeOK' /\ ExitInv /\ [Next]_vars => ExitInv'
    <2>1. ExitInv /\ UNCHANGED vars => ExitInv'
      BY DEF ExitInv, EarlyResponsesSent, AgentStopsLast, IsExited, vars, exitVars
    <2> QED
      BY <2>1, MtpStepExit, OtherStepExit, DmStepExit DEF Next
  <1> QED
    BY <1>1, <1>2, TypeCorrect, PTL DEF Spec

\* A response queued before the exit was activated, the one to the Reboot() command
\* included, is sent before its thread's queue is purged.
THEOREM ResponsesBeforeExit == ASSUME OrderlyBuild PROVE Spec => []EarlyResponsesSent
  <1>1. ExitInv => EarlyResponsesSent
    BY DEF ExitInv
  <1> QED
    BY <1>1, ExitInvariant, PTL

\* DM_EXEC_HandleScheduledExit is called only when every thread has gone.
THEOREM StopsLast == ASSUME OrderlyBuild PROVE Spec => []AgentStopsLast
  <1>1. ExitInv => AgentStopsLast
    BY DEF ExitInv
  <1> QED
    BY <1>1, ExitInvariant, PTL
=============================================================================
