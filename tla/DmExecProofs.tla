---------------------------- MODULE DmExecProofs ----------------------------
(***************************************************************************)
(* Proofs about DmExec, for every set of endpoints, MTP threads and        *)
(* workers, every queue capacity and every bound.                          *)
(***************************************************************************)
EXTENDS DmExec, TLAPS

USE SendersAssumption, MtpOfAssumption, CapAssumption, BoundAssumption

-----------------------------------------------------------------------------
(* Queues.                                                                 *)

\* A discarding send leaves a queue of messages, and every message in it was
\* there before or is the one sent.
LEMMA SendDontWaitFacts ==
    ASSUME NEW q \in Seq(Message), NEW cap, NEW m \in Message
    PROVE  /\ SendDontWait(q, cap, m) \in Seq(Message)
           /\ \A i \in 1..Len(SendDontWait(q, cap, m)) :
                \/ SendDontWait(q, cap, m)[i] = m
                \/ \E j \in 1..Len(q) : SendDontWait(q, cap, m)[i] = q[j]
  BY DEF SendDontWait

\* Reading a datagram takes a message off the queue and adds none.
LEMMA ReadFacts ==
    ASSUME NEW q \in Seq(Message), q # <<>>
    PROVE  /\ Head(q) \in Message
           /\ Head(q) = q[1]
           /\ 1 \in 1..Len(q)
           /\ Tail(q) \in Seq(Message)
           /\ \A i \in 1..Len(Tail(q)) :
                \E j \in 1..Len(q) : Tail(q)[i] = q[j]
  <1>1. Len(q) \in Nat /\ Len(q) # 0
    OBVIOUS
  <1>2. \A i \in 1..Len(Tail(q)) : i + 1 \in 1..Len(q) /\ Tail(q)[i] = q[i + 1]
    BY <1>1
  <1> QED
    BY <1>1, <1>2

-----------------------------------------------------------------------------
(* Type correctness.                                                       *)

LEMMA ChooseQueueType ==
    ASSUME TypeOK, NEW e \in Endpoints, NEW k \in MtpKinds, NEW id \in Nat,
           ChooseQueue(k, e, id)
    PROVE  /\ post' \in [Mtps -> MtpMessage \cup {NoMsg}]
           /\ posted' \in [Mtps -> Nat]
  BY DEF TypeOK, ChooseQueue, MtpMessage, Queues

LEMMA MtpStepType == TypeOK /\ MtpStep => TypeOK'
  <1> SUFFICES ASSUME TypeOK, MtpStep
               PROVE  TypeOK'
    OBVIOUS
  <1>1. ASSUME NEW e \in Endpoints, NEW k \in {"Request", "PassthruRequest"},
               PostUspRecord(e, k)
        PROVE  TypeOK'
    <2>1. k \in MtpKinds /\ ChooseQueue(k, e, 0)
      BY <1>1 DEF PostUspRecord, MtpKinds
    <2> QED
      BY <1>1, <2>1, ChooseQueueType DEF TypeOK, PostUspRecord, dmVars
  <1>2. ASSUME NEW e \in Endpoints, NEW r \in unanswered, PostUspResponse(e, r)
        PROVE  TypeOK'
    <2>1. "Response" \in MtpKinds /\ r.id \in Nat
            /\ ChooseQueue("Response", e, r.id)
      BY <1>2 DEF PostUspResponse, MtpKinds, TypeOK, Request
    <2> QED
      BY <1>2, <2>1, ChooseQueueType DEF TypeOK, PostUspResponse, dmVars
  <1>3. ASSUME NEW e \in Endpoints, PostUdsHandshakeComplete(e)
        PROVE  TypeOK'
    <2>1. "UdsHandshakeComplete" \in MtpKinds
            /\ ChooseQueue("UdsHandshakeComplete", e, 0)
      BY <1>3 DEF PostUdsHandshakeComplete, MtpKinds
    <2> QED
      BY <1>3, <2>1, ChooseQueueType
         DEF TypeOK, PostUdsHandshakeComplete, dmVars
  <1>4. ASSUME NEW e \in Endpoints, PostUdsDisconnected(e)
        PROVE  TypeOK'
    <2>1. "UdsDisconnected" \in MtpKinds /\ ChooseQueue("UdsDisconnected", e, 0)
      BY <1>4 DEF PostUdsDisconnected, MtpKinds
    <2> QED
      BY <1>4, <2>1, ChooseQueueType DEF TypeOK, PostUdsDisconnected, dmVars
  <1>5. ASSUME NEW t \in Mtps, SendPost(t)
        PROVE  TypeOK'
    <2>1. post[t] \in Message
      BY <1>5 DEF SendPost, TypeOK, Message
    <2>2. main_mq' \in Seq(Message) /\ filter_mq' \in Seq(Message)
      BY <1>5, <2>1, SendDontWaitFacts DEF SendPost, TypeOK
    <2> QED
      BY <1>5, <2>2 DEF SendPost, TypeOK, dmVars
  <1> QED
    BY <1>1, <1>2, <1>3, <1>4, <1>5 DEF MtpStep

LEMMA WorkerStepType == TypeOK /\ WorkerStep => TypeOK'
  <1> SUFFICES ASSUME TypeOK, WorkerStep
               PROVE  TypeOK'
    OBVIOUS
  <1>1. ASSUME NEW w \in Workers, NEW s \in {"signal", "sync"}, WorkerCall(w, s)
        PROVE  TypeOK'
    BY <1>1 DEF WorkerCall, TypeOK, mtpVars, dmVars, WorkerStates
  <1>2. ASSUME NEW w \in Workers, WorkerSend(w)
        PROVE  TypeOK'
    <2>1. main_mq' \in Seq(Message)
      BY <1>2 DEF WorkerSend, TypeOK, Message, WorkMessage, WorkKinds
    <2> QED
      BY <1>2, <2>1 DEF WorkerSend, TypeOK, dmVars, WorkerStates
  <1> QED
    BY <1>1, <1>2 DEF WorkerStep

LEMMA DmStepType == TypeOK /\ DmStep => TypeOK'
  <1> SUFFICES ASSUME TypeOK, DmStep
               PROVE  TypeOK'
    OBVIOUS
  <1> USE DEF threadVars, DmPcs
  <1>1. CASE SelectFilter
    BY <1>1 DEF SelectFilter, TypeOK
  <1>2. CASE SelectMain
    <2>1. Head(main_mq) \in Message /\ main_mq' \in Seq(Message)
      BY <1>2, ReadFacts DEF SelectMain, TypeOK
    <2>2. handled' \in Seq(Message)
      BY <1>2, <2>1 DEF SelectMain, TypeOK
    <2>3. Head(main_mq).kind \in LifecycleKinds => Head(main_mq).from \in Endpoints
      BY <2>1 DEF Message, MtpMessage, WorkMessage, LifecycleKinds, WorkKinds
    <2>4. worker' \in [Workers -> WorkerStates]
      BY <1>2, <2>1 DEF SelectMain, Handle, TypeOK, WorkerStates
    <2>5. service' \subseteq Endpoints
      BY <1>2, <2>3 DEF SelectMain, Handle, TypeOK, LifecycleKinds
    <2> QED
      BY <1>2, <2>1, <2>2, <2>4, <2>5 DEF SelectMain, TypeOK
  <1>3. CASE SelectTimeout
    BY <1>3 DEF SelectTimeout, TypeOK
  <1>4. CASE ForwardPendingMessage
    <2>1. main_mq' \in Seq(Message) /\ filter_mq' \in Seq(Message)
      BY <1>4, ReadFacts, SendDontWaitFacts DEF ForwardPendingMessage, TypeOK
    <2> QED
      BY <1>4, <2>1 DEF ForwardPendingMessage, TypeOK
  <1>5. CASE ForwardEnd
    BY <1>5 DEF ForwardEnd, TypeOK
  <1>6. CASE HandleEnd
    BY <1>6 DEF HandleEnd, TypeOK
  <1>7. CASE QueueRequest
    BY <1>7 DEF QueueRequest, TypeOK
  <1>8. CASE WaitDisconnected
    <2>1. main_mq' \in Seq(Message) /\ filter_mq' \in Seq(Message)
      BY <1>8, ReadFacts, SendDontWaitFacts DEF WaitDisconnected, TypeOK
    <2> QED
      BY <1>8, <2>1 DEF WaitDisconnected, TypeOK
  <1>9. CASE WaitMatch
    <2>1. filter_mq' \in Seq(Message) /\ Head(filter_mq) \in Message
      BY <1>9, ReadFacts DEF WaitMatch, TypeOK
    <2> QED
      BY <1>9, <2>1 DEF WaitMatch, TypeOK
  <1>10. CASE WaitOther
    <2>1. main_mq' \in Seq(Message) /\ filter_mq' \in Seq(Message)
      BY <1>10, ReadFacts, SendDontWaitFacts DEF WaitOther, TypeOK
    <2> QED
      BY <1>10, <2>1 DEF WaitOther, TypeOK
  <1>11. CASE WaitTimeout
    BY <1>11 DEF WaitTimeout, TypeOK
  <1>12. ASSUME NEW e \in Endpoints, DivertPosts(e)
         PROVE  TypeOK'
    BY <1>12 DEF DivertPosts, TypeOK, Request
  <1> QED
    BY <1>1, <1>2, <1>3, <1>4, <1>5, <1>6, <1>7, <1>8, <1>9, <1>10, <1>11, <1>12
       DEF DmStep, DmLoopStep

\* The queues, flags and thread states of dm_exec.c always have their types.
THEOREM TypeCorrect == Spec => []TypeOK
  <1>1. Init => TypeOK
    <2> SUFFICES ASSUME Init PROVE TypeOK
      OBVIOUS
    <2>1. main_mq \in Seq(Message) /\ filter_mq \in Seq(Message)
            /\ handled \in Seq(Message)
      BY DEF Init
    <2>2. /\ divert_to_filter_queue \in BOOLEAN
          /\ dm_pc \in DmPcs
          /\ dm_pc \notin {"send", "wait"}
          /\ next_id \in Nat
          /\ work \in Nat
      BY DEF Init, DmPcs
    <2>3. /\ wanted \in Request \cup {NoWait}
          /\ resp \in Message \cup {NoMsg}
          /\ service \subseteq Endpoints
          /\ conn \subseteq Endpoints
          /\ unanswered \subseteq Request
      BY Zenon DEF Init
    <2>4. /\ post \in [Mtps -> MtpMessage \cup {NoMsg}]
          /\ posted \in [Mtps -> Nat]
          /\ worker \in [Workers -> WorkerStates]
      BY DEF Init, WorkerStates
    <2> QED
      BY <2>1, <2>2, <2>3, <2>4 DEF TypeOK
  <1>2. TypeOK /\ [Next]_vars => TypeOK'
    <2>1. TypeOK /\ UNCHANGED vars => TypeOK'
      BY DEF TypeOK, vars
    <2> QED
      BY <2>1, MtpStepType, WorkerStepType, DmStepType DEF Next
  <1> QED
    BY <1>1, <1>2, PTL DEF Spec
-----------------------------------------------------------------------------
(* The answer waited for.                                                  *)

\* What the queues hold after a discarding send and after a read.
LEMMA SendRange ==
    ASSUME NEW q \in Seq(Message), NEW cap, NEW m \in Message
    PROVE  Range(SendDontWait(q, cap, m)) \subseteq Range(q) \cup {m}
  <1>1. DOMAIN q = 1..Len(q)
    OBVIOUS
  <1>2. DOMAIN SendDontWait(q, cap, m) = 1..Len(SendDontWait(q, cap, m))
    BY SendDontWaitFacts
  <1>3. ASSUME NEW i \in 1..Len(SendDontWait(q, cap, m))
        PROVE  SendDontWait(q, cap, m)[i] \in Range(q) \cup {m}
    <2>1. CASE SendDontWait(q, cap, m)[i] = m
      BY <2>1
    <2>2. CASE \E j \in 1..Len(q) : SendDontWait(q, cap, m)[i] = q[j]
      BY <1>1, <2>2 DEF Range
    <2> QED
      BY <2>1, <2>2, SendDontWaitFacts
  <1> QED
    BY <1>2, <1>3 DEF Range

LEMMA ReadRange ==
    ASSUME NEW q \in Seq(Message), q # <<>>
    PROVE  Head(q) \in Range(q) /\ Range(Tail(q)) \subseteq Range(q)
  <1>1. DOMAIN q = 1..Len(q) /\ DOMAIN Tail(q) = 1..Len(Tail(q))
    BY ReadFacts
  <1> QED
    BY <1>1, ReadFacts DEF Range

\* What is in flight has a msg_id that is a number.
LEMMA InFlightType ==
    ASSUME TypeOK
    PROVE  /\ Range(main_mq) \subseteq Message
           /\ Range(filter_mq) \subseteq Message
           /\ Posting \subseteq MtpMessage
           /\ \A m \in InFlight : m \in Message /\ m.id \in Nat
           /\ \A r \in unanswered : r.id \in Nat
           /\ wanted.id \in Nat
  <1>1. Range(main_mq) \subseteq Message /\ Range(filter_mq) \subseteq Message
    BY DEF TypeOK, Range
  <1>2. Posting \subseteq MtpMessage
    BY DEF TypeOK, Posting
  <1>3. \A m \in InFlight : m \in Message /\ m.id \in Nat
    BY <1>1, <1>2 DEF InFlight, Message, MtpMessage, WorkMessage
  <1>4. (\A r \in unanswered : r.id \in Nat) /\ wanted.id \in Nat
    BY DEF TypeOK, Request, NoWait
  <1> QED
    BY <1>1, <1>2, <1>3, <1>4

\* A post adds one message to what is in flight, routed by the flag.
LEMMA ChooseQueuePosting ==
    ASSUME TypeOK, NEW e \in Endpoints, NEW k \in MtpKinds, NEW id \in Nat,
           ChooseQueue(k, e, id)
    PROVE  \E m \in MtpMessage :
              /\ m.kind = k /\ m.from = e /\ m.id = id
              /\ divert_to_filter_queue => m.route = "filter"
              /\ Posting' \subseteq Posting \cup {m}
  <1> DEFINE m == [kind |-> k, from |-> e, id |-> id,
                   route |-> IF divert_to_filter_queue THEN "filter" ELSE "main",
                   seq |-> posted[MtpOf[e]] + 1]
  <1>1. m \in MtpMessage
    BY DEF TypeOK, MtpMessage, Queues
  <1>2. Posting' \subseteq Posting \cup {m}
    BY DEF TypeOK, ChooseQueue, Posting
  <1> QED
    BY <1>1, <1>2

LEMMA MtpStepWait == TypeOK /\ WaitInv /\ MtpStep => WaitInv'
  <1> SUFFICES ASSUME TypeOK, WaitInv, MtpStep
               PROVE  WaitInv'
    OBVIOUS
  <1> USE InFlightType
  <1> USE DEF WaitInv, IdsIssued, DivertedDuringWait, RequestIsFresh, OneResponder,
              WantedNeverOnMain, IsWanted, InFlight, dmVars
  <1>1. ASSUME NEW e \in Endpoints, NEW k \in {"Request", "PassthruRequest"},
               PostUspRecord(e, k)
        PROVE  WaitInv'
    <2>1. k \in MtpKinds /\ ChooseQueue(k, e, 0)
      BY <1>1 DEF PostUspRecord, MtpKinds
    <2> QED
      BY <1>1, <2>1, ChooseQueuePosting DEF PostUspRecord, TypeOK
  <1>2. ASSUME NEW e \in Endpoints, NEW r \in unanswered, PostUspResponse(e, r)
        PROVE  WaitInv'
    <2>1. "Response" \in MtpKinds /\ r.id \in Nat
            /\ ChooseQueue("Response", e, r.id)
      BY <1>2 DEF PostUspResponse, MtpKinds, TypeOK, Request
    <2> QED
      BY <1>2, <2>1, ChooseQueuePosting DEF TypeOK, PostUspResponse
  <1>3. ASSUME NEW e \in Endpoints, PostUdsHandshakeComplete(e)
        PROVE  WaitInv'
    <2>1. "UdsHandshakeComplete" \in MtpKinds
            /\ ChooseQueue("UdsHandshakeComplete", e, 0)
      BY <1>3 DEF PostUdsHandshakeComplete, MtpKinds
    <2> QED
      BY <1>3, <2>1, ChooseQueuePosting DEF TypeOK, PostUdsHandshakeComplete
  <1>4. ASSUME NEW e \in Endpoints, PostUdsDisconnected(e)
        PROVE  WaitInv'
    <2>1. "UdsDisconnected" \in MtpKinds /\ ChooseQueue("UdsDisconnected", e, 0)
      BY <1>4 DEF PostUdsDisconnected, MtpKinds
    <2> QED
      BY <1>4, <2>1, ChooseQueuePosting DEF TypeOK, PostUdsDisconnected
  <1>5. ASSUME NEW t \in Mtps, SendPost(t)
        PROVE  WaitInv'
    <2>1. post[t] \in Posting /\ Posting' \subseteq Posting
      BY <1>5 DEF SendPost, Posting, TypeOK
    <2>2. post[t] \in Message
      BY <2>1 DEF Message
    <2>3. Range(main_mq') \subseteq Range(main_mq) \cup {post[t]}
            /\ Range(filter_mq') \subseteq Range(filter_mq) \cup {post[t]}
            /\ (post[t].route = "filter" => UNCHANGED main_mq)
      BY <1>5, <2>2, SendRange DEF SendPost, TypeOK
    <2> QED
      BY <1>5, <2>1, <2>3 DEF SendPost, TypeOK
  <1> QED
    BY <1>1, <1>2, <1>3, <1>4, <1>5 DEF MtpStep

LEMMA WorkerStepWait == TypeOK /\ WaitInv /\ WorkerStep => WaitInv'
  <1> SUFFICES ASSUME TypeOK, WaitInv, WorkerStep
               PROVE  WaitInv'
    OBVIOUS
  <1> USE InFlightType
  <1> USE DEF WaitInv, IdsIssued, DivertedDuringWait, RequestIsFresh, OneResponder,
              WantedNeverOnMain, IsWanted, InFlight, Posting, dmVars
  <1>1. ASSUME NEW w \in Workers, NEW s \in {"signal", "sync"}, WorkerCall(w, s)
        PROVE  WaitInv'
    BY <1>1 DEF WorkerCall, mtpVars
  <1>2. ASSUME NEW w \in Workers, WorkerSend(w)
        PROVE  WaitInv'
    <2>1. PICK m \in WorkMessage : main_mq' = SendDontWait(main_mq, MainCap, m)
      BY <1>2 DEF WorkerSend, SendDontWait, WorkMessage, WorkKinds, TypeOK
    <2>2. Range(main_mq') \subseteq Range(main_mq) \cup {m}
            /\ m.id = 0 /\ m.kind # "Response"
      BY <2>1, SendRange DEF TypeOK, Message, WorkMessage, WorkKinds
    <2>3. /\ UNCHANGED <<filter_mq, post, unanswered, dm_pc, wanted, next_id,
                         divert_to_filter_queue>>
          /\ next_id \in Nat
      BY <1>2 DEF WorkerSend, TypeOK
    <2> QED
      BY <2>2, <2>3
  <1> QED
    BY <1>1, <1>2 DEF WorkerStep

LEMMA DmStepWait == TypeOK /\ WaitInv /\ DmStep => WaitInv'
  <1> SUFFICES ASSUME TypeOK, WaitInv, DmStep
               PROVE  WaitInv'
    OBVIOUS
  <1> USE InFlightType
  <1> USE DEF WaitInv, IdsIssued, DivertedDuringWait, RequestIsFresh, OneResponder,
              WantedNeverOnMain, IsWanted, InFlight, Posting, threadVars
  <1>1. CASE SelectFilter
    BY <1>1 DEF SelectFilter
  <1>2. CASE SelectMain
    BY <1>2, ReadRange DEF SelectMain, TypeOK
  <1>3. CASE SelectTimeout
    BY <1>3 DEF SelectTimeout
  <1>4. CASE ForwardPendingMessage
    BY <1>4, ReadRange, SendRange DEF ForwardPendingMessage, TypeOK
  <1>5. CASE ForwardEnd
    BY <1>5 DEF ForwardEnd
  <1>6. CASE HandleEnd
    BY <1>6 DEF HandleEnd
  <1>7. CASE QueueRequest
    BY <1>7 DEF QueueRequest
  <1>8. CASE WaitDisconnected
    BY <1>8, ReadRange, SendRange DEF WaitDisconnected, TypeOK
  <1>9. CASE WaitMatch
    BY <1>9, ReadRange DEF WaitMatch, TypeOK
  <1>10. CASE WaitOther
    <2>1. Head(filter_mq) \in Range(filter_mq)
            /\ Range(filter_mq') \subseteq Range(filter_mq)
      BY <1>10, ReadRange DEF WaitOther, TypeOK
    <2>2. Range(main_mq') \subseteq Range(main_mq) \cup {Head(filter_mq)}
      BY <1>10, <2>1, SendRange DEF WaitOther, TypeOK
    <2>3. ~ IsWanted(Head(filter_mq))
      BY <1>10, <2>1 DEF WaitOther, IsMatchingMsgId
    <2> QED
      BY <1>10, <2>1, <2>2, <2>3 DEF WaitOther
  <1>11. CASE WaitTimeout
    BY <1>11 DEF WaitTimeout
  <1>12. ASSUME NEW e \in Endpoints, DivertPosts(e)
         PROVE  WaitInv'
    BY <1>12 DEF DivertPosts, TypeOK
  <1> QED
    BY <1>1, <1>2, <1>3, <1>4, <1>5, <1>6, <1>7, <1>8, <1>9, <1>10, <1>11, <1>12
       DEF DmStep, DmLoopStep

\* The inductive invariant of the wait.
THEOREM WaitInvariant == Spec => []WaitInv
  <1>1. Init => WaitInv
    BY DEF Init, WaitInv, IdsIssued, DivertedDuringWait, RequestIsFresh,
           OneResponder, WantedNeverOnMain, InFlight, Posting, Range
  <1>2. TypeOK /\ WaitInv /\ [Next]_vars => WaitInv'
    <2>1. WaitInv /\ UNCHANGED vars => WaitInv'
      BY DEF WaitInv, IdsIssued, DivertedDuringWait, RequestIsFresh, OneResponder,
             WantedNeverOnMain, IsWanted, InFlight, Posting, vars
    <2> QED
      BY <2>1, MtpStepWait, WorkerStepWait, DmStepWait DEF Next
  <1> QED
    BY <1>1, <1>2, TypeCorrect, PTL DEF Spec

\* However the posts of the MTP threads interleave with the unlocked writes of
\* divert_to_filter_queue, the answer that
\* DM_EXEC_SendRequestAndWaitForResponse waits for comes by the filter queue.
THEOREM AnswerIsDiverted == Spec => []WantedNeverOnMain
  <1>1. WaitInv => WantedNeverOnMain
    BY DEF WaitInv
  <1> QED
    BY <1>1, WaitInvariant, PTL
-----------------------------------------------------------------------------
(* Order.                                                                  *)

LEMMA AppendOrdered ==
    ASSUME NEW q \in Seq(Message), NEW m, Ordered(q), AllPrecede(Range(q), {m})
    PROVE  Ordered(Append(q, m))
  <1>1. \A i \in 1..Len(q) : q[i] \in Range(q)
    BY DEF Range
  <1>2. /\ Len(q) \in Nat
        /\ Len(Append(q, m)) = Len(q) + 1
        /\ Append(q, m)[Len(q) + 1] = m
        /\ \A i \in 1..Len(q) : Append(q, m)[i] = q[i]
    OBVIOUS
  <1> QED
    BY <1>1, <1>2 DEF Ordered, AllPrecede

LEMMA SendOrdered ==
    ASSUME NEW q \in Seq(Message), NEW cap, NEW m, Ordered(q),
           AllPrecede(Range(q), {m})
    PROVE  Ordered(SendDontWait(q, cap, m))
  BY AppendOrdered DEF SendDontWait

LEMMA ReadOrdered ==
    ASSUME NEW q \in Seq(Message), q # <<>>, Ordered(q)
    PROVE  Ordered(Tail(q)) /\ AllPrecede({Head(q)}, Range(Tail(q)))
  <1>1. /\ Len(q) \in Nat /\ 1 \in 1..Len(q) /\ Head(q) = q[1]
        /\ DOMAIN Tail(q) = 1..Len(Tail(q)) /\ Len(Tail(q)) \in Nat
    BY ReadFacts
  <1>2. \A i \in 1..Len(Tail(q)) : i + 1 \in 1..Len(q) /\ Tail(q)[i] = q[i + 1]
    BY <1>1
  <1>3. Ordered(Tail(q))
    BY <1>1, <1>2 DEF Ordered
  <1>4. \A i \in 1..Len(Tail(q)) : MayPrecede(Head(q), Tail(q)[i])
    BY <1>1, <1>2 DEF Ordered
  <1> QED
    BY <1>1, <1>3, <1>4 DEF AllPrecede, Range

\* Of two messages posted in turn the first may precede the second, and whatever
\* is sent straight to the main queue may precede what was diverted.
LEMMA LaterPost ==
    ASSUME NEW m, NEW n, m.kind \in MtpKinds => m.seq \in Nat, n.seq \in Nat,
           (m.kind \in MtpKinds /\ MtpOf[m.from] = MtpOf[n.from]) => m.seq <= n.seq
    PROVE  MayPrecede(m, n)
  BY DEF MayPrecede

LEMMA MessageSeq ==
    ASSUME NEW m \in Message
    PROVE  /\ m.kind \in MtpKinds => m \in MtpMessage /\ MtpOf[m.from] \in Mtps
           /\ m.seq \in Nat
  BY DEF Message, MtpMessage, WorkMessage, WorkKinds, MtpKinds

LEMMA ChooseQueueOrder ==
    ASSUME TypeOK, OrderInv, NEW e \in Endpoints, NEW k \in MtpKinds,
           NEW id \in Nat, ChooseQueue(k, e, id),
           UNCHANGED <<main_mq, filter_mq, handled>>
    PROVE  OrderInv'
  <1> DEFINE t == MtpOf[e]
             m == [kind |-> k, from |-> e, id |-> id,
                   route |-> IF divert_to_filter_queue THEN "filter" ELSE "main",
                   seq |-> posted[t] + 1]
             Old == InFlight \cup Range(handled)
  <1>1. /\ t \in Mtps /\ posted[t] \in Nat
        /\ posted' = [posted EXCEPT ![t] = @ + 1]
        /\ post' = [post EXCEPT ![t] = m]
        /\ posted \in [Mtps -> Nat]
    BY DEF ChooseQueue, TypeOK
  <1>2. Posting' \subseteq Posting \cup {m}
    BY <1>1 DEF TypeOK, Posting
  <1>3. \A n \in Old : n \in Message
    BY InFlightType DEF TypeOK, Range
  <1>4. \A n \in Old : n.kind \in MtpKinds =>
             n.seq <= posted[MtpOf[n.from]] /\ n.seq \in Nat /\ MtpOf[n.from] \in Mtps
    BY <1>3, MessageSeq DEF OrderInv, PostsCounted
  <1>5. \A n \in Old : MayPrecede(n, m)
    <2> SUFFICES ASSUME NEW n \in Old PROVE MayPrecede(n, m)
      OBVIOUS
    <2>1. m.seq = posted[t] + 1 /\ MtpOf[m.from] = t
      OBVIOUS
    <2> HIDE DEF m, Old
    <2> QED
      BY <1>1, <1>4, <2>1 DEF MayPrecede
  <1>6. PostsCounted'
    <2>1. \A n \in Old : n.kind \in MtpKinds => n.seq <= posted'[MtpOf[n.from]]
      <3> HIDE DEF Old
      <3> QED BY <1>1, <1>4
    <2>2. m.seq <= posted'[MtpOf[m.from]]
      BY <1>1
    <2>3. \A s \in Mtps : post'[s] # NoMsg => MtpOf[post'[s].from] = s
      BY <1>1 DEF OrderInv, PostsCounted, TypeOK
    <2>4. (InFlight \cup Range(handled))' \subseteq Old \cup {m}
      BY <1>2 DEF InFlight
    <2> HIDE DEF Old, m
    <2> QED
      BY <2>1, <2>2, <2>3, <2>4 DEF PostsCounted
  <1>7. Range(main_mq) \subseteq Old /\ Range(filter_mq) \subseteq Old
            /\ Range(handled) \subseteq Old
    BY DEF InFlight
  <1> HIDE DEF Old, m, t
  <1> QED
    BY <1>2, <1>5, <1>6, <1>7 DEF OrderInv, AllPrecede, FilterHoldsDiverted, InFlight,
       OnlyDivertedIsOvertaken

\* A send by an MTP thread: a diverted message joins the filter queue, any other
\* overtakes what is in the filter queue.
LEMMA SendPostOrder ==
    ASSUME TypeOK, OrderInv, NEW t \in Mtps, SendPost(t)
    PROVE  OrderInv'
  <1> DEFINE m == post[t]
  <1>1. /\ m \in Posting /\ m \in Message /\ m \in MtpMessage
        /\ Posting' \subseteq Posting /\ \A n \in Posting' : MtpOf[n.from] # t
        /\ MtpOf[m.from] = t
    BY DEF SendPost, TypeOK, Posting, Message, OrderInv, PostsCounted
  <1>2. UNCHANGED <<posted, handled>>
    BY DEF SendPost, dmVars
  <1>3. \A n \in Posting' : MayPrecede(m, n)
    BY <1>1 DEF MayPrecede
  <1>4. /\ Range(main_mq') \subseteq Range(main_mq) \cup {m}
        /\ Range(filter_mq') \subseteq Range(filter_mq) \cup {m}
    BY <1>1, SendRange DEF SendPost, TypeOK
  <1>5. PostsCounted'
    <2>1. (InFlight \cup Range(handled))' \subseteq InFlight \cup Range(handled)
      BY <1>1, <1>2, <1>4 DEF InFlight
    <2>2. \A s \in Mtps : post'[s] # NoMsg => MtpOf[post'[s].from] = s
      BY DEF SendPost, TypeOK, OrderInv, PostsCounted
    <2> QED
      BY <1>2, <2>1, <2>2 DEF OrderInv, PostsCounted
  <1>6. AllPrecede(Range(handled), InFlight)'
    BY <1>1, <1>2, <1>4 DEF OrderInv, AllPrecede, InFlight
  <1>7. CASE m.route = "main"
    <2>1. /\ main_mq' = SendDontWait(main_mq, MainCap, m)
          /\ UNCHANGED filter_mq
      BY <1>7 DEF SendPost
    <2>2. Ordered(main_mq')
      BY <1>1, <2>1, SendOrdered DEF TypeOK, OrderInv, AllPrecede
    <2>3. \A n \in Range(filter_mq) : MayPrecede(m, n)
      BY <1>7 DEF OrderInv, FilterHoldsDiverted, MayPrecede
    <2> HIDE DEF m
    <2> QED
      BY <1>1, <1>2, <1>3, <1>4, <1>5, <1>6, <2>1, <2>2, <2>3
         DEF OrderInv, AllPrecede, FilterHoldsDiverted, OnlyDivertedIsOvertaken
  <1>8. CASE m.route # "main"
    <2>1. /\ filter_mq' = SendDontWait(filter_mq, FilterCap, m)
          /\ UNCHANGED main_mq
      BY <1>8 DEF SendPost
    <2>2. m.route = "filter"
      BY <1>1, <1>8 DEF MtpMessage, Queues
    <2>3. Ordered(filter_mq')
      BY <1>1, <2>1, SendOrdered DEF TypeOK, OrderInv, AllPrecede
    <2> HIDE DEF m
    <2> QED
      BY <1>1, <1>2, <1>3, <1>4, <1>5, <1>6, <2>1, <2>2, <2>3
         DEF OrderInv, AllPrecede, FilterHoldsDiverted, OnlyDivertedIsOvertaken
  <1> QED
    BY <1>7, <1>8

LEMMA MtpStepOrder == TypeOK /\ OrderInv /\ MtpStep => OrderInv'
  <1> SUFFICES ASSUME TypeOK, OrderInv, MtpStep
               PROVE  OrderInv'
    OBVIOUS
  <1>1. ASSUME NEW e \in Endpoints, NEW k \in {"Request", "PassthruRequest"},
               PostUspRecord(e, k)
        PROVE  OrderInv'
    <2>1. k \in MtpKinds /\ 0 \in Nat /\ ChooseQueue(k, e, 0)
            /\ UNCHANGED <<main_mq, filter_mq, handled>>
      BY <1>1 DEF PostUspRecord, MtpKinds, dmVars
    <2> QED
      BY <2>1, ChooseQueueOrder
  <1>2. ASSUME NEW e \in Endpoints, NEW r \in unanswered, PostUspResponse(e, r)
        PROVE  OrderInv'
    <2>1. "Response" \in MtpKinds /\ r.id \in Nat /\ ChooseQueue("Response", e, r.id)
            /\ UNCHANGED <<main_mq, filter_mq, handled>>
      BY <1>2 DEF PostUspResponse, MtpKinds, TypeOK, Request, dmVars
    <2> QED
      BY <2>1, ChooseQueueOrder
  <1>3. ASSUME NEW e \in Endpoints, PostUdsHandshakeComplete(e)
        PROVE  OrderInv'
    <2>1. "UdsHandshakeComplete" \in MtpKinds /\ 0 \in Nat
            /\ ChooseQueue("UdsHandshakeComplete", e, 0)
            /\ UNCHANGED <<main_mq, filter_mq, handled>>
      BY <1>3 DEF PostUdsHandshakeComplete, MtpKinds, dmVars
    <2> QED
      BY <2>1, ChooseQueueOrder
  <1>4. ASSUME NEW e \in Endpoints, PostUdsDisconnected(e)
        PROVE  OrderInv'
    <2>1. "UdsDisconnected" \in MtpKinds /\ 0 \in Nat
            /\ ChooseQueue("UdsDisconnected", e, 0)
            /\ UNCHANGED <<main_mq, filter_mq, handled>>
      BY <1>4 DEF PostUdsDisconnected, MtpKinds, dmVars
    <2> QED
      BY <2>1, ChooseQueueOrder
  <1>5. ASSUME NEW t \in Mtps, SendPost(t)
        PROVE  OrderInv'
    BY <1>5, SendPostOrder
  <1> QED
    BY <1>1, <1>2, <1>3, <1>4, <1>5 DEF MtpStep

LEMMA WorkerStepOrder == TypeOK /\ OrderInv /\ WorkerStep => OrderInv'
  <1> SUFFICES ASSUME TypeOK, OrderInv, WorkerStep
               PROVE  OrderInv'
    OBVIOUS
  <1> USE DEF OrderInv, PostsCounted, FilterHoldsDiverted, OnlyDivertedIsOvertaken,
              AllPrecede, InFlight, Posting, dmVars
  <1>1. ASSUME NEW w \in Workers, NEW s \in {"signal", "sync"}, WorkerCall(w, s)
        PROVE  OrderInv'
    BY <1>1 DEF WorkerCall, mtpVars
  <1>2. ASSUME NEW w \in Workers, WorkerSend(w)
        PROVE  OrderInv'
    <2>1. PICK m \in WorkMessage : main_mq' = SendDontWait(main_mq, MainCap, m)
      BY <1>2 DEF WorkerSend, SendDontWait, WorkMessage, WorkKinds, TypeOK
    <2>2. /\ m \in Message
          /\ m.kind \notin MtpKinds
          /\ \A n : MayPrecede(m, n) /\ MayPrecede(n, m)
      BY DEF Message, WorkMessage, WorkKinds, MtpKinds, MayPrecede
    <2>3. Range(main_mq') \subseteq Range(main_mq) \cup {m}
      BY <2>1, <2>2, SendRange DEF TypeOK
    <2>4. Ordered(main_mq')
      BY <2>1, <2>2, SendOrdered DEF TypeOK
    <2>5. UNCHANGED <<filter_mq, post, posted, handled>>
      BY <1>2 DEF WorkerSend
    <2> QED
      BY <2>2, <2>3, <2>4, <2>5
  <1> QED
    BY <1>1, <1>2 DEF WorkerStep

\* The head of the filter queue goes to the end of the main queue, unless it is
\* kept, passed through or discarded.
LEMMA ForwardOrder ==
    ASSUME TypeOK, OrderInv, filter_mq # <<>>, filter_mq' = Tail(filter_mq),
           \/ main_mq' = main_mq
           \/ main_mq' = SendDontWait(main_mq, MainCap, Head(filter_mq)),
           UNCHANGED <<post, posted, handled>>
    PROVE  OrderInv'
  <1> DEFINE m == Head(filter_mq)
  <1>1. /\ m \in Range(filter_mq) /\ m \in Message
        /\ Range(filter_mq') \subseteq Range(filter_mq)
        /\ Ordered(filter_mq') /\ AllPrecede({m}, Range(filter_mq'))
    BY ReadRange, ReadFacts, ReadOrdered DEF TypeOK, OrderInv
  <1>2. Range(main_mq') \subseteq Range(main_mq) \cup {m}
    BY <1>1, SendRange DEF TypeOK
  <1>3. Ordered(main_mq')
    BY <1>1, SendOrdered DEF TypeOK, OrderInv, AllPrecede
  <1> HIDE DEF m
  <1> QED
    BY <1>1, <1>2, <1>3
       DEF OrderInv, PostsCounted, FilterHoldsDiverted, OnlyDivertedIsOvertaken,
           AllPrecede, InFlight, Posting

\* A step that touches no queue, no post and no history.
LEMMA QuietOrder ==
    ASSUME OrderInv, UNCHANGED <<main_mq, filter_mq, post, posted, handled>>
    PROVE  OrderInv'
  BY DEF OrderInv, PostsCounted, FilterHoldsDiverted, OnlyDivertedIsOvertaken,
         AllPrecede, Ordered, InFlight, Posting

LEMMA DmStepOrder == TypeOK /\ OrderInv /\ DmStep => OrderInv'
  <1> SUFFICES ASSUME TypeOK, OrderInv, DmStep
               PROVE  OrderInv'
    OBVIOUS
  <1> USE DEF threadVars
  <1>1. CASE \/ SelectFilter \/ SelectTimeout \/ ForwardEnd \/ HandleEnd
             \/ QueueRequest \/ WaitTimeout \/ \E e \in Endpoints : DivertPosts(e)
    BY <1>1, QuietOrder DEF SelectFilter, SelectTimeout, ForwardEnd, HandleEnd,
       QueueRequest, WaitTimeout, DivertPosts
  <1>2. CASE SelectMain
    <2> DEFINE m == Head(main_mq)
    <2>1. /\ m \in Range(main_mq) /\ m \in Message
          /\ Range(main_mq') \subseteq Range(main_mq)
          /\ Ordered(main_mq') /\ AllPrecede({m}, Range(main_mq'))
      BY <1>2, ReadRange, ReadFacts, ReadOrdered DEF SelectMain, TypeOK, OrderInv
    <2>2. /\ handled' = Append(handled, m)
          /\ UNCHANGED <<filter_mq, post, posted>>
      BY <1>2 DEF SelectMain
    <2>3. Ordered(handled')
      BY <2>1, <2>2, AppendOrdered
         DEF TypeOK, OrderInv, OnlyDivertedIsOvertaken, AllPrecede, InFlight
    <2>4. Range(handled') \subseteq Range(handled) \cup {m}
      BY <2>1, <2>2 DEF TypeOK, Range
    <2> HIDE DEF m
    <2> QED
      BY <2>1, <2>2, <2>3, <2>4
         DEF OrderInv, PostsCounted, FilterHoldsDiverted, OnlyDivertedIsOvertaken,
             AllPrecede, InFlight, Posting
  <1>3. CASE ForwardPendingMessage
    BY <1>3, ForwardOrder DEF ForwardPendingMessage
  <1>4. CASE WaitDisconnected
    BY <1>4, ForwardOrder DEF WaitDisconnected
  <1>5. CASE WaitMatch
    BY <1>5, ForwardOrder DEF WaitMatch
  <1>6. CASE WaitOther
    BY <1>6, ForwardOrder DEF WaitOther
  <1> QED
    BY <1>1, <1>2, <1>3, <1>4, <1>5, <1>6 DEF DmStep, DmLoopStep

\* What has been handled, the two queues and the MTP threads form one line in
\* which a message overtakes another of its thread only because the other was
\* diverted.
THEOREM OrderInvariant == Spec => []OrderInv
  <1>1. Init => OrderInv
    BY DEF Init, OrderInv, PostsCounted, FilterHoldsDiverted,
           OnlyDivertedIsOvertaken, AllPrecede, Ordered, InFlight, Posting, Range
  <1>2. TypeOK /\ OrderInv /\ [Next]_vars => OrderInv'
    <2>1. OrderInv /\ UNCHANGED vars => OrderInv'
      BY QuietOrder DEF vars
    <2> QED
      BY <2>1, MtpStepOrder, WorkerStepOrder, DmStepOrder DEF Next
  <1> QED
    BY <1>1, <1>2, TypeCorrect, PTL DEF Spec
-----------------------------------------------------------------------------
(* Sleeping workers.                                                       *)

Waking(q, w) == {i \in 1..Len(q) : Wakes(q[i], w)}

LEMMA AppendWaking ==
    ASSUME NEW q \in Seq(Message), NEW m, NEW w
    PROVE  /\ ~ Wakes(m, w) => Waking(Append(q, m), w) = Waking(q, w)
           /\ Wakes(m, w) => Waking(Append(q, m), w) = Waking(q, w) \cup {Len(q) + 1}
  <1>1. /\ Len(q) \in Nat
        /\ Len(Append(q, m)) = Len(q) + 1
        /\ Append(q, m)[Len(q) + 1] = m
        /\ \A i \in 1..Len(q) : Append(q, m)[i] = q[i]
    OBVIOUS
  <1>2. 1..(Len(q) + 1) = 1..Len(q) \cup {Len(q) + 1}
    BY <1>1
  <1> QED
    BY <1>1, <1>2 DEF Waking

LEMMA TailWaking ==
    ASSUME NEW q \in Seq(Message), q # <<>>, NEW w
    PROVE  /\ \A i \in Nat : i \in Waking(Tail(q), w) <=> i # 0 /\ i + 1 \in Waking(q, w)
           /\ Waking(Tail(q), w) \subseteq Nat
           /\ 1 \in Waking(q, w) <=> Wakes(Head(q), w)
           /\ \A i \in Waking(q, w) : i \in Nat /\ i # 0
  <1>1. /\ Len(q) \in Nat /\ Len(q) # 0 /\ Head(q) = q[1]
        /\ Len(Tail(q)) = Len(q) - 1
        /\ \A i \in 1..(Len(q) - 1) : Tail(q)[i] = q[i + 1]
    OBVIOUS
  <1> QED
    BY <1>1 DEF Waking

\* The messages that wake w, as SleeperHasOneMessage counts them.
SleeperServed(w) ==
    IF worker[w] = "sleep" THEN \E i \in Waking(main_mq, w) : Waking(main_mq, w) = {i}
                           ELSE Waking(main_mq, w) = {}

LEMMA SleeperDef == SleeperHasOneMessage <=> \A w \in Workers : SleeperServed(w)
  BY DEF SleeperHasOneMessage, SleeperServed, Waking

LEMMA SendServed ==
    ASSUME TypeOK, NEW w \in Workers, SleeperServed(w), NEW m \in MtpMessage,
           \/ main_mq' = main_mq
           \/ main_mq' = SendDontWait(main_mq, MainCap, m),
           UNCHANGED worker
    PROVE  SleeperServed(w)'
  <1>1. ~ Wakes(m, w)
    BY DEF MtpMessage, MtpKinds, Wakes
  <1>2. Waking(Append(main_mq, m), w) = Waking(main_mq, w)
    BY <1>1, AppendWaking DEF TypeOK
  <1>3. main_mq' \in {main_mq, Append(main_mq, m)}
    BY DEF SendDontWait
  <1>4. Waking(main_mq', w) = Waking(main_mq, w)
    BY <1>2, <1>3
  <1> QED
    BY <1>4 DEF SleeperServed

LEMMA SleepersStep == TypeOK /\ OrderInv /\ SleeperHasOneMessage /\ Next
                        => SleeperHasOneMessage'
  <1> SUFFICES ASSUME TypeOK, OrderInv, SleeperHasOneMessage, Next
               PROVE  SleeperHasOneMessage'
    OBVIOUS
  <1> SUFFICES ASSUME NEW w \in Workers
               PROVE  SleeperServed(w)'
    BY DEF SleeperHasOneMessage, SleeperServed, Waking
  <1>0. SleeperServed(w)
    BY SleeperDef
  <1>1. CASE MtpStep
    <2>1. CASE \E t \in Mtps : SendPost(t)
      BY <1>0, <2>1, SendServed DEF SendPost, TypeOK
    <2>2. CASE UNCHANGED <<main_mq, worker>>
      BY <1>0, <2>2 DEF SleeperServed
    <2> QED
      BY <1>1, <2>1, <2>2 DEF MtpStep, PostUspRecord, PostUspResponse,
         PostUdsHandshakeComplete, PostUdsDisconnected
  <1>2. CASE WorkerStep
    <2>1. ASSUME NEW v \in Workers, NEW s \in {"signal", "sync"}, WorkerCall(v, s)
          PROVE  SleeperServed(w)'
      BY <1>0, <2>1 DEF WorkerCall, mtpVars, SleeperServed, TypeOK
    <2>2. ASSUME NEW v \in Workers, WorkerSend(v)
          PROVE  SleeperServed(w)'
      <3> DEFINE m == [kind |-> IF worker[v] = "sync" THEN "DoWorkSync" ELSE "Signal",
                       from |-> v, id |-> 0, route |-> "main", seq |-> 0]
      <3>1. Wakes(m, w) <=> v = w /\ worker[v] = "sync"
        BY DEF Wakes
      <3>2. main_mq' = Append(main_mq, m)
        BY <2>2 DEF WorkerSend
      <3> HIDE DEF m
      <3>3. Waking(main_mq', w) = IF v = w /\ worker[v] = "sync"
                                  THEN Waking(main_mq, w) \cup {Len(main_mq) + 1}
                                  ELSE Waking(main_mq, w)
        BY <3>1, <3>2, AppendWaking DEF TypeOK
      <3>4. worker[v] \in {"signal", "sync"}
              /\ worker' = [worker EXCEPT ![v] = IF @ = "sync" THEN "sleep" ELSE "idle"]
        BY <2>2 DEF WorkerSend
      <3>5. CASE v = w /\ worker[v] = "sync"
        <4>1. Waking(main_mq', w) = {Len(main_mq) + 1} /\ worker'[w] = "sleep"
          BY <1>0, <3>3, <3>4, <3>5 DEF SleeperServed, TypeOK
        <4> QED
          BY <4>1 DEF SleeperServed
      <3>6. CASE ~ (v = w /\ worker[v] = "sync")
        <4>1. Waking(main_mq', w) = Waking(main_mq, w)
          BY <3>3, <3>6
        <4>2. worker'[w] = "sleep" <=> worker[w] = "sleep"
          BY <3>4, <3>6 DEF TypeOK
        <4> QED
          BY <1>0, <4>1, <4>2 DEF SleeperServed
      <3> QED
        BY <3>5, <3>6
    <2> QED
      BY <1>2, <2>1, <2>2 DEF WorkerStep
  <1>3. CASE DmStep
    <2> USE DEF threadVars
    <2>1. CASE SelectMain
      <3>1. Head(main_mq) \in Message /\ main_mq # <<>> /\ main_mq' = Tail(main_mq)
              /\ worker' = IF Head(main_mq).kind = "DoWorkSync"
                           THEN [worker EXCEPT ![Head(main_mq).from] = "idle"]
                           ELSE worker
        BY <2>1, ReadFacts DEF SelectMain, TypeOK, Handle
      <3>2. CASE Wakes(Head(main_mq), w)
        <4>1. 1 \in Waking(main_mq, w)
          BY <3>1, <3>2, TailWaking DEF TypeOK
        <4>2. Waking(main_mq, w) = {1}
          BY <1>0, <4>1 DEF SleeperServed
        <4>3. Waking(main_mq', w) = {}
          BY <3>1, <4>2, TailWaking DEF TypeOK
        <4>4. worker'[w] = "idle"
          BY <3>1, <3>2 DEF Wakes, TypeOK
        <4> QED
          BY <4>3, <4>4 DEF SleeperServed
      <3>3. CASE ~ Wakes(Head(main_mq), w)
        <4>1. worker'[w] = worker[w]
          BY <3>1, <3>3 DEF Wakes, TypeOK
        <4>2. CASE Waking(main_mq, w) = {}
          <5>1. Waking(main_mq', w) = {}
            BY <3>1, <4>2, TailWaking DEF TypeOK
          <5> QED
            BY <1>0, <4>1, <4>2, <5>1 DEF SleeperServed
        <4>3. ASSUME NEW i \in Waking(main_mq, w), Waking(main_mq, w) = {i}
              PROVE  SleeperServed(w)'
          <5>1. i # 1 /\ i \in Nat /\ i # 0
            BY <3>1, <3>3, <4>3, TailWaking DEF TypeOK
          <5>2. /\ \A j \in Nat : j \in Waking(main_mq', w) <=> j = i - 1
                /\ Waking(main_mq', w) \subseteq Nat
            BY <3>1, <4>3, <5>1, TailWaking DEF TypeOK
          <5>3. Waking(main_mq', w) = {i - 1} /\ i - 1 \in Waking(main_mq', w)
            BY <5>1, <5>2
          <5> QED
            BY <1>0, <4>1, <4>3, <5>3 DEF SleeperServed
        <4> QED
          BY <1>0, <4>2, <4>3 DEF SleeperServed
      <3> QED
        BY <3>2, <3>3
    <2>2. CASE ForwardPendingMessage \/ WaitDisconnected \/ WaitMatch \/ WaitOther
      <3>1. Head(filter_mq) \in Message /\ Head(filter_mq) \in Range(filter_mq)
              /\ UNCHANGED worker
              /\ \/ main_mq' = main_mq
                 \/ main_mq' = SendDontWait(main_mq, MainCap, Head(filter_mq))
        BY <2>2, ReadFacts, ReadRange
           DEF ForwardPendingMessage, WaitDisconnected, WaitMatch, WaitOther, TypeOK
      <3>2. Head(filter_mq) \in MtpMessage
        BY <3>1 DEF OrderInv, FilterHoldsDiverted, Message, WorkMessage
      <3> QED
        BY <1>0, <3>1, <3>2, SendServed
    <2>3. CASE UNCHANGED <<main_mq, worker>>
      BY <1>0, <2>3 DEF SleeperServed
    <2> QED
      BY <1>3, <2>1, <2>2, <2>3 DEF DmStep, DmLoopStep, SelectFilter, SelectTimeout,
         ForwardEnd, HandleEnd, QueueRequest, WaitTimeout, DivertPosts
  <1> QED
    BY <1>1, <1>2, <1>3 DEF Next

\* Everything dm_exec.c relies on about its queues, for any number of threads and
\* any queue capacity: the answer waited for is diverted, the order is lost only
\* by diversion, and a thread in USP_PROCESS_DoWorkSync has the one message that
\* wakes it.
THEOREM QueuesKept == Spec => []DmInv
  <1>1. Init => SleeperHasOneMessage
    BY DEF Init, SleeperHasOneMessage
  <1>2. TypeOK /\ OrderInv /\ SleeperHasOneMessage /\ [Next]_vars
            => SleeperHasOneMessage'
    <2>1. SleeperHasOneMessage /\ UNCHANGED vars => SleeperHasOneMessage'
      BY DEF SleeperHasOneMessage, vars
    <2> QED
      BY <2>1, SleepersStep
  <1>3. Spec => []SleeperHasOneMessage
    BY <1>1, <1>2, TypeCorrect, OrderInvariant, PTL DEF Spec
  <1> QED
    BY <1>3, TypeCorrect, WaitInvariant, OrderInvariant, PTL DEF DmInv
=============================================================================
