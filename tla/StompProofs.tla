----------------------------- MODULE StompProofs -----------------------------
(***************************************************************************)
(* What holds of a STOMP connection for any number of controllers, agent   *)
(* queues, changes and records.                                            *)
(*                                                                         *)
(* It settles on the configuration of the data model, whether or not       *)
(* connect records race the one in flight: that argument never looks at    *)
(* the send queue.  And where they do not race, no record is lost and the  *)
(* frame in flight is that of the record at the head of the queue.         *)
(*                                                                         *)
(* The functions of stomp.c take and give connections, so the invariants   *)
(* are predicates of a connection c (Settling with the configuration w of  *)
(* the data model, Sending with the number n of records given so far) and  *)
(* there is a lemma for each function.  A connection that was stopped and  *)
(* started, or that failed, needs no more of the one before it than that   *)
(* it was enabled and knew w.                                              *)
(***************************************************************************)
EXTENDS Stomp, FiniteSetTheorems, TLAPS

\* The fields that the argument is about have their types.
IsConnection(c) ==
    c \in [enabled : BOOLEAN, state : StompState \cup {"Crashed"}, failed : BOOLEAN,
           reconnect : Scheduled, resubscribe : Scheduled, perform : {{}, {"sub"}, {"unsub", "sub"}},
           cur : Conf, next : Conf, subscribe_dest : AgentQueues \cup {NoQueue},
           rx : {c.rx}, tx : {c.tx}, has_record : {c.has_record}, queue : {c.queue},
           subscribed : {c.subscribed}, unsent : {c.unsent}, missed : BOOLEAN]

\* Each state has its frame.
InPhase(c) ==
    /\ c.state = "SendingStompFrame" => c.tx = [kind |-> "STOMP"]
    /\ c.state = "SendingSubscribeFrame" =>
          c.tx = [kind |-> "SUBSCRIBE", dest |-> AgentQueue(c)] /\ AgentQueue(c) # NoQueue
    /\ c.state \notin Connected \/ c.state = "AwaitingConnectedFrame" => c.tx = NoFrame
    /\ c.state = "Running" /\ c.tx # NoFrame => c.tx.kind \in {"SUBSCRIBE", "UNSUBSCRIBE", "SEND"}
    /\ c.state = "Running" => ~c.failed
    /\ c.enabled = (c.state # "Idle")

\* Nothing is scheduled before the agent has subscribed.
Unscheduled(c) ==
    /\ c.state \in {"SendingStompFrame", "AwaitingConnectedFrame"} =>
          c.resubscribe = "Off" /\ c.subscribe_dest = NoQueue
    /\ c.state \in Handshake => c.perform = {}

\* The connection's own copy of the configuration is current, or will be made so.
CopyCurrent(c, w) ==
    c.state \in Connected /\ c.reconnect = "Off" =>
        /\ c.cur.params = w.params
        /\ c.resubscribe = "Off" /\ ~c.missed /\ c.subscribe_dest = NoQueue => c.cur.queue = w.queue

\* The queue that the agent ought to be subscribed to.
Target(c, w) == IF c.subscribe_dest # NoQueue THEN c.subscribe_dest ELSE w.queue

\* The broker has subscribed the agent to it, or will when the frame in the
\* buffer arrives; an UNSUBSCRIBE is followed by a SUBSCRIBE.
SubscriptionCurrent(c, w) ==
    c.state = "Running" /\ c.reconnect = "Off" =>
        /\ c.tx # NoFrame /\ c.tx.kind = "UNSUBSCRIBE" => "sub" \in c.perform
        /\ c.resubscribe = "Off" /\ c.perform = {} /\ ~c.missed =>
              IF c.tx # NoFrame /\ c.tx.kind = "SUBSCRIBE" THEN c.tx.dest = Target(c, w)
              ELSE c.subscribed = Target(c, w)

Settling(c, w) ==
    /\ IsConnection(c) /\ c.next = w
    /\ InPhase(c) /\ Unscheduled(c) /\ CopyCurrent(c, w) /\ SubscriptionCurrent(c, w)

StompIndInv == Settling(sc, want) /\ changes \in Nat

-----------------------------------------------------------------------------
(* Connections that are stopped, have failed, or are made.                 *)

LEMMA RetryingSettles ==
  ASSUME NEW c, NEW w, IsConnection(c), c.next = w, c.enabled, c.tx = NoFrame,
         c.state \in {"Retrying", "Crashed"}
  PROVE  Settling(c, w)
  BY DEF Settling, InPhase, Unscheduled, CopyCurrent, SubscriptionCurrent, Connected, Handshake

LEMMA StoppedConnection ==
  ASSUME NEW c, IsConnection(c), NEW purge \in BOOLEAN
  PROVE  LET d == StopStompConnection(c, purge)
         IN  /\ IsConnection(d) /\ d.next = c.next /\ d.enabled = c.enabled
             /\ d.tx = NoFrame /\ d.state = "Idle" /\ d.resubscribe = c.resubscribe
  <1> DEFINE d == StopStompConnection(c, purge)
  <1>1. /\ d.next = c.next /\ d.enabled = c.enabled /\ d.tx = NoFrame /\ d.state = "Idle"
        /\ d.resubscribe = c.resubscribe
    BY DEF IsConnection, StopStompConnection
  <1>2. IsConnection(d)
    BY DEF IsConnection, StopStompConnection, StompState
  <1> QED
    BY <1>1, <1>2

LEMMA FailedSettles ==
  ASSUME NEW c, NEW w, IsConnection(c), c.next = w, c.enabled
  PROVE  /\ Settling(HandleStompSocketError(c), w) /\ HandleStompSocketError(c).enabled
         /\ HandleStompSocketError(c).resubscribe = c.resubscribe
         /\ HandleStompSocketError(c).state = "Retrying"
  <1> DEFINE b == StopStompConnection(c, FALSE)
             d == HandleStompSocketError(c)
  <1>1. IsConnection(b) /\ b.next = w /\ b.enabled /\ b.tx = NoFrame /\ b.resubscribe = c.resubscribe
    BY StoppedConnection
  <1>2. d = [b EXCEPT !.failed = TRUE, !.state = "Retrying"]
    BY DEF HandleStompSocketError
  <1> HIDE DEF b, d
  <1>3. /\ IsConnection(d) /\ d.next = w /\ d.enabled /\ d.state = "Retrying" /\ d.tx = NoFrame
        /\ d.resubscribe = c.resubscribe
    BY <1>1, <1>2 DEF IsConnection, StompState
  <1> QED
    BY <1>3, RetryingSettles DEF d

LEMMA StartedSettles ==
  ASSUME NEW c, NEW w, IsConnection(c), c.next = w, c.enabled, NEW d \in StartStompConnection(c)
  PROVE  Settling(d, w) /\ d.enabled /\ d.resubscribe = "Off"
  <1> DEFINE b == [c EXCEPT !.cur = c.next]
             i == InitStompConnection(b)
             r == [i EXCEPT !.state = "Retrying"]
             e == HandleStompSocketError(i)
             f == StartSendingFrame(i, [kind |-> "STOMP"])
             g == [f EXCEPT !.state = "SendingStompFrame"]
  <1>1. IsConnection(b) /\ b.next = w /\ b.enabled /\ b.cur = w
    BY DEF IsConnection
  <1>2. i = [b EXCEPT !.state = "Idle", !.reconnect = "Off", !.resubscribe = "Off",
                      !.perform = {}, !.subscribe_dest = NoQueue, !.rx = FALSE,
                      !.tx = NoFrame, !.has_record = FALSE, !.missed = FALSE]
    BY DEF InitStompConnection
  <1>3. d = r \/ d = e \/ d = g
    BY DEF StartStompConnection, ConnectToServer
  <1> HIDE DEF b, i
  <1>4. /\ i.next = w /\ i.enabled /\ i.cur = w /\ i.tx = NoFrame /\ i.reconnect = "Off" /\ i.resubscribe = "Off"
        /\ i.perform = {} /\ i.subscribe_dest = NoQueue
    BY <1>1, <1>2 DEF IsConnection
  <1>5. IsConnection(i)
    <2> DEFINE h == [b EXCEPT !.state = "Idle", !.reconnect = "Off", !.resubscribe = "Off",
                              !.perform = {}, !.subscribe_dest = NoQueue]
    <2>1. IsConnection(h)
      BY <1>1 DEF IsConnection, StompState, Scheduled
    <2>2. i = [h EXCEPT !.rx = FALSE, !.tx = NoFrame, !.has_record = FALSE, !.missed = FALSE]
      BY <1>1, <1>2 DEF IsConnection
    <2> HIDE DEF h
    <2> QED
      BY <2>1, <2>2 DEF IsConnection
  <1>6. CASE d = r
    <2>1. IsConnection(r) /\ r.next = w /\ r.enabled /\ r.state = "Retrying" /\ r.tx = NoFrame /\ r.resubscribe = "Off"
      BY <1>4, <1>5 DEF IsConnection, StompState
    <2> QED
      BY <1>6, <2>1, RetryingSettles
  <1>7. CASE d = e
    BY <1>4, <1>5, <1>7, FailedSettles
  <1>8. CASE d = g
    <2>1. f = [i EXCEPT !.tx = [kind |-> "STOMP"], !.has_record = FALSE]
      BY DEF StartSendingFrame
    <2> HIDE DEF f
    <2>2. /\ g.next = w /\ g.enabled /\ g.cur = w /\ g.tx = [kind |-> "STOMP"] /\ g.reconnect = "Off"
          /\ g.resubscribe = "Off" /\ g.perform = {} /\ g.subscribe_dest = NoQueue
          /\ g.state = "SendingStompFrame"
      BY <1>4, <1>5, <2>1 DEF IsConnection
    <2>3. IsConnection(g)
      BY <1>5, <2>1 DEF IsConnection, StompState, Connected, Handshake
    <2> HIDE DEF g
    <2> QED
      BY <1>8, <2>2, <2>3 DEF Settling, InPhase, Unscheduled, CopyCurrent, SubscriptionCurrent, Connected, Handshake
  <1> QED
    BY <1>3, <1>6, <1>7, <1>8

\* The receive buffer and the send queue do not matter.
LEMMA AlikeSettles ==
  ASSUME NEW c, NEW w, Settling(c, w), NEW d, IsConnection(d),
         /\ d.enabled = c.enabled /\ d.state = c.state /\ d.failed = c.failed
         /\ d.reconnect = c.reconnect /\ d.resubscribe = c.resubscribe /\ d.perform = c.perform
         /\ d.cur = c.cur /\ d.next = c.next /\ d.subscribe_dest = c.subscribe_dest
         /\ d.tx = c.tx /\ d.subscribed = c.subscribed /\ d.missed = c.missed
  PROVE  Settling(d, w)
  BY DEF Settling, InPhase, Unscheduled, CopyCurrent, SubscriptionCurrent, Target, AgentQueue

LEMMA TimedOutSettles ==
  ASSUME NEW c, NEW w, Settling(c, w), c.enabled, NEW states, NEW d \in TimedOut(c, states)
  PROVE  Settling(d, w) /\ d.enabled
  BY FailedSettles DEF TimedOut, Settling

\* The agent's subscription waits for its frame.
LEMMA SubscribeFrame ==
  ASSUME NEW q \in AgentQueues
  PROVE  [kind |-> "SUBSCRIBE", dest |-> q] # NoFrame
  BY FrameAssumption DEF Frame

LEMMA SubscribingHasFrame ==
  ASSUME NEW c, NEW w, Settling(c, w), c.tx = NoFrame
  PROVE  c.state # "SendingSubscribeFrame"
  <1>1. SUFFICES ASSUME c.state = "SendingSubscribeFrame" PROVE FALSE
    OBVIOUS
  <1>2. AgentQueue(c) \in AgentQueues /\ c.tx = [kind |-> "SUBSCRIBE", dest |-> AgentQueue(c)]
    BY <1>1 DEF Settling, InPhase, IsConnection, AgentQueue, Conf
  <1> QED
    BY <1>2, SubscribeFrame

-----------------------------------------------------------------------------
(* STOMP_UpdateAllSockSet                                                  *)

LEMMA ResubscribedSettles ==
  ASSUME NEW c, NEW w, Settling(c, w), c.enabled, NEW sent, sent => c.tx = NoFrame \/ c.resubscribe = "Off"
  PROVE  Settling(Resubscribed(c, sent), w) /\ Resubscribed(c, sent).enabled
  <1> DEFINE d == [c EXCEPT !.cur.queue = c.next.queue, !.resubscribe = "Off",
                            !.perform = {"unsub", "sub"}, !.missed = FALSE]
  <1>1. CASE ~(c.resubscribe = "Activated" /\ sent)
    BY <1>1 DEF Resubscribed
  <1>2. CASE c.resubscribe = "Activated" /\ sent
    <2>1. IsConnection(c) /\ c.next = w /\ c.tx = NoFrame
      BY <1>2 DEF Settling
    <2>2. c.state \notin Handshake
      BY <1>2, <2>1, SubscribingHasFrame DEF Settling, Unscheduled, Handshake
    <2>3. /\ d.enabled = c.enabled /\ d.state = c.state /\ d.failed = c.failed /\ d.reconnect = c.reconnect
          /\ d.resubscribe = "Off" /\ d.perform = {"unsub", "sub"} /\ d.next = c.next
          /\ d.subscribe_dest = c.subscribe_dest /\ d.tx = c.tx /\ d.subscribed = c.subscribed
          /\ d.cur = [c.cur EXCEPT !.queue = c.next.queue]
      BY <2>1 DEF IsConnection
    <2>4. d.cur \in Conf /\ d.cur.params = c.cur.params /\ d.cur.queue = w.queue
      BY <2>1, <2>3 DEF IsConnection, Conf
    <2>5. IsConnection(d)
      BY <2>1, <2>3, <2>4 DEF IsConnection, Scheduled
    <2>6. d = Resubscribed(c, sent)
      BY <1>2 DEF Resubscribed
    <2> HIDE DEF d
    <2>7. InPhase(d)
      BY <2>1, <2>2, <2>3 DEF Settling, InPhase, Handshake
    <2>8. Unscheduled(d)
      BY <2>2, <2>3 DEF Unscheduled, Handshake
    <2>9. CopyCurrent(d, w)
      BY <2>3, <2>4 DEF Settling, CopyCurrent
    <2>10. SubscriptionCurrent(d, w)
      BY <2>1, <2>3 DEF SubscriptionCurrent
    <2> QED
      BY <2>1, <2>3, <2>5, <2>6, <2>7, <2>8, <2>9, <2>10 DEF Settling
  <1> QED
    BY <1>1, <1>2

\* A frame is put into the empty buffer of a running connection c, which has
\* become b by having one thing less to do.
LEMMA StartSendingSettles ==
  ASSUME NEW c, NEW w, Settling(c, w), c.enabled, c.state = "Running", c.tx = NoFrame,
         NEW b, IsConnection(b),
         /\ b.enabled = c.enabled /\ b.state = c.state /\ b.failed = c.failed
         /\ b.reconnect = c.reconnect /\ b.resubscribe = c.resubscribe
         /\ b.cur = c.cur /\ b.next = c.next /\ b.subscribe_dest = c.subscribe_dest
         /\ b.subscribed = c.subscribed /\ b.missed = c.missed,
         NEW f,
         \/ f.kind = "UNSUBSCRIBE" /\ f # NoFrame /\ "sub" \in b.perform
         \/ f.kind = "SUBSCRIBE" /\ f # NoFrame /\ f.dest = AgentQueue(c)
         \/ f.kind = "SEND" /\ b.perform = c.perform
  PROVE  Settling(StartSendingFrame(b, f), w) /\ StartSendingFrame(b, f).enabled
  <1> DEFINE d == StartSendingFrame(b, f)
  <1>1. d = [b EXCEPT !.tx = f, !.has_record = f.kind = "SEND"]
    BY DEF StartSendingFrame
  <1> HIDE DEF d
  <1>2. /\ d.enabled = c.enabled /\ d.state = c.state /\ d.failed = c.failed
        /\ d.reconnect = c.reconnect /\ d.resubscribe = c.resubscribe /\ d.perform = b.perform
        /\ d.cur = c.cur /\ d.next = c.next /\ d.subscribe_dest = c.subscribe_dest
        /\ d.tx = f /\ d.subscribed = c.subscribed /\ d.missed = c.missed
    BY <1>1 DEF IsConnection
  <1>3. IsConnection(d)
    BY <1>1, <1>2 DEF IsConnection
  <1>4. InPhase(d) /\ Unscheduled(d) /\ CopyCurrent(d, w)
    BY <1>2 DEF Settling, InPhase, Unscheduled, CopyCurrent, Connected, Handshake
  <1>5. SubscriptionCurrent(d, w)
    <2>1. CASE f.kind = "UNSUBSCRIBE" /\ f # NoFrame /\ "sub" \in b.perform
      BY <1>2, <2>1 DEF SubscriptionCurrent
    <2>2. CASE f.kind = "SUBSCRIBE" /\ f # NoFrame /\ f.dest = AgentQueue(c)
      BY <1>2, <2>2 DEF Settling, SubscriptionCurrent, CopyCurrent, Target, AgentQueue, Connected, Handshake
    <2>3. CASE f.kind = "SEND" /\ b.perform = c.perform
      BY <1>2, <2>3 DEF Settling, SubscriptionCurrent, Target
    <2> QED
      BY <2>1, <2>2, <2>3
  <1> QED
    BY <1>2, <1>3, <1>4, <1>5 DEF Settling, d

LEMMA ExpiredSettles ==
  ASSUME NEW c, NEW w, Settling(c, w), NEW d \in RemoveExpiredStompMessages(c)
  PROVE  /\ Settling(d, w) /\ d.enabled = c.enabled /\ d.state = c.state /\ d.tx = c.tx
         /\ d.perform = c.perform
  <1>1. PICK N : d = [c EXCEPT !.queue = Without(c.queue, N), !.unsent = c.unsent \ N]
    BY DEF RemoveExpiredStompMessages, Drop
  <1>2. IsConnection(c)
    BY DEF Settling
  <1>3. /\ d.enabled = c.enabled /\ d.state = c.state /\ d.failed = c.failed
        /\ d.reconnect = c.reconnect /\ d.resubscribe = c.resubscribe /\ d.perform = c.perform
        /\ d.cur = c.cur /\ d.next = c.next /\ d.subscribe_dest = c.subscribe_dest
        /\ d.tx = c.tx /\ d.subscribed = c.subscribed /\ d.missed = c.missed
    BY <1>1, <1>2 DEF IsConnection
  <1>4. IsConnection(d)
    BY <1>1, <1>2 DEF IsConnection
  <1> QED
    BY <1>3, <1>4, AlikeSettles

LEMMA NextMsgSettles ==
  ASSUME NEW c, NEW w, Settling(c, w), c.enabled, c.state = "Running", c.tx = NoFrame,
         NEW d \in GetNextStompMsgToSend(c)
  PROVE  Settling(d, w) /\ d.enabled
  <1>1. IsConnection(c) /\ c.next = w /\ c.perform \in {{}, {"sub"}, {"unsub", "sub"}}
    BY DEF Settling, IsConnection
  <1>2. CASE "unsub" \in c.perform
    <2> DEFINE f == [kind |-> "UNSUBSCRIBE"]
               b == [c EXCEPT !.perform = c.perform \ {"unsub"}]
    <2>1. c.perform \ {"unsub"} = {"sub"}
      BY <1>1, <1>2
    <2>2. d = StartSendingFrame(b, f)
      BY <1>2 DEF GetNextStompMsgToSend
    <2>3. f # NoFrame /\ f.kind = "UNSUBSCRIBE"
      BY FrameAssumption DEF Frame
    <2>4. b = [c EXCEPT !.perform = {"sub"}]
      BY <2>1
    <2> HIDE DEF b, f
    <2>5. /\ IsConnection(b) /\ "sub" \in b.perform
          /\ b.enabled = c.enabled /\ b.state = c.state /\ b.failed = c.failed
          /\ b.reconnect = c.reconnect /\ b.resubscribe = c.resubscribe
          /\ b.cur = c.cur /\ b.next = c.next /\ b.subscribe_dest = c.subscribe_dest
          /\ b.subscribed = c.subscribed /\ b.missed = c.missed
      BY <1>1, <2>4 DEF IsConnection
    <2> QED
      BY <2>2, <2>3, <2>5, StartSendingSettles
  <1>3. CASE c.perform = {"sub"}
    <2> DEFINE b == [c EXCEPT !.perform = c.perform \ {"sub"}]
    <2>1. c.perform \ {"sub"} = {} /\ "unsub" \notin c.perform
      BY <1>3
    <2>2. d = IF AgentQueue(b) = NoQueue THEN HandleStompSocketError(b)
              ELSE StartSendingFrame(b, [kind |-> "SUBSCRIBE", dest |-> AgentQueue(b)])
      BY <1>3, <2>1 DEF GetNextStompMsgToSend
    <2>3. b = [c EXCEPT !.perform = {}]
      BY <2>1
    <2> HIDE DEF b
    <2>4. /\ IsConnection(b)
          /\ b.enabled = c.enabled /\ b.state = c.state /\ b.failed = c.failed
          /\ b.reconnect = c.reconnect /\ b.resubscribe = c.resubscribe
          /\ b.cur = c.cur /\ b.next = c.next /\ b.subscribe_dest = c.subscribe_dest
          /\ b.subscribed = c.subscribed /\ b.missed = c.missed
      BY <1>1, <2>3 DEF IsConnection
    <2>5. AgentQueue(b) = AgentQueue(c) /\ AgentQueue(c) \in AgentQueues \cup {NoQueue}
      BY <1>1, <2>4 DEF IsConnection, AgentQueue, Conf
    <2>6. CASE AgentQueue(b) = NoQueue
      BY <1>1, <2>2, <2>4, <2>6, FailedSettles
    <2>7. CASE AgentQueue(b) # NoQueue
      <3> DEFINE f == [kind |-> "SUBSCRIBE", dest |-> AgentQueue(b)]
      <3>1. f # NoFrame /\ f.kind = "SUBSCRIBE" /\ f.dest = AgentQueue(c)
        BY <2>5, <2>7, SubscribeFrame
      <3>2. d = StartSendingFrame(b, f)
        BY <2>2, <2>7
      <3> HIDE DEF f
      <3> QED
        BY <2>4, <3>1, <3>2, StartSendingSettles
    <2> QED
      BY <2>6, <2>7
  <1>4. CASE c.perform = {}
    <2>1. PICK b \in RemoveExpiredStompMessages(c) :
            d = IF b.queue = <<>> THEN b
                ELSE IF Head(b.queue).to = NoQueue THEN HandleStompSocketError(b)
                ELSE StartSendingFrame(b, [kind |-> "SEND", rec |-> Head(b.queue)])
      BY <1>4 DEF GetNextStompMsgToSend
    <2>2. Settling(b, w) /\ b.enabled /\ b.state = "Running" /\ b.tx = NoFrame /\ b.perform = {}
      BY <1>4, ExpiredSettles
    <2>3. IsConnection(b) /\ b.next = w
      BY <2>2 DEF Settling
    <2>4. CASE d = b
      BY <2>2, <2>4
    <2>5. CASE d = HandleStompSocketError(b)
      BY <2>2, <2>3, <2>5, FailedSettles
    <2>6. CASE d = StartSendingFrame(b, [kind |-> "SEND", rec |-> Head(b.queue)])
      <3> DEFINE f == [kind |-> "SEND", rec |-> Head(b.queue)]
      <3>1. f.kind = "SEND" /\ d = StartSendingFrame(b, f)
        BY <2>6
      <3> HIDE DEF f
      <3> QED
        BY <2>2, <2>3, <3>1, StartSendingSettles
    <2> QED
      BY <2>1, <2>4, <2>5, <2>6
  <1> QED
    BY <1>1, <1>2, <1>3, <1>4

LEMMA AdvancedSettles ==
  ASSUME NEW c, NEW w, Settling(c, w), c.enabled, NEW d \in UpdateStompConnectionSockSet(c)
  PROVE  Settling(d, w) /\ d.enabled
  <1>1. PICK b \in TimedOut(c, Handshake) :
          d \in CASE b.state = "Running" -> HandleStompRunningState(b)
                  [] b.state = "Retrying" -> {b} \cup StartStompConnection(b)
                  [] OTHER -> {b}
    BY DEF UpdateStompConnectionSockSet
  <1>2. Settling(b, w) /\ b.enabled
    BY TimedOutSettles
  <1>3. IsConnection(b) /\ b.next = w
    BY <1>2 DEF Settling
  <1>4. CASE b.state = "Running"
    <2>1. d \in HandleStompRunningState(b)
      BY <1>1, <1>4
    <2> QED
      BY <1>2, <1>4, <2>1, NextMsgSettles DEF HandleStompRunningState
  <1>5. CASE b.state = "Retrying"
    <2>1. d = b \/ d \in StartStompConnection(b)
      BY <1>1, <1>5
    <2> QED
      BY <1>2, <1>3, <2>1, StartedSettles
  <1>6. CASE b.state # "Running" /\ b.state # "Retrying"
    <2>1. d = b
      BY <1>1, <1>6
    <2> QED
      BY <1>2, <2>1
  <1> QED
    BY <1>4, <1>5, <1>6

LEMMA UpdatedSettles ==
  ASSUME NEW c, NEW w, Settling(c, w), c.enabled, NEW d \in UpdatedSockSet(c)
  PROVE  Settling(d, w) /\ d.enabled
  <1> DEFINE timeouts == {"SendingSubscribeFrame", "Running"}
  <1>1. PICK i \in HandleStompSourceIPAddrChanges(c) :
          \E r \in Reconnected(i) : \E t \in TimedOut(Resubscribed(r, ResponsesSent(i)), timeouts) :
            d \in UpdateStompConnectionSockSet(t)
    BY DEF UpdatedSockSet
  <1> PICK r \in Reconnected(i) :
          \E t \in TimedOut(Resubscribed(r, ResponsesSent(i)), timeouts) : d \in UpdateStompConnectionSockSet(t)
    BY <1>1
  <1> PICK t \in TimedOut(Resubscribed(r, ResponsesSent(i)), timeouts) : d \in UpdateStompConnectionSockSet(t)
    OBVIOUS
  <1>2. Settling(i, w) /\ i.enabled
    <2>1. i = c \/ i \in StartStompConnection(StopStompConnection(c, FALSE))
      BY DEF HandleStompSourceIPAddrChanges
    <2>2. LET b == StopStompConnection(c, FALSE) IN IsConnection(b) /\ b.next = w /\ b.enabled
      BY StoppedConnection DEF Settling
    <2> QED
      BY <2>1, <2>2, StartedSettles
  <1>3. Settling(r, w) /\ r.enabled /\ (r = i \/ r.resubscribe = "Off")
    <2> DEFINE b == StopStompConnection(i, TRUE)
               e == [b EXCEPT !.reconnect = "Off"]
    <2>1. r = i \/ r \in StartStompConnection(e)
      BY DEF Reconnected
    <2>2. IsConnection(b) /\ b.next = w /\ b.enabled
      BY <1>2, StoppedConnection DEF Settling
    <2> HIDE DEF b
    <2>3. IsConnection(e) /\ e.next = w /\ e.enabled
      BY <2>2 DEF IsConnection, Scheduled
    <2> HIDE DEF e
    <2> QED
      BY <1>2, <2>1, <2>3, StartedSettles
  <1>4. ResponsesSent(i) => r.tx = NoFrame \/ r.resubscribe = "Off"
    BY <1>3 DEF ResponsesSent
  <1>5. Settling(Resubscribed(r, ResponsesSent(i)), w) /\ Resubscribed(r, ResponsesSent(i)).enabled
    BY <1>3, <1>4, ResubscribedSettles
  <1>6. Settling(t, w) /\ t.enabled
    BY <1>5, TimedOutSettles
  <1> QED
    BY <1>6, AdvancedSettles

-----------------------------------------------------------------------------
(* STOMP_ProcessAllSocketActivity                                          *)

\* What may have become of a connection d whose frame was sent, after the
\* record was taken from the queue.
LEMMA RecordSentCases ==
  ASSUME NEW c, NEW w, IsConnection(c), c.next = w, c.enabled, c.tx = NoFrame
  PROVE  LET d == RecordSent(c)
         IN  \/ Settling(d, w) /\ d.enabled /\ d.state \in {"Retrying", "Crashed"}
             \/ \E q : d = [c EXCEPT !.queue = q]
  <1> DEFINE x == [c EXCEPT !.state = "Crashed"]
             b == [c EXCEPT !.queue = Tail(c.queue)]
             e == [b EXCEPT !.has_record = FALSE]
  <1>1. RecordSent(c) = x \/ RecordSent(c) = HandleStompSocketError(e) \/ RecordSent(c) = b
    BY DEF RecordSent
  <1>2. IsConnection(x) /\ x.next = w /\ x.enabled /\ x.tx = NoFrame /\ x.state = "Crashed"
    BY DEF IsConnection
  <1>3. IsConnection(e) /\ e.next = w /\ e.enabled
    BY DEF IsConnection
  <1>4. Settling(x, w)
    BY <1>2, RetryingSettles
  <1>5. LET d == HandleStompSocketError(e) IN Settling(d, w) /\ d.enabled /\ d.state = "Retrying"
    BY <1>3, FailedSettles
  <1>6. CASE RecordSent(c) = x
    BY <1>2, <1>4, <1>6
  <1>7. CASE RecordSent(c) = HandleStompSocketError(e)
    BY <1>5, <1>7
  <1>8. CASE RecordSent(c) = b
    BY <1>8
  <1> QED
    BY <1>1, <1>6, <1>7, <1>8

\* The frame in the buffer has been sent, and y is what the connection c has
\* become: the next state.
LEMMA NextStateSettles ==
  ASSUME NEW c, NEW w, Settling(c, w), c.enabled,
         \/ c.state \in {"SendingStompFrame", "SendingSubscribeFrame"}
         \/ c.state = "Running" /\ c.tx # NoFrame,
         NEW y, IsConnection(y),
         /\ y.enabled = c.enabled /\ y.state = c.state /\ y.failed = c.failed
         /\ y.reconnect = c.reconnect /\ y.resubscribe = c.resubscribe /\ y.perform = c.perform
         /\ y.cur = c.cur /\ y.next = c.next /\ y.subscribe_dest = c.subscribe_dest
         /\ y.tx = NoFrame /\ y.missed = c.missed,
         y.subscribed = CASE c.tx.kind = "SUBSCRIBE" -> c.tx.dest
                          [] c.tx.kind = "UNSUBSCRIBE" -> NoQueue
                          [] OTHER -> c.subscribed
  PROVE  Settling(NextState(y), w) /\ NextState(y).enabled
  <1> DEFINE d == NextState(y)
  <1>1. CASE c.state = "SendingStompFrame"
    <2>1. d = [y EXCEPT !.state = "AwaitingConnectedFrame"]
      BY <1>1 DEF NextState
    <2> HIDE DEF d
    <2>2. /\ d.enabled = c.enabled /\ d.state = "AwaitingConnectedFrame"
          /\ d.reconnect = c.reconnect /\ d.resubscribe = c.resubscribe /\ d.perform = c.perform
          /\ d.cur = c.cur /\ d.next = c.next /\ d.subscribe_dest = c.subscribe_dest
          /\ d.tx = NoFrame /\ d.missed = c.missed
      BY <2>1 DEF IsConnection
    <2>3. IsConnection(d)
      BY <2>1 DEF IsConnection, StompState, Connected, Handshake
    <2> QED
      BY <1>1, <2>2, <2>3 DEF Settling, InPhase, Unscheduled, CopyCurrent, SubscriptionCurrent, Connected, Handshake, d
  <1>2. CASE c.state = "SendingSubscribeFrame"
    <2>1. d = [y EXCEPT !.state = "Running", !.failed = FALSE]
      BY <1>2 DEF NextState
    <2> HIDE DEF d
    <2>2. /\ d.enabled = c.enabled /\ d.state = "Running" /\ ~d.failed
          /\ d.reconnect = c.reconnect /\ d.resubscribe = c.resubscribe /\ d.perform = c.perform
          /\ d.cur = c.cur /\ d.next = c.next /\ d.subscribe_dest = c.subscribe_dest
          /\ d.tx = NoFrame /\ d.missed = c.missed /\ d.subscribed = y.subscribed
      BY <2>1 DEF IsConnection
    <2>3. IsConnection(d)
      BY <2>1 DEF IsConnection, StompState, Connected
    <2>4. d.subscribed = AgentQueue(c)
      BY <1>2, <2>2 DEF Settling, InPhase
    <2>5. InPhase(d) /\ Unscheduled(d) /\ CopyCurrent(d, w)
      BY <1>2, <2>2 DEF Settling, InPhase, Unscheduled, CopyCurrent, Connected, Handshake
    <2>6. SubscriptionCurrent(d, w)
      BY <1>2, <2>2, <2>4 DEF Settling, SubscriptionCurrent, CopyCurrent, Target, AgentQueue, Connected, Handshake
    <2> QED
      BY <2>2, <2>3, <2>5, <2>6 DEF Settling, d
  <1>3. CASE c.state = "Running" /\ c.tx # NoFrame
    <2>1. d = y
      BY <1>3 DEF NextState
    <2>2. InPhase(y) /\ Unscheduled(y) /\ CopyCurrent(y, w)
      BY <1>3 DEF Settling, InPhase, Unscheduled, CopyCurrent, Connected, Handshake
    <2>3. c.tx.kind \in {"SUBSCRIBE", "UNSUBSCRIBE", "SEND"}
      BY <1>3 DEF Settling, InPhase
    <2>4. SubscriptionCurrent(y, w)
      BY <1>3, <2>3 DEF Settling, SubscriptionCurrent, Target
    <2> QED
      BY <2>1, <2>2, <2>4 DEF Settling
  <1> QED
    BY <1>1, <1>2, <1>3

LEMMA TransmittedSettles ==
  ASSUME NEW c, NEW w, Settling(c, w), c.enabled,
         \/ c.state \in {"SendingStompFrame", "SendingSubscribeFrame"}
         \/ c.state = "Running" /\ c.tx # NoFrame,
         NEW d \in TransmitStompMessage(c)
  PROVE  Settling(d, w) /\ d.enabled
  <1> DEFINE f == FrameSent(c)
             u == IF c.tx.kind = "SEND" THEN c.unsent \ {c.tx.rec.n} ELSE c.unsent
             v == CASE c.tx.kind = "SUBSCRIBE" -> c.tx.dest
                    [] c.tx.kind = "UNSUBSCRIBE" -> NoQueue
                    [] OTHER -> c.subscribed
  <1>1. IsConnection(c) /\ c.next = w
    BY DEF Settling
  <1>2. f = [c EXCEPT !.tx = NoFrame, !.unsent = u, !.subscribed = v]
    BY DEF FrameSent
  <1>3. \/ d = c \/ d = HandleStompSocketError(c)
        \/ d = NextState(f) \/ d = NextState(RecordSent(f))
    BY DEF TransmitStompMessage
  <1> HIDE DEF f, u
  <1>4. ASSUME NEW y, y = f \/ \E q : y = [f EXCEPT !.queue = q]
        PROVE  Settling(NextState(y), w) /\ NextState(y).enabled
    <2> HIDE DEF v
    <2>1. IsConnection(f) /\ f.subscribed = v /\ f.tx = NoFrame
      BY <1>1, <1>2 DEF IsConnection
    <2>2. /\ f.enabled = c.enabled /\ f.state = c.state /\ f.failed = c.failed
          /\ f.reconnect = c.reconnect /\ f.resubscribe = c.resubscribe /\ f.perform = c.perform
          /\ f.cur = c.cur /\ f.next = c.next /\ f.subscribe_dest = c.subscribe_dest
          /\ f.missed = c.missed
      BY <1>1, <1>2 DEF IsConnection
    <2>3. PICK q : y = [f EXCEPT !.queue = q]
      <3>1. f = [f EXCEPT !.queue = f.queue]
        BY <2>1 DEF IsConnection
      <3> QED
        BY <1>4, <3>1
    <2>4. IsConnection(y) /\ y.subscribed = v /\ y.tx = NoFrame
      BY <2>1, <2>3 DEF IsConnection
    <2>5. /\ y.enabled = c.enabled /\ y.state = c.state /\ y.failed = c.failed
          /\ y.reconnect = c.reconnect /\ y.resubscribe = c.resubscribe /\ y.perform = c.perform
          /\ y.cur = c.cur /\ y.next = c.next /\ y.subscribe_dest = c.subscribe_dest
          /\ y.missed = c.missed
      BY <2>1, <2>2, <2>3 DEF IsConnection
    <2> QED
      BY <2>4, <2>5, NextStateSettles DEF v
  <1>5. CASE d = NextState(RecordSent(f))
    <2>1. IsConnection(f) /\ f.next = w /\ f.enabled /\ f.tx = NoFrame
      BY <1>1, <1>2 DEF IsConnection
    <2>2. \/ /\ Settling(RecordSent(f), w) /\ RecordSent(f).enabled
             /\ RecordSent(f).state \in {"Retrying", "Crashed"}
          \/ \E q : RecordSent(f) = [f EXCEPT !.queue = q]
      BY <2>1, RecordSentCases
    <2>3. CASE /\ Settling(RecordSent(f), w) /\ RecordSent(f).enabled
               /\ RecordSent(f).state \in {"Retrying", "Crashed"}
      <3>1. NextState(RecordSent(f)) = RecordSent(f)
        BY <2>3 DEF NextState
      <3> QED
        BY <1>5, <2>3, <3>1
    <2>4. CASE \E q : RecordSent(f) = [f EXCEPT !.queue = q]
      BY <1>4, <1>5, <2>4
    <2> QED
      BY <2>2, <2>3, <2>4
  <1>6. CASE d = HandleStompSocketError(c)
    BY <1>1, <1>6, FailedSettles
  <1>7. CASE d = NextState(f)
    BY <1>4, <1>7
  <1> QED
    BY <1>3, <1>5, <1>6, <1>7

LEMMA PartlyReceivedSettles ==
  ASSUME NEW c, NEW w, Settling(c, w), NEW rest
  PROVE  LET d == [c EXCEPT !.rx = rest]
         IN  Settling(d, w) /\ d.enabled = c.enabled /\ d.state = c.state
  <1> DEFINE d == [c EXCEPT !.rx = rest]
  <1>1. IsConnection(c)
    BY DEF Settling
  <1>2. /\ d.enabled = c.enabled /\ d.state = c.state /\ d.failed = c.failed
        /\ d.reconnect = c.reconnect /\ d.resubscribe = c.resubscribe /\ d.perform = c.perform
        /\ d.cur = c.cur /\ d.next = c.next /\ d.subscribe_dest = c.subscribe_dest
        /\ d.tx = c.tx /\ d.subscribed = c.subscribed /\ d.missed = c.missed
    BY <1>1 DEF IsConnection
  <1>3. IsConnection(d)
    BY <1>1 DEF IsConnection
  <1> HIDE DEF d
  <1>4. Settling(d, w)
    BY <1>2, <1>3, AlikeSettles
  <1> QED
    BY <1>2, <1>4 DEF d

LEMMA ConnectedFrameSettles ==
  ASSUME NEW c, NEW w, Settling(c, w), c.enabled, c.state = "AwaitingConnectedFrame",
         NEW d \in HandleConnectedFrame(c)
  PROVE  Settling(d, w) /\ d.enabled
  <1>1. PICK q \in AgentQueues \cup {NoQueue}, rest \in BOOLEAN :
          d = StartSubscribing([c EXCEPT !.subscribe_dest = q, !.rx = rest])
    BY DEF HandleConnectedFrame
  <1> DEFINE b == [c EXCEPT !.subscribe_dest = q, !.rx = rest]
             f == [kind |-> "SUBSCRIBE", dest |-> AgentQueue(b)]
  <1>2. IsConnection(c) /\ c.next = w
    BY DEF Settling
  <1>3. /\ b.enabled = c.enabled /\ b.reconnect = c.reconnect /\ b.resubscribe = c.resubscribe
        /\ b.perform = c.perform /\ b.cur = c.cur /\ b.next = c.next /\ b.subscribe_dest = q
        /\ b.missed = c.missed
    BY <1>2 DEF IsConnection
  <1>4. IsConnection(b)
    BY <1>2 DEF IsConnection
  <1>5. \/ d = HandleStompSocketError(b)
        \/ /\ AgentQueue(b) # NoQueue
           /\ d = [StartSendingFrame(b, f) EXCEPT !.state = "SendingSubscribeFrame"]
    BY <1>1 DEF StartSubscribing
  <1> HIDE DEF b
  <1>6. CASE d = HandleStompSocketError(b)
    BY <1>2, <1>3, <1>4, <1>6, FailedSettles
  <1>7. CASE AgentQueue(b) # NoQueue /\ d = [StartSendingFrame(b, f) EXCEPT !.state = "SendingSubscribeFrame"]
    <2>1. StartSendingFrame(b, f) = [b EXCEPT !.tx = f, !.has_record = FALSE]
      BY DEF StartSendingFrame
    <2> HIDE DEF f
    <2>2. d = [b EXCEPT !.tx = f, !.has_record = FALSE, !.state = "SendingSubscribeFrame"]
      BY <1>4, <1>7, <2>1 DEF IsConnection
    <2>3. /\ d.enabled = c.enabled /\ d.reconnect = c.reconnect /\ d.resubscribe = c.resubscribe
          /\ d.perform = c.perform /\ d.cur = c.cur /\ d.next = c.next /\ d.subscribe_dest = b.subscribe_dest
          /\ d.missed = c.missed /\ d.tx = f /\ d.state = "SendingSubscribeFrame"
      BY <1>3, <1>4, <2>2 DEF IsConnection
    <2>4. IsConnection(d)
      BY <1>4, <2>2 DEF IsConnection, StompState, Connected, Handshake
    <2>5. AgentQueue(d) = AgentQueue(b)
      BY <1>3, <2>3 DEF AgentQueue
    <2>6. InPhase(d)
      BY <1>7, <2>3, <2>5 DEF InPhase, Connected, Handshake, f
    <2>7. Unscheduled(d) /\ CopyCurrent(d, w)
      BY <2>3 DEF Settling, Unscheduled, CopyCurrent, Connected, Handshake
    <2>8. SubscriptionCurrent(d, w)
      BY <2>3 DEF SubscriptionCurrent
    <2> QED
      BY <1>2, <2>3, <2>4, <2>6, <2>7, <2>8 DEF Settling
  <1> QED
    BY <1>5, <1>6, <1>7

LEMMA ReceivedSettles ==
  ASSUME NEW c, NEW w, Settling(c, w), c.enabled, NEW d \in ReceiveStompMessage(c)
  PROVE  Settling(d, w) /\ d.enabled
  <1>1. \/ d = HandleStompSocketError(c)
        \/ \E rest : d = [c EXCEPT !.rx = rest]
        \/ c.state = "AwaitingConnectedFrame" /\ d \in HandleConnectedFrame(c)
    BY DEF ReceiveStompMessage
  <1>2. CASE d = HandleStompSocketError(c)
    BY <1>2, FailedSettles DEF Settling
  <1>3. CASE \E rest : d = [c EXCEPT !.rx = rest]
    BY <1>3, PartlyReceivedSettles
  <1> QED
    BY <1>1, <1>2, <1>3, ConnectedFrameSettles

LEMMA ProcessedSettles ==
  ASSUME NEW c, NEW w, Settling(c, w), c.enabled, NEW d \in ProcessedActivity(c)
  PROVE  Settling(d, w) /\ d.enabled
  <1>1. CASE c.state \in {"SendingStompFrame", "SendingSubscribeFrame"}
    <2>1. d = c \/ d \in TransmitStompMessage(c)
      BY <1>1 DEF ProcessedActivity
    <2> QED
      BY <1>1, <2>1, TransmittedSettles
  <1>2. CASE c.state = "AwaitingConnectedFrame"
    <2>1. d = c \/ d \in ReceiveStompMessage(c)
      BY <1>2 DEF ProcessedActivity
    <2> QED
      BY <2>1, ReceivedSettles
  <1>3. CASE c.state = "Running"
    <2>1. PICK b \in {c} \cup ReceiveStompMessage(c) :
            d \in IF b.state # "Running" THEN {b}
                  ELSE IF b.tx # NoFrame THEN {b} \cup TransmitStompMessage(b)
                  ELSE {b} \cup UpdateAgentHeartbeat(b)
      BY <1>3 DEF ProcessedActivity
    <2>2. Settling(b, w) /\ b.enabled
      BY ReceivedSettles
    <2>3. \/ d = b \/ d = HandleStompSocketError(b)
          \/ b.state = "Running" /\ b.tx # NoFrame /\ d \in TransmitStompMessage(b)
      BY <2>1 DEF UpdateAgentHeartbeat
    <2>4. CASE d = HandleStompSocketError(b)
      BY <2>2, <2>4, FailedSettles DEF Settling
    <2> QED
      BY <2>2, <2>3, <2>4, TransmittedSettles
  <1>4. CASE c.state \notin Connected
    <2>1. d = c
      BY <1>4 DEF ProcessedActivity, Connected, Handshake
    <2> QED
      BY <2>1
  <1> QED
    BY <1>1, <1>2, <1>3, <1>4 DEF Connected, Handshake

-----------------------------------------------------------------------------
(* The steps of the DM thread.                                             *)

LEMMA ConfIsConf ==
  ASSUME changes \in Nat, NEW q \in AgentQueues \cup {NoQueue}, changes < MaxChanges
  PROVE  [params |-> changes + 1, queue |-> q] \in Conf
  BY StompBounds DEF Conf

LEMMA EnableStep ==
  ASSUME StompIndInv, NEW q \in AgentQueues \cup {NoQueue}, STOMP_EnableConnection(q)
  PROVE  StompIndInv'
  <1> DEFINE w == [params |-> changes + 1, queue |-> q]
  <1>1. IsConnection(sc) /\ ~sc.enabled /\ sc.tx = NoFrame /\ changes \in Nat
    BY DEF StompIndInv, Settling, STOMP_EnableConnection, InPhase, Connected, Handshake
  <1>2. w \in Conf
    BY <1>1, ConfIsConf DEF STOMP_EnableConnection, Changed
  <1>3. /\ sc' = [sc EXCEPT !.enabled = TRUE, !.next = w, !.cur = w, !.failed = FALSE, !.state = "Retrying"]
        /\ want' = w /\ changes' = changes + 1
    BY DEF STOMP_EnableConnection, Changed
  <1> HIDE DEF w
  <1>4. IsConnection(sc') /\ sc'.next = want' /\ sc'.enabled /\ sc'.tx = NoFrame /\ sc'.state = "Retrying"
    BY <1>1, <1>2, <1>3 DEF IsConnection, StompState
  <1>5. Settling(sc', want')
    BY <1>4, RetryingSettles
  <1>6. changes' \in Nat
    BY <1>1, <1>3
  <1> QED
    BY <1>5, <1>6 DEF StompIndInv

LEMMA DisableStep ==
  ASSUME StompIndInv, STOMP_DisableConnection
  PROVE  StompIndInv'
  <1> DEFINE b == StopStompConnection(sc, TRUE)
  <1>1. IsConnection(sc) /\ changes \in Nat
    BY DEF StompIndInv, Settling
  <1>2. IsConnection(b) /\ b.tx = NoFrame /\ b.state = "Idle"
    BY <1>1, StoppedConnection
  <1>3. NoConf \in Conf
    BY StompBounds DEF NoConf, Conf
  <1>4. /\ sc' = [b EXCEPT !.enabled = FALSE, !.cur = NoConf, !.next = NoConf, !.unsent = {}]
        /\ want' = NoConf /\ changes' = changes + 1
    BY DEF STOMP_DisableConnection, Changed
  <1> HIDE DEF b
  <1>5. IsConnection(sc') /\ sc'.next = want' /\ sc'.enabled = FALSE /\ sc'.tx = NoFrame /\ sc'.state = "Idle"
    BY <1>2, <1>3, <1>4 DEF IsConnection
  <1>6. InPhase(sc') /\ Unscheduled(sc')
    BY <1>5 DEF InPhase, Unscheduled, Connected, Handshake
  <1>7. CopyCurrent(sc', want') /\ SubscriptionCurrent(sc', want')
    BY <1>5 DEF CopyCurrent, SubscriptionCurrent, Connected, Handshake
  <1>8. Settling(sc', want')
    BY <1>5, <1>6, <1>7 DEF Settling
  <1>9. changes' \in Nat
    BY <1>1, <1>4
  <1> QED
    BY <1>8, <1>9 DEF StompIndInv

LEMMA ReconnectStep ==
  ASSUME StompIndInv, NEW q \in AgentQueues \cup {NoQueue}, STOMP_ScheduleReconnect(q)
  PROVE  StompIndInv'
  <1> DEFINE w == [params |-> changes + 1, queue |-> q]
  <1>1. Settling(sc, want) /\ IsConnection(sc) /\ changes \in Nat
    BY DEF StompIndInv, Settling
  <1>2. w \in Conf
    BY <1>1, ConfIsConf DEF STOMP_ScheduleReconnect, Changed
  <1>3. /\ sc' = [sc EXCEPT !.next = w, !.reconnect = "Signalled", !.resubscribe = "Off", !.perform = {}]
        /\ want' = w /\ changes' = changes + 1
    BY DEF STOMP_ScheduleReconnect, Changed
  <1> HIDE DEF w
  <1>4. /\ sc'.next = want' /\ sc'.enabled = sc.enabled /\ sc'.state = sc.state /\ sc'.failed = sc.failed
        /\ sc'.tx = sc.tx /\ sc'.cur = sc.cur /\ sc'.subscribe_dest = sc.subscribe_dest
        /\ sc'.reconnect = "Signalled" /\ sc'.resubscribe = "Off" /\ sc'.perform = {}
    BY <1>1, <1>3 DEF IsConnection
  <1>5. IsConnection(sc')
    BY <1>1, <1>2, <1>3 DEF IsConnection, Scheduled
  <1>6. InPhase(sc')
    BY <1>1, <1>4 DEF Settling, InPhase, AgentQueue
  <1>7. Unscheduled(sc')
    BY <1>1, <1>4 DEF Settling, Unscheduled
  <1>8. CopyCurrent(sc', want') /\ SubscriptionCurrent(sc', want')
    BY <1>4 DEF CopyCurrent, SubscriptionCurrent
  <1> QED
    BY <1>1, <1>3, <1>4, <1>5, <1>6, <1>7, <1>8 DEF StompIndInv, Settling

LEMMA ResubscribeStep ==
  ASSUME StompIndInv, NEW q \in AgentQueues \cup {NoQueue}, STOMP_ScheduleResubscribe(q)
  PROVE  StompIndInv'
  <1> DEFINE schedule == /\ sc.state \in {"SendingSubscribeFrame", "Running"}
                         /\ sc.subscribe_dest = NoQueue
                         /\ sc.reconnect = "Off"
             s == IF schedule THEN "Signalled" ELSE sc.resubscribe
             m == sc.missed \/ sc.state \in Handshake \ {"SendingSubscribeFrame"}
             w == [want EXCEPT !.queue = q]
  <1>1. Settling(sc, want) /\ IsConnection(sc) /\ changes \in Nat /\ sc.next = want
    BY DEF StompIndInv, Settling
  <1>2. /\ sc' = [sc EXCEPT !.next.queue = q, !.resubscribe = s, !.missed = m]
        /\ want' = w /\ changes' = changes + 1
    BY DEF STOMP_ScheduleResubscribe, Changed
  <1>3. w \in Conf /\ w.params = want.params
    BY <1>1 DEF IsConnection, Conf
  <1>4. s \in Scheduled /\ m \in BOOLEAN
    BY <1>1 DEF IsConnection, Scheduled
  <1>5. /\ s = "Off" => ~schedule /\ sc.resubscribe = "Off"
        /\ ~m => ~sc.missed /\ sc.state \notin Handshake \ {"SendingSubscribeFrame"}
    OBVIOUS
  <1>6. schedule => s = "Signalled"
    OBVIOUS
  <1> HIDE DEF w, m, s
  <1>7. /\ sc'.next = w /\ sc'.resubscribe = s /\ sc'.missed = m
        /\ sc'.enabled = sc.enabled /\ sc'.state = sc.state /\ sc'.failed = sc.failed
        /\ sc'.tx = sc.tx /\ sc'.cur = sc.cur /\ sc'.subscribe_dest = sc.subscribe_dest
        /\ sc'.reconnect = sc.reconnect /\ sc'.perform = sc.perform /\ sc'.subscribed = sc.subscribed
    BY <1>1, <1>2 DEF IsConnection, w
  <1>8. IsConnection(sc')
    BY <1>1, <1>2, <1>3, <1>4, <1>7 DEF IsConnection
  <1>9. InPhase(sc')
    BY <1>1, <1>7 DEF Settling, InPhase, AgentQueue
  <1>10. sc.state \in {"SendingStompFrame", "AwaitingConnectedFrame"} => s = "Off"
    BY <1>1 DEF Settling, Unscheduled, s
  <1>11. Unscheduled(sc')
    BY <1>1, <1>7, <1>10 DEF Settling, Unscheduled
  <1>12. CopyCurrent(sc', want')
    BY <1>1, <1>2, <1>3, <1>5, <1>7 DEF Settling, CopyCurrent, Connected, Handshake
  <1>13. SubscriptionCurrent(sc', want')
    BY <1>1, <1>2, <1>5, <1>7 DEF Settling, SubscriptionCurrent, Target
  <1> QED
    BY <1>1, <1>2, <1>7, <1>8, <1>9, <1>11, <1>12, <1>13 DEF StompIndInv, Settling

LEMMA ActivateStep ==
  ASSUME StompIndInv, STOMP_ActivateScheduledActions
  PROVE  StompIndInv'
  <1> DEFINE active(s) == IF s = "Signalled" THEN "Activated" ELSE s
  <1>1. Settling(sc, want) /\ IsConnection(sc) /\ sc.next = want
    BY DEF StompIndInv, Settling
  <1>2. /\ sc' = [sc EXCEPT !.reconnect = active(sc.reconnect), !.resubscribe = active(sc.resubscribe)]
        /\ UNCHANGED <<want, changes>>
    BY DEF STOMP_ActivateScheduledActions
  <1>3. /\ active(sc.reconnect) \in Scheduled /\ active(sc.resubscribe) \in Scheduled
        /\ active(sc.reconnect) = "Off" <=> sc.reconnect = "Off"
        /\ active(sc.resubscribe) = "Off" <=> sc.resubscribe = "Off"
    BY <1>1 DEF IsConnection, Scheduled
  <1> HIDE DEF active
  <1>4. /\ sc'.enabled = sc.enabled /\ sc'.state = sc.state /\ sc'.failed = sc.failed
        /\ sc'.perform = sc.perform /\ sc'.cur = sc.cur /\ sc'.next = sc.next
        /\ sc'.subscribe_dest = sc.subscribe_dest
        /\ sc'.tx = sc.tx /\ sc'.subscribed = sc.subscribed /\ sc'.missed = sc.missed
        /\ sc'.reconnect = "Off" <=> sc.reconnect = "Off"
        /\ sc'.resubscribe = "Off" <=> sc.resubscribe = "Off"
    BY <1>1, <1>2, <1>3 DEF IsConnection
  <1>5. IsConnection(sc')
    BY <1>1, <1>2, <1>3 DEF IsConnection
  <1>6. InPhase(sc') /\ Unscheduled(sc')
    BY <1>1, <1>4 DEF Settling, InPhase, Unscheduled, AgentQueue
  <1>7. CopyCurrent(sc', want) /\ SubscriptionCurrent(sc', want)
    BY <1>1, <1>4 DEF Settling, CopyCurrent, SubscriptionCurrent, Target
  <1> QED
    BY <1>1, <1>2, <1>4, <1>5, <1>6, <1>7 DEF StompIndInv, Settling

LEMMA RequeuedSettles ==
  ASSUME NEW c, NEW w, Settling(c, w), NEW q, NEW u,
         NEW d, d = [c EXCEPT !.queue = q, !.unsent = u]
  PROVE  Settling(d, w)
  <1>1. IsConnection(c)
    BY DEF Settling
  <1>2. /\ d.enabled = c.enabled /\ d.state = c.state /\ d.failed = c.failed
        /\ d.reconnect = c.reconnect /\ d.resubscribe = c.resubscribe /\ d.perform = c.perform
        /\ d.cur = c.cur /\ d.next = c.next /\ d.subscribe_dest = c.subscribe_dest
        /\ d.tx = c.tx /\ d.subscribed = c.subscribed /\ d.missed = c.missed
    BY <1>1 DEF IsConnection
  <1>3. IsConnection(d)
    BY <1>1 DEF IsConnection
  <1> QED
    BY <1>2, <1>3, AlikeSettles

LEMMA QueueStep ==
  ASSUME StompIndInv, NEW kind, NEW to, STOMP_QueueBinaryMessage(kind, to)
  PROVE  StompIndInv'
  <1> DEFINE r == [n |-> records + 1, kind |-> kind, to |-> to]
  <1>1. Settling(sc, want) /\ changes \in Nat /\ UNCHANGED <<want, changes>>
    BY DEF StompIndInv, STOMP_QueueBinaryMessage
  <1>2. PICK c \in {sc} \cup RemoveExpiredStompMessages(sc) :
          sc' = [c EXCEPT !.queue = Append(c.queue, r), !.unsent = c.unsent \cup {r.n}]
    BY DEF STOMP_QueueBinaryMessage
  <1>3. Settling(c, want)
    <2>1. CASE c = sc
      BY <1>1, <2>1
    <2>2. CASE c \in RemoveExpiredStompMessages(sc)
      <3>1. PICK N : c = [sc EXCEPT !.queue = Without(sc.queue, N), !.unsent = sc.unsent \ N]
        BY <2>2 DEF RemoveExpiredStompMessages, Drop
      <3> QED
        BY <1>1, <3>1, RequeuedSettles
    <2> QED
      BY <1>2, <2>1, <2>2
  <1>4. Settling(sc', want)
    BY <1>2, <1>3, RequeuedSettles
  <1> QED
    BY <1>1, <1>4 DEF StompIndInv

LEMMA ConnectRecordStep ==
  ASSUME StompIndInv, NEW to, QueueStompConnectRecord(to)
  PROVE  StompIndInv'
  <1> DEFINE r == [n |-> records + 1, kind |-> "connect", to |-> to]
             N == {sc.queue[i].n : i \in {j \in DOMAIN sc.queue :
                                          sc.queue[j].kind # "record" /\ sc.queue[j].to = r.to}}
             d == Drop(sc, N)
             q == IF ~d.has_record \/ d.queue = <<>> THEN <<r>> \o d.queue
                  ELSE <<Head(d.queue), r>> \o Tail(d.queue)
             u == d.unsent \cup {r.n}
  <1>1. Settling(sc, want) /\ changes \in Nat /\ UNCHANGED <<want, changes>>
    BY SMTT(30) DEF StompIndInv, QueueStompConnectRecord
  <1>2. sc' = sc \/ sc' = [d EXCEPT !.queue = q, !.unsent = u]
    BY DEF QueueStompConnectRecord, QueueUspConnectRecord_STOMP
  <1>3. d = [sc EXCEPT !.queue = Without(sc.queue, N), !.unsent = sc.unsent \ N]
    BY DEF Drop
  <1> HIDE DEF N, d, q, u
  <1>4. Settling(d, want)
    BY <1>1, <1>3, RequeuedSettles
  <1>5. Settling(sc', want)
    BY <1>1, <1>2, <1>4, RequeuedSettles
  <1> QED
    BY <1>1, <1>5 DEF StompIndInv

-----------------------------------------------------------------------------
(* The steps of the STOMP thread, and the theorems.                        *)

LEMMA UpdateStep ==
  ASSUME StompIndInv, STOMP_UpdateAllSockSet
  PROVE  StompIndInv'
  <1>1. Settling(sc, want) /\ changes \in Nat /\ UNCHANGED <<want, changes>>
    BY DEF StompIndInv, STOMP_UpdateAllSockSet, dmVars
  <1>2. sc' = sc \/ (sc.enabled /\ sc' \in UpdatedSockSet(sc))
    BY DEF STOMP_UpdateAllSockSet
  <1>3. Settling(sc', want)
    BY <1>1, <1>2, UpdatedSettles
  <1> QED
    BY <1>1, <1>3 DEF StompIndInv

LEMMA ProcessStep ==
  ASSUME StompIndInv, STOMP_ProcessAllSocketActivity
  PROVE  StompIndInv'
  <1>1. Settling(sc, want) /\ changes \in Nat /\ UNCHANGED <<want, changes>>
    BY DEF StompIndInv, STOMP_ProcessAllSocketActivity, dmVars
  <1>2. sc' = sc \/ (sc.enabled /\ sc' \in ProcessedActivity(sc))
    BY DEF STOMP_ProcessAllSocketActivity
  <1>3. Settling(sc', want)
    BY <1>1, <1>2, ProcessedSettles
  <1> QED
    BY <1>1, <1>3 DEF StompIndInv

LEMMA InitSettles ==
  ASSUME StompInit
  PROVE  StompIndInv
  <1>1. /\ sc.enabled = FALSE /\ sc.state = "Idle" /\ sc.tx = NoFrame /\ sc.next = want
        /\ want = NoConf /\ changes = 0
    BY DEF StompInit
  <1>2. NoConf \in Conf
    BY StompBounds DEF NoConf, Conf
  <1>3. IsConnection(sc)
    BY <1>2 DEF StompInit, IsConnection, StompState, Scheduled
  <1>4. InPhase(sc) /\ Unscheduled(sc)
    BY <1>1 DEF InPhase, Unscheduled, Connected, Handshake
  <1>5. CopyCurrent(sc, want) /\ SubscriptionCurrent(sc, want)
    BY <1>1 DEF CopyCurrent, SubscriptionCurrent, Connected, Handshake
  <1> QED
    BY <1>1, <1>3, <1>4, <1>5 DEF StompIndInv, Settling

LEMMA StepSettles ==
  ASSUME StompIndInv, [StompNext]_stompVars
  PROVE  StompIndInv'
  <1>1. CASE UNCHANGED <<sc, want, changes>>
    BY <1>1 DEF StompIndInv
  <1>2. CASE HandshakeComplete
    BY <1>1, <1>2 DEF HandshakeComplete
  <1>3. CASE UNCHANGED stompVars
    BY <1>1, <1>3 DEF stompVars
  <1>4. CASE \E q \in AgentQueues \cup {NoQueue} : \/ STOMP_EnableConnection(q)
                                                 \/ STOMP_ScheduleReconnect(q)
                                                 \/ STOMP_ScheduleResubscribe(q)
    BY <1>4, EnableStep, ReconnectStep, ResubscribeStep
  <1>5. CASE \E kind \in {"record", "disconnect"}, to \in Controllers \cup {NoQueue} :
               STOMP_QueueBinaryMessage(kind, to)
    BY <1>5, QueueStep
  <1>6. CASE \E to \in Controllers : QueueStompConnectRecord(to)
    BY <1>6, ConnectRecordStep
  <1> QED
    BY <1>2, <1>3, <1>4, <1>5, <1>6, DisableStep, ActivateStep, UpdateStep, ProcessStep DEF StompNext

LEMMA SettlingIsCurrent ==
  ASSUME StompIndInv
  PROVE  FramePhase /\ ConfigurationCurrent
  <1>1. FramePhase
    BY DEF StompIndInv, Settling, InPhase, FramePhase
  <1>2. ParamsCurrent
    BY DEF StompIndInv, Settling, CopyCurrent, ParamsCurrent
  <1>3. QueueCurrent
    BY DEF StompIndInv, Settling, SubscriptionCurrent, Target, QueueCurrent
  <1> QED
    BY <1>1, <1>2, <1>3 DEF ConfigurationCurrent

\* The connection is settling on the configuration of the data model in every
\* state: the invariant that STOMP_UpdateAllSockSet,
\* STOMP_ProcessAllSocketActivity and the DM thread's calls all preserve.
THEOREM SettlingInvariant == StompSpec => []StompIndInv
  BY InitSettles, StepSettles, PTL DEF StompSpec

\* The frame in the transmit buffer is always the one the state machine waits
\* to send: what the assertions of stomp.c about txframe and failure_code rely
\* on.
THEOREM FramesInPhase == StompSpec => []FramePhase
  BY SettlingInvariant, SettlingIsCurrent, PTL

\* However reconnects, resubscriptions, failures and changes of address overlap,
\* a connection with nothing scheduled uses the parameters of the data model
\* and is subscribed to its queue, or to the one the broker dictated.
THEOREM ConfigurationSettles == StompSpec => []ConfigurationCurrent
  BY SettlingInvariant, SettlingIsCurrent, PTL

-----------------------------------------------------------------------------
(***************************************************************************)
(* The send queue.  The records in it have different numbers and are the   *)
(* ones still to be sent, and what is being transmitted is its head: a     *)
(* record joins at the back, or, a connect record, in front, and in front  *)
(* there is a frame in flight only where connect records race.             *)
(***************************************************************************)

\* The records in a queue have different numbers.
Apart(q) == \A i, j \in DOMAIN q : q[i].n = q[j].n => i = j

\* Counting the places up to i numbers the members of a finite set of places.
LEMMA Places ==
  ASSUME NEW m \in Nat, NEW S \in SUBSET (1 .. m),
         NEW place, place = [i \in S |-> Cardinality({j \in S : j <= i})]
  PROVE  /\ IsFiniteSet(S) /\ Cardinality(S) \in Nat
         /\ place \in Bijection(S, 1 .. Cardinality(S))
         /\ 1 \in S => place[1] = 1
  <1>0. \A j \in S : j \in Nat /\ 1 <= j
    OBVIOUS
  <1>1. IsFiniteSet(S) /\ Cardinality(S) \in Nat
    <2>1. IsFiniteSet(1 .. m)
      BY FS_Interval
    <2> QED
      BY <2>1, FS_Subset, FS_CardinalityType
  <1> DEFINE upto(i) == {j \in S : j <= i}
  <1>2. ASSUME NEW i \in S
        PROVE  IsFiniteSet(upto(i)) /\ Cardinality(upto(i)) \in 1 .. Cardinality(S)
    <2>1. upto(i) \in SUBSET S /\ i \in upto(i)
      OBVIOUS
    <2> HIDE DEF upto
    <2>2. IsFiniteSet(upto(i)) /\ Cardinality(upto(i)) \in Nat /\ Cardinality(upto(i)) <= Cardinality(S)
      BY <1>1, <2>1, FS_Subset, FS_CardinalityType
    <2>3. Cardinality(upto(i)) # 0
      BY <2>1, <2>2, FS_EmptySet
    <2> QED
      BY <1>1, <2>2, <2>3
  <1>3. ASSUME NEW i \in S, NEW k \in S, i < k
        PROVE  Cardinality(upto(i)) # Cardinality(upto(k))
    <2>1. ASSUME NEW j \in upto(i) PROVE j \in upto(k)
      BY <1>0, <1>3
    <2>2. k \in upto(k) /\ k \notin upto(i)
      BY <1>0, <1>3
    <2>3. upto(i) \in SUBSET upto(k)
      BY <2>1
    <2> HIDE DEF upto
    <2> QED
      BY <1>2, <2>2, <2>3, FS_Subset
  <1>4. \A i \in S : place[i] = Cardinality(upto(i))
    OBVIOUS
  <1> HIDE DEF upto
  <1>5. place \in [S -> 1 .. Cardinality(S)]
    BY <1>2, <1>4
  <1>6. \A i, k \in S : place[i] = place[k] => i = k
    <2>1. \A i, k \in S : i # k => i < k \/ k < i
      OBVIOUS
    <2> QED
      BY <1>3, <1>4, <2>1
  <1>7. place \in Injection(S, 1 .. Cardinality(S))
    BY <1>5, <1>6 DEF Injection, IsInjective
  <1>8. IsFiniteSet(1 .. Cardinality(S)) /\ Cardinality(1 .. Cardinality(S)) = Cardinality(S)
    BY <1>1, FS_Interval
  <1>9. place \in Surjection(S, 1 .. Cardinality(S))
    BY <1>7, <1>8, FS_Injection
  <1>10. ASSUME 1 \in S PROVE place[1] = 1
    <2>1. upto(1) = {1}
      <3>1. ASSUME NEW j \in upto(1) PROVE j = 1
        BY <1>0 DEF upto
      <3>2. 1 \in upto(1)
        BY <1>10 DEF upto
      <3> QED
        BY <3>1, <3>2
    <2> QED
      BY <1>4, <1>10, <2>1, FS_Singleton
  <1> QED
    BY <1>1, <1>7, <1>9, <1>10 DEF Bijection

LEMMA EmptySeqHasNoPlace == ASSUME NEW v, NEW k \in DOMAIN v PROVE v # <<>>
  OBVIOUS

LEMMA WithoutFacts ==
  ASSUME NEW q \in Seq(Record), Apart(q), NEW N
  PROVE  /\ Without(q, N) \in Seq(Record)
         /\ Apart(Without(q, N))
         /\ Numbers(Without(q, N)) = Numbers(q) \ N
         /\ q # <<>> /\ q[1].n \notin N => Without(q, N) # <<>> /\ Without(q, N)[1] = q[1]
  <1> DEFINE S == {i \in DOMAIN q : q[i].n \notin N}
             place == [i \in S |-> Cardinality({j \in S : j <= i})]
             m == Cardinality(S)
             at(k) == CHOOSE i \in S : Cardinality({j \in S : j <= i}) = k
             v == Without(q, N)
  <1>1. S \in SUBSET (1 .. Len(q)) /\ Len(q) \in Nat
    OBVIOUS
  <1>2. v = [k \in 1 .. m |-> q[at(k)]]
    BY DEF Without
  <1>3. m \in Nat /\ place \in Bijection(S, 1 .. m) /\ (1 \in S => place[1] = 1)
    BY <1>1, Places
  <1>4. \A i \in S : place[i] = Cardinality({j \in S : j <= i})
    OBVIOUS
  <1>5. \A k \in 1 .. m : at(k) \in S /\ place[at(k)] = k
    <2> TAKE k \in 1 .. m
    <2>1. \E i \in S : place[i] = k
      BY <1>3 DEF Bijection, Surjection
    <2> QED
      BY <1>4, <2>1
  <1> HIDE DEF place, at, m, v
  <1>6. \A i \in S : place[i] \in 1 .. m
    BY <1>3 DEF Bijection, Injection, IsInjective
  <1>7. \A i \in S : at(place[i]) = i
    BY <1>3, <1>5, <1>6 DEF Bijection, Injection, IsInjective
  <1>8. \A i \in S : i \in DOMAIN q /\ q[i] \in Record /\ q[i].n \notin N
    OBVIOUS
  <1>9. \A i \in DOMAIN q : q[i].n \notin N => i \in S
    OBVIOUS
  <1> HIDE DEF S
  <1>10. v \in Seq(Record) /\ DOMAIN v = 1 .. m /\ \A k \in 1 .. m : v[k] = q[at(k)]
    BY <1>2, <1>3, <1>5, <1>8
  <1>11. Apart(v)
    BY <1>5, <1>8, <1>10 DEF Apart
  <1>12. Numbers(v) = Numbers(q) \ N
    <2>1. ASSUME NEW x \in Numbers(v) PROVE x \in Numbers(q) \ N
      BY <1>5, <1>8, <1>10 DEF Numbers
    <2>2. ASSUME NEW x \in Numbers(q) \ N PROVE x \in Numbers(v)
      <3>1. PICK i \in DOMAIN q : x = q[i].n
        BY DEF Numbers
      <3>2. i \in S /\ place[i] \in 1 .. m /\ at(place[i]) = i
        BY <1>6, <1>7, <1>9, <3>1
      <3> QED
        BY <1>10, <3>1, <3>2 DEF Numbers
    <2> QED
      BY <2>1, <2>2
  <1>13. ASSUME q # <<>>, q[1].n \notin N PROVE v # <<>> /\ v[1] = q[1]
    <2>1. 1 \in DOMAIN q
      BY <1>13
    <2>2. 1 \in S /\ 1 \in 1 .. m /\ at(1) = 1
      BY <1>3, <1>6, <1>7, <1>9, <1>13, <2>1
    <2>3. v[1] = q[at(1)]
      BY <1>10, <2>2
    <2>4. v[1] = q[1]
      BY <2>2, <2>3
    <2>5. v # <<>>
      BY <1>10, <2>2, EmptySeqHasNoPlace
    <2> QED
      BY <2>4, <2>5
  <1> QED
    BY <1>10, <1>11, <1>12, <1>13 DEF v

-----------------------------------------------------------------------------
(* The connection's send side.                                             *)

\* The fields that IsConnection leaves open have their types.
IsSending(c) ==
    /\ c.state \in StompState /\ c.rx \in BOOLEAN /\ c.has_record \in BOOLEAN
    /\ c.tx \in Frame \cup {NoFrame}
    /\ c.subscribed \in AgentQueues \cup {NoQueue}

\* The queue holds what is unsent, under different numbers that were given out.
QueueKept(c, n) ==
    /\ c.queue \in Seq(Record) /\ Apart(c.queue)
    /\ \A m \in Numbers(c.queue) : m <= n
    /\ c.unsent = Numbers(c.queue)

\* A record that is being transmitted is the first of the queue.
HeadInFlight(c) ==
    c.tx # NoFrame => /\ c.has_record = (c.tx.kind = "SEND")
                      /\ c.has_record => c.queue # <<>> /\ c.tx.rec = c.queue[1]

Sending(c, n) == IsSending(c) /\ QueueKept(c, n) /\ HeadInFlight(c)

\* What most functions do: the queue is left alone, and the frame is dropped,
\* left alone, or replaced by one that carries no record.
LEMMA CarriesOn ==
  ASSUME NEW c, NEW n, Sending(c, n), NEW d,
         d.queue = c.queue, d.unsent = c.unsent,
         d.state \in StompState, d.rx \in BOOLEAN, d.has_record \in BOOLEAN,
         d.subscribed \in AgentQueues \cup {NoQueue},
         \/ d.tx = NoFrame
         \/ d.tx = c.tx /\ d.has_record = c.has_record
         \/ d.tx \in Frame /\ d.tx.kind # "SEND" /\ d.has_record = FALSE
  PROVE  Sending(d, n)
  <1>1. IsSending(d)
    BY DEF Sending, IsSending
  <1>2. QueueKept(d, n)
    BY DEF Sending, QueueKept
  <1>3. HeadInFlight(d)
    BY DEF Sending, HeadInFlight
  <1> QED
    BY <1>1, <1>2, <1>3 DEF Sending

LEMMA StoppedSends ==
  ASSUME NEW c, NEW n, IsConnection(c), Sending(c, n), NEW purge \in BOOLEAN, purge => c.queue = <<>>
  PROVE  Sending(StopStompConnection(c, purge), n)
  <1> DEFINE d == StopStompConnection(c, purge)
  <1>1. /\ d.queue = c.queue /\ d.unsent = c.unsent /\ d.state = "Idle" /\ d.rx = FALSE
        /\ d.has_record = c.has_record /\ d.subscribed = NoQueue /\ d.tx = NoFrame
    BY DEF IsConnection, StopStompConnection
  <1>2. d.state \in StompState /\ c.has_record \in BOOLEAN
    BY <1>1 DEF StompState, Sending, IsSending
  <1> HIDE DEF d
  <1>3. Sending(d, n)
    BY <1>1, <1>2, CarriesOn
  <1> QED
    BY <1>3 DEF d

LEMMA FailedSends ==
  ASSUME NEW c, NEW n, IsConnection(c), Sending(c, n)
  PROVE  Sending(HandleStompSocketError(c), n)
  <1> DEFINE b == StopStompConnection(c, FALSE)
             d == HandleStompSocketError(c)
  <1>1. IsConnection(b) /\ Sending(b, n)
    BY StoppedConnection, StoppedSends
  <1>2. d = [b EXCEPT !.failed = TRUE, !.state = "Retrying"]
    BY DEF HandleStompSocketError
  <1> HIDE DEF b, d
  <1>3. /\ d.queue = b.queue /\ d.unsent = b.unsent /\ d.state = "Retrying" /\ d.rx = b.rx
        /\ d.has_record = b.has_record /\ d.subscribed = b.subscribed /\ d.tx = b.tx
    BY <1>1, <1>2 DEF IsConnection
  <1>4. /\ d.state \in StompState /\ d.rx \in BOOLEAN /\ d.has_record \in BOOLEAN
        /\ d.subscribed \in AgentQueues \cup {NoQueue}
    BY <1>1, <1>3 DEF StompState, Sending, IsSending
  <1>5. Sending(d, n)
    BY <1>1, <1>3, <1>4, CarriesOn
  <1> QED
    BY <1>5 DEF d

LEMMA StompFrame == [kind |-> "STOMP"] \in Frame /\ [kind |-> "UNSUBSCRIBE"] \in Frame
  BY DEF Frame

LEMMA StartedSends ==
  ASSUME NEW c, NEW n, IsConnection(c), Sending(c, n), NEW d \in StartStompConnection(c)
  PROVE  Sending(d, n)
  <1> DEFINE b == [c EXCEPT !.cur = c.next]
             i == InitStompConnection(b)
             r == [i EXCEPT !.state = "Retrying"]
             e == HandleStompSocketError(i)
             f == StartSendingFrame(i, [kind |-> "STOMP"])
             g == [f EXCEPT !.state = "SendingStompFrame"]
  <1>1. IsConnection(b) /\ b.queue = c.queue /\ b.unsent = c.unsent /\ b.subscribed = c.subscribed
    BY DEF IsConnection
  <1>2. i = [b EXCEPT !.state = "Idle", !.reconnect = "Off", !.resubscribe = "Off",
                      !.perform = {}, !.subscribe_dest = NoQueue, !.rx = FALSE,
                      !.tx = NoFrame, !.has_record = FALSE, !.missed = FALSE]
    BY DEF InitStompConnection
  <1>3. d = r \/ d = e \/ d = g
    BY DEF StartStompConnection, ConnectToServer
  <1>4. f = [i EXCEPT !.tx = [kind |-> "STOMP"], !.has_record = FALSE]
    BY DEF StartSendingFrame
  <1> HIDE DEF b, i
  <1>5. /\ i.queue = c.queue /\ i.unsent = c.unsent /\ i.subscribed = c.subscribed
        /\ i.state = "Idle" /\ i.rx = FALSE /\ i.tx = NoFrame /\ i.has_record = FALSE
    BY <1>1, <1>2 DEF IsConnection
  <1>6. IsConnection(i)
    <2> DEFINE h == [b EXCEPT !.state = "Idle", !.reconnect = "Off", !.resubscribe = "Off",
                              !.perform = {}, !.subscribe_dest = NoQueue]
    <2>1. IsConnection(h)
      BY <1>1 DEF IsConnection, StompState, Scheduled
    <2>2. i = [h EXCEPT !.rx = FALSE, !.tx = NoFrame, !.has_record = FALSE, !.missed = FALSE]
      BY <1>1, <1>2 DEF IsConnection
    <2> HIDE DEF h
    <2> QED
      BY <2>1, <2>2 DEF IsConnection
  <1>7. /\ "Idle" \in StompState /\ "Retrying" \in StompState /\ "SendingStompFrame" \in StompState
        /\ c.subscribed \in AgentQueues \cup {NoQueue}
    BY DEF StompState, Connected, Handshake, Sending, IsSending
  <1>8. Sending(i, n)
    BY <1>5, <1>7, CarriesOn
  <1>9. CASE d = e
    BY <1>6, <1>8, <1>9, FailedSends
  <1>10. CASE d = r
    <2>1. /\ r.queue = c.queue /\ r.unsent = c.unsent /\ r.subscribed = c.subscribed
          /\ r.state = "Retrying" /\ r.rx = FALSE /\ r.tx = NoFrame /\ r.has_record = FALSE
      BY <1>5, <1>6 DEF IsConnection
    <2> HIDE DEF r
    <2> QED
      BY <1>7, <1>10, <2>1, CarriesOn
  <1>11. CASE d = g
    <2>1. g = [i EXCEPT !.tx = [kind |-> "STOMP"], !.has_record = FALSE, !.state = "SendingStompFrame"]
      BY <1>4, <1>6 DEF IsConnection
    <2> HIDE DEF g
    <2>2. /\ g.queue = c.queue /\ g.unsent = c.unsent /\ g.subscribed = c.subscribed
          /\ g.state = "SendingStompFrame" /\ g.rx = FALSE /\ g.tx = [kind |-> "STOMP"] /\ g.has_record = FALSE
      BY <1>5, <1>6, <2>1 DEF IsConnection
    <2>3. g.tx \in Frame /\ g.tx.kind # "SEND"
      BY <2>2, StompFrame
    <2> QED
      BY <1>7, <1>11, <2>2, <2>3, CarriesOn
  <1> QED
    BY <1>3, <1>9, <1>10, <1>11

LEMMA TimedOutSends ==
  ASSUME NEW c, NEW n, IsConnection(c), Sending(c, n), NEW states, NEW d \in TimedOut(c, states)
  PROVE  Sending(d, n)
  BY FailedSends DEF TimedOut

LEMMA DroppedSends ==
  ASSUME NEW c, NEW n, IsConnection(c), Sending(c, n), NEW N,
         c.tx # NoFrame /\ c.has_record => c.queue[1].n \notin N,
         NEW d, d = [c EXCEPT !.queue = Without(c.queue, N), !.unsent = c.unsent \ N]
  PROVE  /\ IsConnection(d) /\ Sending(d, n)
         /\ d.tx = c.tx /\ d.has_record = c.has_record /\ d.state = c.state
  <1>1. /\ d.state = c.state /\ d.rx = c.rx /\ d.has_record = c.has_record /\ d.tx = c.tx
        /\ d.subscribed = c.subscribed
        /\ d.queue = Without(c.queue, N) /\ d.unsent = c.unsent \ N
    BY DEF IsConnection
  <1>2. IsConnection(d)
    BY DEF IsConnection
  <1>3. /\ d.queue \in Seq(Record) /\ Apart(d.queue) /\ Numbers(d.queue) = Numbers(c.queue) \ N
        /\ c.queue # <<>> /\ c.queue[1].n \notin N => d.queue # <<>> /\ d.queue[1] = c.queue[1]
    BY <1>1, WithoutFacts DEF Sending, QueueKept
  <1>4. QueueKept(d, n)
    BY <1>1, <1>3 DEF Sending, QueueKept
  <1>5. HeadInFlight(d)
    BY <1>1, <1>3 DEF Sending, HeadInFlight
  <1>6. IsSending(d)
    BY <1>1 DEF Sending, IsSending
  <1> QED
    BY <1>1, <1>2, <1>4, <1>5, <1>6 DEF Sending

LEMMA ExpiredSends ==
  ASSUME NEW c, NEW n, IsConnection(c), Sending(c, n), c.tx = NoFrame,
         NEW d \in RemoveExpiredStompMessages(c)
  PROVE  IsConnection(d) /\ Sending(d, n) /\ d.tx = NoFrame /\ d.state = c.state
  <1>1. PICK N : d = [c EXCEPT !.queue = Without(c.queue, N), !.unsent = c.unsent \ N]
    BY DEF RemoveExpiredStompMessages, Drop
  <1>2. c.tx # NoFrame /\ c.has_record => c.queue[1].n \notin N
    OBVIOUS
  <1>3. IsConnection(d) /\ Sending(d, n) /\ d.tx = c.tx /\ d.state = c.state
    BY <1>1, <1>2, DroppedSends, ZenonT(60)
  <1> QED
    BY <1>3

\* A frame is put into the empty buffer.
LEMMA StartSendingSends ==
  ASSUME NEW c, NEW n, IsConnection(c), Sending(c, n), NEW f \in Frame,
         f.kind = "SEND" => c.queue # <<>> /\ f.rec = c.queue[1]
  PROVE  Sending(StartSendingFrame(c, f), n) /\ IsConnection(StartSendingFrame(c, f))
  <1> DEFINE d == StartSendingFrame(c, f)
             h == (f.kind = "SEND")
  <1>1. d = [c EXCEPT !.tx = f, !.has_record = h]
    BY DEF StartSendingFrame
  <1>2. h \in BOOLEAN
    OBVIOUS
  <1> HIDE DEF d
  <1>3. /\ d.queue = c.queue /\ d.unsent = c.unsent /\ d.state = c.state /\ d.rx = c.rx
        /\ d.has_record = h /\ d.subscribed = c.subscribed /\ d.tx = f
    BY <1>1 DEF IsConnection
  <1>4. IsConnection(d)
    BY <1>1 DEF IsConnection
  <1>5. IsSending(d)
    BY <1>2, <1>3 DEF Sending, IsSending
  <1>6. QueueKept(d, n)
    BY <1>3 DEF Sending, QueueKept
  <1>7. HeadInFlight(d)
    BY <1>3 DEF HeadInFlight
  <1> QED
    BY <1>4, <1>5, <1>6, <1>7 DEF Sending, d

LEMMA SubscribeIsFrame ==
  ASSUME NEW c, IsConnection(c), AgentQueue(c) # NoQueue
  PROVE  [kind |-> "SUBSCRIBE", dest |-> AgentQueue(c)] \in Frame
  <1>1. AgentQueue(c) \in AgentQueues
    BY DEF IsConnection, AgentQueue, Conf
  <1> QED
    BY <1>1 DEF Frame

\* A change of what else is to be sent.
LEMMA PerformSends ==
  ASSUME NEW c, NEW n, IsConnection(c), Sending(c, n), NEW p \in {{}, {"sub"}, {"unsub", "sub"}},
         NEW d, d = [c EXCEPT !.perform = p]
  PROVE  IsConnection(d) /\ Sending(d, n)
  <1>1. IsConnection(d)
    BY DEF IsConnection
  <1>2. /\ d.queue = c.queue /\ d.unsent = c.unsent /\ d.state = c.state /\ d.rx = c.rx
        /\ d.has_record = c.has_record /\ d.subscribed = c.subscribed /\ d.tx = c.tx
    BY DEF IsConnection
  <1> QED
    BY <1>1, <1>2, CarriesOn DEF Sending, IsSending

LEMMA NextMsgSends ==
  ASSUME NEW c, NEW n, IsConnection(c), Sending(c, n), c.tx = NoFrame,
         NEW d \in GetNextStompMsgToSend(c)
  PROVE  Sending(d, n)
  <1>1. c.perform \in {{}, {"sub"}, {"unsub", "sub"}}
    BY DEF IsConnection
  <1>2. CASE "unsub" \in c.perform
    <2> DEFINE b == [c EXCEPT !.perform = c.perform \ {"unsub"}]
    <2>1. c.perform \ {"unsub"} = {"sub"}
      BY <1>1, <1>2
    <2>2. d = StartSendingFrame(b, [kind |-> "UNSUBSCRIBE"])
      BY <1>2 DEF GetNextStompMsgToSend
    <2>3. IsConnection(b) /\ Sending(b, n)
      BY <2>1, PerformSends
    <2> HIDE DEF b
    <2> QED
      BY <2>2, <2>3, StompFrame, StartSendingSends
  <1>3. CASE c.perform = {"sub"}
    <2> DEFINE b == [c EXCEPT !.perform = c.perform \ {"sub"}]
    <2>1. c.perform \ {"sub"} = {} /\ "unsub" \notin c.perform
      BY <1>3
    <2>2. d = IF AgentQueue(b) = NoQueue THEN HandleStompSocketError(b)
              ELSE StartSendingFrame(b, [kind |-> "SUBSCRIBE", dest |-> AgentQueue(b)])
      BY <1>3, <2>1 DEF GetNextStompMsgToSend
    <2>3. IsConnection(b) /\ Sending(b, n)
      BY <2>1, PerformSends
    <2> HIDE DEF b
    <2>4. CASE AgentQueue(b) = NoQueue
      BY <2>2, <2>3, <2>4, FailedSends
    <2>5. CASE AgentQueue(b) # NoQueue
      <3> DEFINE f == [kind |-> "SUBSCRIBE", dest |-> AgentQueue(b)]
      <3>1. f \in Frame /\ f.kind # "SEND" /\ d = StartSendingFrame(b, f)
        BY <2>2, <2>3, <2>5, SubscribeIsFrame
      <3> HIDE DEF f
      <3> QED
        BY <2>3, <3>1, StartSendingSends
    <2> QED
      BY <2>4, <2>5
  <1>4. CASE c.perform = {}
    <2>1. PICK b \in RemoveExpiredStompMessages(c) :
            d = IF b.queue = <<>> THEN b
                ELSE IF Head(b.queue).to = NoQueue THEN HandleStompSocketError(b)
                ELSE StartSendingFrame(b, [kind |-> "SEND", rec |-> Head(b.queue)])
      BY <1>4 DEF GetNextStompMsgToSend
    <2>2. IsConnection(b) /\ Sending(b, n)
      BY ExpiredSends
    <2>3. CASE b.queue = <<>>
      BY <2>1, <2>2, <2>3
    <2>4. CASE b.queue # <<>> /\ d = HandleStompSocketError(b)
      BY <2>2, <2>4, FailedSends
    <2>5. CASE b.queue # <<>> /\ d = StartSendingFrame(b, [kind |-> "SEND", rec |-> Head(b.queue)])
      <3> DEFINE f == [kind |-> "SEND", rec |-> Head(b.queue)]
      <3>1. b.queue \in Seq(Record)
        BY <2>2 DEF Sending, QueueKept
      <3>2. Head(b.queue) \in Record /\ Head(b.queue) = b.queue[1]
        BY <2>5, <3>1
      <3>3. f \in Frame /\ f.rec = b.queue[1] /\ d = StartSendingFrame(b, f)
        BY <2>5, <3>2 DEF Frame
      <3> HIDE DEF f
      <3> QED
        BY <2>2, <2>5, <3>3, StartSendingSends
    <2> QED
      BY <2>1, <2>3, <2>4, <2>5
  <1> QED
    BY <1>1, <1>2, <1>3, <1>4

LEMMA AdvancedSends ==
  ASSUME NEW c, NEW n, IsConnection(c), c.enabled, Sending(c, n), NEW d \in UpdateStompConnectionSockSet(c)
  PROVE  Sending(d, n)
  <1>1. PICK b \in TimedOut(c, Handshake) :
          d \in CASE b.state = "Running" -> HandleStompRunningState(b)
                  [] b.state = "Retrying" -> {b} \cup StartStompConnection(b)
                  [] OTHER -> {b}
    BY DEF UpdateStompConnectionSockSet
  <1>2. Sending(b, n) /\ IsConnection(b)
    BY TimedOutSends, FailedSettles DEF TimedOut, Settling
  <1>3. CASE b.state = "Running"
    <2>1. d \in HandleStompRunningState(b)
      BY <1>1, <1>3
    <2> QED
      BY <1>2, <2>1, NextMsgSends DEF HandleStompRunningState
  <1>4. CASE b.state = "Retrying"
    <2>1. d = b \/ d \in StartStompConnection(b)
      BY <1>1, <1>4
    <2> QED
      BY <1>2, <2>1, StartedSends
  <1>5. CASE b.state # "Running" /\ b.state # "Retrying"
    <2>1. d = b
      BY <1>1, <1>5
    <2> QED
      BY <1>2, <2>1
  <1> QED
    BY <1>3, <1>4, <1>5

LEMMA ResubscribedSends ==
  ASSUME NEW c, NEW n, IsConnection(c), Sending(c, n), NEW sent
  PROVE  Sending(Resubscribed(c, sent), n)
  <1> DEFINE d == [c EXCEPT !.cur.queue = c.next.queue, !.resubscribe = "Off",
                            !.perform = {"unsub", "sub"}, !.missed = FALSE]
  <1>1. Resubscribed(c, sent) = c \/ Resubscribed(c, sent) = d
    BY DEF Resubscribed
  <1>2. /\ d.queue = c.queue /\ d.unsent = c.unsent /\ d.state = c.state /\ d.rx = c.rx
        /\ d.has_record = c.has_record /\ d.subscribed = c.subscribed /\ d.tx = c.tx
    BY DEF IsConnection
  <1> HIDE DEF d
  <1>3. Sending(d, n)
    BY <1>2, CarriesOn DEF Sending, IsSending
  <1> QED
    BY <1>1, <1>3

LEMMA UpdatedSends ==
  ASSUME NEW c, NEW w, NEW n, Settling(c, w), Sending(c, n), c.enabled, NEW d \in UpdatedSockSet(c)
  PROVE  Sending(d, n)
  <1> DEFINE timeouts == {"SendingSubscribeFrame", "Running"}
  <1>1. PICK i \in HandleStompSourceIPAddrChanges(c) :
          \E r \in Reconnected(i) : \E t \in TimedOut(Resubscribed(r, ResponsesSent(i)), timeouts) :
            d \in UpdateStompConnectionSockSet(t)
    BY DEF UpdatedSockSet
  <1> PICK r \in Reconnected(i) :
          \E t \in TimedOut(Resubscribed(r, ResponsesSent(i)), timeouts) : d \in UpdateStompConnectionSockSet(t)
    BY <1>1
  <1> PICK t \in TimedOut(Resubscribed(r, ResponsesSent(i)), timeouts) : d \in UpdateStompConnectionSockSet(t)
    OBVIOUS
  <1>2. Settling(i, w) /\ i.enabled /\ Sending(i, n)
    <2> DEFINE b == StopStompConnection(c, FALSE)
    <2>1. i = c \/ i \in StartStompConnection(b)
      BY DEF HandleStompSourceIPAddrChanges
    <2>2. IsConnection(b) /\ b.next = w /\ b.enabled
      BY StoppedConnection DEF Settling
    <2>3. Sending(b, n)
      BY StoppedSends DEF Settling
    <2> HIDE DEF b
    <2> QED
      BY <2>1, <2>2, <2>3, StartedSettles, StartedSends
  <1>3. Settling(r, w) /\ r.enabled /\ (r = i \/ r.resubscribe = "Off") /\ Sending(r, n)
    <2> DEFINE b == StopStompConnection(i, TRUE)
               e == [b EXCEPT !.reconnect = "Off"]
    <2>1. r = i \/ (i.queue = <<>> /\ r \in StartStompConnection(e))
      BY DEF Reconnected, ResponsesSent
    <2>2. IsConnection(b) /\ b.next = w /\ b.enabled
      BY <1>2, StoppedConnection DEF Settling
    <2>3. i.queue = <<>> => Sending(b, n)
      BY <1>2, StoppedSends DEF Settling
    <2> HIDE DEF b
    <2>4. IsConnection(e) /\ e.next = w /\ e.enabled
      BY <2>2 DEF IsConnection, Scheduled
    <2>5. /\ e.queue = b.queue /\ e.unsent = b.unsent /\ e.state = b.state /\ e.rx = b.rx
          /\ e.has_record = b.has_record /\ e.subscribed = b.subscribed /\ e.tx = b.tx
      BY <2>2 DEF IsConnection
    <2> HIDE DEF e
    <2>6. i.queue = <<>> => Sending(e, n)
      BY <2>3, <2>5, CarriesOn DEF Sending, IsSending
    <2> QED
      BY <1>2, <2>1, <2>4, <2>6, StartedSettles, StartedSends
  <1>4. ResponsesSent(i) => r.tx = NoFrame \/ r.resubscribe = "Off"
    BY <1>3 DEF ResponsesSent
  <1>5. Settling(Resubscribed(r, ResponsesSent(i)), w) /\ Resubscribed(r, ResponsesSent(i)).enabled
    BY <1>3, <1>4, ResubscribedSettles
  <1>6. Sending(Resubscribed(r, ResponsesSent(i)), n)
    BY <1>3, ResubscribedSends DEF Settling
  <1>7. Settling(t, w) /\ t.enabled
    BY <1>5, TimedOutSettles
  <1>8. Sending(t, n)
    BY <1>5, <1>6, TimedOutSends DEF Settling
  <1> QED
    BY <1>7, <1>8, AdvancedSends DEF Settling

LEMMA TailFacts ==
  ASSUME NEW q \in Seq(Record), Apart(q), q # <<>>
  PROVE  /\ Tail(q) \in Seq(Record) /\ Apart(Tail(q))
         /\ Numbers(Tail(q)) = Numbers(q) \ {q[1].n}
  <1>1. /\ Tail(q) \in Seq(Record) /\ Len(q) \in Nat /\ Len(q) >= 1
        /\ DOMAIN q = 1 .. Len(q) /\ DOMAIN Tail(q) = 1 .. (Len(q) - 1)
    OBVIOUS
  <1>2. \A i \in 1 .. (Len(q) - 1) : i + 1 \in 1 .. Len(q) /\ i + 1 # 1 /\ Tail(q)[i] = q[i + 1]
    BY <1>1
  <1>3. Apart(Tail(q))
    BY <1>1, <1>2 DEF Apart
  <1>4. ASSUME NEW x \in Numbers(Tail(q)) PROVE x \in Numbers(q) \ {q[1].n}
    <2>1. PICK i \in 1 .. (Len(q) - 1) : x = Tail(q)[i].n
      BY <1>1 DEF Numbers
    <2>2. x = q[i + 1].n /\ i + 1 \in DOMAIN q /\ 1 \in DOMAIN q /\ i + 1 # 1
      BY <1>1, <1>2, <2>1
    <2> QED
      BY <2>2 DEF Numbers, Apart
  <1>5. ASSUME NEW x \in Numbers(q) \ {q[1].n} PROVE x \in Numbers(Tail(q))
    <2>1. PICK i \in 1 .. Len(q) : x = q[i].n /\ i # 1
      BY <1>1 DEF Numbers
    <2>2. i - 1 \in 1 .. (Len(q) - 1) /\ (i - 1) + 1 = i
      BY <1>1, <2>1
    <2>3. Tail(q)[i - 1] = q[i]
      BY <1>2, <2>2
    <2> QED
      BY <1>1, <2>1, <2>2, <2>3 DEF Numbers
  <1> QED
    BY <1>1, <1>3, <1>4, <1>5

LEMMA NextStateSends ==
  ASSUME NEW c, NEW n, IsConnection(c), Sending(c, n)
  PROVE  Sending(NextState(c), n)
  <1> DEFINE a == [c EXCEPT !.state = "AwaitingConnectedFrame"]
             b == [c EXCEPT !.state = "Running", !.failed = FALSE]
  <1>1. NextState(c) = a \/ NextState(c) = b \/ NextState(c) = c
    BY DEF NextState
  <1>2. /\ a.queue = c.queue /\ a.unsent = c.unsent /\ a.rx = c.rx /\ a.state = "AwaitingConnectedFrame"
        /\ a.has_record = c.has_record /\ a.subscribed = c.subscribed /\ a.tx = c.tx
    BY DEF IsConnection
  <1>3. /\ b.queue = c.queue /\ b.unsent = c.unsent /\ b.rx = c.rx /\ b.state = "Running"
        /\ b.has_record = c.has_record /\ b.subscribed = c.subscribed /\ b.tx = c.tx
    BY DEF IsConnection
  <1> HIDE DEF a, b
  <1>4. "Running" \in StompState /\ "AwaitingConnectedFrame" \in StompState
    BY DEF StompState, Connected, Handshake
  <1>5. c.rx \in BOOLEAN /\ c.has_record \in BOOLEAN /\ c.subscribed \in AgentQueues \cup {NoQueue}
    BY DEF Sending, IsSending
  <1>6. Sending(a, n)
    BY <1>2, <1>4, <1>5, CarriesOn
  <1>7. Sending(b, n)
    BY <1>3, <1>4, <1>5, CarriesOn
  <1> QED
    BY <1>1, <1>6, <1>7

LEMMA TransmittedSends ==
  ASSUME NEW c, NEW n, IsConnection(c), Sending(c, n), c.tx # NoFrame, NEW d \in TransmitStompMessage(c)
  PROVE  Sending(d, n)
  <1> DEFINE f == FrameSent(c)
             u == IF c.tx.kind = "SEND" THEN c.unsent \ {c.tx.rec.n} ELSE c.unsent
             v == CASE c.tx.kind = "SUBSCRIBE" -> c.tx.dest
                    [] c.tx.kind = "UNSUBSCRIBE" -> NoQueue
                    [] OTHER -> c.subscribed
  <1>1. f = [c EXCEPT !.tx = NoFrame, !.unsent = u, !.subscribed = v]
    BY DEF FrameSent
  <1>2. \/ d = c \/ d = HandleStompSocketError(c)
        \/ ~c.has_record /\ d = NextState(f)
        \/ c.has_record /\ d = NextState(RecordSent(f))
    BY DEF TransmitStompMessage
  <1>3. c.tx \in Frame /\ c.has_record \in BOOLEAN /\ c.has_record = (c.tx.kind = "SEND")
    BY DEF Sending, IsSending, HeadInFlight
  <1>4. v \in AgentQueues \cup {NoQueue}
    BY <1>3 DEF Frame, Sending, IsSending
  <1> HIDE DEF f, u, v
  <1>5. /\ f.queue = c.queue /\ f.unsent = u /\ f.state = c.state /\ f.rx = c.rx
        /\ f.has_record = c.has_record /\ f.subscribed = v /\ f.tx = NoFrame
    BY <1>1 DEF IsConnection
  <1>6. IsConnection(f)
    BY <1>1 DEF IsConnection
  <1>7. f.state \in StompState /\ f.rx \in BOOLEAN /\ f.has_record \in BOOLEAN
    BY <1>5 DEF Sending, IsSending
  <1>8. CASE ~c.has_record /\ d = NextState(f)
    <2>1. u = c.unsent
      BY <1>3, <1>8 DEF u
    <2>2. Sending(f, n)
      BY <1>4, <1>5, <1>7, <2>1, CarriesOn
    <2> QED
      BY <1>6, <1>8, <2>2, NextStateSends
  <1>9. CASE c.has_record /\ d = NextState(RecordSent(f))
    <2> DEFINE b == [f EXCEPT !.queue = Tail(f.queue)]
               e == [b EXCEPT !.has_record = FALSE]
    <2>1. /\ c.queue # <<>> /\ c.tx.rec = c.queue[1] /\ u = c.unsent \ {c.queue[1].n}
          /\ c.queue \in Seq(Record) /\ Apart(c.queue) /\ c.unsent = Numbers(c.queue)
          /\ \A m \in Numbers(c.queue) : m <= n
      BY <1>3, <1>9 DEF Sending, HeadInFlight, QueueKept, u
    <2>2. RecordSent(f) = HandleStompSocketError(e) \/ RecordSent(f) = b
      BY <1>5, <2>1 DEF RecordSent
    <2>3. /\ b.queue = Tail(c.queue) /\ b.unsent = u /\ b.state = f.state /\ b.rx = f.rx
          /\ b.has_record = f.has_record /\ b.subscribed = v /\ b.tx = NoFrame
      BY <1>5, <1>6 DEF IsConnection
    <2>4. IsConnection(b)
      BY <1>6 DEF IsConnection
    <2> HIDE DEF b
    <2>5. QueueKept(b, n)
      BY <2>1, <2>3, TailFacts DEF QueueKept
    <2>6. Sending(b, n)
      BY <1>4, <1>7, <2>3, <2>5 DEF Sending, IsSending, HeadInFlight
    <2>7. /\ e.queue = b.queue /\ e.unsent = b.unsent /\ e.state = b.state /\ e.rx = b.rx
          /\ e.has_record = FALSE /\ e.subscribed = b.subscribed /\ e.tx = NoFrame
      BY <2>3, <2>4 DEF IsConnection
    <2>8. IsConnection(e)
      BY <2>4 DEF IsConnection
    <2> HIDE DEF e
    <2>9. Sending(e, n)
      BY <1>4, <1>7, <2>3, <2>6, <2>7, CarriesOn
    <2>10. CASE RecordSent(f) = b
      BY <1>9, <2>4, <2>6, <2>10, NextStateSends
    <2>11. CASE RecordSent(f) = HandleStompSocketError(e)
      <3>1. IsConnection(HandleStompSocketError(e)) 
        BY <2>8, StoppedConnection, ZenonT(60) DEF HandleStompSocketError, IsConnection, StompState
      <3> QED
        BY <1>9, <2>8, <2>9, <2>11, <3>1, FailedSends, NextStateSends
    <2> QED
      BY <2>2, <2>10, <2>11
  <1>10. CASE d = HandleStompSocketError(c)
    BY <1>10, FailedSends
  <1> QED
    BY <1>2, <1>8, <1>9, <1>10

LEMMA ReceivedSends ==
  ASSUME NEW c, NEW n, IsConnection(c), Sending(c, n), NEW d \in ReceiveStompMessage(c)
  PROVE  Sending(d, n)
  <1>1. CASE d = HandleStompSocketError(c)
    BY <1>1, FailedSends
  <1>2. CASE \E rest \in BOOLEAN : d = [c EXCEPT !.rx = rest]
    <2>1. PICK rest \in BOOLEAN : d = [c EXCEPT !.rx = rest]
      BY <1>2
    <2>2. /\ d.queue = c.queue /\ d.unsent = c.unsent /\ d.state = c.state /\ d.rx = rest
          /\ d.has_record = c.has_record /\ d.subscribed = c.subscribed /\ d.tx = c.tx
      BY <2>1 DEF IsConnection
    <2> QED
      BY <2>2, CarriesOn DEF Sending, IsSending
  <1>3. CASE d \in HandleConnectedFrame(c)
    <2>1. PICK q \in AgentQueues \cup {NoQueue}, rest \in BOOLEAN :
            d = StartSubscribing([c EXCEPT !.subscribe_dest = q, !.rx = rest])
      BY <1>3 DEF HandleConnectedFrame
    <2> DEFINE b == [c EXCEPT !.subscribe_dest = q, !.rx = rest]
               f == [kind |-> "SUBSCRIBE", dest |-> AgentQueue(b)]
               g == StartSendingFrame(b, f)
    <2>2. /\ b.queue = c.queue /\ b.unsent = c.unsent /\ b.state = c.state /\ b.rx = rest
          /\ b.has_record = c.has_record /\ b.subscribed = c.subscribed /\ b.tx = c.tx
      BY DEF IsConnection
    <2>3. IsConnection(b)
      BY DEF IsConnection
    <2>4. \/ d = HandleStompSocketError(b)
          \/ AgentQueue(b) # NoQueue /\ d = [g EXCEPT !.state = "SendingSubscribeFrame"]
      BY <2>1 DEF StartSubscribing
    <2> HIDE DEF b
    <2>5. Sending(b, n)
      BY <2>2, CarriesOn DEF Sending, IsSending
    <2>6. CASE d = HandleStompSocketError(b)
      BY <2>3, <2>5, <2>6, FailedSends
    <2>7. CASE AgentQueue(b) # NoQueue /\ d = [g EXCEPT !.state = "SendingSubscribeFrame"]
      <3>1. f \in Frame /\ f.kind # "SEND"
        BY <2>3, <2>7, SubscribeIsFrame
      <3> HIDE DEF f
      <3>2. Sending(g, n) /\ IsConnection(g)
        BY <2>3, <2>5, <3>1, StartSendingSends
      <3> HIDE DEF g
      <3>3. /\ d.queue = g.queue /\ d.unsent = g.unsent /\ d.state = "SendingSubscribeFrame" /\ d.rx = g.rx
            /\ d.has_record = g.has_record /\ d.subscribed = g.subscribed /\ d.tx = g.tx
        BY <2>7, <3>2 DEF IsConnection
      <3>4. d.state \in StompState
        BY <3>3 DEF StompState, Connected, Handshake
      <3> QED
        BY <3>2, <3>3, <3>4, CarriesOn DEF Sending, IsSending
    <2> QED
      BY <2>4, <2>6, <2>7
  <1> QED
    BY <1>1, <1>2, <1>3 DEF ReceiveStompMessage

LEMMA StartingHasFrame ==
  ASSUME NEW c, NEW w, Settling(c, w), c.state = "SendingStompFrame"
  PROVE  c.tx # NoFrame
  BY StompFrame, FrameAssumption DEF Settling, InPhase

LEMMA ProcessedSends ==
  ASSUME NEW c, NEW w, NEW n, Settling(c, w), Sending(c, n), c.enabled, NEW d \in ProcessedActivity(c)
  PROVE  Sending(d, n)
  <1>0. IsConnection(c)
    BY DEF Settling
  <1>1. CASE c.state \in {"SendingStompFrame", "SendingSubscribeFrame"}
    <2>1. d = c \/ d \in TransmitStompMessage(c)
      BY <1>1 DEF ProcessedActivity
    <2>2. c.tx # NoFrame
      BY <1>1, StartingHasFrame, SubscribingHasFrame
    <2> QED
      BY <1>0, <2>1, <2>2, TransmittedSends
  <1>2. CASE c.state = "AwaitingConnectedFrame"
    <2>1. d = c \/ d \in ReceiveStompMessage(c)
      BY <1>2 DEF ProcessedActivity
    <2> QED
      BY <1>0, <2>1, ReceivedSends
  <1>3. CASE c.state = "Running"
    <2>1. PICK b \in {c} \cup ReceiveStompMessage(c) :
            d \in IF b.state # "Running" THEN {b}
                  ELSE IF b.tx # NoFrame THEN {b} \cup TransmitStompMessage(b)
                  ELSE {b} \cup UpdateAgentHeartbeat(b)
      BY <1>3 DEF ProcessedActivity
    <2>2. IsConnection(b)
      BY ReceivedSettles DEF Settling
    <2>3. Sending(b, n)
      BY <1>0, ReceivedSends
    <2>4. \/ d = b \/ d = HandleStompSocketError(b)
          \/ b.tx # NoFrame /\ d \in TransmitStompMessage(b)
      BY <2>1 DEF UpdateAgentHeartbeat
    <2> QED
      BY <2>2, <2>3, <2>4, FailedSends, TransmittedSends
  <1>4. CASE c.state \notin Connected
    <2>1. d = c
      BY <1>4 DEF ProcessedActivity, Connected, Handshake
    <2> QED
      BY <2>1
  <1> QED
    BY <1>1, <1>2, <1>3, <1>4 DEF Connected, Handshake

-----------------------------------------------------------------------------
(* The send queue through the steps of both threads.                       *)

\* The other variables, with room for the connect records still to be queued.
Counted ==
    /\ mtp_pc \in {"update", "process"} /\ signalled \in BOOLEAN /\ posts \in Nat
    /\ todo \subseteq Controllers
    /\ starts \in 0 .. MaxStarts /\ changes \in 0 .. MaxChanges /\ records \in 0 .. MaxRecords
    /\ records + Cardinality(todo) <= MaxRecords

SendInv == Sending(sc, records) /\ Counted

\* A record with a new number is put into the queue, in place k.
LEMMA InsertFacts ==
  ASSUME NEW q \in Seq(Record), Apart(q), NEW n \in Nat, \A m \in Numbers(q) : m <= n,
         NEW r \in Record, r.n = n + 1,
         NEW s \in Seq(Record), Len(s) = Len(q) + 1, NEW k \in 1 .. Len(s), s[k] = r,
         \A i \in 1 .. Len(q) : i < k => s[i] = q[i],
         \A i \in 1 .. Len(q) : ~(i < k) => s[i + 1] = q[i]
  PROVE  /\ Apart(s) /\ Numbers(s) = Numbers(q) \cup {n + 1}
         /\ \A m \in Numbers(s) : m <= n + 1
  <1> DEFINE p(i) == IF i < k THEN i ELSE i - 1
  <1>1. Len(q) \in Nat /\ DOMAIN q = 1 .. Len(q) /\ DOMAIN s = 1 .. (Len(q) + 1) /\ k \in Nat
    OBVIOUS
  <1>2. \A i \in 1 .. (Len(q) + 1) : i # k => p(i) \in 1 .. Len(q) /\ s[i] = q[p(i)]
    <2> TAKE i \in 1 .. (Len(q) + 1)
    <2> HAVE i # k
    <2>1. CASE i < k
      BY <1>1, <2>1
    <2>2. CASE ~(i < k)
      <3>1. i - 1 \in 1 .. Len(q) /\ ~(i - 1 < k) /\ (i - 1) + 1 = i
        BY <1>1, <2>2
      <3> QED
        BY <2>2, <3>1
    <2> QED
      BY <2>1, <2>2
  <1>3. \A i, j \in 1 .. (Len(q) + 1) : i # k /\ j # k /\ p(i) = p(j) => i = j
    BY <1>1
  <1>4. \A i \in 1 .. Len(q) : q[i].n \in Int /\ q[i].n <= n /\ q[i].n # n + 1
    <2> TAKE i \in 1 .. Len(q)
    <2>1. q[i] \in Record /\ q[i].n \in Numbers(q)
      BY <1>1 DEF Numbers
    <2> QED
      BY <2>1 DEF Record
  <1> HIDE DEF p
  <1>5. Apart(s)
    <2> SUFFICES ASSUME NEW i \in 1 .. (Len(q) + 1), NEW j \in 1 .. (Len(q) + 1), s[i].n = s[j].n
                 PROVE  i = j
      BY <1>1 DEF Apart
    <2>1. CASE i = k /\ j = k
      BY <2>1
    <2>2. CASE i = k /\ j # k
      BY <1>2, <1>4, <2>2
    <2>3. CASE i # k /\ j = k
      BY <1>2, <1>4, <2>3
    <2>4. CASE i # k /\ j # k
      <3>1. p(i) \in DOMAIN q /\ p(j) \in DOMAIN q /\ q[p(i)].n = q[p(j)].n
        BY <1>1, <1>2, <2>4
      <3>2. p(i) = p(j)
        BY <3>1 DEF Apart
      <3> QED
        BY <1>3, <2>4, <3>2
    <2> QED
      BY <2>1, <2>2, <2>3, <2>4
  <1>6. ASSUME NEW x \in Numbers(s) PROVE x \in Numbers(q) \cup {n + 1}
    <2>1. PICK i \in 1 .. (Len(q) + 1) : x = s[i].n
      BY <1>1 DEF Numbers
    <2>2. CASE i = k
      BY <2>1, <2>2
    <2>3. CASE i # k
      BY <1>1, <1>2, <2>1, <2>3 DEF Numbers
    <2> QED
      BY <2>2, <2>3
  <1>7. ASSUME NEW x \in Numbers(q) PROVE x \in Numbers(s)
    <2>1. PICK i \in 1 .. Len(q) : x = q[i].n
      BY <1>1 DEF Numbers
    <2>2. CASE i < k
      <3>1. i \in DOMAIN s /\ s[i] = q[i]
        BY <1>1, <2>2
      <3> QED
        BY <2>1, <3>1 DEF Numbers
    <2>3. CASE ~(i < k)
      <3>1. i + 1 \in DOMAIN s /\ s[i + 1] = q[i]
        BY <1>1, <2>3
      <3> QED
        BY <2>1, <3>1 DEF Numbers
    <2> QED
      BY <2>2, <2>3
  <1>8. n + 1 \in Numbers(s)
    BY <1>1 DEF Numbers
  <1>9. Numbers(s) = Numbers(q) \cup {n + 1}
    BY <1>6, <1>7, <1>8
  <1>10. \A m \in Numbers(q) : m \in Int
    BY <1>1, <1>4 DEF Numbers
  <1> QED
    BY <1>5, <1>9, <1>10

LEMMA AppendFacts ==
  ASSUME NEW q \in Seq(Record), NEW r \in Record
  PROVE  LET s == Append(q, r)
         IN  /\ s \in Seq(Record) /\ Len(s) = Len(q) + 1 /\ s[Len(s)] = r
             /\ \A i \in 1 .. Len(q) : s[i] = q[i]
  OBVIOUS

LEMMA PrependFacts ==
  ASSUME NEW q \in Seq(Record), NEW r \in Record
  PROVE  LET s == <<r>> \o q
         IN  /\ s \in Seq(Record) /\ Len(s) = Len(q) + 1 /\ s[1] = r
             /\ \A i \in 1 .. Len(q) : s[i + 1] = q[i]
  OBVIOUS

LEMMA SecondFacts ==
  ASSUME NEW q \in Seq(Record), q # <<>>, NEW r \in Record
  PROVE  LET s == <<Head(q), r>> \o Tail(q)
         IN  /\ s \in Seq(Record) /\ Len(s) = Len(q) + 1 /\ s[1] = q[1] /\ s[2] = r
             /\ \A i \in 2 .. Len(q) : s[i + 1] = q[i]
  <1>1. Head(q) \in Record /\ Head(q) = q[1] /\ Tail(q) \in Seq(Record) /\ Len(Tail(q)) = Len(q) - 1 /\ Len(q) \in Nat
    OBVIOUS
  <1>2. <<Head(q), r>> \in Seq(Record) /\ Len(<<Head(q), r>>) = 2
    BY <1>1
  <1> DEFINE h == <<Head(q), r>>
             t == Tail(q)
             s == h \o t
  <1>3. s \in Seq(Record) /\ Len(s) = 2 + Len(t) /\ s[1] = h[1] /\ s[2] = h[2]
    BY <1>1, <1>2
  <1>4. \A i \in 2 .. Len(q) : s[i + 1] = t[i - 1] /\ t[i - 1] = q[i]
    BY <1>1, <1>2
  <1> QED
    BY <1>1, <1>3, <1>4

\* A record r is queued: the new queue is q with r in place k, behind the
\* record that is being transmitted.
LEMMA QueuedSends ==
  ASSUME NEW c, NEW n \in Nat, IsConnection(c), Sending(c, n), NEW r \in Record, r.n = n + 1,
         NEW q \in Seq(Record), Len(q) = Len(c.queue) + 1, NEW k \in 1 .. Len(q), q[k] = r,
         \A i \in 1 .. Len(c.queue) : i < k => q[i] = c.queue[i],
         \A i \in 1 .. Len(c.queue) : ~(i < k) => q[i + 1] = c.queue[i],
         c.tx # NoFrame /\ c.has_record => k > 1,
         NEW d, d = [c EXCEPT !.queue = q, !.unsent = c.unsent \cup {r.n}]
  PROVE  Sending(d, n + 1)
  <1>1. /\ d.state = c.state /\ d.rx = c.rx /\ d.has_record = c.has_record /\ d.tx = c.tx
        /\ d.subscribed = c.subscribed /\ d.queue = q /\ d.unsent = c.unsent \cup {r.n}
    BY DEF IsConnection
  <1>2. /\ c.queue \in Seq(Record) /\ Apart(c.queue) /\ c.unsent = Numbers(c.queue)
        /\ \A m \in Numbers(c.queue) : m <= n
    BY DEF Sending, QueueKept
  <1>3. /\ Apart(q) /\ Numbers(q) = Numbers(c.queue) \cup {n + 1}
        /\ \A m \in Numbers(q) : m <= n + 1
    BY <1>2, InsertFacts
  <1>4. QueueKept(d, n + 1)
    BY <1>1, <1>2, <1>3 DEF QueueKept
  <1>5. HeadInFlight(d)
    <2> SUFFICES ASSUME c.tx # NoFrame
                 PROVE  /\ c.has_record = (c.tx.kind = "SEND")
                        /\ c.has_record => q # <<>> /\ c.tx.rec = q[1]
      BY <1>1 DEF HeadInFlight
    <2>1. c.has_record = (c.tx.kind = "SEND")
      BY DEF Sending, HeadInFlight
    <2>2. ASSUME c.has_record PROVE q # <<>> /\ c.tx.rec = q[1]
      <3>1. c.queue # <<>> /\ c.tx.rec = c.queue[1] /\ k > 1
        BY <2>2 DEF Sending, HeadInFlight
      <3>2. 1 \in 1 .. Len(c.queue) /\ 1 < k
        BY <1>2, <3>1
      <3>3. q[1] = c.queue[1]
        BY <3>2
      <3>4. q # <<>>
        OBVIOUS
      <3> QED
        BY <3>1, <3>3, <3>4
    <2> QED
      BY <2>1, <2>2
  <1>6. IsSending(d)
    BY <1>1 DEF Sending, IsSending
  <1> QED
    BY <1>4, <1>5, <1>6 DEF Sending

LEMMA NewRecord ==
  ASSUME records \in Nat, records < MaxRecords, NEW kind \in Kind, NEW to \in Controllers \cup {NoQueue}
  PROVE  [n |-> records + 1, kind |-> kind, to |-> to] \in Record
  BY StompBounds DEF Record

\* The steps that leave queue, frame and counters of records alone.
LEMMA QuietStep ==
  ASSUME SendInv, UNCHANGED <<todo, records>>,
         sc'.queue = sc.queue, sc'.unsent = sc.unsent, sc'.tx = sc.tx, sc'.has_record = sc.has_record,
         sc'.rx = sc.rx, sc'.subscribed = sc.subscribed, sc'.state \in StompState,
         mtp_pc' \in {"update", "process"}, signalled' \in BOOLEAN, posts' \in Nat,
         starts' \in 0 .. MaxStarts, changes' \in 0 .. MaxChanges
  PROVE  SendInv'
  <1>1. Sending(sc, records) /\ records' = records
    BY DEF SendInv
  <1>2. sc'.has_record \in BOOLEAN /\ sc'.rx \in BOOLEAN /\ sc'.subscribed \in AgentQueues \cup {NoQueue}
    BY <1>1 DEF Sending, IsSending
  <1>3. Sending(sc', records)
    BY <1>1, <1>2, CarriesOn
  <1>4. Counted'
    BY DEF SendInv, Counted
  <1> QED
    BY <1>1, <1>3, <1>4 DEF SendInv

LEMMA ChangeCounts ==
  ASSUME Counted, NEW w, Changed(w)
  PROVE  changes' \in 0 .. MaxChanges
  BY StompBounds DEF Counted, Changed

LEMMA EnableSends ==
  ASSUME StompIndInv, SendInv, NEW q, STOMP_EnableConnection(q)
  PROVE  SendInv'
  <1> DEFINE w == [params |-> changes + 1, queue |-> q]
  <1>1. IsConnection(sc) /\ Counted
    BY DEF StompIndInv, Settling, SendInv
  <1>2. /\ sc' = [sc EXCEPT !.enabled = TRUE, !.next = w, !.cur = w, !.failed = FALSE, !.state = "Retrying"]
        /\ UNCHANGED <<signalled, posts, todo, records, mtp_pc, starts>> /\ Changed(w)
    BY DEF STOMP_EnableConnection, mtpVars
  <1>3. changes' \in 0 .. MaxChanges
    BY <1>1, <1>2, ChangeCounts
  <1> HIDE DEF w
  <1>4. /\ sc'.queue = sc.queue /\ sc'.unsent = sc.unsent /\ sc'.tx = sc.tx /\ sc'.has_record = sc.has_record
        /\ sc'.rx = sc.rx /\ sc'.subscribed = sc.subscribed /\ sc'.state = "Retrying"
    BY <1>1, <1>2 DEF IsConnection
  <1>5. sc'.state \in StompState
    BY <1>4 DEF StompState
  <1>6. /\ mtp_pc' \in {"update", "process"} /\ signalled' \in BOOLEAN /\ posts' \in Nat
        /\ starts' \in 0 .. MaxStarts
    BY <1>1, <1>2 DEF Counted
  <1> QED
    BY <1>2, <1>3, <1>4, <1>5, <1>6, QuietStep

LEMMA ReconnectSends ==
  ASSUME StompIndInv, SendInv, NEW q, STOMP_ScheduleReconnect(q)
  PROVE  SendInv'
  <1> DEFINE w == [params |-> changes + 1, queue |-> q]
  <1>1. IsConnection(sc) /\ Counted /\ sc.state \in StompState
    BY DEF StompIndInv, Settling, SendInv, Sending, IsSending
  <1>2. /\ sc' = [sc EXCEPT !.next = w, !.reconnect = "Signalled", !.resubscribe = "Off", !.perform = {}]
        /\ UNCHANGED <<posts, todo, records, mtp_pc, starts>> /\ signalled' = TRUE /\ Changed(w)
    BY DEF STOMP_ScheduleReconnect, mtpVars
  <1>3. changes' \in 0 .. MaxChanges
    BY <1>1, <1>2, ChangeCounts
  <1> HIDE DEF w
  <1>4. /\ sc'.queue = sc.queue /\ sc'.unsent = sc.unsent /\ sc'.tx = sc.tx /\ sc'.has_record = sc.has_record
        /\ sc'.rx = sc.rx /\ sc'.subscribed = sc.subscribed /\ sc'.state = sc.state
    BY <1>1, <1>2 DEF IsConnection
  <1>5. /\ mtp_pc' \in {"update", "process"} /\ signalled' \in BOOLEAN /\ posts' \in Nat
        /\ starts' \in 0 .. MaxStarts
    BY <1>1, <1>2 DEF Counted
  <1> QED
    BY <1>1, <1>2, <1>3, <1>4, <1>5, QuietStep

LEMMA ResubscribeSends ==
  ASSUME StompIndInv, SendInv, NEW q, STOMP_ScheduleResubscribe(q)
  PROVE  SendInv'
  <1> DEFINE schedule == /\ sc.state \in {"SendingSubscribeFrame", "Running"}
                         /\ sc.subscribe_dest = NoQueue
                         /\ sc.reconnect = "Off"
             s == IF schedule THEN "Signalled" ELSE sc.resubscribe
             m == sc.missed \/ sc.state \in Handshake \ {"SendingSubscribeFrame"}
             w == [want EXCEPT !.queue = q]
  <1>1. IsConnection(sc) /\ Counted /\ sc.state \in StompState
    BY DEF StompIndInv, Settling, SendInv, Sending, IsSending
  <1>2. /\ sc' = [sc EXCEPT !.next.queue = q, !.resubscribe = s, !.missed = m]
        /\ UNCHANGED <<posts, todo, records, mtp_pc, starts>> /\ signalled' = (signalled \/ schedule) /\ Changed(w)
    BY DEF STOMP_ScheduleResubscribe, mtpVars
  <1>3. changes' \in 0 .. MaxChanges
    BY <1>1, <1>2, ChangeCounts
  <1>4. signalled' \in BOOLEAN
    BY <1>2
  <1> HIDE DEF w, s, m
  <1>5. /\ sc'.queue = sc.queue /\ sc'.unsent = sc.unsent /\ sc'.tx = sc.tx /\ sc'.has_record = sc.has_record
        /\ sc'.rx = sc.rx /\ sc'.subscribed = sc.subscribed /\ sc'.state = sc.state
    BY <1>1, <1>2 DEF IsConnection
  <1>6. mtp_pc' \in {"update", "process"} /\ posts' \in Nat /\ starts' \in 0 .. MaxStarts
    BY <1>1, <1>2 DEF Counted
  <1> QED
    BY <1>1, <1>2, <1>3, <1>4, <1>5, <1>6, QuietStep

LEMMA ActivateSends ==
  ASSUME StompIndInv, SendInv, STOMP_ActivateScheduledActions
  PROVE  SendInv'
  <1> DEFINE active(s) == IF s = "Signalled" THEN "Activated" ELSE s
  <1>1. IsConnection(sc) /\ Counted /\ sc.state \in StompState
    BY DEF StompIndInv, Settling, SendInv, Sending, IsSending
  <1>2. /\ sc' = [sc EXCEPT !.reconnect = active(sc.reconnect), !.resubscribe = active(sc.resubscribe)]
        /\ UNCHANGED <<posts, todo, records, changes, mtp_pc, starts>> /\ signalled' = FALSE
    BY DEF STOMP_ActivateScheduledActions, mtpVars
  <1> HIDE DEF active
  <1>3. /\ sc'.queue = sc.queue /\ sc'.unsent = sc.unsent /\ sc'.tx = sc.tx /\ sc'.has_record = sc.has_record
        /\ sc'.rx = sc.rx /\ sc'.subscribed = sc.subscribed /\ sc'.state = sc.state
    BY <1>1, <1>2 DEF IsConnection
  <1>4. /\ mtp_pc' \in {"update", "process"} /\ signalled' \in BOOLEAN /\ posts' \in Nat
        /\ starts' \in 0 .. MaxStarts /\ changes' \in 0 .. MaxChanges
    BY <1>1, <1>2 DEF Counted
  <1> QED
    BY <1>1, <1>2, <1>3, <1>4, QuietStep

LEMMA DisableSends ==
  ASSUME StompIndInv, SendInv, STOMP_DisableConnection
  PROVE  SendInv'
  <1> DEFINE b == StopStompConnection(sc, TRUE)
  <1>1. IsConnection(sc) /\ Counted /\ sc.has_record \in BOOLEAN
    BY DEF StompIndInv, Settling, SendInv, Sending, IsSending
  <1>2. IsConnection(b)
    BY <1>1, StoppedConnection
  <1>3. /\ b.queue = <<>> /\ b.tx = NoFrame /\ b.rx = FALSE /\ b.subscribed = NoQueue /\ b.state = "Idle"
        /\ b.has_record = sc.has_record
    BY <1>1 DEF StopStompConnection, IsConnection
  <1>4. /\ sc' = [b EXCEPT !.enabled = FALSE, !.cur = NoConf, !.next = NoConf, !.unsent = {}]
        /\ UNCHANGED <<signalled, posts, todo, records, mtp_pc, starts>> /\ Changed(NoConf)
    BY DEF STOMP_DisableConnection, mtpVars
  <1> HIDE DEF b
  <1>5. /\ sc'.queue = <<>> /\ sc'.unsent = {} /\ sc'.tx = NoFrame /\ sc'.has_record = sc.has_record
        /\ sc'.rx = FALSE /\ sc'.subscribed = NoQueue /\ sc'.state = "Idle"
    BY <1>2, <1>3, <1>4 DEF IsConnection
  <1>6. IsSending(sc')
    BY <1>1, <1>5 DEF IsSending, StompState
  <1>7. Numbers(<<>>) = {} /\ Apart(<<>>) /\ <<>> \in Seq(Record)
    BY DEF Numbers, Apart
  <1>8. QueueKept(sc', records)
    BY <1>5, <1>7 DEF QueueKept
  <1>9. HeadInFlight(sc')
    BY <1>5 DEF HeadInFlight
  <1>10. changes' \in 0 .. MaxChanges
    BY <1>1, <1>4, ChangeCounts
  <1>11. Counted'
    BY <1>1, <1>4, <1>10 DEF Counted
  <1> QED
    BY <1>4, <1>6, <1>8, <1>9, <1>11 DEF SendInv, Sending

LEMMA QueueSends ==
  ASSUME StompIndInv, SendInv, NEW kind \in Kind, NEW to \in Controllers \cup {NoQueue},
         STOMP_QueueBinaryMessage(kind, to)
  PROVE  SendInv'
  <1> DEFINE r == [n |-> records + 1, kind |-> kind, to |-> to]
  <1>1. IsConnection(sc) /\ Sending(sc, records) /\ Counted /\ records \in Nat
    BY StompBounds DEF StompIndInv, Settling, SendInv, Counted
  <1>2. /\ todo = {} /\ records < MaxRecords /\ records' = records + 1
        /\ UNCHANGED <<signalled, posts, todo, changes, mtp_pc, starts>>
    BY DEF STOMP_QueueBinaryMessage, DmIdle, mtpVars
  <1>3. r \in Record /\ r.n = records + 1
    BY <1>1, <1>2, NewRecord
  <1>4. PICK c : /\ c = sc \/ (sc.tx = NoFrame /\ c \in RemoveExpiredStompMessages(sc))
                 /\ sc' = [c EXCEPT !.queue = Append(c.queue, r), !.unsent = c.unsent \cup {r.n}]
    <2>1. PICK c \in IF sc.tx = NoFrame THEN RemoveExpiredStompMessages(sc) ELSE {sc} :
            sc' = [c EXCEPT !.queue = Append(c.queue, r), !.unsent = c.unsent \cup {r.n}]
      BY DEF STOMP_QueueBinaryMessage
    <2> HIDE DEF r
    <2> QED
      BY <2>1
  <1> HIDE DEF r
  <1>5. IsConnection(c) /\ Sending(c, records)
    BY <1>1, <1>4, ExpiredSends
  <1>6. c.queue \in Seq(Record) /\ (c.tx # NoFrame /\ c.has_record => c.queue # <<>>)
    BY <1>5 DEF Sending, QueueKept, HeadInFlight
  <1>7. PICK q : q = Append(c.queue, r)
    OBVIOUS
  <1>8. /\ q \in Seq(Record) /\ Len(q) = Len(c.queue) + 1 /\ q[Len(q)] = r
        /\ \A i \in 1 .. Len(c.queue) : q[i] = c.queue[i]
    BY <1>3, <1>6, <1>7, AppendFacts
  <1>9. /\ Len(q) \in 1 .. Len(q) /\ \A i \in 1 .. Len(c.queue) : i < Len(q)
        /\ c.queue # <<>> => Len(q) > 1
    BY <1>6, <1>8
  <1>10. Sending(sc', records + 1)
    BY <1>1, <1>3, <1>4, <1>5, <1>6, <1>7, <1>8, <1>9, QueuedSends
  <1>11. Cardinality({}) = 0
    BY FS_EmptySet
  <1>12. Counted'
    BY <1>1, <1>2, <1>11, StompBounds DEF Counted
  <1> QED
    BY <1>2, <1>10, <1>12 DEF SendInv

LEMMA ConnectRecordSends ==
  ASSUME ~RacingConnect, StompIndInv, SendInv, NEW to \in Controllers, QueueStompConnectRecord(to)
  PROVE  SendInv'
  <1> DEFINE r == [n |-> records + 1, kind |-> "connect", to |-> to]
             stale == {j \in DOMAIN sc.queue : sc.queue[j].kind # "record" /\ sc.queue[j].to = r.to}
             N == {sc.queue[i].n : i \in stale}
             d == Drop(sc, N)
             q == IF ~d.has_record \/ d.queue = <<>> THEN <<r>> \o d.queue
                  ELSE <<Head(d.queue), r>> \o Tail(d.queue)
             u == d.unsent \cup {r.n}
  <1>1. IsConnection(sc) /\ Sending(sc, records) /\ Counted /\ records \in Nat
    BY StompBounds, SMTT(30) DEF StompIndInv, Settling, SendInv, Counted
  <1>2. /\ to \in todo /\ ~InFlight(to) /\ todo' = todo \ {to}
        /\ UNCHANGED <<signalled, posts, changes, mtp_pc, starts>>
        /\ \/ UNCHANGED <<sc, records>>
           \/ records' = records + 1 /\ sc' = [d EXCEPT !.queue = q, !.unsent = u]
    BY DEF QueueStompConnectRecord, QueueUspConnectRecord_STOMP, mtpVars
  <1>3. /\ Cardinality(todo) \in Nat /\ Cardinality(todo') = Cardinality(todo) - 1
        /\ Cardinality(todo) > 0
    <2>1. IsFiniteSet(todo)
      BY <1>1, FiniteControllers, FS_Subset DEF Counted
    <2>2. Cardinality(todo) \in Nat
      BY <2>1, FS_CardinalityType, SMTT(30)
    <2>3. Cardinality(todo \ {to}) = Cardinality(todo) - 1
      BY <1>2, <2>1, FS_RemoveElement
    <2>4. Cardinality(todo) # 0
      BY <1>2, <2>1, FS_EmptySet
    <2>5. todo' = todo \ {to}
      BY <1>2
    <2>6. Cardinality(todo') = Cardinality(todo) - 1
      BY <2>3, <2>5
    <2> QED
      BY <2>2, <2>4, <2>6
  <1>4. CASE UNCHANGED <<sc, records>>
    <2>1. Sending(sc', records')
      BY <1>1, <1>4
    <2>2. Counted'
      BY <1>1, <1>2, <1>3, <1>4, StompBounds DEF Counted
    <2> QED
      BY <2>1, <2>2 DEF SendInv
  <1>5. CASE records' = records + 1 /\ sc' = [d EXCEPT !.queue = q, !.unsent = u]
    <2>1. records < MaxRecords
      BY <1>1, <1>3, StompBounds DEF Counted
    <2>2. r \in Record /\ r.n = records + 1
      BY <1>1, <2>1, NewRecord DEF Kind
    <2>3. d = [sc EXCEPT !.queue = Without(sc.queue, N), !.unsent = sc.unsent \ N]
      BY DEF Drop
    <2>4. ASSUME sc.tx # NoFrame, sc.has_record PROVE sc.queue[1].n \notin N
      <3>1. /\ sc.queue # <<>> /\ sc.tx.rec = sc.queue[1] /\ sc.tx.kind = "SEND"
            /\ sc.queue \in Seq(Record) /\ Apart(sc.queue)
        BY <1>1, <2>4 DEF Sending, HeadInFlight, QueueKept
      <3>2. 1 \in DOMAIN sc.queue
        BY <3>1
      <3>3. ~(sc.queue[1].kind # "record" /\ sc.queue[1].to = r.to)
        BY <1>2, <2>4, <3>1 DEF InFlight
      <3>4. 1 \notin stale
        BY <3>3
      <3>5. \A i \in stale : i \in DOMAIN sc.queue /\ i # 1
        BY <3>4
      <3> HIDE DEF stale
      <3> QED
        BY <3>1, <3>2, <3>5 DEF Apart
    <2> HIDE DEF N, d
    <2>5. IsConnection(d) /\ Sending(d, records)
      BY <1>1, <2>3, <2>4, DroppedSends, Zenon
    <2>6. d.queue \in Seq(Record) /\ (d.tx # NoFrame /\ d.has_record => d.queue # <<>>)
      BY <2>5 DEF Sending, QueueKept, HeadInFlight
    <2>7. ASSUME ~d.has_record \/ d.queue = <<>> PROVE Sending(sc', records + 1)
      <3>1. PICK s : s = <<r>> \o d.queue
        OBVIOUS
      <3>2. q = s
        BY <2>7, <3>1
      <3> HIDE DEF q, r
      <3>3. /\ s \in Seq(Record) /\ Len(s) = Len(d.queue) + 1 /\ s[1] = r
            /\ \A i \in 1 .. Len(d.queue) : s[i + 1] = d.queue[i]
        BY <2>2, <2>6, <3>1, PrependFacts
      <3>4. 1 \in 1 .. Len(s) /\ \A i \in 1 .. Len(d.queue) : ~(i < 1)
        BY <2>6, <3>3
      <3>5. ~(d.tx # NoFrame /\ d.has_record)
        BY <2>6, <2>7
      <3> QED
        BY <1>1, <1>5, <2>2, <2>5, <3>2, <3>3, <3>4, <3>5, QueuedSends
    <2>8. ASSUME d.has_record, d.queue # <<>> PROVE Sending(sc', records + 1)
      <3>1. PICK s : s = <<Head(d.queue), r>> \o Tail(d.queue)
        OBVIOUS
      <3>2. q = s
        BY <2>8, <3>1
      <3> HIDE DEF q, r
      <3>3. /\ s \in Seq(Record) /\ Len(s) = Len(d.queue) + 1 /\ s[1] = d.queue[1] /\ s[2] = r
            /\ \A i \in 2 .. Len(d.queue) : s[i + 1] = d.queue[i]
        BY <2>2, <2>6, <2>8, <3>1, SecondFacts
      <3>4. /\ 2 \in 1 .. Len(s) /\ 2 > 1
            /\ \A i \in 1 .. Len(d.queue) : i < 2 => s[i] = d.queue[i]
            /\ \A i \in 1 .. Len(d.queue) : ~(i < 2) => s[i + 1] = d.queue[i]
        <4>1. Len(d.queue) \in Nat /\ Len(d.queue) > 0
          BY <2>6, <2>8
        <4>2. \A i \in 1 .. Len(d.queue) : (i < 2 => i = 1) /\ (~(i < 2) => i \in 2 .. Len(d.queue))
          BY <4>1
        <4> QED
          BY <3>3, <4>1, <4>2
      <3> QED
        BY <1>1, <1>5, <2>2, <2>5, <3>2, <3>3, <3>4, QueuedSends
    <2>9. Sending(sc', records + 1)
      BY <2>7, <2>8
    <2>10. Counted'
      BY <1>1, <1>2, <1>3, <1>5, StompBounds DEF Counted
    <2> QED
      BY <1>5, <2>9, <2>10 DEF SendInv
  <1> QED
    BY <1>2, <1>4, <1>5

LEMMA HandshakeSends ==
  ASSUME SendInv, HandshakeComplete
  PROVE  SendInv'
  <1>1. /\ posts > 0 /\ posts' = posts - 1 /\ todo' = Controllers
        /\ records + Cardinality(Controllers) <= MaxRecords
        /\ UNCHANGED <<sc, signalled, changes, records, mtp_pc, starts>>
    BY DEF HandshakeComplete, mtpVars
  <1>2. Sending(sc', records')
    BY <1>1 DEF SendInv
  <1>3. Counted'
    BY <1>1 DEF SendInv, Counted
  <1> QED
    BY <1>2, <1>3 DEF SendInv

LEMMA UpdateSends ==
  ASSUME StompIndInv, SendInv, STOMP_UpdateAllSockSet
  PROVE  SendInv'
  <1>1. Settling(sc, want) /\ Sending(sc, records) /\ Counted
    BY DEF StompIndInv, SendInv
  <1>2. /\ sc' = sc \/ (sc.enabled /\ sc' \in UpdatedSockSet(sc))
        /\ starts' \in {starts, starts + 1} /\ starts' <= MaxStarts /\ mtp_pc' = "process"
        /\ UNCHANGED <<posts, signalled, todo, changes, records>>
    BY DEF STOMP_UpdateAllSockSet, dmVars
  <1>3. Sending(sc', records)
    BY <1>1, <1>2, UpdatedSends
  <1>4. Counted'
    BY <1>1, <1>2, StompBounds DEF Counted
  <1> QED
    BY <1>2, <1>3, <1>4 DEF SendInv

LEMMA ProcessSends ==
  ASSUME StompIndInv, SendInv, STOMP_ProcessAllSocketActivity
  PROVE  SendInv'
  <1>1. Settling(sc, want) /\ Sending(sc, records) /\ Counted
    BY DEF StompIndInv, SendInv
  <1>2. /\ sc' = sc \/ (sc.enabled /\ sc' \in ProcessedActivity(sc))
        /\ posts' \in {posts, posts + 1} /\ mtp_pc' = "update"
        /\ UNCHANGED <<starts, signalled, todo, changes, records>>
    BY DEF STOMP_ProcessAllSocketActivity, dmVars
  <1>3. Sending(sc', records)
    BY <1>1, <1>2, ProcessedSends
  <1>4. Counted'
    BY <1>1, <1>2 DEF Counted
  <1> QED
    BY <1>2, <1>3, <1>4 DEF SendInv

LEMMA InitSends ==
  ASSUME StompInit
  PROVE  SendInv
  <1>1. /\ sc.queue = <<>> /\ sc.unsent = {} /\ sc.tx = NoFrame /\ sc.has_record = FALSE
        /\ sc.rx = FALSE /\ sc.subscribed = NoQueue /\ sc.state = "Idle"
    BY DEF StompInit
  <1>2. Numbers(<<>>) = {} /\ Apart(<<>>) /\ <<>> \in Seq(Record)
    BY DEF Numbers, Apart
  <1>3. Sending(sc, records)
    BY <1>1, <1>2 DEF Sending, IsSending, QueueKept, HeadInFlight, StompState
  <1>4. Cardinality({}) = 0
    BY FS_EmptySet
  <1>5. /\ mtp_pc = "update" /\ signalled = FALSE /\ posts = 0 /\ todo = {}
        /\ starts = 0 /\ changes = 0 /\ records = 0
    BY DEF StompInit
  <1>6. Counted
    <2>1. MaxStarts \in Nat /\ MaxChanges \in Nat /\ MaxRecords \in Nat
      BY StompBounds
    <2>2. Cardinality(todo) = 0
      BY <1>4, <1>5
    <2>3. todo \subseteq Controllers
      BY <1>5
    <2>4. mtp_pc \in {"update", "process"} /\ signalled \in BOOLEAN
      BY <1>5, Zenon
    <2>5. posts \in Nat /\ starts \in 0 .. MaxStarts /\ changes \in 0 .. MaxChanges
      BY <1>5, <2>1, SMT
    <2>6. records \in 0 .. MaxRecords
      BY <1>5, <2>1, SMT
    <2>7. records + Cardinality(todo) <= MaxRecords
      BY <1>5, <2>1, <2>2, SMT
    <2> QED
      BY <2>3, <2>4, <2>5, <2>6, <2>7, Zenon DEF Counted
  <1> QED
    BY <1>3, <1>6 DEF SendInv

LEMMA StepSends ==
  ASSUME ~RacingConnect, StompIndInv, SendInv, [StompNext]_stompVars
  PROVE  SendInv'
  <1>1. CASE UNCHANGED stompVars
    BY <1>1 DEF stompVars, SendInv, Counted
  <1>2. CASE \E q \in AgentQueues \cup {NoQueue} : \/ STOMP_EnableConnection(q)
                                                 \/ STOMP_ScheduleReconnect(q)
                                                 \/ STOMP_ScheduleResubscribe(q)
    BY <1>2, EnableSends, ReconnectSends, ResubscribeSends
  <1>3. CASE \E kind \in {"record", "disconnect"}, to \in Controllers \cup {NoQueue} :
               STOMP_QueueBinaryMessage(kind, to)
    BY <1>3, QueueSends DEF Kind
  <1>4. CASE \E to \in Controllers : QueueStompConnectRecord(to)
    BY <1>4, ConnectRecordSends
  <1> QED
    BY <1>1, <1>2, <1>3, <1>4, DisableSends, ActivateSends, UpdateSends, ProcessSends, HandshakeSends
       DEF StompNext

LEMMA SendingIsKept ==
  ASSUME StompIndInv, SendInv
  PROVE  SendQueueKept
  <1>1. IsConnection(sc) /\ sc.next = want /\ IsSending(sc) /\ QueueKept(sc, records) /\ HeadInFlight(sc)
    BY DEF StompIndInv, Settling, SendInv, Sending
  <1>2. Numbers(sc.queue) \subseteq 1 .. MaxRecords
    <2>1. ASSUME NEW x \in Numbers(sc.queue) PROVE x \in 1 .. MaxRecords
      <3>1. PICK i \in DOMAIN sc.queue : x = sc.queue[i].n
        BY DEF Numbers
      <3>2. sc.queue[i] \in Record
        BY <1>1 DEF QueueKept
      <3> QED
        BY <3>1, <3>2 DEF Record
    <2> QED
      BY <2>1
  <1>3. sc \in Connection /\ want \in Conf
    BY <1>1, <1>2 DEF IsConnection, IsSending, QueueKept, Connection
  <1>4. StompTypeOK
    BY <1>3 DEF SendInv, Counted, StompTypeOK
  <1>5. InFlightIsHead
    BY <1>1 DEF HeadInFlight, QueueKept, InFlightIsHead
  <1>6. Lossless
    BY <1>1 DEF QueueKept, Lossless
  <1> QED
    BY <1>4, <1>5, <1>6, SettlingIsCurrent DEF SendQueueKept

\* Every record given to STOMP_QueueBinaryMessage stays in the queue until it is
\* sent, expires, is superseded or the connection is disabled, and the frame
\* being transmitted is that of the record which TransmitStompMessage will take
\* from the queue, if no connect record is queued while an older one is being
\* transmitted.
THEOREM RecordsKept == ~RacingConnect => (StompSpec => []SendQueueKept)
  <1> SUFFICES ASSUME ~RacingConnect PROVE StompSpec => []SendQueueKept
    OBVIOUS
  <1>1. StompInit => SendInv
    BY InitSends
  <1>2. StompIndInv /\ SendInv /\ [StompNext]_stompVars => SendInv'
    BY StepSends
  <1>3. StompIndInv /\ SendInv => SendQueueKept
    BY SendingIsKept
  <1> QED
    BY <1>1, <1>2, <1>3, SettlingInvariant, PTL DEF StompSpec

=============================================================================
