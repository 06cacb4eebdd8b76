---------------------------- MODULE DeviceProofs ----------------------------
(***************************************************************************)
(* Proofs about the parts of the data model behind device_*.c: Challenge   *)
(* (two factor authentication of controllers), BulkData (bulk data         *)
(* collection) and SubsRetry (notifications sent until they are answered), *)
(* for any number of controllers, challenges, profiles, retained reports,  *)
(* subscriptions, notifications and timers.  The lemmas on what is left of *)
(* a sequence are those of TransportProofs.                                *)
(***************************************************************************)
EXTENDS Challenge, BulkData, SubsRetry, TransportProofs, WellFoundedInduction

(* Notifications sent again (SubsRetry).                                   *)

USE RetryAssumption

\* Min of the community modules is the least element of a set of times.
LEMMA LeastTime ==
    ASSUME NEW S, S \subseteq Nat, S # {}
    PROVE  Min(S) \in S /\ \A t \in S : Min(S) <= t
  <1> DEFINE less == {p \in Nat \X Nat : p[1] < p[2]}
  <1>1. IsWellFoundedOn(less, Nat)
    BY NatLessThanWellFounded DEF OpToRel
  <1> HIDE DEF less
  <1>2. PICK m \in S : \A t \in S : ~(<<t, m>> \in less)
    BY <1>1, WFMin
  <1>3. ASSUME NEW t \in S PROVE m <= t
    <2>1. <<t, m>> \in Nat \X Nat /\ <<t, m>>[1] = t /\ <<t, m>>[2] = m
      OBVIOUS
    <2>2. <<t, m>> \notin less
      BY <1>2
    <2>3. ~(t < m)
      BY <2>1, <2>2 DEF less
    <2> QED
      BY <2>3
  <1> QED
    BY <1>3 DEF Min

LEMMA Joined ==
    ASSUME NEW T, NEW a \in Seq(T), NEW b \in Seq(T)
    PROVE  /\ a \o b \in Seq(T) /\ Len(a \o b) = Len(a) + Len(b)
           /\ \A j \in 1..(Len(a) + Len(b)) : (a \o b)[j] = IF j <= Len(a) THEN a[j] ELSE b[j - Len(a)]
  OBVIOUS

\* SYNC_TIMER_Remove moves the timers behind the one removed down.
LEMMA OneLess ==
    ASSUME NEW T, NEW q \in Seq(T), NEW i \in 1..Len(q)
    PROVE  /\ RemoveAt(q, i) \in Seq(T) /\ Len(RemoveAt(q, i)) = Len(q) - 1
           /\ \A j \in 1..(Len(q) - 1) : RemoveAt(q, i)[j] = IF j < i THEN q[j] ELSE q[j + 1]
  <1> DEFINE a == SubSeq(q, 1, i - 1)
             b == SubSeq(q, i + 1, Len(q))
  <1>1. a \in Seq(T) /\ Len(a) = i - 1 /\ \A j \in 1..(i - 1) : a[j] = q[j]
    OBVIOUS
  <1>2. b \in Seq(T) /\ Len(b) = Len(q) - i /\ \A j \in 1..(Len(q) - i) : b[j] = q[i + j]
    OBVIOUS
  <1>3. RemoveAt(q, i) = a \o b
    BY DEF RemoveAt
  <1> HIDE DEF a, b
  <1>4. a \o b \in Seq(T) /\ Len(a \o b) = Len(a) + Len(b)
    BY <1>1, <1>2, Joined
  <1>5. \A j \in 1..(Len(a) + Len(b)) : (a \o b)[j] = IF j <= Len(a) THEN a[j] ELSE b[j - Len(a)]
    BY <1>1, <1>2, Joined
  <1>6. \A j \in 1..(Len(q) - 1) : (a \o b)[j] = IF j < i THEN q[j] ELSE q[j + 1]
    <2> TAKE j \in 1..(Len(q) - 1)
    <2>1. CASE j < i
      BY <2>1, <1>1, <1>2, <1>5
    <2>2. CASE ~(j < i)
      <3>1. (a \o b)[j] = b[j - (i - 1)]
        BY <2>2, <1>1, <1>2, <1>5
      <3>2. b[j - (i - 1)] = q[i + (j - (i - 1))]
        BY <2>2, <1>2, SMTT(30)
      <3> QED
        BY <2>2, <3>1, <3>2
    <2> QED
      BY <2>1, <2>2
  <1> QED
    BY <1>1, <1>2, <1>3, <1>4, <1>6

\* No timer is due before the time that the DM thread waits for.
LEMMA FirstOfTimers ==
    ASSUME NEW v \in Seq(RetryTimers)
    PROVE  FirstSyncTimerTime(v) \in Nat /\ \A i \in DOMAIN v : FirstSyncTimerTime(v) <= v[i].next
  <1> DEFINE S == {END_OF_TIME} \cup {v[i].next : i \in {j \in DOMAIN v : v[j].enabled}}
  <1>0. \A i \in DOMAIN v : v[i] \in RetryTimers
    OBVIOUS
  <1>1. \A i \in DOMAIN v : v[i].next \in Nat /\ v[i].enabled
    BY <1>0 DEF RetryTimers
  <1>2. S \subseteq Nat /\ S # {}
    BY <1>1 DEF END_OF_TIME
  <1>3. Min(S) \in S /\ \A t \in S : Min(S) <= t
    BY <1>2, LeastTime
  <1> QED
    BY <1>1, <1>2, <1>3 DEF FirstSyncTimerTime

LEMMA FirstOfEntries ==
    ASSUME NEW v \in Seq(RetryEntries)
    PROVE  LET first == Min({END_OF_TIME} \cup {v[i].next : i \in DOMAIN v})
           IN  first \in Nat /\ \A i \in DOMAIN v : first <= v[i].next
  <1> DEFINE S == {END_OF_TIME} \cup {v[i].next : i \in DOMAIN v}
  <1>0. \A i \in DOMAIN v : v[i] \in RetryEntries
    OBVIOUS
  <1>1. \A i \in DOMAIN v : v[i].next \in Nat
    BY <1>0 DEF RetryEntries
  <1>2. S \subseteq Nat /\ S # {}
    BY <1>1 DEF END_OF_TIME
  <1>3. Min(S) \in S /\ \A t \in S : Min(S) <= t
    BY <1>2, LeastTime
  <1> QED
    BY <1>2, <1>3

\* The vector of timers: that of the retries, then those of requests.
TimersOK(v) == /\ v \in Seq(RetryTimers) /\ Len(v) >= 1 /\ v[1].cb = "SubsRetryExec" /\ v[1].id = 0
               /\ \A i \in DOMAIN v : i > 1 => v[i].cb = "Request"

LEMMA ReloadGives ==
    ASSUME NEW v, TimersOK(v), NEW n \in Nat
    PROVE  LET w == SYNC_TIMER_Reload(v, "SubsRetryExec", 0, n)
           IN  TimersOK(w) /\ Len(w) = Len(v) /\ w[1].next = n
  <1> DEFINE S == {i \in DOMAIN v : v[i].cb = "SubsRetryExec" /\ v[i].id = 0}
             w == SYNC_TIMER_Reload(v, "SubsRetryExec", 0, n)
  <1>1. S = {1}
    BY DEF TimersOK
  <1>2. FindSyncTimer(v, "SubsRetryExec", 0) = 1
    BY <1>1, LeastTime DEF FindSyncTimer
  <1>3. w = [v EXCEPT ![1] = Timer("SubsRetryExec", 0, n)]
    BY <1>2 DEF SYNC_TIMER_Reload
  <1>4. Timer("SubsRetryExec", 0, n) \in RetryTimers
    BY DEF Timer, RetryTimers
  <1>5. w \in Seq(RetryTimers) /\ Len(w) = Len(v) /\ w[1] = Timer("SubsRetryExec", 0, n)
        /\ \A i \in DOMAIN v : i > 1 => w[i] = v[i]
    BY <1>3, <1>4 DEF TimersOK
  <1> QED
    BY <1>5, SMTT(30) DEF TimersOK, Timer

LEMMA RemoveGives ==
    ASSUME NEW v, TimersOK(v), NEW k \in DOMAIN v, v[k].cb = "Request"
    PROVE  LET w == SYNC_TIMER_Remove(v, "Request", v[k].id)
           IN  TimersOK(w) /\ Len(w) = Len(v) - 1 /\ w[1] = v[1]
  <1> DEFINE S == {i \in DOMAIN v : v[i].cb = "Request" /\ v[i].id = v[k].id}
             i == FindSyncTimer(v, "Request", v[k].id)
             w == SYNC_TIMER_Remove(v, "Request", v[k].id)
  <1>1. k \in S /\ S \subseteq Nat /\ 1 \notin S
    BY DEF TimersOK
  <1>2. i \in S
    BY <1>1, LeastTime DEF FindSyncTimer
  <1>3. i \in 2..Len(v)
    BY <1>1, <1>2 DEF TimersOK
  <1>4. w = RemoveAt(v, i)
    BY DEF SYNC_TIMER_Remove
  <1> HIDE DEF i, w, S
  <1>5. /\ w \in Seq(RetryTimers) /\ Len(w) = Len(v) - 1
        /\ \A j \in 1..(Len(v) - 1) : w[j] = IF j < i THEN v[j] ELSE v[j + 1]
    <2>1. v \in Seq(RetryTimers) /\ i \in 1..Len(v)
      BY <1>3 DEF TimersOK
    <2>2. /\ RemoveAt(v, i) \in Seq(RetryTimers) /\ Len(RemoveAt(v, i)) = Len(v) - 1
          /\ \A j \in 1..(Len(v) - 1) : RemoveAt(v, i)[j] = IF j < i THEN v[j] ELSE v[j + 1]
      BY <2>1, OneLess
    <2> QED
      BY <2>2, <1>4
  <1>6. w[1] = v[1]
    BY <1>3, <1>5
  <1>7. \A j \in DOMAIN w : j > 1 => w[j].cb = "Request"
    <2> SUFFICES ASSUME NEW j \in 2..(Len(v) - 1)
                 PROVE  w[j].cb = "Request"
      BY <1>5
    <2>1. w[j] = IF j < i THEN v[j] ELSE v[j + 1]
      BY <1>5
    <2>2. v[j].cb = "Request" /\ v[j + 1].cb = "Request"
      BY DEF TimersOK
    <2> QED
      BY <2>1, <2>2
  <1>8. TimersOK(w)
    BY <1>3, <1>5, <1>6, <1>7 DEF TimersOK
  <1> QED
    BY <1>5, <1>6, <1>8 DEF w

LEMMA AddGives ==
    ASSUME NEW v, TimersOK(v), NEW id \in Nat, NEW n \in Nat
    PROVE  LET w == SYNC_TIMER_Add(v, "Request", id, n)
           IN  TimersOK(w) /\ Len(w) = Len(v) + 1 /\ w[1] = v[1]
  <1>1. Timer("Request", id, n) \in RetryTimers
    BY DEF Timer, RetryTimers
  <1> QED
    BY <1>1 DEF TimersOK, SYNC_TIMER_Add, Timer

\* GarbageCollectSubsRetry keeps the entries that DestroySubsRetryEntry did not mark, and no others.
AnyEntries == [sub : RetrySubs \cup {0}, path : RetryPaths, id : Nat, expiry : Nat, count : Nat,
               next : 0..(EndOfRun + 1023)]

LEMMA LiveGives ==
    ASSUME NEW v \in Seq(AnyEntries)
    PROVE  /\ Live(v) \in Seq(RetryEntries)
           /\ \A j \in DOMAIN Live(v) : \E i \in DOMAIN v : Live(v)[j] = v[i] /\ v[i].sub # 0
           /\ \A i \in DOMAIN v : v[i].sub # 0 => \E j \in DOMAIN Live(v) : Live(v)[j] = v[i]
  <1> DEFINE S == {e \in ToSet(v) : e.sub # 0}
             w == Only(v, S)
  <1>1. w \in Seq(AnyEntries) /\ ToSet(w) = ToSet(v) \cap S
    BY OnlyAt, OnlySet
  <1>2. Live(v) = w
    BY DEF Live
  <1>3. ToSet(v) = {v[i] : i \in DOMAIN v} /\ ToSet(w) = {w[j] : j \in DOMAIN w}
    BY DEF ToSet
  <1> HIDE DEF w
  <1>4. \A j \in DOMAIN w : \E i \in DOMAIN v : w[j] = v[i] /\ v[i].sub # 0
    <2> TAKE j \in DOMAIN w
    <2>1. w[j] \in ToSet(v) /\ w[j].sub # 0
      BY <1>1, <1>3
    <2> QED
      BY <1>3, <2>1
  <1>5. \A i \in DOMAIN v : v[i].sub # 0 => \E j \in DOMAIN w : w[j] = v[i]
    BY <1>1, <1>3
  <1>6. \A j \in DOMAIN w : w[j] \in RetryEntries
    <2> TAKE j \in DOMAIN w
    <2>1. w[j] \in AnyEntries /\ w[j].sub # 0
      BY <1>1, <1>4
    <2> QED
      BY <2>1 DEF AnyEntries, RetryEntries
  <1>7. w \in Seq(RetryEntries)
    BY <1>1, <1>6
  <1> QED
    BY <1>2, <1>4, <1>5, <1>7

LEMMA TypedEntry ==
    ASSUME NEW e \in RetryEntries
    PROVE  e \in AnyEntries /\ Marked(e) \in AnyEntries /\ e.sub # 0 /\ Marked(e).sub = 0 /\ Marked(e).id = e.id
  <1>1. e.sub \in RetrySubs /\ e \in AnyEntries
    BY DEF RetryEntries, AnyEntries
  <1>2. e.sub # 0
    BY <1>1
  <1>3. Marked(e) = [e EXCEPT !.sub = 0]
    BY DEF Marked
  <1>4. Marked(e) \in AnyEntries /\ Marked(e).sub = 0 /\ Marked(e).id = e.id
    BY <1>1, <1>3 DEF AnyEntries
  <1> QED
    BY <1>1, <1>2, <1>4

LEMMA Typed ==
    ASSUME NEW v \in Seq(RetryEntries)
    PROVE  \A i \in DOMAIN v : /\ v[i] \in RetryEntries /\ v[i] \in AnyEntries /\ Marked(v[i]) \in AnyEntries
                               /\ v[i].sub # 0 /\ Marked(v[i]).sub = 0
  <1>1. \A i \in DOMAIN v : v[i] \in RetryEntries
    OBVIOUS
  <1> QED
    BY <1>1, TypedEntry

-----------------------------------------------------------------------------
(* One lemma per operation.                                                *)

LEMMA TimersAre == ASSUME RetryInv PROVE TimersOK(rt_timers)
  BY DEF RetryInv, RetryTypeOK, TimerOfRetries, TimersOK

\* Whatever leaves timers in order, none after the entries, leaves TimerOfRetries.
LEMMA TimersStay ==
    ASSUME TimersOK(rt_timers'), rt_first' = FirstSyncTimerTime(rt_timers'),
           \A i \in DOMAIN rt' : rt_timers'[1].next <= rt'[i].next
    PROVE  TimerOfRetries'
  BY DEF TimerOfRetries, TimersOK

LEMMA UpdateGives ==
    ASSUME RetryInv, NEW v \in Seq(RetryEntries), UpdateFirstRetryTime(v)
    PROVE  /\ rt' = v /\ TimersOK(rt_timers') /\ Len(rt_timers') = Len(rt_timers)
           /\ TimerOfRetries'
  <1> DEFINE first == Min({END_OF_TIME} \cup {v[i].next : i \in DOMAIN v})
             w == SYNC_TIMER_Reload(rt_timers, "SubsRetryExec", 0, first)
  <1>1. rt' = v /\ rt_timers' = w /\ rt_first' = FirstSyncTimerTime(w)
    BY DEF UpdateFirstRetryTime, TimersBecome
  <1>2. first \in Nat /\ \A i \in DOMAIN v : first <= v[i].next
    BY FirstOfEntries
  <1> HIDE DEF first
  <1>3. TimersOK(w) /\ Len(w) = Len(rt_timers) /\ w[1].next = first
    BY <1>2, TimersAre, ReloadGives
  <1> HIDE DEF w
  <1>4. \A i \in DOMAIN rt' : rt_timers'[1].next <= rt'[i].next
    BY <1>1, <1>2, <1>3
  <1> QED
    BY <1>1, <1>3, <1>4, TimersStay

\* The time that the DM thread waits for is not later than any retry.
LEMMA InTime ==
    ASSUME TimersOK(rt_timers'), TimerOfRetries', rt' \in Seq(RetryEntries)
    PROVE  \A i \in DOMAIN rt' : rt_first' <= rt'[i].next
  <1>1. \A i \in DOMAIN rt' : rt_timers'[1].next <= rt'[i].next
    BY DEF TimerOfRetries
  <1>2. rt_first' <= rt_timers'[1].next
    BY FirstOfTimers DEF TimerOfRetries, TimersOK
  <1>0. rt_timers'[1] \in RetryTimers /\ \A i \in DOMAIN rt' : rt'[i] \in RetryEntries
    BY DEF TimersOK
  <1>3. \A i \in DOMAIN rt' : rt'[i].next \in Int
    BY <1>0 DEF RetryEntries
  <1>4. rt_timers'[1].next \in Int
    <2> DEFINE t == rt_timers'[1]
    <2>1. t \in RetryTimers
      BY <1>0
    <2> HIDE DEF t
    <2>2. t.next \in Int
      BY <2>1 DEF RetryTimers
    <2> QED
      BY <2>2 DEF t
  <1>5. rt_first' \in Int
    BY FirstOfTimers DEF TimerOfRetries, TimersOK
  <1> QED
    BY <1>1, <1>2, <1>3, <1>4, <1>5

\* What StillRetried says of a notification, of any vector of entries.
Listed(v, x, e) == \E i \in DOMAIN v : /\ v[i].sub = x[1] /\ v[i].path = x[2]
                                        /\ v[i].id = e.id /\ v[i].expiry = e.expiry
Over(e, t) == e.expiry # END_OF_TIME /\ (t >= e.expiry \/ e.tried)
Kept(v, newest, t) == \A x \in DOMAIN newest : ~newest[x].done => Listed(v, x, newest[x]) \/ Over(newest[x], t)

LEMMA KeptBefore == ASSUME RetryInv PROVE Kept(rt, rt_newest, rt_now)
  BY DEF RetryInv, StillRetried, Entry, Kept, Listed, Over

LEMMA InvAfter ==
    ASSUME RetryTypeOK', TimersOK(rt_timers'), TimerOfRetries', Kept(rt', rt_newest', rt_now')
    PROVE  RetryInv'
  <1>1. \A i \in DOMAIN rt' : rt_first' <= rt'[i].next
    BY InTime DEF RetryTypeOK
  <1>2. StillRetried'
    BY <1>1 DEF StillRetried, Entry, Kept, Listed, Over
  <1> QED
    BY <1>2 DEF RetryInv

\* The clock and the other timers do not touch the entries.
LEMMA OthersKeep ==
    ASSUME RetryInv, UNCHANGED <<rt, rt_newest, rt_net, rt_n, rt_subs>>, rt_now' \in rt_now..EndOfRun, rt_reqs' \in Nat,
           TimersOK(rt_timers'), rt_first' = FirstSyncTimerTime(rt_timers'), rt_timers'[1] = rt_timers[1],
           rt_at' \in 0..(Len(rt_timers') + 2)
    PROVE  RetryInv'
  <1>1. RetryTypeOK'
    BY SMTT(30) DEF RetryInv, RetryTypeOK, TimersOK
  <1>2. TimerOfRetries'
    BY TimersStay DEF RetryInv, TimerOfRetries
  <1>3. Kept(rt', rt_newest', rt_now')
    <2> SUFFICES ASSUME NEW x \in DOMAIN rt_newest, Over(rt_newest[x], rt_now)
                 PROVE  Over(rt_newest[x], rt_now')
      BY KeptBefore DEF Kept
    <2>1. rt_newest[x].expiry \in Nat /\ rt_now \in Nat /\ rt_now' \in Nat
      BY DEF RetryInv, RetryTypeOK
    <2> QED
      BY <2>1 DEF Over
  <1> QED
    BY <1>1, <1>2, <1>3, InvAfter

LEMMA QuietKeep ==
    ASSUME RetryInv, \/ AddSubscription \/ SecondPasses \/ SYNC_TIMER_Execute
                     \/ TimerNotDue \/ ExecuteEnds \/ UNCHANGED rtVars
    PROVE  RetryInv'
  <1>1. TimersOK(rt_timers) /\ rt_first = FirstSyncTimerTime(rt_timers) /\ Len(rt_timers) \in Nat
    BY TimersAre DEF RetryInv, TimerOfRetries, TimersOK
  <1>2. rt_now \in 0..EndOfRun /\ rt_reqs \in Nat /\ rt_at \in 0..(Len(rt_timers) + 2) /\ EndOfRun \in Nat
    BY DEF RetryInv, RetryTypeOK
  <1>3. CASE AddSubscription
    <2>1. UNCHANGED <<rt, rt_timers, rt_first, rt_at, rt_now, rt_cur, rt_newest, rt_net, rt_n, rt_reqs>>
          /\ rt_subs' \in [RetrySubs -> {0 - 1, 0, 3}]
      BY <1>3 DEF AddSubscription, RetryInv, RetryTypeOK
    <2>2. RetryTypeOK' /\ TimerOfRetries' /\ StillRetried'
      BY <2>1 DEF RetryInv, RetryTypeOK, TimerOfRetries, StillRetried, Entry
    <2> QED
      BY <2>2 DEF RetryInv
  <1>4. CASE SecondPasses
    BY <1>1, <1>2, <1>4, OthersKeep DEF SecondPasses
  <1>5. CASE SYNC_TIMER_Execute
    BY <1>1, <1>2, <1>5, OthersKeep DEF SYNC_TIMER_Execute
  <1>6. CASE TimerNotDue
    <2>1. rt_at' \in 0..(Len(rt_timers) + 2)
      BY <1>1, <1>6 DEF TimerNotDue, Next1, TimersOK
    <2> QED
      BY <1>1, <1>2, <1>6, <2>1, OthersKeep DEF TimerNotDue, Next1
  <1>7. CASE ExecuteEnds
    BY <1>1, <1>2, <1>7, OthersKeep DEF ExecuteEnds, TimersBecome
  <1>8. CASE UNCHANGED rtVars
    BY <1>1, <1>2, <1>8, OthersKeep DEF rtVars
  <1> QED
    BY <1>3, <1>4, <1>5, <1>6, <1>7, <1>8

LEMMA RequestsKeep ==
    ASSUME RetryInv, SendRequest \/ RequestAnswered \/ RequestTimer
    PROVE  RetryInv'
  <1>1. TimersOK(rt_timers) /\ Len(rt_timers) \in Nat
    BY TimersAre DEF TimersOK
  <1>2. rt_now \in 0..EndOfRun /\ rt_reqs \in Nat /\ rt_at \in 0..(Len(rt_timers) + 2) /\ EndOfRun \in Nat
    BY DEF RetryInv, RetryTypeOK
  <1>3. CASE SendRequest
    <2>1. /\ rt_timers' = SYNC_TIMER_Add(rt_timers, "Request", rt_reqs', rt_now + 1)
          /\ rt_first' = FirstSyncTimerTime(rt_timers') /\ rt_reqs' = rt_reqs + 1 /\ rt_at' = rt_at /\ rt_now' = rt_now
      BY <1>3 DEF SendRequest, TimersBecome
    <2>2. rt_reqs' \in Nat /\ rt_now + 1 \in Nat
      BY <1>2, <2>1
    <2>3. TimersOK(rt_timers') /\ Len(rt_timers') = Len(rt_timers) + 1 /\ rt_timers'[1] = rt_timers[1]
      BY <1>1, <2>1, <2>2, AddGives
    <2>4. rt_at' \in 0..(Len(rt_timers') + 2)
      BY <1>1, <1>2, <2>1, <2>3
    <2> QED
      BY <1>2, <1>3, <2>1, <2>2, <2>3, <2>4, OthersKeep DEF SendRequest
  <1>4. CASE RequestAnswered
    <2>1. PICK i \in DOMAIN rt_timers :
             rt_timers[i].cb = "Request" /\ TimersBecome(SYNC_TIMER_Remove(rt_timers, "Request", rt_timers[i].id))
      BY <1>4 DEF RequestAnswered
    <2>2. /\ rt_timers' = SYNC_TIMER_Remove(rt_timers, "Request", rt_timers[i].id)
          /\ rt_first' = FirstSyncTimerTime(rt_timers')
      BY <2>1 DEF TimersBecome
    <2>3. TimersOK(rt_timers') /\ Len(rt_timers') = Len(rt_timers) - 1 /\ rt_timers'[1] = rt_timers[1]
      BY <1>1, <2>1, <2>2, RemoveGives
    <2>4. rt_at' = 0 /\ rt_at' \in 0..(Len(rt_timers') + 2)
      BY <1>1, <1>4, <2>3 DEF RequestAnswered, TimersOK
    <2> QED
      BY <1>2, <1>4, <2>2, <2>3, <2>4, OthersKeep DEF RequestAnswered
  <1>5. CASE RequestTimer
    <2>1. /\ rt_at \in DOMAIN rt_timers /\ rt_timers[rt_at].cb = "Request" /\ rt_at' = rt_at + 1
          /\ rt_timers' = SYNC_TIMER_Remove(rt_timers, "Request", rt_timers[rt_at].id)
          /\ rt_first' = FirstSyncTimerTime(rt_timers')
      BY <1>5 DEF RequestTimer, Next1, TimersBecome
    <2>2. TimersOK(rt_timers') /\ Len(rt_timers') = Len(rt_timers) - 1 /\ rt_timers'[1] = rt_timers[1]
      BY <1>1, <2>1, RemoveGives
    <2>3. rt_at' \in 0..(Len(rt_timers') + 2)
      BY <1>1, <2>1, <2>2 DEF TimersOK
    <2> QED
      BY <1>2, <1>5, <2>1, <2>2, <2>3, OthersKeep DEF RequestTimer, Next1
  <1> QED
    BY <1>3, <1>4, <1>5

\* What is left to show of an operation that changes the entries.
LEMMA EntriesKeep ==
    ASSUME RetryInv, rt' \in Seq(RetryEntries), TimersOK(rt_timers'), Len(rt_timers') = Len(rt_timers), TimerOfRetries',
           rt_n' \in Nat, \A i \in DOMAIN rt' : rt'[i].id \in 1..rt_n', rt_net' \subseteq 1..rt_n',
           rt_subs' \in [RetrySubs -> {0 - 1, 0, 3}], rt_reqs' = rt_reqs, rt_now' = rt_now,
           rt_at' \in 0..(Len(rt_timers) + 2),
           rt_newest' \in [RetrySubs \X RetryPaths -> [id : Nat, expiry : Nat, tried : BOOLEAN, done : BOOLEAN]],
           Kept(rt', rt_newest', rt_now)
    PROVE  RetryInv'
  <1>1. RetryTypeOK'
    BY DEF RetryInv, RetryTypeOK, TimersOK
  <1> QED
    BY <1>1, InvAfter

\* Entries that are neither marked nor changed are still listed.
LEMMA UnmarkedListed ==
    ASSUME NEW w \in Seq(AnyEntries), NEW x, NEW e, NEW i \in DOMAIN w,
           w[i].sub = x[1], w[i].path = x[2], w[i].id = e.id, w[i].expiry = e.expiry, w[i].sub # 0
    PROVE  Listed(Live(w), x, e)
  <1>1. PICK j \in DOMAIN Live(w) : Live(w)[j] = w[i]
    BY LiveGives
  <1> QED
    BY <1>1 DEF Listed

LEMMA DeleteKeeps == ASSUME RetryInv, DeleteSubscription PROVE RetryInv'
  <1>1. PICK s \in RetrySubs :
           /\ rt_subs' = [rt_subs EXCEPT ![s] = 0 - 1] /\ SUBS_RETRY_Delete(s)
           /\ rt_newest' = [x \in DOMAIN rt_newest |->
                 IF x[1] = s THEN [rt_newest[x] EXCEPT !.done = TRUE] ELSE rt_newest[x]]
    BY DEF DeleteSubscription
  <1> DEFINE w == [i \in DOMAIN rt |-> IF rt[i].sub = s THEN Marked(rt[i]) ELSE rt[i]]
  <1>2. rt \in Seq(RetryEntries) /\ \A i \in DOMAIN rt : rt[i].id \in 1..rt_n
    BY DEF RetryInv, RetryTypeOK
  <1>3. w \in Seq(AnyEntries) /\ DOMAIN w = DOMAIN rt
    BY <1>2, Typed
  <1>4. UpdateFirstRetryTime(Live(w)) /\ Live(w) \in Seq(RetryEntries)
    BY <1>1, <1>3, LiveGives DEF SUBS_RETRY_Delete
  <1>5. rt' = Live(w) /\ TimersOK(rt_timers') /\ Len(rt_timers') = Len(rt_timers) /\ TimerOfRetries'
    BY <1>4, UpdateGives
  <1>6. \A i \in DOMAIN rt : w[i].id = rt[i].id
    BY DEF Marked
  <1>7. \A i \in DOMAIN rt : rt[i].sub # s => w[i] = rt[i] /\ w[i].sub # 0
    BY <1>2, Typed
  <1> HIDE DEF w
  <1>8. \A i \in DOMAIN rt' : rt'[i].id \in 1..rt_n
    BY <1>2, <1>3, <1>5, <1>6, LiveGives
  <1>9. Kept(rt', rt_newest', rt_now)
    <2> SUFFICES ASSUME NEW x \in DOMAIN rt_newest', ~rt_newest'[x].done
                 PROVE  Listed(Live(w), x, rt_newest'[x]) \/ Over(rt_newest'[x], rt_now)
      BY <1>5 DEF Kept
    <2>1. x \in DOMAIN rt_newest /\ x[1] # s /\ rt_newest'[x] = rt_newest[x]
      BY <1>1 DEF RetryInv, RetryTypeOK
    <2>2. CASE Over(rt_newest[x], rt_now)
      BY <2>1, <2>2
    <2>3. CASE Listed(rt, x, rt_newest[x])
      <3>1. PICK i \in DOMAIN rt : /\ rt[i].sub = x[1] /\ rt[i].path = x[2]
                                   /\ rt[i].id = rt_newest[x].id /\ rt[i].expiry = rt_newest[x].expiry
        BY <2>3 DEF Listed
      <3> QED
        BY <1>3, <1>7, <2>1, <3>1, UnmarkedListed
    <2> QED
      BY <2>1, <2>2, <2>3, KeptBefore DEF Kept
  <1>10. /\ rt_newest' \in [RetrySubs \X RetryPaths -> [id : Nat, expiry : Nat, tried : BOOLEAN, done : BOOLEAN]]
         /\ rt_subs' \in [RetrySubs -> {0 - 1, 0, 3}]
    BY <1>1 DEF RetryInv, RetryTypeOK
  <1>11. /\ UNCHANGED <<rt_at, rt_now, rt_cur, rt_net, rt_n, rt_reqs>>
         /\ rt_at \in 0..(Len(rt_timers) + 2) /\ rt_n \in Nat /\ rt_net \subseteq 1..rt_n
    BY DEF DeleteSubscription, RetryInv, RetryTypeOK
  <1> QED
    BY <1>4, <1>5, <1>8, <1>9, <1>10, <1>11, EntriesKeep

LEMMA RespKeeps == ASSUME RetryInv, HandleNotifyResp PROVE RetryInv'
  <1>1. PICK id \in rt_net :
           /\ rt_net' = rt_net \ {id} /\ SUBS_RETRY_Remove(id)
           /\ rt_newest' = [x \in DOMAIN rt_newest |->
                 IF rt_newest[x].id = id THEN [rt_newest[x] EXCEPT !.done = TRUE] ELSE rt_newest[x]]
    BY DEF HandleNotifyResp
  <1> DEFINE S == {i \in DOMAIN rt : rt[i].id = id}
             m == Min(S)
             w == [rt EXCEPT ![m] = Marked(@)]
  <1>2. rt \in Seq(RetryEntries) /\ \A i \in DOMAIN rt : rt[i].id \in 1..rt_n
    BY DEF RetryInv, RetryTypeOK
  <1>3. /\ rt_newest' \in [RetrySubs \X RetryPaths -> [id : Nat, expiry : Nat, tried : BOOLEAN, done : BOOLEAN]]
        /\ rt_net' \subseteq 1..rt_n
    BY <1>1 DEF RetryInv, RetryTypeOK
  <1>4. /\ UNCHANGED <<rt_subs, rt_at, rt_now, rt_cur, rt_n, rt_reqs>>
        /\ rt_at \in 0..(Len(rt_timers) + 2) /\ rt_n \in Nat /\ rt_subs \in [RetrySubs -> {0 - 1, 0, 3}]
    BY DEF HandleNotifyResp, RetryInv, RetryTypeOK
  <1>5. \A x \in DOMAIN rt_newest' : ~rt_newest'[x].done =>
           x \in DOMAIN rt_newest /\ rt_newest[x].id # id /\ rt_newest'[x] = rt_newest[x]
    BY <1>1 DEF RetryInv, RetryTypeOK
  <1>6. CASE S = {}
    <2>1. UNCHANGED <<rt, rt_timers, rt_first>>
      BY <1>1, <1>6 DEF SUBS_RETRY_Remove
    <2>2. TimersOK(rt_timers') /\ TimerOfRetries'
      BY <2>1, TimersAre DEF RetryInv, TimerOfRetries
    <2>3. Kept(rt', rt_newest', rt_now)
      BY <1>5, <2>1, KeptBefore DEF Kept
    <2> QED
      BY <1>2, <1>3, <1>4, <2>1, <2>2, <2>3, EntriesKeep
  <1>7. CASE S # {}
    <2>1. UpdateFirstRetryTime(Live(w))
      BY <1>1, <1>7 DEF SUBS_RETRY_Remove
    <2>2. m \in DOMAIN rt /\ rt[m].id = id
      <3>1. S \subseteq Nat
        BY <1>2
      <3> QED
        BY <1>7, <3>1, LeastTime
    <2> HIDE DEF m
    <2>3. /\ w \in Seq(AnyEntries) /\ DOMAIN w = DOMAIN rt
          /\ w[m] = Marked(rt[m]) /\ \A i \in DOMAIN rt : i # m => w[i] = rt[i]
      <3>1. w = [i \in DOMAIN rt |-> IF i = m THEN Marked(rt[i]) ELSE rt[i]]
        BY <2>2
      <3> HIDE DEF w
      <3>2. \A i \in DOMAIN rt : w[i] \in AnyEntries
        BY <1>2, <3>1, Typed
      <3>3. DOMAIN w = 1..Len(rt) /\ DOMAIN rt = 1..Len(rt) /\ Len(rt) \in Nat
        BY <1>2, <3>1
      <3>4. w \in Seq(AnyEntries)
        BY <3>1, <3>2, <3>3
      <3> QED
        BY <2>2, <3>1, <3>3, <3>4
    <2>4. \A i \in DOMAIN rt : w[i].id = rt[i].id
      BY <2>3 DEF Marked
    <2>5. \A i \in DOMAIN rt : rt[i].id # id => w[i] = rt[i] /\ w[i].sub # 0
      BY <1>2, <2>2, <2>3, Typed
    <2> HIDE DEF w
    <2>6. Live(w) \in Seq(RetryEntries)
      BY <2>3, LiveGives
    <2>7. rt' = Live(w) /\ TimersOK(rt_timers') /\ Len(rt_timers') = Len(rt_timers) /\ TimerOfRetries'
      BY <2>1, <2>6, UpdateGives
    <2>8. \A i \in DOMAIN rt' : rt'[i].id \in 1..rt_n
      BY <1>2, <2>3, <2>4, <2>7, LiveGives, SMTT(30)
    <2>9. Kept(rt', rt_newest', rt_now)
      <3> SUFFICES ASSUME NEW x \in DOMAIN rt_newest', ~rt_newest'[x].done, ~Over(rt_newest'[x], rt_now)
                   PROVE  Listed(Live(w), x, rt_newest'[x])
        BY <2>7 DEF Kept
      <3>1. x \in DOMAIN rt_newest /\ rt_newest[x].id # id /\ rt_newest'[x] = rt_newest[x]
        BY <1>5
      <3>2. Listed(rt, x, rt_newest[x])
        BY <3>1, KeptBefore DEF Kept
      <3>3. PICK i \in DOMAIN rt : /\ rt[i].sub = x[1] /\ rt[i].path = x[2]
                                   /\ rt[i].id = rt_newest[x].id /\ rt[i].expiry = rt_newest[x].expiry
        BY <3>2 DEF Listed
      <3> QED
        BY <2>3, <2>5, <3>1, <3>3, UnmarkedListed
    <2> QED
      BY <1>3, <1>4, <2>6, <2>7, <2>8, <2>9, EntriesKeep
  <1> QED
    BY <1>6, <1>7

\* A wait is at most 1023 seconds, whatever the number of the retry.
LEMMA WaitBound ==
    ASSUME NEW c \in Nat, NEW d \in RETRY_WAIT_Calculate(c)
    PROVE  d \in Nat /\ d <= 1023
  <1>1. 10 < c \/ c = 0 \/ c = 1 \/ c = 2 \/ c = 3 \/ c = 4 \/ c = 5 \/ c = 6 \/ c = 7 \/ c = 8 \/ c = 9 \/ c = 10
    OBVIOUS
  <1> DEFINE power == <<1, 2, 4, 8, 16, 32, 64, 128, 256, 512, 1024>>
             k == IF c > 10 THEN 10 ELSE IF c <= 0 THEN 1 ELSE c
  <1>2. k \in 1..10
    BY <1>1
  <1> HIDE DEF k
  <1>3. power[k] \in 0..1023 /\ power[k + 1] \in 0..1024
    BY <1>2
  <1>4. RETRY_WAIT_Calculate(c) = power[k]..(power[k + 1] - 1)
    BY SMTT(30) DEF RETRY_WAIT_Calculate, k
  <1> DEFINE low == power[k]
             high == power[k + 1]
  <1>5. low \in 0..1023 /\ high \in 0..1024 /\ RETRY_WAIT_Calculate(c) = low..(high - 1)
    BY <1>3, <1>4
  <1> HIDE DEF low, high
  <1>6. d \in low..(high - 1)
    BY <1>5
  <1> QED
    BY <1>5, <1>6

LEMMA SendNotifyKeeps == ASSUME RetryInv, SendNotify PROVE RetryInv'
  <1> DEFINE n == rt_n + 1
             expiryOf(s) == IF rt_subs[s] = 0 THEN END_OF_TIME ELSE rt_now + rt_subs[s]
  <1>1. PICK s \in RetrySubs, p \in RetryPaths, wait \in RETRY_WAIT_Calculate(1) :
           /\ Exists(s) /\ SUBS_RETRY_Add(s, p, n, expiryOf(s), wait)
           /\ rt_newest' = [rt_newest EXCEPT ![<<s, p>>] =
                 [id |-> n, expiry |-> expiryOf(s), tried |-> FALSE, done |-> FALSE]]
    BY DEF SendNotify
  <1>2. /\ UNCHANGED <<rt_subs, rt_at, rt_now, rt_cur, rt_reqs>> /\ rt_n' = n /\ rt_net' = rt_net \cup {n}
        /\ rt_at \in 0..(Len(rt_timers) + 2)
    BY DEF SendNotify, RetryInv, RetryTypeOK
  <1>3. /\ rt \in Seq(RetryEntries) /\ \A i \in DOMAIN rt : rt[i].id \in 1..rt_n
        /\ rt_subs \in [RetrySubs -> {0 - 1, 0, 3}] /\ rt_n \in Nat /\ rt_net \subseteq 1..rt_n
        /\ rt_now \in 0..EndOfRun /\ EndOfRun \in Nat
        /\ rt_newest \in [RetrySubs \X RetryPaths -> [id : Nat, expiry : Nat, tried : BOOLEAN, done : BOOLEAN]]
    BY DEF RetryInv, RetryTypeOK
  <1> DEFINE expiry == expiryOf(s)
             x0 == <<s, p>>
             new == [id |-> n, expiry |-> expiry, tried |-> FALSE, done |-> FALSE]
             e == [sub |-> s, path |-> p, id |-> n, expiry |-> expiry, count |-> 1, next |-> rt_now + wait]
             f == Find(rt, s, p)
             v == IF f = {} THEN Append(rt, e) ELSE [rt EXCEPT ![Min(f)] = e]
  <1>4. expiry \in Nat
    <2>1. rt_subs[s] \in {0, 3}
      BY <1>1, <1>3 DEF Exists
    <2> QED
      BY <1>3, <2>1 DEF END_OF_TIME
  <1>5. wait \in 0..1023
    <2> DEFINE c == 1
    <2>1. c \in Nat /\ wait \in RETRY_WAIT_Calculate(c)
      OBVIOUS
    <2> HIDE DEF c
    <2>2. wait \in Nat /\ wait <= 1023
      BY <2>1, WaitBound
    <2> QED
      BY <2>2
  <1>6. UpdateFirstRetryTime(v)
    BY <1>1 DEF SUBS_RETRY_Add
  <1> HIDE DEF expiry
  <1>7. e \in RetryEntries
    <2>0. rt_now \in 0..EndOfRun /\ EndOfRun \in Nat /\ rt_n \in Nat
      BY <1>3
    <2>1. rt_now + wait \in 0..(EndOfRun + 1023) /\ n \in Nat /\ 1 \in Nat
      BY <1>5, <2>0
    <2> QED
      BY <1>4, <2>1 DEF RetryEntries
  <1>8. e.sub = s /\ e.path = p /\ e.id = n /\ e.expiry = expiry
    OBVIOUS
  <1> HIDE DEF e
  <1>9. /\ v \in Seq(RetryEntries) /\ \E i \in DOMAIN v : v[i] = e
        /\ \A i \in DOMAIN v : v[i] = e \/ (i \in DOMAIN rt /\ v[i] = rt[i])
        /\ \A i \in DOMAIN rt : i \in DOMAIN v /\ (v[i] = rt[i] \/ (rt[i].sub = s /\ rt[i].path = p))
    <2>1. CASE f = {}
      <3>1. v = Append(rt, e)
        BY <2>1
      <3>2. /\ Append(rt, e) \in Seq(RetryEntries) /\ Len(Append(rt, e)) = Len(rt) + 1 /\ Len(rt) \in Nat
            /\ Append(rt, e)[Len(rt) + 1] = e /\ \A i \in 1..Len(rt) : Append(rt, e)[i] = rt[i]
        BY <1>3, <1>7
      <3>3. DOMAIN v = 1..(Len(rt) + 1) /\ DOMAIN rt = 1..Len(rt)
        BY <1>3, <3>1, <3>2
      <3> HIDE DEF v
      <3>4. v \in Seq(RetryEntries) /\ Len(rt) + 1 \in DOMAIN v /\ v[Len(rt) + 1] = e
        BY <3>1, <3>2, <3>3
      <3>5. \A i \in DOMAIN v : i = Len(rt) + 1 \/ i \in DOMAIN rt
        BY <3>2, <3>3
      <3>6. \A i \in DOMAIN rt : i \in DOMAIN v /\ v[i] = rt[i]
        BY <3>1, <3>2, <3>3
      <3> QED
        BY <3>4, <3>5, <3>6
    <2>2. CASE f # {}
      <3> DEFINE m == Min(f)
      <3>1. f \subseteq Nat
        BY <1>3 DEF Find
      <3>2. m \in DOMAIN rt /\ rt[m].sub = s /\ rt[m].path = p
        BY <2>2, <3>1, LeastTime DEF Find
      <3>3. v = [rt EXCEPT ![m] = e]
        BY <2>2
      <3> HIDE DEF m, v
      <3>4. v = [i \in DOMAIN rt |-> IF i = m THEN e ELSE rt[i]]
        BY <3>2, <3>3
      <3>5. v \in Seq(RetryEntries)
        BY <1>3, <1>7, <3>4, SMTT(30)
      <3> QED
        BY <3>2, <3>4, <3>5
    <2> QED
      BY <2>1, <2>2
  <1> HIDE DEF v
  <1>10. rt' = v /\ TimersOK(rt_timers') /\ Len(rt_timers') = Len(rt_timers) /\ TimerOfRetries'
    BY <1>6, <1>9, UpdateGives
  <1>11. x0 \in RetrySubs \X RetryPaths /\ x0[1] = s /\ x0[2] = p
    OBVIOUS
  <1>12. rt_newest' = [rt_newest EXCEPT ![x0] = new]
    BY <1>1 DEF expiry
  <1>13. new \in [id : Nat, expiry : Nat, tried : BOOLEAN, done : BOOLEAN] /\ new.id = n /\ new.expiry = expiry
    BY <1>3, <1>4
  <1> HIDE DEF x0, new
  <1>14. /\ rt_newest' \in [RetrySubs \X RetryPaths -> [id : Nat, expiry : Nat, tried : BOOLEAN, done : BOOLEAN]]
         /\ rt_newest'[x0] = new /\ \A x \in DOMAIN rt_newest : x # x0 => rt_newest'[x] = rt_newest[x]
         /\ DOMAIN rt_newest' = DOMAIN rt_newest
    BY <1>3, <1>11, <1>12, <1>13
  <1>15. Kept(rt', rt_newest', rt_now)
    <2> SUFFICES ASSUME NEW x \in DOMAIN rt_newest', ~rt_newest'[x].done, ~Over(rt_newest'[x], rt_now)
                 PROVE  Listed(v, x, rt_newest'[x])
      BY <1>10 DEF Kept
    <2>1. CASE x = x0
      <3>1. PICK i \in DOMAIN v : v[i] = e
        BY <1>9
      <3> QED
        BY <1>8, <1>11, <1>13, <1>14, <2>1, <3>1 DEF Listed
    <2>2. CASE x # x0
      <3>1. x \in DOMAIN rt_newest /\ rt_newest'[x] = rt_newest[x]
        BY <1>14, <2>2
      <3>2. PICK i \in DOMAIN rt : /\ rt[i].sub = x[1] /\ rt[i].path = x[2]
                                   /\ rt[i].id = rt_newest[x].id /\ rt[i].expiry = rt_newest[x].expiry
        BY <3>1, KeptBefore DEF Kept, Listed
      <3>3. ~(x[1] = s /\ x[2] = p)
        <4>1. x \in RetrySubs \X RetryPaths
          BY <1>3, <3>1
        <4> QED
          BY <2>2, <4>1 DEF x0
      <3>4. i \in DOMAIN v /\ v[i] = rt[i]
        BY <1>9, <3>2, <3>3
      <3> QED
        BY <3>1, <3>2, <3>4 DEF Listed
    <2> QED
      BY <2>1, <2>2
  <1>16. \A i \in DOMAIN rt' : rt'[i].id \in 1..rt_n'
    <2> SUFFICES ASSUME NEW i \in DOMAIN v PROVE v[i].id \in 1..n
      BY <1>2, <1>10
    <2>1. CASE v[i] = e
      BY <1>3, <1>8, <2>1
    <2>2. CASE i \in DOMAIN rt /\ v[i] = rt[i]
      BY <1>3, <2>2
    <2> QED
      BY <1>9, <2>1, <2>2
  <1>17. rt_n' \in Nat /\ rt_net' \subseteq 1..rt_n'
    BY <1>2, <1>3
  <1> QED
    BY <1>2, <1>3, <1>9, <1>10, <1>14, <1>15, <1>16, <1>17, EntriesKeep

\* What SubsRetryExec makes of an entry: the same notification, or one that is over.
LEMMA RetriedGives ==
    ASSUME NEW e \in RetryEntries, NEW d \in 0..1023, rt_now \in 0..EndOfRun
    PROVE  LET r == Retried(e, d) IN
           /\ r \in AnyEntries /\ r.id = e.id
           /\ r.sub # 0 => r.sub = e.sub /\ r.path = e.path /\ r.expiry = e.expiry
           /\ r.sub = 0 => /\ e.expiry # END_OF_TIME
                           /\ rt_now >= e.expiry \/ (rt_now < e.expiry /\ rt_now >= e.next)
  <1> DEFINE f == [e EXCEPT !.count = @ + 1, !.next = rt_now + d]
             r == Retried(e, d)
  <1>1. /\ e.sub \in RetrySubs /\ e.count \in Nat /\ e.expiry \in Nat /\ e.next \in Nat
        /\ e \in AnyEntries /\ Marked(e) \in AnyEntries
    BY TypedEntry DEF RetryEntries
  <1>2. e.sub # 0
    BY TypedEntry
  <1>3. rt_now + d \in 0..(EndOfRun + 1023) /\ rt_now + d < END_OF_TIME /\ rt_now < END_OF_TIME
    BY SMTT(30) DEF END_OF_TIME
  <1>4. /\ f \in RetryEntries /\ f.sub = e.sub /\ f.path = e.path /\ f.id = e.id /\ f.expiry = e.expiry
        /\ f.next = rt_now + d
    <2> DEFINE c == e.count + 1
               n == rt_now + d
    <2>1. c \in Nat /\ n \in 0..(EndOfRun + 1023)
      BY <1>1, <1>3
    <2>2. f = [e EXCEPT !.count = c, !.next = n]
      BY <1>1
    <2> HIDE DEF c, n, f
    <2>3. f = [sub |-> e.sub, path |-> e.path, id |-> e.id, expiry |-> e.expiry, count |-> c, next |-> n]
      BY <2>2, ZenonT(60) DEF RetryEntries
    <2>4. f \in RetryEntries
      BY <2>1, <2>3 DEF RetryEntries
    <2> QED
      BY <2>3, <2>4 DEF n
  <1> HIDE DEF f
  <1>5. /\ f \in AnyEntries /\ Marked(f) \in AnyEntries /\ Marked(f).sub = 0 /\ Marked(f).id = f.id
        /\ Marked(e).sub = 0 /\ Marked(e).id = e.id
    BY <1>4, TypedEntry
  <1>6. CASE rt_now >= e.expiry
    <2>1. r = Marked(e)
      BY <1>1, <1>6 DEF Retried
    <2> QED
      BY <1>1, <1>3, <1>5, <1>6, <2>1
  <1>7. CASE rt_now < e.expiry /\ rt_now < e.next
    <2>1. r = e
      BY <1>1, <1>7 DEF Retried
    <2> QED
      BY <1>1, <1>2, <2>1
  <1>8. CASE rt_now < e.expiry /\ rt_now >= e.next
    <2>1. r = IF f.next >= f.expiry THEN Marked(f) ELSE f
      BY <1>1, <1>8 DEF Retried, f
    <2>2. CASE f.next >= f.expiry
      BY <1>1, <1>3, <1>4, <1>5, <1>8, <2>1, <2>2
    <2>3. CASE ~(f.next >= f.expiry)
      BY <1>2, <1>4, <1>5, <2>1, <2>3
    <2> QED
      BY <2>2, <2>3
  <1> QED
    BY <1>1, <1>6, <1>7, <1>8

LEMMA ExecKeeps == ASSUME RetryInv, RetryTimer PROVE RetryInv'
  <1> DEFINE again == {rt[i].id : i \in {j \in DOMAIN rt : rt_now < rt[j].expiry /\ rt_now >= rt[j].next}}
  <1>1. PICK wait : /\ \A i \in DOMAIN rt : wait[i] \in RETRY_WAIT_Calculate(rt[i].count + 1)
                    /\ SubsRetryExec(wait)
    BY DEF RetryTimer
  <1> DEFINE w == [i \in DOMAIN rt |-> Retried(rt[i], wait[i])]
  <1>2. /\ rt \in Seq(RetryEntries) /\ \A i \in DOMAIN rt : rt[i].id \in 1..rt_n
        /\ rt_n \in Nat /\ rt_net \subseteq 1..rt_n /\ rt_now \in 0..EndOfRun /\ EndOfRun \in Nat
        /\ rt_subs \in [RetrySubs -> {0 - 1, 0, 3}]
        /\ rt_newest \in [RetrySubs \X RetryPaths -> [id : Nat, expiry : Nat, tried : BOOLEAN, done : BOOLEAN]]
    BY DEF RetryInv, RetryTypeOK
  <1>3. /\ UNCHANGED <<rt_subs, rt_now, rt_cur, rt_n, rt_reqs>> /\ rt_at' \in 0..(Len(rt_timers) + 2)
        /\ rt_net' = rt_net \cup again
        /\ rt_newest' = [x \in DOMAIN rt_newest |->
              [rt_newest[x] EXCEPT !.tried = @ \/ rt_newest[x].id \in again]]
    <2>1. rt_at \in 1..Len(rt_timers) /\ Len(rt_timers) \in Nat /\ rt_at' = rt_at + 1
      BY DEF RetryTimer, Next1, RetryInv, RetryTypeOK
    <2>2. rt_at' \in 0..(Len(rt_timers) + 2)
      BY <2>1
    <2> QED
      BY <2>2 DEF RetryTimer, Next1
  <1>4. \A i \in DOMAIN rt :
           /\ w[i] \in AnyEntries /\ w[i].id = rt[i].id
           /\ w[i].sub # 0 => w[i].sub = rt[i].sub /\ w[i].path = rt[i].path /\ w[i].expiry = rt[i].expiry
           /\ w[i].sub = 0 => /\ rt[i].expiry # END_OF_TIME
                              /\ rt_now >= rt[i].expiry \/ (rt_now < rt[i].expiry /\ rt_now >= rt[i].next)
    <2> TAKE i \in DOMAIN rt
    <2>1. rt[i] \in RetryEntries
      BY <1>2
    <2>2. wait[i] \in 0..1023
      <3> DEFINE c == rt[i].count + 1
      <3>1. c \in Nat
        BY <2>1 DEF RetryEntries
      <3>2. wait[i] \in RETRY_WAIT_Calculate(c)
        BY <1>1
      <3> HIDE DEF c
      <3>3. wait[i] \in Nat /\ wait[i] <= 1023
        BY <3>1, <3>2, WaitBound
      <3> QED
        BY <3>3, SMTT(30)
    <2>3. rt_now \in 0..EndOfRun
      BY <1>2
    <2>4. w[i] = Retried(rt[i], wait[i])
      OBVIOUS
    <2> HIDE DEF w
    <2> DEFINE e == rt[i]
               d == wait[i]
               z == Retried(e, d)
    <2>5. w[i] = z /\ e \in RetryEntries /\ d \in 0..1023
      BY <2>1, <2>2, <2>4
    <2> HIDE DEF e, d
    <2>6. /\ z \in AnyEntries /\ z.id = e.id
          /\ z.sub # 0 => z.sub = e.sub /\ z.path = e.path /\ z.expiry = e.expiry
          /\ z.sub = 0 => /\ e.expiry # END_OF_TIME
                          /\ rt_now >= e.expiry \/ (rt_now < e.expiry /\ rt_now >= e.next)
      BY <2>3, <2>5, RetriedGives, ZenonT(60)
    <2> HIDE DEF z
    <2> QED
      BY <2>5, <2>6 DEF e
  <1>5. UpdateFirstRetryTime(Live(w))
    BY <1>1 DEF SubsRetryExec
  <1>6. DOMAIN w = DOMAIN rt
    OBVIOUS
  <1>7. w \in Seq(AnyEntries)
    BY <1>2, <1>4
  <1> HIDE DEF w
  <1>8. Live(w) \in Seq(RetryEntries)
    BY <1>7, LiveGives
  <1>9. rt' = Live(w) /\ TimersOK(rt_timers') /\ Len(rt_timers') = Len(rt_timers) /\ TimerOfRetries'
    BY <1>5, <1>8, UpdateGives
  <1>10. \A i \in DOMAIN rt' : rt'[i].id \in 1..rt_n
    BY <1>2, <1>4, <1>6, <1>7, <1>9, LiveGives
  <1>11. again \subseteq 1..rt_n
    BY <1>2
  <1>12. \A j \in DOMAIN rt : rt_now < rt[j].expiry /\ rt_now >= rt[j].next => rt[j].id \in again
    OBVIOUS
  <1> HIDE DEF again
  <1>13. /\ rt_newest' \in [RetrySubs \X RetryPaths -> [id : Nat, expiry : Nat, tried : BOOLEAN, done : BOOLEAN]]
         /\ rt_net' \subseteq 1..rt_n
    BY <1>2, <1>3, <1>11
  <1>14. Kept(rt', rt_newest', rt_now)
    <2> SUFFICES ASSUME NEW x \in DOMAIN rt_newest', ~rt_newest'[x].done
                 PROVE  Listed(Live(w), x, rt_newest'[x]) \/ Over(rt_newest'[x], rt_now)
      BY <1>9 DEF Kept
    <2> DEFINE o == rt_newest[x]
               p == rt_newest'[x]
    <2>1. /\ x \in DOMAIN rt_newest /\ ~o.done /\ p.id = o.id /\ p.expiry = o.expiry
          /\ (o.tried => p.tried) /\ (o.id \in again => p.tried)
      BY <1>2, <1>3
    <2> HIDE DEF o, p
    <2>2. Listed(rt, x, o) \/ Over(o, rt_now)
      BY <2>1, KeptBefore DEF Kept, o
    <2>3. CASE Over(o, rt_now)
      BY <2>1, <2>3 DEF Over, p
    <2>4. CASE Listed(rt, x, o)
      <3>1. PICK i \in DOMAIN rt : /\ rt[i].sub = x[1] /\ rt[i].path = x[2]
                                   /\ rt[i].id = o.id /\ rt[i].expiry = o.expiry
        BY <2>4 DEF Listed
      <3>2. CASE w[i].sub # 0
        BY <1>4, <1>6, <1>7, <2>1, <3>1, <3>2, UnmarkedListed DEF p
      <3>3. CASE w[i].sub = 0
        BY <1>4, <1>12, <2>1, <3>1, <3>3 DEF Over, p
      <3> QED
        BY <3>2, <3>3
    <2> QED
      BY <2>2, <2>3, <2>4
  <1> QED
    BY <1>2, <1>3, <1>8, <1>9, <1>10, <1>13, <1>14, EntriesKeep

-----------------------------------------------------------------------------
LEMMA RetryStarts == ASSUME RetryInit PROVE RetryInv
  <1>1. Timer("SubsRetryExec", 0, END_OF_TIME) \in RetryTimers
    BY DEF Timer, RetryTimers, END_OF_TIME
  <1> DEFINE t == Timer("SubsRetryExec", 0, END_OF_TIME)
  <1>2. t.cb = "SubsRetryExec" /\ t.id = 0 /\ t.next = END_OF_TIME /\ t.enabled
    BY DEF Timer
  <1> HIDE DEF t
  <1>3. rt_timers = <<t>> /\ rt = <<>> /\ rt_first = END_OF_TIME /\ t \in RetryTimers
    BY <1>1 DEF RetryInit, t
  <1>4. FirstSyncTimerTime(rt_timers) = END_OF_TIME
    <2> DEFINE S == {END_OF_TIME} \cup {rt_timers[i].next : i \in {j \in DOMAIN rt_timers : rt_timers[j].enabled}}
    <2>1. S = {END_OF_TIME}
      BY <1>2, <1>3
    <2>2. Min(S) \in S
      BY <2>1, LeastTime DEF END_OF_TIME
    <2> QED
      BY <2>1, <2>2 DEF FirstSyncTimerTime
  <1>5. TimerOfRetries
    BY <1>2, <1>3, <1>4 DEF TimerOfRetries
  <1>6. RetryTypeOK
    <2>1. rt \in Seq(RetryEntries) /\ rt_timers \in Seq(RetryTimers) /\ DOMAIN rt = {}
      BY <1>3
    <2> QED
      BY <1>3, <2>1 DEF RetryInit, RetryTypeOK
  <1>7. StillRetried
    BY DEF RetryInit, StillRetried
  <1> QED
    BY <1>5, <1>6, <1>7 DEF RetryInv

\* A notification that nobody answered has an entry whose next try is not before the time that the DM thread waits
\* for, or its time is over, or no further try fits in it: for any subscriptions, paths, notifications and timers,
\* and with answers to notifications that a newer one replaced (SUBS_RETRY_Add, SUBS_RETRY_Remove, SubsRetryExec,
\* SYNC_TIMER_Execute).
THEOREM NotificationsRetried == RetrySpec => []RetryInv
  <1>1. RetryInit => RetryInv
    BY RetryStarts
  <1>2. RetryInv /\ [RetryNext]_rtVars => RetryInv'
    BY QuietKeep, RequestsKeep, DeleteKeeps, SendNotifyKeeps, RespKeeps, ExecKeeps DEF RetryNext
  <1> QED
    BY <1>1, <1>2, PTL DEF RetrySpec

-----------------------------------------------------------------------------
(* Challenge. *)

USE ChallengeAssumption

-----------------------------------------------------------------------------
(* One lemma per operation.                                                *)

\* An entry of controller_challenges[] that is written keeps the table typed.
LEMMA SlotUpdate ==
    ASSUME NEW T, NEW s \in [SlotNos -> T], NEW i \in SlotNos, NEW v \in T
    PROVE  [s EXCEPT ![i] = v] \in [SlotNos -> T]
  OBVIOUS

LEMMA FreeSlotType ==
    FreeSlot \in [who : Askers \cup {"none"}, id : 0..MaxChallengeIds, ref : ChallengeRefs \cup {0},
                  expiration : Expirations \cup {0}, expires : Nat]
  BY DEF FreeSlot

LEMMA FitIsSlot ==
    ASSUME NEW e, NEW r
    PROVE  FindAvailableControllerChallenge(e, r) \subseteq SlotNos
  BY DEF FindAvailableControllerChallenge, FindControllerChallengeByEndpointId, FirstFree

LEMMA RequestKeeps ==
    ASSUME ChallengeInv, NEW e \in Askers, NEW r \in ChallengeRefs, NEW x \in Expirations,
           RequestChallenge(e, r, x)
    PROVE  ChallengeInv'
  <1> DEFINE fit == FindAvailableControllerChallenge(e, r)
  <1>1. UNCHANGED <<now, askers, refs, guesses, wrong>> /\ granted' = 0 /\ nullSlot' \in BOOLEAN
    BY DEF RequestChallenge
  <1>2. CASE fit = {}
    <2>1. UNCHANGED <<given, slot>>
      BY <1>2 DEF RequestChallenge
    <2> QED
      BY <1>1, <2>1 DEF ChallengeInv, ChTypeOK, WrongsCounted
  <1>3. CASE fit # {}
    <2>1. PICK i \in fit : TRUE
      BY <1>3
    <2> DEFINE kept == slot[i].who = e /\ ~ExpiredForRequest(slot[i])
               new == [who |-> e, id |-> IF kept THEN slot[i].id ELSE given + 1, ref |-> r,
                       expiration |-> x, expires |-> now + x]
    <2>2. /\ i \in SlotNos
          /\ ~kept => given < MaxChallengeIds
          /\ given' = IF kept THEN given ELSE given + 1
          /\ slot' = [slot EXCEPT ![i] = new]
      BY <2>1, FitIsSlot DEF RequestChallenge
    <2>3. given' \in 0..MaxChallengeIds
      BY <2>2 DEF ChallengeInv, ChTypeOK
    <2>4. new \in [who : Askers \cup {"none"}, id : 0..MaxChallengeIds, ref : ChallengeRefs \cup {0},
                   expiration : Expirations \cup {0}, expires : Nat]
      <3>1. (IF kept THEN slot[i].id ELSE given + 1) \in 0..MaxChallengeIds
        BY <2>2 DEF ChallengeInv, ChTypeOK
      <3>2. now + x \in Nat
        BY DEF ChallengeInv, ChTypeOK
      <3> QED
        BY <3>1, <3>2
    <2> HIDE DEF new, kept, fit
    <2>5. slot' \in [SlotNos -> [who : Askers \cup {"none"}, id : 0..MaxChallengeIds,
                                 ref : ChallengeRefs \cup {0}, expiration : Expirations \cup {0}, expires : Nat]]
      BY <2>2, <2>4, SlotUpdate DEF ChallengeInv, ChTypeOK
    <2> QED
      BY <1>1, <2>3, <2>5 DEF ChallengeInv, ChTypeOK, WrongsCounted
  <1> QED
    BY <1>2, <1>3

LEMMA WithoutChallengeKeeps ==
    ASSUME ChallengeInv, NEW e \in Askers, ResponseWithoutChallenge(e)
    PROVE  ChallengeInv'
  <1>1. PICK i \in SlotNos : slot' = [slot EXCEPT ![i] = FreeSlot]
    BY DEF ResponseWithoutChallenge
  <1> QED
    BY <1>1, FreeSlotType, SlotUpdate
       DEF ResponseWithoutChallenge, ChallengeInv, ChTypeOK, WrongsCounted

\* A wrong answer is counted, and the one that makes Retries of them locks the
\* challenge from now on.
LEMMA WrongKeeps ==
    ASSUME ChallengeInv, NEW e \in Askers, WrongResponse(e)
    PROVE  ChallengeInv'
  <1>1. PICK r \in ChallengeRefs :
            /\ guesses' = [guesses EXCEPT ![r] = WrongAnswer(r)]
            /\ wrong' = [wrong EXCEPT ![r] = [n |-> @.n + 1, last |-> now]]
    BY DEF WrongResponse, ChallengeInv, ChTypeOK
  <1>2. guesses[r] \in [retries : Nat, locked : Nat] /\ wrong[r] \in [n : Nat, last : Nat]
            /\ now \in Nat /\ guesses[r].retries = wrong[r].n
    BY DEF ChallengeInv, ChTypeOK, WrongsCounted
  <1>3. WrongAnswer(r) \in [retries : Nat, locked : Nat]
            /\ [n |-> wrong[r].n + 1, last |-> now] \in [n : Nat, last : Nat]
    BY <1>2 DEF WrongAnswer
  <1>4. guesses' \in [ChallengeRefs -> [retries : Nat, locked : Nat]]
            /\ wrong' \in [ChallengeRefs -> [n : Nat, last : Nat]]
    BY <1>1, <1>3 DEF ChallengeInv, ChTypeOK
  <1>5. WrongsCounted'
    <2> SUFFICES ASSUME NEW s \in ChallengeRefs
                 PROVE  /\ guesses'[s].retries = wrong'[s].n
                        /\ wrong'[s].n >= Retries /\ Retries > 0 /\ Lockout > 0
                                => guesses'[s].locked = wrong'[s].last + Lockout
      BY DEF WrongsCounted
    <2>1. CASE s = r
      BY <1>1, <1>2, <2>1 DEF WrongAnswer, ChallengeInv, ChTypeOK
    <2>2. CASE s # r
      BY <1>1, <2>2 DEF ChallengeInv, ChTypeOK, WrongsCounted
    <2> QED
      BY <2>1, <2>2
  <1> QED
    BY <1>4, <1>5 DEF WrongResponse, ChallengeInv, ChTypeOK

LEMMA RightKeeps ==
    ASSUME ChallengeInv, NEW e \in Askers, RightResponse(e)
    PROVE  ChallengeInv'
  <1>1. PICK i \in SlotNos, r \in ChallengeRefs :
            /\ guesses' = [guesses EXCEPT ![r] = [retries |-> 0, locked |-> 0]]
            /\ wrong' = [wrong EXCEPT ![r] = NoneWrong]
            /\ slot' = [slot EXCEPT ![i] = FreeSlot]
            /\ granted' = r
    BY DEF RightResponse, ChallengeInv, ChTypeOK
  <1>2. slot' \in [SlotNos -> [who : Askers \cup {"none"}, id : 0..MaxChallengeIds,
                               ref : ChallengeRefs \cup {0}, expiration : Expirations \cup {0}, expires : Nat]]
    BY <1>1, FreeSlotType, SlotUpdate DEF ChallengeInv, ChTypeOK
  <1>3. WrongsCounted'
    BY <1>1 DEF ChallengeInv, ChTypeOK, WrongsCounted, NoneWrong
  <1>4. guesses' \in [ChallengeRefs -> [retries : Nat, locked : Nat]]
            /\ wrong' \in [ChallengeRefs -> [n : Nat, last : Nat]]
    BY <1>1 DEF ChallengeInv, ChTypeOK, NoneWrong
  <1> QED
    BY <1>1, <1>2, <1>3, <1>4 DEF RightResponse, ChallengeInv, ChTypeOK

\* Nothing that happens to the tables, and no passing of time, touches the
\* counters.
LEMMA TablesKeep ==
    ASSUME ChallengeInv,
           \/ Tick
           \/ \E e \in Askers : AddAsker(e) \/ DeleteAsker(e)
           \/ \E r \in ChallengeRefs : DeleteChallenge(r)
    PROVE  ChallengeInv'
  BY DEF Tick, AddAsker, DeleteAsker, DeleteChallenge, ChallengeInv, ChTypeOK, WrongsCounted

LEMMA ChallengeStepKeeps == ChallengeInv /\ [ChNext]_chVars => ChallengeInv'
  <1> SUFFICES ASSUME ChallengeInv, [ChNext]_chVars
               PROVE  ChallengeInv'
    OBVIOUS
  <1>1. CASE UNCHANGED chVars
    BY <1>1 DEF ChallengeInv, ChTypeOK, WrongsCounted, chVars
  <1> QED
    BY <1>1, RequestKeeps, WithoutChallengeKeeps, WrongKeeps, RightKeeps, TablesKeep DEF ChNext

-----------------------------------------------------------------------------
(* The theorems.                                                           *)

\* challenge_table[] counts the wrong answers to a challenge exactly, whoever
\* gave them, and remembers when the last of too many came.
THEOREM ChallengeInvariant == ChSpec => []ChallengeInv
  <1>1. ChInit => ChallengeInv
    <2> SUFFICES ASSUME ChInit PROVE ChallengeInv
      OBVIOUS
    <2>0. askers \subseteq Askers
      <3>1. askers \in {a \in SUBSET Askers : Cardinality(a) = ChallengeSlots}
        BY DEF ChInit
      <3> QED
        BY <3>1
    <2>1. /\ now \in Nat /\ refs \subseteq ChallengeRefs
          /\ given \in 0..MaxChallengeIds /\ granted \in ChallengeRefs \cup {0}
      BY DEF ChInit
    <2>2. slot \in [SlotNos -> [who : Askers \cup {"none"}, id : 0..MaxChallengeIds,
                                ref : ChallengeRefs \cup {0}, expiration : Expirations \cup {0}, expires : Nat]]
      BY FreeSlotType DEF ChInit
    <2>3. /\ guesses \in [ChallengeRefs -> [retries : Nat, locked : Nat]]
          /\ wrong \in [ChallengeRefs -> [n : Nat, last : Nat]]
          /\ WrongsCounted
      BY DEF ChInit, NoneWrong, WrongsCounted
    <2>4. nullSlot \in BOOLEAN
      BY Zenon DEF ChInit
    <2> QED
      BY <2>0, <2>1, <2>2, <2>3, <2>4 DEF ChallengeInv, ChTypeOK
  <1> QED
    BY <1>1, ChallengeStepKeeps, PTL DEF ChSpec

\* Within LockoutPeriod of the wrong answer that was one too many nobody gets
\* the role of the challenge, however requests, other controllers' answers and
\* changes of the tables are interleaved.
THEOREM LockedOut == ChSpec => LockoutHolds
  <1> DEFINE Holds == \A r \in ChallengeRefs :
                        (granted' = r /\ wrong[r].n >= Retries /\ Retries > 0 /\ Lockout > 0)
                            => now >= wrong[r].last + Lockout
  <1>1. ChallengeInv /\ [ChNext]_chVars => [Holds]_chVars
    <2> SUFFICES ASSUME ChallengeInv, ChNext, NEW r \in ChallengeRefs, granted' = r,
                        wrong[r].n >= Retries, Retries > 0, Lockout > 0
                 PROVE  now >= wrong[r].last + Lockout
      OBVIOUS
    <2>1. PICK e \in Askers : RightResponse(e)
      BY DEF ChNext, Tick, AddAsker, DeleteAsker, DeleteChallenge, ResponseWithoutChallenge,
             WrongResponse, RequestChallenge
    <2>2. ~Locked(r)
      BY <2>1 DEF RightResponse
    <2> QED
      BY <2>2 DEF Locked, ChallengeInv, ChTypeOK, WrongsCounted
  <1> QED
    BY <1>1, ChallengeInvariant, PTL DEF ChSpec, LockoutHolds

-----------------------------------------------------------------------------
(***************************************************************************)
(* BulkData.  The inductive invariant is ReportingGoesOn without           *)
(* StatusesAgree, which follows from it and the finiteness of the table.   *)
(***************************************************************************)

HIDE ChallengeAssumption

BulkInd ==
    BulkTypeOK /\ IsFiniteSet(table) /\ OneSlotEach /\ ReportsFit /\ TimerOwned /\ CycleGoesOn

\* What TimerOwned says while no leaked slot is enabled.
OwnsTimers == \A p \in Profiles : Started(p) <=> timer[p] # "none"

-----------------------------------------------------------------------------
LEMMA HeadInRange ==
    ASSUME NEW T, NEW q \in Seq(T), q # <<>>
    PROVE  /\ Head(q) \in Range(q)
           /\ Tail(q) \in Seq(T)
           /\ \A m \in Range(q) : m = Head(q) \/ m \in Range(Tail(q))
  <1>1. Head(q) = q[1] /\ 1 \in DOMAIN q /\ Tail(q) \in Seq(T)
    OBVIOUS
  <1>2. ASSUME NEW i \in DOMAIN q, i # 1
        PROVE  i - 1 \in DOMAIN Tail(q) /\ Tail(q)[i - 1] = q[i]
    BY <1>2
  <1>3. Head(q) \in Range(q)
    BY <1>1 DEF Range
  <1>4. ASSUME NEW m \in Range(q), m # Head(q) PROVE m \in Range(Tail(q))
    <2>1. PICK i \in DOMAIN q : m = q[i]
      BY DEF Range
    <2>2. i - 1 \in DOMAIN Tail(q) /\ Tail(q)[i - 1] = m
      BY <1>1, <1>2, <1>4, <2>1
    <2> QED
      BY <2>2 DEF Range
  <1> QED
    BY <1>1, <1>3, <1>4

LEMMA RangeGrows ==
    ASSUME NEW T, NEW q \in Seq(T), NEW e \in T
    PROVE  /\ Append(q, e) \in Seq(T)
           /\ \A m \in Range(q) : m \in Range(Append(q, e))
           /\ e \in Range(Append(q, e))
  <1>1. Append(q, e)[Len(q) + 1] = e /\ Len(q) + 1 \in DOMAIN Append(q, e)
    OBVIOUS
  <1>2. \A i \in DOMAIN q : i \in DOMAIN Append(q, e) /\ Append(q, e)[i] = q[i]
    OBVIOUS
  <1> QED
    BY <1>1, <1>2 DEF Range

LEMMA WholeSeq ==
    ASSUME NEW T, NEW s \in Seq(T)
    PROVE  0 \in 0..Len(s) /\ s = SubSeq(s, 0 + 1, Len(s))
  <1>1. Len(s) \in Nat /\ DOMAIN s = 1..Len(s) /\ s = [i \in 1..Len(s) |-> s[i]]
    OBVIOUS
  <1>2. SubSeq(s, 1, Len(s)) \in Seq(T) /\ Len(SubSeq(s, 1, Len(s))) = Len(s)
    OBVIOUS
  <1>3. \A i \in 1..Len(s) : SubSeq(s, 1, Len(s))[i] = s[i]
    OBVIOUS
  <1> QED
    BY <1>1, <1>2, <1>3

USE ProfilesAssumption, SlotsAssumption, RetainedAssumption, FaultsAssumption, BoundAssumption

LEMMA DropOldestFacts ==
    ASSUME NEW s \in Seq(Report), NEW keep \in Nat
    PROVE  /\ DropOldest(s, keep) \in Seq(Report)
           /\ Len(DropOldest(s, keep)) <= keep
           /\ \E n \in 0..Len(s) : DropOldest(s, keep) = SubSeq(s, n + 1, Len(s))
  <1>1. CASE Len(s) > keep
    <2>1. DropOldest(s, keep) = SubSeq(s, Len(s) - keep + 1, Len(s))
      BY <1>1 DEF DropOldest
    <2>2. Len(s) - keep \in 0..Len(s) /\ Len(s) \in Nat
      BY <1>1
    <2>3. SubSeq(s, Len(s) - keep + 1, Len(s)) \in Seq(Report)
      BY <2>2
    <2>4. Len(SubSeq(s, Len(s) - keep + 1, Len(s))) = keep
      BY <2>2
    <2>5. \E n \in 0..Len(s) : DropOldest(s, keep) = SubSeq(s, n + 1, Len(s))
      <3>1. Len(s) - keep \in 0..Len(s)
        BY <2>2
      <3> WITNESS Len(s) - keep \in 0..Len(s)
      <3> QED
        BY <2>1
    <2>6. DropOldest(s, keep) \in Seq(Report) /\ Len(DropOldest(s, keep)) <= keep
      BY <2>1, <2>3, <2>4
    <2> QED
      BY <2>5, <2>6, Zenon
  <1>2. CASE ~ (Len(s) > keep)
    <2>1. DropOldest(s, keep) = s
      BY <1>2 DEF DropOldest
    <2> QED
      BY <1>2, <2>1, WholeSeq
  <1> QED
    BY <1>1, <1>2

LEMMA CollectedFits ==
    ASSUME BulkInd, NEW p \in Profiles, NEW keep \in 0..MaxRetained, fires < MaxFires
    PROVE  /\ Collected(p, keep) \in Seq(Report)
           /\ Len(Collected(p, keep)) <= MaxRetained + 1
  <1>1. reports[p] \in Seq(Report) /\ Len(reports[p]) <= MaxRetained + 1
    BY DEF BulkInd, BulkTypeOK, ReportsFit
  <1>a. fires + 1 \in Report
    BY DEF BulkInd, BulkTypeOK, Report
  <1> DEFINE d == DropOldest(reports[p], keep)
  <1>2. d \in Seq(Report) /\ Len(d) <= keep
    BY <1>1, DropOldestFacts
  <1> HIDE DEF d
  <1>3. Append(d, fires + 1) \in Seq(Report) /\ Len(Append(d, fires + 1)) <= MaxRetained + 1
    BY <1>a, <1>2
  <1> QED
    BY <1>1, <1>3 DEF Collected, d

LEMMA BulkInitHolds == BulkInit => BulkInd
  <1> SUFFICES ASSUME BulkInit PROVE BulkInd
    OBVIOUS
  <1>0. in_use = {} /\ NoLeakIsOn /\ OneSlotEach
    <2>1. profile_id = [s \in Slots |-> "free"] /\ "free" \notin Profiles
      BY DEF BulkInit
    <2> QED
      BY <2>1 DEF in_use, NoLeakIsOn, OneSlotEach
  <1>1. BulkTypeOK /\ ReportsFit
    <2>1. reports \in [Profiles -> Seq(Report)] /\ ReportsFit
      BY DEF BulkInit, ReportsFit
    <2>2. bdc_mq \in Seq(Transfer) /\ main_mq \in Seq(Result)
      BY DEF BulkInit
    <2>3. bdc_connection \in [Slots -> Transfer \cup {NoTransfer}]
      BY DEF BulkInit
    <2>4. /\ is_enabled \in [Profiles -> BOOLEAN]
          /\ is_working \in [Profiles -> BOOLEAN]
          /\ retry_enable \in [Profiles -> BOOLEAN]
      BY DEF BulkInit
    <2>5. /\ retry_count \in [Profiles -> Nat]
          /\ timer \in [Profiles -> {"none", "fired", "armed"}]
      BY DEF BulkInit
    <2>6. table \subseteq Profiles /\ in_use \subseteq table /\ stalled \subseteq Profiles
      <3>1. table = {} /\ stalled = {}
        BY DEF BulkInit
      <3> QED
        BY <1>0, <3>1
    <2>7. asserted \in BOOLEAN /\ global_enable \in BOOLEAN
      BY Zenon DEF BulkInit
    <2>8. timer_0 \in BOOLEAN /\ fires \in 0..MaxFires
      <3>1. timer_0 \in BOOLEAN
        BY Zenon DEF BulkInit
      <3>2. fires = 0
        BY DEF BulkInit
      <3> QED
        BY <3>1, <3>2
    <2>9. profile_id \in [Slots -> Profiles \cup Leaks \cup {"free"}]
      BY DEF BulkInit
    <2> QED
      BY <2>1, <2>2, <2>3, <2>4, <2>5, <2>6, <2>7, <2>8, <2>9, Zenon DEF BulkTypeOK
  <1>2. IsFiniteSet(table)
    BY FS_EmptySet DEF BulkInit
  <1>3. TimerOwned /\ CycleGoesOn
    BY <1>0 DEF BulkInit, TimerOwned, CycleGoesOn, Started
  <1> QED
    BY <1>0, <1>1, <1>2, <1>3 DEF BulkInd

-----------------------------------------------------------------------------
(* One lemma per operation.  What an operation does to the reports is stated  *)
(* with each of them, for ReportsGoOldestFirst.                                *)

OldestGoFirst ==
    \A p \in Profiles :
        \E n \in 0..Len(reports[p]) :
            LET rest == SubSeq(reports[p], n + 1, Len(reports[p])) IN
            reports'[p] \in {rest, Append(rest, fires'), <<>>}

LEMMA SameOrCleared ==
    ASSUME BulkInd, \A p \in Profiles : reports'[p] \in {reports[p], <<>>}
    PROVE  OldestGoFirst
  <1> SUFFICES ASSUME NEW p \in Profiles
               PROVE  \E n \in 0..Len(reports[p]) :
                          reports'[p] \in {SubSeq(reports[p], n + 1, Len(reports[p])), <<>>}
    BY DEF OldestGoFirst
  <1>1. reports[p] \in Seq(Report)
    BY DEF BulkInd, BulkTypeOK
  <1> QED
    BY <1>1, WholeSeq

LEMMA AsCollected ==
    ASSUME BulkInd, NEW p \in Profiles, NEW keep \in 0..MaxRetained, fires' = fires + 1,
           NEW rep \in {Collected(p, keep), reports[p], <<>>},
           reports' = [reports EXCEPT ![p] = rep]
    PROVE  OldestGoFirst
  <1>1. reports \in [Profiles -> Seq(Report)]
    BY DEF BulkInd, BulkTypeOK
  <1>2. CASE rep \in {reports[p], <<>>}
    BY <1>1, <1>2, SameOrCleared
  <1>3. CASE rep = Append(DropOldest(reports[p], keep), fires + 1)
    <2> SUFFICES ASSUME NEW u \in Profiles
                 PROVE  \E n \in 0..Len(reports[u]) :
                            reports'[u] \in {SubSeq(reports[u], n + 1, Len(reports[u])),
                                             Append(SubSeq(reports[u], n + 1, Len(reports[u])), fires')}
      BY DEF OldestGoFirst
    <2>1. reports[u] \in Seq(Report) /\ reports[p] \in Seq(Report) /\ keep \in Nat
      BY <1>1
    <2>2. CASE u = p
      <3>1. PICK n \in 0..Len(reports[u]) :
                DropOldest(reports[u], keep) = SubSeq(reports[u], n + 1, Len(reports[u]))
        BY <2>1, DropOldestFacts
      <3>2. reports'[u] = Append(DropOldest(reports[u], keep), fires')
        BY <1>1, <1>3, <2>2
      <3> QED
        BY <3>1, <3>2
    <2>3. CASE u # p
      <3>1. reports'[u] = reports[u]
        BY <1>1, <2>3
      <3> QED
        BY <2>1, <3>1, WholeSeq
    <2> QED
      BY <2>2, <2>3
  <1> QED
    BY <1>2, <1>3 DEF Collected

\* What is in flight changes only with the queues and the connections.
LEMMA InFlightUnchanged ==
    ASSUME UNCHANGED <<bdc_mq, bdc_connection, main_mq>>, NEW p \in Profiles
    PROVE  InTransfer(p)' <=> InTransfer(p)
  BY DEF InTransfer

\* A timer that has fired belongs to a cycle that was going on already, or to one
\* that the step takes on.
CycleTakenOn ==
    \A u \in Profiles : Started(u)' /\ timer'[u] = "fired" =>
        \/ u \in stalled' \/ InTransfer(u)'
        \/ /\ Started(u) /\ timer[u] = "fired" /\ (u \in stalled => u \in stalled')
           /\ InTransfer(u) => InTransfer(u)'

\* A leaked slot is never used again, so a step begins without one if it ends so.
TimersStep == NoLeakIsOn' => NoLeakIsOn /\ OwnsTimers' /\ CycleTakenOn

LEMMA BulkCombined ==
    ASSUME BulkInd, BulkTypeOK', IsFiniteSet(table'), OneSlotEach', ReportsFit', TimersStep
    PROVE  BulkInd'
  BY DEF BulkInd, CycleGoesOn, CycleTakenOn, TimerOwned, OwnsTimers, TimersStep

LEMMA SlotsUnchanged ==
    ASSUME BulkInd, UNCHANGED profile_id
    PROVE  in_use' = in_use /\ (NoLeakIsOn' <=> NoLeakIsOn) /\ OneSlotEach'
  BY DEF in_use, NoLeakIsOn, OneSlotEach, BulkInd

\* A slot is given to p, or leaks; p has none yet.
LEMMA SlotTaken ==
    ASSUME BulkInd, NEW p \in Profiles, p \notin table, NEW s \in Slots, IsFirstFree(s),
           NEW what \in {p, "off", "on"}, profile_id' = [profile_id EXCEPT ![s] = what]
    PROVE  /\ profile_id' \in [Slots -> Profiles \cup Leaks \cup {"free"}]
           /\ in_use' = IF what = p THEN in_use \cup {p} ELSE in_use
           /\ OneSlotEach'
           /\ NoLeakIsOn' => NoLeakIsOn
  <1>1. /\ profile_id \in [Slots -> Profiles \cup Leaks \cup {"free"}]
        /\ profile_id[s] = "free"
        /\ \A r \in Slots : profile_id[r] # p
        /\ "free" \notin Profiles /\ "off" \notin Profiles /\ "on" \notin Profiles
    BY DEF BulkInd, BulkTypeOK, IsFirstFree, in_use
  <1>2. \A r \in Slots : profile_id'[r] = IF r = s THEN what ELSE profile_id[r]
    BY <1>1
  <1>3. profile_id' \in [Slots -> Profiles \cup Leaks \cup {"free"}]
    BY <1>1 DEF Leaks
  <1>4. in_use' = IF what = p THEN in_use \cup {p} ELSE in_use
    <2>1. \A u \in Profiles :
              (\E r \in Slots : profile_id'[r] = u) <=> u = what \/ \E r \in Slots : profile_id[r] = u
      BY <1>1, <1>2
    <2> QED
      BY <1>1, <2>1 DEF in_use
  <1>5. OneSlotEach'
    BY <1>1, <1>2 DEF OneSlotEach, BulkInd
  <1>6. NoLeakIsOn' => NoLeakIsOn
    BY <1>1, <1>2 DEF NoLeakIsOn
  <1> QED
    BY <1>3, <1>4, <1>5, <1>6

LEMMA AddedKeeps ==
    ASSUME BulkInd, NEW p \in Profiles, NEW enable \in BOOLEAN, NEW retry \in BOOLEAN,
           ProfileAdded(p, enable, retry)
    PROVE  BulkInd' /\ OldestGoFirst
  <1>0. /\ profile_id' \in [Slots -> Profiles \cup Leaks \cup {"free"}]
        /\ in_use' = in_use \cup {p}
        /\ OneSlotEach' /\ (NoLeakIsOn' => NoLeakIsOn)
        /\ p \notin in_use
    <2>1. PICK s \in Slots : IsFirstFree(s) /\ profile_id' = [profile_id EXCEPT ![s] = p]
      BY DEF ProfileAdded
    <2>2. p \notin table /\ p \notin in_use
      BY DEF ProfileAdded, BulkInd, BulkTypeOK
    <2> QED
      BY <2>1, <2>2, SlotTaken
  <1>1. BulkTypeOK' /\ ReportsFit'
    <2>1. is_enabled' \in [Profiles -> BOOLEAN] /\ is_working' \in [Profiles -> BOOLEAN]
          /\ retry_enable' \in [Profiles -> BOOLEAN]
      BY DEF ProfileAdded, BulkInd, BulkTypeOK
    <2>2. reports' \in [Profiles -> Seq(Report)] /\ ReportsFit'
      BY DEF ProfileAdded, BulkInd, BulkTypeOK, ReportsFit
    <2>3. retry_count' \in [Profiles -> Nat] /\ timer' \in [Profiles -> {"none", "fired", "armed"}]
      BY DEF ProfileAdded, BulkInd, BulkTypeOK, TimerAdd
    <2>4. table' \subseteq Profiles /\ in_use' \subseteq table'
      BY <1>0 DEF ProfileAdded, BulkInd, BulkTypeOK
    <2> QED
      BY <1>0, <2>1, <2>2, <2>3, <2>4 DEF ProfileAdded, BulkInd, BulkTypeOK, bdcVars
  <1>2. IsFiniteSet(table')
    BY FS_AddElement DEF ProfileAdded, BulkInd
  <1>3. TimersStep
    <2> SUFFICES ASSUME NoLeakIsOn' PROVE NoLeakIsOn /\ OwnsTimers' /\ CycleTakenOn
      BY DEF TimersStep
    <2>1. \A u \in Profiles : u # p => (Started(u)' <=> Started(u)) /\ timer'[u] = timer[u]
      BY <1>0 DEF ProfileAdded, BulkInd, BulkTypeOK, Started
    <2>2. timer[p] = "none" /\ p \in in_use' /\ (Started(p)' <=> enable /\ global_enable)
      BY <1>0 DEF ProfileAdded, BulkInd, BulkTypeOK, Started, TimerOwned
    <2>3. timer'[p] = IF enable /\ global_enable THEN "armed" ELSE "none"
      BY <2>2 DEF ProfileAdded, BulkInd, BulkTypeOK, TimerAdd
    <2>4. stalled' = stalled /\ \A u \in Profiles : InTransfer(u)' <=> InTransfer(u)
      BY InFlightUnchanged DEF ProfileAdded, bdcVars
    <2> QED
      BY <1>0, <2>1, <2>2, <2>3, <2>4 DEF OwnsTimers, TimerOwned, CycleTakenOn, BulkInd
  <1>4. OldestGoFirst
    BY SameOrCleared DEF ProfileAdded, BulkInd, BulkTypeOK
  <1> QED
    BY <1>0, <1>1, <1>2, <1>3, <1>4, BulkCombined

LEMMA NotAddedKeeps ==
    ASSUME BulkInd, NEW p \in Profiles, ProfileNotAdded(p)
    PROVE  BulkInd' /\ OldestGoFirst
  <1>0. /\ profile_id' \in [Slots -> Profiles \cup Leaks \cup {"free"}]
        /\ in_use' = in_use
        /\ OneSlotEach' /\ (NoLeakIsOn' => NoLeakIsOn)
    <2>1. CASE UNCHANGED profile_id
      BY <2>1, SlotsUnchanged DEF BulkInd, BulkTypeOK
    <2>2. ASSUME NEW s \in Slots, NEW leak \in Leaks, IsFirstFree(s),
                 profile_id' = [profile_id EXCEPT ![s] = leak]
          PROVE  <1>0!1 /\ <1>0!2 /\ <1>0!3
      <3>1. leak \in {p, "off", "on"} /\ leak # p /\ p \notin table
        BY DEF Leaks, ProfileNotAdded
      <3> QED
        BY <2>2, <3>1, SlotTaken
    <2> QED
      BY <2>1, <2>2 DEF ProfileNotAdded
  <1>1. BulkTypeOK' /\ ReportsFit'
    <2>1. table' \subseteq Profiles /\ in_use' \subseteq table'
      BY <1>0 DEF ProfileNotAdded, BulkInd, BulkTypeOK
    <2> QED
      BY <1>0, <2>1 DEF ProfileNotAdded, BulkInd, BulkTypeOK, ReportsFit, bdcVars, profileVars
  <1>2. IsFiniteSet(table')
    BY FS_AddElement DEF ProfileNotAdded, BulkInd
  <1>3. TimersStep
    BY <1>0, InFlightUnchanged
       DEF ProfileNotAdded, BulkInd, TimersStep, OwnsTimers, TimerOwned, CycleTakenOn, Started,
           bdcVars, profileVars
  <1>4. OldestGoFirst
    BY SameOrCleared DEF ProfileNotAdded
  <1> QED
    BY <1>0, <1>1, <1>2, <1>3, <1>4, BulkCombined

LEMMA DeletedKeeps ==
    ASSUME BulkInd, NEW p \in Profiles, ProfileDeleted(p)
    PROVE  BulkInd' /\ OldestGoFirst
  <1>0. /\ profile_id' \in [Slots -> Profiles \cup Leaks \cup {"free"}]
        /\ in_use' = in_use \ {p}
        /\ OneSlotEach' /\ (NoLeakIsOn' => NoLeakIsOn)
    <2>1. /\ profile_id \in [Slots -> Profiles \cup Leaks \cup {"free"}]
          /\ "free" \notin Profiles /\ "on" \notin Profiles
          /\ profile_id' = [s \in Slots |-> IF profile_id[s] = p THEN "free" ELSE profile_id[s]]
      BY DEF ProfileDeleted, BulkInd, BulkTypeOK
    <2>2. profile_id' \in [Slots -> Profiles \cup Leaks \cup {"free"}]
      BY <2>1
    <2>3. in_use' = in_use \ {p}
      BY <2>1 DEF in_use
    <2>4. OneSlotEach'
      BY <2>1 DEF OneSlotEach, BulkInd
    <2>5. NoLeakIsOn' => NoLeakIsOn
      BY <2>1 DEF NoLeakIsOn
    <2> QED
      BY <2>2, <2>3, <2>4, <2>5
  <1>1. BulkTypeOK' /\ ReportsFit'
    <2>1. is_enabled' \in [Profiles -> BOOLEAN] /\ is_working' \in [Profiles -> BOOLEAN]
          /\ retry_enable' \in [Profiles -> BOOLEAN]
      BY DEF ProfileDeleted, BulkInd, BulkTypeOK
    <2>2. reports' \in [Profiles -> Seq(Report)] /\ ReportsFit'
      BY DEF ProfileDeleted, BulkInd, BulkTypeOK, ReportsFit
    <2>3. retry_count' \in [Profiles -> Nat] /\ timer' \in [Profiles -> {"none", "fired", "armed"}]
      BY DEF ProfileDeleted, BulkInd, BulkTypeOK, TimerRemove
    <2>4. table' \subseteq Profiles /\ in_use' \subseteq table' /\ stalled' \subseteq Profiles
      BY <1>0 DEF ProfileDeleted, BulkInd, BulkTypeOK
    <2> QED
      BY <1>0, <2>1, <2>2, <2>3, <2>4 DEF ProfileDeleted, BulkInd, BulkTypeOK, bdcVars
  <1>2. IsFiniteSet(table')
    BY FS_RemoveElement DEF ProfileDeleted, BulkInd
  <1>3. TimersStep
    <2> SUFFICES ASSUME NoLeakIsOn' PROVE NoLeakIsOn /\ OwnsTimers' /\ CycleTakenOn
      BY DEF TimersStep
    <2>1. \A u \in Profiles : u # p =>
              (Started(u)' <=> Started(u)) /\ timer'[u] = timer[u] /\ (u \in stalled => u \in stalled')
      BY <1>0 DEF ProfileDeleted, BulkInd, BulkTypeOK, Started
    <2>2. ~ Started(p)' /\ timer'[p] = "none"
      BY <1>0 DEF ProfileDeleted, BulkInd, BulkTypeOK, Started, TimerOwned, TimerRemove
    <2>3. \A u \in Profiles : InTransfer(u)' <=> InTransfer(u)
      BY InFlightUnchanged DEF ProfileDeleted, bdcVars
    <2> QED
      BY <1>0, <2>1, <2>2, <2>3 DEF OwnsTimers, TimerOwned, CycleTakenOn, BulkInd
  <1>4. OldestGoFirst
    BY SameOrCleared DEF ProfileDeleted, BulkInd, BulkTypeOK
  <1> QED
    BY <1>0, <1>1, <1>2, <1>3, <1>4, BulkCombined

\* bulkdata_start_profile and bulkdata_stop_profile, for the profiles of S.
LEMMA StartKeeps ==
    ASSUME BulkInd, NEW S \in SUBSET Profiles, StartProfiles(S),
           NoLeakIsOn => \A u \in Profiles : Started(u)' <=> u \in S \/ Started(u),
           timer_0' \in BOOLEAN, global_enable' \in BOOLEAN, is_enabled' \in [Profiles -> BOOLEAN],
           UNCHANGED <<is_working, retry_enable, main_mq, fires>>,
           UNCHANGED <<slotVars, bdcVars>>
    PROVE  BulkInd' /\ OldestGoFirst
  <1>0. in_use' = in_use /\ (NoLeakIsOn' <=> NoLeakIsOn) /\ OneSlotEach'
    BY SlotsUnchanged DEF slotVars
  <1>1. BulkTypeOK' /\ ReportsFit'
    <2>1. timer' \in [Profiles -> {"none", "fired", "armed"}]
      BY DEF StartProfiles, BulkInd, BulkTypeOK, TimerAdd
    <2> QED
      BY <1>0, <2>1 DEF StartProfiles, BulkInd, BulkTypeOK, ReportsFit, bdcVars, slotVars
  <1>2. IsFiniteSet(table')
    BY DEF BulkInd, slotVars
  <1>3. \A u \in Profiles : timer'[u] = IF u \in S /\ timer[u] = "none" THEN "armed" ELSE timer[u]
    BY DEF StartProfiles, BulkInd, BulkTypeOK, TimerAdd
  <1>4. stalled' = stalled /\ \A u \in Profiles : InTransfer(u)' <=> InTransfer(u)
    BY InFlightUnchanged DEF StartProfiles, bdcVars
  <1>5. TimersStep
    BY <1>0, <1>3, <1>4 DEF TimersStep, OwnsTimers, TimerOwned, CycleTakenOn, BulkInd
  <1>6. OldestGoFirst
    BY SameOrCleared DEF StartProfiles
  <1> QED
    BY <1>0, <1>1, <1>2, <1>5, <1>6, BulkCombined

LEMMA StopKeeps ==
    ASSUME BulkInd, NEW S \in SUBSET Profiles, StopProfiles(S),
           NoLeakIsOn => \A u \in Profiles : Started(u)' <=> u \notin S /\ Started(u),
           timer_0' \in BOOLEAN, global_enable' \in BOOLEAN, is_enabled' \in [Profiles -> BOOLEAN],
           UNCHANGED <<is_working, retry_enable, main_mq, fires>>,
           UNCHANGED <<slotVars, bdcVars>>
    PROVE  BulkInd' /\ OldestGoFirst
  <1>0. in_use' = in_use /\ (NoLeakIsOn' <=> NoLeakIsOn) /\ OneSlotEach'
    BY SlotsUnchanged DEF slotVars
  <1>1. BulkTypeOK' /\ ReportsFit'
    <2>1. timer' \in [Profiles -> {"none", "fired", "armed"}] /\ retry_count' \in [Profiles -> Nat]
      BY DEF StopProfiles, BulkInd, BulkTypeOK, TimerRemove
    <2>2. reports' \in [Profiles -> Seq(Report)] /\ ReportsFit' /\ stalled' \subseteq Profiles
      BY DEF StopProfiles, BulkInd, BulkTypeOK, ReportsFit
    <2> QED
      BY <1>0, <2>1, <2>2 DEF StopProfiles, BulkInd, BulkTypeOK, bdcVars, slotVars
  <1>2. IsFiniteSet(table')
    BY DEF BulkInd, slotVars
  <1>3. \A u \in Profiles : timer'[u] = IF u \in S THEN "none" ELSE timer[u]
    BY DEF StopProfiles, BulkInd, BulkTypeOK, TimerRemove
  <1>4. /\ \A u \in Profiles : u \notin S /\ u \in stalled => u \in stalled'
        /\ \A u \in Profiles : InTransfer(u)' <=> InTransfer(u)
    BY InFlightUnchanged DEF StopProfiles, bdcVars
  <1>5. TimersStep
    BY <1>0, <1>3, <1>4 DEF TimersStep, OwnsTimers, TimerOwned, CycleTakenOn, BulkInd
  <1>6. OldestGoFirst
    BY SameOrCleared DEF StopProfiles
  <1> QED
    BY <1>0, <1>1, <1>2, <1>5, <1>6, BulkCombined

\* While no leaked slot is enabled GlobalEnable reaches every slot.
LEMMA NoSlotFails ==
    ASSUME BulkInd, NoLeakIsOn, NEW value \in BOOLEAN, value # global_enable, NEW s \in Slots
    PROVE  ~ SlotFails(s, value)
  <1>1. SUFFICES ASSUME SlotFails(s, value) PROVE FALSE
    OBVIOUS
  <1> DEFINE p == profile_id[s]
  <1>2. p \in Profiles /\ is_enabled[p] /\ SlotHasTimer(s) = value
    BY <1>1 DEF SlotFails, SlotEnabled, NoLeakIsOn
  <1>3. p \in in_use
    BY <1>2 DEF in_use
  <1>4. (timer[p] # "none") = value
    BY <1>2 DEF SlotHasTimer
  <1>5. Started(p) <=> timer[p] # "none"
    BY <1>2 DEF BulkInd, TimerOwned
  <1>6. Started(p) <=> global_enable
    BY <1>2, <1>3 DEF Started
  <1>7. global_enable \in BOOLEAN
    BY DEF BulkInd, BulkTypeOK
  <1> HIDE DEF p
  <1> QED
    BY <1>4, <1>5, <1>6, <1>7

LEMMA GlobalEnableKeeps ==
    ASSUME BulkInd, NEW value \in BOOLEAN, GlobalEnable(value)
    PROVE  BulkInd' /\ OldestGoFirst
  <1> DEFINE reached == SlotsReached(value)
             failing == {s \in Slots : /\ SlotFails(s, value)
                                       /\ \A r \in 1..(s - 1) : ~ SlotFails(r, value)}
             of(Z) == {p \in Profiles : \E s \in Z : profile_id[s] = p}
             S == {p \in in_use : is_enabled[p]}
  <1>1. /\ timer_0' \in BOOLEAN /\ global_enable' \in BOOLEAN
        /\ is_enabled' \in [Profiles -> BOOLEAN]
        /\ UNCHANGED <<is_working, retry_enable, main_mq, fires>>
        /\ UNCHANGED <<slotVars, bdcVars>>
    BY DEF GlobalEnable, BulkInd, BulkTypeOK, profileVars
  <1>2. ASSUME NoLeakIsOn PROVE of(reached) = S /\ of(reached \cup failing) = S
    <2>1. \A s \in Slots : ~ SlotFails(s, value)
      BY <1>2, NoSlotFails DEF GlobalEnable
    <2>2. failing = {}
      BY <2>1
    <2>3. reached = {s \in Slots : profile_id[s] \in Profiles /\ is_enabled[profile_id[s]]}
      BY <1>2, <2>1 DEF SlotsReached, SlotEnabled, NoLeakIsOn, Slots
    <2> HIDE DEF reached, failing
    <2>4. of(reached) = S
      BY <2>3 DEF in_use
    <2> QED
      BY <2>2, <2>4
  <1>3. \A u \in Profiles : Started(u)' <=> u \in S /\ value
    BY <1>1, SlotsUnchanged DEF GlobalEnable, Started, slotVars, profileVars
  <1>4. \A u \in Profiles : Started(u) <=> u \in S /\ ~ value
    BY DEF GlobalEnable, Started, BulkInd, BulkTypeOK
  <1>5. CASE value
    <2>1. StartProfiles(of(reached))
      BY <1>5 DEF GlobalEnable
    <2>2. of(reached) \in SUBSET Profiles
      OBVIOUS
    <2>3. NoLeakIsOn => \A u \in Profiles : Started(u)' <=> u \in of(reached) \/ Started(u)
      BY <1>2, <1>3, <1>4, <1>5
    <2> HIDE DEF reached, of
    <2> QED
      BY <1>1, <2>1, <2>2, <2>3, StartKeeps
  <1>6. CASE ~ value
    <2> DEFINE Z == of(reached \cup failing)
    <2>1. StopProfiles(Z)
      BY <1>6 DEF GlobalEnable
    <2>2. Z \in SUBSET Profiles
      OBVIOUS
    <2>3. NoLeakIsOn => \A u \in Profiles : Started(u)' <=> u \notin Z /\ Started(u)
      BY <1>2, <1>3, <1>4, <1>6
    <2> HIDE DEF Z
    <2> QED
      BY <1>1, <2>1, <2>2, <2>3, StopKeeps
  <1> QED
    BY <1>5, <1>6

LEMMA ProfileEnableKeeps ==
    ASSUME BulkInd, NEW p \in Profiles, NEW value \in BOOLEAN, ProfileEnable(p, value)
    PROVE  BulkInd' /\ OldestGoFirst
  <1>0. in_use' = in_use /\ (NoLeakIsOn' <=> NoLeakIsOn) /\ OneSlotEach'
    BY SlotsUnchanged DEF ProfileEnable, slotVars
  <1>1. /\ timer_0' \in BOOLEAN /\ global_enable' \in BOOLEAN /\ is_enabled' \in [Profiles -> BOOLEAN]
        /\ UNCHANGED <<is_working, retry_enable, main_mq, fires>>
        /\ UNCHANGED <<slotVars, bdcVars>>
    BY DEF ProfileEnable, BulkInd, BulkTypeOK
  <1>2. p \in in_use /\ global_enable' = global_enable 
        /\ \A u \in Profiles : is_enabled'[u] = IF u = p THEN value ELSE is_enabled[u]
    BY DEF ProfileEnable, BulkInd, BulkTypeOK
  <1>3. CASE global_enable /\ value
    <2>1. \A u \in Profiles : Started(u)' <=> u \in {p} \/ Started(u)
      BY <1>0, <1>2, <1>3 DEF Started
    <2> QED
      BY <1>1, <1>3, <2>1, StartKeeps DEF ProfileEnable
  <1>4. CASE global_enable /\ ~ value
    <2>1. \A u \in Profiles : Started(u)' <=> u \notin {p} /\ Started(u)
      BY <1>0, <1>2, <1>4 DEF Started
    <2> QED
      BY <1>1, <1>4, <2>1, StopKeeps DEF ProfileEnable
  <1>5. CASE ~ global_enable
    <2>1. UNCHANGED <<reports, retry_count, timer, stalled>>
      BY <1>5 DEF ProfileEnable
    <2>2. \A u \in Profiles : ~ Started(u) /\ ~ Started(u)'
      BY <1>0, <1>2, <1>5 DEF Started
    <2>3. BulkTypeOK' /\ ReportsFit' /\ IsFiniteSet(table')
      BY <1>0, <1>1, <2>1 DEF ProfileEnable, BulkInd, BulkTypeOK, ReportsFit, slotVars, bdcVars
    <2>4. TimersStep
      BY <1>0, <2>1, <2>2 DEF TimersStep, OwnsTimers, TimerOwned, CycleTakenOn, BulkInd
    <2> QED
      BY <1>0, <2>1, <2>3, <2>4, BulkCombined, SameOrCleared
  <1> QED
    BY <1>3, <1>4, <1>5

LEMMA RetryEnableKeeps ==
    ASSUME BulkInd, NEW p \in Profiles, NEW value \in BOOLEAN, RetryEnable(p, value)
    PROVE  BulkInd' /\ OldestGoFirst
  <1>0. in_use' = in_use /\ (NoLeakIsOn' <=> NoLeakIsOn) /\ OneSlotEach'
    BY SlotsUnchanged DEF RetryEnable, slotVars
  <1>1. BulkTypeOK' /\ ReportsFit' /\ IsFiniteSet(table')
    BY <1>0 DEF RetryEnable, BulkInd, BulkTypeOK, ReportsFit, slotVars, bdcVars
  <1>2. TimersStep
    BY <1>0, InFlightUnchanged
       DEF RetryEnable, BulkInd, TimersStep, OwnsTimers, TimerOwned, CycleTakenOn, Started, slotVars, bdcVars
  <1> QED
    BY <1>0, <1>1, <1>2, BulkCombined, SameOrCleared DEF RetryEnable

\* The two failed assertions.
LEMMA AssertedKeeps ==
    ASSUME BulkInd, ChangeWithoutSlot \/ DivideByZero
    PROVE  BulkInd' /\ OldestGoFirst
  <1> DEFINE others == <<table, profile_id, global_enable, retry_count, reports, timer, timer_0, main_mq, fires, stalled>>
  <1>1. asserted' = TRUE /\ UNCHANGED others /\ UNCHANGED <<bdcVars, profileVars>>
    BY DEF ChangeWithoutSlot, DivideByZero
  <1>2. in_use' = in_use /\ (NoLeakIsOn' <=> NoLeakIsOn) /\ OneSlotEach'
    BY <1>1, SlotsUnchanged
  <1>3. BulkTypeOK' /\ ReportsFit' /\ IsFiniteSet(table')
    BY <1>1, <1>2 DEF BulkInd, BulkTypeOK, ReportsFit, profileVars, bdcVars
  <1>4. TimersStep
    BY <1>1, <1>2, InFlightUnchanged
       DEF BulkInd, TimersStep, OwnsTimers, TimerOwned, CycleTakenOn, Started, profileVars, bdcVars
  <1> QED
    BY <1>1, <1>2, <1>3, <1>4, BulkCombined, SameOrCleared

\* bulkdata_resync_profile arms the timer of a profile that is started, and leaves
\* that of one that is not alone.
LEMMA ResyncRearms ==
    ASSUME BulkInd, NEW p \in Profiles, NEW rc \in Nat, Resync(p, rc),
           UNCHANGED <<global_enable, is_enabled, slotVars>>,
           \A u \in Profiles \ {p} : InTransfer(u) => InTransfer(u)'
    PROVE  /\ retry_count' \in [Profiles -> Nat]
           /\ timer' \in [Profiles -> {"none", "fired", "armed"}]
           /\ stalled' \subseteq Profiles
           /\ TimersStep
  <1>0. in_use' = in_use /\ (NoLeakIsOn' <=> NoLeakIsOn) /\ OneSlotEach'
    BY SlotsUnchanged DEF slotVars
  <1>1. \A u \in Profiles : Started(u)' <=> Started(u)
    BY <1>0 DEF Started
  <1>2. retry_count' \in [Profiles -> Nat]
    BY DEF Resync, BulkInd, BulkTypeOK
  <1>3. timer' \in [Profiles -> {"none", "fired", "armed"}] /\ stalled' \subseteq Profiles
    BY DEF Resync, BulkInd, BulkTypeOK, TimerReload
  <1>4. NoLeakIsOn => \A u \in Profiles : timer'[u] = IF u = p /\ Started(p) THEN "armed" ELSE timer[u]
    BY DEF Resync, BulkInd, BulkTypeOK, TimerReload, TimerOwned
  <1>5. \A u \in Profiles : u # p /\ u \in stalled => u \in stalled'
    BY DEF Resync
  <1>6. NoLeakIsOn /\ ~ Started(p) => timer[p] = "none"
    BY DEF BulkInd, TimerOwned
  <1> QED
    BY <1>0, <1>1, <1>2, <1>3, <1>4, <1>5, <1>6 DEF TimersStep, OwnsTimers, TimerOwned, CycleTakenOn, BulkInd

LEMMA ChangeTimingKeeps ==
    ASSUME BulkInd, NEW p \in Profiles, ChangeTiming(p)
    PROVE  BulkInd' /\ OldestGoFirst
  <1>0. in_use' = in_use /\ (NoLeakIsOn' <=> NoLeakIsOn) /\ OneSlotEach'
    BY SlotsUnchanged DEF ChangeTiming, slotVars
  <1>1. retry_count[p] \in Nat /\ \A u \in Profiles : InTransfer(u)' <=> InTransfer(u)
    BY InFlightUnchanged DEF ChangeTiming, BulkInd, BulkTypeOK, bdcVars
  <1>2. /\ retry_count' \in [Profiles -> Nat]
        /\ timer' \in [Profiles -> {"none", "fired", "armed"}]
        /\ stalled' \subseteq Profiles
        /\ TimersStep
    BY <1>1, ResyncRearms DEF ChangeTiming, profileVars
  <1>3. BulkTypeOK' /\ ReportsFit' /\ IsFiniteSet(table')
    BY <1>0, <1>2 DEF ChangeTiming, BulkInd, BulkTypeOK, ReportsFit, slotVars, bdcVars, profileVars
  <1> QED
    BY <1>0, <1>2, <1>3, BulkCombined, SameOrCleared DEF ChangeTiming

\* DEVICE_BULKDATA_NotifyTransferResult.
LEMMA NotifyKeeps ==
    ASSUME BulkInd, NEW p \in Profiles, NEW ok \in BOOLEAN,
           NEW rep \in Seq(Report), Len(rep) <= MaxRetained + 1,
           NotifyTransferResult(p, ok, rep),
           UNCHANGED <<timer_0, global_enable, is_enabled, retry_enable, slotVars, bdcVars>>,
           main_mq' \in Seq(Result), fires' \in 0..MaxFires,
           \A u \in Profiles \ {p} : InTransfer(u) => InTransfer(u)'
    PROVE  BulkInd'
  <1> DEFINE rc == IF ok THEN 0
                   ELSE IF retry_enable[p] THEN retry_count[p] + 1 ELSE retry_count[p]
  <1>0. in_use' = in_use /\ (NoLeakIsOn' <=> NoLeakIsOn) /\ OneSlotEach'
    BY SlotsUnchanged DEF slotVars
  <1>1. rc \in Nat
    BY DEF BulkInd, BulkTypeOK
  <1>2. Resync(p, rc)
    BY DEF NotifyTransferResult
  <1> HIDE DEF rc
  <1>3. /\ retry_count' \in [Profiles -> Nat]
        /\ timer' \in [Profiles -> {"none", "fired", "armed"}]
        /\ stalled' \subseteq Profiles
        /\ TimersStep
    BY <1>1, <1>2, ResyncRearms
  <1>4. reports' \in [Profiles -> Seq(Report)] /\ ReportsFit'
    <2> DEFINE new == IF ok THEN <<>> ELSE rep
    <2>1. new \in Seq(Report) /\ Len(new) <= MaxRetained + 1
      OBVIOUS
    <2>2. reports' = [reports EXCEPT ![p] = new]
      BY DEF NotifyTransferResult
    <2> HIDE DEF new
    <2> QED
      BY <2>1, <2>2 DEF BulkInd, BulkTypeOK, ReportsFit
  <1>5. is_working' \in [Profiles -> BOOLEAN]
    BY DEF NotifyTransferResult, BulkInd, BulkTypeOK
  <1>6. BulkTypeOK' /\ IsFiniteSet(table')
    BY <1>0, <1>3, <1>4, <1>5 DEF BulkInd, BulkTypeOK, slotVars, bdcVars
  <1> QED
    BY <1>0, <1>3, <1>4, <1>6, BulkCombined

-----------------------------------------------------------------------------
(* bulkdata_process_profile.                                               *)

\* The timer of a started profile has fired.
LEMMA Fired ==
    ASSUME BulkInd, NEW p \in Profiles, Fire(p)
    PROVE  /\ fires < MaxFires /\ fires' = fires + 1 /\ fires' \in 0..MaxFires /\ p \in in_use
           /\ NoLeakIsOn => Started(p)
  BY DEF Fire, BulkInd, BulkTypeOK, TimerOwned

LEMMA ProcessGoneKeeps ==
    ASSUME BulkInd, NEW p \in Profiles, ProcessGone(p)
    PROVE  BulkInd' /\ OldestGoFirst
  <1>0. in_use' = in_use /\ (NoLeakIsOn' <=> NoLeakIsOn) /\ OneSlotEach'
    BY SlotsUnchanged DEF ProcessGone, slotVars
  <1>1. timer' \in [Profiles -> {"none", "fired", "armed"}]
    BY DEF ProcessGone, BulkInd, BulkTypeOK
  <1>2. BulkTypeOK' /\ ReportsFit' /\ IsFiniteSet(table')
    BY <1>0, <1>1 DEF ProcessGone, BulkInd, BulkTypeOK, ReportsFit, slotVars, bdcVars, profileVars
  <1>3. ~ NoLeakIsOn
    BY DEF ProcessGone, BulkInd, TimerOwned, Started
  <1>4. TimersStep
    BY <1>0, <1>3 DEF TimersStep
  <1> QED
    BY <1>0, <1>2, <1>4, BulkCombined, SameOrCleared DEF ProcessGone

LEMMA ProcessLaterKeeps ==
    ASSUME BulkInd, NEW p \in Profiles, ProcessLater(p)
    PROVE  BulkInd' /\ OldestGoFirst
  <1>0. in_use' = in_use /\ (NoLeakIsOn' <=> NoLeakIsOn) /\ OneSlotEach'
    BY SlotsUnchanged DEF ProcessLater, slotVars
  <1>1. fires' \in 0..MaxFires /\ retry_count' \in [Profiles -> Nat]
    BY Fired DEF ProcessLater, BulkInd, BulkTypeOK
  <1>2. BulkTypeOK' /\ ReportsFit' /\ IsFiniteSet(table')
    BY <1>0, <1>1 DEF ProcessLater, BulkInd, BulkTypeOK, ReportsFit, slotVars, bdcVars, profileVars
  <1>3. TimersStep
    BY <1>0, InFlightUnchanged
       DEF ProcessLater, BulkInd, TimersStep, OwnsTimers, TimerOwned, CycleTakenOn, Started, slotVars, bdcVars, profileVars
  <1> QED
    BY <1>0, <1>2, <1>3, BulkCombined, SameOrCleared DEF ProcessLater

LEMMA ProcessUspEventKeeps ==
    ASSUME BulkInd, NEW p \in Profiles, ProcessUspEvent(p)
    PROVE  BulkInd' /\ OldestGoFirst
  <1>0. in_use' = in_use /\ (NoLeakIsOn' <=> NoLeakIsOn) /\ OneSlotEach'
    BY SlotsUnchanged DEF ProcessUspEvent, slotVars
  <1>1. fires' \in 0..MaxFires /\ retry_count' \in [Profiles -> Nat]
    BY Fired DEF ProcessUspEvent, BulkInd, BulkTypeOK
  <1>2. reports' \in [Profiles -> Seq(Report)] /\ ReportsFit'
    BY DEF ProcessUspEvent, BulkInd, BulkTypeOK, ReportsFit
  <1>3. BulkTypeOK' /\ IsFiniteSet(table')
    BY <1>0, <1>1, <1>2 DEF ProcessUspEvent, BulkInd, BulkTypeOK, slotVars, bdcVars, profileVars
  <1>4. TimersStep
    BY <1>0, InFlightUnchanged
       DEF ProcessUspEvent, BulkInd, TimersStep, OwnsTimers, TimerOwned, CycleTakenOn, Started, slotVars, bdcVars, profileVars
  <1>5. OldestGoFirst
    BY SameOrCleared DEF ProcessUspEvent, BulkInd, BulkTypeOK
  <1> QED
    BY <1>0, <1>2, <1>3, <1>4, <1>5, BulkCombined

LEMMA ProcessFailsKeeps ==
    ASSUME BulkInd, NEW p \in Profiles, NEW keep \in 0..MaxRetained,
           NEW rep \in {Collected(p, keep), reports[p]}, ProcessFails(p, rep)
    PROVE  BulkInd' /\ OldestGoFirst
  <1>0. in_use' = in_use /\ (NoLeakIsOn' <=> NoLeakIsOn) /\ OneSlotEach'
    BY SlotsUnchanged DEF ProcessFails, slotVars
  <1>1. fires' \in 0..MaxFires /\ fires < MaxFires /\ fires' = fires + 1 /\ (NoLeakIsOn => Started(p))
    BY Fired DEF ProcessFails
  <1>2. rep \in Seq(Report) /\ Len(rep) <= MaxRetained + 1
    BY <1>1, CollectedFits DEF BulkInd, BulkTypeOK, ReportsFit
  <1>3. reports' \in [Profiles -> Seq(Report)] /\ ReportsFit'
    BY <1>2 DEF ProcessFails, BulkInd, BulkTypeOK, ReportsFit
  <1>4. timer' \in [Profiles -> {"none", "fired", "armed"}] /\ stalled' \subseteq Profiles
    BY DEF ProcessFails, BulkInd, BulkTypeOK
  <1>5. BulkTypeOK' /\ IsFiniteSet(table')
    BY <1>0, <1>1, <1>3, <1>4 DEF ProcessFails, BulkInd, BulkTypeOK, slotVars, bdcVars, profileVars
  <1>6. TimersStep
    <2>1. \A u \in Profiles : (Started(u)' <=> Started(u)) /\ (InTransfer(u)' <=> InTransfer(u))
      BY <1>0, InFlightUnchanged DEF ProcessFails, Started, bdcVars, profileVars
    <2>2. \A u \in Profiles : timer'[u] = IF u = p THEN "fired" ELSE timer[u]
      BY DEF ProcessFails, BulkInd, BulkTypeOK
    <2>3. stalled' = stalled \cup {p}
      BY DEF ProcessFails
    <2> QED
      BY <1>0, <1>1, <2>1, <2>2, <2>3 DEF BulkInd, TimersStep, OwnsTimers, TimerOwned, CycleTakenOn
  <1>7. OldestGoFirst
    BY <1>1, AsCollected DEF ProcessFails
  <1> QED
    BY <1>0, <1>3, <1>5, <1>6, <1>7, BulkCombined

LEMMA ProcessHttpKeeps ==
    ASSUME BulkInd, NEW p \in Profiles, NEW keep \in 0..MaxRetained, ProcessHttp(p, keep)
    PROVE  BulkInd' /\ OldestGoFirst
  <1> DEFINE rep == Collected(p, keep)
             m == [profile |-> p, reports |-> rep]
  <1>0. in_use' = in_use /\ (NoLeakIsOn' <=> NoLeakIsOn) /\ OneSlotEach'
    BY SlotsUnchanged DEF ProcessHttp, slotVars
  <1>1. fires' \in 0..MaxFires /\ fires < MaxFires /\ fires' = fires + 1 /\ (NoLeakIsOn => Started(p))
    BY Fired DEF ProcessHttp
  <1>2. rep \in Seq(Report) /\ Len(rep) <= MaxRetained + 1
    BY <1>1, CollectedFits
  <1>3. reports' = [reports EXCEPT ![p] = rep] /\ bdc_mq' = Append(bdc_mq, m)
    BY DEF ProcessHttp
  <1>4. OldestGoFirst
    BY <1>1, <1>3, AsCollected
  <1> HIDE DEF rep
  <1>5. m \in Transfer /\ bdc_mq \in Seq(Transfer)
    BY <1>2 DEF Transfer, BulkInd, BulkTypeOK
  <1>6. /\ bdc_mq' \in Seq(Transfer)
        /\ \A e \in Range(bdc_mq) : e \in Range(bdc_mq')
        /\ m \in Range(bdc_mq')
    BY <1>3, <1>5, RangeGrows
  <1>7. reports' \in [Profiles -> Seq(Report)] /\ ReportsFit'
    BY <1>2, <1>3 DEF BulkInd, BulkTypeOK, ReportsFit
  <1>8. timer' \in [Profiles -> {"none", "fired", "armed"}]
    BY DEF ProcessHttp, BulkInd, BulkTypeOK
  <1>9. BulkTypeOK' /\ IsFiniteSet(table')
    BY <1>0, <1>1, <1>6, <1>7, <1>8 DEF ProcessHttp, BulkInd, BulkTypeOK, slotVars, profileVars
  <1>10. TimersStep
    <2>1. \A u \in Profiles : Started(u)' <=> Started(u)
      BY <1>0 DEF ProcessHttp, Started, profileVars
    <2>2. \A u \in Profiles : InTransfer(u) => InTransfer(u)'
      BY <1>6 DEF InTransfer, ProcessHttp
    <2>3. InTransfer(p)'
      BY <1>6 DEF InTransfer
    <2>4. \A u \in Profiles : timer'[u] = IF u = p THEN "fired" ELSE timer[u]
      BY DEF ProcessHttp, BulkInd, BulkTypeOK
    <2>5. stalled' = stalled
      BY DEF ProcessHttp
    <2> QED
      BY <1>0, <1>1, <2>1, <2>2, <2>3, <2>4, <2>5 DEF BulkInd, TimersStep, OwnsTimers, TimerOwned, CycleTakenOn
  <1> QED
    BY <1>0, <1>4, <1>7, <1>9, <1>10, BulkCombined

LEMMA ProcessAtOnceKeeps ==
    ASSUME BulkInd, NEW p \in Profiles, NEW keep \in 0..MaxRetained, NEW ok \in BOOLEAN,
           ProcessAtOnce(p, keep, ok)
    PROVE  BulkInd' /\ OldestGoFirst
  <1> DEFINE rep == Collected(p, keep)
  <1>1. fires' \in 0..MaxFires /\ fires < MaxFires /\ fires' = fires + 1
    BY Fired DEF ProcessAtOnce
  <1>2. rep \in Seq(Report) /\ Len(rep) <= MaxRetained + 1
    BY <1>1, CollectedFits
  <1>3. NotifyTransferResult(p, ok, rep) /\ main_mq' \in Seq(Result)
        /\ UNCHANGED <<timer_0, global_enable, is_enabled, retry_enable, slotVars, bdcVars>>
    BY DEF ProcessAtOnce, BulkInd, BulkTypeOK
  <1>4. \A u \in Profiles : InTransfer(u) => InTransfer(u)'
    BY InFlightUnchanged DEF ProcessAtOnce, bdcVars
  <1>5. OldestGoFirst
    <2>1. reports' = [reports EXCEPT ![p] = IF ok THEN <<>> ELSE Collected(p, keep)]
      BY <1>3 DEF NotifyTransferResult
    <2>2. (IF ok THEN <<>> ELSE Collected(p, keep)) \in {Collected(p, keep), reports[p], <<>>}
      OBVIOUS
    <2> QED
      BY <1>1, <2>1, <2>2, AsCollected
  <1> HIDE DEF rep
  <1>6. BulkInd'
    BY <1>1, <1>2, <1>3, <1>4, NotifyKeeps
  <1> QED
    BY <1>5, <1>6

LEMMA HandleResultKeeps ==
    ASSUME BulkInd, HandleResult
    PROVE  BulkInd' /\ OldestGoFirst
  <1> DEFINE r == Head(main_mq)
  <1>0. in_use' = in_use /\ (NoLeakIsOn' <=> NoLeakIsOn) /\ OneSlotEach'
    BY SlotsUnchanged DEF HandleResult, slotVars
  <1>1. main_mq \in Seq(Result) /\ main_mq # <<>> /\ main_mq' = Tail(main_mq)
    BY DEF HandleResult, BulkInd, BulkTypeOK
  <1>2. /\ r \in Result
        /\ main_mq' \in Seq(Result)
        /\ \A m \in Range(main_mq) : m = r \/ m \in Range(main_mq')
    BY <1>1, HeadInRange
  <1> DEFINE p == r.profile
             ok == r.ok
  <1>3. p \in Profiles /\ ok \in BOOLEAN
    BY <1>2 DEF Result
  <1>4. UNCHANGED <<timer_0, global_enable, is_enabled, retry_enable, slotVars, bdcVars, fires>>
    BY DEF HandleResult
  <1>5. \A u \in Profiles \ {p} : InTransfer(u) => InTransfer(u)'
    BY <1>2, <1>4 DEF InTransfer, bdcVars
  <1>6. CASE p \in in_use
    <2>1. NotifyTransferResult(p, ok, reports[p])
      BY <1>6 DEF HandleResult
    <2>2. reports[p] \in Seq(Report) /\ Len(reports[p]) <= MaxRetained + 1 /\ fires' \in 0..MaxFires
      BY <1>3, <1>4 DEF BulkInd, BulkTypeOK, ReportsFit
    <2> HIDE DEF p, ok
    <2>3. BulkInd'
      BY <1>2, <1>3, <1>4, <1>5, <2>1, <2>2, NotifyKeeps
    <2>4. \A u \in Profiles : reports'[u] \in {reports[u], <<>>}
      BY <1>3, <2>1 DEF NotifyTransferResult, BulkInd, BulkTypeOK
    <2> QED
      BY <2>3, <2>4, SameOrCleared
  <1>7. CASE p \notin in_use
    <2>1. UNCHANGED <<reports, is_working, retry_count, timer, stalled>>
      BY <1>7 DEF HandleResult
    <2> HIDE DEF p, ok
    <2>2. BulkTypeOK' /\ ReportsFit' /\ IsFiniteSet(table')
      BY <1>0, <1>2, <1>4, <2>1 DEF BulkInd, BulkTypeOK, ReportsFit, slotVars, bdcVars
    <2>3. \A u \in Profiles : (Started(u)' <=> Started(u)) /\ (Started(u) => u # p)
      BY <1>0, <1>4, <1>7 DEF Started
    <2>4. TimersStep
      BY <1>0, <1>5, <2>1, <2>3 DEF BulkInd, TimersStep, OwnsTimers, TimerOwned, CycleTakenOn
    <2> QED
      BY <1>0, <2>1, <2>2, <2>4, BulkCombined, SameOrCleared
  <1> QED
    BY <1>6, <1>7

-----------------------------------------------------------------------------
(* The BDC thread: a report stays in flight from the queue through a          *)
(* connection to the result, or its profile is marked as stalled.             *)

LEMMA BdcKeeps ==
    ASSUME BulkInd, BdcUnchanged,
           bdc_mq' \in Seq(Transfer), main_mq' \in Seq(Result), stalled' \in SUBSET Profiles,
           bdc_connection' \in [Slots -> Transfer \cup {NoTransfer}],
           \A u \in Profiles : u \in stalled => u \in stalled',
           \A u \in Profiles : InTransfer(u) => InTransfer(u)' \/ u \in stalled'
    PROVE  BulkInd' /\ OldestGoFirst
  <1>0. in_use' = in_use /\ (NoLeakIsOn' <=> NoLeakIsOn) /\ OneSlotEach'
    BY SlotsUnchanged DEF BdcUnchanged, slotVars
  <1>1. BulkTypeOK' /\ ReportsFit' /\ IsFiniteSet(table')
    BY <1>0 DEF BdcUnchanged, BulkInd, BulkTypeOK, ReportsFit, slotVars, profileVars
  <1>2. \A u \in Profiles : Started(u)' <=> Started(u)
    BY <1>0 DEF BdcUnchanged, Started, profileVars
  <1>3. TimerOwned' /\ CycleGoesOn'
    BY <1>0, <1>2 DEF BdcUnchanged, BulkInd, TimerOwned, CycleGoesOn
  <1>4. OldestGoFirst
    BY SameOrCleared DEF BdcUnchanged
  <1> QED
    BY <1>0, <1>1, <1>3, <1>4 DEF BulkInd

LEMMA StartSendingKeeps ==
    ASSUME BulkInd, StartSendingReport
    PROVE  BulkInd' /\ OldestGoFirst
  <1> DEFINE m == Head(bdc_mq)
  <1>1. bdc_mq \in Seq(Transfer) /\ bdc_mq # <<>> /\ bdc_mq' = Tail(bdc_mq)
    BY DEF StartSendingReport, BulkInd, BulkTypeOK
  <1>2. /\ m \in Transfer
        /\ bdc_mq' \in Seq(Transfer)
        /\ \A e \in Range(bdc_mq) : e = m \/ e \in Range(bdc_mq')
    BY <1>1, HeadInRange
  <1>3. PICK first \in FreeSlots : bdc_connection' = [bdc_connection EXCEPT ![first] = m]
    BY DEF StartSendingReport
  <1>4. first \in Slots /\ bdc_connection[first] = NoTransfer
        /\ bdc_connection \in [Slots -> Transfer \cup {NoTransfer}]
    BY DEF FreeSlots, BulkInd, BulkTypeOK
  <1> HIDE DEF m
  <1>5. bdc_connection' \in [Slots -> Transfer \cup {NoTransfer}] /\ bdc_connection'[first] = m
    BY <1>2, <1>3, <1>4
  <1>6. \A s \in Slots : bdc_connection[s] # NoTransfer => bdc_connection'[s] = bdc_connection[s]
    BY <1>3, <1>4
  <1>7. main_mq' = main_mq /\ stalled' = stalled /\ BdcUnchanged
    BY DEF StartSendingReport
  <1>8. ASSUME NEW u \in Profiles, InTransfer(u) PROVE InTransfer(u)'
    <2>1. CASE \E e \in Range(bdc_mq) : e.profile = u
      BY <1>2, <1>4, <1>5, <2>1 DEF InTransfer
    <2>2. CASE \E s \in Slots : bdc_connection[s].profile = u
      <3>1. PICK s \in Slots : bdc_connection[s].profile = u
        BY <2>2
      <3>2. CASE bdc_connection[s] = NoTransfer
        <4>1. u = "none"
          BY <3>1, <3>2 DEF NoTransfer
        <4> QED
          BY <4>1, ProfilesAssumption
      <3> QED
        BY <1>6, <3>1, <3>2 DEF InTransfer
    <2>3. CASE \E r \in Range(main_mq) : r.profile = u
      BY <1>7, <2>3 DEF InTransfer
    <2> QED
      BY <1>8, <2>1, <2>2, <2>3 DEF InTransfer
  <1> QED
    BY <1>2, <1>5, <1>7, <1>8, BdcKeeps DEF BulkInd, BulkTypeOK

LEMMA DropReportKeeps ==
    ASSUME BulkInd, DropReport
    PROVE  BulkInd' /\ OldestGoFirst
  <1> DEFINE m == Head(bdc_mq)
  <1>1. bdc_mq \in Seq(Transfer) /\ bdc_mq # <<>> /\ bdc_mq' = Tail(bdc_mq)
    BY DEF DropReport, BulkInd, BulkTypeOK
  <1>2. /\ m \in Transfer
        /\ bdc_mq' \in Seq(Transfer)
        /\ \A e \in Range(bdc_mq) : e = m \/ e \in Range(bdc_mq')
    BY <1>1, HeadInRange
  <1>3. stalled' = stalled \cup {m.profile} /\ m.profile \in Profiles
    BY <1>2 DEF DropReport, Transfer
  <1>4. UNCHANGED <<main_mq, bdc_connection>> /\ BdcUnchanged
    BY DEF DropReport
  <1> HIDE DEF m
  <1>5. \A u \in Profiles : InTransfer(u) => InTransfer(u)' \/ u \in stalled'
    BY <1>2, <1>3, <1>4 DEF InTransfer
  <1> QED
    BY <1>2, <1>3, <1>4, <1>5, BdcKeeps DEF BulkInd, BulkTypeOK

LEMMA TransferCompleteKeeps ==
    ASSUME BulkInd, NEW s \in Slots, NEW ok \in BOOLEAN, TransferComplete(s, ok)
    PROVE  BulkInd' /\ OldestGoFirst
  <1> DEFINE t == bdc_connection[s]
             r == [profile |-> t.profile, reports |-> t.reports, ok |-> ok]
  <1>1. t \in Transfer /\ bdc_connection \in [Slots -> Transfer \cup {NoTransfer}]
    BY DEF TransferComplete, BulkInd, BulkTypeOK
  <1>2. r \in Result /\ main_mq \in Seq(Result) /\ main_mq' = Append(main_mq, r)
    BY <1>1 DEF TransferComplete, Transfer, Result, BulkInd, BulkTypeOK
  <1>3. r.profile = t.profile
    OBVIOUS
  <1>4. bdc_connection' = [bdc_connection EXCEPT ![s] = NoTransfer]
    BY DEF TransferComplete
  <1>5. bdc_mq' = bdc_mq /\ stalled' = stalled /\ BdcUnchanged
    BY DEF TransferComplete
  <1> HIDE DEF r
  <1>6. /\ main_mq' \in Seq(Result)
        /\ \A e \in Range(main_mq) : e \in Range(main_mq')
        /\ r \in Range(main_mq')
    BY <1>2, RangeGrows
  <1>7. /\ bdc_connection' \in [Slots -> Transfer \cup {NoTransfer}]
        /\ \A c \in Slots : c # s => bdc_connection'[c] = bdc_connection[c]
    BY <1>1, <1>4
  <1>8. \A u \in Profiles : InTransfer(u) => InTransfer(u)'
    BY <1>3, <1>5, <1>6, <1>7 DEF InTransfer
  <1> QED
    BY <1>5, <1>6, <1>7, <1>8, BdcKeeps DEF BulkInd, BulkTypeOK

-----------------------------------------------------------------------------
(* The overall status.                                                     *)

\* The instances with a slot and those without one make up the table, so unless
\* exactly as many slots have leaked as instances have none, the numbers differ.
LEMMA StatusFollows == ASSUME BulkInd PROVE StatusesAgree
  <1> DEFINE leaked == {s \in Slots : profile_id[s] \in Leaks}
             holding == {s \in Slots : profile_id[s] \in Profiles}
             without == table \ in_use
  <1> SUFFICES ASSUME NEW p \in table, ProfileStatus(p) = "Error",
                      ~ (NoLeakIsOn /\ leaked # {} /\ Cardinality(leaked) = Cardinality(without)),
                      GlobalStatus = "Enabled"
               PROVE  FALSE
    BY DEF StatusesAgree
  <1>0. /\ profile_id \in [Slots -> Profiles \cup Leaks \cup {"free"}]
        /\ Profiles \cap {"none", "free", "off", "on"} = {}
        /\ in_use \subseteq table /\ IsFiniteSet(table) /\ table \subseteq Profiles
    BY DEF BulkInd, BulkTypeOK
  <1>1. /\ global_enable
        /\ \A s \in SlotsUsed : ~ SlotInError(s)
        /\ Cardinality(SlotsUsed) = Cardinality(table)
    BY DEF GlobalStatus
  <1>2. p \notin in_use
    <2> SUFFICES ASSUME p \in in_use PROVE FALSE
      OBVIOUS
    <2>1. is_enabled[p] /\ ~ is_working[p]
      BY <1>1 DEF ProfileStatus
    <2>2. PICK s \in Slots : profile_id[s] = p
      BY DEF in_use
    <2>3. s \in SlotsUsed /\ SlotInError(s)
      BY <1>0, <2>1, <2>2 DEF SlotsUsed, SlotInError, SlotEnabled
    <2> QED
      BY <1>1, <2>3
  <1>3. NoLeakIsOn
    BY <1>0, <1>1 DEF NoLeakIsOn, SlotsUsed, SlotInError, SlotEnabled
  <1>4. /\ IsFiniteSet(leaked) /\ Cardinality(leaked) \in Nat
        /\ IsFiniteSet(holding) /\ Cardinality(holding) \in Nat
        /\ IsFiniteSet(without) /\ Cardinality(without) \in Nat
        /\ IsFiniteSet(in_use) /\ Cardinality(in_use) \in Nat
    <2>1. IsFiniteSet(Slots)
      BY FS_Interval DEF Slots
    <2>2. leaked \subseteq Slots /\ holding \subseteq Slots /\ without \subseteq table
      OBVIOUS
    <2> HIDE DEF leaked, holding, without
    <2> QED
      BY <1>0, <2>1, <2>2, FS_Subset, FS_CardinalityType
  <1>5. Cardinality(SlotsUsed) = Cardinality(holding) + Cardinality(leaked)
    <2>1. SlotsUsed = holding \cup leaked /\ holding \cap leaked = {}
      BY <1>0 DEF SlotsUsed, Leaks
    <2> HIDE DEF leaked, holding
    <2>2. Cardinality(holding \cup leaked) =
              Cardinality(holding) + Cardinality(leaked) - Cardinality(holding \cap leaked)
      BY <1>4, FS_Union
    <2>3. Cardinality(holding \cap leaked) = 0
      BY <2>1, FS_EmptySet
    <2> QED
      BY <1>4, <2>1, <2>2, <2>3
  <1>6. Cardinality(holding) = Cardinality(in_use)
    <2> DEFINE f == [s \in holding |-> profile_id[s]]
    <2>1. f \in [holding -> in_use]
      BY DEF in_use
    <2>2. \A r, s \in holding : f[r] = f[s] => r = s
      BY DEF BulkInd, OneSlotEach
    <2>3. \A u \in in_use : \E s \in holding : f[s] = u
      BY DEF in_use
    <2> HIDE DEF f, holding
    <2>4. f \in Bijection(holding, in_use)
      BY <2>1, <2>2, <2>3 DEF Bijection, Injection, Surjection, IsInjective
    <2>5. ExistsBijection(holding, in_use)
      BY <2>4 DEF ExistsBijection
    <2> QED
      BY <1>4, <2>5, FS_Bijection
  <1>7. Cardinality(table) = Cardinality(in_use) + Cardinality(without)
    <2>1. table = in_use \cup without /\ in_use \cap without = {}
      BY <1>0
    <2> HIDE DEF without
    <2>2. Cardinality(table) = Cardinality(in_use) + Cardinality(without) - Cardinality(in_use \cap without)
      BY <1>4, <2>1, FS_Union
    <2>3. Cardinality(in_use \cap without) = 0
      BY <2>1, FS_EmptySet
    <2> QED
      BY <1>4, <2>2, <2>3
  <1>8. Cardinality(without) # 0
    <2>1. p \in without
      BY <1>2
    <2> HIDE DEF without
    <2> QED
      BY <1>4, <2>1, FS_EmptySet
  <1> HIDE DEF leaked, holding, without
  <1>9. Cardinality(leaked) = Cardinality(without)
    <2>1. Cardinality(SlotsUsed) = Cardinality(table)
      BY <1>1
    <2> QED
      BY <1>4, <1>5, <1>6, <1>7, <2>1
  <1>10. leaked # {}
    BY <1>4, <1>8, <1>9, FS_EmptySet
  <1> QED
    BY <1>3, <1>9, <1>10

-----------------------------------------------------------------------------

LEMMA DataModelChangeKeeps ==
    ASSUME BulkInd, DataModelChange
    PROVE  BulkInd' /\ OldestGoFirst
  BY AddedKeeps, NotAddedKeeps, DeletedKeeps, ChangeTimingKeeps, GlobalEnableKeeps,
     ProfileEnableKeeps, RetryEnableKeeps, AssertedKeeps
     DEF DataModelChange

LEMMA ProcessProfileKeeps ==
    ASSUME BulkInd, ProcessProfile
    PROVE  BulkInd' /\ OldestGoFirst
  <1>1. PICK p \in Profiles :
            \/ ProcessGone(p)
            \/ ProcessLater(p)
            \/ ProcessUspEvent(p)
            \/ ProcessFails(p, reports[p])
            \/ \E keep \in 0..MaxRetained :
                \/ ProcessHttp(p, keep)
                \/ ProcessFails(p, Collected(p, keep))
                \/ \E ok \in BOOLEAN : ProcessAtOnce(p, keep, ok)
    BY DEF ProcessProfile
  <1>2. 0 \in 0..MaxRetained
    OBVIOUS
  <1>3. ASSUME ProcessFails(p, reports[p]) PROVE BulkInd' /\ OldestGoFirst
    BY <1>2, <1>3, ProcessFailsKeeps
  <1>4. ASSUME NEW keep \in 0..MaxRetained, ProcessFails(p, Collected(p, keep))
        PROVE  BulkInd' /\ OldestGoFirst
    BY <1>4, ProcessFailsKeeps
  <1> QED
    BY <1>1, <1>3, <1>4, ProcessGoneKeeps, ProcessLaterKeeps,
       ProcessUspEventKeeps, ProcessHttpKeeps, ProcessAtOnceKeeps

LEMMA BdcStepKeeps ==
    ASSUME BulkInd, BdcStep
    PROVE  BulkInd' /\ OldestGoFirst
  BY StartSendingKeeps, DropReportKeeps, TransferCompleteKeeps DEF BdcStep

LEMMA BulkNextKeeps ==
    ASSUME BulkInd, [BulkNext]_bulkVars
    PROVE  BulkInd' /\ OldestGoFirst
  <1>1. CASE BulkNext
    BY <1>1, DataModelChangeKeeps, ProcessProfileKeeps, HandleResultKeeps, BdcStepKeeps DEF BulkNext
  <1>2. CASE UNCHANGED bulkVars
    <2>0. in_use' = in_use /\ (NoLeakIsOn' <=> NoLeakIsOn) /\ OneSlotEach'
      BY <1>2, SlotsUnchanged DEF bulkVars
    <2>1. BulkTypeOK' /\ IsFiniteSet(table') /\ ReportsFit'
      BY <1>2, <2>0 DEF bulkVars, BulkInd, BulkTypeOK, ReportsFit
    <2>2. TimersStep
      BY <1>2, <2>0, InFlightUnchanged DEF bulkVars, BulkInd, TimersStep, OwnsTimers, TimerOwned, CycleTakenOn, Started
    <2> QED
      BY <1>2, <2>0, <2>1, <2>2, BulkCombined, SameOrCleared DEF bulkVars
  <1> QED
    BY <1>1, <1>2

\* For any number of profiles, slots and retained reports, and whatever is changed, deleted
\* or fails meanwhile: while no slot has leaked with is_enabled set (NoLeakIsOn), a profile
\* owns a timer exactly when it is started, and a started profile has an armed timer or a
\* transfer under way, unless one of the two silent ends has cut its cycle: an early return
\* of bulkdata_process_profile, or a report that the BDC thread dropped (stalled).  In any
\* case its retained reports fit and the overall status shows its error.
THEOREM BulkReporting == BulkSpec => []ReportingGoesOn
  <1>1. BulkInd /\ [BulkNext]_bulkVars => BulkInd'
    BY BulkNextKeeps
  <1>2. BulkInd => ReportingGoesOn
    BY StatusFollows DEF BulkInd, ReportingGoesOn
  <1> QED
    BY BulkInitHolds, <1>1, <1>2, PTL DEF BulkSpec

\* bulkdata_drop_oldest_retained_reports gives up the oldest reports, never a newer
\* one, in every step of every behaviour.
THEOREM BulkKeepsNewest == BulkSpec => KeepsNewest
  <1>1. BulkInd /\ [BulkNext]_bulkVars => BulkInd'
    BY BulkNextKeeps
  <1>2. BulkInd /\ [BulkNext]_bulkVars =>
            [\A p \in Profiles :
                \E n \in 0..Len(reports[p]) :
                    LET rest == SubSeq(reports[p], n + 1, Len(reports[p])) IN
                    reports'[p] \in {rest, Append(rest, fires'), <<>>}]_bulkVars
    BY BulkNextKeeps DEF OldestGoFirst
  <1> QED
    BY BulkInitHolds, <1>1, <1>2, PTL DEF BulkSpec, KeepsNewest

=============================================================================
