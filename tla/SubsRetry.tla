----------------------------- MODULE SubsRetry ------------------------------
(***************************************************************************)
(* Notifications that a controller must answer are sent again until it     *)
(* does, and the timers of the DM thread that this and other things use.   *)
(* SYNC_TIMER_Execute is one step for each entry of the vector of timers,  *)
(* because a callback adds, reloads and removes entries.                   *)
(***************************************************************************)
EXTENDS Integers, Sequences, FiniteSets, SequencesExt, FiniteSetsExt, SendQueue

CONSTANTS
    RetrySubs,      \* instances of Device.LocalAgent.Subscription
    RetryPaths,     \* paths that tell the notifications of a subscription apart
    MaxNotifs,      \* notifications sent for the first time
    MaxRequests,    \* requests with a time to answer (usp_service.c), each with a timer of its own
    EndOfRun        \* last value of the clock

\* Instances count from 1: 0 marks an entry that is to go.
ASSUME RetryAssumption == RetrySubs \subseteq Nat \ {0} /\ {MaxNotifs, MaxRequests, EndOfRun} \subseteq Nat

\* INT_MAX, which the clock does not come near to: later than any retry, whose wait is at most 1023 seconds
END_OF_TIME == EndOfRun + 1024

VARIABLES
    rt,         \* subs_retry: a sequence of entries
    rt_subs,    \* existing subscriptions, with their NotifExpiration (0 is never)
    rt_timers,  \* sync_timers
    rt_first,   \* first_sync_timer_time
    rt_at,      \* entry that SYNC_TIMER_Execute has reached, 0 when the DM thread does something else
    rt_now,     \* time(NULL); rt_cur is the time that SYNC_TIMER_Execute read
    rt_cur,
    rt_newest,  \* newest notification of a subscription and path: number, when retrying ends, whether it was sent
                \* again, and whether it was answered or the subscription deleted
    rt_net,     \* notifications that a controller may still answer
    rt_n, rt_reqs

rtVars == <<rt, rt_subs, rt_timers, rt_first, rt_at, rt_now, rt_cur, rt_newest, rt_net, rt_n, rt_reqs>>
-----------------------------------------------------------------------------
(***************************************************************************)
(* sync_timer.c.                                                           *)
(***************************************************************************)
Timer(cb, id, next) == [cb |-> cb, id |-> id, next |-> next, enabled |-> TRUE]

\* UpdateFirstSyncTimerTime
FirstSyncTimerTime(v) == Min({END_OF_TIME} \cup {v[i].next : i \in {j \in DOMAIN v : v[j].enabled}})

FindSyncTimer(v, cb, id) == Min({i \in DOMAIN v : v[i].cb = cb /\ v[i].id = id})

\* SYNC_TIMER_Add, SYNC_TIMER_Reload, SYNC_TIMER_Remove on the vector
SYNC_TIMER_Add(v, cb, id, next) == Append(v, Timer(cb, id, next))
SYNC_TIMER_Reload(v, cb, id, next) == [v EXCEPT ![FindSyncTimer(v, cb, id)] = Timer(cb, id, next)]
SYNC_TIMER_Remove(v, cb, id) == RemoveAt(v, FindSyncTimer(v, cb, id))

\* Every one of them ends with UpdateFirstSyncTimerTime.
TimersBecome(v) == rt_timers' = v /\ rt_first' = FirstSyncTimerTime(v)

\* RETRY_WAIT_Calculate with m = 1 and k = 2000: between 2^(count-1) and 2^count seconds
RETRY_WAIT_Calculate(count) ==
    LET power == <<1, 2, 4, 8, 16, 32, 64, 128, 256, 512, 1024>>
        k == IF count > 10 THEN 10 ELSE IF count <= 0 THEN 1 ELSE count
    IN power[k]..(power[k + 1] - 1)
-----------------------------------------------------------------------------
(***************************************************************************)
(* subs_retry.c.                                                           *)
(***************************************************************************)
Find(v, s, p) == {i \in DOMAIN v : v[i].sub = s /\ v[i].path = p}       \* FindRetryEntry
Marked(e) == [e EXCEPT !.sub = 0]                                       \* DestroySubsRetryEntry
Live(v) == Only(v, {e \in ToSet(v) : e.sub # 0})                        \* GarbageCollectSubsRetry

\* Mutant: the timer is only brought forward.
EarlierOnly(v) ==
    LET first == Min({END_OF_TIME} \cup {v[i].next : i \in DOMAIN v}) IN
    rt' = v /\ TimersBecome(IF first >= rt_first THEN SYNC_TIMER_Reload(rt_timers, "SubsRetryExec", 0, first) ELSE rt_timers)

\* UpdateFirstRetryTime, when the vector becomes v
UpdateFirstRetryTime(v) ==
    /\ rt' = v
    /\ TimersBecome(SYNC_TIMER_Reload(rt_timers, "SubsRetryExec", 0, Min({END_OF_TIME} \cup {v[i].next : i \in DOMAIN v})))

\* SUBS_RETRY_Add: an older notification of the same path is replaced.
SUBS_RETRY_Add(s, p, id, expiry, wait) ==
    LET e == [sub |-> s, path |-> p, id |-> id, expiry |-> expiry, count |-> 1, next |-> rt_now + wait]
        f == Find(rt, s, p)
    IN UpdateFirstRetryTime(IF f = {} THEN Append(rt, e) ELSE [rt EXCEPT ![Min(f)] = e])

\* SUBS_RETRY_Remove, SUBS_RETRY_Delete
SUBS_RETRY_Remove(id) ==
    IF \E i \in DOMAIN rt : rt[i].id = id
    THEN UpdateFirstRetryTime(Live([rt EXCEPT ![Min({i \in DOMAIN rt : rt[i].id = id})] = Marked(@)]))
    ELSE UNCHANGED <<rt, rt_timers, rt_first>>
SUBS_RETRY_Delete(s) == UpdateFirstRetryTime(Live([i \in DOMAIN rt |-> IF rt[i].sub = s THEN Marked(rt[i]) ELSE rt[i]]))

\* What SubsRetryExec makes of an entry: it expires, is sent again, and is dropped when no other retry is left.
Retried(e, wait) ==
    LET f == [e EXCEPT !.count = @ + 1, !.next = rt_now + wait] IN
    CASE rt_now >= e.expiry -> Marked(e)
      [] rt_now < e.expiry /\ rt_now < e.next -> e
      [] OTHER -> IF f.next >= f.expiry THEN Marked(f) ELSE f

SubsRetryExec(wait) == UpdateFirstRetryTime(Live([i \in DOMAIN rt |-> Retried(rt[i], wait[i])]))
-----------------------------------------------------------------------------
(***************************************************************************)
(* The DM thread.                                                          *)
(***************************************************************************)
\* DEVICE_SUBSCRIPTION_Init: a timer that is not set
RetryInit ==
    /\ rt = <<>> /\ rt_subs = [s \in RetrySubs |-> 0 - 1]
    /\ rt_timers = <<Timer("SubsRetryExec", 0, END_OF_TIME)>> /\ rt_first = END_OF_TIME
    /\ rt_at = 0 /\ rt_now = 0 /\ rt_cur = 0
    /\ rt_newest = [x \in RetrySubs \X RetryPaths |-> [id |-> 0, expiry |-> 0, tried |-> FALSE, done |-> TRUE]]
    /\ rt_net = {} /\ rt_n = 0 /\ rt_reqs = 0

Exists(s) == rt_subs[s] >= 0

\* A subscription with NotifRetry is added, with a NotifExpiration, or deleted (NotifySubsDeleted).
AddSubscription ==
    /\ rt_at = 0 /\ \E s \in RetrySubs, period \in {0, 3} : ~Exists(s) /\ rt_subs' = [rt_subs EXCEPT ![s] = period]
    /\ UNCHANGED <<rt, rt_timers, rt_first, rt_at, rt_now, rt_cur, rt_newest, rt_net, rt_n, rt_reqs>>
DeleteSubscription ==
    /\ rt_at = 0
    /\ \E s \in RetrySubs : /\ Exists(s) /\ rt_subs' = [rt_subs EXCEPT ![s] = 0 - 1] /\ SUBS_RETRY_Delete(s)
                            /\ rt_newest' = [x \in DOMAIN rt_newest |->
                                  IF x[1] = s THEN [rt_newest[x] EXCEPT !.done = TRUE] ELSE rt_newest[x]]
    /\ UNCHANGED <<rt_at, rt_now, rt_cur, rt_net, rt_n, rt_reqs>>

\* SendNotify
SendNotify ==
    /\ rt_at = 0 /\ rt_n < MaxNotifs /\ rt_n' = rt_n + 1
    /\ \E s \in RetrySubs, p \in RetryPaths, wait \in RETRY_WAIT_Calculate(1) :
          LET expiry == IF rt_subs[s] = 0 THEN END_OF_TIME ELSE rt_now + rt_subs[s] IN
          /\ Exists(s) /\ SUBS_RETRY_Add(s, p, rt_n', expiry, wait)
          /\ rt_newest' = [rt_newest EXCEPT ![<<s, p>>] = [id |-> rt_n', expiry |-> expiry, tried |-> FALSE, done |-> FALSE]]
    /\ rt_net' = rt_net \cup {rt_n'}
    /\ UNCHANGED <<rt_subs, rt_at, rt_now, rt_cur, rt_reqs>>

\* MSG_HANDLER_HandleNotifyResp: the answer may belong to a notification that a newer one replaced.
HandleNotifyResp ==
    /\ rt_at = 0
    /\ \E id \in rt_net :
          /\ rt_net' = rt_net \ {id} /\ SUBS_RETRY_Remove(id)
          /\ rt_newest' = [x \in DOMAIN rt_newest |->
                IF rt_newest[x].id = id THEN [rt_newest[x] EXCEPT !.done = TRUE] ELSE rt_newest[x]]
    /\ UNCHANGED <<rt_subs, rt_at, rt_now, rt_cur, rt_n, rt_reqs>>

\* A request of usp_service.c gets a timer; the answer, or the timer itself, removes it.
SendRequest ==
    /\ rt_at = 0 /\ rt_reqs < MaxRequests /\ rt_reqs' = rt_reqs + 1
    /\ TimersBecome(SYNC_TIMER_Add(rt_timers, "Request", rt_reqs', rt_now + 1))
    /\ UNCHANGED <<rt, rt_subs, rt_at, rt_now, rt_cur, rt_newest, rt_net, rt_n>>
RequestAnswered ==
    /\ rt_at = 0
    /\ \E i \in DOMAIN rt_timers :
          rt_timers[i].cb = "Request" /\ TimersBecome(SYNC_TIMER_Remove(rt_timers, "Request", rt_timers[i].id))
    /\ UNCHANGED <<rt, rt_subs, rt_at, rt_now, rt_cur, rt_newest, rt_net, rt_n, rt_reqs>>

\* Time passes, in select, and while messages or timers are handled.
SecondPasses ==
    /\ rt_now < EndOfRun /\ rt_now' = rt_now + 1
    /\ UNCHANGED <<rt, rt_subs, rt_timers, rt_first, rt_at, rt_cur, rt_newest, rt_net, rt_n, rt_reqs>>

\* SYNC_TIMER_Execute
SYNC_TIMER_Execute ==
    /\ rt_at = 0 /\ rt_now >= rt_first /\ rt_at' = 1 /\ rt_cur' = rt_now
    /\ UNCHANGED <<rt, rt_subs, rt_timers, rt_first, rt_now, rt_newest, rt_net, rt_n, rt_reqs>>

Next1 == UNCHANGED <<rt_subs, rt_now, rt_cur, rt_n, rt_reqs>> /\ rt_at' = rt_at + 1
Due(t) == t.enabled /\ rt_cur >= t.next

TimerNotDue ==
    /\ rt_at \in DOMAIN rt_timers /\ ~Due(rt_timers[rt_at])
    /\ Next1 /\ UNCHANGED <<rt, rt_timers, rt_first, rt_newest, rt_net>>
RetryTimer ==
    /\ rt_at \in DOMAIN rt_timers /\ Due(rt_timers[rt_at]) /\ rt_timers[rt_at].cb = "SubsRetryExec"
    /\ \E wait \in [DOMAIN rt -> UNION {RETRY_WAIT_Calculate(rt[i].count + 1) : i \in DOMAIN rt}] :
          (\A i \in DOMAIN rt : wait[i] \in RETRY_WAIT_Calculate(rt[i].count + 1)) /\ SubsRetryExec(wait)
    /\ LET again == {rt[i].id : i \in {j \in DOMAIN rt : rt_now < rt[j].expiry /\ rt_now >= rt[j].next}} IN
          /\ rt_net' = rt_net \cup again
          /\ rt_newest' = [x \in DOMAIN rt_newest |-> [rt_newest[x] EXCEPT !.tried = @ \/ rt_newest[x].id \in again]]
    /\ Next1
\* HandleUspServiceControllerMessageResponseTimeout: the timer is gone, and the one behind it moves into its place.
RequestTimer ==
    /\ rt_at \in DOMAIN rt_timers /\ Due(rt_timers[rt_at]) /\ rt_timers[rt_at].cb = "Request"
    /\ TimersBecome(SYNC_TIMER_Remove(rt_timers, "Request", rt_timers[rt_at].id))
    /\ Next1 /\ UNCHANGED <<rt, rt_newest, rt_net>>
ExecuteEnds ==
    /\ rt_at > Len(rt_timers) /\ rt_at' = 0 /\ TimersBecome(rt_timers)
    /\ UNCHANGED <<rt, rt_subs, rt_now, rt_cur, rt_newest, rt_net, rt_n, rt_reqs>>

RetryNext ==
    \/ AddSubscription \/ DeleteSubscription \/ SendNotify \/ HandleNotifyResp \/ SendRequest \/ RequestAnswered
    \/ SecondPasses \/ SYNC_TIMER_Execute \/ TimerNotDue \/ RetryTimer \/ RequestTimer \/ ExecuteEnds

RetrySpec == RetryInit /\ [][RetryNext]_rtVars
-----------------------------------------------------------------------------
RetryEntries == [sub : RetrySubs, path : RetryPaths, id : Nat, expiry : Nat, count : Nat, next : 0..(EndOfRun + 1023)]
RetryTimers == [cb : {"SubsRetryExec", "Request"}, id : Nat, next : Nat, enabled : {TRUE}]

\* The values of the variables.
RetryTypeOK ==
    /\ rt \in Seq(RetryEntries) /\ rt_timers \in Seq(RetryTimers)
    /\ \A i \in DOMAIN rt : rt[i].id \in 1..rt_n
    /\ rt_subs \in [RetrySubs -> {0 - 1, 0, 3}]
    /\ rt_at \in 0..(Len(rt_timers) + 2) /\ rt_now \in 0..EndOfRun
    /\ rt_newest \in [RetrySubs \X RetryPaths -> [id : Nat, expiry : Nat, tried : BOOLEAN, done : BOOLEAN]]
    /\ rt_net \subseteq 1..rt_n /\ rt_n \in Nat /\ rt_reqs \in Nat

\* The timer of the retries is the first of the vector and is never removed, it fires when the first of them is due,
\* and the time that the DM thread waits for is that of the first timer of all.
TimerOfRetries ==
    /\ Len(rt_timers) >= 1 /\ rt_timers[1].cb = "SubsRetryExec" /\ rt_timers[1].id = 0
    /\ \A i \in DOMAIN rt_timers : i > 1 => rt_timers[i].cb = "Request"
    /\ rt_first = FirstSyncTimerTime(rt_timers)
    /\ \A i \in DOMAIN rt : rt_timers[1].next <= rt[i].next

\* The newest notification of an existing subscription and path stays due for another try until it was answered or
\* its time is over, whatever older answers, deletions and other timers come between (SUBS_RETRY_Add,
\* SUBS_RETRY_Remove, SubsRetryExec): its entry is there, and the timer is not later than its next try.  Or its time
\* is over, or it was tried again and the next try would be too late.
Entry(x, i) == /\ rt[i].sub = x[1] /\ rt[i].path = x[2]
               /\ rt[i].id = rt_newest[x].id /\ rt[i].expiry = rt_newest[x].expiry
StillRetried ==
    \A x \in DOMAIN rt_newest :
       LET e == rt_newest[x] IN
       ~e.done => \/ \E i \in DOMAIN rt : Entry(x, i) /\ rt_first <= rt[i].next
                  \/ e.expiry # END_OF_TIME /\ (rt_now >= e.expiry \/ e.tried)

\* Notifications that wait for an answer, and the timer that they share.
RetryInv == RetryTypeOK /\ TimerOfRetries /\ StillRetried
=============================================================================
