-------------------------------- MODULE Subs --------------------------------
(***************************************************************************)
(* The subscription table of the agent and the notifications it gives      *)
(* rise to: creation and deletion of objects, changes of values, and what  *)
(* happens to subscriptions at a restart.  The DM thread handles at most   *)
(* one message, then the timers, then the object life events of a cycle.   *)
(***************************************************************************)
EXTENDS Integers, FiniteSets

CONSTANTS
    SubIds,             \* instances of Device.LocalAgent.Subscription
    DbObjs, VendorObjs, \* objects of the database, and objects known by refreshing the instances of the vendor
    NotifiesAtStart,    \* no client connection is enabled: notifications are enabled before the first select
    EarlyCrash,         \* the agent may restart before notifications were enabled
    MaxSubMsgs, MaxWorldChanges, MaxSubRestarts

ASSUME SubsAssumption ==
    /\ NotifiesAtStart \in BOOLEAN /\ EarlyCrash \in BOOLEAN /\ DbObjs \cap VendorObjs = {}
    /\ {MaxSubMsgs, MaxWorldChanges, MaxSubRestarts} \subseteq Nat

SubTypes == {"ValueChange", "ObjectCreation", "ObjectDeletion"}

VARIABLES
    sb,         \* the state of the DM thread: see SubsInit
    sb_real,    \* vendor objects that exist
    sb_val,     \* values of the software version and of another parameter
    sb_lastver, \* LastSoftwareVersion in the database
    sb_phase,   \* "start", "sockets" or "timers"
    sb_known,   \* values that the controller was told, or that were current when it made or enabled the subscription
    sb_fresh,   \* values were polled and are unchanged since
    sb_missed,  \* object life events that an enabled subscription was not told of
    sb_msgs, sb_world, sb_restarts

sbBounds == <<sb_msgs, sb_world, sb_restarts>>
sbVars == <<sb, sb_real, sb_val, sb_lastver, sb_phase, sb_known, sb_fresh, sb_missed, sbBounds>>

NoSub == [on |-> FALSE, enable |-> FALSE, type |-> "ValueChange", persistent |-> FALSE, expired |-> FALSE,
          skip |-> FALSE, cur |-> {}, last |-> {}, lastv |-> [sw |-> 0, p |-> 0]]

\* DEVICE_SUBSCRIPTION_Init: no subscription yet, no life event, no path resolved
SubsInit ==
    /\ sb = [sub |-> [s \in SubIds |-> NoSub], obj |-> {}, ev |-> {}, cres |-> FALSE, dres |-> FALSE,
             locked |-> FALSE, booted |-> FALSE]
    /\ sb_real = {} /\ sb_val = [sw |-> 0, p |-> 0] /\ sb_lastver = 0 /\ sb_phase = "start"
    /\ sb_known = [s \in SubIds |-> [sw |-> 0, p |-> 0]] /\ sb_fresh = FALSE /\ sb_missed = {}
    /\ sb_msgs = 0 /\ sb_world = 0 /\ sb_restarts = 0
-----------------------------------------------------------------------------
(***************************************************************************)
(* Life events.  Operators map states of the DM thread to states; stale    *)
(* says that the cached instances of the vendor are to be refreshed.       *)
(***************************************************************************)
Event(b, kind, objs) == [b EXCEPT !.ev = @ \cup {<<kind, o>> : o \in objs}]

\* RefreshInstVector: at most once in a cycle
RefreshSubsInstVector(b, stale) ==
    LET new == sb_real \ b.obj
        gone == (b.obj \cap VendorObjs) \ sb_real
    IN CASE b.locked -> b
         [] ~b.locked /\ ~stale -> [b EXCEPT !.locked = TRUE]
         [] OTHER -> [Event(Event(b, "add", new), "del", gone) EXCEPT !.obj = (@ \ gone) \cup new, !.locked = TRUE]

Watching(b, type) == {s \in SubIds : b.sub[s].on /\ b.sub[s].enable /\ b.sub[s].type = type}

\* ResolveAllPathExpressions of the watching subscriptions: what they now match
ResolveAllPathExpressions(b, type, stale) ==
    LET c == RefreshSubsInstVector(b, stale) IN
    IF Watching(b, type) = {} THEN b
    ELSE [c EXCEPT !.sub = [s \in SubIds |-> IF s \in Watching(b, type) THEN [@[s] EXCEPT !.cur = c.obj] ELSE @[s]]]

DEVICE_SUBSCRIPTION_ResolveObjectCreationPaths(b, stale) ==
    IF b.cres THEN b ELSE [ResolveAllPathExpressions(b, "ObjectCreation", stale) EXCEPT !.cres = TRUE]
DEVICE_SUBSCRIPTION_ResolveObjectDeletionPaths(b, stale) ==
    IF b.dres THEN b ELSE [ResolveAllPathExpressions(b, "ObjectDeletion", stale) EXCEPT !.dres = TRUE]

\* Before the events are looked at
ResolvedForEvents(b, stale) ==
    IF \E o \in DbObjs \cup VendorObjs \cup {"sub"} : <<"add", o>> \in b.ev
    THEN DEVICE_SUBSCRIPTION_ResolveObjectDeletionPaths(DEVICE_SUBSCRIPTION_ResolveObjectCreationPaths(b, stale), stale)
    ELSE b

\* What each subscription must hear of, and what it hears of (ProcessObjectLifeEventSubscription)
Owed(b) ==
    {t \in SubIds \X {"add", "del"} \X (DbObjs \cup VendorObjs) :
        /\ <<t[2], t[3]>> \in b.ev /\ ~b.sub[t[1]].skip
        /\ t[1] \in Watching(b, IF t[2] = "add" THEN "ObjectCreation" ELSE "ObjectDeletion")}

ProcessObjectLifeEventSubscription(b) ==
    {t \in Owed(b) : t[3] \in b.sub[t[1]].cur \/ (t[2] = "del" /\ t[3] \in b.sub[t[1]].last)}

\* Mutant: the flags are not reset, so that paths are resolved once only.
ResolvedOnce(b) ==
    [b EXCEPT !.ev = {}, !.sub = [s \in SubIds |->
        IF s \in Watching(b, "ObjectDeletion") THEN [@[s] EXCEPT !.skip = FALSE, !.last = b.sub[s].cur, !.cur = {}]
        ELSE [@[s] EXCEPT !.skip = FALSE, !.cur = {}]]]

\* The rest of DEVICE_SUBSCRIPTION_ProcessAllObjectLifeEventSubscriptions: the objects that deletion subscriptions
\* matched become the baseline, and no subscription is skipped any more.
LifeEventsDone(b) ==
    LET od == Watching(b, "ObjectDeletion")
        oc == Watching(b, "ObjectCreation")
    IN [b EXCEPT !.ev = {}, !.cres = FALSE, !.dres = FALSE,
          !.sub = [s \in SubIds |->
             LET u == [@[s] EXCEPT !.skip = FALSE] IN
             CASE s \in od /\ b.dres -> [u EXCEPT !.last = u.cur, !.cur = {}]
               [] s \in oc /\ b.cres -> [u EXCEPT !.cur = {}]
               [] OTHER -> u]]

\* Whom it leaves without a notification
Missed(b) == Owed(b) \ ProcessObjectLifeEventSubscription(b)
-----------------------------------------------------------------------------
(***************************************************************************)
(* The table.                                                              *)
(***************************************************************************)
\* StartSubscription: current values are the baseline; instances are refreshed, and what that finds is not notified.
StartSubscription(b, s, stale) ==
    CASE ~b.sub[s].enable -> b
      [] b.sub[s].enable /\ b.sub[s].type = "ValueChange" -> [b EXCEPT !.sub[s].lastv = sb_val]
      [] OTHER -> [RefreshSubsInstVector(b, stale) EXCEPT !.sub[s].skip = TRUE]

\* ProcessSubscriptionAdded
ProcessSubscriptionAdded(b, s, row, stale) ==
    StartSubscription([b EXCEPT !.sub[s] = [NoSub EXCEPT !.on = TRUE, !.enable = row.enable, !.type = row.type,
                                                         !.persistent = row.persistent, !.expired = row.expired]], s, stale)

\* DATA_MODEL_DeleteInstance and NotifySubsDeleted
Deleted(b, subs) ==
    [(IF subs = {} THEN b ELSE Event(b, "del", {"sub"})) EXCEPT !.sub = [s \in SubIds |-> IF s \in subs THEN NoSub ELSE @[s]]]

\* DeleteExpiredSubscriptions, DeleteNonPersistentSubscriptions
DeleteExpiredSubscriptions(b) == Deleted(b, {s \in SubIds : b.sub[s].on /\ b.sub[s].expired})
DeleteNonPersistentSubscriptions(b) ==
    Deleted(b, {s \in SubIds : b.sub[s].on /\ (~b.sub[s].persistent \/ b.sub[s].expired)})

\* DEVICE_SUBSCRIPTION_Update.  The Boot! event, and removal at boot, only once; then values are compared, and
\* vendor instances refreshed whether or not they are stale.
Cleaned(b) ==
    LET c == DeleteExpiredSubscriptions(b) IN
    IF b.booted THEN c ELSE [DeleteNonPersistentSubscriptions(c) EXCEPT !.booted = TRUE]
ProcessAllValueChangeSubscriptions(b) ==
    [b EXCEPT !.sub = [s \in SubIds |-> IF s \in Watching(b, "ValueChange") THEN [@[s] EXCEPT !.lastv = sb_val] ELSE @[s]]]
DEVICE_SUBSCRIPTION_Update(b) ==
    DEVICE_SUBSCRIPTION_ResolveObjectDeletionPaths(
       DEVICE_SUBSCRIPTION_ResolveObjectCreationPaths(ProcessAllValueChangeSubscriptions(Cleaned(b)), TRUE), TRUE)

\* Whoever is sent a value (ProcessValueChangeSubscription)
ToldBy(b) ==
    [s \in SubIds |->
       IF s \in Watching(Cleaned(b), "ValueChange")
       THEN [sw |-> IF b.sub[s].lastv.sw # sb_val.sw THEN sb_val.sw ELSE sb_known[s].sw,
             p |-> IF b.sub[s].lastv.p # sb_val.p THEN sb_val.p ELSE sb_known[s].p]
       ELSE sb_known[s]]
-----------------------------------------------------------------------------
(***************************************************************************)
(* The DM thread.                                                          *)
(***************************************************************************)
\* DM_EXEC_EnableNotifications, before the loop or for the message that an MTP connected
EnableNotifications(stale) ==
    LET b == ResolvedForEvents(sb, stale)
        c == LifeEventsDone(b)
    IN /\ ~sb.booted
       /\ sb_missed' = sb_missed \cup Missed(b)
       /\ sb' = DEVICE_SUBSCRIPTION_Update(c)
       /\ sb_known' = ToldBy(c) /\ sb_fresh' = TRUE
       /\ UNCHANGED <<sb_real, sb_val, sb_lastver, sbBounds>>

\* DM_EXEC_Main, before its loop
EnterLoop ==
    /\ sb_phase = "start" /\ sb_phase' = "sockets"
    /\ IF NotifiesAtStart THEN EnableNotifications(TRUE)
       ELSE UNCHANGED <<sb, sb_real, sb_val, sb_lastver, sb_known, sb_fresh, sb_missed, sbBounds>>

MtpConnected ==
    /\ sb_phase = "sockets" /\ sb_phase' = "timers" /\ \E stale \in BOOLEAN : EnableNotifications(stale)

\* A message that changes the state of the DM thread to b, and the values known to the controller to k
DuringMessage(b, k) ==
    /\ sb_phase = "sockets" /\ sb_phase' = "timers" /\ sb_msgs < MaxSubMsgs /\ sb_msgs' = sb_msgs + 1
    /\ sb' = b /\ sb_known' = k
    /\ UNCHANGED <<sb_real, sb_val, sb_lastver, sb_fresh, sb_missed, sb_world, sb_restarts>>
Baseline(s) == [sb_known EXCEPT ![s] = sb_val]

NotifySubsAdded ==
    \E s \in SubIds, stale, enable, persistent \in BOOLEAN, type \in SubTypes :
       LET row == [enable |-> enable, type |-> type, persistent |-> persistent, expired |-> FALSE] IN
       /\ ~sb.sub[s].on
       /\ DuringMessage(Event(ProcessSubscriptionAdded(sb, s, row, stale), "add", {"sub"}), Baseline(s))

NotifySubsDeleted ==
    \E s \in SubIds, stale \in BOOLEAN :
       sb.sub[s].on /\ DuringMessage(Deleted(DEVICE_SUBSCRIPTION_ResolveObjectDeletionPaths(sb, stale), {s}), sb_known)

NotifyChange_SubsEnable ==
    \E s \in SubIds, stale \in BOOLEAN :
       /\ sb.sub[s].on
       /\ DuringMessage(StartSubscription([sb EXCEPT !.sub[s].enable = ~@], s, stale), IF sb.sub[s].enable THEN sb_known ELSE Baseline(s))

NotifyChange_NotifyType ==
    \E s \in SubIds, stale \in BOOLEAN, type \in SubTypes :
       /\ sb.sub[s].on /\ type # sb.sub[s].type
       /\ DuringMessage(StartSubscription([sb EXCEPT !.sub[s].type = type], s, stale), Baseline(s))

\* NotifyChange_SubsTimeToLive to a time that has passed already
NotifyChange_SubsTimeToLive ==
    \E s \in SubIds : sb.sub[s].on /\ DuringMessage(Deleted(sb, {s}), sb_known)

DEVICE_SUBSCRIPTION_NotifyControllerDeleted ==
    \E stale \in BOOLEAN :
       DuringMessage(Deleted(DEVICE_SUBSCRIPTION_ResolveObjectDeletionPaths(sb, stale), {s \in SubIds : sb.sub[s].on}), sb_known)

AddObject ==
    \E o \in DbObjs \ sb.obj : DuringMessage([Event(sb, "add", {o}) EXCEPT !.obj = @ \cup {o}], sb_known)

DeleteObject ==
    \E o \in DbObjs \cap sb.obj, stale \in BOOLEAN :
       DuringMessage([Event(DEVICE_SUBSCRIPTION_ResolveObjectDeletionPaths(sb, stale), "del", {o}) EXCEPT !.obj = @ \ {o}], sb_known)

\* A message that looks at the instances of the vendor
GetInstances == \E stale \in BOOLEAN : DuringMessage(RefreshSubsInstVector(sb, stale), sb_known)

\* Nothing to read
SelectTimesOut ==
    /\ sb_phase = "sockets" /\ sb_phase' = "timers"
    /\ UNCHANGED <<sb, sb_real, sb_val, sb_lastver, sb_known, sb_fresh, sb_missed, sbBounds>>

\* SYNC_TIMER_Execute, which may poll, then DEVICE_SUBSCRIPTION_ProcessAllObjectLifeEventSubscriptions and
\* DM_INST_VECTOR_NextLockPeriod
Timers(poll, stale) ==
    LET b == IF poll THEN DEVICE_SUBSCRIPTION_Update(sb) ELSE sb
        c == ResolvedForEvents(b, stale)
    IN /\ sb_phase = "timers" /\ sb_phase' = "sockets" /\ (poll => sb.booted)
       /\ sb_missed' = sb_missed \cup Missed(c)
       /\ sb' = [LifeEventsDone(c) EXCEPT !.locked = FALSE]
       /\ sb_known' = IF poll THEN ToldBy(sb) ELSE sb_known
       /\ sb_fresh' = (poll \/ sb_fresh)
       /\ UNCHANGED <<sb_real, sb_val, sb_lastver, sbBounds>>
EndCycle == \E poll, stale \in BOOLEAN : Timers(poll, stale)
-----------------------------------------------------------------------------
(***************************************************************************)
(* Around it.                                                              *)
(***************************************************************************)
World ==
    /\ sb_world < MaxWorldChanges /\ sb_world' = sb_world + 1 /\ sb_phase # "start"
    /\ UNCHANGED <<sb_lastver, sb_phase, sb_known, sb_missed, sb_msgs, sb_restarts>>
VendorChanges ==
    /\ World /\ \E o \in VendorObjs : sb_real' = (sb_real \cup {o}) \ (sb_real \cap {o})
    /\ UNCHANGED <<sb, sb_val, sb_fresh>>
ValueChanges == World /\ sb_val' = [sb_val EXCEPT !.p = 1 - @] /\ sb_fresh' = FALSE /\ UNCHANGED <<sb, sb_real>>
TimeToLiveEnds ==
    /\ World /\ \E s \in SubIds : sb.sub[s].on /\ sb' = [sb EXCEPT !.sub[s].expired = TRUE]
    /\ UNCHANGED <<sb_real, sb_val, sb_fresh>>

\* Mutant: every value starts from what it is now.
NoSeed(u) == [u EXCEPT !.lastv = sb_val']

\* SeedLastValueChangeValues: the software version is compared with the one of the last start.
SeedLastValueChangeValues(u) == [u EXCEPT !.lastv = [sb_val' EXCEPT !.sw = sb_lastver]]

\* The agent stops and starts, perhaps with other software: PopulateRebootInfo, DEVICE_SUBSCRIPTION_Start
Restart ==
    /\ sb_restarts < MaxSubRestarts /\ sb_restarts' = sb_restarts + 1 /\ sb_phase' = "start"
    /\ (EarlyCrash \/ sb.booted)
    /\ \E sw \in {sb_val.sw, sb_val.sw + 1} : sb_val' = [sb_val EXCEPT !.sw = sw]
    /\ sb_lastver' = sb_val'.sw
    /\ sb' = [sb EXCEPT !.ev = {}, !.cres = FALSE, !.dres = FALSE, !.locked = FALSE, !.booted = FALSE,
                !.obj = (@ \cap DbObjs) \cup sb_real,
                !.sub = [s \in SubIds |->
                   LET u == @[s]
                       row == [NoSub EXCEPT !.on = u.on, !.enable = u.enable, !.type = u.type,
                                            !.persistent = u.persistent, !.expired = u.expired]
                   IN IF u.on /\ u.enable /\ u.type = "ValueChange" THEN SeedLastValueChangeValues(row)
                      ELSE [row EXCEPT !.skip = u.on /\ u.enable]]]
    /\ sb_known' = [s \in SubIds |-> [sb_known[s] EXCEPT !.p = sb_val'.p]]
    /\ sb_fresh' = FALSE
    /\ UNCHANGED <<sb_real, sb_missed, sb_msgs, sb_world>>

SubsNext ==
    \/ EnterLoop \/ MtpConnected \/ NotifySubsAdded \/ NotifySubsDeleted \/ NotifyChange_SubsEnable
    \/ NotifyChange_NotifyType \/ NotifyChange_SubsTimeToLive \/ DEVICE_SUBSCRIPTION_NotifyControllerDeleted
    \/ AddObject \/ DeleteObject \/ GetInstances \/ SelectTimesOut \/ EndCycle
    \/ VendorChanges \/ ValueChanges \/ TimeToLiveEnds \/ Restart

SubsSpec == SubsInit /\ [][SubsNext]_sbVars
-----------------------------------------------------------------------------
\* The values of the variables.
SubsTypeOK ==
    /\ sb.obj \subseteq DbObjs \cup VendorObjs /\ sb.ev \subseteq {"add", "del"} \X (DbObjs \cup VendorObjs \cup {"sub"})
    /\ sb_phase \in {"start", "sockets", "timers"} /\ sb_real \subseteq VendorObjs

\* Every object that is created is notified to every subscription to its creation that was enabled before the
\* cycle (DEVICE_SUBSCRIPTION_ProcessAllObjectLifeEventSubscriptions): the paths are resolved after it exists.
CreationNotified == \A t \in sb_missed : t[2] # "add"

\* Nobody who was enabled before the cycle misses a creation, or a deletion by a message: paths are resolved after
\* an object exists and before it is gone (handle_delete.c, DATA_MODEL_NotifyInstanceDeleted).
LifeEventsNotified == CreationNotified /\ \A t \in sb_missed : ~(t[2] = "del" /\ t[3] \in DbObjs)

\* An object of the vendor that vanishes is notified as well: "Get a baseline set of instances, if this is an
\* object lifecycle subscription" (StartSubscription).
VanishingNotified == \A t \in sb_missed : ~(t[2] = "del" /\ t[3] \in VendorObjs)

\* After a poll every controller knows the values of its enabled subscriptions: a change since the subscription was
\* made, enabled or last notified was sent, and so was a software version that came with a restart
\* (SeedLastValueChangeValues).
ValuesKnown ==
    sb_fresh => \A s \in Watching(sb, "ValueChange") : sb_known[s] = sb_val

\* A controller that subscribed knows what it subscribed to: objects that come and go, and values.
SubsInv == SubsTypeOK /\ LifeEventsNotified /\ ValuesKnown
=============================================================================
