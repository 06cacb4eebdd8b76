------------------------------ MODULE BulkData ------------------------------
(***************************************************************************)
(* Bulk data collection: device_bulkdata.c in the data model (DM) thread   *)
(* and bdc_exec.c in the bulk data (BDC) thread.                           *)
(*                                                                         *)
(* An enabled profile owns a one-shot timer.  When it fires a report is    *)
(* collected and, together with retained reports that failed before, given *)
(* to the BDC thread, which sends it and posts the result back; handling   *)
(* the result re-arms the timer, for the next interval or for a retry.     *)
(*                                                                         *)
(* The instants at which timers fire are abstracted: an armed timer may    *)
(* fire at any time, and whether a retry comes before the next interval is *)
(* chosen freely, as RETRY_WAIT_Calculate is random.                       *)
(***************************************************************************)
EXTENDS Integers, Sequences, FiniteSets, Functions

CONSTANTS
    Profiles,       \* instance numbers of Device.BulkData.Profile
    MaxProfiles,    \* BULKDATA_MAX_PROFILES
    MaxRetained,    \* BULKDATA_MAX_RETAINED_FAILED_REPORTS
    Faults,         \* what may fail besides the transfers
    MaxFires        \* bound: number of times a timer fires

\* An instance number is not the mark of a free connection, or of a slot without profile.
ASSUME ProfilesAssumption == Profiles \cap {"none", "free", "off", "on"} = {}
ASSUME SlotsAssumption == MaxProfiles \in Nat \ {0}
ASSUME RetainedAssumption == MaxRetained \in Nat
ASSUME FaultsAssumption == Faults \subseteq {"read", "collect", "curl"}
ASSUME BoundAssumption == MaxFires \in Nat

VARIABLES
    table,              \* instances in the data model
    profile_id,         \* of each slot of bulkdata_profiles[]
    global_enable,
    is_enabled, is_working, retry_enable, retry_count,
    reports,            \* retained reports of each profile, oldest first
    timer,              \* the profile's sync timer
    timer_0,            \* there is a sync timer with the id 0
    bdc_mq,             \* reports posted to the BDC thread
    bdc_connection,     \* transfers in progress
    main_mq,            \* results posted to the DM thread
    fires,              \* number of timers fired; numbers the reports
    stalled,            \* history: profiles whose cycle was cut by an error exit
    asserted            \* USP_ASSERT has failed

profileVars == <<is_enabled, is_working, retry_enable>>
slotVars == <<table, profile_id, asserted>>
bdcVars  == <<bdc_mq, bdc_connection>>
bulkVars == <<table, profile_id, asserted, global_enable, is_enabled, is_working,
          retry_enable, retry_count, reports, timer, timer_0, bdc_mq, bdc_connection,
          main_mq, fires, stalled>>

-----------------------------------------------------------------------------

Slots == 1..MaxProfiles
Report == 1..MaxFires
Transfer == [profile: Profiles, reports: Seq(Report)]
NoTransfer == [profile |-> "none", reports |-> <<>>]
Result == [profile: Profiles, reports: Seq(Report), ok: BOOLEAN]

\* A slot whose profile_id is INVALID is free.  One whose profile could not be read was
\* cleared, so its profile_id is 0 and it stays: "on" if is_enabled was read before.
Leaks == {"off", "on"}
in_use == {p \in Profiles : \E s \in Slots : profile_id[s] = p}

BulkTypeOK ==
    /\ table \subseteq Profiles
    /\ profile_id \in [Slots -> Profiles \cup Leaks \cup {"free"}]
    /\ in_use \subseteq table
    /\ asserted \in BOOLEAN
    /\ global_enable \in BOOLEAN
    /\ is_enabled \in [Profiles -> BOOLEAN]
    /\ is_working \in [Profiles -> BOOLEAN]
    /\ retry_enable \in [Profiles -> BOOLEAN]
    /\ retry_count \in [Profiles -> Nat]
    /\ reports \in [Profiles -> Seq(Report)]
    /\ timer \in [Profiles -> {"none", "fired", "armed"}]
    /\ timer_0 \in BOOLEAN
    /\ bdc_mq \in Seq(Transfer)
    /\ bdc_connection \in [Slots -> Transfer \cup {NoTransfer}]
    /\ main_mq \in Seq(Result)
    /\ fires \in 0..MaxFires
    /\ stalled \subseteq Profiles

\* DEVICE_BULKDATA_Init and BDC_EXEC_Init; the database holds no profile yet.
BulkInit ==
    /\ table = {}
    /\ profile_id = [s \in Slots |-> "free"]
    /\ asserted = FALSE
    /\ global_enable = FALSE
    /\ is_enabled = [p \in Profiles |-> FALSE]
    /\ is_working = [p \in Profiles |-> FALSE]
    /\ retry_enable = [p \in Profiles |-> FALSE]
    /\ retry_count = [p \in Profiles |-> 0]
    /\ reports = [p \in Profiles |-> <<>>]
    /\ timer = [p \in Profiles |-> "none"]
    /\ timer_0 = FALSE
    /\ bdc_mq = <<>>
    /\ bdc_connection = [s \in Slots |-> NoTransfer]
    /\ main_mq = <<>>
    /\ fires = 0
    /\ stalled = {}

Started(p) == p \in in_use /\ is_enabled[p] /\ global_enable

-----------------------------------------------------------------------------
(* Sync timers and the helpers of device_bulkdata.c.                       *)

\* SYNC_TIMER_Add, SYNC_TIMER_Reload and SYNC_TIMER_Remove.
TimerAdd(t)    == IF t = "none" THEN "armed" ELSE t
TimerReload(t) == IF t = "none" THEN t ELSE "armed"
TimerRemove(t) == "none"

\* bulkdata_resync_profile: rc is the retry count so far.  If the retry does not
\* come first it is cancelled.
Resync(p, rc) ==
    /\ \E retry_first \in BOOLEAN :
            retry_count' = [retry_count EXCEPT ![p] = IF retry_first THEN rc ELSE 0]
    /\ timer' = IF Started(p) THEN [timer EXCEPT ![p] = TimerReload(@)] ELSE timer
    /\ stalled' = IF Started(p) THEN stalled \ {p} ELSE stalled

\* Mutant of DropOldest: the wrong end of the array is moved down.
DropNewest(s, keep) ==
    IF Len(s) > keep THEN SubSeq(s, 1, keep) ELSE s

\* bulkdata_drop_oldest_retained_reports.
DropOldest(s, keep) ==
    IF Len(s) > keep THEN SubSeq(s, Len(s) - keep + 1, Len(s)) ELSE s

\* Mutant of NotifyTransferResult: a failure that is not retried is not resynced.
ResultForgotten(p, ok, rep) ==
    LET rc == IF ok THEN 0
              ELSE IF retry_enable[p] THEN retry_count[p] + 1 ELSE retry_count[p]
    IN
    /\ reports' = [reports EXCEPT ![p] = IF ok THEN <<>> ELSE rep]
    /\ is_working' = [is_working EXCEPT ![p] = ok]
    /\ IF ok \/ retry_enable[p]
       THEN Resync(p, rc)
       ELSE UNCHANGED <<retry_count, timer, stalled>>

\* DEVICE_BULKDATA_NotifyTransferResult, for a profile that has a slot; rep are the
\* reports it retains by then.
NotifyTransferResult(p, ok, rep) ==
    LET rc == IF ok THEN 0
              ELSE IF retry_enable[p] THEN retry_count[p] + 1 ELSE retry_count[p]
    IN
    /\ reports' = [reports EXCEPT ![p] = IF ok THEN <<>> ELSE rep]
    /\ is_working' = [is_working EXCEPT ![p] = ok]
    /\ Resync(p, rc)

\* Mutant of StopProfiles: the reports are kept but the timer is left.
StopKeepsTimer(S) ==
    /\ reports' = [p \in Profiles |-> IF p \in S THEN <<>> ELSE reports[p]]
    /\ retry_count' = [p \in Profiles |-> IF p \in S THEN 0 ELSE retry_count[p]]
    /\ UNCHANGED timer
    /\ stalled' = stalled \ S

\* bulkdata_stop_profile, for each profile of S.
StopProfiles(S) ==
    /\ reports' = [p \in Profiles |-> IF p \in S THEN <<>> ELSE reports[p]]
    /\ retry_count' = [p \in Profiles |-> IF p \in S THEN 0 ELSE retry_count[p]]
    /\ timer' = [p \in Profiles |-> IF p \in S THEN TimerRemove(timer[p]) ELSE timer[p]]
    /\ stalled' = stalled \ S

\* bulkdata_start_profile, for each profile of S.
StartProfiles(S) ==
    /\ timer' = [p \in Profiles |-> IF p \in S THEN TimerAdd(timer[p]) ELSE timer[p]]
    /\ UNCHANGED <<reports, retry_count, stalled>>

-----------------------------------------------------------------------------
(* Changes to the data model, in the DM thread.                            *)

\* bulkdata_find_free_profile.
IsFirstFree(s) == profile_id[s] = "free" /\ \A r \in 1..(s - 1) : profile_id[r] # "free"
NoSlotFree == \A s \in Slots : profile_id[s] # "free"

\* Validate_AddBulkDataProfile and Notify_BulkDataProfileAdded.  A profile for which a
\* timer is left, and that is to be started now, gives the slot back.
ProfileAdded(p, enable, retry) ==
    /\ p \notin table
    /\ Cardinality(table) < MaxProfiles
    /\ ~ (enable /\ global_enable /\ timer[p] # "none")
    /\ \E s \in Slots : /\ IsFirstFree(s)
                       /\ profile_id' = [profile_id EXCEPT ![s] = p]
    /\ table' = table \cup {p}
    /\ is_enabled' = [is_enabled EXCEPT ![p] = enable]
    /\ is_working' = [is_working EXCEPT ![p] = TRUE]
    /\ retry_enable' = [retry_enable EXCEPT ![p] = retry]
    /\ retry_count' = [retry_count EXCEPT ![p] = 0]
    /\ reports' = [reports EXCEPT ![p] = <<>>]
    /\ timer' = IF enable /\ global_enable THEN [timer EXCEPT ![p] = TimerAdd(@)]
                                           ELSE timer
    /\ UNCHANGED <<timer_0, asserted, global_enable, main_mq, fires, stalled>>
    /\ UNCHANGED bdcVars

\* The same when there is no slot, when the profile's timer exists, or when one of the
\* reads fails: the first, of Enable, or a later one with the value of Enable read.
ProfileNotAdded(p) ==
    /\ p \notin table
    /\ Cardinality(table) < MaxProfiles
    /\ \/ (NoSlotFree \/ (global_enable /\ timer[p] # "none")) /\ UNCHANGED profile_id
       \/ /\ "read" \in Faults
          /\ \E s \in Slots, leak \in Leaks :
                /\ IsFirstFree(s)
                /\ profile_id' = [profile_id EXCEPT ![s] = leak]
    /\ table' = table \cup {p}
    /\ UNCHANGED <<asserted, global_enable, retry_count, reports, timer, timer_0,
                   main_mq, fires, stalled>>
    /\ UNCHANGED <<bdcVars, profileVars>>

\* Notify_BulkDataProfileDeleted; NotifyControllerDeleted comes to this too.  Nothing
\* reads a slot that is not in use, so what is left in it is as good as cleared.
ProfileDeleted(p) ==
    /\ p \in table
    /\ table' = table \ {p}
    /\ profile_id' = [s \in Slots |-> IF profile_id[s] = p THEN "free" ELSE profile_id[s]]
    /\ timer' = IF Started(p) THEN [timer EXCEPT ![p] = TimerRemove(@)] ELSE timer
    /\ stalled' = stalled \ {p}
    /\ reports' = [reports EXCEPT ![p] = <<>>]
    /\ retry_count' = [retry_count EXCEPT ![p] = 0]
    /\ is_enabled' = [is_enabled EXCEPT ![p] = FALSE]
    /\ is_working' = [is_working EXCEPT ![p] = FALSE]
    /\ retry_enable' = [retry_enable EXCEPT ![p] = FALSE]
    /\ UNCHANGED <<timer_0, asserted, global_enable, main_mq, fires>>
    /\ UNCHANGED bdcVars

\* A slot that GlobalEnable starts or stops, and whether there is a timer with its id.
SlotEnabled(s) ==
    \/ profile_id[s] = "on"
    \/ profile_id[s] \in Profiles /\ is_enabled[profile_id[s]]
SlotHasTimer(s) ==
    IF profile_id[s] \in Profiles THEN timer[profile_id[s]] # "none" ELSE timer_0

\* SYNC_TIMER_Add finds a timer with the slot's id, or SYNC_TIMER_Remove finds none: all
\* leaked slots have the same id.
SlotFails(s, value) ==
    /\ SlotEnabled(s)
    /\ \/ SlotHasTimer(s) = value
       \/ profile_id[s] = "on" /\ \E r \in 1..(s - 1) : profile_id[r] = "on"

\* The slots that are started or stopped before the first error returns.
SlotsReached(value) ==
    {s \in Slots : SlotEnabled(s) /\ \A r \in 1..s : ~ SlotFails(r, value)}

\* NotifyChange_BulkDataGlobalEnable.  The reports of a profile that has no timer to stop
\* are cleared before the error.
GlobalEnable(value) ==
    LET reached == SlotsReached(value)
        failing == {s \in Slots : /\ SlotFails(s, value)
                                  /\ \A r \in 1..(s - 1) : ~ SlotFails(r, value)}
        of(S) == {p \in Profiles : \E s \in S : profile_id[s] = p}
    IN
    /\ value # global_enable
    /\ global_enable' = value
    /\ timer_0' = IF \E s \in reached : profile_id[s] = "on" THEN value ELSE timer_0
    /\ IF value THEN StartProfiles(of(reached)) ELSE StopProfiles(of(reached \cup failing))
    /\ UNCHANGED <<main_mq, fires>>
    /\ UNCHANGED <<slotVars, bdcVars, profileVars>>

\* If the read that failed was that of ReportingInterval it is 0, and the wait until the
\* next report cannot be calculated: GlobalEnable or AllowConnect divides by zero.
DivideByZero ==
    /\ \E s \in Slots : /\ profile_id[s] = "on"
                        /\ global_enable \/ \A r \in 1..(s - 1) : ~ SlotFails(r, TRUE)
    /\ asserted' = TRUE
    /\ UNCHANGED <<table, profile_id, global_enable, retry_count, reports,
                   timer, timer_0, main_mq, fires, stalled>>
    /\ UNCHANGED <<bdcVars, profileVars>>

\* NotifyChange_BulkDataProfileEnable.
ProfileEnable(p, value) ==
    /\ p \in in_use
    /\ value # is_enabled[p]
    /\ is_enabled' = [is_enabled EXCEPT ![p] = value]
    /\ IF ~ global_enable THEN UNCHANGED <<reports, retry_count, timer, stalled>>
       ELSE IF value THEN StartProfiles({p})
       ELSE StopProfiles({p})
    /\ UNCHANGED <<timer_0, global_enable, is_working, retry_enable, main_mq, fires>>
    /\ UNCHANGED <<slotVars, bdcVars>>

\* NotifyChange_BulkDataRetryEnable.
RetryEnable(p, value) ==
    /\ p \in in_use
    /\ value # retry_enable[p]
    /\ retry_enable' = [retry_enable EXCEPT ![p] = value]
    /\ UNCHANGED <<global_enable, is_enabled, is_working, retry_count, reports,
                   timer, timer_0, main_mq, fires, stalled>>
    /\ UNCHANGED <<slotVars, bdcVars>>

\* NotifyChange_BulkDataReportingInterval, TimeReference, RetryMinimumWaitInterval
\* and RetryIntervalMultiplier; DEVICE_BULKDATA_AllowConnect does this for
\* every started profile.
ChangeTiming(p) ==
    /\ p \in in_use
    /\ Resync(p, retry_count[p])
    /\ UNCHANGED <<timer_0, global_enable, reports, main_mq, fires>>
    /\ UNCHANGED <<slotVars, bdcVars, profileVars>>

\* All NotifyChange functions assert that the profile has a slot.
ChangeWithoutSlot ==
    /\ table # in_use
    /\ asserted' = TRUE
    /\ UNCHANGED <<table, profile_id, global_enable, retry_count, reports,
                   timer, timer_0, main_mq, fires, stalled>>
    /\ UNCHANGED <<bdcVars, profileVars>>

-----------------------------------------------------------------------------
(* bulkdata_process_profile, called when the profile's timer fires.         *)

Fire(p) ==
    /\ timer[p] = "armed"
    /\ p \in in_use
    /\ fires < MaxFires
    /\ fires' = fires + 1

\* Mutant of Collected: the oldest reports are not dropped.
CollectedUnlimited(p, keep) ==
    IF retry_count[p] # 0 THEN reports[p] ELSE Append(reports[p], fires + 1)

\* Reports to send: those retained, and a new one if this is not a retry.  At most
\* keep old ones stay: NumberOfRetainedFailedReports.
Collected(p, keep) ==
    IF retry_count[p] # 0 THEN reports[p]
                          ELSE Append(DropOldest(reports[p], keep), fires + 1)

\* The timer of a profile that has no slot was left behind.
ProcessGone(p) ==
    /\ timer[p] = "armed"
    /\ p \notin in_use
    /\ timer' = [timer EXCEPT ![p] = "fired"]
    /\ UNCHANGED <<timer_0, retry_count, reports, stalled, global_enable, main_mq, fires>>
    /\ UNCHANGED <<slotVars, bdcVars, profileVars>>

\* MTPs must not be connected to yet.
ProcessLater(p) ==
    /\ Fire(p)
    /\ \E retry_first \in BOOLEAN :
            retry_count' = [retry_count EXCEPT ![p] = IF retry_first THEN @ ELSE 0]
    /\ UNCHANGED <<timer, timer_0, stalled, reports, global_enable, main_mq>>
    /\ UNCHANGED <<slotVars, bdcVars, profileVars>>

\* bulkdata_process_profile_http hands the reports to the BDC thread.
ProcessHttp(p, keep) ==
    LET rep == Collected(p, keep) IN
    /\ Fire(p)
    /\ timer' = [timer EXCEPT ![p] = "fired"]
    /\ reports' = [reports EXCEPT ![p] = rep]
    /\ bdc_mq' = Append(bdc_mq, [profile |-> p, reports |-> rep])
    /\ UNCHANGED <<timer_0, retry_count, stalled, global_enable, main_mq, bdc_connection>>
    /\ UNCHANGED <<slotVars, profileVars>>

\* The report cannot be scheduled (the URL is empty), or the protocol is MQTT and
\* bulkdata_process_profile_mqtt queued it, or failed to.
ProcessAtOnce(p, keep, ok) ==
    LET rep == Collected(p, keep) IN
    /\ Fire(p)
    /\ NotifyTransferResult(p, ok, rep)
    /\ UNCHANGED <<timer_0, global_enable, is_enabled, retry_enable, main_mq>>
    /\ UNCHANGED <<slotVars, bdcVars>>

\* bulkdata_process_profile_usp_event: sent as an event, never retained.
ProcessUspEvent(p) ==
    /\ Fire(p)
    /\ reports' = [reports EXCEPT ![p] = <<>>]
    /\ retry_count' = [retry_count EXCEPT ![p] = 0]
    /\ UNCHANGED <<timer, timer_0, stalled, global_enable, main_mq>>
    /\ UNCHANGED <<slotVars, bdcVars, profileVars>>

\* The early returns: a parameter cannot be read, or the report cannot be
\* collected or generated.  Nothing re-arms the timer.
ProcessFails(p, rep) ==
    /\ "collect" \in Faults
    /\ Fire(p)
    /\ timer' = [timer EXCEPT ![p] = "fired"]
    /\ reports' = [reports EXCEPT ![p] = rep]
    /\ stalled' = stalled \cup {p}
    /\ UNCHANGED <<timer_0, retry_count, global_enable, main_mq>>
    /\ UNCHANGED <<slotVars, bdcVars, profileVars>>

\* kDmExecMsg_BdcTransferResult.  The profile may have been deleted meanwhile.
HandleResult ==
    LET r == Head(main_mq) IN
    /\ main_mq # <<>>
    /\ main_mq' = Tail(main_mq)
    /\ IF r.profile \in in_use
       THEN NotifyTransferResult(r.profile, r.ok, reports[r.profile])
       ELSE UNCHANGED <<reports, is_working, retry_count, timer, stalled>>
    /\ UNCHANGED <<timer_0, global_enable, is_enabled, retry_enable, fires>>
    /\ UNCHANGED <<slotVars, bdcVars>>

-----------------------------------------------------------------------------
(* The BDC thread.                                                         *)

FreeSlots == {s \in Slots : bdc_connection[s] = NoTransfer}
BdcUnchanged ==
    /\ UNCHANGED <<global_enable, retry_count, reports, timer, timer_0, fires>>
    /\ UNCHANGED <<slotVars, profileVars>>

\* ProcessBdcMessageQueueSocketActivity: the transfer takes the first free slot.
StartSendingReport ==
    /\ bdc_mq # <<>>
    /\ bdc_mq' = Tail(bdc_mq)
    /\ \E first \in FreeSlots :
            /\ \A s \in FreeSlots : first <= s
            /\ bdc_connection' = [bdc_connection EXCEPT ![first] = Head(bdc_mq)]
    /\ UNCHANGED <<main_mq, stalled>>
    /\ BdcUnchanged

\* No slot is free, or libcurl refuses the transfer: the report is freed and the
\* DM thread is told nothing.
DropReport ==
    /\ bdc_mq # <<>>
    /\ FreeSlots = {} \/ "curl" \in Faults
    /\ bdc_mq' = Tail(bdc_mq)
    /\ stalled' = stalled \cup {Head(bdc_mq).profile}
    /\ UNCHANGED <<main_mq, bdc_connection>>
    /\ BdcUnchanged

\* HandleBdcTransferComplete.
TransferComplete(s, ok) ==
    LET t == bdc_connection[s] IN
    /\ t # NoTransfer
    /\ bdc_connection' = [bdc_connection EXCEPT ![s] = NoTransfer]
    /\ main_mq' = Append(main_mq, [profile |-> t.profile, reports |-> t.reports,
                                   ok |-> ok])
    /\ UNCHANGED <<bdc_mq, stalled>>
    /\ BdcUnchanged

-----------------------------------------------------------------------------

DataModelChange ==
    \/ \E p \in Profiles, enable, retry \in BOOLEAN : ProfileAdded(p, enable, retry)
    \/ \E p \in Profiles : ProfileNotAdded(p) \/ ProfileDeleted(p) \/ ChangeTiming(p)
    \/ \E value \in BOOLEAN : GlobalEnable(value)
    \/ \E p \in Profiles, value \in BOOLEAN :
            ProfileEnable(p, value) \/ RetryEnable(p, value)
    \/ ChangeWithoutSlot
    \/ DivideByZero

ProcessProfile ==
    \E p \in Profiles :
        \/ ProcessGone(p)
        \/ ProcessLater(p)
        \/ ProcessUspEvent(p)
        \/ ProcessFails(p, reports[p])
        \/ \E keep \in 0..MaxRetained :
            \/ ProcessHttp(p, keep)
            \/ ProcessFails(p, Collected(p, keep))
            \/ \E ok \in BOOLEAN : ProcessAtOnce(p, keep, ok)

BdcStep ==
    \/ StartSendingReport
    \/ DropReport
    \/ \E s \in Slots, ok \in BOOLEAN : TransferComplete(s, ok)

BulkNext == ~ asserted /\ (DataModelChange \/ ProcessProfile \/ HandleResult \/ BdcStep)

BulkSpec == BulkInit /\ [][BulkNext]_bulkVars

-----------------------------------------------------------------------------
(* What the data model shows.                                              *)

\* Get_BulkDataProfileStatus.
ProfileStatus(p) ==
    IF p \notin in_use THEN "Error"
    ELSE IF ~ (is_enabled[p] /\ global_enable) THEN "Disabled"
    ELSE IF is_working[p] THEN "Enabled" ELSE "Error"

SlotsUsed == {s \in Slots : profile_id[s] # "free"}
SlotInError(s) == SlotEnabled(s) /\ (profile_id[s] \in Profiles => ~ is_working[profile_id[s]])

\* Mutant of GlobalStatus: instances without a slot are not counted.
GlobalStatusOfSlots ==
    IF ~ global_enable THEN "Disabled"
    ELSE IF \E s \in SlotsUsed : SlotInError(s) THEN "Error"
    ELSE "Enabled"

\* Get_BulkDataGlobalStatus.
GlobalStatus ==
    IF ~ global_enable THEN "Disabled"
    ELSE IF \E s \in SlotsUsed : SlotInError(s) THEN "Error"
    ELSE IF Cardinality(SlotsUsed) # Cardinality(table) THEN "Error"
    ELSE "Enabled"

-----------------------------------------------------------------------------
(* Properties.                                                             *)

\* The array reports[] of a profile, which holds MaxRetained + 1 entries, is never
\* written past its end, however NumberOfRetainedFailedReports changes between
\* retries.
ReportsFit == \A p \in Profiles : Len(reports[p]) <= MaxRetained + 1

\* No slot was leaked with is_enabled set.  One that was can end a change of
\* Device.BulkData.Enable with an error (SlotFails), which leaves the slots after it as
\* they were, until the agent is restarted.
NoLeakIsOn == \A s \in Slots : profile_id[s] # "on"

\* A profile owns a sync timer exactly when it is started.  SYNC_TIMER_Add, Reload
\* and Remove fail otherwise, and the profile would never report again, or
\* bulkdata_process_profile would be called for a slot that is gone.
TimerOwned == NoLeakIsOn => \A p \in Profiles : Started(p) <=> timer[p] # "none"

\* No profile has two slots: bulkdata_find_profile would find only the first.
OneSlotEach ==
    \A r, s \in Slots : profile_id[r] \in Profiles /\ profile_id[r] = profile_id[s] => r = s

\* Whatever is in flight for a profile, the reports of which no result has come back.
InTransfer(p) ==
    \/ \E m \in Range(bdc_mq) : m.profile = p
    \/ \E s \in Slots : bdc_connection[s].profile = p
    \/ \E r \in Range(main_mq) : r.profile = p

\* The cycle of timer, transfer and result is cut in two places only, besides the leaked
\* slots: ProcessFails and DropReport, which neither re-arm the timer nor post a result.
\* Every other started profile has an armed timer or a transfer whose result will arm it.
CycleGoesOn ==
    NoLeakIsOn => \A p \in Profiles : Started(p) /\ timer[p] = "fired" =>
        InTransfer(p) \/ p \in stalled

\* When retained reports are given up, it is from the oldest on: what stays after
\* any step is the end of what was there, possibly followed by the new report.
KeepsNewest ==
    [][\A p \in Profiles :
        \E n \in 0..Len(reports[p]) :
            LET rest == SubSeq(reports[p], n + 1, Len(reports[p])) IN
            reports'[p] \in {rest, Append(rest, fires'), <<>>}]_bulkVars

\* A profile in error shows in the overall status, the profiles that have no slot
\* included.  Only leaked slots can hide it, none of them with is_enabled set, and only
\* when there are exactly as many of them as instances without a slot:
\* Get_BulkDataGlobalStatus compares numbers.
StatusesAgree ==
    LET leaked == {s \in Slots : profile_id[s] \in Leaks}
        hidden == NoLeakIsOn /\ leaked # {} /\ Cardinality(leaked) = Cardinality(table \ in_use)
    IN (\E p \in table : ProfileStatus(p) = "Error") /\ ~ hidden => GlobalStatus # "Enabled"

\* Profiles go on reporting, whatever is disabled, deleted, added again or fails in
\* between, with the two exceptions that NoLeakIsOn and stalled name: the timer, the
\* transfer and the retained reports of a started profile stay in step.  In any case the
\* retained reports stay within their bounds, and the overall status does not hide a
\* profile that has stopped with an error.
ReportingGoesOn ==
    BulkTypeOK /\ OneSlotEach /\ ReportsFit /\ TimerOwned /\ CycleGoesOn /\ StatusesAgree

\* Comment in DEVICE_BULKDATA_NotifyTransferResult: "Report(s) have been
\* successfully sent, so don't retain them".
ClearedWereSent ==
    [][\A p \in Profiles :
        main_mq # <<>> /\ main_mq' = Tail(main_mq) /\ reports'[p] # reports[p]
            => Range(reports[p]) \subseteq Range(Head(main_mq).reports)]_bulkVars
=============================================================================
