------------------------------- MODULE DmTrans -------------------------------
(***************************************************************************)
(* Transactions on the data model (dm_trans.c), the functions of           *)
(* data_model.c that run inside them, the SQLite database (database.c),    *)
(* the cache of instance numbers (dm_inst_vector.c), and the table of the  *)
(* agent's MTPs (device_mtp.c) as the one whose notify callbacks matter.   *)
(*                                                                         *)
(* An object is a sequence of table names and instance numbers:            *)
(*    <<"Conn", i>>             Device.STOMP.Connection.i                   *)
(*    <<"Mtp", i>>              Device.LocalAgent.MTP.i, with "Enable" and  *)
(*                              "Ref" (STOMP.Reference): the number of a   *)
(*                              connection, or 0 for none                  *)
(*    <<"Cont", i>>             Device.LocalAgent.Controller.i              *)
(*    <<"Cont", i, "MTP", j>>   Device.LocalAgent.Controller.i.MTP.j        *)
(* The database holds one row for every parameter of every object.         *)
(*                                                                         *)
(* Everything happens in the data model thread: between the steps nothing  *)
(* else runs, but any statement may fail and the process may be killed.    *)
(***************************************************************************)
EXTENDS Integers, SequencesExt

CONSTANTS
    MaxConn,        \* bound: connections
    MaxMtp,         \* bound: instance numbers of agent MTPs
    MaxCont,        \* bound: controllers
    MaxContMtp,     \* bound: MTPs of a controller
    MaxAgentMtps,   \* MAX_AGENT_MTPS
    MaxCalls        \* bound: calls inside a transaction

ASSUME DmTransAssumption ==
    /\ {MaxConn, MaxMtp, MaxCont, MaxContMtp, MaxCalls} \subseteq Nat
    /\ MaxAgentMtps \in Nat \ {0}

VARIABLES
    db,         \* the committed rows: a function from rows to values
    wdb,        \* the rows as the statements of this process see them
    sql,        \* whether SQLite has a transaction open
    active,     \* cur_transaction # NULL
    trans,      \* the operations of cur_transaction
    notifying,  \* the committed operations that are still to be notified
    cache,      \* the instance vectors
    agent_mtps, \* the array of agent MTPs
    known,      \* history: the objects that exist according to the events sent
    spurious,   \* history: an event was sent that said nothing new
    clean,      \* history: since the start of the process no error of a callback
                \* was ignored and every MTP deleted gave up its slot
    calls,      \* history: calls made in this transaction
    tr_pc       \* "idle", "ops", "failed", "abort" or "notify"

dmTransVars == <<db, wdb, sql, active, trans, notifying, cache, agent_mtps, known, spurious,
                 clean, calls, tr_pc>>

-----------------------------------------------------------------------------
DmTables == {<<"Conn">>, <<"Mtp">>, <<"Cont">>} \cup {<<"Cont", i, "MTP">> : i \in 1 .. MaxCont}
MaxInstance == [Conn |-> MaxConn, Mtp |-> MaxMtp, Cont |-> MaxCont, MTP |-> MaxContMtp]
DmObjects == UNION {{Append(t, i) : i \in 1 .. MaxInstance[Last(t)]} : t \in DmTables}

\* The parameters of an object that are in the database, and their values.
Params(o) == IF o[1] = "Mtp" THEN {"Enable", "Ref"} ELSE {"Alias"}
ValuesOf(p) == CASE p = "Ref" -> 0 .. MaxConn
                 [] p = "Enable" -> 0 .. 1
                 [] p = "Alias" -> {0}

RowsOf(o) == {o} \X Params(o)
DmRows == UNION {RowsOf(o) : o \in DmObjects}

Objects(d) == {r[1] : r \in DOMAIN d}
MtpsOf(d) == {o \in Objects(d) : o[1] = "Mtp"}
Referred(v) == <<"Conn", v>>

\* An object and everything nested in it.
Nested(o) == {x \in DmObjects : IsPrefix(o, x)}

\* The MTPs of database d that refer to a connection that is not in it.
Dangling(d) == {o \in MtpsOf(d) : <<o, "Ref">> \in DOMAIN d /\ d[<<o, "Ref">>] # 0
                                    /\ Referred(d[<<o, "Ref">>]) \notin Objects(d)}

\* An operation of a transaction; p and v are the parameter and value of a set.
TransOp(op, o, p, v, part) == [op |-> op, obj |-> o, param |-> p, val |-> v, part |-> part]
TransAdd(o) == TransOp("Add", o, "none", 0, FALSE)
TransDel(o) == TransOp("Del", o, "none", 0, FALSE)

AgentMtp == [instance : 0 .. MaxMtp, enable : {0, 1}, conn : 0 .. MaxConn]
FreeSlot == [instance |-> 0, enable |-> 0, conn |-> 0]

TransTypeOK ==
    /\ \A d \in {db, wdb} : DOMAIN d \subseteq DmRows /\ \A r \in DOMAIN d : d[r] \in ValuesOf(r[2])
    /\ sql \in {"none", "open"}
    /\ \A s \in {trans, notifying} : \A i \in DOMAIN s :
          /\ s[i].op \in {"Set", "Add", "Del"}
          /\ s[i].obj \in DmObjects
          /\ s[i].op = "Set" => s[i].param \in Params(s[i].obj) /\ s[i].val \in ValuesOf(s[i].param)
    /\ cache \subseteq DmObjects
    /\ known \subseteq DmObjects
    /\ agent_mtps \in [1 .. MaxAgentMtps -> AgentMtp]
    /\ tr_pc \in {"idle", "ops", "failed", "abort", "notify"}
    /\ tr_pc # "idle" => active
    /\ sql = "none" => wdb = db
    /\ notifying # <<>> => tr_pc = "notify"

-----------------------------------------------------------------------------
(***************************************************************************)
(* The array of agent MTPs.                                                *)
(***************************************************************************)
\* The first slot with an instance number, or 0.  A free slot has INVALID.
FindAgentMtpByInstance(a, i) ==
    LET S == {k \in DOMAIN a : a[k].instance = i} IN IF S = {} THEN 0 ELSE Min(S)
FindUnusedAgentMtp(a) == FindAgentMtpByInstance(a, 0)

\* DEVICE_MTP_GetStompReference: the connection an MTP refers to, 0 if the
\* parameter cannot be read or what it refers to does not exist.
GetStompReference(d, o) ==
    IF <<o, "Ref">> \in DOMAIN d /\ Referred(d[<<o, "Ref">>]) \in Objects(d) THEN d[<<o, "Ref">>] ELSE 0

SlotFor(d, o) == [instance |-> o[2], enable |-> d[<<o, "Enable">>], conn |-> GetStompReference(d, o)]

\* The array after a start with database d.
ProcessedMtps(d) ==
    LET mtps == SetToSortSeq(MtpsOf(d), LAMBDA x, y : x[2] < y[2])
    IN  [k \in 1 .. MaxAgentMtps |-> IF k \in DOMAIN mtps THEN SlotFor(d, mtps[k]) ELSE FreeSlot]

-----------------------------------------------------------------------------
\* Database d with value v in the given rows, and without the given rows.
WithRows(d, rows, v) == [r \in rows \cup DOMAIN d |-> IF r \in rows THEN v ELSE d[r]]
WithoutRows(d, rows) == [r \in DOMAIN d \ rows |-> d[r]]

\* DEVICE_MTP_Start deletes the MTPs that it cannot add to the array: their
\* reference is invalid, or all slots are taken.
BadMtps(d) ==
    LET mtps == SetToSortSeq(MtpsOf(d) \ Dangling(d), LAMBDA x, y : x[2] < y[2])
    IN  Dangling(d) \cup {mtps[k] : k \in {k \in DOMAIN mtps : k > MaxAgentMtps}}
CleanedAtStart(d) == WithoutRows(d, UNION {RowsOf(o) : o \in BadMtps(d)})

DATABASE_ReadDataModelInstanceNumbers(d) == Objects(d)

(***************************************************************************)
(* The process is killed, or an assertion fails, when the database holds   *)
(* d, and it is started again.  Controllers learn of the restart and read  *)
(* the data model afresh.                                                  *)
(***************************************************************************)
RestartedWith(d) ==
    LET started == CleanedAtStart(d)
    IN  /\ db' = started
        /\ wdb' = started
        /\ cache' = DATABASE_ReadDataModelInstanceNumbers(started)
        /\ agent_mtps' = ProcessedMtps(started)
        /\ known' = Objects(started)
        /\ sql' = "none"
        /\ active' = FALSE
        /\ trans' = <<>>
        /\ notifying' = <<>>
        /\ clean' = TRUE
        /\ calls' = 0
        /\ tr_pc' = "idle"
        /\ UNCHANGED spurious

DmTransInit ==
    /\ db = <<>>
    /\ wdb = <<>>
    /\ sql = "none"
    /\ active = FALSE
    /\ trans = <<>>
    /\ notifying = <<>>
    /\ cache = {}
    /\ agent_mtps = [k \in 1 .. MaxAgentMtps |-> FreeSlot]
    /\ known = {}
    /\ spurious = FALSE
    /\ clean = TRUE
    /\ calls = 0
    /\ tr_pc = "idle"

-----------------------------------------------------------------------------
(***************************************************************************)
(* SQLite.  Outside a transaction each statement is committed at once.     *)
(***************************************************************************)
Written(d) ==
    /\ wdb' = d
    /\ db' = IF sql = "none" THEN d ELSE db

-----------------------------------------------------------------------------
(***************************************************************************)
(* The cache of instance numbers.                                          *)
(***************************************************************************)
IsExist(o) == o = <<>> \/ \E x \in cache : IsPrefix(o, x)

InstancesOf(t) == {x[Len(t) + 1] : x \in {x \in cache : Len(x) = Len(t) + 1 /\ IsPrefix(t, x)}}

GetNextInstance(t) == 1 + Max({0} \cup InstancesOf(t))

\* Mutant: nested objects are not found.
ChildObjectsNone(o) == <<>>

\* The objects in the tables nested directly in o, in the order of the vector.
ChildObjects(o) == SetToSeq({x \in cache : Len(x) = Len(o) + 2 /\ IsPrefix(o, x)})

-----------------------------------------------------------------------------
(***************************************************************************)
(* DM_TRANS_Start.  If the vendor's part cannot start, everything is       *)
(* undone.  If SQLite cannot start, cur_transaction stays set although the *)
(* caller believes that there is no transaction; then the next start       *)
(* fails an assertion.                                                     *)
(***************************************************************************)
DM_TRANS_Start ==
    /\ tr_pc = "idle" /\ ~active
    /\ active' = TRUE
    /\ calls' = 0
    /\ \/ sql' = "open" /\ tr_pc' = "ops"
       \/ UNCHANGED <<sql, tr_pc>>
    /\ UNCHANGED <<db, wdb, trans, notifying, cache, agent_mtps, known, spurious, clean>>

StartAsserts ==
    /\ tr_pc = "idle" /\ active
    /\ RestartedWith(db)

(***************************************************************************)
(* A caller makes any number of calls.  A message deletes objects, or it   *)
(* adds them and sets parameters, but never both.                          *)
(***************************************************************************)
InTransaction(deleting) ==
    /\ tr_pc = "ops"
    /\ \A i \in DOMAIN trans : trans[i].op = "Del" <=> deleting
    /\ calls < MaxCalls
    /\ calls' = calls + 1
    /\ UNCHANGED <<sql, active, notifying, agent_mtps, known, spurious, clean>>

(***************************************************************************)
(* DATA_MODEL_AddInstance.  If one of the rows cannot be written the       *)
(* object leaves the cache and the caller aborts the transaction.          *)
(***************************************************************************)
AddInstance(t) ==
    LET n == GetNextInstance(t)
        o == Append(t, n)
    IN  /\ InTransaction(FALSE)
        /\ IsExist(Front(t))
        /\ n <= MaxInstance[Last(t)]
        /\ t = <<"Mtp">> => FindUnusedAgentMtp(agent_mtps) # 0
        /\ \/ /\ cache' = cache \cup {o}
              /\ Written(WithRows(wdb, RowsOf(o), 0))
              /\ trans' = Append(trans, TransAdd(o))
              /\ UNCHANGED tr_pc
           \/ \E rows \in SUBSET RowsOf(o) \ {RowsOf(o)} :
                /\ Written(WithRows(wdb, rows, 0))
                /\ cache' = cache \ Nested(o)
                /\ tr_pc' = "failed"
                /\ UNCHANGED trans

\* Mutant: a set is taken to be part of any add.
IsPartOfAnyAdd(o) == \E i \in DOMAIN trans : trans[i].op = "Add"

\* Whether a set is part of an add that came before it in the transaction.
IsPartOfAdd(o) == \E i \in DOMAIN trans : trans[i].op = "Add" /\ IsPrefix(trans[i].obj, o)

\* DATA_MODEL_SetParameterValue, with the validator of a reference.  A set
\* that fails changes nothing.
SetParameterValue(o, p, v) ==
    /\ InTransaction(FALSE)
    /\ IsExist(o)
    /\ p = "Ref" /\ v # 0 => IsExist(Referred(v))
    /\ Written(WithRows(wdb, {<<o, p>>}, v))
    /\ cache' = cache \cup {o}
    /\ trans' = Append(trans, TransOp("Set", o, p, v, IsPartOfAdd(o)))
    /\ UNCHANGED tr_pc

(***************************************************************************)
(* DATA_MODEL_DeleteInstance.  It fails after k of the nested objects have *)
(* been deleted, or deletes them all and the object itself.                *)
(***************************************************************************)
DeletedWith(o, k) == UNION {Nested(ChildObjects(o)[i]) : i \in 1 .. k}

\* Mutant: only the object named in the request is recorded.
DeletionsOnlyNamed(o, k) == <<TransDel(o)>>

\* The operations recorded: the object first, then those nested in it.
Deletions(o, k) ==
    <<TransDel(o)>> \o [i \in 1 .. k |-> TransDel(ChildObjects(o)[i])]

DeleteInstance(o) ==
    /\ InTransaction(TRUE)
    /\ IsExist(o)
    /\ \E k \in 0 .. Len(ChildObjects(o)) :
         /\ trans' = trans \o Deletions(o, k)
         /\ \/ /\ k = Len(ChildObjects(o))
               /\ Written(WithoutRows(wdb, UNION {RowsOf(x) : x \in DeletedWith(o, k) \cup {o}}))
               /\ cache' = cache \ Nested(o)
               /\ UNCHANGED tr_pc
            \/ /\ Written(WithoutRows(wdb, UNION {RowsOf(x) : x \in DeletedWith(o, k)}))
               /\ cache' = cache \ DeletedWith(o, k)
               /\ tr_pc' = "failed"

-----------------------------------------------------------------------------
(***************************************************************************)
(* DM_TRANS_Commit.  After a commit the operations are notified inside a   *)
(* transaction of their own, which is committed in the same way: the       *)
(* recursion of the code is a loop here.  It ends with a transaction in    *)
(* which the callbacks wrote nothing.                                      *)
(***************************************************************************)
\* Mutant: the caller commits although a call has failed.
CommittableAfterFailure == tr_pc \in {"ops", "failed"} \/ (tr_pc = "notify" /\ notifying = <<>>)

\* The caller commits when its calls succeeded, the loop when all is notified.
Committable == tr_pc = "ops" \/ (tr_pc = "notify" /\ notifying = <<>>)

CommitNothing ==
    /\ Committable
    /\ sql = "open" /\ trans = <<>>
    /\ sql' = "none"
    /\ db' = wdb
    /\ active' = FALSE
    /\ tr_pc' = "idle"
    /\ UNCHANGED <<wdb, trans, notifying, cache, agent_mtps, known, spurious, clean, calls>>

\* The transaction of the callbacks may fail to start; its error is ignored,
\* and then each statement of the callbacks is committed at once.
CommitOperations ==
    /\ Committable
    /\ sql = "open" /\ trans # <<>>
    /\ db' = wdb
    /\ notifying' = trans
    /\ trans' = <<>>
    /\ tr_pc' = "notify"
    /\ sql' \in {"open", "none"}
    /\ UNCHANGED <<wdb, active, cache, agent_mtps, known, spurious, clean, calls>>

\* The vendor's or our own commit fails: the transaction is aborted.
CommitFails ==
    /\ Committable
    /\ clean' = (clean /\ (tr_pc = "ops" \/ trans = <<>>))
    /\ tr_pc' = "abort"
    /\ UNCHANGED <<db, wdb, sql, active, trans, notifying, cache, agent_mtps, known, spurious, calls>>

\* The vendor's part of the callbacks' transaction cannot start.  That aborts
\* it, and the first callback that writes, or the commit, fails an assertion.
CascadeAsserts ==
    /\ Committable
    /\ sql = "open" /\ trans # <<>>
    /\ RestartedWith(wdb)

-----------------------------------------------------------------------------
(***************************************************************************)
(* The notify callbacks, and the events to controllers.  The errors of     *)
(* callbacks are ignored.                                                  *)
(***************************************************************************)
Notified ==
    /\ tr_pc = "notify" /\ notifying # <<>>
    /\ notifying' = Tail(notifying)
    /\ UNCHANGED <<sql, active, tr_pc, calls>>

\* NotifyChange_AgentMtpEnable takes the value from the operation,
\* NotifyChange_AgentMtpStompReference reads it from the database.
ChangedSlot(slot, dt) ==
    IF dt.param = "Enable" THEN [slot EXCEPT !.enable = dt.val]
                           ELSE [slot EXCEPT !.conn = GetStompReference(wdb, dt.obj)]

SlotOf(dt) == FindAgentMtpByInstance(agent_mtps, dt.obj[2])

NotifySet(dt) ==
    /\ dt.op = "Set"
    /\ dt.part \/ SlotOf(dt) # 0
    /\ agent_mtps' = IF dt.part THEN agent_mtps
                     ELSE [agent_mtps EXCEPT ![SlotOf(dt)] = ChangedSlot(@, dt)]
    /\ UNCHANGED <<db, wdb, trans, cache, known, spurious, clean>>

\* The callbacks of Enable and STOMP.Reference assert that the MTP has a slot.
NotifySetAsserts ==
    /\ tr_pc = "notify" /\ notifying # <<>>
    /\ LET dt == Head(notifying) IN dt.op = "Set" /\ ~dt.part /\ SlotOf(dt) = 0
    /\ RestartedWith(db)

\* Notify_AgentMtpAdded; without a free slot it fails.
NotifyAdd(dt) ==
    LET k == FindUnusedAgentMtp(agent_mtps)
        isMtp == dt.obj[1] = "Mtp"
    IN  /\ dt.op = "Add"
        /\ known' = known \cup {dt.obj}
        /\ spurious' = (spurious \/ dt.obj \in known)
        /\ agent_mtps' = IF isMtp /\ k # 0 THEN [agent_mtps EXCEPT ![k] = SlotFor(wdb, dt.obj)]
                                           ELSE agent_mtps
        /\ clean' = (clean /\ (isMtp => k # 0))
        /\ UNCHANGED <<db, wdb, trans, cache>>

EventDeleted(o) ==
    /\ known' = known \ {o}
    /\ spurious' = (spurious \/ o \notin known)

\* Notify_AgentMtpDeleted returns before it frees the slot of a disabled MTP.
NotifyMtpDel(dt) ==
    /\ dt.op = "Del" /\ dt.obj[1] = "Mtp"
    /\ EventDeleted(dt.obj)
    /\ IF SlotOf(dt) # 0 /\ agent_mtps[SlotOf(dt)].enable = 1
         THEN agent_mtps' = [agent_mtps EXCEPT ![SlotOf(dt)] = FreeSlot] /\ UNCHANGED clean
         ELSE UNCHANGED agent_mtps /\ clean' = (clean /\ SlotOf(dt) = 0)
    /\ UNCHANGED <<db, wdb, trans, cache>>

\* The MTPs whose reference to the connection o is to be removed, which may
\* fail for some of them.
Referring(o) == {<<"Mtp", agent_mtps[k].instance>> : k \in {k \in DOMAIN agent_mtps :
                     agent_mtps[k].instance # 0 /\ agent_mtps[k].conn = o[2]}}

NotifyConnDel(dt) ==
    /\ dt.op = "Del" /\ dt.obj[1] = "Conn"
    /\ EventDeleted(dt.obj)
    /\ \E S \in SUBSET {x \in Referring(dt.obj) : IsExist(x)} :
         /\ Written(WithRows(wdb, S \X {"Ref"}, 0))
         /\ trans' = trans \o SetToSeq({TransOp("Set", x, "Ref", 0, FALSE) : x \in S})
         /\ clean' = (clean /\ \A x \in Referring(dt.obj) : IsExist(x) => x \in S)
    /\ UNCHANGED <<agent_mtps, cache>>

NotifyContDel(dt) ==
    /\ dt.op = "Del" /\ dt.obj[1] = "Cont"
    /\ EventDeleted(dt.obj)
    /\ UNCHANGED <<db, wdb, trans, cache, agent_mtps, clean>>

NotifyOperation ==
    /\ Notified
    /\ LET dt == Head(notifying)
       IN  NotifySet(dt) \/ NotifyAdd(dt) \/ NotifyMtpDel(dt) \/ NotifyConnDel(dt) \/ NotifyContDel(dt)

-----------------------------------------------------------------------------
(***************************************************************************)
(* DM_TRANS_Abort undoes what the operations did to the cache, the latest  *)
(* first, and rolls the database back.                                     *)
(***************************************************************************)
DM_TRANS_Abort ==
    /\ tr_pc \in {"ops", "failed"}
    /\ tr_pc' = "abort"
    /\ UNCHANGED <<db, wdb, sql, active, trans, notifying, cache, agent_mtps, known, spurious, clean, calls>>

UndoOperation ==
    /\ tr_pc = "abort" /\ trans # <<>>
    /\ LET dt == Last(trans)
       IN  \/ dt.op = "Set" /\ UNCHANGED cache
           \/ dt.op = "Add" /\ cache' = cache \ Nested(dt.obj)
           \/ dt.op = "Del" /\ cache' = cache \cup {dt.obj}
    /\ trans' = Front(trans)
    /\ UNCHANGED <<db, wdb, sql, active, notifying, agent_mtps, known, spurious, clean, calls, tr_pc>>

RollBack ==
    /\ tr_pc = "abort" /\ trans = <<>>
    /\ wdb' = db
    /\ sql' = "none"
    /\ active' = FALSE
    /\ tr_pc' = "idle"
    /\ UNCHANGED <<db, trans, notifying, cache, agent_mtps, known, spurious, clean, calls>>

Crash == tr_pc # "idle" /\ RestartedWith(db)

-----------------------------------------------------------------------------
DmTransNext ==
    \/ DM_TRANS_Start
    \/ StartAsserts
    \/ \E t \in DmTables : AddInstance(t)
    \/ \E o \in {o \in DmObjects : o[1] = "Mtp"}, p \in {"Enable", "Ref"} :
          \E v \in ValuesOf(p) : SetParameterValue(o, p, v)
    \/ \E o \in DmObjects : DeleteInstance(o)
    \/ CommitNothing
    \/ CommitOperations
    \/ CommitFails
    \/ CascadeAsserts
    \/ NotifyOperation
    \/ NotifySetAsserts
    \/ DM_TRANS_Abort
    \/ UndoOperation
    \/ RollBack
    \/ Crash

DmTransSpec == DmTransInit /\ [][DmTransNext]_dmTransVars

-----------------------------------------------------------------------------
(***************************************************************************)
(* Properties, which hold whenever no transaction is in progress.          *)
(***************************************************************************)

(***************************************************************************)
(* The instance vectors hold exactly the objects of the database, whatever *)
(* was committed, aborted, or failed half way: an object exists after a    *)
(* restart if and only if it existed before.                               *)
(***************************************************************************)
CacheIsDatabase == tr_pc = "idle" => cache = Objects(db)

(***************************************************************************)
(* No object of the database lacks a parameter, and none is nested in an   *)
(* object that does not exist.                                             *)
(***************************************************************************)
WholeObjects ==
    tr_pc = "idle" =>
        \A o \in Objects(db) : RowsOf(o) \subseteq DOMAIN db /\ \A x \in DmObjects : IsPrefix(x, o) => x \in Objects(db)

(***************************************************************************)
(* A controller that only listens to the ObjectCreation and ObjectDeletion *)
(* events knows exactly which objects exist, and no event tells it what it *)
(* already knows.                                                          *)
(***************************************************************************)
ObserversAgree == ~spurious /\ (tr_pc = "idle" => known = Objects(db))

(***************************************************************************)
(* As long as no callback failed and no slot was kept, the array of MTPs   *)
(* holds what the database does, and no MTP refers to a connection that    *)
(* has been deleted.                                                       *)
(***************************************************************************)
ShadowAgrees ==
    tr_pc = "idle" /\ clean =>
        /\ Dangling(db) = {}
        /\ {agent_mtps[k] : k \in DOMAIN agent_mtps} \ {FreeSlot} =
             {[instance |-> o[2], enable |-> db[<<o, "Enable">>], conn |-> db[<<o, "Ref">>]] : o \in MtpsOf(db)}

(***************************************************************************)
(* device_mtp.c:1017: "Delete the agent mtp from the array, if it has not  *)
(* already been deleted".  An MTP that is not in the database any more has *)
(* no slot.                                                                *)
(***************************************************************************)
NoStaleSlot ==
    tr_pc = "idle" => \A k \in DOMAIN agent_mtps : agent_mtps[k] # FreeSlot => <<"Mtp", agent_mtps[k].instance>> \in Objects(db)

(***************************************************************************)
(* Whatever mixture of commits, aborts, failed statements and restarts was *)
(* met, the database, the instance vectors, the controllers that listen    *)
(* and the array of MTPs tell the same story between transactions.         *)
(***************************************************************************)
TransactionKept ==
    TransTypeOK /\ CacheIsDatabase /\ WholeObjects /\ ObserversAgree /\ ShadowAgrees
==============================================================================
