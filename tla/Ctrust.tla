------------------------------- MODULE Ctrust -------------------------------
(***************************************************************************)
(* Roles and their permissions (device_ctrust.c), the vectors of selectors *)
(* the data model keeps for each role (inst_sel_vector.c) and the cache    *)
(* that turns a search expression of a permission into an instance number  *)
(* (se_cache.c).                                                           *)
(*                                                                         *)
(* One top level table stands for the data model.  It belongs to the agent *)
(* itself ("own": it knows of every row it adds and deletes), to the       *)
(* vendor layer ("vendor": a refresh shows what has changed) or to a USP   *)
(* Service ("service": it comes and goes and notifies its rows).  Every    *)
(* row has a unique key.  The target of a permission is the table with a   *)
(* wildcard ("*") or with a search expression for a key.                   *)
(*                                                                         *)
(* A selector is allocated with the permission's targets and is pointed at *)
(* by the permission, by the vector of the table's node and by the cache.  *)
(* A freed selector keeps its number until nothing points at it.           *)
(***************************************************************************)
EXTENDS Integers, Sequences, SequencesExt, FiniteSets

CONSTANTS
  TrustRoles,       \* MAX_CTRUST_ROLES
  TrustPerms,       \* instance numbers of permissions
  TrustKeys,        \* keys the rows may have
  TrustRows,        \* bound on instance numbers of the table
  TableKinds,       \* who the table belongs to
  NumbersReused,    \* a row may get the number of a deleted row
  MaxTrustChanges   \* bound on changes of roles and permissions

ASSUME CtrustAssumption ==
  /\ TrustRoles \in Nat \ {0} /\ TrustRows \in Nat \ {0} /\ MaxTrustChanges \in Nat
  /\ TrustPerms \subseteq Nat \ {0} /\ "*" \notin TrustKeys
  /\ TableKinds \subseteq {"own", "vendor", "service"} /\ NumbersReused \in BOOLEAN

VARIABLES
  kind,      \* who the table belongs to
  rowKeys,   \* the rows: instance number -> key, or "none"
  highest,   \* the highest number a row has had
  present,   \* the table is in the data model
  started,   \* allow_SE_resolution
  fresh,     \* nothing has changed in the vendor's rows since the last refresh
  notes,     \* notifications of the USP Service on their way
  roles,     \* roles[]
  cache,     \* selectors, tables_to_watch and the vectors of the table's node
  due,       \* roles_to_update
  changes    \* number of changes of roles and permissions so far

trustVars == <<kind, rowKeys, highest, present, started, fresh, notes, roles, cache, due, changes>>

Slots == 1..TrustRoles
RowNumbers == 1..TrustRows
Unknown == 0                   \* UNKNOWN_INSTANCE
Wildcard == -1                 \* WILDCARD_INSTANCE
SelIds == 1..(2 * TrustRoles * Cardinality(TrustPerms) + 1)
Targets == TrustKeys \cup {"*"}
NoSel == [live |-> FALSE, bits |-> FALSE, at |-> Unknown, watching |-> FALSE]
NoSe == [on |-> FALSE, last |-> Unknown, stale |-> FALSE, sels |-> {}]
NoRole == [inst |-> 0, enable |-> FALSE, perms |-> <<>>]
Live == {i \in Slots : roles[i].inst # 0}
Rows == {r \in RowNumbers : rowKeys[r] # "none"}

-----------------------------------------------------------------------------
(* The cache of search expressions: c is the record cache.                 *)

\* FixupInstanceNumberForSE
FixupInstanceNumberForSE(c, k, r) ==
  [c EXCEPT !.se[k].last = r, !.se[k].stale = FALSE,
            !.sels = [s \in SelIds |-> IF s \in c.se[k].sels THEN [@[s] EXCEPT !.at = r] ELSE @[s]]]

UnresolvedSe(c, k) == c.se[k].on /\ (c.se[k].last = Unknown \/ c.se[k].stale)
MatchingRows(k) == {r \in Rows : rowKeys[r] = k}
\* ResolvePermSE_NonUspService and USP_BROKER_ResolveSeInstance: ask for the
\* rows of the table which match.
ResolveSe(k) == IF MatchingRows(k) = {} THEN Unknown ELSE CHOOSE r \in MatchingRows(k) : TRUE

\* SE_CACHE_WatchUniqueKey: a number that is known, stale or not, is used.
SE_CACHE_WatchUniqueKey(c, k, s) ==
  LET joined == [c EXCEPT !.se[k].on = TRUE, !.se[k].sels = @ \cup {s},
                          !.sels[s].watching = TRUE, !.sels[s].at = c.se[k].last]
  IN IF c.se[k].last # Unknown \/ ~started \/ ResolveSe(k) = Unknown
       THEN joined ELSE FixupInstanceNumberForSE(joined, k, ResolveSe(k))

\* SE_CACHE_UnwatchUniqueKey: an expression nobody watches is forgotten.
SE_CACHE_UnwatchUniqueKey(c, s) ==
  [c EXCEPT !.sels[s].watching = FALSE,
            !.se = [k \in TrustKeys |->
                      IF s \notin @[k].sels THEN @[k]
                      ELSE IF @[k].sels = {s} THEN NoSe
                      ELSE [@[k] EXCEPT !.sels = @ \ {s}]]]

UnwatchIfWatching(c, s) == IF c.sels[s].watching THEN SE_CACHE_UnwatchUniqueKey(c, s) ELSE c

\* AttemptToResolveAllSEOnTable
ResolveOne(c, k) ==
  IF UnresolvedSe(c, k) /\ ResolveSe(k) # Unknown THEN FixupInstanceNumberForSE(c, k, ResolveSe(k)) ELSE c
AttemptToResolveAllSEOnTable(c) == FoldLeft(ResolveOne, c, SetToSeq(TrustKeys))

\* Seeded error: a stale number is taken for a known one.
NotifyIfUnknown(c, r, k) ==
  IF k \in TrustKeys /\ c.se[k].on /\ c.se[k].last = Unknown THEN FixupInstanceNumberForSE(c, k, r) ELSE c

\* SE_CACHE_NotifyInstanceAdded: an expression that is known is left alone.
SE_CACHE_NotifyInstanceAdded(c, r, k) ==
  IF k \in TrustKeys /\ UnresolvedSe(c, k) THEN FixupInstanceNumberForSE(c, k, r) ELSE c

\* SE_CACHE_NotifyInstanceDeleted: the number is kept, and marked stale.
SE_CACHE_NotifyInstanceDeleted(c, r) ==
  [c EXCEPT !.se = [k \in TrustKeys |-> IF @[k].on /\ @[k].last = r THEN [@[k] EXCEPT !.stale = TRUE] ELSE @[k]]]

\* SE_CACHE_RefreshPermissions: what is known is verified, the rest resolved.
ForgetIfWrong(c, k) ==
  IF c.se[k].on /\ ~UnresolvedSe(c, k) /\ rowKeys[c.se[k].last] # k
    THEN FixupInstanceNumberForSE(c, k, Unknown) ELSE c
SE_CACHE_RefreshPermissions(c) ==
  AttemptToResolveAllSEOnTable(FoldLeft(ForgetIfWrong, c, SetToSeq(TrustKeys)))

-----------------------------------------------------------------------------
(* The selectors of the permissions on the node of the table.              *)

\* INST_SEL_VECTOR_Fill: a selector for the target, unknown for an expression.
INST_SEL_VECTOR_Fill(c, s, p) ==
  [c EXCEPT !.sels[s] = [live |-> TRUE, bits |-> p.bits, watching |-> FALSE,
                         at |-> IF p.target = "*" THEN Wildcard ELSE Unknown]]
\* INST_SEL_VECTOR_Destroy with its entries: what is pointed at stays there.
INST_SEL_VECTOR_Destroy(c, s) == [UnwatchIfWatching(c, s) EXCEPT !.sels[s].live = FALSE]

Pointed(c) == UNION {Range(c.vec[i]) : i \in Slots} \cup {s \in SelIds : c.sels[s].live}
FreeSel(c) == CHOOSE s \in SelIds \ Pointed(c) : TRUE

\* ApplySearchExpressionPermissions
ApplySearchExpressionPermissions(c, p) ==
  IF c.sels[p.sel].watching \/ p.target = "*" THEN c ELSE SE_CACHE_WatchUniqueKey(c, p.target, p.sel)

\* DM_PRIV_AddPermission, for the node of the table.
DM_PRIV_AddPermission(i, c, p) ==
  ApplySearchExpressionPermissions([c EXCEPT !.vec[i] = Append(@, p.sel)], p)

\* ApplyAllPermissionsForRole, for one permission.
Apply(i, c, p) ==
  IF p.enable /\ present THEN DM_PRIV_AddPermission(i, c, p) ELSE UnwatchIfWatching(c, p.sel)

\* Seeded error: the permissions are added to what the node already holds.
ApplyWithoutClear(c, i) ==
  LET Step(x, p) == Apply(i, x, p)
  IN IF ~roles[i].enable THEN c ELSE FoldLeft(Step, c, roles[i].perms)

\* DM_PRIV_ClearPermissionsForRole, then the permissions from the lowest order.
ApplyAllPermissionsForRole(c, i) ==
  LET cleared == [c EXCEPT !.vec[i] = <<>>]
      Step(x, p) == Apply(i, x, p)
  IN IF ~roles[i].enable THEN cleared ELSE FoldLeft(Step, cleared, roles[i].perms)

\* DEVICE_CTRUST_ApplyPermissionsToSubTree, for a table that has just come.
ApplyPermissionsToSubTree(c) ==
  LET Role(x, i) == LET Step(y, p) == IF p.enable THEN DM_PRIV_AddPermission(i, y, p) ELSE y
                    IN IF roles[i].enable THEN FoldLeft(Step, x, roles[i].perms) ELSE x
  IN FoldLeft(Role, c, [i \in Slots |-> i])

-----------------------------------------------------------------------------
(* Changes of roles and permissions, each by a message of a controller.    *)

\* ScheduleRolePermissionsUpdate
Schedule(i) == due' = due \cup {roles[i].inst}
ConfigChange ==
  /\ started /\ changes < MaxTrustChanges /\ changes' = changes + 1
  /\ UNCHANGED <<kind, rowKeys, highest, present, started, fresh, notes>>

PermNo(i, n) == {j \in DOMAIN roles[i].perms : roles[i].perms[j].inst = n}
OrderTaken(i, n, o) == \E j \in DOMAIN roles[i].perms \ PermNo(i, n) : roles[i].perms[j].order = o

\* AddCTrustPermission: before the first permission of a higher order.
AddCTrustPermission(perms, p) ==
  LET before == Cardinality({j \in DOMAIN perms : perms[j].order <= p.order})
  IN InsertAt(perms, before + 1, p)

\* ValidateAdd_CTrustRole, Process_CTrustRoleAdded: instance numbers go up
\* from the highest in use; a new role has no permissions.
Notify_CTrustRoleAdded ==
  /\ ConfigChange
  /\ \E i \in Slots :
       LET insts == {roles[j].inst : j \in Slots}
           inst == 1 + CHOOSE x \in insts : \A y \in insts : y <= x
       IN /\ roles[i].inst = 0 /\ \A j \in 1..(i - 1) : roles[j].inst # 0
          /\ roles' = [roles EXCEPT ![i] = [inst |-> inst, enable |-> FALSE, perms |-> <<>>]]
          /\ due' = due \cup {inst}
  /\ UNCHANGED cache

\* Notify_CTrustRoleDeleted, FreeRole: no update of the node is scheduled.
Notify_CTrustRoleDeleted ==
  /\ ConfigChange
  /\ \E i \in Live :
       LET Free(c, p) == INST_SEL_VECTOR_Destroy(c, p.sel)
       IN /\ cache' = FoldLeft(Free, cache, roles[i].perms)
          /\ roles' = [roles EXCEPT ![i] = NoRole]
  /\ UNCHANGED due

Notify_CTrustRoleEnable ==
  /\ ConfigChange
  /\ \E i \in Live : /\ roles' = [roles EXCEPT ![i].enable = ~@]
                     /\ Schedule(i)
  /\ UNCHANGED cache

\* Notify_CTrustPermAdded, Process_CTrustPermAdded
Notify_CTrustPermAdded ==
  /\ ConfigChange
  /\ \E i \in Live, n \in TrustPerms, o \in TrustPerms, t \in Targets, b \in BOOLEAN :
       LET p == [inst |-> n, enable |-> TRUE, order |-> o, bits |-> b, target |-> t, sel |-> FreeSel(cache)]
       IN /\ PermNo(i, n) = {} /\ ~OrderTaken(i, n, o)
          /\ \A m \in TrustPerms : m < n => PermNo(i, m) # {}
          /\ roles' = [roles EXCEPT ![i].perms = AddCTrustPermission(@, p)]
          /\ cache' = INST_SEL_VECTOR_Fill(cache, p.sel, p)
          /\ Schedule(i)

\* Notify_CTrustPermDeleted, FreePermission
Notify_CTrustPermDeleted ==
  /\ ConfigChange
  /\ \E i \in Live, n \in TrustPerms : \E j \in PermNo(i, n) :
       /\ roles' = [roles EXCEPT ![i].perms = RemoveAt(@, j)]
       /\ cache' = INST_SEL_VECTOR_Destroy(cache, roles[i].perms[j].sel)
       /\ Schedule(i)

Notify_CTrustPermEnable ==
  /\ ConfigChange
  /\ \E i \in Live, n \in TrustPerms : \E j \in PermNo(i, n) :
       /\ roles' = [roles EXCEPT ![i].perms[j].enable = ~@]
       /\ Schedule(i)
  /\ UNCHANGED cache

\* Validate_CTrustPermOrder, Notify_CTrustPermOrder
Notify_CTrustPermOrder ==
  /\ ConfigChange
  /\ \E i \in Live, n \in TrustPerms, o \in TrustPerms \cup {0} : \E j \in PermNo(i, n) :
       LET p == roles[i].perms[j]
       IN /\ o # p.order /\ ~OrderTaken(i, n, o)
          /\ roles' = [roles EXCEPT ![i].perms = AddCTrustPermission(RemoveAt(@, j), [p EXCEPT !.order = o])]
          /\ Schedule(i)
  /\ UNCHANGED cache

\* Notify_CTrustPermTargets: the old selector is freed, another allocated.
Notify_CTrustPermTargets ==
  /\ ConfigChange
  /\ \E i \in Live, n \in TrustPerms, t \in Targets : \E j \in PermNo(i, n) :
       LET p == roles[i].perms[j]
           freed == INST_SEL_VECTOR_Destroy(cache, p.sel)
           q == [p EXCEPT !.target = t, !.sel = FreeSel(freed)]
       IN /\ roles' = [roles EXCEPT ![i].perms[j] = q]
          /\ cache' = INST_SEL_VECTOR_Fill(freed, q.sel, q)
          /\ Schedule(i)

\* ModifyCTrustPermissionNibbleFromReq
ModifyCTrustPermissionNibble ==
  /\ ConfigChange
  /\ \E i \in Live, n \in TrustPerms : \E j \in PermNo(i, n) :
       /\ roles' = [roles EXCEPT ![i].perms[j].bits = ~@]
       /\ cache' = [cache EXCEPT !.sels[roles[i].perms[j].sel].bits = ~@]
       /\ Schedule(i)

\* ApplyModifiedPermissions: the timer, before the next message.
ApplyModifiedPermissions ==
  LET Update(c, i) == IF roles[i].inst \in due THEN ApplyAllPermissionsForRole(c, i) ELSE c
  IN /\ due # {} /\ due' = {}
     /\ cache' = FoldLeft(Update, cache, [i \in Slots |-> i])
     /\ UNCHANGED <<kind, rowKeys, highest, present, started, fresh, notes, roles, changes>>

-----------------------------------------------------------------------------
(* Changes of the rows.                                                    *)

Elsewhere == due = {} /\ UNCHANGED <<kind, started, roles, due, changes>>
Highest == CHOOSE r \in Rows \cup {0} : \A x \in Rows : x <= r
NewRow(r, k) ==
  /\ MatchingRows(k) = {} /\ r \in RowNumbers \ Rows
  /\ IF kind = "vendor" THEN TRUE ELSE r = Highest + 1
  /\ NumbersReused \/ r > highest
  /\ rowKeys' = [rowKeys EXCEPT ![r] = k]
  /\ highest' = IF r > highest THEN r ELSE highest
\* Notes only come while the table is watched (USP_BROKER_WatchTable).
Watched(c) == \E k \in TrustKeys : c.se[k].on
Note(kd, r, k) == [kd |-> kd, row |-> r, key |-> k]

\* A row of the agent's own table is added, or deleted (dm_trans.c:326).
AddRow == /\ Elsewhere /\ started /\ kind = "own"
          /\ \E r \in RowNumbers, k \in TrustKeys :
               NewRow(r, k) /\ cache' = SE_CACHE_NotifyInstanceAdded(cache, r, k)
          /\ UNCHANGED <<present, fresh, notes>>
DeleteRow == /\ Elsewhere /\ started /\ kind = "own"
             /\ \E r \in Rows : /\ rowKeys' = [rowKeys EXCEPT ![r] = "none"]
                                /\ cache' = SE_CACHE_NotifyInstanceDeleted(cache, r)
             /\ UNCHANGED <<highest, present, fresh, notes>>

\* The rows of the vendor layer change unseen, until they are refreshed
\* (dm_inst_vector.c:1136), before any permission on them is looked up.
VendorRowsChange ==
  /\ Elsewhere /\ started /\ kind = "vendor" /\ fresh' = FALSE
  /\ \/ \E r \in RowNumbers, k \in TrustKeys :
          /\ MatchingRows(k) \subseteq {r} /\ rowKeys[r] # k
          /\ rowKeys' = [rowKeys EXCEPT ![r] = k]
     \/ \E r \in Rows : rowKeys' = [rowKeys EXCEPT ![r] = "none"]
  /\ UNCHANGED <<highest, present, notes, cache>>
RefreshRows ==
  /\ Elsewhere /\ ~fresh /\ fresh' = TRUE
  /\ cache' = SE_CACHE_RefreshPermissions(cache)
  /\ UNCHANGED <<rowKeys, highest, present, notes>>

\* The rows of a USP Service change, while the Broker does anything at all.
ServiceRowsChange ==
  /\ kind = "service" /\ Len(notes) < 2
  /\ \/ \E r \in RowNumbers, k \in TrustKeys :
          NewRow(r, k) /\ notes' = IF Watched(cache) THEN Append(notes, Note("add", r, k)) ELSE notes
     \/ \E r \in Rows :
          /\ rowKeys' = [rowKeys EXCEPT ![r] = "none"]
          /\ notes' = IF Watched(cache) THEN Append(notes, Note("del", r, rowKeys[r])) ELSE notes
          /\ UNCHANGED highest
  /\ UNCHANGED <<kind, present, started, fresh, roles, cache, due, changes>>

\* HandleWatchNotification
HandleWatchNotification ==
  /\ Elsewhere /\ notes # <<>> /\ notes' = Tail(notes)
  /\ LET n == Head(notes)
     IN cache' = IF n.kd = "add" THEN SE_CACHE_NotifyInstanceAdded(cache, n.row, n.key)
                 ELSE SE_CACHE_NotifyInstanceDeleted(cache, n.row)
  /\ UNCHANGED <<rowKeys, highest, present, fresh>>

\* ApplyPermissionsToPaths, when the USP Service has registered the table.
ServiceRegisters ==
  /\ Elsewhere /\ started /\ ~present /\ present' = TRUE
  /\ cache' = ApplyPermissionsToSubTree(cache)
  /\ UNCHANGED <<rowKeys, highest, fresh, notes>>

\* SE_CACHE_HandleUspServiceDisconnect, and the nodes of the table go.
ServiceDisconnects ==
  /\ Elsewhere /\ kind = "service" /\ present /\ present' = FALSE /\ notes' = <<>>
  /\ cache' = [sels |-> [s \in SelIds |-> [cache.sels[s] EXCEPT !.watching = FALSE]],
               se |-> [k \in TrustKeys |-> NoSe], vec |-> [i \in Slots |-> <<>>]]
  /\ UNCHANGED <<rowKeys, highest, fresh>>

-----------------------------------------------------------------------------
\* DEVICE_CTRUST_Start, SE_CACHE_StartSEResolution: the permissions of the
\* database are applied before the tables can be read.
StartSEResolution ==
  /\ ~started /\ started' = TRUE
  /\ cache' = AttemptToResolveAllSEOnTable(cache)
  /\ UNCHANGED <<kind, rowKeys, highest, present, fresh, notes, roles, due, changes>>

FirstKey == CHOOSE k \in TrustKeys : TRUE
FirstPerm == [inst |-> 1, enable |-> TRUE, order |-> 1, bits |-> TRUE, target |-> FirstKey, sel |-> 1]
CtrustInit ==
  /\ kind \in TableKinds /\ present = (kind # "service")
  /\ rowKeys \in {[r \in RowNumbers |-> IF r = 1 THEN k ELSE "none"] : k \in TrustKeys}
  /\ highest = 1 /\ started = FALSE /\ fresh = TRUE /\ notes = <<>> /\ due = {} /\ changes = 0
  /\ roles = [i \in Slots |-> IF i = 1 THEN [inst |-> 1, enable |-> TRUE, perms |-> <<FirstPerm>>] ELSE NoRole]
  /\ LET empty == [sels |-> [s \in SelIds |-> NoSel], se |-> [k \in TrustKeys |-> NoSe],
                   vec |-> [i \in Slots |-> <<>>]]
     IN cache = Apply(1, INST_SEL_VECTOR_Fill(empty, 1, FirstPerm), FirstPerm)

CtrustNext ==
  \/ StartSEResolution
  \/ Notify_CTrustRoleAdded \/ Notify_CTrustRoleDeleted \/ Notify_CTrustRoleEnable
  \/ Notify_CTrustPermAdded \/ Notify_CTrustPermDeleted \/ Notify_CTrustPermEnable
  \/ Notify_CTrustPermOrder \/ Notify_CTrustPermTargets \/ ModifyCTrustPermissionNibble
  \/ ApplyModifiedPermissions
  \/ AddRow \/ DeleteRow \/ VendorRowsChange \/ RefreshRows
  \/ ServiceRowsChange \/ HandleWatchNotification \/ ServiceRegisters \/ ServiceDisconnects

CtrustSpec == CtrustInit /\ [][CtrustNext]_trustVars

-----------------------------------------------------------------------------
(* Properties.                                                             *)

\* DM_PRIV_GetPermissions, INST_SEL_VECTOR_GetPermissionForInstance: the last
\* selector of the vector that matches the row decides.
GetPermissionForInstance(i, r) ==
  LET v == cache.vec[i]
      hits == {j \in DOMAIN v : cache.sels[v[j]].at \in {Wildcard, r}}
  IN hits # {} /\ cache.sels[v[CHOOSE j \in hits : \A x \in hits : x <= j]].bits

Specified(i, r) ==
  LET ps == {p \in Range(roles[i].perms) : p.enable /\ p.target \in {"*", rowKeys[r]}}
  IN roles[i].enable /\ ps # {} /\ (CHOOSE p \in ps : \A q \in ps : q.order <= p.order).bits

\* Nothing is on its way, so a controller's message is about to be answered.
Settled == started /\ present /\ fresh /\ due = {} /\ notes = <<>>

\* The roles, selectors and the cache hold what their C types allow.
CtrustTypeOK ==
  /\ rowKeys \in [RowNumbers -> TrustKeys \cup {"none"}] /\ kind \in TableKinds
  /\ \A i \in Slots : Range(cache.vec[i]) \subseteq SelIds /\ roles[i].enable \in BOOLEAN
  /\ \A k \in TrustKeys : cache.se[k].sels \subseteq SelIds /\ cache.se[k].last \in 0..TrustRows
  /\ \A s \in SelIds : cache.sels[s].at \in -1..TrustRows
  /\ due \subseteq 1..TrustRoles /\ Len(notes) <= 2

\* Whatever the changes of roles, orders, targets and rows, and whoever the
\* rows belong to, a role may do to a row what its enabled permission of the
\* highest order that matches the row says (device_ctrust.c:2388,
\* se_cache.c:385, :569): the incrementally kept vectors and instance numbers
\* are those that would be computed afresh.
EffectiveIsSpecified ==
  Settled => \A i \in Live, r \in Rows : GetPermissionForInstance(i, r) = Specified(i, r)

\* No selector that has been freed is reached again: not from the node of a
\* role in use once the update has run (device_ctrust.c:2749), and never
\* from the cache of search expressions (inst_sel_vector.c:103).
FreedNeverUsed ==
  /\ due = {} => \A i \in Live : \A s \in Range(cache.vec[i]) : cache.sels[s].live
  /\ \A k \in TrustKeys : \A s \in cache.se[k].sels : cache.sels[s].live

\* device_ctrust.c:987 USP_ASSERT(sel->is_watching == expected_watching): a
\* selector is watched exactly if its role and its permission are enabled
\* and its table exists.
CrossCheckSECache ==
  Settled => \A i \in Live : \A p \in Range(roles[i].perms) :
    cache.sels[p.sel].watching = (p.target # "*" /\ roles[i].enable /\ p.enable)

\* The selectors that were kept step by step are those that the tables of
\* roles and permissions specify, and live.
CtrustInv == CtrustTypeOK /\ EffectiveIsSpecified /\ FreedNeverUsed
=============================================================================
