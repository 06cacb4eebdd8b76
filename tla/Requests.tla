------------------------------ MODULE Requests ------------------------------
(***************************************************************************)
(* The Add, Set and Delete messages of a controller, with and without      *)
(* allow_partial, on objects of the agent's own data model and of USP      *)
(* Services, whose answers can be refusals, get lost, or never come.       *)
(*                                                                         *)
(* The own objects are changed inside a transaction (module DmTrans); here *)
(* that is a working copy which a commit makes good.  The objects of a     *)
(* service change at the service, one request at a time, and nothing but   *)
(* another request can undo that.  Which of them exist the handlers only   *)
(* know from the instance cache, refreshed at most once in a message.      *)
(***************************************************************************)
EXTENDS Integers, Sequences, FiniteSets, SequencesExt

CONSTANTS
    Services,        \* the data model providers: one group_id each
    MaxInst,         \* instance numbers are 1..MaxInst
    MaxRqFaults,     \* failures in one message
    IndexlessDelete, \* may a multi-delete fail without naming a path?
    AddBelowTable    \* may an Add go through instances of a service's table?

ASSUME RequestsAssumption ==
    /\ MaxInst \in Nat /\ MaxInst >= 4
    /\ MaxRqFaults \in Nat
    /\ {IndexlessDelete, AddBelowTable} \subseteq BOOLEAN
    /\ "own" \notin Services

Own == "own"   \* NON_GROUPED: the data model of this executable
Tables == {Own} \cup Services
InstNums == 1..MaxInst
Default == 0
New == 1       \* the value that a message sets

\* A parameter can be set ("valid"), may not be written ("forbidden"), or the schema does not have it ("unknown").
Required(st) == [required |-> TRUE, state |-> st]
Optional(st) == [required |-> FALSE, state |-> st]
AddParams == {<<>>, <<Required("forbidden")>>, <<Required("valid"), Optional("unknown")>>}
SetParams == {<<Required("valid")>>, <<Required("unknown")>>, <<Optional("forbidden")>>,
              <<Required("valid"), Optional("valid")>>, <<Required("valid"), Optional("unknown")>>}

\* A path: one instance, or all of them (inst = 0).
DelExprs == [table : Tables, inst : {0, 1}, params : {<<>>}, below : {FALSE}]
SetExprs == [table : Tables, inst : {0, 1}, params : SetParams, below : {FALSE}]
AddExprs == {e \in [table : Tables, inst : {0}, params : AddParams, below : {FALSE, AddBelowTable}] :
                 e.table = Own => ~e.below}
Pairs(S) == {<<a>> : a \in S} \cup {<<a, b>> : a \in S, b \in S}

Messages ==
         [op : {"del"}, partial : BOOLEAN, exprs : Pairs(DelExprs)]
    \cup [op : {"add"}, partial : BOOLEAN, exprs : Pairs(AddExprs)]
    \cup {m \in [op : {"set"}, partial : BOOLEAN, exprs : Pairs(SetExprs)] :
              Len(m.exprs) = 2 => m.exprs[1].params = m.exprs[2].params}

\* An entry of the group add, delete or set vector.
\* A parameter that is not in the schema has no group_id.
Entry(k, t, i, p) ==
    [expr |-> k, table |-> IF p.state = "unknown" THEN Own ELSE t, inst |-> i,
     required |-> p.required, err |-> p.state # "valid"]
NoParam == Required("valid")

VARIABLES
    rq_store,     \* the objects of each table, and the value of their parameter
    rq_work,      \* the own objects as the transaction in progress sees them
    rq_cache,     \* the instance numbers the agent knows of each service
    rq_locked,    \* the services whose cache is locked for this message
    rq_msg,       \* the message being handled
    rq_pc, rq_k, rq_j,   \* where its handler is: expression, entry
    rq_vec,       \* its group vector
    rq_errs,      \* the expressions that failed to resolve
    rq_resp,      \* "none", "error" or "ok"
    rq_before,    \* what the tables would be without this message
    rq_faults,    \* failures in this message
    rq_silent,    \* has a service not answered a request?
    rq_spoilt     \* has a commit failed after a service acted, or a rollback?

rqVars == <<rq_store, rq_work, rq_cache, rq_locked, rq_msg, rq_pc, rq_k, rq_j, rq_vec,
            rq_errs, rq_resp, rq_before, rq_faults, rq_silent, rq_spoilt>>
rqWorld == <<rq_store, rq_work, rq_before>>
rqCtl == <<rq_msg, rq_k, rq_j, rq_errs>>
rqCacheVars == <<rq_cache, rq_locked>>
rqFaultVars == <<rq_faults, rq_silent>>

IsObjects(f) == DOMAIN f \subseteq InstNums /\ \A i \in DOMAIN f : f[i] \in {Default, New}
With(f, i, v) == [x \in DOMAIN f \cup {i} |-> IF x = i THEN v ELSE f[x]]
Without(f, S) == [x \in DOMAIN f \ S |-> f[x]]

NoMessage == [op |-> "none", partial |-> FALSE, exprs |-> <<>>]
Fresh(S) == [i \in S |-> Default]

RqInit ==
    /\ rq_store = [t \in Tables |-> Fresh(1..2)]
    /\ rq_work = rq_store[Own]
    /\ rq_cache = [s \in Services |-> {1}]
    /\ rq_locked = {}
    /\ rq_msg = NoMessage
    /\ rq_pc = "idle" /\ rq_k = 0 /\ rq_j = 0
    /\ rq_vec = <<>> /\ rq_errs = {} /\ rq_resp = "none"
    /\ rq_before = rq_store
    /\ rq_faults = 0 /\ rq_silent = FALSE /\ rq_spoilt = FALSE
-----------------------------------------------------------------------------
(***************************************************************************)
(* A request to a service, and its answer: done; refused; done but the     *)
(* answer lost; not done and no answer (DM_EXEC_SendRequestAndWaitFor-     *)
(* Response returns NULL, or the service has no connection).               *)
(***************************************************************************)
Answers == {"ok", "refused", "lost", "unsent"}
Effective(a) == a \in {"ok", "lost"}

Answered(a, possible) ==
    /\ Effective(a) => possible
    /\ a # "ok" /\ possible => rq_faults < MaxRqFaults
    /\ rq_faults' = IF a = "ok" \/ ~possible THEN rq_faults ELSE rq_faults + 1
    /\ rq_silent' = (rq_silent \/ a \in {"lost", "unsent"})

\* Something of the agent's own fails, or not.
Succeeds(ok) ==
    /\ ok \/ rq_faults < MaxRqFaults
    /\ rq_faults' = IF ok THEN rq_faults ELSE rq_faults + 1
    /\ UNCHANGED rq_silent

\* RefreshInstVector: the instances of service s, asked for once in a message.
Instances(s) == IF s \in rq_locked THEN rq_cache[s] ELSE DOMAIN rq_store[s]
RefreshInstVector(s, a) ==
    /\ s \in rq_locked => a = "ok"
    /\ IF a = "ok"
       THEN /\ rq_cache' = [rq_cache EXCEPT ![s] = Instances(s)]
            /\ rq_locked' = rq_locked \cup {s}
       ELSE UNCHANGED rqCacheVars
    /\ Answered(a, TRUE)

\* A service changes its table by itself, or on behalf of somebody else.
ServiceChange(s) ==
    /\ rq_pc \notin {"idle", "done"}
    /\ rq_faults < MaxRqFaults
    /\ \E i \in DOMAIN rq_store[s] \cap DOMAIN rq_before[s] :
          /\ rq_store' = [rq_store EXCEPT ![s] = Without(@, {i})]
          /\ rq_before' = [rq_before EXCEPT ![s] = Without(@, {i})]
    /\ rq_faults' = rq_faults + 1
    /\ UNCHANGED <<rq_work, rqCacheVars, rqCtl, rq_pc, rq_vec, rq_resp, rq_silent, rq_spoilt>>

Respond(r) == rq_pc' = "done" /\ rq_resp' = r
Continue(pc) == rq_pc' = pc /\ UNCHANGED rq_resp

\* AreAllPathsTheSameGroupId (Add): the services among the tables named.
AreAllPathsTheSameGroupId(m) ==
    Cardinality({e.table : e \in ToSet(m.exprs)} \ {Own}) <= 1

\* MSG_HANDLER_HandleAdd, _HandleSet, _HandleDelete: a message with something in it.
Receive(m) ==
    /\ rq_pc = "idle"
    /\ rq_msg' = m
    /\ IF m.op = "add" /\ ~m.partial /\ ~AreAllPathsTheSameGroupId(m)
       THEN Respond("error") ELSE Continue("resolve")
    /\ rq_k' = 1 /\ rq_j' = 1
    /\ UNCHANGED <<rqWorld, rqCacheVars, rq_vec, rq_errs, rqFaultVars, rq_spoilt>>
-----------------------------------------------------------------------------
(***************************************************************************)
(* Resolution of the next path expression into entries of the vector.      *)
(***************************************************************************)
Expr == rq_msg.exprs[rq_k]
View(t) == IF t = Own THEN DOMAIN rq_work ELSE Instances(t)

Matched(e) == IF e.inst = 0 THEN View(e.table) ELSE View(e.table) \cap {e.inst}

\* One entry for each object, or for each parameter of each object.
Entries(e) ==
    CASE rq_msg.op = "del" -> [i \in 1..Cardinality(Matched(e)) |->
                                  Entry(rq_k, e.table, SetToSeq(Matched(e))[i], NoParam)]
      [] rq_msg.op = "add" -> <<Entry(rq_k, e.table, 0, NoParam)>>
      [] OTHER -> FlattenSeq([i \in 1..Cardinality(Matched(e)) |->
                    [p \in DOMAIN e.params |-> Entry(rq_k, e.table, SetToSeq(Matched(e))[i], e.params[p])]])

\* An object to set must exist; one to delete need not.
Resolves(e) == rq_msg.op = "set" /\ e.inst # 0 => Matched(e) # {}

NeedsInstances(e) == e.table # Own /\ (rq_msg.op = "add" => e.below)

\* What a handler does when its last expression is resolved.
AfterResolving ==
    IF rq_msg.op = "add" THEN "create"
    ELSE IF rq_k < Len(rq_msg.exprs) THEN "resolve"
    ELSE "process"

ResolveExpr ==
    /\ rq_pc = "resolve"
    /\ \E a \in {"ok", "refused", "unsent"} :
          /\ IF NeedsInstances(Expr) THEN RefreshInstVector(Expr.table, a)
                                     ELSE a = "ok" /\ UNCHANGED <<rqCacheVars, rqFaultVars>>
          /\ IF a = "ok" /\ Resolves(Expr)
             THEN rq_vec' = rq_vec \o Entries(Expr) /\ UNCHANGED rq_errs
             ELSE rq_errs' = rq_errs \cup {rq_k} /\ UNCHANGED rq_vec
    /\ Continue(AfterResolving)
    /\ rq_k' = IF AfterResolving = "resolve" THEN rq_k + 1 ELSE rq_k
    /\ UNCHANGED <<rqWorld, rq_msg, rq_j, rq_spoilt>>

Groups == {rq_vec[i].table : i \in DOMAIN rq_vec} \ {Own}
VecAt(i) == rq_vec[i]
InExpr(k) == {i \in DOMAIN rq_vec : rq_vec[i].expr = k}
Failed(i) == rq_vec' = [rq_vec EXCEPT ![i].err = TRUE]

\* DM_TRANS_Abort
Abort == rq_work' = rq_store[Own]

\* DM_TRANS_Commit, or its failure, which leaves what services did as it is.
Commit(ok) ==
    /\ rq_work' = IF ok THEN rq_work ELSE rq_store[Own]
    /\ rq_store' = IF ok THEN [rq_store EXCEPT ![Own] = rq_work] ELSE rq_store
    /\ rq_spoilt' = (rq_spoilt \/ (~ok /\ Groups # {}))
    /\ Succeeds(ok)

\* The handlers end with a commit of everything.
CommitAll ==
    /\ rq_pc = "commit"
    /\ \E ok \in BOOLEAN : Commit(ok) /\ Respond(IF ok THEN "ok" ELSE "error")
    /\ UNCHANGED <<rqCtl, rqCacheVars, rq_before, rq_vec>>
-----------------------------------------------------------------------------
(***************************************************************************)
(* Delete.                                                                 *)
(***************************************************************************)
\* ProcessDel_AllowPartialTrue: one object, in a transaction of its own.
DeleteOwn(i, ok) ==
    /\ VecAt(i).table = Own
    /\ VecAt(i).inst \notin DOMAIN rq_store[Own] => ~ok
    /\ LET left == Without(rq_store[Own], {VecAt(i).inst}) IN
          /\ rq_store' = IF ok THEN [rq_store EXCEPT ![Own] = left] ELSE rq_store
          /\ rq_work' = IF ok THEN left ELSE rq_work
    /\ VecAt(i).inst \in DOMAIN rq_store[Own] => Succeeds(ok)
    /\ VecAt(i).inst \notin DOMAIN rq_store[Own] => UNCHANGED rqFaultVars
    /\ UNCHANGED rqCacheVars

\* Broker_GroupDelete, if the cache has the instance.
DeleteAtService(i, a) ==
    LET s == VecAt(i).table IN
    /\ s # Own
    /\ IF VecAt(i).inst \in rq_cache[s]
       THEN /\ Answered(a, TRUE)
            /\ rq_store' = IF Effective(a) THEN [rq_store EXCEPT ![s] = Without(@, {VecAt(i).inst})] ELSE rq_store
            /\ rq_cache' = IF a = "ok" THEN [rq_cache EXCEPT ![s] = @ \ {VecAt(i).inst}] ELSE rq_cache
       ELSE /\ a = "refused"
            /\ UNCHANGED <<rq_store, rq_cache, rqFaultVars>>
    /\ UNCHANGED <<rq_locked, rq_work>>

ProcessDel_AllowPartialTrue ==
    /\ rq_pc = "process" /\ rq_msg.op = "del" /\ rq_msg.partial
    /\ rq_j \in DOMAIN rq_vec
    /\ \/ \E ok \in BOOLEAN : DeleteOwn(rq_j, ok) /\ IF ok THEN UNCHANGED rq_vec ELSE Failed(rq_j)
       \/ \E a \in Answers : /\ DeleteAtService(rq_j, a)
                             /\ IF a = "ok" THEN UNCHANGED rq_vec ELSE Failed(rq_j)
    /\ rq_j' = rq_j + 1
    /\ UNCHANGED <<rq_msg, rq_k, rq_errs, rq_pc, rq_resp, rq_before, rq_spoilt>>

\* CreateFullDeleteResp
CreateFullDeleteResp ==
    /\ rq_pc = "process" /\ rq_msg.op = "del" /\ rq_msg.partial
    /\ rq_j \notin DOMAIN rq_vec
    /\ Respond("ok")
    /\ UNCHANGED <<rqWorld, rqCacheVars, rqCtl, rq_vec, rqFaultVars, rq_spoilt>>

\* ProcessDel_AllowPartialFalse: refusals before anything is deleted, and then the own objects.
ProcessDel_AllowPartialFalse ==
    /\ rq_pc = "process" /\ rq_msg.op = "del" /\ ~rq_msg.partial
    /\ \E permitted, deleted \in BOOLEAN :
          /\ permitted = FALSE => deleted = FALSE
          /\ LET early == rq_errs # {} \/ ~permitted \/ Cardinality(Groups) > 1
                 own == {VecAt(i).inst : i \in {n \in DOMAIN rq_vec : VecAt(n).table = Own}}
                 twice == \E i, n \in DOMAIN rq_vec : i < n /\ VecAt(i).table = Own /\ VecAt(n) = [VecAt(i) EXCEPT !.expr = VecAt(n).expr]
             IN /\ early \/ twice => ~deleted
                /\ IF rq_errs # {} \/ Cardinality(Groups) > 1 \/ twice THEN permitted /\ UNCHANGED rqFaultVars
                                                                       ELSE Succeeds(deleted)
                /\ IF early \/ ~deleted
                   THEN Respond("error") /\ UNCHANGED rq_work
                   ELSE /\ rq_work' = Without(rq_work, own)
                        /\ Continue(IF Groups = {} THEN "commit" ELSE "multidelete")
    /\ UNCHANGED <<rq_store, rq_before, rqCacheVars, rqCtl, rq_vec, rq_spoilt>>

\* The error of Broker_MultiDelete names the path that failed, or it is ignored.
MultiDeleteFails(a) == a = "refused"
MultiDeleteAnswers == IF IndexlessDelete THEN Answers ELSE {"ok", "refused", "lost"}

\* Mutant: the objects deleted are left in the instance cache and in the service.
DeleteAllUnsent ==
    /\ rq_pc = "multidelete"
    /\ Continue("commit")
    /\ UNCHANGED <<rqWorld, rqCacheVars, rqCtl, rq_vec, rqFaultVars, rq_spoilt>>

\* DeleteAllInstancesProvidedByGroupId
DeleteAllInstancesProvidedByGroupId ==
    /\ rq_pc = "multidelete"
    /\ \E a \in MultiDeleteAnswers : \E s \in Groups :
          LET gone == {VecAt(i).inst : i \in {n \in DOMAIN rq_vec : VecAt(n).table = s}} IN
          /\ Answered(a, TRUE)
          /\ rq_store' = IF Effective(a) THEN [rq_store EXCEPT ![s] = Without(@, gone)] ELSE rq_store
          /\ IF MultiDeleteFails(a)
             THEN /\ Respond("error") /\ Abort
                  /\ UNCHANGED rq_cache
             ELSE /\ Continue("commit")
                  /\ rq_cache' = [rq_cache EXCEPT ![s] = @ \ gone]
                  /\ UNCHANGED rq_work
    /\ UNCHANGED <<rq_before, rq_locked, rqCtl, rq_vec, rq_spoilt>>
-----------------------------------------------------------------------------
(***************************************************************************)
(* Add.  The parameters of the object are those of its expression.         *)
(***************************************************************************)
NewInst(t) == Max({0} \cup DOMAIN rq_store[t] \cup (IF t = Own THEN DOMAIN rq_work ELSE {})) + 1

RequiredInvalid(e) == \E p \in DOMAIN e.params : e.params[p].required /\ e.params[p].state # "valid"
ValueOf(e) == IF \E p \in DOMAIN e.params : e.params[p].state = "valid" THEN New ELSE Default

\* CreateObject_WithoutCreateVendorHook: the object and its parameters, in the transaction.
CreateOwn(ok) ==
    /\ Expr.table = Own
    /\ IF RequiredInvalid(Expr) THEN ~ok /\ UNCHANGED rqFaultVars ELSE Succeeds(ok)

\* CreateObject_WithCreateVendorHook: validated here, created by one request.
CreateAtService(a) ==
    /\ Expr.table # Own
    /\ IF RequiredInvalid(Expr)
       THEN a = "refused" /\ UNCHANGED <<rq_store, rqFaultVars>>
       ELSE /\ Answered(a, TRUE)
            /\ rq_store' = IF Effective(a)
                           THEN [rq_store EXCEPT ![Expr.table] = With(@, NewInst(Expr.table), ValueOf(Expr))]
                           ELSE rq_store

\* The entry being created is the last of the vector, for an expression resolves to one.
Created == rq_vec' = [rq_vec EXCEPT ![Len(rq_vec)].inst = NewInst(Expr.table)]
WithOwn == With(rq_work, NewInst(Own), ValueOf(Expr))
AfterCreating(last) == Continue(IF rq_k < Len(rq_msg.exprs) THEN "resolve" ELSE last)

\* ProcessAdd_AllowPartialTrue: each object in a transaction of its own.
AddPartially ==
    /\ rq_pc = "create" /\ rq_msg.partial
    /\ AfterCreating("finish")
    /\ rq_k' = rq_k + 1
    /\ IF rq_k \in rq_errs
       THEN UNCHANGED <<rq_store, rq_work, rq_vec, rqFaultVars>>
       ELSE \/ /\ CreateOwn(TRUE) /\ Created
               /\ rq_work' = WithOwn
               /\ rq_store' = [rq_store EXCEPT ![Own] = WithOwn]
            \/ CreateOwn(FALSE) /\ Failed(Len(rq_vec)) /\ UNCHANGED <<rq_store, rq_work>>
            \/ \E a \in Answers :
                  /\ CreateAtService(a)
                  /\ IF a = "ok" THEN Created ELSE Failed(Len(rq_vec))
                  /\ UNCHANGED rq_work
    /\ UNCHANGED <<rq_msg, rq_j, rq_errs, rq_before, rqCacheVars, rq_spoilt>>

\* CreateFullAddResp
CreateFullAddResp ==
    /\ rq_pc = "finish"
    /\ Respond("ok")
    /\ UNCHANGED <<rqWorld, rqCacheVars, rqCtl, rq_vec, rqFaultVars, rq_spoilt>>

\* ProcessAdd_AllowPartialFalse, as far as the objects are created.
AddWholly ==
    /\ rq_pc = "create" /\ ~rq_msg.partial
    /\ \/ /\ rq_k \notin rq_errs
          /\ \/ CreateOwn(TRUE) /\ rq_work' = WithOwn /\ UNCHANGED rq_store
             \/ CreateAtService("ok") /\ UNCHANGED rq_work
          /\ Created
          /\ rq_k' = rq_k + 1
          /\ AfterCreating("commit")
       \/ /\ \/ rq_k \in rq_errs /\ UNCHANGED <<rq_store, rq_vec, rqFaultVars>>
             \/ rq_k \notin rq_errs /\ CreateOwn(FALSE) /\ Failed(Len(rq_vec)) /\ UNCHANGED rq_store
             \/ \E a \in Answers \ {"ok"} :
                   rq_k \notin rq_errs /\ CreateAtService(a) /\ Failed(Len(rq_vec))
          /\ Abort
          /\ Continue("rollback")
          /\ UNCHANGED rq_k
    /\ UNCHANGED <<rq_msg, rq_j, rq_errs, rq_before, rqCacheVars, rq_spoilt>>

\* GROUP_ADD_VECTOR_Rollback: the abort has undone the own objects; each object of a service
\* is deleted if the instance cache has it, and what comes of that is not looked at.
RollbackGroupAddEntry ==
    /\ rq_pc = "rollback" /\ rq_j \in DOMAIN rq_vec
    /\ LET s == VecAt(rq_j).table
           created == s # Own /\ ~VecAt(rq_j).err
       IN \/ ~created /\ UNCHANGED <<rq_store, rqCacheVars, rqFaultVars, rq_spoilt>>
          \/ \E a \in {"refused", "unsent"} :
                /\ created /\ RefreshInstVector(s, a)
                /\ rq_spoilt' = TRUE
                /\ UNCHANGED rq_store
          \/ /\ created /\ s \in rq_locked /\ VecAt(rq_j).inst \notin rq_cache[s]
             /\ UNCHANGED <<rq_store, rqCacheVars, rqFaultVars, rq_spoilt>>
          \/ \E a \in Answers :
                /\ created /\ VecAt(rq_j).inst \in Instances(s)
                /\ Answered(a, TRUE)
                /\ rq_store' = IF Effective(a) THEN [rq_store EXCEPT ![s] = Without(@, {VecAt(rq_j).inst})] ELSE rq_store
                /\ rq_locked' = rq_locked \cup {s}
                /\ rq_cache' = [rq_cache EXCEPT ![s] = IF a = "ok" THEN Instances(s) \ {VecAt(rq_j).inst} ELSE Instances(s)]
                /\ rq_spoilt' = (rq_spoilt \/ a = "refused")
    /\ rq_j' = rq_j + 1
    /\ UNCHANGED <<rq_work, rq_before, rq_msg, rq_k, rq_errs, rq_vec, rq_pc, rq_resp>>

\* CreateAddResponseError
CreateAddResponseError ==
    /\ rq_pc = "rollback" /\ rq_j \notin DOMAIN rq_vec
    /\ Respond("error")
    /\ UNCHANGED <<rqWorld, rqCacheVars, rqCtl, rq_vec, rqFaultVars, rq_spoilt>>
-----------------------------------------------------------------------------
(***************************************************************************)
(* Set.                                                                    *)
(***************************************************************************)
\* The slice of the vector set together: one expression, or all of them.
Slice == IF rq_msg.partial THEN InExpr(rq_j) ELSE DOMAIN rq_vec
Settable(I, r) == {i \in I : ~VecAt(i).err /\ VecAt(i).required = r}
FailureIndex(I) == {i \in I : VecAt(i).err /\ VecAt(i).required}
InstsOf(I) == {VecAt(i).inst : i \in I}
RowsWritten(f, I) == [x \in DOMAIN f |-> IF x \in InstsOf(I) THEN New ELSE f[x]]
SliceFails(I) == rq_vec' = [i \in DOMAIN rq_vec |-> [VecAt(i) EXCEPT !.err = @ \/ i \in I]]
SliceDone(last) ==
    IF rq_msg.partial THEN rq_j' = rq_j + 1 /\ UNCHANGED <<rq_pc, rq_resp>>
                      ELSE UNCHANGED rq_j /\ Respond(last)

\* ProcessSet: what is refused before a parameter is set.
\* GROUP_SET_VECTOR_AreAllPathsTheSameGroupId, the own data model being a group too.
Refused(I) ==
    \/ rq_msg.partial /\ rq_j \in rq_errs
    \/ ~rq_msg.partial /\ rq_errs # {}
    \/ \E i, n \in I : VecAt(i).table # VecAt(n).table
    \/ FailureIndex(I) # {}

RefuseSet ==
    /\ rq_pc = "process" /\ rq_msg.op = "set" /\ rq_j \in DOMAIN rq_msg.exprs
    /\ Refused(Slice)
    /\ SliceFails(Slice)
    /\ SliceDone("error")
    /\ UNCHANGED <<rqWorld, rqCacheVars, rq_msg, rq_k, rq_errs, rqFaultVars, rq_spoilt>>

NoFailure == 0
CommitFailure == -1

\* SetValues in a transaction: none, one parameter (f), or the commit fails.
SetOwnValues ==
    /\ rq_pc = "process" /\ rq_msg.op = "set" /\ rq_j \in DOMAIN rq_msg.exprs
    /\ ~Refused(Slice)
    /\ \A i \in Slice : VecAt(i).table = Own
    /\ LET set == Settable(Slice, TRUE) \cup Settable(Slice, FALSE) IN
       \E f \in {NoFailure, CommitFailure} \cup set :
          /\ Succeeds(f = NoFailure)
          /\ IF f = CommitFailure \/ (f \in set /\ VecAt(f).required)
             THEN SliceFails(Slice) /\ SliceDone("error") /\ UNCHANGED rqWorld
             ELSE /\ rq_work' = RowsWritten(rq_work, set \ {f})
                  /\ rq_store' = [rq_store EXCEPT ![Own] = rq_work']
                  /\ SliceFails({f} \cap set)
                  /\ SliceDone("ok")
                  /\ UNCHANGED rq_before
    /\ UNCHANGED <<rqCacheVars, rq_msg, rq_k, rq_errs, rq_spoilt>>

\* Mutant: the parameters that are not required go first.
FirstGroup(I) == Settable(I, FALSE)
RequiredGroup(I) == Settable(I, TRUE)

\* SetParameterGroup twice: the required parameters in one request, then the others in another.
SetServiceValues ==
    /\ rq_pc = "process" /\ rq_msg.op = "set" /\ rq_j \in DOMAIN rq_msg.exprs
    /\ ~Refused(Slice)
    /\ \E s \in Services : \E a, b \in Answers :
          LET first == RequiredGroup(Slice)
              second == (Settable(Slice, TRUE) \cup Settable(Slice, FALSE)) \ first
              there(I) == InstsOf(I) \subseteq DOMAIN rq_store[s]
              done == (IF Effective(a) THEN first ELSE {}) \cup (IF Effective(b) THEN second ELSE {})
              bad == (IF a = "ok" THEN {} ELSE first) \cup (IF b = "ok" THEN {} ELSE second)
          IN /\ s \in {VecAt(i).table : i \in Slice}
             /\ a = "ok" \/ b = "ok"
             /\ first = {} => a = "ok"
             /\ second = {} \/ a # "ok" => b = "ok"
             /\ Effective(a) => there(first)
             /\ a = "ok" /\ Effective(b) => there(second)
             /\ IF a = "ok" THEN Answered(b, there(second)) ELSE Answered(a, there(first))
             /\ rq_store' = [rq_store EXCEPT ![s] = RowsWritten(@, IF a = "ok" THEN done ELSE done \cap first)]
             /\ IF \E i \in bad : VecAt(i).required
                THEN SliceFails(Slice) /\ SliceDone("error")
                ELSE SliceFails(bad) /\ SliceDone("ok")
    /\ UNCHANGED <<rq_work, rq_before, rqCacheVars, rq_msg, rq_k, rq_errs, rq_spoilt>>

\* Nothing to set, or all of a partial Set done.
SetNothing ==
    /\ rq_pc = "process" /\ rq_msg.op = "set"
    /\ \/ /\ rq_j \in DOMAIN rq_msg.exprs /\ Slice = {} /\ ~Refused(Slice)
          /\ SliceDone("ok")
       \/ rq_j \notin DOMAIN rq_msg.exprs /\ Respond("ok") /\ UNCHANGED rq_j
    /\ UNCHANGED <<rqWorld, rqCacheVars, rq_msg, rq_k, rq_errs, rq_vec, rqFaultVars, rq_spoilt>>
-----------------------------------------------------------------------------
RqNext ==
    \/ \E m \in Messages : Receive(m)
    \/ \E s \in Services : ServiceChange(s)
    \/ ResolveExpr
    \/ CommitAll
    \/ ProcessDel_AllowPartialTrue
    \/ CreateFullDeleteResp
    \/ ProcessDel_AllowPartialFalse
    \/ DeleteAllInstancesProvidedByGroupId
    \/ AddPartially
    \/ CreateFullAddResp
    \/ AddWholly
    \/ RollbackGroupAddEntry
    \/ CreateAddResponseError
    \/ RefuseSet
    \/ SetOwnValues
    \/ SetServiceValues
    \/ SetNothing

RqSpec == RqInit /\ [][RqNext]_rqVars
-----------------------------------------------------------------------------
RqTypeOK ==
    /\ DOMAIN rq_store = Tables /\ DOMAIN rq_before = Tables
    /\ \A t \in Tables : IsObjects(rq_store[t]) /\ IsObjects(rq_before[t])
    /\ IsObjects(rq_work)
    /\ rq_cache \in [Services -> SUBSET InstNums] /\ rq_locked \subseteq Services
    /\ rq_pc \in {"idle", "resolve", "process", "multidelete", "create", "finish", "commit", "rollback", "done"}
    /\ rq_resp \in {"none", "error", "ok"}
    /\ {rq_silent, rq_spoilt} \subseteq BOOLEAN

\* A message answered with an error, or one that allows no partial success, has left every
\* table as it was, so far as every service answered: the transaction is aborted and the
\* objects already created at a service are deleted again (group_add_vector.c:306).
AllOrNothing ==
    rq_pc = "done" /\ rq_resp = "error" /\ ~rq_silent /\ ~rq_spoilt => rq_store = rq_before

\* A Delete that must not be partial and is answered without an error has deleted every object
\* it names: ProcessDel_AllowPartialFalse assumes so when it builds the response
\* (handle_delete.c:494), whatever became of the request to the service.
OkMeansDeleted ==
    rq_pc = "done" /\ rq_resp = "ok" /\ rq_msg.op = "del" /\ ~rq_msg.partial =>
        \A i \in DOMAIN rq_vec : rq_vec[i].inst \notin DOMAIN rq_store[rq_vec[i].table]

\* What the entries without an error make of a table.
ExpectedRows(t) ==
    LET good == {i \in DOMAIN rq_vec : ~VecAt(i).err /\ VecAt(i).table = t} IN
    CASE rq_msg.op = "del" -> Without(rq_before[t], InstsOf(good))
      [] rq_msg.op = "set" -> RowsWritten(rq_before[t], good)
      [] OTHER -> [x \in DOMAIN rq_before[t] \cup InstsOf(good) |->
                     IF x \in DOMAIN rq_before[t] THEN rq_before[t][x]
                     ELSE ValueOf(rq_msg.exprs[VecAt(CHOOSE i \in good : VecAt(i).inst = x).expr])]

\* A message that was answered with results has done what the results say, and nothing else:
\* the objects reported as created, set and deleted are, and those reported as failed are not.
ResponseTruthful ==
    rq_pc = "done" /\ rq_resp = "ok" /\ ~rq_silent /\ ~rq_spoilt =>
        \A t \in Tables : rq_store[t] = ExpectedRows(t)

\* What a request does to the data model is what its answer says.
RequestInv == RqTypeOK /\ AllOrNothing /\ ResponseTruthful
=============================================================================
