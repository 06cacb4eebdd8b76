-------------------------------- MODULE Gets --------------------------------
(* The Get and GetInstances requests: the parameters of all path expressions   *)
(* share one group get vector, the values are fetched group by group in chunks *)
(* through the vendor's callbacks, and each expression's response is cut out   *)
(* of the vector.  A parameter is a record [obj, name, group]; its value is    *)
(* the parameter itself, so that a value under a wrong name shows.  What a path *)
(* resolves to is an input (PathResolver models how); "direct" are values that *)
(* a USP Service gave for the whole path.                                      *)
EXTENDS Integers, Sequences, SequencesExt, FiniteSets, FiniteSetsExt

CONSTANTS
    Resolutions,    \* what a path expression may resolve to: [ok, params, direct]
    GetGroups,      \* the vendor parameter groups, numbers; 0 is NON_GROUPED
    Hooked,         \* the groups with a get callback
    ChunkSize,      \* GROUP_GET_CHUNK_SIZE
    SearchLimit,    \* RESOLVED_PATH_SEARCH_LIMIT
    MaxGetExprs,    \* path expressions of a request
    KeySets         \* the unique keys a table may have, a sequence of sequences of parameter names

ASSUME GetsAssumption ==
    /\ ChunkSize \in Nat \ {0} /\ SearchLimit \in Nat \ {0} /\ MaxGetExprs \in Nat \ {0}
    /\ GetGroups \subseteq Nat \ {0} /\ Hooked \subseteq GetGroups

VARIABLES
    step,       \* where the request is: "expand", "groups", "done", or "instances" for a GetInstances
    exprs,      \* the path expressions met, as what they resolved to
    gi,         \* get_expr_info: per expression [ok, index, num]
    ggv,        \* the group get vector: entries [param, value, err]
    at,         \* the group and the start index of the chunk that is next
    resp,       \* the response: per expression its error or its resolved paths
    instances   \* the results of GetInstances: [table, ok, insts]

gvars == <<step, exprs, gi, ggv, at, resp, instances>>

NONE == [obj |-> "none", name |-> "none", group |-> 0]
GetEntry(p) == [param |-> p, value |-> NONE, err |-> FALSE]

(* ------------------------------- expansion ------------------------------- *)
(* An expression's entries start where the vector ended before they were added *)
StartIndex(n, added) == n

Expand(r) ==
    /\ step = "expand" /\ Len(exprs) < MaxGetExprs
    /\ exprs' = Append(exprs, r)
    /\ gi' = Append(gi, [ok |-> r.ok, index |-> StartIndex(Len(ggv), Len(r.params)), num |-> Len(r.params)])
    /\ ggv' = IF r.ok THEN ggv \o [i \in 1..Len(r.params) |-> GetEntry(r.params[i])] ELSE ggv
    /\ UNCHANGED <<step, at, resp, instances>>

(* -------------------------------- fetching ------------------------------- *)
(* DATA_MODEL_GetParameterValue of the parameters of no group; any may fail *)
GetOwn ==
    /\ step = "expand" /\ exprs # <<>>
    /\ \E F \in SUBSET {i \in 1..Len(ggv) : ggv[i].param.group = 0} :
         ggv' = [i \in 1..Len(ggv) |->
            CASE ggv[i].param.group # 0 -> ggv[i]
              [] i \in F -> [ggv[i] EXCEPT !.err = TRUE]
              [] OTHER -> [ggv[i] EXCEPT !.value = ggv[i].param]]
    /\ step' = "groups" /\ at' = [group |-> 1, start |-> 0]
    /\ UNCHANGED <<exprs, gi, resp, instances>>

(* The entries of a group: INT_VECTOR ggv_indexes *)
IndexesOf(g) == SelectSeq([i \in 1..Len(ggv) |-> i], LAMBDA i : ggv[i].param.group = g)

MinOf(a, b) == IF a < b THEN a ELSE b

ChunkOffByOne(iv, start) == SubSeq(iv, start + 1, MinOf(start + ChunkSize, Len(iv) - 1))

Chunk(iv, start) == SubSeq(iv, start + 1, MinOf(start + ChunkSize, Len(iv)))

(* get_group_cb gives the values of the entries in G; an error gives none *)
Fetched(iv, G) == [i \in 1..Len(ggv) |->
    CASE i \notin ToSet(iv) -> ggv[i]
      [] i \in G -> [ggv[i] EXCEPT !.value = ggv[i].param]
      [] OTHER -> [ggv[i] EXCEPT !.err = TRUE]]

GetParameterGroup ==
    /\ step = "groups" /\ at.group \in GetGroups
    /\ LET iv == IndexesOf(at.group)
           chunk == Chunk(iv, at.start)
       IN IF at.start < Len(iv)
          THEN /\ at' = [at EXCEPT !.start = @ + ChunkSize]
               /\ \E G \in (IF at.group \in Hooked THEN SUBSET ToSet(chunk) ELSE {{}}) :
                    ggv' = Fetched(chunk, G)
          ELSE /\ at' = [group |-> at.group + 1, start |-> 0]
               /\ UNCHANGED ggv
    /\ UNCHANGED <<step, exprs, gi, resp, instances>>

(* -------------------------------- response ------------------------------- *)
(* A parameter joins its object if that is among the last ones added *)
FindResolvedPath(res, obj) ==
    {i \in 1..Len(res) : i > Len(res) - SearchLimit /\ res[i].obj = obj}

AddResolvedPathResult(res, p, value) ==
    LET found == FindResolvedPath(res, p.obj)
        entry == [name |-> p.name, value |-> value]
    IN IF found = {} THEN Append(res, [obj |-> p.obj, params |-> <<entry>>])
       ELSE [res EXCEPT ![Max(found)].params = Append(@, entry)]

FormPathExprResponse(i) ==
    LET mine == SubSeq(ggv, gi[i].index + 1, gi[i].index + gi[i].num)
        got == SelectSeq(mine, LAMBDA e : ~e.err)
        fetched == FoldLeft(LAMBDA r, e : AddResolvedPathResult(r, e.param, e.value), <<>>, got)
    IN IF gi[i].ok
       THEN [ok |-> TRUE,
             res |-> FoldLeft(LAMBDA r, p : AddResolvedPathResult(r, p, p), fetched, exprs[i].direct)]
       ELSE [ok |-> FALSE, res |-> <<>>]

RespondGet ==
    /\ step = "groups" /\ at.group \notin GetGroups
    /\ resp' = [i \in 1..Len(exprs) |-> FormPathExprResponse(i)]
    /\ step' = "done"
    /\ UNCHANGED <<exprs, gi, ggv, at, instances>>

(* ------------------------------ GetInstances ----------------------------- *)
(* GROUP_GET_VECTOR_FindParam compares a name with the full paths in the vector, *)
(* so that no parameter is ever found there                                      *)
KeyParams(keys) == FlattenSeq(keys)

(* DATA_MODEL_GetUniqueKeyParams: the parameters of all keys that may be read;  *)
(* one that cannot be read is an error                                          *)
UniqueKeys(keys, readable, failing) ==
    LET names == SelectSeq(KeyParams(keys), LAMBDA n : n \in readable)
    IN [ok |-> ToSet(names) \intersect failing = {}, names |-> names]

(* The result of a path is taken back when a key of an instance fails *)
ReplaceLast(results, r) == Append(Front(results), r)

(* ProcessRequestedPathInstances, for a table with one to two instances *)
GetInstances(keys) == \E readable, failing \in SUBSET ToSet(FlattenSeq(keys)), n \in 1..2 :
    LET bad == ~UniqueKeys(keys, readable, failing).ok
        table == Len(instances) + 1
        begun == Append(instances, [table |-> table, keys |-> keys, ok |-> TRUE,
                    insts |-> IF bad THEN <<>>
                              ELSE [i \in 1..n |-> UniqueKeys(keys, readable, failing).names]])
    IN /\ step \in {"expand", "instances"} /\ exprs = <<>> /\ Len(instances) < MaxGetExprs
       /\ step' = "instances"
       /\ instances' = IF bad
                       THEN ReplaceLast(begun, [table |-> table, keys |-> keys, ok |-> FALSE, insts |-> <<>>])
                       ELSE begun
       /\ UNCHANGED <<exprs, gi, ggv, at, resp>>

GetInstancesFails ==
    /\ step \in {"expand", "instances"} /\ exprs = <<>> /\ Len(instances) < MaxGetExprs
    /\ step' = "instances"
    /\ instances' = Append(instances, [table |-> Len(instances) + 1, keys |-> <<>>, ok |-> FALSE, insts |-> <<>>])
    /\ UNCHANGED <<exprs, gi, ggv, at, resp>>

GetsInit ==
    /\ step = "expand" /\ exprs = <<>> /\ gi = <<>> /\ ggv = <<>>
    /\ at = [group |-> 1, start |-> 0] /\ resp = <<>> /\ instances = <<>>

GetsNext ==
    \/ \E r \in Resolutions : Expand(r)
    \/ GetOwn \/ GetParameterGroup \/ RespondGet
    \/ \E keys \in KeySets : GetInstances(keys)
    \/ GetInstancesFails

GetsSpec == GetsInit /\ [][GetsNext]_gvars

(* ------------------------------ properties ------------------------------ *)
(* The parameters an expression resolved to whose value was obtained, in order. *)
(* Entry k of the vector belongs to the expression that added it.               *)
Before(i) == Len(FlattenSeq([j \in 1..(i - 1) |-> IF exprs[j].ok THEN exprs[j].params ELSE <<>>]))
Obtained(i) ==
    LET own == [k \in 1..Len(exprs[i].params) |-> [param |-> exprs[i].params[k], entry |-> ggv[Before(i) + k]]]
        got == SelectSeq(own, LAMBDA o : o.entry.value # NONE)
    IN {o.param : o \in ToSet(got)} \union ToSet(exprs[i].direct)

(* The response to a Get has one result for every path expression, in their      *)
(* order, with an error exactly when the expression could not be resolved, and   *)
(* otherwise exactly the parameters of that expression that were obtained, each  *)
(* with its own value and under its own object; no entry of the vector is left   *)
(* without a value or an error when the chunks are done; and a GetInstances has  *)
(* one result for every requested path (group_get_vector.c, handle_get.c,        *)
(* handle_get_instances.c).                                                      *)
EachAsAsked ==
    /\ step = "done" =>
         /\ \A k \in 1..Len(ggv) : ggv[k].err <=> ggv[k].value = NONE
         /\ \A i \in 1..Len(exprs) :
              /\ resp[i].ok <=> exprs[i].ok
              /\ resp[i].ok =>
                   UNION {{<<r.obj, e.name, e.value>> : e \in ToSet(r.params)} : r \in ToSet(resp[i].res)}
                     = {<<p.obj, p.name, p>> : p \in Obtained(i)}
    /\ \A k \in 1..Len(instances) : instances[k].table = k

(* A parameter that is in two compound unique keys is returned once *)
KeyReturnedOnce == \A k \in 1..Len(instances) :
    \A i \in 1..Len(instances[k].insts) : IsInjective(instances[k].insts[i])

=============================================================================
