----------------------------- MODULE PathResolver -----------------------------
(***************************************************************************)
(* The path resolver (path_resolver.c): what the paths of a USP request    *)
(* stand for, given the instances that exist, their values and what the    *)
(* controller's role may read.                                             *)
(*                                                                         *)
(* The data model is one table A whose rows have a key k, a reference r to *)
(* a row of A and a table S whose rows have a key k.  A path is a sequence *)
(* of tokens: names, instance numbers, "*", "+" (follow the reference), a  *)
(* search expression (the names of Exprs) and a final "." for a partial    *)
(* path.  A world is one state of the data model, the rows written as      *)
(* [k, r, s]; the value "find" of r is the reference A.[k==1].             *)
(*                                                                         *)
(* The recursion of ExpandPath is the stack of what is left to expand; one *)
(* action is one call of ExpandPath up to its first recursive calls.       *)
(***************************************************************************)
EXTENDS Integers, Sequences, SequencesExt, FiniteSets

CONSTANTS
  RowValues,      \* the values a row of A may have
  Roles,          \* the sets of permissions to try
  AskedPaths,     \* the paths to try, with the operations to try them with
  Depths          \* max_depth of a Get

ASSUME PathResolverAssumption == Depths \subseteq Nat \ {0}

VARIABLES
  world,     \* the rows of A: a function from the instances that exist
  role,      \* the permissions of the controller
  asked,     \* the operation, the path and the depth
  todo,      \* calls of ExpandPath still to make: [done, rest]
  search,    \* state.is_search_path
  found,     \* state.sv
  failed     \* the call returned an error

prVars == <<world, role, asked, todo, search, found, failed>>

Insts == <<"1", "2">>          \* instance numbers, in the order of the vectors
Key(param, op, value) == [param |-> param, op |-> op, value |-> value]
Exprs == [k1   |-> <<Key(<<"k">>, "==", "1")>>,
          kn1  |-> <<Key(<<"k">>, "!=", "1")>>,
          rk1  |-> <<Key(<<"r", "+", "k">>, "==", "1")>>,
          rrk1 |-> <<Key(<<"r", "+", "r", "+", "k">>, "==", "1")>>,
          both |-> <<Key(<<"r", "+", "k">>, "==", "1"), Key(<<"k">>, "==", "1"),
                     Key(<<"r", "+", "k">>, "!=", "0")>>,
          x1   |-> <<Key(<<"x">>, "==", "1")>>,
          kx1  |-> <<Key(<<"k">>, "==", "1"), Key(<<"x">>, "==", "1")>>]
IsExpr(t) == t \in DOMAIN Exprs

\* An error is returned through all the calls.
Returns(f, s) == failed' = f /\ todo' = IF f THEN <<>> ELSE s

-----------------------------------------------------------------------------
(* The schema and the rows (data_model.c).                                 *)

IsInst(t) == t \in {"*", "1", "2", "3"} \/ IsExpr(t)

\* The type of the node of a path, search expressions standing for instances.
NodeType(p) ==
  LET n == Len(p)
  IN  CASE n = 1 /\ p[1] = "A" -> "table"
        [] n = 2 /\ p[1] = "A" /\ IsInst(p[2]) -> "row"
        [] n = 3 /\ p[1] = "A" /\ IsInst(p[2]) /\ p[3] \in {"k", "r"} -> "param"
        [] n = 3 /\ p[1] = "A" /\ IsInst(p[2]) /\ p[3] = "S" -> "table"
        [] n = 4 /\ p[1] = "A" /\ IsInst(p[2]) /\ p[3] = "S" /\ IsInst(p[4]) -> "row"
        [] n = 5 /\ p[1] = "A" /\ IsInst(p[2]) /\ p[3] = "S" /\ IsInst(p[4])
             /\ p[5] = "k" -> "param"
        [] OTHER -> "none"

\* A path without tokens to resolve, for DM_PRIV_GetNodeFromPath without
\* SUBSTITUTE_SEARCH_EXPRS.
Plain(p) == \A j \in DOMAIN p : p[j] # "*" /\ ~IsExpr(p[j])
TypeOf(p) == IF Plain(p) THEN NodeType(p) ELSE "none"

\* DM_INST_VECTOR_IsExist: the rows the path passes through.
Exists(w, p) ==
  /\ Len(p) >= 2 => p[2] \in DOMAIN w
  /\ Len(p) >= 4 => p[4] \in w[p[2]].s

\* DM_INST_VECTOR_GetInstances of a table.
RowNumbers(w, p) ==
  SelectSeq(Insts, LAMBDA i : IF Len(p) = 1 THEN i \in DOMAIN w ELSE i \in w[p[2]].s)

\* DATA_MODEL_GetParameterValue of a parameter of a row that exists.
ParameterValue(w, p) == IF Len(p) = 5 THEN "1" ELSE IF p[3] = "k" THEN w[p[2]].k ELSE w[p[2]].r

\* The name of the permission to read a parameter.
GetBit(p) == IF Len(p) = 5 THEN "get.s" ELSE IF p[3] = "k" THEN "get.k" ELSE "get.r"
MayGet(p) == GetBit(p) \in role

-----------------------------------------------------------------------------
(* Init: every world, role and request.                                    *)

PrInit ==
  /\ \E D \in SUBSET {"1", "2"} : world \in [D -> RowValues]
  /\ role \in Roles
  /\ \E q \in AskedPaths, d \in Depths : asked = [op |-> q.op, path |-> q.path, depth |-> d]
  /\ asked.op \notin {"get", "instances"} => \A d \in Depths : asked.depth >= d
  /\ todo = <<[done |-> <<>>, rest |-> asked.path]>>
  /\ search = FALSE /\ found = <<>> /\ failed = FALSE

-----------------------------------------------------------------------------
(* A search expression.                                                    *)

HasRef(key) == \E j \in DOMAIN key.param : key.param[j] = "+"

\* CheckPathPermission: not a parameter is an error.
NotParam(p) == TypeOf(p) # "param"

\* DM_ACCESS_CompareNumber and its like.
Compare(v, op, c) == IF op = "==" THEN v = c ELSE v # c

\* The path of a key of an instance of the table.
KeyPath(p, i, key) == p \o <<i>> \o key.param

\* ExpandsNonReferencedKeys.  ggv is the vector of parameters to get, idx
\* the entry of it for every instance and key (0 for INVALID).  The keys of an
\* instance are looked at in order, up to the first that may not be read.
ExpandsNonReferencedKeys(p, insts, keys) ==
  FoldLeft(LAMBDA a, i :
    LET paths == [j \in DOMAIN keys |-> KeyPath(p, i, keys[j])]
        looked == {j \in DOMAIN keys : \A m \in 1..(j - 1) : MayGet(paths[m])}
        n == Len(a.ggv)
    IN  IF a.err THEN a
        ELSE IF \E j \in looked : NotParam(paths[j]) THEN [a EXCEPT !.err = TRUE]
        ELSE IF \E j \in looked : ~MayGet(paths[j])
        THEN [a EXCEPT !.idx = @ \o [j \in DOMAIN keys |-> 0]]
        ELSE [a EXCEPT !.idx = @ \o [j \in DOMAIN keys |-> n + j], !.ggv = @ \o paths],
    [err |-> FALSE, ggv |-> <<>>, idx |-> <<>>], insts)

PlusAt(p) == CHOOSE j \in DOMAIN p : p[j] = "+" /\ \A m \in 1..(j - 1) : p[m] # "+"
HasPlus(p) == \E j \in DOMAIN p : p[j] = "+"

\* The path written in a reference.
RefPath(v) == IF v = "find" THEN <<"A", "k1">> ELSE <<"A", v>>

\* One round of ResolveIntermediateReferences: the first reference of every
\* parameter is replaced by its value.  A row that may not be read, or whose
\* reference is blank, takes no part any more.
FollowOnce(w, a) ==
  LET Upto(p) == SubSeq(p, 1, PlusAt(p) - 1)
      After(p) == SubSeq(p, PlusAt(p) + 1, Len(p))
      open == {j \in DOMAIN a.params : a.perm[j] /\ HasPlus(a.params[j])}
      bad == \E j \in open : LET h == Upto(a.params[j])
                             IN  NotParam(h) \/ (MayGet(h) /\ ~Exists(w, h))
      Val(j) == ParameterValue(w, Upto(a.params[j]))
      Drop(j) == ~MayGet(Upto(a.params[j])) \/ Val(j) = ""
  IN  IF a.err \/ bad THEN [a EXCEPT !.err = TRUE]
      ELSE [a EXCEPT !.perm = [j \in DOMAIN a.perm |-> a.perm[j] /\ (j \in open => ~Drop(j))],
                     !.params = [j \in DOMAIN a.params |->
                        IF j \in open /\ ~Drop(j)
                        THEN RefPath(Val(j)) \o After(a.params[j]) ELSE a.params[j]]]

\* The end of ResolveReferencedKeys: the parameters that are left are to be got.
AddReferencedKeys(a) ==
  FoldLeft(LAMBDA b, m :
    IF b.err THEN b
    ELSE IF ~a.perm[m] THEN [b EXCEPT !.idx = Append(@, 0)]
    ELSE IF NotParam(a.params[m]) THEN [b EXCEPT !.err = TRUE]
    ELSE IF ~MayGet(a.params[m]) THEN [b EXCEPT !.idx = Append(@, 0)]
    ELSE [b EXCEPT !.idx = Append(@, Len(b.ggv) + 1), !.ggv = Append(@, a.params[m])],
    [err |-> a.err, ggv |-> <<>>, idx |-> <<>>], [m \in DOMAIN a.params |-> m])

\* ResolveReferencedKeys.
ResolveReferencedKeys(w, p, insts, keys) ==
  LET all == [m \in 1..(Len(insts) * Len(keys)) |->
                KeyPath(p, insts[((m - 1) \div Len(keys)) + 1], keys[((m - 1) % Len(keys)) + 1])]
  IN  AddReferencedKeys(FollowOnce(w, FollowOnce(w,
        [params |-> all, perm |-> [m \in DOMAIN all |-> TRUE], err |-> FALSE])))

\* The keys are tried in order, from an offset in the vector of indexes; the
\* first that does not match or cannot be read ends it.
KeysMatch(w, from, sp, keys) ==
  LET at == [j \in DOMAIN keys |-> sp.idx[from + j]]
      open == {j \in DOMAIN keys : at[j] # 0}
      bad == {j \in open : ~Exists(w, sp.ggv[at[j]])}
      good == {j \in open \ bad : Compare(ParameterValue(w, sp.ggv[at[j]]), keys[j].op, keys[j].value)}
  IN  [err |-> \E j \in bad : 1..(j - 1) \subseteq good, match |-> good = DOMAIN keys]

\* A mutant of the next: the vector holds one entry for each instance.
MatchByInstance(w, n, sp, keys) == KeysMatch(w, n - 1, sp, keys)

\* DoUniqueKeysMatch of the n-th instance.
DoUniqueKeysMatch(w, n, sp, keys) == KeysMatch(w, (n - 1) * Len(keys), sp, keys)

\* The instances whose keys match, those without references and those with.
Matching(w, insts, plain, refs, sp, rp) ==
  LET res == [n \in DOMAIN insts |->
                LET m1 == DoUniqueKeysMatch(w, n, sp, plain)
                    m2 == DoUniqueKeysMatch(w, n, rp, refs)
                IN  [err |-> m1.err \/ m2.err, match |-> m1.match /\ m2.match]]
  IN  IF sp.err \/ rp.err THEN [err |-> TRUE, insts |-> <<>>]
      ELSE [err |-> \E n \in DOMAIN insts : res[n].err,
            insts |-> SelectSeq(insts, LAMBDA i :
                        res[CHOOSE n \in DOMAIN insts : insts[n] = i].match)]

\* ResolveUniqueKey up to its recursive calls: the instances that match.  An
\* error at one instance comes after the calls for those before it.
ResolveKeys(w, p, insts, plain, refs) ==
  Matching(w, insts, plain, refs, ExpandsNonReferencedKeys(p, insts, plain),
           IF refs = <<>> THEN [err |-> FALSE, ggv |-> <<>>, idx |-> <<>>]
           ELSE ResolveReferencedKeys(w, p, insts, refs))
ResolveUniqueKey(w, p, e) ==
  ResolveKeys(w, p, RowNumbers(w, p), SelectSeq(Exprs[e], LAMBDA key : ~HasRef(key)),
              SelectSeq(Exprs[e], HasRef))

-----------------------------------------------------------------------------
(* The steps of ExpandPath.                                                *)

Top == Last(todo)
Below == Front(todo)

\* The next token that needs resolving, or the end of the path.
StopAt(rest) ==
  IF \E j \in DOMAIN rest : rest[j] \in {"*", "+"} \/ IsExpr(rest[j])
  THEN CHOOSE j \in DOMAIN rest : /\ rest[j] \in {"*", "+"} \/ IsExpr(rest[j])
                                  /\ \A m \in 1..(j - 1) : ~(rest[m] \in {"*", "+"} \/ IsExpr(rest[m]))
  ELSE Len(rest) + 1
Resolved == Top.done \o SubSeq(Top.rest, 1, StopAt(Top.rest) - 1)
Token == IF StopAt(Top.rest) <= Len(Top.rest) THEN Top.rest[StopAt(Top.rest)] ELSE "end"
Unresolved == SubSeq(Top.rest, StopAt(Top.rest) + 1, Len(Top.rest))

Forgiving(op) == op \in {"get", "valchange"}

\* CheckUnresolvedPathValidity: the rest of the path, up to a reference, is
\* in the schema.
Valid_Unresolved(p, rest) ==
  LET n == IF HasPlus(rest) THEN PlusAt(rest) - 1 ELSE Len(rest)
      full == p \o <<"*">> \o SelectSeq(SubSeq(rest, 1, n), LAMBDA t : t # ".")
  IN  NodeType(full) # "none"

\* The calls for every instance, the first one on top.
Calls(insts, p, rest) ==
  [j \in DOMAIN insts |-> [done |-> Append(p, insts[Len(insts) + 1 - j]), rest |-> rest]]

\* GetPermittedInstances fails.
NoInstances(p) ==
  \/ TypeOf(p) # "table"
  \/ ~Exists(world, p) /\ asked.op # "get"

ExpandWildcard ==
  /\ todo # <<>> /\ Token = "*"
  /\ LET p == Resolved
         insts == IF Exists(world, p) THEN RowNumbers(world, p) ELSE <<>>
     IN  IF NoInstances(p) THEN Returns(TRUE, <<>>)
         ELSE IF insts = <<>>
         THEN Returns(asked.op = "get" /\ ~Valid_Unresolved(p, Unresolved), Below)
         ELSE Returns(FALSE, Below \o Calls(insts, p, Unresolved))
  /\ search' = TRUE
  /\ UNCHANGED <<world, role, asked, found>>

\* The calls for the instances that an expression selects.
ExpandMatching(p, m) ==
  IF m.none \/ (~m.err /\ m.insts = <<>>)
  THEN Returns(asked.op = "get" /\ ~Valid_Unresolved(p, Unresolved), Below)
  ELSE Returns(m.err, Below \o Calls(m.insts, p, Unresolved))

MatchingOf(p, e) ==
  IF ~Exists(world, p) \/ RowNumbers(world, p) = <<>> THEN [none |-> TRUE]
  ELSE [none |-> FALSE] @@ ResolveUniqueKey(world, p, e)

ExpandExpression ==
  /\ todo # <<>> /\ IsExpr(Token)
  /\ IF NoInstances(Resolved) THEN Returns(TRUE, <<>>)
     ELSE ExpandMatching(Resolved, MatchingOf(Resolved, Token))
  /\ search' = TRUE
  /\ UNCHANGED <<world, role, asked, found>>

\* A reference that is itself a search path: the first object it stands for.
FirstOrNone(s) == IF s = <<>> THEN "" ELSE s[1]
FirstFound(w) ==
  IF RowNumbers(w, <<"A">>) = <<>> THEN "" ELSE FirstOrNone(ResolveUniqueKey(w, <<"A">>, "k1").insts)

\* What ResolveReferenceFollow does with the parameter p: an error, nothing,
\* or the object to go on from.
FollowFails == [err |-> TRUE, go |-> FALSE, obj |-> <<>>]
FollowQuiet == [err |-> ~Forgiving(asked.op), go |-> FALSE, obj |-> <<>>]
GoTo(target) ==
  IF target = "" THEN FollowQuiet
  ELSE IF ~Exists(world, RefPath(target)) THEN FollowQuiet
  ELSE [err |-> FALSE, go |-> TRUE, obj |-> RefPath(target)]
Follow(p) ==
  IF asked.op = "bulk" \/ TypeOf(p) # "param" THEN FollowFails
  ELSE IF ~MayGet(p) THEN FollowQuiet
  ELSE IF ~Exists(world, p) THEN FollowFails
  ELSE GoTo(IF ParameterValue(world, p) = "find" THEN FirstFound(world) ELSE ParameterValue(world, p))

GoOn(f) == Returns(f.err, IF f.go THEN Append(Below, [done |-> f.obj, rest |-> Unresolved]) ELSE Below)
ResolveReferenceFollow ==
  /\ todo # <<>> /\ Token = "+"
  /\ GoOn(Follow(Resolved))
  /\ UNCHANGED <<world, role, asked, search, found>>

-----------------------------------------------------------------------------
(* The end of the path.                                                    *)

\* The permission a parameter needs below a partial path.
Wanted(p) == IF asked.op = "valchange" THEN "vc" \in role ELSE MayGet(p)

\* GetChildParams and GetChildParams_MultiInstanceObject, for a data model
\* two tables deep: the parameters at most d objects below.
ParamsOfS(p) == <<Append(p, "k")>>
ParamsOfRow(p, d) ==
  IF d = 0 THEN <<>>
  ELSE IF Len(p) = 4 THEN ParamsOfS(p)
  ELSE <<Append(p, "k"), Append(p, "r")>>
         \o IF d = 1 THEN <<>>
            ELSE FlattenSeq([j \in DOMAIN RowNumbers(world, p \o <<"S">>) |->
                   ParamsOfS(p \o <<"S", RowNumbers(world, p \o <<"S">>)[j]>>)])
GetChildParams(p, d) ==
  IF TypeOf(p) = "row" THEN ParamsOfRow(p, d)
  ELSE FlattenSeq([j \in DOMAIN RowNumbers(world, p) |->
         ParamsOfRow(Append(p, RowNumbers(world, p)[j]), d)])

\* ResolvePartialPath.
ResolvePartialPath(p) ==
  LET children == GetChildParams(p, asked.depth)
  IN  IF TypeOf(p) \notin {"table", "row"} THEN Returns(TRUE, <<>>) /\ UNCHANGED found
      ELSE IF ~Exists(world, p) THEN Returns(~search, Below) /\ UNCHANGED found
      ELSE /\ Returns(asked.op = "bulk" /\ ~ \A j \in DOMAIN children : MayGet(children[j]), Below)
           /\ found' = found \o SelectSeq(children, Wanted)

\* CheckPathProperties: the path is not one the operation may be applied to.
Unfit(p) ==
  LET ty == TypeOf(p)
  IN  \/ ty = "none"
      \/ asked.op \in {"get", "valchange", "bulk"} /\ ty # "param"
      \/ asked.op \in {"instances", "subsadd"} /\ ty \notin {"table", "row"}
      \/ asked.op = "set" /\ ty \notin {"table", "row"}
      \/ asked.op = "del" /\ ty # "row"
      \/ ~Exists(world, p) /\ (asked.op \in {"set", "instances"} \/ (asked.op = "get" /\ ~search))

\* CheckPathProperties: the role may have the path in the vector.
Allowed(p) ==
  CASE asked.op \in {"get", "bulk"} -> MayGet(p)
    [] asked.op = "valchange" -> "vc" \in role
    [] asked.op = "subsadd" -> "inst" \in role
    [] OTHER -> TRUE

AddNew(sv, ps) == FoldLeft(LAMBDA s, p : IF Contains(s, p) THEN s ELSE Append(s, p), sv, ps)

InstancePaths(p) ==
  IF TypeOf(p) = "row" THEN <<p>>
  ELSE [j \in DOMAIN RowNumbers(world, p) |-> Append(p, RowNumbers(world, p)[j])]

\* DATA_MODEL_GetAllInstancePaths, and DATA_MODEL_GetInstancePaths when only
\* the first level is asked for (depth 1), without what the role may not see.
AllInstancePaths(p) ==
  FlattenSeq([j \in DOMAIN InstancePaths(p) |->
    LET q == InstancePaths(p)[j]
    IN  IF Len(q) = 4 \/ asked.depth = 1 THEN <<q>> ELSE <<q>> \o InstancePaths(q \o <<"S">>)])

\* AddPathFound.
AddPathFound(p) ==
  /\ Returns(Unfit(p), Below)
  /\ found' =
       IF Unfit(p) \/ ~Exists(world, p) \/ ~Allowed(p) THEN found
       ELSE CASE asked.op = "subsadd" -> AddNew(found, InstancePaths(p))
              [] asked.op = "instances" ->
                   SelectSeq(AddNew(found, AllInstancePaths(p)), LAMBDA q : "inst" \in role)
              [] OTHER -> AddNew(found, <<p>>)

\* The end of the path.  Only an Operate or an Event path must not end in a dot.
PathEnds ==
  /\ todo # <<>> /\ Token = "end"
  /\ LET p == Resolved
         dot == p # <<>> /\ Last(p) = "."
         obj == IF dot THEN Front(p) ELSE p
     IN  IF dot /\ asked.op \in {"get", "valchange", "bulk"} THEN ResolvePartialPath(obj)
         ELSE AddPathFound(obj)
  /\ UNCHANGED <<world, role, asked, search>>

PrNext == ExpandWildcard \/ ExpandExpression \/ ResolveReferenceFollow \/ PathEnds

PrSpec == PrInit /\ [][PrNext]_prVars

-----------------------------------------------------------------------------
(* What a path means: the set of objects it stands for, narrowed token by  *)
(* token, and whether one of them makes it an error.  The meaning is taken *)
(* in the world as the role sees it: a key that may not be read is never   *)
(* known, a reference that may not be read is blank.                       *)

Seen == [i \in DOMAIN world |-> [k |-> IF "get.k" \in role THEN world[i].k ELSE "unknown",
                                 r |-> IF "get.r" \in role THEN world[i].r ELSE "",
                                 s |-> world[i].s]]

\* The key of the row that a reference in brackets names: "bad" when it is
\* not the path of a row.
KeyAt(w, v) ==
  IF v = "" \/ (v # "find" /\ "get.k" \notin role) THEN "unknown"
  ELSE IF v \in DOMAIN w THEN w[v].k ELSE "bad"

\* The value of a key of row i of the table p.
KeyValue(w, p, i, param) ==
  CASE Len(p) = 3 -> IF param # <<"k">> THEN "bad" ELSE IF "get.s" \in role THEN "1" ELSE "unknown"
    [] param = <<"k">> -> w[i].k
    [] param = <<"x">> -> "bad"
    [] param = <<"r", "+", "k">> -> KeyAt(w, w[i].r)
    [] OTHER -> IF w[i].r = "" THEN "unknown"
                ELSE IF w[i].r \notin DOMAIN w THEN "bad" ELSE KeyAt(w, w[w[i].r].r)

Satisfies(w, p, i, key) ==
  LET v == KeyValue(w, p, i, key.param) IN v \notin {"unknown", "bad"} /\ Compare(v, key.op, key.value)

\* The rows of the table p that a wildcard or an expression stands for.
RowSet(w, p) == IF Exists(w, p) THEN ToSet(RowNumbers(w, p)) ELSE {}
Selected(w, p, t) ==
  {i \in RowSet(w, p) : IsExpr(t) => \A j \in DOMAIN Exprs[t] : Satisfies(w, p, i, Exprs[t][j])}
\* A key that names no parameter is an error, unless the role may not read one
\* of the keys before it: those tell nothing of the keys after them.
BadKey(w, p, t) ==
  IsExpr(t) /\ \E i \in RowSet(w, p), j \in DOMAIN Exprs[t] :
    LET Value(m) == KeyValue(w, p, i, Exprs[t][m].param)
        Plainly(m) == ~HasRef(Exprs[t][m])
    IN  /\ Value(j) = "bad"
        /\ Plainly(j) => \A m \in 1..(j - 1) : Plainly(m) => Value(m) # "unknown"

\* The row a reference outside brackets leads to, {} for none.
Target(w, v) ==
  IF v # "find" THEN {v} \cap DOMAIN w
  ELSE LET ones == {i \in DOMAIN w : w[i].k = "1"}
       IN  IF "1" \in ones THEN {"1"} ELSE ones

\* One token of the path, with what comes after it.
Narrow(w, m, t, rest) ==
  CASE IsExpr(t) \/ t = "*" ->
         LET bad == \E p \in m.objs : \/ NodeType(p) # "table"
                                      \/ asked.op # "get" /\ ~Exists(w, p)
                                      \/ BadKey(w, p, t)
         IN  IF bad THEN [m EXCEPT !.err = TRUE, !.objs = {}]
             ELSE [err |-> m.err \/ \E p \in m.objs : /\ asked.op = "get" /\ Selected(w, p, t) = {}
                                                      /\ ~Valid_Unresolved(p, rest),
                   objs |-> UNION {{Append(p, i) : i \in Selected(w, p, t)} : p \in m.objs}]
    [] t = "+" ->
         LET bad == \E p \in m.objs : \/ asked.op = "bulk" \/ NodeType(p) # "param"
                                      \/ MayGet(p) /\ ~Exists(w, p)
             Ends(p) == IF MayGet(p) THEN Target(w, ParameterValue(w, p)) ELSE {}
         IN  IF bad THEN [m EXCEPT !.err = TRUE, !.objs = {}]
             ELSE [err |-> m.err \/ (~Forgiving(asked.op) /\ \E p \in m.objs : Ends(p) = {}),
                   objs |-> {<<"A", i>> : i \in UNION {Ends(p) : p \in m.objs}}]
    [] OTHER -> [m EXCEPT !.objs = {Append(p, t) : p \in @}]

ObjectsMeant ==
  LET path == SelectSeq(asked.path, LAMBDA t : t # ".")
  IN  FoldLeft(LAMBDA m, j : Narrow(Seen, m, path[j], SubSeq(path, j + 1, Len(path))),
               [err |-> FALSE, objs |-> {<<>>}], [j \in DOMAIN path |-> j])

\* Every parameter of the data model, and the number of objects between it
\* and an object above it.
AllParams ==
  UNION {{<<"A", i, "k">>, <<"A", i, "r">>} \cup {<<"A", i, "S", j, "k">> : j \in world[i].s}
         : i \in DOMAIN world}
Levels(p, q) == IF Len(q) - Len(p) <= 2 THEN 1 ELSE 2
Within(p, q) == IsPrefix(p, q) /\ Levels(p, q) <= asked.depth

\* What the request stands for.
MeantBy(m, there) ==
  LET partial == asked.path # <<>> /\ Last(asked.path) = "."
      searched == \E j \in DOMAIN asked.path : asked.path[j] = "*" \/ IsExpr(asked.path[j])
      tables == {p \in there : NodeType(p) = "table"}
      rows == {p \in there : NodeType(p) = "row"}
      children == {q \in AllParams : \E p \in there : Within(p, q)}
      below == rows \cup UNION {{Append(p, i) : i \in RowSet(world, p)} : p \in tables}
      types == {NodeType(p) : p \in m.objs}
      gone == m.objs # there
  IN  CASE asked.op \in {"get", "valchange", "bulk"} /\ partial ->
             [err |-> \/ m.err \/ ~(types \subseteq {"table", "row"}) \/ (gone /\ ~searched)
                      \/ asked.op = "bulk" /\ ~ \A q \in children : MayGet(q),
              set |-> {q \in children : Wanted(q)}]
        [] asked.op \in {"get", "valchange", "bulk"} ->
             [err |-> m.err \/ ~(types \subseteq {"param"}) \/ (asked.op = "get" /\ gone /\ ~searched),
              set |-> {q \in there : Wanted(q)}]
        [] asked.op = "set" -> [err |-> m.err \/ gone \/ ~(types \subseteq {"table", "row"}), set |-> there]
        [] asked.op = "del" -> [err |-> m.err \/ ~(types \subseteq {"row"}), set |-> there]
        [] asked.op = "subsadd" ->
             [err |-> m.err \/ ~(types \subseteq {"table", "row"}),
              set |-> IF "inst" \in role THEN below ELSE {}]
        [] asked.op = "instances" ->
             [err |-> m.err \/ gone \/ ~(types \subseteq {"table", "row"}),
              set |-> IF "inst" \notin role THEN {}
                      ELSE below \cup {q \in {<<"A", i, "S", j>> : i \in DOMAIN world, j \in {"1", "2"}} :
                                          Exists(world, q) /\ asked.depth > 1
                                            /\ \E p \in below : IsPrefix(p, q)}]

MeantOf(m) == MeantBy(m, {p \in m.objs : Exists(world, p)})

-----------------------------------------------------------------------------
(* Properties.                                                             *)

\* The vector holds paths of the data model, and a failed call has returned.
PrTypeOK ==
  /\ \A j \in DOMAIN found : NodeType(found[j]) # "none"
  /\ failed \in BOOLEAN /\ search \in BOOLEAN /\ (failed => todo = <<>>)

Answer(m) == [err |-> m.err, set |-> IF m.err THEN {} ELSE m.set]

\* The depth-first expansion with its vectors of keys, indexes and references
\* ends with what the path means to the role: it fails when one object of the
\* path is an error, and otherwise finds exactly the objects and parameters
\* the path stands for.  As the meaning is taken in the world the role sees,
\* neither the result nor an error depends on a value the role may not read.
ResolvedIsMeant ==
  todo = <<>> => [err |-> failed, set |-> IF failed THEN {} ELSE ToSet(found)] = Answer(MeantOf(ObjectsMeant))

\* path_resolver.c:1548 "If the dereferenced path is not a fully qualified
\* object, mark permission as false for this instance to avoid further
\* processing": a row whose reference leads nowhere is no match, and does not
\* fail the search for the other rows.
UnfitReferenceSkipped ==
  todo = <<>> /\ asked.op = "get" /\ asked.path = <<"A", "rk1", "k">> => ~failed
=============================================================================
