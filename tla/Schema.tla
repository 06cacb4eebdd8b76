------------------------------- MODULE Schema -------------------------------
(* How the supported data model is built: the USP_REGISTER_* calls that make   *)
(* the schema of a program, and the round trip by which the schema of a USP    *)
(* Service becomes part of the Broker's (Register, GetSupportedDM, its answer  *)
(* filtered by the service's permissions, the registration of what it lists,   *)
(* DeRegister).  A node is named by the sequence of names below "Device."; the *)
(* "{i}" of a path are the positions in its set of tables.  Who may register   *)
(* what, and the subscriptions that follow, are in UspBroker.  The callbacks,  *)
(* default values and limits that a call also records are left out.            *)
EXTENDS Integers, Sequences, SequencesExt, FiniteSets, TLC

CONSTANTS
    SchServices,    \* the USP Services
    SchOffers,      \* SchOffers[s]: the USP_REGISTER_* calls the service makes at start-up
    SchAsks,        \* SchAsks[s]: the paths the service registers with the Broker
    SchCores,       \* the sets of calls that may make up the Broker's own schema
    Restrictions,   \* what may be taken from a permission
    MaxRestricted,  \* nodes of a service on which permissions are restricted
    HiddenTables,   \* a table may be hidden while an object nested in it is not
    LateDeregister, \* a service may deregister before it has answered the GetSupportedDM
    MaxSchRegisters \* Register messages

ASSUME SchemaAssumption ==
    /\ MaxRestricted \in Nat /\ MaxSchRegisters \in Nat
    /\ HiddenTables \in BOOLEAN /\ LateDeregister \in BOOLEAN

VARIABLES
    service,        \* service[s]: the schema of the service
    toCall,         \* the calls of its start-up it has still to make
    phase,          \* "starting", "up", or "failed" when a call was refused
    perms,          \* perms[s][n]: what the Broker may see of the node
    core,           \* the schema the Broker started with
    broker,         \* the schema of the Broker
    registered_paths, gsdm_paths,
    registers       \* bound

schVars == <<service, toCall, phase, perms, core, broker, registered_paths, gsdm_paths, registers>>

(* ----------------------------- schema nodes ----------------------------- *)
ReadOnlyTypes == {"Param_ConstantValue", "Param_NumEntries", "DBParam_ReadOnly",
                  "DBParam_ReadOnlyAuto", "VendorParam_ReadOnly"}
ReadWriteTypes == {"DBParam_ReadWrite", "DBParam_ReadWriteAuto", "DBParam_Secure", "VendorParam_ReadWrite"}
ParamTypes == ReadOnlyTypes \union ReadWriteTypes
ObjectTypes == {"single", "multi"}
OperationTypes == {"SyncOperation", "AsyncOperation"}

CreateNode(type) ==
    [type |-> type, group |-> "none", writable |-> TRUE, flags |-> "", args |-> <<>>,
     keys |-> <<>>, permitted |-> FALSE]

Prefix(path, i) == SubSeq(path, 1, i)
Parent(path) == Prefix(path, Len(path) - 1)

TablesOf(dm, path) == {i \in 1..Len(path) : dm[Prefix(path, i)].type = "multi"}

SegmentType(path, tables, type, i) ==
    CASE i \in tables -> "multi" [] i = Len(path) -> type [] OTHER -> "single"

(* The objects above the last segment are made as they are met, except tables; *)
(* those made before the segment that fails stay.                              *)
AddSchemaPath(dm, path, tables, type, suppress) ==
    LET n == Len(path)
        Type(i) == SegmentType(path, tables, type, i)
        Exists(i) == Prefix(path, i) \in DOMAIN dm
        Fails(i) ==
            \/ ~Exists(i) /\ i \in tables /\ i # n
            \/ Exists(i) /\ i = n /\ "existence" \notin suppress
            \/ Exists(i) /\ dm[Prefix(path, i)].type # Type(i) /\ ~(i = n /\ "type" \in suppress)
        reached == {i \in 1..n : \A j \in 1..i : ~Fails(j)}
        made == {Prefix(path, i) : i \in reached} \ DOMAIN dm
    IN [ok |-> n \in reached, dm |-> dm @@ [p \in made |-> CreateNode(Type(Len(p)))]]

RefusedWith(dm) == [ok |-> FALSE, dm |-> dm]
Done(dm) == [ok |-> TRUE, dm |-> dm]

(* ------------------------- the USP_REGISTER calls ------------------------ *)
RegisterObject(dm, c) ==
    LET r == AddSchemaPath(dm, c.path, c.tables, "multi", {})
    IN IF r.ok THEN Done([r.dm EXCEPT ![c.path].writable = c.writable]) ELSE r

RegisterParam(dm, c) ==
    LET r == AddSchemaPath(dm, c.path, c.tables, c.type, {})
    IN IF r.ok THEN Done([r.dm EXCEPT ![c.path].flags = c.flags]) ELSE r

RegisterConstant(dm, c) == RegisterParam(dm, c @@ [type |-> "Param_ConstantValue"])
RegisterDBParam(dm, c) == RegisterParam(dm, c @@ [type |-> IF c.write THEN "DBParam_ReadWrite" ELSE "DBParam_ReadOnly"])
RegisterSecureParam(dm, c) == RegisterParam(dm, c @@ [type |-> "DBParam_Secure"])
RegisterAutoParam(dm, c) ==
    RegisterParam(dm, c @@ [type |-> IF c.write THEN "DBParam_ReadWriteAuto" ELSE "DBParam_ReadOnlyAuto"])
RegisterVendorParam(dm, c) ==
    RegisterParam(dm, c @@ [type |-> IF c.write THEN "VendorParam_ReadWrite" ELSE "VendorParam_ReadOnly"])

(* Commands, events and the parameters of a USP Service belong to its group *)
InGroup(r, c) == IF r.ok THEN Done([r.dm EXCEPT ![c.path].group = c.group]) ELSE r

RegisterGroupedParam(dm, c) == InGroup(RegisterVendorParam(dm, c), c)

RegisterNumEntries(dm, c) ==
    LET r == AddSchemaPath(dm, c.path, c.tables, "Param_NumEntries", {})
        t == AddSchemaPath(r.dm, c.table, c.tables \union {Len(c.table)}, "multi", {"existence"})
    IN CASE ~r.ok -> r
         [] r.ok /\ ~t.ok -> t
         [] OTHER -> Done([t.dm EXCEPT ![c.path].flags = "DM_UINT"])

RegisterOperation(dm, c) == InGroup(AddSchemaPath(dm, c.path, c.tables, c.type, {}), c)

RegisterEvent(dm, c) == InGroup(AddSchemaPath(dm, c.path, c.tables, "Event", {}), c)

OperationArguments(dm, c) ==
    LET r == AddSchemaPath(dm, c.path, c.tables, "AsyncOperation", {"existence", "type"})
    IN CASE ~r.ok -> r
         [] r.ok /\ (r.dm[c.path].type \notin OperationTypes \/ r.dm[c.path].args # <<>>) -> RefusedWith(r.dm)
         [] OTHER -> Done([r.dm EXCEPT ![c.path].args = c.args])

EventArguments(dm, c) ==
    LET r == AddSchemaPath(dm, c.path, c.tables, "Event", {"existence"})
    IN CASE ~r.ok -> r
         [] r.ok /\ r.dm[c.path].args # <<>> -> RefusedWith(r.dm)
         [] OTHER -> Done([r.dm EXCEPT ![c.path].args = c.args])

(* A key is refused when a key that has all its parameters is there already *)
RegisterUniqueKey(dm, c) ==
    LET r == AddSchemaPath(dm, c.path, c.tables, "multi", {"existence"})
        isParam(k) == /\ Append(c.path, k) \in DOMAIN r.dm
                      /\ r.dm[Append(c.path, k)].type \in ParamTypes
    IN CASE ~r.ok -> r
         [] r.ok /\ (\/ \E k \in ToSet(c.key) : ~isParam(k)
                     \/ ~IsInjective(c.key)
                     \/ \E u \in ToSet(r.dm[c.path].keys) : ToSet(c.key) \subseteq ToSet(u)) -> RefusedWith(r.dm)
         [] OTHER -> Done([r.dm EXCEPT ![c.path].keys = Append(@, c.key)])

(* An Alias is a unique key of its table *)
RegisterAlias(dm, c) ==
    LET r == RegisterAutoParam(dm, c @@ [write |-> TRUE, flags |-> "DM_STRING"])
    IN IF r.ok
       THEN RegisterUniqueKey(r.dm, [path |-> Parent(c.path), tables |-> c.tables, key |-> <<Last(c.path)>>])
       ELSE r

Registered(dm, c) ==
    CASE c.call = "object" -> RegisterObject(dm, c)
      [] c.call = "constant" -> RegisterConstant(dm, c)
      [] c.call = "database" -> RegisterDBParam(dm, c)
      [] c.call = "secure" -> RegisterSecureParam(dm, c)
      [] c.call = "automatic" -> RegisterAutoParam(dm, c)
      [] c.call = "vendor" -> RegisterVendorParam(dm, c)
      [] c.call = "grouped" -> RegisterGroupedParam(dm, c)
      [] c.call = "alias" -> RegisterAlias(dm, c)
      [] c.call = "entries" -> RegisterNumEntries(dm, c)
      [] c.call = "operation" -> RegisterOperation(dm, c)
      [] c.call = "event" -> RegisterEvent(dm, c)
      [] c.call = "operation args" -> OperationArguments(dm, c)
      [] c.call = "event args" -> EventArguments(dm, c)
      [] c.call = "key" -> RegisterUniqueKey(dm, c)

(* The calls one after the other; the Broker logs a refusal and goes on *)
AllRegistered(dm, calls) == FoldLeft(LAMBDA d, c : Registered(d, c).dm, dm, calls)

(* ------------------- the service's side of GetSupportedDM ---------------- *)
AllPerms == {"OBJ", "GET", "SET", "ADD", "DEL", "CMD"}

(* PERMIT_PARAM_INFO is PERMIT_GET *)
Info(type) == IF type \in ParamTypes THEN "GET" ELSE "CMD"

TypeOnWire ==
    [DM_STRING |-> "PARAM_STRING", DM_DATETIME |-> "PARAM_DATE_TIME", DM_BOOL |-> "PARAM_BOOLEAN",
     DM_INT |-> "PARAM_INT", DM_UINT |-> "PARAM_UNSIGNED_INT", DM_ULONG |-> "PARAM_UNSIGNED_LONG",
     DM_BASE64 |-> "PARAM_BASE_64", DM_HEXBIN |-> "PARAM_HEX_BINARY", DM_DECIMAL |-> "PARAM_DECIMAL",
     DM_LONG |-> "PARAM_LONG"]

ObjAccess(node, perm) ==
    CASE ~node.writable \/ perm \intersect {"ADD", "DEL"} = {} -> "OBJ_READ_ONLY"
      [] node.writable /\ {"ADD", "DEL"} \subseteq perm -> "OBJ_ADD_DELETE"
      [] OTHER -> "OBJ_ADD_ONLY_OR_DELETE_ONLY"

ParamAccess(node, perm) ==
    IF node.type \in ReadWriteTypes /\ "SET" \in perm THEN "PARAM_READ_WRITE" ELSE "PARAM_READ_ONLY"

ChildListed(s, child) ==
    LET node == service[s][child]
    IN /\ {"OBJ", Info(node.type)} \subseteq perms[s][Parent(child)]
       /\ Info(node.type) \in perms[s][child]

LeavesOf(dm, obj) == {n \in DOMAIN dm : n # <<>> /\ Parent(n) = obj /\ dm[n].type \notin ObjectTypes}
ObjectsBelow(dm, path) == {n \in DOMAIN dm : IsPrefix(path, n) /\ dm[n].type \in ObjectTypes}

(* A supported object result, with what it lists below it *)
Result(s, obj, leaves, withKeys) ==
    LET dm == service[s]
    IN [path |-> obj, tables |-> TablesOf(dm, obj), multi |-> dm[obj].type = "multi",
        access |-> ObjAccess(dm[obj], perms[s][obj]),
        leaves |-> {[name |-> Last(n), type |-> dm[n].type, args |-> dm[n].args,
                     access |-> IF dm[n].type \in ParamTypes THEN ParamAccess(dm[n], perms[s][n]) ELSE "none",
                     value |-> IF dm[n].type \in ParamTypes THEN TypeOnWire[dm[n].flags] ELSE "none"] :
                       n \in leaves},
        keys |-> IF withKeys THEN dm[obj].keys ELSE <<>>]

WalkSchema(s, path) ==
    {Result(s, o, {n \in LeavesOf(service[s], o) : ChildListed(s, n)}, TRUE) :
        o \in {o \in ObjectsBelow(service[s], path) : "OBJ" \in perms[s][o]}}

SingleChild(s, path) ==
    IF "OBJ" \in perms[s][Parent(path)]
    THEN {Result(s, Parent(path), {n \in {path} : ChildListed(s, n)}, FALSE)} ELSE {}

(* With first_level_only the objects below are listed for the permissions of their parent *)
FirstLevelObjects(s, path) ==
    IF "OBJ" \in perms[s][path]
    THEN {o \in ObjectsBelow(service[s], path) : Len(o) = Len(path) + 1} ELSE {}

(* A path is looked up as it is written, without "{i}" but for its own *)
InSchema(dm, path) == path \in DOMAIN dm /\ TablesOf(dm, path) \subseteq {Len(path)}

Supported(s, path) ==
    CASE ~InSchema(service[s], path) -> {}
      [] InSchema(service[s], path) /\ service[s][path].type \in ObjectTypes -> WalkSchema(s, path)
      [] OTHER -> SingleChild(s, path)

(* ------------------ the Broker's side of GetSupportedDM ------------------ *)
ObjectOf(p) == IF p.object THEN p.path ELSE Parent(p.path)

CommonAncestor(P) ==
    LET first == ObjectOf(CHOOSE p \in P : TRUE)
        common == {i \in 0..Len(first) : \A p \in P : IsPrefix(Prefix(first, i), ObjectOf(p))}
    IN Prefix(first, CHOOSE i \in common : \A j \in common : j <= i)

AskedOf(P) == IF \A p \in P : p.object THEN {p.path : p \in P} ELSE {CommonAncestor(P)}

WantAll(P, r) ==
    \E p \in P : p.object /\ IsPrefix(p.path, r.path) /\ r.tables \intersect 1..(Len(p.path) - 1) = {}

IsWantedDmElement(P, r, l) == r.tables = {} /\ [path |-> Append(r.path, l.name), object |-> FALSE] \in P

IsWantedGsdmObject(P, r) == WantAll(P, r) \/ \E l \in r.leaves : IsWantedDmElement(P, r, l)

SortedBackwards(results) == SetToSortSeq(results, LAMBDA a, b : Len(a.path) > Len(b.path))

(* The objects are sorted by path: an object after those it is in *)
Sorted(results) == SetToSortSeq(results, LAMBDA a, b : Len(a.path) < Len(b.path))

TypeFromWire(value) == CHOOSE t \in DOMAIN TypeOnWire : TypeOnWire[t] = value

RegisterObjectInBroker(dm, r, s) ==
    LET a == AddSchemaPath(dm, r.path, r.tables, IF r.multi THEN "multi" ELSE "single", {"existence"})
    IN IF a.ok
       THEN Done([a.dm EXCEPT ![r.path].group = s, ![r.path].writable = r.access # "OBJ_READ_ONLY"])
       ELSE a

LeafCalls(r, l, s) ==
    LET at == [path |-> Append(r.path, l.name), tables |-> r.tables, group |-> s]
    IN CASE l.type \in ParamTypes ->
              <<at @@ [call |-> "grouped", flags |-> TypeFromWire(l.value),
                       write |-> l.access # "PARAM_READ_ONLY"]>>
         [] l.type = "Event" ->
              <<at @@ [call |-> "event"], at @@ [call |-> "event args", args |-> l.args]>>
         [] l.type \in OperationTypes ->
              <<at @@ [call |-> "operation", type |-> l.type], at @@ [call |-> "operation args", args |-> l.args]>>

KeyCalls(r) == [k \in 1..Len(r.keys) |->
    [call |-> "key", path |-> r.path, tables |-> r.tables, key |-> r.keys[k]]]

ProcessSupportedObject(dm, P, r, s) ==
    LET all == WantAll(P, r)
        o == IF all THEN RegisterObjectInBroker(dm, r, s) ELSE Done(dm)
        wanted == {l \in r.leaves : all \/ IsWantedDmElement(P, r, l)}
        calls == FlattenSeq(SetToSeq({LeafCalls(r, l, s) : l \in wanted})) \o KeyCalls(r)
    IN IF IsWantedGsdmObject(P, r) /\ o.ok THEN AllRegistered(o.dm, calls) ELSE IF all THEN o.dm ELSE dm

ProcessGsdm(dm, P, results, s) ==
    FoldLeft(LAMBDA d, r : ProcessSupportedObject(d, P, r, s), dm, Sorted(results))

(* The topmost node on the way to each path that the Broker does not have yet *)
PermissionPaths(dm, P) ==
    {Prefix(p.path, CHOOSE i \in 1..Len(p.path) :
                /\ ~InSchema(dm, Prefix(p.path, i))
                /\ \A j \in (i + 1)..Len(p.path) : ~InSchema(dm, Prefix(p.path, j))
                /\ i = 1 \/ InSchema(dm, Prefix(p.path, i - 1))) :
        p \in {p \in P : ~InSchema(dm, p.path)}}

ApplyPermissions(dm, paths) == [n \in DOMAIN dm |->
    [dm[n] EXCEPT !.permitted = @ \/ \E p \in {p \in paths : InSchema(dm, p)} : IsPrefix(p, n)]]

(* ------------------------------ registration ----------------------------- *)
Overlap(p, q) ==
    \/ p.path = q.path
    \/ p.object /\ IsPrefix(p.path, q.path)
    \/ q.object /\ IsPrefix(q.path, p.path)

Free(p) ==
    \A q \in UNION {registered_paths[s] : s \in SchServices} : ~Overlap(p, q)

DestroyedAlone(dm, path) == [n \in {n \in DOMAIN dm : ~IsPrefix(path, n)} |-> dm[n]]

(* What the node was the last child of goes with it *)
Destroyed(dm, path) ==
    LET left == {n \in DOMAIN dm : ~IsPrefix(path, n)}
        kept == {n \in left : \/ n = <<>> \/ ~IsPrefix(n, path)
                              \/ \E m \in left : IsPrefix(n, m) /\ ~IsPrefix(m, path)}
    IN [n \in kept |-> dm[n]]

DeRegisterPath(dm, path) == IF InSchema(dm, path) THEN Destroyed(dm, path) ELSE dm

DeRegisterAll(dm, P) == FoldLeft(LAMBDA d, p : DeRegisterPath(d, p.path), dm, SetToSeq(P))

Root == (<<>> :> [CreateNode("single") EXCEPT !.permitted = TRUE])

SchInit ==
    /\ service = [s \in SchServices |-> Root]
    /\ toCall = SchOffers
    /\ phase = [s \in SchServices |-> "starting"]
    /\ perms = [s \in SchServices |-> <<>>]
    /\ \E C \in SchCores : core = AllRegistered(Root, C)
    /\ broker = core
    /\ registered_paths = [s \in SchServices |-> {}]
    /\ gsdm_paths = [s \in SchServices |-> {}]
    /\ registers = 0

(* A call of the service's start-up, in any order; a refused one ends it.  The *)
(* services start before the first of them registers.                          *)
Call(s) == \E c \in toCall[s] :
    LET r == Registered(service[s], c)
    IN /\ phase[s] = "starting"
       /\ \A t \in SchServices : gsdm_paths[t] = {} /\ registered_paths[t] = {}
       /\ service' = [service EXCEPT ![s] = r.dm]
       /\ toCall' = [toCall EXCEPT ![s] = @ \ {c}]
       /\ phase' = [phase EXCEPT ![s] = IF r.ok THEN @ ELSE "failed"]
       /\ UNCHANGED <<perms, core, broker, registered_paths, gsdm_paths, registers>>

(* The permissions that the Broker's role has at the service *)
Hides(dm, n, R, f) ==
    /\ dm[n].type = "multi" /\ n \in R /\ "OBJ" \in f[n]
    /\ \E m \in DOMAIN dm : m # n /\ IsPrefix(n, m) /\ dm[m].type \in ObjectTypes

Start(s) ==
    /\ phase[s] = "starting" /\ toCall[s] = {}
    /\ phase' = [phase EXCEPT ![s] = "up"]
    /\ \E R \in {R \in SUBSET (DOMAIN service[s] \ {<<>>}) : Cardinality(R) <= MaxRestricted} :
         \E f \in [R -> Restrictions] :
           /\ HiddenTables \/ \A n \in R : ~Hides(service[s], n, R, f)
           /\ perms' = [perms EXCEPT ![s] = [n \in DOMAIN service[s] |->
                            IF n \in R THEN AllPerms \ f[n] ELSE AllPerms]]
    /\ UNCHANGED <<service, toCall, core, broker, registered_paths, gsdm_paths, registers>>

HandleRegister(s) ==
    /\ phase[s] = "up" /\ gsdm_paths[s] = {} /\ registers < MaxSchRegisters
    /\ \E P \in SUBSET SchAsks[s] :
         LET accepted == {p \in P : Free(p) /\ ~InSchema(broker, p.path)}
         IN /\ accepted # {}
            /\ \A p, q \in accepted : p # q => ~Overlap(p, q)
            /\ registered_paths' = [registered_paths EXCEPT ![s] = @ \union accepted]
            /\ gsdm_paths' = [gsdm_paths EXCEPT ![s] = accepted]
    /\ registers' = registers + 1
    /\ UNCHANGED <<service, toCall, phase, perms, core, broker>>

HandleGetSupportedDMResp(s) ==
    /\ gsdm_paths[s] # {}
    /\ LET P == gsdm_paths[s]
           results == UNION {Supported(s, a) : a \in AskedOf(P)}
       IN broker' = ApplyPermissions(ProcessGsdm(broker, P, results, s), PermissionPaths(broker, P))
    /\ gsdm_paths' = [gsdm_paths EXCEPT ![s] = {}]
    /\ UNCHANGED <<service, toCall, phase, perms, core, registered_paths, registers>>

HandleDeRegister(s) ==
    /\ gsdm_paths[s] = {} \/ LateDeregister
    /\ \E P \in {registered_paths[s]} \union {{p} : p \in registered_paths[s]} :
         /\ P # {}
         /\ broker' = DeRegisterAll(broker, P)
         /\ registered_paths' = [registered_paths EXCEPT ![s] = @ \ P]
    /\ UNCHANGED <<service, toCall, phase, perms, core, gsdm_paths, registers>>

HandleDisconnect(s) ==
    /\ phase[s] = "up" /\ registered_paths[s] # {}
    /\ broker' = DeRegisterAll(broker, registered_paths[s])
    /\ registered_paths' = [registered_paths EXCEPT ![s] = {}]
    /\ gsdm_paths' = [gsdm_paths EXCEPT ![s] = {}]
    /\ UNCHANGED <<service, toCall, phase, perms, core, registers>>

SchNext == \E s \in SchServices :
    \/ Call(s) \/ Start(s) \/ HandleRegister(s) \/ HandleGetSupportedDMResp(s)
    \/ HandleDeRegister(s) \/ HandleDisconnect(s)

SchSpec == SchInit /\ [][SchNext]_schVars

(* ------------------------------ properties ------------------------------ *)
(* The elements of the service that belong in the Broker's schema: at or below *)
(* a path it registered, permitted to the Broker, in no table that is hidden   *)
(* from it and under nothing that the Broker has of another kind.              *)
Promised(s, n) ==
    LET dm == service[s]
        leaf == dm[n].type \notin ObjectTypes
    IN /\ n # <<>>
       /\ \E p \in registered_paths[s] :
            \/ p.object /\ IsPrefix(p.path, n) /\ TablesOf(dm, n) \intersect 1..(Len(p.path) - 1) = {}
            \/ ~p.object /\ leaf /\ p.path = n /\ TablesOf(dm, n) = {}
       /\ IF leaf
          THEN /\ {"OBJ", Info(dm[n].type)} \subseteq perms[s][Parent(n)]
               /\ Info(dm[n].type) \in perms[s][n]
          ELSE "OBJ" \in perms[s][n]
       /\ \A i \in TablesOf(dm, n) \ {Len(n)} : "OBJ" \in perms[s][Prefix(n, i)]
       /\ \A i \in 1..(Len(n) - 1) :
            Prefix(n, i) \in DOMAIN core => core[Prefix(n, i)].type = dm[Prefix(n, i)].type

BrokerType(s, n) ==
    LET type == service[s][n].type
    IN CASE type \in ReadOnlyTypes -> "VendorParam_ReadOnly"
         [] type \in ReadWriteTypes ->
              IF "SET" \in perms[s][n] THEN "VendorParam_ReadWrite" ELSE "VendorParam_ReadOnly"
         [] OTHER -> type

(* Once the Broker has the answer to its GetSupportedDM, the nodes it has of a  *)
(* service are exactly the permitted ones at and below the paths the service    *)
(* registered, with their types, value types, arguments and the unique keys it  *)
(* may see, and every node that is not the Broker's own has had the permissions *)
(* of the roles applied: AddSchemaPath, the WalkSchema of the service, the sort *)
(* and the registrations of ProcessGsdm_SupportedObject and                     *)
(* CalculatePermissionPaths agree for every order in which services come and go.*)
RegisteredAsSupported ==
    /\ \A s \in SchServices : phase[s] = "up" /\ gsdm_paths[s] = {} =>
        LET mine == {n \in DOMAIN broker : broker[n].group = s}
        IN /\ mine = {n \in DOMAIN service[s] : Promised(s, n)}
           /\ \A n \in mine :
                /\ broker[n].type = BrokerType(s, n)
                /\ broker[n].flags = service[s][n].flags
                /\ broker[n].args = service[s][n].args
                /\ ToSet(broker[n].keys) =
                     {k \in ToSet(service[s][n].keys) : \A i \in ToSet(k) : Append(n, i) \in mine}
    /\ \A n \in DOMAIN broker \ DOMAIN core : broker[n].permitted

(* What a Register finds in the data model, when it overlaps no path of a      *)
(* service, is the Broker's own: nothing a service had added stays when the    *)
(* service deregisters or disconnects (DATA_MODEL_DeRegisterPath and the check *)
(* at the end of IsPathAlreadyRegistered).                                     *)
ExistingIsCore == \A n \in DOMAIN broker :
    Free([path |-> n, object |-> broker[n].type \in ObjectTypes]) => n \in DOMAIN core

(* What GetSupportedDM lists with first_level_only is permitted to the asker *)
FirstLevelPermitted == \A s \in SchServices : phase[s] = "up" =>
    \A o \in ObjectsBelow(service[s], <<>>) :
        \A c \in FirstLevelObjects(s, o) : "OBJ" \in perms[s][c]

(* The schema of the Broker is its own and what the services support, no more. *)
SchemaInv == RegisteredAsSupported /\ ExistingIsCore
=============================================================================
