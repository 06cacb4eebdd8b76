----------------------------- MODULE UspBroker ------------------------------
(***************************************************************************)
(* The USP Broker's view of its USP Services (usp_broker.c) and of the     *)
(* subscriptions it delegates to them (device_subscription.c).             *)
(*                                                                         *)
(* A USP Service connects over up to two Unix domain sockets, registers    *)
(* data model paths, is asked for its supported data model (GSDM), and     *)
(* then owns the nodes below those paths.  Subscriptions to nodes it owns  *)
(* are copied into the service's own subscription table, and three tables  *)
(* must stay aligned through registration, deregistration, disconnection,  *)
(* timeouts and restarts: the Broker's subscriptions with the service each *)
(* path is marked as handled by, subs_map, and the service's table.        *)
(*                                                                         *)
(* Everything here runs in the DM thread, which handles one message at a   *)
(* time: each handler is one step, including the requests on which it      *)
(* blocks.  Such a request is executed and answered ("ok"), not executed   *)
(* ("refused": an error answer, or the connection is gone), or executed    *)
(* with its answer lost ("lost": the wait times out).                      *)
(***************************************************************************)
EXTENDS Integers, Sequences, FiniteSets, SequencesExt

CONSTANTS
    Services,       \* endpoints that may connect over UDS
    Uses,           \* the sockets each of them connects to
    MaxServices,    \* the values of MAX_USP_SERVICES considered
    Nodes,          \* data model nodes that services implement
    CoreNodes,      \* nodes of the Broker's own data model
    Offers,         \* the lists of paths each service registers in one message
    Trusted,        \* the paths each service is allowed to register
    GsdmAnswers,    \* the sets of nodes each service may report as supported
    Subs,           \* instance numbers of Device.LocalAgent.Subscription
    Specs,          \* the notification types and ReferenceLists each of them may get
    LateAnswers,    \* do services answer over a new connection what the old one asked?
    Ids,            \* bound: subscription ids alive at a service at one time
    MaxFaults       \* bound: failures in a behaviour

ASSUME IdsAssumption == Ids \subseteq Nat /\ IsFiniteSet(Ids)
ASSUME BoundAssumption == MaxFaults \in Nat
ASSUME LateAssumption == LateAnswers \in BOOLEAN
\* A path has the names of its nodes below 'Device' and a kind, which stands for its last
\* character: '.', none, '!' or ')'.
Path == [name: Seq(STRING), kind: {"object", "param", "event", "command"}]

ASSUME PathAssumption ==
    /\ Nodes \subseteq Path
    /\ \A s \in Services : \A q \in Offers[s] : q \in Seq(Path)
ASSUME ServicesAssumption == "absent" \notin Services

VARIABLES
    size,               \* MAX_USP_SERVICES, fixed when the Broker is built
    link,               \* sockets each service has open (the UDS connections)
    known,              \* services with an entry in usp_services[]
    mtp,                \* which of controller_mtp and agent_mtp that entry has
    registered_paths,
    waiting,            \* gsdm_msg_ids is not empty
    asked,              \* the service may still answer the GSDM request awaited
    gsdm_paths,
    owner,              \* group_id of each node, Absent when not in the data model
    lists,              \* us->events and us->commands
    sub,                \* the Broker's subscriptions
    mark,               \* handler_group_ids and device_group_ids
    subs_map,
    table,              \* the service's own subscription table
    faults              \* number of failures: of requests, answers and processes

linkVars == <<size, link, known, mtp>>
regVars  == <<registered_paths, waiting, asked, gsdm_paths, owner>>
subVars  == <<sub, mark, subs_map, table, lists, faults>>
vars == <<linkVars, regVars, subVars>>

-----------------------------------------------------------------------------

Sockets == {"controller", "agent"}
Absent == "absent"
NoSub == [type |-> "None", paths |-> {}]     \* deleted, or not enabled
Listed == {"Event", "OperationComplete"}     \* types that may refer to 'Device.'

\* dm_root: 'Device.'.
DeviceDot == [name |-> <<>>, kind |-> "object"]

\* Path n is path p or lies below the object p.
MatchesOrIsChildOf(n, p) ==
    \/ n = p
    \/ p.kind = "object" /\ IsStrictPrefix(p.name, n.name)

\* Two paths that may not both be registered: the same stripped name, or one is
\* an object above the other.
Conflict(p, q) ==
    \/ p.name = q.name
    \/ MatchesOrIsChildOf(p, q)
    \/ MatchesOrIsChildOf(q, p)

IsValidUspServicePath(p) == p # DeviceDot

InDataModel(p) ==
    \/ \E n \in CoreNodes : MatchesOrIsChildOf(n, p)
    \/ \E n \in Nodes : owner[n] # Absent /\ MatchesOrIsChildOf(n, p)

Paths == UNION {ToSet(q) : q \in UNION {Offers[s] : s \in Services}}
AllSpecs == UNION {Specs[b] : b \in Subs}
SubPaths == UNION {spec.paths : spec \in AllSpecs}

\* An entry of a service's subscription table; list is the ReferenceList that stands
\* for 'Device.'.  The same entry in subs_map pairs it with subscription b.
Entry == [id: Ids, b: Subs, type: {spec.type : spec \in AllSpecs},
          path: SubPaths, list: SUBSET Nodes]

TypeOK ==
    /\ size \in MaxServices
    /\ link \in [Services -> SUBSET Sockets]
    /\ known \subseteq Services
    /\ mtp \in [Services -> SUBSET Sockets]
    /\ registered_paths \in [Services -> SUBSET Paths]
    /\ waiting \in [Services -> BOOLEAN]
    /\ asked \in [Services -> BOOLEAN]
    /\ gsdm_paths \in [Services -> SUBSET Paths]
    /\ owner \in [Nodes -> Services \cup {Absent}]
    /\ lists \in [Services -> [Listed -> SUBSET Nodes]]
    /\ \A b \in Subs : sub[b] \in Specs[b] \cup {NoSub}
    /\ mark \subseteq Subs \X SubPaths \X Services
    /\ \A s \in Services : /\ \A e \in ToSet(subs_map[s]) : e \in Entry
                           /\ \A e \in ToSet(table[s]) : e \in Entry
    /\ faults \in 0..MaxFaults

Init ==
    /\ size \in MaxServices
    /\ link = [s \in Services |-> {}]
    /\ known = {}
    /\ mtp = [s \in Services |-> {}]
    /\ registered_paths = [s \in Services |-> {}]
    /\ waiting = [s \in Services |-> FALSE]
    /\ asked = [s \in Services |-> FALSE]
    /\ gsdm_paths = [s \in Services |-> {}]
    /\ owner = [n \in Nodes |-> Absent]
    /\ lists = [s \in Services |-> [t \in Listed |-> {}]]
    /\ sub = [b \in Subs |-> NoSub]
    /\ mark = {}
    /\ subs_map = [s \in Services |-> <<>>]
    /\ table = [s \in Services |-> <<>>]
    /\ faults = 0

-----------------------------------------------------------------------------
(* Connections *)

\* USP_BROKER_AddUspService on the completed handshake: a full table is only logged.
Connect(s, k) ==
    /\ k \in Uses[s] \ link[s]
    /\ link' = [link EXCEPT ![s] = @ \cup {k}]
    /\ IF s \in known \/ Cardinality(known) < size
       THEN /\ known' = known \cup {s}
            /\ mtp' = [mtp EXCEPT ![s] = @ \cup {k}]
       ELSE UNCHANGED <<known, mtp>>
    /\ UNCHANGED <<size, regVars, subVars>>

\* The nodes that DATA_MODEL_DeRegisterPath leaves, after the paths in P.
Destroyed(P) == [n \in Nodes |->
    IF \E p \in P : MatchesOrIsChildOf(n, p) THEN Absent ELSE owner[n]]

\* Mutant: the data model is not cleaned up.
AgentDisconnectKeepsNodes(s) ==
    /\ mark' = {m \in mark : m[3] # s}
    /\ asked' = [asked EXCEPT ![s] = FALSE]
    /\ UNCHANGED owner

\* HandleUspServiceAgentDisconnect, apart from the tables FreeUspService frees as well.
\* gsdm_msg_ids and gsdm_paths are not reset.
AgentDisconnect(s) ==
    /\ mark' = {m \in mark : m[3] # s}
    /\ owner' = Destroyed(registered_paths[s])
    /\ asked' = [asked EXCEPT ![s] = @ /\ LateAnswers /\ "agent" \in mtp[s]]

\* FreeUspService, apart from those.
FreeUspService(s) ==
    /\ known' = known \ {s}
    /\ waiting' = [waiting EXCEPT ![s] = FALSE]
    /\ gsdm_paths' = [gsdm_paths EXCEPT ![s] = {}]
    /\ lists' = [lists EXCEPT ![s] = [t \in Listed |-> {}]]

ForgetPaths(s) ==
    /\ registered_paths' = [registered_paths EXCEPT ![s] = {}]
    /\ subs_map' = [subs_map EXCEPT ![s] = <<>>]

\* USP_BROKER_HandleUspServiceDisconnect.
HandleDisconnect(s, k) ==
    LET last == mtp[s] \subseteq {k} IN
    /\ mtp' = [mtp EXCEPT ![s] = @ \ {k}]
    /\ IF k = "controller" THEN AgentDisconnect(s) ELSE UNCHANGED <<mark, owner, asked>>
    /\ IF last THEN FreeUspService(s) ELSE UNCHANGED <<known, waiting, gsdm_paths, lists>>
    /\ IF last \/ k = "controller" THEN ForgetPaths(s)
                                   ELSE UNCHANGED <<registered_paths, subs_map>>

Disconnect(s, k) ==
    /\ k \in link[s]
    /\ link' = [link EXCEPT ![s] = @ \ {k}]
    /\ IF s \in known THEN HandleDisconnect(s, k)
                      ELSE UNCHANGED <<known, mtp, regVars, mark, subs_map, lists>>
    /\ UNCHANGED <<size, sub, table, faults>>

Failure == faults < MaxFaults /\ faults' = faults + 1

\* A service that restarts forgets the subscriptions that were not persistent.
ServiceRestart(s) ==
    /\ link[s] = {} /\ table[s] # <<>>
    /\ Failure
    /\ table' = [table EXCEPT ![s] = <<>>]
    /\ UNCHANGED <<linkVars, regVars, sub, mark, subs_map, lists>>

\* The Broker stops, or a USP_ASSERT ends it, and starts again: only the database
\* survives, and the services' tables.
Restarted ==
    /\ link' = [s \in Services |-> {}]
    /\ known' = {}
    /\ mtp' = [s \in Services |-> {}]
    /\ registered_paths' = [s \in Services |-> {}]
    /\ waiting' = [s \in Services |-> FALSE]
    /\ asked' = [s \in Services |-> FALSE]
    /\ gsdm_paths' = [s \in Services |-> {}]
    /\ owner' = [n \in Nodes |-> Absent]
    /\ lists' = [s \in Services |-> [t \in Listed |-> {}]]
    /\ mark' = {}
    /\ subs_map' = [s \in Services |-> <<>>]
    /\ UNCHANGED <<size, sub, table>>

BrokerRestart == known # {} /\ Failure /\ Restarted

-----------------------------------------------------------------------------
(* Registration *)

\* Mutant: the paths of other services are not looked at.
AlreadyRegisteredOnlyInDM(p, accepted) ==
    (\E q \in accepted : Conflict(p, q)) \/ InDataModel(p)

\* IsPathAlreadyRegistered, for a path that follows the paths accepted so far.
IsPathAlreadyRegistered(p, accepted) ==
    \/ \E q \in accepted \cup UNION {registered_paths[t] : t \in Services} : Conflict(p, q)
    \/ InDataModel(p)

ShouldPathBeAddedToDataModel(s, p, accepted) ==
    /\ IsValidUspServicePath(p)
    /\ ~IsPathAlreadyRegistered(p, accepted)
    /\ p \in Trusted[s]

\* I is the set of positions of the paths of a message that are accepted when they are
\* tried in the order of q.
Accept(s, q, I) ==
    \A i \in DOMAIN q :
        i \in I <=> ShouldPathBeAddedToDataModel(s, q[i], {q[j] : j \in I \cap 1..(i - 1)})

\* The paths become the service's and QueueGetSupportedDMToUspService asks for what is
\* below them, unless the connection has gone.
Registered(s, accepted) ==
    /\ registered_paths' = [registered_paths EXCEPT ![s] = @ \cup accepted]
    /\ waiting' = [waiting EXCEPT ![s] = "controller" \in mtp'[s]]
    /\ asked' = [asked EXCEPT ![s] = "controller" \in mtp'[s]]
    /\ gsdm_paths' = [gsdm_paths EXCEPT ![s] = IF "controller" \in mtp'[s] THEN accepted ELSE @]

\* USP_BROKER_HandleRegister.  A service that found the table full is added now,
\* whatever becomes of its paths.  Without allow_partial one bad path refuses them all.
\* gsdm_paths left over from an earlier sequence fail the assertion at the end.
HandleRegister(s, q, allow_partial) ==
    \E I \in SUBSET DOMAIN q :
       LET accepted == {q[i] : i \in I}
           registers == ~waiting[s] /\ I # {} /\ (allow_partial \/ I = DOMAIN q)
       IN /\ "controller" \in link[s]
          /\ s \in known \/ Cardinality(known) < size
          /\ Accept(s, q, I)
          /\ IF registers /\ gsdm_paths[s] # {}
             THEN Restarted /\ UNCHANGED faults
             ELSE /\ known' = known \cup {s}
                  /\ mtp' = [mtp EXCEPT ![s] = IF s \in known THEN @ ELSE {"controller"}]
                  /\ IF registers THEN Registered(s, accepted)
                                  ELSE UNCHANGED <<registered_paths, waiting, asked, gsdm_paths>>
                  /\ UNCHANGED <<size, link, owner, subVars>>

-----------------------------------------------------------------------------
(* Requests to services *)

\* What goes wrong with the requests of one handler: nothing, all are refused since the
\* connection has gone, or one is refused or its answer is lost.  Bound: one of them.
NoFault == [op |-> "none", at |-> <<>>, how |-> "ok"]
AllRefused == [op |-> "all", at |-> <<>>, how |-> "refused"]
Outcome(f, op, at) ==
    CASE f.op = "all" -> "refused"
      [] f.op = op /\ f.at = at -> f.how
      [] OTHER -> "ok"
FaultsOf(ops) == {NoFault} \cup
    (IF faults < MaxFaults
     THEN {AllRefused} \cup
          {[op |-> x[1], at |-> x[2], how |-> h] : x \in ops, h \in {"refused", "lost"}}
     ELSE {})
CountFault(f) == faults' = IF f = NoFault THEN faults ELSE faults + 1

-----------------------------------------------------------------------------
(* Delegated subscriptions: operators on a state of the tables *)

Tables == [mark |-> mark, smap |-> subs_map, table |-> table]

\* The group_id of the node that path p names, in the data model own.
GroupOf(p, own) == IF p \in Nodes THEN own[p] ELSE Absent

\* UpdateEventsAndCommands: the events and commands below the registered paths R.
ListsOf(R, own) == [t \in Listed |->
    {n \in Nodes : /\ own[n] # Absent
                   /\ n.kind = (IF t = "Event" THEN "event" ELSE "command")
                   /\ \E p \in R : MatchesOrIsChildOf(n, p)}]

EntriesOf(T, s, b, p) == {i \in DOMAIN T.smap[s] : T.smap[s][i].b = b /\ T.smap[s][i].path = p}
First(I) == CHOOSE i \in I : \A j \in I : i <= j

WithoutId(q, id) == SelectSeq(q, LAMBDA e : e.id # id)

\* Broker_GroupUnsubscribe: subs_map forgets its first entry whatever the outcome.
Unsubscribe(T, s, b, p, outcome) ==
    IF EntriesOf(T, s, b, p) = {}
    THEN T
    ELSE LET i == First(EntriesOf(T, s, b, p))
             id == T.smap[s][i].id
         IN [T EXCEPT !.smap[s] = RemoveAt(@, i),
                      !.table[s] = IF outcome = "refused" THEN @ ELSE WithoutId(@, id)]

FreeIds(T, s) == Ids \ {e.id : e \in ToSet(T.table[s]) \cup ToSet(T.smap[s])}

\* Broker_GroupSubscribe and the marking of the path when it succeeded.  id_count
\* and the time make every id new, so any id that is not alive will do.
Subscribe(T, s, b, p, type, list, outcome) ==
    LET e == [id |-> First(FreeIds(T, s)), b |-> b, path |-> p, type |-> type,
              list |-> IF p = DeviceDot THEN list ELSE {}]
    IN CASE outcome = "ok" -> [T EXCEPT !.mark = @ \cup {<<b, p, s>>},
                                        !.smap[s] = Append(@, e),
                                        !.table[s] = Append(@, e)]
         [] outcome = "lost" -> [T EXCEPT !.table[s] = Append(@, e)]
         [] OTHER -> T

\* StartSubscriptionInVendorLayer: the paths of subscription b, set up as spec, that
\* service s is to be subscribed for.  R, own and L are what s has registered.
ToStart(T, s, b, spec, own, R, L) ==
    {p \in spec.paths :
        IF p = DeviceDot
        THEN <<b, p, s>> \notin T.mark /\ R # {} /\ L[spec.type] # {}
        ELSE GroupOf(p, own) = s /\ \A t \in Services : <<b, p, t>> \notin T.mark}

\* Subscribes s for the paths P of subscription b.
Start(T, s, b, spec, P, L, f) ==
    FoldLeft(LAMBDA acc, p :
                 Subscribe(acc, s, b, p, spec.type,
                           IF p = DeviceDot THEN L[spec.type] ELSE {},
                           Outcome(f, "sub", <<b, p, s>>)),
             T, SetToSeq(P))

\* DEVICE_SUBSCRIPTION_StartAllVendorLayerSubsForGroup.
StartAll(T, s, own, R, L, f) ==
    FoldLeft(LAMBDA acc, b : Start(acc, s, b, sub[b], ToStart(acc, s, b, sub[b], own, R, L), L, f),
             T, SetToSeq(Subs))

\* Mutant: an error of the hook returns before the mark is removed.
UnmarkIfOk(T, m, f) ==
    LET T1 == Unsubscribe(T, m[3], m[1], m[2], Outcome(f, "unsub", m))
    IN IF Outcome(f, "unsub", m) = "ok" THEN [T1 EXCEPT !.mark = @ \ {m}] ELSE T1

\* The unsubscribe vendor hook, and the mark that is removed whether it fails or not.
Unmark(T, m, f) ==
    [Unsubscribe(T, m[3], m[1], m[2], Outcome(f, "unsub", m)) EXCEPT !.mark = @ \ {m}]

\* StopSubscriptionInVendorLayer for the marks M; errors are ignored.
Stop(T, M, f) == FoldLeft(LAMBDA acc, m : Unmark(acc, m, f), T, SetToSeq(M))

Apply(T) ==
    /\ mark' = T.mark
    /\ subs_map' = T.smap
    /\ table' = T.table

-----------------------------------------------------------------------------
(* Following a GetSupportedDM response *)

\* Mutant: an entry that is in subs_map already is not recognised.
PairTwice(acc, s, e, own, L) ==
    IF \A t \in Services : <<e.b, e.path, t>> \notin acc.T.mark
    THEN [acc EXCEPT !.T.mark = @ \cup {<<e.b, e.path, s>>}, !.T.smap[s] = Append(@, e)]
    ELSE [acc EXCEPT !.del = @ \cup {e.id}]

\* ProcessGetSubsResponse_ResolvedPathResult, for entry e of the table of s; del
\* collects the ids to delete there.
Pair(acc, s, e, own, L) ==
    LET T == acc.T
        deleted == [acc EXCEPT !.del = @ \cup {e.id}]
        same == {i \in DOMAIN T.smap[s] : T.smap[s][i].path = DeviceDot /\ T.smap[s][i].type = e.type}
        sm == T.smap[s][First(same)]
    IN CASE e.path = DeviceDot /\ (L[e.type] = {} \/ e.list # L[e.type]) ->
              IF same = {} THEN deleted
              ELSE [deleted EXCEPT
                      !.T.smap[s] = RemoveAt(@, First(same)),
                      !.T.mark = IF sub[sm.b].type = e.type
                                 THEN @ \ {<<sm.b, DeviceDot, s>>} ELSE @]
         [] e.path # DeviceDot /\ GroupOf(e.path, own) # s -> deleted
         [] \E i \in DOMAIN T.smap[s] : T.smap[s][i].id = e.id -> acc
         [] OTHER ->
              IF /\ sub[e.b].type = e.type /\ e.path \in sub[e.b].paths
                 /\ e.path = DeviceDot \/ \A t \in Services : <<e.b, e.path, t>> \notin T.mark
              THEN [acc EXCEPT !.T.mark = @ \cup {<<e.b, e.path, s>>},
                               !.T.smap[s] = Append(@, e)]
              ELSE deleted

\* ProcessGetSubsResponse; the service may not execute the deletion at its end.
PairAll(T, s, own, L, f) ==
    LET acc == FoldLeft(LAMBDA a, e : Pair(a, s, e, own, L), [T |-> T, del |-> {}], T.table[s])
    IN IF Outcome(f, "purge", <<>>) = "refused"
       THEN acc.T
       ELSE [acc.T EXCEPT !.table[s] = SelectSeq(@, LAMBDA e : e.id \notin acc.del)]

\* Mutant: all reported nodes are taken.
AddAllNodes(s, N) == [n \in Nodes |-> IF n \in N THEN s ELSE owner[n]]

\* ProcessGsdm_SupportedObject: the nodes N reported by s that its last Register asked
\* for.  A leaf that exists is not registered again; an object changes its owner.
AddNodes(s, N) == [n \in Nodes |->
    IF /\ n \in N
       /\ \E p \in gsdm_paths[s] : MatchesOrIsChildOf(n, p)
       /\ owner[n] = Absent \/ n.kind = "object"
    THEN s ELSE owner[n]]

\* Mutant: subscriptions are started before those that exist are paired.
SyncedLate(s, own, L, f) ==
    PairAll(StartAll(Tables, s, own, registered_paths[s], L, f), s, own, L, f)

\* SyncSubscriptions: a Get that times out ends it, an error answer does not.
Synced(s, own, L, f) ==
    CASE Outcome(f, "get", <<>>) = "lost" -> Tables
      [] Outcome(f, "get", <<>>) = "refused" -> StartAll(Tables, s, own, registered_paths[s], L, f)
      [] OTHER -> StartAll(PairAll(Tables, s, own, L, f), s, own, registered_paths[s], L, f)


\* USP_BROKER_HandleGetSupportedDMResp with at least one result.
HandleGetSupportedDMResp(s, N, f) ==
    LET own == AddNodes(s, N)
        L == ListsOf(registered_paths[s], own)
    IN /\ s \in known /\ waiting[s] /\ asked[s] /\ "controller" \in link[s]
       /\ waiting' = [waiting EXCEPT ![s] = FALSE]
       /\ asked' = [asked EXCEPT ![s] = FALSE]
       /\ gsdm_paths' = [gsdm_paths EXCEPT ![s] = {}]
       /\ owner' = own
       /\ lists' = [lists EXCEPT ![s] = L]
       /\ Apply(Synced(s, own, L, f))
       /\ CountFault(f)
       /\ UNCHANGED <<linkVars, registered_paths, sub>>

\* A response without results: the id is forgotten, gsdm_paths is not.
GetSupportedDMRespEmpty(s) ==
    /\ s \in known /\ waiting[s] /\ asked[s] /\ "controller" \in link[s]
    /\ Failure
    /\ waiting' = [waiting EXCEPT ![s] = FALSE]
    /\ asked' = [asked EXCEPT ![s] = FALSE]
    /\ UNCHANGED <<linkVars, registered_paths, gsdm_paths, owner, sub, mark, subs_map, table, lists>>

\* The service answers with a USP Error, which is not matched with the request, or not
\* at all.
GetSupportedDMError(s) ==
    /\ asked[s]
    /\ Failure
    /\ asked' = [asked EXCEPT ![s] = FALSE]
    /\ UNCHANGED <<linkVars, registered_paths, waiting, gsdm_paths, owner, sub, mark, subs_map, table, lists>>

-----------------------------------------------------------------------------
(* Deregistration *)

\* Mutant: the subscriptions below the path are left alone.
DeRegisterOnlyPath(acc, s, p, f) == [acc EXCEPT !.gone = @ \cup {p}]

\* DeRegisterUspServicePath: an unsubscribe that fails leaves the path registered.
DeRegisterUspServicePath(acc, s, p, f) ==
    LET hits == SelectSeq(acc.T.smap[s], LAMBDA e : MatchesOrIsChildOf(e.path, p))
        markOf(e) == <<e.b, e.path, s>>
        bad == {i \in DOMAIN hits : Outcome(f, "unsub", markOf(hits[i])) # "ok"}
        tried == IF bad = {} THEN hits ELSE SubSeq(hits, 1, First(bad))
        T == FoldLeft(LAMBDA t, e : Unmark(t, markOf(e), f), acc.T, tried)
    IN IF p \notin registered_paths[s] \ acc.gone \/ acc.failed THEN acc
       ELSE IF bad # {} THEN [acc EXCEPT !.T = T, !.failed = TRUE]
       ELSE [acc EXCEPT !.T = T, !.gone = @ \cup {p}]

\* DEVICE_SUBSCRIPTION_UpdateVendorLayerDeviceDotSubs for the types that changed: all
\* that subscription b has at s is stopped, only 'Device.' is started again.
UpdateDeviceDotSubs(T, s, changed, R, L, f) ==
    LET B == {b \in Subs : /\ sub[b].type \in changed
                           /\ DeviceDot \in sub[b].paths}
        T1 == Stop(T, {m \in T.mark : m[1] \in B /\ m[3] = s}, f)
    IN FoldLeft(LAMBDA acc, b :
                    Start(acc, s, b, sub[b],
                          IF R # {} /\ L[sub[b].type] # {} THEN {DeviceDot} ELSE {}, L, f),
                T1, SetToSeq(B))

\* USP_BROKER_HandleDeRegister of the paths q: one path, or all those registered, in
\* which case the first failure is the last path tried.
HandleDeRegister(s, q, f) ==
    LET acc == FoldLeft(LAMBDA a, p : DeRegisterUspServicePath(a, s, p, f),
                        [T |-> Tables, gone |-> {}, failed |-> FALSE], q)
        left == registered_paths[s] \ acc.gone
        own == Destroyed(acc.gone)
        L == ListsOf(left, own)
        changed == {t \in Listed : L[t] # lists[s][t]}
    IN /\ s \in known /\ "controller" \in link[s]
       /\ registered_paths[s] # {} /\ ~waiting[s]
       /\ registered_paths' = [registered_paths EXCEPT ![s] = left]
       /\ owner' = own
       /\ lists' = [lists EXCEPT ![s] = L]
       /\ Apply(UpdateDeviceDotSubs(acc.T, s, changed, left, L, f))
       /\ CountFault(f)
       /\ UNCHANGED <<linkVars, waiting, asked, gsdm_paths, sub>>

-----------------------------------------------------------------------------
(* Changes of the Broker's subscription table *)

\* NotifySubsAdded, NotifySubsDeleted and the NotifyChange functions: what was delegated
\* for subscription b is stopped, and started again as the subscription is set up now.
SetSub(b, new, f) ==
    LET T == FoldLeft(LAMBDA acc, s :
                 Start(acc, s, b, new,
                       ToStart(acc, s, b, new, owner, registered_paths[s], lists[s]),
                       lists[s], f),
             Stop(Tables, {m \in mark : m[1] = b}, f), SetToSeq(known))
    IN /\ new \in (Specs[b] \cup {NoSub}) \ {sub[b]}
       /\ sub' = [sub EXCEPT ![b] = new]
       /\ Apply(T)
       /\ CountFault(f)
       /\ UNCHANGED <<linkVars, regVars, lists>>

-----------------------------------------------------------------------------

\* The subscribe requests for the paths of subscription b set up as spec.
SubscribesOf(b, spec, S) == {"sub"} \X ({b} \X spec.paths \X S)
UnsubscribesOf(M) == {"unsub"} \X M

Next ==
    \/ \E s \in Services, k \in Sockets : Connect(s, k) \/ Disconnect(s, k)
    \/ \E s \in Services : ServiceRestart(s) \/ GetSupportedDMRespEmpty(s) \/ GetSupportedDMError(s)
    \/ BrokerRestart
    \/ \E s \in Services : \E q \in Offers[s], partial \in BOOLEAN : HandleRegister(s, q, partial)
    \/ \E s \in Services : \E N \in GsdmAnswers[s],
         f \in FaultsOf({<<"get", <<>>>>, <<"purge", <<>>>>} \cup
                        UNION {SubscribesOf(b, sub[b], {s}) : b \in Subs}) :
         HandleGetSupportedDMResp(s, N, f)
    \/ \E s \in Services :
         \E q \in {<<p>> : p \in registered_paths[s]} \cup SetToSeqs(registered_paths[s]),
            f \in FaultsOf(UnsubscribesOf({m \in mark : m[3] = s}) \cup
                           UNION {SubscribesOf(b, sub[b], {s}) : b \in Subs}) :
         HandleDeRegister(s, q, f)
    \/ \E b \in Subs, new \in AllSpecs \cup {NoSub} :
         \E f \in FaultsOf(UnsubscribesOf({m \in mark : m[1] = b}) \cup
                           SubscribesOf(b, new, known)) :
         SetSub(b, new, f)

Spec == Init /\ [][Next]_vars

-----------------------------------------------------------------------------
(* Properties *)

\* IsPathAlreadyRegistered keeps apart what services register: no two registered paths
\* have the same name or lie one below the other, in one service or in two.
NoOverlap ==
    \A s, t \in Services : \A p \in registered_paths[s], q \in registered_paths[t] :
        Conflict(p, q) => s = t /\ p = q

\* A node that a service added to the data model lies below a path that service has
\* registered, so that deregistration and disconnection remove it: what remains in the
\* data model when no service has registered it is the Broker's own.
OwnedIsRegistered ==
    \A n \in Nodes : owner[n] # Absent =>
        \E p \in registered_paths[owner[n]] : MatchesOrIsChildOf(n, p)

\* DEVICE_SUBSCRIPTION_RemoveVendorLayerSubs asserts that the Broker's subscriptions and
\* subs_map are aligned: a path is marked as handled by a service exactly when subs_map
\* has it, once, for that service.  'Device.' is left out of the converse: Pair enters a
\* second subscription to it, as MarkVendorLayerSubs answers true for a path marked before.
Aligned ==
    /\ \A m \in mark : EntriesOf(Tables, m[3], m[1], m[2]) # {}
    /\ \A s \in Services : \A i \in DOMAIN subs_map[s] :
         LET e == subs_map[s][i] IN
         e.path # DeviceDot =>
           /\ <<e.b, e.path, s>> \in mark
           /\ EntriesOf(Tables, s, e.b, e.path) = {i}

\* The Broker leaves a path to the service that owns the node, and only while the
\* subscription lists the path; otherwise nobody would notify the controller.
HandledByOwner ==
    \A m \in mark : /\ m[2] \in sub[m[1]].paths
                    /\ m[2] # DeviceDot => owner[m[2]] = m[3]

\* The entries of subs_map that the service really has, for path p of subscription b.
Backed(s, b, p) == {e \in ToSet(subs_map[s]) \cap ToSet(table[s]) : e.b = b /\ e.path = p}

\* Whatever requests fail, are lost, or are repeated by a later registration, the Broker
\* leaves a path to a service only if the service has a subscription for it that
\* subs_map knows.
ServiceHasIt == \A m \in mark : Backed(m[3], m[1], m[2]) # {}

\* The paths of subscription b that no service notifies for though s could: a node below
\* is covered by a subscription to 'Device.' that s has for b as well.
\* UpdateDeviceDotSubs stops both and starts only 'Device.' again.
Missed(s, b) ==
    LET P == ToStart(Tables, s, b, sub[b], owner, registered_paths[s], lists[s]) IN
    IF <<b, DeviceDot, s>> \in mark THEN P \ lists[s][sub[b].type] ELSE P

\* Without failures every path of a subscription is left to the service that owns it, as
\* soon as the service's GetSupportedDM response has been handled, and a service holds
\* no subscription beside those the Broker expects notifications from.
NothingMissed ==
    faults = 0 =>
      \A s \in Services : (registered_paths[s] # {} /\ ~waiting[s] /\ "controller" \in mtp[s]) =>
        /\ \A b \in Subs : Missed(s, b) = {}
        /\ ToSet(table[s]) = ToSet(subs_map[s])

\* The three places where a delegated subscription is recorded (the Broker's marks,
\* subs_map and the service's own table) agree about which service notifies for it,
\* through every failure of the requests that move it.
BrokerInv == TypeOK /\ Aligned /\ HandledByOwner /\ ServiceHasIt /\ NothingMissed

\* No registration takes a node away from the service that owns it: a node is removed
\* from the data model before another service can own it.
NoTheft ==
    [][\A n \in Nodes : owner[n] # Absent => owner'[n] \in {owner[n], Absent}]_vars

=============================================================================
