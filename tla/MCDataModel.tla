------------------------------ MODULE MCDataModel ------------------------------
(***************************************************************************)
(* The data model and the requests on it, in one run: the Add, Set and     *)
(* Delete requests, the transactions below them, the path resolver, the    *)
(* schema of a Broker and its services, and group gets.  The initial state *)
(* picks the part that runs; the others stand still, so the state space is *)
(* the union of theirs.                                                    *)
(***************************************************************************)
EXTENDS Requests, DmTrans, MCPathResolver, MCSchema, Gets

(* The instances of Gets. *)
GetParam(obj, name, group) == [obj |-> obj, name |-> name, group |-> group]

ResolutionsMC ==
    {[ok |-> FALSE, params |-> <<>>, direct |-> <<>>],
     [ok |-> TRUE, params |-> <<>>, direct |-> <<GetParam("o", "a", 9), GetParam("q", "b", 9)>>],
     [ok |-> TRUE, params |-> <<GetParam("o", "a", 1), GetParam("p", "b", 0), GetParam("o", "c", 2)>>, direct |-> <<>>],
     [ok |-> TRUE, params |-> <<GetParam("o", "a", 1), GetParam("o", "b", 1), GetParam("p", "a", 1), GetParam("q", "a", 3)>>,
      direct |-> <<GetParam("r", "a", 9)>>]}

KeySetsMC == {<<>>, <<<<"a">>>>, <<<<"a", "b">>>>}
KeySetsShared == {<<<<"a", "b">>, <<"a", "c">>>>}

VARIABLE part

vars == <<rqVars, dmTransVars, prVars, schVars, gvars, part>>

\* A part that stands still has one initial state.
Init ==
    /\ part \in {"requests", "transactions", "resolver", "schema", "gets"}
    /\ RqInit /\ DmTransInit /\ GetsInit
    /\ SchInit /\ (part # "schema" => Cardinality(DOMAIN core) = 1)
    /\ IF part = "resolver" THEN PrInit
       ELSE PrInit /\ world = <<>> /\ role = PrAll /\ asked = [op |-> "get", path |-> <<"A", ".">>, depth |-> 1]

Next ==
    /\ UNCHANGED part
    /\ \/ part = "requests" /\ RqNext /\ UNCHANGED <<dmTransVars, prVars, schVars, gvars>>
       \/ part = "transactions" /\ DmTransNext /\ UNCHANGED <<rqVars, prVars, schVars, gvars>>
       \/ part = "resolver" /\ PrNext /\ UNCHANGED <<rqVars, dmTransVars, schVars, gvars>>
       \/ part = "schema" /\ SchNext /\ UNCHANGED <<rqVars, dmTransVars, prVars, gvars>>
       \/ part = "gets" /\ GetsNext /\ UNCHANGED <<rqVars, dmTransVars, prVars, schVars>>

Spec == Init /\ [][Next]_vars
==============================================================================
