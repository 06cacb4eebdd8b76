----------------------------- MODULE MCComponents -----------------------------
(***************************************************************************)
(* The components that do not interact with each other, in one run.  The   *)
(* initial state picks the component that runs; the others stand still, so *)
(* the state space is the union of theirs and not the product.             *)
(***************************************************************************)
EXTENDS Stomp, StompRx, BulkData, Controllers, TLC

CONSTANTS p1, p2
MCProfiles == {p1, p2}
Symmetry == Permutations(MCProfiles)

\* Bound: the more profiles there are and the more slots have leaked, the fewer timers fire.
FewEvents ==
    LET leaked == {s \in Slots : profile_id'[s] \in Leaks}
    IN fires' + Cardinality(leaked) + Cardinality(table') <= MaxFires + 1

VARIABLE part

vars == <<stompVars, rxVars, bulkVars, ctVars, part>>

\* The stream is only chosen for the component that receives it.
Init ==
    /\ part \in {"stomp", "stomp_rx", "bulk_data", "controllers"}
    /\ StompInit
    /\ RxInit
    /\ BulkInit
    /\ CtInit
    /\ part # "stomp_rx" => stream = <<>> /\ frames = <<>>

Next ==
    /\ UNCHANGED part
    /\ \/ part = "stomp" /\ StompNext /\ UNCHANGED <<rxVars, bulkVars, ctVars>>
       \/ part = "stomp_rx" /\ RxNext /\ UNCHANGED <<stompVars, bulkVars, ctVars>>
       \/ part = "bulk_data" /\ BulkNext /\ FewEvents /\ UNCHANGED <<stompVars, rxVars, ctVars>>
       \/ part = "controllers" /\ CtNext /\ UNCHANGED <<stompVars, rxVars, bulkVars>>

Spec == Init /\ [][Next]_vars
==============================================================================
