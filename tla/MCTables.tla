------------------------------- MODULE MCTables -------------------------------
(***************************************************************************)
(* Who may use the data model, and over which connections, in one run:     *)
(* permissions and challenges of controller trust, end-to-end sessions,    *)
(* the tables of MTPs and connections, and the Unix domain sockets.  The   *)
(* initial state picks the part that runs; the others stand still, so the  *)
(* state space is the union of theirs.                                     *)
(***************************************************************************)
EXTENDS Ctrust, Challenge, E2e, MtpTables, Uds

VARIABLE part

vars == <<trustVars, chVars, e2eVars, mtVars, udsVars, part>>

\* A part that stands still has one initial state.
Init ==
    /\ part \in {"trust", "challenge", "e2e", "mtps", "uds"}
    /\ ChInit
    /\ CtrustInit /\ (part # "trust" => kind = "own" /\ rowKeys[1] = "a")
    /\ E2eInit /\ (part # "e2e" => agent.mode = "Forbid")
    /\ MtInit /\ (part # "mtps" => mtpRows[1].protocol = "CoAP")
    /\ UdsInit /\ (part # "uds" => ~us_service)

Next ==
    /\ UNCHANGED part
    /\ \/ part = "trust" /\ CtrustNext /\ UNCHANGED <<chVars, e2eVars, mtVars, udsVars>>
       \/ part = "challenge" /\ ChNext /\ UNCHANGED <<trustVars, e2eVars, mtVars, udsVars>>
       \/ part = "e2e" /\ E2eNext /\ UNCHANGED <<trustVars, chVars, mtVars, udsVars>>
       \/ part = "mtps" /\ MtNext /\ UNCHANGED <<trustVars, chVars, e2eVars, udsVars>>
       \/ part = "uds" /\ UdsNext /\ UNCHANGED <<trustVars, chVars, e2eVars, mtVars>>

Spec == Init /\ [][Next]_vars
==============================================================================
