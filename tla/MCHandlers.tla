------------------------------ MODULE MCHandlers ------------------------------
(***************************************************************************)
(* What the data model thread does with messages, in one run:              *)
(* notifications and their retries, the Broker's commands and passed on    *)
(* requests, the requests of a USP Service and the entry of messages.  The *)
(* initial state picks the part that runs; the others stand still, so the  *)
(* state space is the union of theirs.                                     *)
(***************************************************************************)
EXTENDS Subs, SubsRetry, BrokerMsgs, UspService, MsgEntry

VARIABLE part

vars == <<sbVars, rtVars, bmVars, svcVars, meVars, part>>

Init ==
    /\ part \in {"subs", "retry", "broker", "service", "entry"}
    /\ SubsInit /\ RetryInit /\ BmInit /\ SvcInit /\ MeInit

Next ==
    /\ UNCHANGED part
    /\ \/ part = "subs" /\ SubsNext /\ UNCHANGED <<rtVars, bmVars, svcVars, meVars>>
       \/ part = "retry" /\ RetryNext /\ UNCHANGED <<sbVars, bmVars, svcVars, meVars>>
       \/ part = "broker" /\ BmNext /\ UNCHANGED <<sbVars, rtVars, svcVars, meVars>>
       \/ part = "service" /\ SvcNext /\ UNCHANGED <<sbVars, rtVars, bmVars, meVars>>
       \/ part = "entry" /\ MeNext /\ UNCHANGED <<sbVars, rtVars, bmVars, svcVars>>

\* Fairness matters to the one liveness property, of a USP Service, only.
Spec == Init /\ [][Next]_vars /\ SvcFairness
==============================================================================
