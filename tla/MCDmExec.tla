------------------------------ MODULE MCDmExec ------------------------------
(* Instances of DmExec for TLC.                                            *)
EXTENDS DmExec, TLC

CONSTANTS e1, e2, uds, w1

\* Both services are served by the UDS MTP thread.
MCMtpOf == [e \in Endpoints |-> uds]

=============================================================================
