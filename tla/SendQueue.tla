----------------------------- MODULE SendQueue ------------------------------
(***************************************************************************)
(* Removing records from the send queue of a transport, which the code     *)
(* unlinks one by one, or entries from a vector, which the code moves      *)
(* together: those that stay keep their order.  It is SelectSeq for a set  *)
(* instead of a test, and says which entry goes to which place, for the    *)
(* proofs about the queues.                                                *)
(***************************************************************************)
EXTENDS Integers, Sequences, FiniteSets

\* The entries of q that are in S: the kth of them is at place k.
Only(q, S) ==
    LET stay == {i \in DOMAIN q : q[i] \in S}
        place(i) == Cardinality({j \in stay : j <= i})
    IN [k \in 1..Cardinality(stay) |-> q[CHOOSE i \in stay : place(i) = k]]
=============================================================================
