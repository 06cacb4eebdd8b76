------------------------------ MODULE MtpQueue ------------------------------
(***************************************************************************)
(* What the send queue of a transport promises to the thread that queues   *)
(* USP records on it, whatever the transport: records are sent in the      *)
(* order in which they were queued and at most once on a connection, and   *)
(* connections that fail, close or reopen lose none.  A record leaves only *)
(* by being sent, by expiring before any of it was sent, or when the       *)
(* transport is closed for good.                                           *)
(*                                                                         *)
(* WsClient and Mqtt implement it.  Connect and disconnect records are     *)
(* about one connection; they are the transport's own and not seen here.   *)
(***************************************************************************)
EXTENDS Integers, Sequences

CONSTANT Records        \* numbered in the order in which they are queued

VARIABLES
    open,       \* is there a client that accepts records?
    up,         \* does it have a connection?
    offered,    \* the records queued so far, accepted or not
    held,       \* those still to send
    begun,      \* is the first of them partly sent?
    sent        \* the records sent on this connection, in order

qVars == <<open, up, offered, held, begun, sent>>

QInit == ~open /\ ~up /\ offered = {} /\ held = {} /\ ~begun /\ sent = <<>>

IsFirst(r, H) == r \in H /\ \A q \in H : r <= q

\* What may have expired: not a record that is partly sent.
MayExpire == SUBSET {r \in held : ~(begun /\ IsFirst(r, held))}

Open == ~open /\ open' /\ UNCHANGED <<up, offered, held, begun, sent>>

Up == open /\ ~up /\ up' /\ UNCHANGED <<open, offered, held, begun, sent>>

\* The connection is lost, closed or about to be made again.
Down == up /\ ~up' /\ ~begun' /\ sent' = <<>> /\ UNCHANGED <<open, offered, held>>

\* A record that comes after those of before.
Offered(r) == r \in Records /\ (\A q \in offered : q < r) /\ offered' = offered \cup {r}

\* The transport is closed, and whatever it held with it, perhaps a record that came just now.
End ==
    /\ open /\ ~open' /\ ~up' /\ held' = {} /\ ~begun' /\ sent' = <<>>
    /\ UNCHANGED offered \/ \E r \in Records : Offered(r)

\* A record is queued; a transport that is closed refuses it.
Offer ==
    \E r \in Records, old \in MayExpire :
        /\ Offered(r)
        /\ IF open THEN held' = (held \ old) \cup {r} ELSE old = {} /\ UNCHANGED held
        /\ UNCHANGED <<open, up, begun, sent>>

Expire == \E old \in MayExpire : held' = held \ old /\ UNCHANGED <<open, up, offered, begun, sent>>

\* A part of the first record is sent, but not the last part.
Begin ==
    /\ up
    /\ \E old \in MayExpire : held' = held \ old
    /\ held' # {} /\ begun'
    /\ UNCHANGED <<open, up, offered, sent>>

\* The last part of the first record is sent.
Send ==
    /\ up
    /\ \E old \in MayExpire, r \in held :
          /\ IsFirst(r, held \ old)
          /\ held' = held \ (old \cup {r})
          /\ sent' = Append(sent, r)
    /\ ~begun'
    /\ UNCHANGED <<open, up, offered>>

QNext == Open \/ Up \/ Down \/ End \/ Offer \/ Expire \/ Begin \/ Send

QSpec == QInit /\ [][QNext]_qVars
=============================================================================
