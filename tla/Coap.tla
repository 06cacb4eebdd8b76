-------------------------------- MODULE Coap --------------------------------
(***************************************************************************)
(* The CoAP MTP: the client that sends USP records block by block, a       *)
(* network that loses, duplicates and reorders PDUs, and the sessions of a *)
(* CoAP server at the other end that runs the same code.                   *)
(***************************************************************************)
EXTENDS Integers, Sequences, FiniteSets, SequencesExt

CONSTANTS
    MaxCoapRecords,     \* records queued; the first has two blocks, the others one
    CoapSessions,       \* MAX_COAP_SERVER_SESSIONS
    MaxRetransmit,      \* COAP_MAX_RETRANSMIT, MAX_COAP_RECONNECTS (4 in the code)
    MaxCoapConns,       \* sockets opened
    MaxCoapFaults       \* PDUs lost or duplicated, failed connections, expired timers, stopped sessions

ASSUME CoapAssumption ==
    /\ {MaxCoapRecords, MaxCoapConns, MaxCoapFaults} \subseteq Nat /\ {CoapSessions, MaxRetransmit} \subseteq Nat \ {0}

CoapBlocks(r) == IF r = 1 THEN 2 ELSE 1

VARIABLES
    cc,         \* the entry of coap_clients
    co_ses,     \* sessions of the server
    co_net,     \* PDUs on their way
    co_posted,  \* records that the server posted to its DM thread
    co_sent,    \* records that the client takes for successfully sent
    co_found,   \* the resource of the client is the one that the server listens on
    co_enc,     \* DTLS is used
    co_n, co_conns, co_tokens, co_faults

coBounds == <<co_n, co_conns, co_tokens, co_faults>>
coVars == <<cc, co_ses, co_net, co_posted, co_sent, co_found, co_enc, coBounds>>

NoSession == [conn |-> 0, buf |-> <<>>, count |-> 0, token |-> 0, mid |-> 0 - 1, resp |-> "none"]

\* COAP_CLIENT_Init and COAP_CLIENT_Start, COAP_SERVER_Init and COAP_SERVER_Start
CoapInit ==
    /\ cc = [queue |-> <<>>, sock |-> 0, token |-> 0, mid |-> 0, block |-> 0, retx |-> 0, reconn |-> 0,
             timer |-> "none", aborted |-> FALSE]
    /\ co_ses = [s \in 1..CoapSessions |-> NoSession] /\ co_net = {} /\ co_posted = {} /\ co_sent = {}
    /\ co_found \in BOOLEAN /\ co_enc \in BOOLEAN
    /\ co_n = 0 /\ co_conns = 0 /\ co_tokens = 0 /\ co_faults = 0

CoapFault == co_faults < MaxCoapFaults /\ co_faults' = co_faults + 1
-----------------------------------------------------------------------------
(***************************************************************************)
(* Client.  Each operator returns the client, and the PDU that it sends.   *)
(***************************************************************************)
Out(c, pdus) == [cc |-> c, pdus |-> pdus]
Pdu(to, c, type, mid, token) ==
    [to |-> to, conn |-> c.sock, type |-> type, mid |-> mid, token |-> token, rec |-> 0, block |-> 0, code |-> "none"]

\* StopSendingToController, CloseCoapClientSocket
StopSendingToController(c) ==
    [c EXCEPT !.sock = 0, !.token = 0, !.mid = 0, !.block = 0, !.retx = 0, !.timer = "none"]

\* SendCoapBlock, WriteCoapBlock: the current block, and the timer for its ACK
SendCoapBlock(c) ==
    Out([c EXCEPT !.timer = "ack"],
        {[Pdu("server", c, "CON", c.mid, c.token) EXCEPT !.rec = Head(c.queue).rec, !.block = c.block]})

\* SendFirstCoapBlock: a token and a message id of its own
SendFirstCoapBlock(c) == SendCoapBlock([c EXCEPT !.token = co_tokens + 1, !.mid = @ + 1, !.block = 0])

\* FreeCoapSendItem of the head: USP_ASSERT(csi != NULL)
FreeCoapSendItem(c) ==
    IF c.queue = <<>> THEN [c EXCEPT !.aborted = TRUE] ELSE [c EXCEPT !.queue = Tail(@)]

\* RemoveExpiredCoapMessages: never the head
RemoveExpiredCoapMessages(c, old) ==
    IF c.queue = <<>> THEN c
    ELSE [c EXCEPT !.queue = <<Head(@)>> \o SelectSeq(Tail(@), LAMBDA i : i.rec \notin old)]

\* StartSendingCoapUspRecord from where the head of the queue is looked at.  A connection that cannot be made is
\* tried again later; ok says whether it can.
SendHead(c, ok) ==
    LET i == Head(c.queue)
        d == IF i.fresh THEN StopSendingToController(c) ELSE c
    IN CASE c.aborted -> Out(c, {})
         [] ~c.aborted /\ c.queue = <<>> -> Out([c EXCEPT !.timer = "linger"], {})
         [] ~c.aborted /\ c.queue # <<>> /\ (d.sock # 0 \/ ok) ->
               SendFirstCoapBlock([d EXCEPT !.retx = 0, !.sock = IF @ = 0 THEN co_conns + 1 ELSE @])
         [] OTHER -> Out([StopSendingToController(d) EXCEPT !.reconn = @ + 1, !.timer = "reconnect"], {})

\* StartSendingCoapUspRecord(SEND_NEXT), StartSendingCoapUspRecord(SEND_CURRENT)
SendNext(c, ok) == SendHead([FreeCoapSendItem(c) EXCEPT !.reconn = 0, !.timer = "none"], ok)
SendCurrent(c, ok) == SendHead([c EXCEPT !.reconn = 0, !.timer = "none"], ok)

\* Mutant: the timer is set before everything is stopped.
RetryWithoutTimer(c, ok) ==
    IF c.reconn + 1 >= MaxRetransmit THEN SendNext(StopSendingToController(c), ok)
    ELSE Out(StopSendingToController([c EXCEPT !.reconn = @ + 1, !.timer = "reconnect"]), {})

\* RetryClientSendLater
RetryClientSendLater(c, ok) ==
    LET d == [StopSendingToController(c) EXCEPT !.reconn = @ + 1] IN
    CASE d.reconn >= MaxRetransmit -> SendNext(d, ok)
      [] d.reconn < MaxRetransmit -> Out([d EXCEPT !.timer = IF d.queue = <<>> THEN "none" ELSE "reconnect"], {})

\* SendCoapRstFromClient, and everything again
ResetAndRetry(c, p, ok) ==
    LET o == RetryClientSendLater(c, ok) IN Out(o.cc, o.pdus \cup {Pdu("server", c, "RST", c.mid + 1, p.token)})

\* The PDUs left when p is received.  One that stays is received again: the network duplicated it.  One that is
\* never received is lost.
Taken(p, twice) == IF twice THEN co_net ELSE co_net \ {p}

\* What a step of the client does to the rest.  A socket and a token are used up when a first block is sent, and
\* what arrives for a closed socket reaches nobody.
Client(o, net) ==
    /\ cc' = o.cc
    /\ co_net' = {p \in net : p.to = "server" \/ p.conn = o.cc.sock} \cup o.pdus
    /\ co_conns' = IF o.cc.sock > co_conns THEN o.cc.sock ELSE co_conns
    /\ co_tokens' = IF o.cc.token > co_tokens THEN o.cc.token ELSE co_tokens
    /\ o.cc.sock <= MaxCoapConns
Connects(ok) == IF ok THEN UNCHANGED co_faults ELSE CoapFault
CoapPeer == <<co_ses, co_posted, co_found, co_enc>>

\* COAP_CLIENT_QueueBinaryMessage.  fresh: coap_reset_session_hint, or another address than the one connected to
COAP_CLIENT_QueueBinaryMessage ==
    /\ ~cc.aborted /\ co_n < MaxCoapRecords /\ co_n' = co_n + 1
    /\ \E fresh, ok \in BOOLEAN, old \in SUBSET (1..co_n) :
          LET c == [RemoveExpiredCoapMessages(cc, old) EXCEPT !.queue = Append(@, [rec |-> co_n', fresh |-> fresh])] IN
          /\ Client(IF Len(c.queue) = 1 THEN SendCurrent(c, ok) ELSE Out(c, {}), co_net)
          /\ Connects(ok)
    /\ UNCHANGED <<CoapPeer, co_sent>>

\* What an ACK is taken for (CalcCoapClientActions).
SentLastBlock(c) == c.block + 1 = CoapBlocks(Head(c.queue).rec)
CalcCoapClientActions(c, p) ==
    CASE p.type = "RST" -> "RESET_STATE"
      [] p.type = "ACK" /\ p.token # c.token -> "SEND_RST"
      [] p.type = "ACK" /\ p.token = c.token /\ p.mid # c.mid -> "IGNORE_PDU"
      [] p.type = "ACK" /\ p.token = c.token /\ p.mid = c.mid ->
           CASE p.code = "error" -> "SEND_NEXT_USP_RECORD"
             [] p.code # "error" /\ c.queue = <<>> -> "IGNORE_PDU"
             [] p.code = "Changed" /\ c.queue # <<>> -> IF SentLastBlock(c) THEN "SENT" ELSE "SEND_RST"
             [] p.code = "Continue" /\ c.queue # <<>> ->
                  IF SentLastBlock(c) \/ p.block # c.block THEN "RESET_STATE" ELSE "SEND_NEXT_BLOCK"

\* HandleCoapAck of a PDU on the socket of the client
HandleCoapAck(p, ok) ==
    LET act == CalcCoapClientActions(cc, p) IN
    CASE act = "SEND_RST" -> ResetAndRetry(cc, p, ok)
      [] act = "RESET_STATE" -> RetryClientSendLater(cc, ok)
      [] act = "SEND_NEXT_BLOCK" -> SendCoapBlock([cc EXCEPT !.block = @ + 1, !.mid = @ + 1, !.retx = 0])
      [] act \in {"SEND_NEXT_USP_RECORD", "SENT"} -> SendNext(cc, ok)
      [] act = "IGNORE_PDU" -> Out(cc, {})

ClientReceives ==
    \E p \in co_net, ok, twice \in BOOLEAN :
       /\ ~cc.aborted /\ p.to = "client" /\ p.conn = cc.sock /\ (ok \/ ~twice)
       /\ Client(HandleCoapAck(p, ok), Taken(p, twice))
       /\ co_sent' = IF CalcCoapClientActions(cc, p) = "SENT" THEN co_sent \cup {Head(cc.queue).rec} ELSE co_sent
       /\ IF ok /\ ~twice THEN UNCHANGED co_faults ELSE CoapFault
       /\ UNCHANGED <<CoapPeer, co_n>>

\* HandleNoCoapAck
HandleNoCoapAck ==
    /\ ~cc.aborted /\ cc.timer = "ack"
    /\ \E ok \in BOOLEAN :
          LET c == [cc EXCEPT !.retx = @ + 1, !.reconn = @ + 1]
              o == CASE c.retx >= MaxRetransmit -> SendNext(c, ok)
                     [] c.retx < MaxRetransmit /\ co_enc -> RetryClientSendLater(c, ok)
                     [] OTHER -> SendCoapBlock(c)
          IN Client(o, co_net)
    /\ CoapFault
    /\ UNCHANGED <<CoapPeer, co_sent, co_n>>

\* HandleCoapClientConnectionError: the socket is closed by the peer, or fails.
HandleCoapClientConnectionError ==
    /\ ~cc.aborted /\ cc.sock # 0 /\ CoapFault
    /\ Client(IF cc.queue = <<>> THEN Out(StopSendingToController(cc), {}) ELSE RetryClientSendLater(cc, TRUE), co_net)
    /\ UNCHANGED <<CoapPeer, co_sent, co_n>>

\* COAP_CLIENT_ProcessAllSocketActivity when the time to linger or to wait is over
LingerEnds ==
    /\ ~cc.aborted /\ cc.sock # 0 /\ cc.timer = "linger"
    /\ Client(Out(StopSendingToController(cc), {}), co_net)
    /\ UNCHANGED <<CoapPeer, co_sent, co_n, co_faults>>

Reconnect ==
    /\ ~cc.aborted /\ cc.timer = "reconnect"
    /\ \E ok \in BOOLEAN : Client(IF ok THEN SendHead(cc, TRUE) ELSE RetryClientSendLater(cc, TRUE), co_net) /\ Connects(ok)
    /\ UNCHANGED <<CoapPeer, co_sent, co_n>>
-----------------------------------------------------------------------------
(***************************************************************************)
(* Server.                                                                 *)
(***************************************************************************)
\* FreeReceivedUspRecord
FreeReceivedUspRecord(s) == [s EXCEPT !.buf = <<>>, !.count = 0]

\* Whether the bytes received are those of one whole record (usp_record__record__unpack)
Unpacks(buf) == \E r \in 1..MaxCoapRecords : buf = [b \in 1..CoapBlocks(r) |-> <<r, b - 1>>]

\* AppendCoapPayload
AppendCoapPayload(s, p) == [s EXCEPT !.buf = Append(@, <<p.rec, p.block>>), !.count = @ + 1]

Complete(p) == p.block + 1 = CoapBlocks(p.rec)      \* is_more_blocks is 0

\* HandleFirstCoapBlock.  The block number and count start again; what was received before stays in usp_buf.
HandleFirstCoapBlock(s, p) ==
    LET t == [s EXCEPT !.token = p.token] IN
    CASE ~co_found -> [ses |-> s, code |-> "error"]
      [] co_found /\ p.block # 0 -> [ses |-> t, code |-> "error"]
      [] co_found /\ p.block = 0 ->
            [ses |-> AppendCoapPayload([t EXCEPT !.count = 0], p), code |-> IF Complete(p) THEN "Changed" ELSE "Continue"]

\* HandleSubsequentCoapBlock
HandleSubsequentCoapBlock(s, p) ==
    CASE p.token # s.token -> HandleFirstCoapBlock(s, p)
      [] p.token = s.token /\ p.block < s.count -> [ses |-> s, code |-> "Continue"]
      [] p.token = s.token /\ p.block > s.count -> [ses |-> s, code |-> "error"]
      [] p.token = s.token /\ p.block = s.count ->
            [ses |-> AppendCoapPayload(s, p), code |-> IF Complete(p) THEN "Changed" ELSE "Continue"]

\* Mutant: the record is only decoded after it was acknowledged.
AckFirst(s, p) == IF s.count = 0 THEN HandleFirstCoapBlock(s, p) ELSE HandleSubsequentCoapBlock(s, p)

\* CalcCoapServerActions for a request: what is complete must be a record.
CalcCoapServerActions(s, p) ==
    LET r == IF s.count = 0 THEN HandleFirstCoapBlock(s, p) ELSE HandleSubsequentCoapBlock(s, p) IN
    IF r.code = "Changed" /\ ~Unpacks(r.ses.buf) THEN [r EXCEPT !.code = "error"] ELSE r

\* The session of a socket (StartCoapSession, FindCoapSession): when it has none, a free entry or the oldest is used.
Session(conn, s) ==
    IF \E t \in DOMAIN co_ses : co_ses[t].conn = conn THEN co_ses[s].conn = conn
    ELSE co_ses[s].conn = 0 \/ \A t \in DOMAIN co_ses : co_ses[t].conn >= co_ses[s].conn /\ co_ses[s].conn # 0
Opened(conn, s) == IF co_ses[s].conn = conn THEN co_ses[s] ELSE [NoSession EXCEPT !.conn = conn]

\* SendCoapAck
SendCoapAck(p, code) == [p EXCEPT !.to = "client", !.type = "ACK", !.code = code, !.rec = 0]

\* ReceiveCoapBlock: answer a repeated PDU with the last response, otherwise work on it, answer and keep the answer.
ReceiveCoapBlock(s, p, net) ==
    LET ses == Opened(p.conn, s)
        r == CalcCoapServerActions(ses, p)
        post == r.code = "Changed" /\ Unpacks(r.ses.buf)
    IN /\ p.to = "server" /\ Session(p.conn, s)
       /\ CASE p.mid = ses.mid ->
                 /\ co_ses' = [co_ses EXCEPT ![s] = ses]
                 /\ co_net' = net \cup {SendCoapAck(p, ses.resp)}
                 /\ UNCHANGED co_posted
            [] p.mid # ses.mid /\ p.type = "RST" ->
                 /\ co_ses' = [co_ses EXCEPT ![s] = FreeReceivedUspRecord(ses)]
                 /\ co_net' = net /\ UNCHANGED co_posted
            [] p.mid # ses.mid /\ p.type = "CON" ->
                 LET t == [r.ses EXCEPT !.mid = p.mid, !.resp = r.code] IN
                 /\ co_ses' = [co_ses EXCEPT ![s] = IF r.code = "Continue" THEN t ELSE FreeReceivedUspRecord(t)]
                 /\ co_net' = net \cup {SendCoapAck(p, r.code)}
                 /\ co_posted' = IF post THEN co_posted \cup {p.rec} ELSE co_posted

ServerReceives ==
    /\ \E p \in co_net, s \in DOMAIN co_ses, twice \in BOOLEAN :
          /\ ReceiveCoapBlock(s, p, Taken(p, twice))
          /\ IF twice THEN CoapFault ELSE UNCHANGED co_faults
    /\ UNCHANGED <<cc, co_sent, co_found, co_enc, co_n, co_conns, co_tokens>>

\* StopCoapSession: the peer closed, or the address of the interface changed (UpdateCoapServerInterfaces).
StopCoapSession ==
    /\ CoapFault
    /\ \E s \in DOMAIN co_ses : co_ses[s].conn # 0 /\ co_ses' = [co_ses EXCEPT ![s] = NoSession]
    /\ UNCHANGED <<cc, co_net, co_posted, co_sent, co_found, co_enc, co_n, co_conns, co_tokens>>
-----------------------------------------------------------------------------
CoapNext ==
    \/ COAP_CLIENT_QueueBinaryMessage \/ ClientReceives \/ HandleNoCoapAck \/ HandleCoapClientConnectionError
    \/ LingerEnds \/ Reconnect \/ ServerReceives \/ StopCoapSession

CoapSpec == CoapInit /\ [][CoapNext]_coVars

\* The values of the variables.
CoapTypeOK ==
    /\ cc.sock \in 0..co_conns /\ cc.token \in 0..co_tokens
    /\ cc.timer \in {"none", "ack", "linger", "reconnect"}
    /\ co_posted \cup co_sent \subseteq 1..co_n /\ co_faults \in 0..MaxCoapFaults
    /\ \A s \in DOMAIN co_ses : co_ses[s].conn \in 0..co_conns

\* A record that the client takes for sent ("USP Message sent successfully", CalcCoapClientActions) was posted to
\* the DM thread of the peer, whatever PDUs were lost, duplicated or late, and whichever session took them.
CoapDelivered == co_sent \subseteq co_posted

\* A client with something to send waits for an acknowledgement on an open socket, or for the time to connect
\* again without one: no error path leaves a record that nothing will ever send (RetryClientSendLater,
\* StartSendingCoapUspRecord, COAP_CLIENT_ProcessAllSocketActivity).
CoapNeverStuck ==
    (cc.queue # <<>> /\ ~cc.aborted) =>
       (cc.timer = "ack" /\ cc.sock # 0) \/ (cc.timer = "reconnect" /\ cc.sock = 0)

\* The assertion of FreeCoapSendItem: the next record is only asked for when there is a current one.
CoapAssert == ~cc.aborted

\* A record is delivered before it counts as sent, and otherwise on its way, whatever happens to PDUs,
\* sessions and timers.
CoapInv == CoapTypeOK /\ CoapDelivered /\ CoapNeverStuck
=============================================================================
