-------------------------------- MODULE Uds ---------------------------------
(***************************************************************************)
(* The Unix domain socket MTP: listening sockets, connections accepted on  *)
(* them or made to a USP Broker, the handshake, and the frames in and out. *)
(*                                                                         *)
(* The functions run under uds_access_mutex.  The pass of the MTP thread   *)
(* over the servers is modelled one iteration at a time, because its two   *)
(* nested loops share an index; the mutex is held while us_i # 0.          *)
(***************************************************************************)
EXTENDS Integers, Sequences, FiniteSets, SequencesExt, SendQueue

CONSTANTS
    UdsPeers,       \* endpoints at the other end
    UdsServers,     \* number of entries of uds_servers
    UdsConns,       \* number of entries of uds_connections
    MaxUdsConnects, \* connections accepted or tried
    MaxUdsMsgs,     \* records queued
    MaxUdsChanges,  \* changes made to Device.UnixDomainSockets
    MaxUdsFaults    \* lost connections, refused handshakes, bad frames, expired records

ASSUME UdsAssumption ==
    /\ {UdsServers, UdsConns} \subseteq Nat \ {0}
    /\ {MaxUdsConnects, MaxUdsMsgs, MaxUdsChanges, MaxUdsFaults} \subseteq Nat
    /\ "none" \notin UdsPeers

UdsInsts == {1, 2}       \* Device.UnixDomainSockets.UnixDomainSocket.{i}
PathType(i) == IF i = 1 THEN "BrokersAgent" ELSE "BrokersController"
UdsSlots == 1..UdsConns

UdsFrame(kind, for) == [kind |-> kind, for |-> for]
NoUdsFrame == UdsFrame("none", 0)
NoRequest == [id |-> 0, sock |-> 0]

VARIABLES
    us_srv,     \* uds_servers
    us_con,     \* uds_connections; for each the kinds of the frames written to its socket
    us_dm,      \* uds_conn_params: the mode and a version of the path of each instance
    us_service, \* RUNNING_AS_USP_SERVICE
    us_i,       \* the index of the loop over uds_servers, 0 outside of it
    us_ids,     \* uds_conn_id_counter, also the number of sockets opened
    us_told,    \* what the DM thread was told last: the connection of an endpoint on a path
    us_req,     \* the connection (id and socket) of the request that the DM thread is working on
    us_n, us_changes, us_faults

udsVars == <<us_srv, us_con, us_dm, us_service, us_i, us_ids, us_told, us_req, us_n, us_changes, us_faults>>
udsBounds == <<us_n, us_changes, us_faults>>

\* InitialiseUdsServer, InitialiseUdsConnection
NoServer == [inst |-> 0, listening |-> FALSE, sched |-> "Off", next |-> "none"]
NoConnection ==
    [inst |-> 0, type |-> "Invalid", id |-> 0, sock |-> 0, peer |-> "none", rx |-> "start", own |-> TRUE,
     queue |-> <<>>, tx |-> NoUdsFrame, sched |-> "Off", next |-> "none", retry |-> FALSE, handshake |-> FALSE, wire |-> <<>>]

\* UDS_Init, and DEVICE_UDS_Start with two entries in the database: a broker listens on both, a
\* USP Service connects to both, for which it has its first try still to do.
UdsInit ==
    LET mode == IF us_service THEN "Connect" ELSE "Listen" IN
    /\ us_service \in BOOLEAN
    /\ us_dm = [i \in UdsInsts |-> mode]
    /\ us_srv = [s \in 1..UdsServers |->
                    IF us_service \/ s \notin UdsInsts THEN NoServer
                    ELSE [NoServer EXCEPT !.inst = s, !.listening = TRUE, !.next = mode]]
    /\ us_con = [c \in UdsSlots |->
                    IF ~us_service \/ c \notin UdsInsts THEN NoConnection
                    ELSE [NoConnection EXCEPT !.inst = c, !.type = "Client", !.id = c, !.retry = TRUE]]
    /\ us_i = 0 /\ us_ids = IF us_service THEN Cardinality(UdsInsts) ELSE 0
    /\ us_told = [k \in UdsPeers \X UdsInsts |-> 0] /\ us_req = NoRequest
    /\ us_n = 0 /\ us_changes = 0 /\ us_faults = 0

Unlocked == us_i = 0
FreeUdsSlots == {c \in UdsSlots : us_con[c].inst = 0}
FirstOf(S) == CHOOSE c \in S : \A d \in S : c <= d

MayConnect == us_ids < MaxUdsConnects + (IF us_service THEN Cardinality(UdsInsts) ELSE 0)
Fault(n) == us_faults + n <= MaxUdsFaults /\ us_faults' = us_faults + n
-----------------------------------------------------------------------------
(***************************************************************************)
(* Connections.                                                            *)
(***************************************************************************)
\* CloseUdsConnection.  A client that will retry keeps its identity, and how much of a frame it has.
CloseUdsConnection(u, retry) ==
    IF u.type = "Client" /\ retry
    THEN [u EXCEPT !.sock = 0, !.peer = "none", !.own = FALSE, !.queue = <<>>, !.tx = NoUdsFrame, !.retry = TRUE, !.wire = <<>>]
    ELSE NoConnection

\* What the DM thread is told when the connections C close (DM_EXEC_PostUdsDisconnected).
PostUdsDisconnected(told, C) ==
    [k \in DOMAIN told |-> IF \E c \in C : <<us_con[c].peer, us_con[c].inst>> = k THEN 0 ELSE told[k]]

\* Close one connection and say so.
Closes(c, retry) ==
    /\ us_con' = [us_con EXCEPT ![c] = CloseUdsConnection(us_con[c], retry)]
    /\ us_told' = PostUdsDisconnected(us_told, {c})

\* StartUdsClient: connect, and queue the handshake in front, or try again later.
StartUdsClient(u, sock) ==
    IF sock = 0 THEN [CloseUdsConnection([u EXCEPT !.type = "Client"], TRUE) EXCEPT !.rx = u.rx]
    ELSE [u EXCEPT !.type = "Client", !.sock = sock, !.queue = <<UdsFrame("handshake", sock)>> \o @, !.handshake = TRUE,
                   !.own = (u.rx = "start"), !.wire = <<>>]

\* CreateUdsClient
CreateUdsClient(i, sock) ==
    StartUdsClient([NoConnection EXCEPT !.inst = i, !.id = us_ids + 1], sock)

\* Mutant: the identifier of a connection is its place in the table.
IdIsSlot(c) == c

\* CalcNextUdsConnectionId
CalcNextUdsConnectionId(c) == us_ids + 1

\* UDS_EnableConnection: in the first free entry of the table for the mode, if there is one.
Enabled(i, mode, srv, con, sock) ==
    LET S == {s \in DOMAIN srv : srv[s].inst = 0}
        C == {c \in DOMAIN con : con[c].inst = 0}
    IN IF mode = "Listen"
       THEN [srv |-> IF S = {} THEN srv
                     ELSE [srv EXCEPT ![FirstOf(S)] = [NoServer EXCEPT !.inst = i, !.listening = TRUE, !.next = us_dm[i]]],
             con |-> con]
       ELSE [srv |-> srv, con |-> IF C = {} THEN con ELSE [con EXCEPT ![FirstOf(C)] = CreateUdsClient(i, sock)]]

\* UDS_DisableConnection: the server of the instance and all connections of the instance.
Instance(i) == {c \in UdsSlots : us_con[c].inst = i}
DisabledServers(i) == [s \in DOMAIN us_srv |-> IF us_srv[s].inst = i THEN NoServer ELSE us_srv[s]]
DisabledConns(i) == [c \in UdsSlots |-> IF c \in Instance(i) THEN CloseUdsConnection(us_con[c], FALSE) ELSE us_con[c]]

\* UDS_DisableConnection and UDS_EnableConnection with the parameters kept for the reconnect
UdsReconnected(i, mode) ==
    \E ok \in BOOLEAN :
       LET e == Enabled(i, mode, DisabledServers(i), DisabledConns(i), IF ok THEN us_ids + 1 ELSE 0) IN
       /\ ok \/ mode = "Connect"
       /\ us_srv' = e.srv /\ us_con' = e.con
       /\ us_told' = PostUdsDisconnected(us_told, Instance(i))
       /\ us_ids' = IF mode = "Connect" THEN us_ids + 1 ELSE us_ids
-----------------------------------------------------------------------------
(***************************************************************************)
(* The data model: Device.UnixDomainSockets.UnixDomainSocket.{i}.          *)
(***************************************************************************)
UdsChange == us_changes < MaxUdsChanges /\ us_changes' = us_changes + 1

\* Notify_UdsConnAdded
Notify_UdsConnAdded(i) ==
    /\ Unlocked /\ us_dm[i] = "none"
    /\ us_dm' = [us_dm EXCEPT ![i] = IF us_service THEN "Connect" ELSE "Listen"]
    /\ \E ok \in BOOLEAN :
          LET e == Enabled(i, us_dm'[i], us_srv, us_con, IF ok THEN us_ids + 1 ELSE 0) IN
          /\ ok \/ us_service
          /\ us_srv' = [s \in DOMAIN us_srv |->
                           IF e.srv[s].inst = i THEN [e.srv[s] EXCEPT !.next = us_dm'[i]] ELSE e.srv[s]]
          /\ us_con' = e.con
    /\ us_ids' = IF us_service THEN us_ids + 1 ELSE us_ids
    /\ UNCHANGED <<us_service, us_i, us_told, us_req, udsBounds>>

\* Notify_UdsConnDeleted: DestroyUdsConn
Notify_UdsConnDeleted(i) ==
    /\ Unlocked /\ us_dm[i] # "none"
    /\ UdsChange
    /\ us_dm' = [us_dm EXCEPT ![i] = "none"]
    /\ us_srv' = DisabledServers(i) /\ us_con' = DisabledConns(i)
    /\ us_told' = PostUdsDisconnected(us_told, Instance(i))
    /\ UNCHANGED <<us_service, us_i, us_ids, us_req, us_n, us_faults>>

\* NotifyChange_UdsPath, UdsMode, UdsAuthRequired: UDS_ScheduleReconnect of the server or else of
\* the first connection of the instance.
NotifyChange_UdsPath(i, mode) ==
    LET S == {s \in DOMAIN us_srv : us_srv[s].inst = i} IN
    /\ Unlocked /\ us_dm[i] # "none"
    /\ UdsChange
    /\ us_dm' = [us_dm EXCEPT ![i] = mode]
    /\ us_srv' = IF S = {} THEN us_srv
                 ELSE [us_srv EXCEPT ![FirstOf(S)].sched = "Signalled", ![FirstOf(S)].next = mode]
    /\ us_con' = IF S # {} \/ Instance(i) = {} THEN us_con
                 ELSE [us_con EXCEPT ![FirstOf(Instance(i))].sched = "Signalled", ![FirstOf(Instance(i))].next = mode]
    /\ UNCHANGED <<us_service, us_i, us_ids, us_told, us_req, us_n, us_faults>>

\* UDS_ActivateScheduledActions
UDS_ActivateScheduledActions ==
    LET A(r) == IF r.inst # 0 /\ r.sched = "Signalled" THEN [r EXCEPT !.sched = "Activated"] ELSE r IN
    /\ Unlocked
    /\ us_srv' = [s \in DOMAIN us_srv |-> A(us_srv[s])]
    /\ us_con' = [c \in UdsSlots |-> A(us_con[c])]
    /\ <<us_srv, us_con>>' # <<us_srv, us_con>>
    /\ UNCHANGED <<us_dm, us_service, us_i, us_ids, us_told, us_req, udsBounds>>

\* UDS_QueueBinaryMessage: the answer to a request, on the connection with its identifier.  The DM
\* thread may also end a connection by a disconnect record.
FindUdsConnectionByConnId(id) == {c \in UdsSlots : us_con[c].inst # 0 /\ us_con[c].id = id}
UDS_QueueBinaryMessage(kind) ==
    LET C == FindUdsConnectionByConnId(us_req.id) IN
    /\ Unlocked /\ us_req # NoRequest /\ us_n < MaxUdsMsgs
    /\ us_n' = us_n + 1
    /\ us_req' = NoRequest
    /\ us_con' = IF C = {} THEN us_con ELSE [us_con EXCEPT ![FirstOf(C)].queue = Append(@, UdsFrame(kind, us_req.sock))]
    /\ UNCHANGED <<us_srv, us_dm, us_service, us_i, us_ids, us_told, us_changes, us_faults>>
-----------------------------------------------------------------------------
(***************************************************************************)
(* UDS_UpdateAllSockSet: reconnect the servers whose connections have      *)
(* nothing left to do.  The loop over the connections uses the index of    *)
(* the loop over the servers.                                              *)
(***************************************************************************)
UdsResponsesSent(u) == u.queue = <<>> /\ u.tx = NoUdsFrame /\ u.rx = "start"
Busy(i) == {c \in Instance(i) : us_con[c].type = "Server" /\ ~UdsResponsesSent(us_con[c])}

BeginPass ==
    /\ Unlocked
    /\ \E s \in DOMAIN us_srv : us_srv[s].inst # 0 /\ us_srv[s].sched = "Activated"
    /\ us_i' = 1
    /\ UNCHANGED <<us_srv, us_con, us_dm, us_service, us_ids, us_told, us_req, udsBounds>>

UpdateServer ==
    LET s == us_srv[us_i]
        due == s.inst # 0 /\ s.sched = "Activated"
        b == Busy(s.inst)
        i == IF ~due THEN us_i ELSE IF b # {} THEN FirstOf(b) ELSE UdsConns + 1
    IN /\ us_i # 0
       /\ us_i' = IF i + 1 > UdsServers THEN 0 ELSE i + 1
       /\ IF due /\ b = {} THEN UdsReconnected(s.inst, s.next) ELSE UNCHANGED <<us_srv, us_con, us_told, us_ids>>
       /\ UNCHANGED <<us_dm, us_service, us_req, udsBounds>>

UpdateClient(c) ==
    LET u == us_con[c] IN
    /\ Unlocked /\ u.inst # 0 /\ u.type = "Client" /\ u.sched = "Activated" /\ UdsResponsesSent(u)
    /\ UdsReconnected(u.inst, u.next)
    /\ UNCHANGED <<us_dm, us_service, us_i, us_req, udsBounds>>
-----------------------------------------------------------------------------
(***************************************************************************)
(* UDS_ProcessAllSocketActivity.                                           *)
(***************************************************************************)
\* HandleUdsListeningSocketConnection
HandleUdsListeningSocketConnection(s) ==
    /\ Unlocked /\ us_srv[s].inst # 0 /\ us_srv[s].listening /\ MayConnect
    /\ us_ids' = us_ids + 1
    /\ us_con' = IF FreeUdsSlots = {} THEN us_con
                 ELSE LET c == FirstOf(FreeUdsSlots) IN
                      [us_con EXCEPT ![c] = [NoConnection EXCEPT !.inst = us_srv[s].inst, !.type = "Server",
                                                !.id = CalcNextUdsConnectionId(c), !.sock = us_ids + 1]]
    /\ UNCHANGED <<us_srv, us_dm, us_service, us_i, us_told, us_req, udsBounds>>

\* SendUdsErrorFrame
SendUdsErrorFrame(u) == [u EXCEPT !.queue = <<UdsFrame("error", u.sock)>> \o @, !.rx = "start"]

\* Mutant: an endpoint may connect twice.
AnyEndpointID(u, e) == TRUE

\* ValidateUdsEndpointID: no other connection of this endpoint on the path.  (The name's form and
\* the password are decided by the peer and the configuration.)
ValidateUdsEndpointID(u, e) ==
    ~\E d \in UdsSlots : us_con[d].inst # 0 /\ us_con[d].peer = e /\ PathType(us_con[d].inst) = PathType(u.inst)

NeedsConnectRecord(u) == PathType(u.inst) = IF us_service THEN "BrokersController" ELSE "BrokersAgent"

\* QueueUspConnectRecord_Uds
QueueUspConnectRecord_Uds(u) ==
    [u EXCEPT !.queue = <<UdsFrame("connect", u.sock)>> \o Only(@, [kind : {"handshake", "message", "error"}, for : Nat])]

\* The accepted half of ProcessUdsTLV_HandshakePassword
HandshakeDone(u, e) ==
    LET n == IF NeedsConnectRecord(u) THEN QueueUspConnectRecord_Uds(u) ELSE u IN
    [n EXCEPT !.peer = e, !.handshake = FALSE, !.rx = "start",
              !.queue = IF u.type = "Server" THEN <<UdsFrame("handshake", u.sock)>> \o @ ELSE @]

\* ReadUdsFrames: data that does not end a frame
ReadPart(c) ==
    /\ Unlocked /\ us_con[c].sock # 0 /\ us_con[c].own
    /\ us_con[c].rx = "start"
    /\ Fault(1)
    /\ \E r \in {"header", "payload"} : us_con' = [us_con EXCEPT ![c].rx = r]
    /\ UNCHANGED <<us_srv, us_dm, us_service, us_i, us_ids, us_told, us_req, us_n, us_changes>>

\* ReadUdsFrames: the peer has closed, an error or a frame that is not one; ProcessUdsTLV_Error, at
\* the end of a frame
ReadFails(c, frame) ==
    /\ Unlocked /\ us_con[c].sock # 0 /\ us_con[c].own
    /\ Fault(1)
    /\ us_con' = [us_con EXCEPT ![c] = [CloseUdsConnection(us_con[c], TRUE) EXCEPT !.rx = IF frame THEN "start" ELSE @]]
    /\ us_told' = PostUdsDisconnected(us_told, {c})
    /\ UNCHANGED <<us_srv, us_dm, us_service, us_i, us_ids, us_req, us_n, us_changes>>

\* ReadUdsFrames when it takes what a new socket brings for the rest of a frame of an earlier one:
\* no sync byte matches, the length is far too large, or there is no buffer for the payload.
ReadMisaligned(c) ==
    /\ Unlocked /\ us_con[c].sock # 0 /\ ~us_con[c].own
    /\ Closes(c, TRUE)
    /\ UNCHANGED <<us_srv, us_dm, us_service, us_i, us_ids, us_req, udsBounds>>

\* ProcessUdsFrame: a handshake
ReadHandshake(c, e, accepted) ==
    LET u == us_con[c] IN
    /\ Unlocked /\ u.sock # 0 /\ u.own
    /\ Fault(IF u.peer = "none" /\ accepted /\ ValidateUdsEndpointID(u, e) THEN 0 ELSE 1)
    /\ IF u.peer # "none"
       THEN us_con' = [us_con EXCEPT ![c].rx = "start"] /\ UNCHANGED us_told
       ELSE IF ~accepted \/ ~ValidateUdsEndpointID(u, e)
       THEN us_con' = [us_con EXCEPT ![c] = SendUdsErrorFrame(u)] /\ UNCHANGED us_told
       ELSE /\ us_con' = [us_con EXCEPT ![c] = HandshakeDone(u, e)]
            /\ us_told' = [us_told EXCEPT ![<<e, u.inst>>] = u.id]
    /\ UNCHANGED <<us_srv, us_dm, us_service, us_i, us_ids, us_req, us_n, us_changes>>

\* ProcessUdsTLV_UspRecord: a record before the handshake is ignored, another goes to the DM thread.
ReadRecord(c) ==
    LET u == us_con[c] IN
    /\ Unlocked /\ u.sock # 0 /\ u.own /\ us_req = NoRequest /\ us_n < MaxUdsMsgs
    /\ us_con' = [us_con EXCEPT ![c].rx = "start"]
    /\ us_req' = IF u.peer = "none" THEN us_req ELSE [id |-> u.id, sock |-> u.sock]
    /\ UNCHANGED <<us_srv, us_dm, us_service, us_i, us_ids, us_told, udsBounds>>

\* PopUdsSendItem, with RemoveExpiredUdsMessages; only USP messages expire.
PopUdsSendItem(u, expires) ==
    LET q == IF expires THEN Only(u.queue, [kind : {"handshake", "connect", "disconnect", "error"}, for : Nat]) ELSE u.queue IN
    IF u.tx # NoUdsFrame THEN u
    ELSE IF q = <<>> THEN [u EXCEPT !.queue = q] ELSE [u EXCEPT !.queue = Tail(q), !.tx = Head(q)]

\* SendUdsFrames: part of a frame, all of it, or a failure; an error frame or a disconnect record
\* is the last.
SendUdsFrames(c, expires, result) ==
    LET u == PopUdsSendItem(us_con[c], expires) IN
    /\ Unlocked /\ us_con[c].sock # 0 /\ (us_con[c].queue # <<>> \/ us_con[c].tx # NoUdsFrame)
    /\ Fault((IF expires THEN 1 ELSE 0) + (IF result = "fails" THEN 1 ELSE 0))
    /\ IF u.tx = NoUdsFrame \/ result = "part"
       THEN us_con' = [us_con EXCEPT ![c] = u] /\ UNCHANGED us_told
       ELSE IF result = "fails" \/ u.tx.kind \in {"error", "disconnect"} THEN Closes(c, TRUE)
       ELSE us_con' = [us_con EXCEPT ![c] = [u EXCEPT !.tx = NoUdsFrame, !.wire = Append(@, u.tx)]] /\ UNCHANGED us_told
    /\ UNCHANGED <<us_srv, us_dm, us_service, us_i, us_ids, us_req, us_n, us_changes>>

\* The retry of a client
RetryUdsClient(c, ok) ==
    /\ Unlocked /\ us_con[c].inst # 0 /\ us_con[c].type = "Client" /\ us_con[c].retry /\ MayConnect
    /\ us_ids' = us_ids + 1
    /\ us_con' = [us_con EXCEPT ![c] = StartUdsClient([us_con[c] EXCEPT !.retry = FALSE], IF ok THEN us_ids + 1 ELSE 0)]
    /\ UNCHANGED <<us_srv, us_dm, us_service, us_i, us_told, us_req, udsBounds>>

\* The timeout of a client's handshake
HandshakeTimeout(c) ==
    /\ Unlocked /\ us_con[c].inst # 0 /\ us_con[c].type = "Client" /\ us_con[c].handshake
    /\ us_con' = [us_con EXCEPT ![c] = [CloseUdsConnection(us_con[c], TRUE) EXCEPT !.handshake = FALSE]]
    /\ us_told' = PostUdsDisconnected(us_told, {c})
    /\ UNCHANGED <<us_srv, us_dm, us_service, us_i, us_ids, us_req, udsBounds>>

UdsNext ==
    \/ \E i \in UdsInsts : Notify_UdsConnAdded(i) \/ Notify_UdsConnDeleted(i)
    \/ \E i \in UdsInsts, mode \in {"Listen", "Connect"} : NotifyChange_UdsPath(i, mode)
    \/ UDS_ActivateScheduledActions
    \/ \E kind \in {"message", "disconnect"} : UDS_QueueBinaryMessage(kind)
    \/ BeginPass \/ UpdateServer
    \/ \E s \in 1..UdsServers : HandleUdsListeningSocketConnection(s)
    \/ \E c \in UdsSlots :
          \/ UpdateClient(c)
          \/ ReadPart(c) \/ (\E frame \in BOOLEAN : ReadFails(c, frame)) \/ ReadMisaligned(c) \/ ReadRecord(c)
          \/ \E e \in UdsPeers, accepted \in BOOLEAN : ReadHandshake(c, e, accepted)
          \/ \E expires \in BOOLEAN, result \in {"sent", "part", "fails"} : SendUdsFrames(c, expires, result)
          \/ \E ok \in BOOLEAN : RetryUdsClient(c, ok)
          \/ HandshakeTimeout(c)

UdsSpec == UdsInit /\ [][UdsNext]_udsVars /\ WF_udsVars(UpdateServer)
-----------------------------------------------------------------------------
UdsTypeOK ==
    /\ us_i \in 0..UdsServers
    /\ \A s \in DOMAIN us_srv : us_srv[s].inst \in {0} \cup UdsInsts
    /\ \A c \in UdsSlots : us_con[c].inst \in {0} \cup UdsInsts /\ us_con[c].sock \in 0..us_ids
    /\ us_told \in [UdsPeers \X UdsInsts -> 0..us_ids]

\* What the DM thread was told about the endpoints agrees with the connections: for an endpoint
\* and a socket of the data model it knows the one connection that finished its handshake,
\* however connections come, fail, time out, are refused, reconfigured and deleted meanwhile.
UdsToldAgrees ==
    \A e \in UdsPeers, i \in UdsInsts :
       {us_con[c].id : c \in {d \in Instance(i) : us_con[d].peer = e}} = {us_told[e, i]} \ {0}

\* The frames on a connection that a USP Service made to the broker start with the handshake, then
\* comes the connect record where one is due, and every record answers one that came in over the
\* same connection, not over an earlier one that had its place in the table.
UdsSession ==
    \A c \in UdsSlots : us_con[c].type = "Server" =>
       LET w == us_con[c].wire IN
       /\ w # <<>> => w[1].kind = "handshake"
       /\ Len(w) > 1 /\ NeedsConnectRecord(us_con[c]) => w[2].kind = "connect"
       /\ \A n \in DOMAIN w : w[n].for = us_con[c].sock

\* The MTP thread always gets through its list of servers.
UdsPassEnds == []<>(us_i = 0)

\* Both ends of a socket keep the same account of it: what the DM thread was told of the endpoints, and
\* what an endpoint was sent on its connection.
UdsInv == UdsTypeOK /\ UdsToldAgrees /\ UdsSession
=============================================================================
