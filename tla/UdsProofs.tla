----------------------------- MODULE UdsProofs ------------------------------
(***************************************************************************)
(* Proofs about the Unix domain socket transport, for tables of any size   *)
(* and any number of connections, records, faults and changes of the       *)
(* configuration.  The lemmas about what is left of a send queue are those *)
(* of TransportProofs.                                                     *)
(***************************************************************************)
EXTENDS Uds, TransportProofs

HIDE DEF WsAssumption, WssAssumption

UdsModes == {"none", "Listen", "Connect"}
UdsActions == {"Off", "Signalled", "Activated"}
UdsKinds == {"handshake", "connect", "disconnect", "message", "error"}
UdsFrames == [kind : UdsKinds, for : Nat]
UdsServerSet == [inst : {0} \cup UdsInsts, listening : BOOLEAN, sched : UdsActions, next : UdsModes]
UdsConnSet ==
    [inst : {0} \cup UdsInsts, type : {"Invalid", "Client", "Server"}, id : Nat, sock : Nat,
     peer : UdsPeers \cup {"none"}, rx : {"start", "header", "payload"}, own : BOOLEAN, queue : Seq(UdsFrames),
     tx : UdsFrames \cup {NoUdsFrame}, sched : UdsActions, next : UdsModes, retry : BOOLEAN, handshake : BOOLEAN,
     wire : Seq(UdsFrames)]

\* What is still to be written begins with what is missing of the handshake and the connect record.
Opening(u) ==
    /\ u.wire = <<>> /\ u.tx = NoUdsFrame =>
          /\ u.queue # <<>> /\ u.queue[1].kind = "handshake"
          /\ NeedsConnectRecord(u) => Len(u.queue) > 1 /\ u.queue[2].kind = "connect"
    /\ u.wire = <<>> /\ u.tx # NoUdsFrame =>
          /\ u.tx.kind = "handshake"
          /\ NeedsConnectRecord(u) => u.queue # <<>> /\ u.queue[1].kind = "connect"
    /\ Len(u.wire) = 1 /\ u.tx = NoUdsFrame /\ NeedsConnectRecord(u) => u.queue # <<>> /\ u.queue[1].kind = "connect"
    /\ Len(u.wire) = 1 /\ u.tx # NoUdsFrame /\ NeedsConnectRecord(u) => u.tx.kind = "connect"

\* An accepted connection: everything is for its socket, and before the handshake there are only error frames.
Accepted(u) ==
    /\ \A n \in DOMAIN u.wire : u.wire[n].for = u.sock
    /\ \A n \in DOMAIN u.queue : u.queue[n].for = u.sock
    /\ u.tx # NoUdsFrame => u.tx.for = u.sock
    /\ u.wire # <<>> => u.wire[1].kind = "handshake"
    /\ Len(u.wire) > 1 /\ NeedsConnectRecord(u) => u.wire[2].kind = "connect"
    /\ u.peer = "none" => /\ u.wire = <<>> /\ u.tx.kind \in {"none", "error"}
                          /\ \A n \in DOMAIN u.queue : u.queue[n].kind = "error"
    /\ u.peer # "none" /\ u.tx.kind # "error" => Opening(u)

\* An entry of uds_connections: a free one has no socket, and an action is scheduled with its mode.
SlotOK(u, ids) ==
    /\ u.inst = 0 => u.type # "Server" /\ u.peer = "none" /\ u.sock = 0
    /\ u.inst # 0 => u.id \in 1..ids
    /\ u.sock <= ids /\ (u.retry => u.sock = 0 /\ u.peer = "none")
    /\ u.sched # "Off" => u.next # "none"
    /\ u.type = "Server" => Accepted(u)

\* Identifiers are not used twice; the DM thread knows the connection of every endpoint whose handshake is
\* done, and no other; its request came over the connection that has its identifier, if there is one.
Agree(con, ids, told, req) ==
    /\ ids \in Nat /\ con \in [UdsSlots -> UdsConnSet] /\ told \in [UdsPeers \X UdsInsts -> 0..ids]
    /\ \A c \in UdsSlots : SlotOK(con[c], ids)
    /\ \A c, d \in UdsSlots : con[c].inst # 0 /\ con[d].inst # 0 /\ con[c].id = con[d].id => c = d
    /\ \A c \in UdsSlots : con[c].peer # "none" => told[<<con[c].peer, con[c].inst>>] = con[c].id
    /\ \A k \in UdsPeers \X UdsInsts :
          told[k] # 0 => \E c \in UdsSlots : con[c].peer = k[1] /\ con[c].inst = k[2]
    /\ req \in [id : 0..ids, sock : Nat] /\ (req # NoRequest => req.id # 0)
    /\ \A c \in UdsSlots :
          con[c].type = "Server" /\ con[c].id = req.id => con[c].sock = req.sock /\ con[c].peer # "none"

ServersOK(srv) ==
    /\ srv \in [1..UdsServers -> UdsServerSet]
    /\ \A s \in 1..UdsServers : srv[s].sched # "Off" => srv[s].next # "none"

UdsIndInv ==
    /\ us_service \in BOOLEAN /\ us_i \in 0..UdsServers /\ us_dm \in [UdsInsts -> UdsModes]
    /\ ServersOK(us_srv) /\ Agree(us_con, us_ids, us_told, us_req)

\* An entry after CloseUdsConnection.
Closed(u, v) ==
    /\ v \in UdsConnSet /\ v.peer = "none" /\ v.type # "Server" /\ v.sock = 0
    /\ v.inst = 0 \/ (v.inst = u.inst /\ v.id = u.id)
    /\ v.sched # "Off" => v.next # "none"

-----------------------------------------------------------------------------
(* The table of connections as a whole.                                    *)

\* Entries that keep their endpoint, with or without a new socket for a client.
LEMMA AgreeStays ==
    ASSUME NEW con, NEW ids, NEW told, NEW req, Agree(con, ids, told, req),
           NEW ids2 \in Nat, ids <= ids2, NEW con2 \in [UdsSlots -> UdsConnSet],
           \A c \in UdsSlots :
              /\ SlotOK(con2[c], ids2) /\ con2[c].inst = con[c].inst /\ con2[c].id = con[c].id
              /\ con2[c].peer = con[c].peer
              /\ con2[c].type = "Server" => con[c].type = "Server" /\ con2[c].sock = con[c].sock
    PROVE  Agree(con2, ids2, told, req)
  <1>1. told \in [UdsPeers \X UdsInsts -> 0..ids2]
    <2>1. ids \in Nat /\ 0..ids \subseteq 0..ids2
      BY DEF Agree
    <2> QED
      BY <2>1 DEF Agree
  <1>2. req \in [id : 0..ids2, sock : Nat] /\ (req # NoRequest => req.id # 0)
    <2>1. ids \in Nat /\ 0..ids \subseteq 0..ids2
      BY DEF Agree
    <2> QED
      BY <2>1 DEF Agree
  <1>3. \A c, d \in UdsSlots : con2[c].inst # 0 /\ con2[d].inst # 0 /\ con2[c].id = con2[d].id => c = d
    BY DEF Agree
  <1>4. \A c \in UdsSlots : con2[c].peer # "none" => told[<<con2[c].peer, con2[c].inst>>] = con2[c].id
    BY DEF Agree
  <1>5. \A k \in UdsPeers \X UdsInsts :
          told[k] # 0 => \E c \in UdsSlots : con2[c].peer = k[1] /\ con2[c].inst = k[2]
    BY DEF Agree
  <1>6. \A c \in UdsSlots : con2[c].type = "Server" /\ con2[c].id = req.id =>
            con2[c].sock = req.sock /\ con2[c].peer # "none"
    BY DEF Agree
  <1> HIDE DEF SlotOK
  <1> QED
    BY <1>1, <1>2, <1>3, <1>4, <1>5, <1>6 DEF Agree

\* Connections that close, and the DM thread is told.
LEMMA AgreeCloses ==
    ASSUME NEW ids, NEW req, Agree(us_con, ids, us_told, req),
           NEW C, NEW con2 \in [UdsSlots -> UdsConnSet],
           \A c \in UdsSlots : IF c \in C THEN Closed(us_con[c], con2[c]) ELSE con2[c] = us_con[c]
    PROVE  Agree(con2, ids, PostUdsDisconnected(us_told, C \cap UdsSlots), req)
  <1> DEFINE told == us_told
             told2 == PostUdsDisconnected(us_told, C \cap UdsSlots)
             gone(k) == \E c \in C \cap UdsSlots : <<us_con[c].peer, us_con[c].inst>> = k
  <1>1. /\ ids \in Nat /\ told \in [UdsPeers \X UdsInsts -> 0..ids]
        /\ \A c \in UdsSlots : SlotOK(us_con[c], ids)
        /\ \A c, d \in UdsSlots : us_con[c].inst # 0 /\ us_con[d].inst # 0 /\ us_con[c].id = us_con[d].id => c = d
        /\ \A c \in UdsSlots : us_con[c].peer # "none" => told[<<us_con[c].peer, us_con[c].inst>>] = us_con[c].id
        /\ \A k \in UdsPeers \X UdsInsts :
              told[k] # 0 => \E c \in UdsSlots : us_con[c].peer = k[1] /\ us_con[c].inst = k[2]
        /\ us_con \in [UdsSlots -> UdsConnSet]
        /\ req \in [id : 0..ids, sock : Nat] /\ (req # NoRequest => req.id # 0)
        /\ \A c \in UdsSlots :
              us_con[c].type = "Server" /\ us_con[c].id = req.id => us_con[c].sock = req.sock /\ us_con[c].peer # "none"
    BY DEF Agree
  <1>2. told2 = [k \in UdsPeers \X UdsInsts |-> IF gone(k) THEN 0 ELSE told[k]]
    BY <1>1 DEF PostUdsDisconnected
  <1>3. \A k \in UdsPeers \X UdsInsts : told2[k] = IF gone(k) THEN 0 ELSE told[k]
    BY <1>2
  <1>4. told2 \in [UdsPeers \X UdsInsts -> 0..ids]
    <2>1. \A k \in UdsPeers \X UdsInsts : told[k] \in 0..ids /\ 0 \in 0..ids
      BY <1>1
    <2> HIDE DEF gone, told
    <2> QED
      BY <1>2, <2>1
  <1> HIDE DEF told2
  <1>5. \A c \in UdsSlots : SlotOK(con2[c], ids)
    <2> TAKE c \in UdsSlots
    <2>1. CASE c \in C
      <3>1. Closed(us_con[c], con2[c]) /\ SlotOK(us_con[c], ids)
        BY <1>1, <2>1
      <3> QED
        BY <1>1, <3>1 DEF Closed, SlotOK
    <2>2. CASE c \notin C
      BY <1>1, <2>2
    <2> QED
      BY <2>1, <2>2
  <1>6. \A c, d \in UdsSlots : con2[c].inst # 0 /\ con2[d].inst # 0 /\ con2[c].id = con2[d].id => c = d
    <2>1. \A c \in UdsSlots : con2[c].inst # 0 => us_con[c].inst # 0 /\ us_con[c].id = con2[c].id
      BY DEF Closed
    <2> QED
      BY <1>1, <2>1
  <1>7. ASSUME NEW c \in UdsSlots, con2[c].peer # "none"
        PROVE  told2[<<con2[c].peer, con2[c].inst>>] = con2[c].id
    <2>1. c \notin C /\ con2[c] = us_con[c]
      BY <1>7 DEF Closed
    <2>2. us_con[c].inst # 0 /\ us_con[c].inst \in UdsInsts /\ us_con[c].peer \in UdsPeers
      BY <1>1, <1>7, <2>1 DEF SlotOK, UdsConnSet
    <2> DEFINE k == <<us_con[c].peer, us_con[c].inst>>
    <2>3. k \in UdsPeers \X UdsInsts /\ told[k] = us_con[c].id
      BY <1>1, <1>7, <2>1, <2>2
    <2>4. ~gone(k)
      <3> SUFFICES ASSUME NEW d \in C \cap UdsSlots, <<us_con[d].peer, us_con[d].inst>> = k PROVE FALSE
        OBVIOUS
      <3>1. us_con[d].peer = us_con[c].peer /\ us_con[d].inst = us_con[c].inst
        OBVIOUS
      <3>2. told[k] = us_con[d].id
        BY <1>1, <1>7, <2>1, <3>1
      <3>3. d = c
        BY <1>1, <2>2, <2>3, <3>1, <3>2
      <3> QED
        BY <2>1, <3>3
    <2> HIDE DEF k, gone, told
    <2>5. told2[k] = us_con[c].id
      BY <1>3, <2>3, <2>4
    <2> QED
      BY <2>1, <2>5 DEF k
  <1>8. ASSUME NEW k \in UdsPeers \X UdsInsts, told2[k] # 0
        PROVE  \E c \in UdsSlots : con2[c].peer = k[1] /\ con2[c].inst = k[2]
    <2>1. ~gone(k) /\ told[k] # 0
      BY <1>3, <1>8
    <2>2. PICK c \in UdsSlots : us_con[c].peer = k[1] /\ us_con[c].inst = k[2]
      BY <1>1, <2>1
    <2>3. <<us_con[c].peer, us_con[c].inst>> = k
      BY <2>2
    <2>4. c \notin C
      BY <2>1, <2>3
    <2> QED
      BY <2>2, <2>4
  <1>9. \A c \in UdsSlots : con2[c].type = "Server" /\ con2[c].id = req.id =>
            con2[c].sock = req.sock /\ con2[c].peer # "none"
    BY <1>1 DEF Closed
  <1> HIDE DEF told
  <1> QED
    BY <1>1, <1>4, <1>5, <1>6, <1>7, <1>8, <1>9 DEF Agree, told2

\* A new entry, with an identifier that was never used.
LEMMA AgreeNew ==
    ASSUME NEW con, NEW ids, NEW told, NEW req, Agree(con, ids, told, req),
           NEW c \in UdsSlots, con[c].inst = 0, NEW v \in UdsConnSet,
           v.id = ids + 1, v.peer = "none", SlotOK(v, ids + 1)
    PROVE  Agree([con EXCEPT ![c] = v], ids + 1, told, req)
  <1> DEFINE con2 == [con EXCEPT ![c] = v]
             ids2 == ids + 1
  <1>1. /\ ids \in Nat /\ con \in [UdsSlots -> UdsConnSet] /\ told \in [UdsPeers \X UdsInsts -> 0..ids]
        /\ \A d \in UdsSlots : SlotOK(con[d], ids)
        /\ \A d, e \in UdsSlots : con[d].inst # 0 /\ con[e].inst # 0 /\ con[d].id = con[e].id => d = e
        /\ \A d \in UdsSlots : con[d].peer # "none" => told[<<con[d].peer, con[d].inst>>] = con[d].id
        /\ \A k \in UdsPeers \X UdsInsts :
              told[k] # 0 => \E d \in UdsSlots : con[d].peer = k[1] /\ con[d].inst = k[2]
        /\ req \in [id : 0..ids, sock : Nat] /\ (req # NoRequest => req.id # 0)
        /\ \A d \in UdsSlots :
              con[d].type = "Server" /\ con[d].id = req.id => con[d].sock = req.sock /\ con[d].peer # "none"
    BY DEF Agree
  <1>2. con2 \in [UdsSlots -> UdsConnSet] /\ \A d \in UdsSlots : con2[d] = IF d = c THEN v ELSE con[d]
    BY <1>1
  <1>3. con[c].peer = "none"
    BY <1>1 DEF SlotOK
  <1> HIDE DEF con2
  <1>4. ids2 \in Nat /\ 0..ids \subseteq 0..ids2 /\ ~(ids2 \in 0..ids)
    BY <1>1
  <1>5. told \in [UdsPeers \X UdsInsts -> 0..ids2] /\ req \in [id : 0..ids2, sock : Nat]
    BY <1>1, <1>4
  <1>6. \A d \in UdsSlots : SlotOK(con[d], ids2)
    <2> TAKE d \in UdsSlots
    <2>1. SlotOK(con[d], ids) /\ con[d] \in UdsConnSet
      BY <1>1
    <2>2. con[d].id \in Nat /\ con[d].sock \in Nat
      BY <2>1 DEF UdsConnSet
    <2> QED
      BY <1>1, <2>1, <2>2 DEF SlotOK
  <1>7. \A d \in UdsSlots : SlotOK(con2[d], ids2)
    BY <1>2, <1>6
  <1>8. \A d, e \in UdsSlots : con2[d].inst # 0 /\ con2[e].inst # 0 /\ con2[d].id = con2[e].id => d = e
    <2>1. \A d \in UdsSlots : con[d].inst # 0 => con[d].id # ids2
      BY <1>1, <1>4 DEF SlotOK
    <2> QED
      BY <1>1, <1>2, <2>1
  <1>9. \A d \in UdsSlots : con2[d].peer # "none" => told[<<con2[d].peer, con2[d].inst>>] = con2[d].id
    BY <1>1, <1>2
  <1>10. \A k \in UdsPeers \X UdsInsts :
            told[k] # 0 => \E d \in UdsSlots : con2[d].peer = k[1] /\ con2[d].inst = k[2]
    <2> SUFFICES ASSUME NEW k \in UdsPeers \X UdsInsts, told[k] # 0
                 PROVE  \E d \in UdsSlots : con2[d].peer = k[1] /\ con2[d].inst = k[2]
      OBVIOUS
    <2>1. PICK d \in UdsSlots : con[d].peer = k[1] /\ con[d].inst = k[2]
      BY <1>1
    <2>2. k[1] \in UdsPeers /\ k[1] # "none"
      BY UdsAssumption
    <2>3. d # c
      BY <1>3, <2>1, <2>2
    <2> QED
      BY <1>2, <2>1, <2>3
  <1>11. \A d \in UdsSlots : con2[d].type = "Server" /\ con2[d].id = req.id =>
            con2[d].sock = req.sock /\ con2[d].peer # "none"
    <2>1. v.id # req.id
      BY <1>1, <1>4
    <2> QED
      BY <1>1, <1>2, <2>1
  <1> HIDE DEF ids2
  <1>12. Agree(con2, ids2, told, req)
    BY <1>1, <1>2, <1>4, <1>5, <1>7, <1>8, <1>9, <1>10, <1>11 DEF Agree
  <1> QED
    BY <1>12 DEF con2, ids2


-----------------------------------------------------------------------------
(* What is written on one connection.                                      *)

\* The second entry stays the second, if it and the first stay.
LEMMA OnlySecond ==
    ASSUME NEW T, NEW q \in Seq(T), Len(q) > 1, NEW S, q[1] \in S, q[2] \in S
    PROVE  Len(Only(q, S)) > 1 /\ Only(q, S)[2] = q[2]
  <1> DEFINE Z == Stay(q, S)
  <1>1. 1 \in Z /\ 2 \in Z /\ Z \subseteq Nat \ {0}
    BY DEF Stay
  <1> DEFINE at(i) == Place(q, S, i)
             m == Cardinality(Z)
  <1>2. /\ m \in Nat /\ at(1) \in 1..m /\ at(2) \in 1..m /\ at(1) < at(2)
        /\ \A i \in Z : 2 < i => at(2) < at(i)
    BY <1>1, StayPlaces
  <1>3. PICK i \in Z : at(i) = 2
    <2>1. 2 \in 1..m
      <3> HIDE DEF at, m
      <3> QED
        BY <1>2
    <2> QED
      BY <2>1, StayPlaces
  <1>4. Place(q, S, 2) = 2
    <2> HIDE DEF at, m
    <2>1. i \in Nat \ {0}
      BY <1>1
    <2>2. ~(2 < i)
      <3>1. at(1) \in Int /\ at(2) \in Int /\ 1 <= at(1) /\ at(1) < at(2)
        BY <1>2
      <3>2. 2 <= at(2)
        BY <3>1
      <3>3. 2 < i => at(2) < 2
        BY <1>2, <1>3
      <3> QED
        BY <3>1, <3>2, <3>3
    <2>3. i = 1 \/ i = 2
      BY <2>1, <2>2
    <2>4. at(1) = 1
      <3>1. 1 \in 1..m
        BY <1>2
      <3>2. PICK k \in Z : at(k) = 1
        BY <3>1, StayPlaces DEF at, m
      <3>3. ~(1 < k)
        <4>1. 1 < k => at(1) < at(k)
          BY <1>1, StayPlaces DEF at
        <4> QED
          BY <1>2, <3>2, <4>1
      <3>4. k = 1
        BY <1>1, <3>3
      <3> QED
        BY <3>2, <3>4
    <2> QED
      BY <1>3, <2>3, <2>4 DEF at
  <1>5. Only(q, S)[2] = q[2]
    BY <1>1, <1>4, OnlyAtPlace
  <1>6. 2 \in 1..Cardinality(Z) /\ Cardinality(Z) \in Nat
    BY <1>1, <1>4, StayPlaces
  <1>7. Len(Only(q, S)) = Cardinality(Z)
    BY OnlyAt
  <1> QED
    BY <1>5, <1>6, <1>7

LEMMA InFront ==
    ASSUME NEW T, NEW q \in Seq(T), NEW f \in T
    PROVE  /\ <<f>> \o q \in Seq(T) /\ <<f>> \o q # <<>> /\ Len(<<f>> \o q) = Len(q) + 1
           /\ (<<f>> \o q)[1] = f
           /\ q # <<>> => (<<f>> \o q)[2] = q[1]
           /\ \A n \in DOMAIN (<<f>> \o q) : (<<f>> \o q)[n] = f \/ \E m \in DOMAIN q : (<<f>> \o q)[n] = q[m]
  <1> DEFINE p == <<f>> \o q
  <1>1. p \in Seq(T) /\ Len(p) = Len(q) + 1 /\ Len(q) \in Nat /\ p[1] = f
    OBVIOUS
  <1>2. \A n \in 1..Len(q) : p[n + 1] = q[n]
    OBVIOUS
  <1>3. DOMAIN p = 1..(Len(q) + 1) /\ DOMAIN q = 1..Len(q)
    BY <1>1
  <1> HIDE DEF p
  <1>4. p # <<>>
    BY <1>1
  <1>5. q # <<>> => p[2] = q[1]
    <2> HAVE q # <<>>
    <2>1. 1 \in 1..Len(q)
      BY <1>1
    <2> QED
      BY <1>2, <2>1
  <1>6. \A n \in DOMAIN p : p[n] = f \/ \E m \in DOMAIN q : p[n] = q[m]
    <2> TAKE n \in DOMAIN p
    <2>1. n = 1 \/ (n - 1 \in 1..Len(q) /\ (n - 1) + 1 = n)
      BY <1>1, <1>3
    <2>2. CASE n - 1 \in 1..Len(q) /\ (n - 1) + 1 = n
      <3>1. p[n] = q[n - 1]
        BY <1>2, <2>2
      <3> QED
        BY <1>3, <2>2, <3>1
    <2> QED
      BY <1>1, <2>1, <2>2
  <1> QED
    BY <1>1, <1>4, <1>5, <1>6 DEF p

\* Entries of what is left are entries of the queue.
LEMMA OnlyFrom ==
    ASSUME NEW T, NEW q \in Seq(T), NEW S, NEW n \in DOMAIN Only(q, S)
    PROVE  \E m \in DOMAIN q : Only(q, S)[n] = q[m] /\ q[m] \in S
  <1>1. Only(q, S)[n] \in ToSet(Only(q, S))
    BY DEF ToSet
  <1>2. Only(q, S)[n] \in ToSet(q) \cap S
    BY <1>1, OnlySet
  <1> QED
    BY <1>2 DEF ToSet

\* What matters of an entry besides its queue.
SameLink(u, v) ==
    v.inst = u.inst /\ v.type = u.type /\ v.id = u.id /\ v.sock = u.sock /\ v.peer = u.peer

\* The rest of an entry changes, and neither what is written nor what is to be written.
LEMMA AcceptedSame ==
    ASSUME NEW u \in UdsConnSet, Accepted(u), NEW v \in UdsConnSet, SameLink(u, v),
           v.wire = u.wire, v.queue = u.queue, v.tx = u.tx
    PROVE  Accepted(v)
  <1>1. NeedsConnectRecord(v) = NeedsConnectRecord(u)
    BY DEF NeedsConnectRecord, SameLink
  <1>2. Opening(u) => Opening(v)
    BY <1>1 DEF Opening
  <1> HIDE DEF Opening
  <1> QED
    BY <1>1, <1>2 DEF Accepted, SameLink

\* UDS_QueueBinaryMessage, after the handshake.
LEMMA AcceptedAppend ==
    ASSUME NEW u \in UdsConnSet, Accepted(u), u.peer # "none", NEW f \in UdsFrames, f.for = u.sock
    PROVE  Accepted([u EXCEPT !.queue = Append(@, f)])
  <1> DEFINE q == u.queue
             p == Append(q, f)
             v == [u EXCEPT !.queue = p]
  <1>1. q \in Seq(UdsFrames)
    BY DEF UdsConnSet
  <1> HIDE DEF q
  <1>2. /\ p \in Seq(UdsFrames) /\ Len(p) = Len(q) + 1 /\ Len(q) \in Nat /\ p[Len(q) + 1] = f
        /\ \A n \in 1..Len(q) : p[n] = q[n]
        /\ DOMAIN p = 1..(Len(q) + 1) /\ DOMAIN q = 1..Len(q)
    BY <1>1
  <1> HIDE DEF p
  <1>3. p # <<>> /\ (q # <<>> => p[1] = q[1]) /\ (Len(q) > 1 => Len(p) > 1 /\ p[2] = q[2])
    <2>1. q # <<>> => 1 \in 1..Len(q)
      BY <1>1
    <2>2. Len(q) > 1 => 2 \in 1..Len(q)
      BY <1>2
    <2> QED
      BY <1>2, <2>1, <2>2
  <1>4. v.queue = p /\ v.wire = u.wire /\ v.tx = u.tx /\ v.inst = u.inst /\ v.sock = u.sock /\ v.peer = u.peer
    BY DEF UdsConnSet
  <1> HIDE DEF v
  <1>5. NeedsConnectRecord(v) = NeedsConnectRecord(u)
    BY <1>4 DEF NeedsConnectRecord
  <1>6. Opening(u) => Opening(v)
    BY <1>3, <1>4, <1>5 DEF Opening, q
  <1>7. \A n \in DOMAIN p : p[n].for = u.sock
    <2> TAKE n \in DOMAIN p
    <2>1. n \in 1..Len(q) \/ n = Len(q) + 1
      BY <1>2
    <2>2. \A m \in 1..Len(q) : q[m].for = u.sock
      BY <1>2 DEF Accepted, q
    <2> QED
      BY <1>2, <2>1, <2>2
  <1> HIDE DEF Opening
  <1>8. Accepted(v)
    BY <1>4, <1>5, <1>6, <1>7 DEF Accepted
  <1> QED
    BY <1>8 DEF v, p, q

\* SendUdsErrorFrame, before the handshake.
LEMMA AcceptedError ==
    ASSUME NEW u \in UdsConnSet, Accepted(u), u.peer = "none"
    PROVE  Accepted(SendUdsErrorFrame(u))
  <1> DEFINE q == u.queue
             f == UdsFrame("error", u.sock)
             p == <<f>> \o q
             v == SendUdsErrorFrame(u)
  <1>1. q \in Seq(UdsFrames) /\ f \in UdsFrames /\ f.kind = "error" /\ f.for = u.sock
    BY DEF UdsConnSet, UdsFrame, UdsFrames, UdsKinds
  <1>2. v = [u EXCEPT !.queue = p, !.rx = "start"]
    BY DEF SendUdsErrorFrame
  <1> HIDE DEF q, f
  <1>3. \A n \in DOMAIN p : p[n] = f \/ \E m \in DOMAIN q : p[n] = q[m]
    BY <1>1, InFront
  <1> HIDE DEF p, v
  <1>4. v.queue = p /\ v.wire = u.wire /\ v.tx = u.tx /\ v.sock = u.sock /\ v.peer = u.peer
    BY <1>2 DEF UdsConnSet
  <1>5. \A n \in DOMAIN q : q[n].for = u.sock /\ q[n].kind = "error"
    BY DEF Accepted, q
  <1>6. \A n \in DOMAIN p : p[n].for = u.sock /\ p[n].kind = "error"
    BY <1>1, <1>3, <1>5
  <1>7. u.wire = <<>> /\ u.tx.kind \in {"none", "error"} /\ (u.tx # NoUdsFrame => u.tx.for = u.sock)
    BY DEF Accepted
  <1>8. Accepted(v)
    BY <1>4, <1>6, <1>7 DEF Accepted
  <1> QED
    BY <1>8 DEF v

\* QueueUspConnectRecord_Uds and the accepted half of ProcessUdsTLV_HandshakePassword.
LEMMA AcceptedHandshake ==
    ASSUME NEW u \in UdsConnSet, Accepted(u), u.peer = "none", u.type = "Server", NEW e \in UdsPeers
    PROVE  Accepted(HandshakeDone(u, e))
  <1> DEFINE q == u.queue
             S == [kind : {"handshake", "message", "error"}, for : Nat]
             f == UdsFrame("connect", u.sock)
             h == UdsFrame("handshake", u.sock)
             o == Only(q, S)
             c == <<f>> \o o
             r == IF NeedsConnectRecord(u) THEN c ELSE q
             p == <<h>> \o r
             v == HandshakeDone(u, e)
  <1>1. /\ q \in Seq(UdsFrames) /\ u.sock \in Nat
        /\ f \in UdsFrames /\ f.kind = "connect" /\ f.for = u.sock
        /\ h \in UdsFrames /\ h.kind = "handshake" /\ h.for = u.sock
    BY DEF UdsConnSet, UdsFrame, UdsFrames, UdsKinds
  <1>2. v = [u EXCEPT !.peer = e, !.handshake = FALSE, !.rx = "start", !.queue = p]
    BY DEF HandshakeDone, QueueUspConnectRecord_Uds, UdsConnSet
  <1> HIDE DEF q, f, h, S, v
  <1>3. o \in Seq(UdsFrames)
    BY <1>1, OnlyAt
  <1>4. \A n \in DOMAIN o : \E m \in DOMAIN q : o[n] = q[m]
    BY <1>1, OnlyFrom
  <1> HIDE DEF o
  <1>5. /\ c \in Seq(UdsFrames) /\ c # <<>> /\ c[1] = f
        /\ \A n \in DOMAIN c : c[n] = f \/ \E m \in DOMAIN o : c[n] = o[m]
    BY <1>1, <1>3, InFront
  <1> HIDE DEF c
  <1>6. \A n \in DOMAIN q : q[n].for = u.sock
    BY DEF Accepted, q
  <1>7. \A n \in DOMAIN c : c[n].for = u.sock
    BY <1>1, <1>4, <1>5, <1>6
  <1>8. /\ r \in Seq(UdsFrames) /\ (\A n \in DOMAIN r : r[n].for = u.sock)
        /\ NeedsConnectRecord(u) => r # <<>> /\ r[1].kind = "connect"
    BY <1>1, <1>5, <1>6, <1>7
  <1> HIDE DEF r
  <1>9. /\ p \in Seq(UdsFrames) /\ p # <<>> /\ p[1] = h /\ Len(p) = Len(r) + 1
        /\ (r # <<>> => p[2] = r[1])
        /\ \A n \in DOMAIN p : p[n] = h \/ \E m \in DOMAIN r : p[n] = r[m]
    BY <1>1, <1>8, InFront
  <1> HIDE DEF p
  <1>10. \A n \in DOMAIN p : p[n].for = u.sock
    BY <1>1, <1>8, <1>9
  <1>11. v.queue = p /\ v.wire = u.wire /\ v.tx = u.tx /\ v.sock = u.sock /\ v.peer = e /\ v.inst = u.inst
    BY <1>2 DEF UdsConnSet
  <1>12. u.wire = <<>> /\ u.tx.kind \in {"none", "error"} /\ (u.tx # NoUdsFrame => u.tx.for = u.sock)
    BY DEF Accepted
  <1>13. NeedsConnectRecord(v) = NeedsConnectRecord(u)
    BY <1>11 DEF NeedsConnectRecord
  <1>14. u.tx = NoUdsFrame \/ u.tx.kind = "error"
    <2>1. u.tx \in UdsFrames => u.tx.kind # "none"
      BY DEF UdsFrames, UdsKinds
    <2> QED
      BY <1>12, <2>1 DEF UdsConnSet
  <1>15. NeedsConnectRecord(u) => Len(p) > 1 /\ p[2].kind = "connect"
    <2> HAVE NeedsConnectRecord(u)
    <2>1. r # <<>> /\ Len(r) \in Nat /\ Len(r) # 0
      BY <1>8
    <2> QED
      BY <1>8, <1>9, <2>1
  <1>16. u.tx = NoUdsFrame => Opening(v)
    BY <1>1, <1>9, <1>11, <1>12, <1>13, <1>15 DEF Opening
  <1> HIDE DEF Opening
  <1>17. Accepted(v)
    BY <1>10, <1>11, <1>12, <1>13, <1>14, <1>16, UdsAssumption DEF Accepted
  <1> QED
    BY <1>17 DEF v


\* The kinds of frames that never expire.
Lasting == [kind : {"handshake", "connect", "disconnect", "error"}, for : Nat]

\* RemoveExpiredUdsMessages, between two frames.
LEMMA AcceptedExpire ==
    ASSUME NEW u \in UdsConnSet, Accepted(u), u.tx = NoUdsFrame
    PROVE  Accepted([u EXCEPT !.queue = Only(u.queue, Lasting)])
  <1> DEFINE q == u.queue
             p == Only(q, Lasting)
             v == [u EXCEPT !.queue = p]
  <1>1. q \in Seq(UdsFrames) /\ \A n \in DOMAIN q : q[n] \in UdsFrames
    BY DEF UdsConnSet
  <1>2. v.queue = p /\ v.wire = u.wire /\ v.tx = u.tx /\ v.inst = u.inst /\ v.sock = u.sock /\ v.peer = u.peer
    BY DEF UdsConnSet
  <1> HIDE DEF q, v
  <1>3. p \in Seq(UdsFrames)
    BY <1>1, OnlyAt
  <1>4. \A n \in DOMAIN p : \E m \in DOMAIN q : p[n] = q[m]
    BY <1>1, OnlyFrom
  <1>5. \A f \in UdsFrames : f.kind \in {"handshake", "connect"} => f \in Lasting
    BY DEF UdsFrames, Lasting
  <1>6. q # <<>> /\ q[1].kind \in {"handshake", "connect"} => p # <<>> /\ p[1] = q[1]
    <2> HAVE q # <<>> /\ q[1].kind \in {"handshake", "connect"}
    <2>1. q[1] \in UdsFrames
      BY <1>1
    <2>2. q[1] \in Lasting
      BY <1>5, <2>1
    <2> QED
      BY <1>1, <2>2, OnlyHead
  <1>7. Len(q) > 1 /\ q[1].kind = "handshake" /\ q[2].kind = "connect" => Len(p) > 1 /\ p[2] = q[2]
    <2> HAVE Len(q) > 1 /\ q[1].kind = "handshake" /\ q[2].kind = "connect"
    <2>1. q[1] \in UdsFrames /\ q[2] \in UdsFrames
      BY <1>1
    <2>2. q[1] \in Lasting /\ q[2] \in Lasting
      BY <1>5, <2>1
    <2> QED
      BY <1>1, <2>2, OnlySecond
  <1> HIDE DEF p
  <1>8. NeedsConnectRecord(v) = NeedsConnectRecord(u)
    BY <1>2 DEF NeedsConnectRecord
  <1>9. Opening(u) => Opening(v)
    BY <1>2, <1>6, <1>7, <1>8 DEF Opening, q
  <1>10. \A n \in DOMAIN p : p[n].for = u.sock /\ (u.peer = "none" => p[n].kind = "error")
    <2>1. \A n \in DOMAIN q : q[n].for = u.sock /\ (u.peer = "none" => q[n].kind = "error")
      BY DEF Accepted, q
    <2> QED
      BY <1>4, <2>1
  <1> HIDE DEF Opening
  <1>11. Accepted(v)
    BY <1>2, <1>8, <1>9, <1>10 DEF Accepted
  <1> QED
    BY <1>11 DEF v, p, q

\* The head of the queue becomes the frame that is being sent.
LEMMA AcceptedPop ==
    ASSUME NEW u \in UdsConnSet, Accepted(u), u.tx = NoUdsFrame, u.queue # <<>>
    PROVE  Accepted([u EXCEPT !.queue = Tail(u.queue), !.tx = Head(u.queue)])
  <1> DEFINE q == u.queue
             t == Tail(q)
             h == Head(q)
             v == [u EXCEPT !.queue = t, !.tx = h]
  <1>1. q \in Seq(UdsFrames) /\ q # <<>>
    BY DEF UdsConnSet
  <1>2. v.queue = t /\ v.wire = u.wire /\ v.tx = h /\ v.inst = u.inst /\ v.sock = u.sock /\ v.peer = u.peer
    BY DEF UdsConnSet
  <1> HIDE DEF q, v
  <1>3. /\ h = q[1] /\ h \in UdsFrames /\ t \in Seq(UdsFrames) /\ Len(t) = Len(q) - 1 /\ Len(q) \in Nat
        /\ 1 \in DOMAIN q /\ DOMAIN t = 1..(Len(q) - 1) /\ DOMAIN q = 1..Len(q)
        /\ \A n \in 1..(Len(q) - 1) : t[n] = q[n + 1]
    BY <1>1
  <1>4. Len(q) > 1 => t # <<>> /\ t[1] = q[2]
    <2> HAVE Len(q) > 1
    <2>1. 1 \in 1..(Len(q) - 1) /\ 1 + 1 = 2
      BY <1>3
    <2>2. t[1] = q[1 + 1]
      BY <1>3, <2>1
    <2> QED
      BY <1>3, <2>1, <2>2
  <1>5. \A n \in DOMAIN t : \E m \in DOMAIN q : t[n] = q[m]
    <2> TAKE n \in DOMAIN t
    <2>1. n \in 1..(Len(q) - 1) /\ n + 1 \in 1..Len(q)
      BY <1>3
    <2> QED
      BY <1>3, <2>1
  <1> HIDE DEF t, h
  <1>6. NeedsConnectRecord(v) = NeedsConnectRecord(u)
    BY <1>2 DEF NeedsConnectRecord
  <1>7. h # NoUdsFrame
    BY <1>3 DEF UdsFrames, UdsKinds, NoUdsFrame, UdsFrame
  <1>8. Opening(u) => Opening(v)
    BY <1>2, <1>3, <1>4, <1>6, <1>7 DEF Opening, q
  <1>9. u.tx.kind # "error"
    BY DEF NoUdsFrame, UdsFrame
  <1>10. \A n \in DOMAIN q : q[n].for = u.sock /\ (u.peer = "none" => q[n].kind = "error")
    BY DEF Accepted, q
  <1>11. \A n \in DOMAIN t : t[n].for = u.sock /\ (u.peer = "none" => t[n].kind = "error")
    BY <1>5, <1>10
  <1>12. h.for = u.sock /\ (u.peer = "none" => h.kind = "error")
    BY <1>3, <1>10
  <1> HIDE DEF Opening
  <1>13. Accepted(v)
    BY <1>2, <1>6, <1>8, <1>9, <1>11, <1>12 DEF Accepted
  <1> QED
    BY <1>13 DEF v, t, h, q

\* A frame is written to its end.
LEMMA AcceptedWrite ==
    ASSUME NEW u \in UdsConnSet, Accepted(u), u.tx # NoUdsFrame, u.tx.kind # "error"
    PROVE  Accepted([u EXCEPT !.tx = NoUdsFrame, !.wire = Append(@, u.tx)])
  <1> DEFINE f == u.tx
             w == u.wire
             x == Append(w, f)
             v == [u EXCEPT !.tx = NoUdsFrame, !.wire = x]
  <1>1. w \in Seq(UdsFrames) /\ f \in UdsFrames
    BY DEF UdsConnSet
  <1>2. v.queue = u.queue /\ v.wire = x /\ v.tx = NoUdsFrame /\ v.inst = u.inst /\ v.sock = u.sock /\ v.peer = u.peer
    BY DEF UdsConnSet
  <1>3. u.peer # "none"
    BY <1>1 DEF Accepted, UdsFrames, UdsKinds
  <1>4. Opening(u)
    <2> HIDE DEF Opening
    <2> QED
      BY <1>3 DEF Accepted
  <1> HIDE DEF v, w, f
  <1>5. /\ x \in Seq(UdsFrames) /\ Len(x) = Len(w) + 1 /\ Len(w) \in Nat /\ x[Len(w) + 1] = f
        /\ \A n \in 1..Len(w) : x[n] = w[n]
        /\ DOMAIN x = 1..(Len(w) + 1) /\ DOMAIN w = 1..Len(w)
    BY <1>1
  <1> HIDE DEF x
  <1>6. w # <<>> => x[1] = w[1]
    <2>1. w # <<>> => 1 \in 1..Len(w)
      BY <1>1
    <2> QED
      BY <1>5, <2>1
  <1>7. Len(w) > 1 => x[2] = w[2]
    BY <1>5
  <1>8. (w = <<>> => Len(w) = 0 /\ x[1] = f /\ Len(x) = 1) /\ (Len(w) = 1 => w # <<>> /\ x[2] = f /\ Len(x) = 2)
    <2>1. w = <<>> => Len(w) = 0
      BY <1>1
    <2>2. Len(w) = 1 => w # <<>>
      BY <2>1
    <2> QED
      BY <1>5, <2>1, <2>2
  <1>9. w # <<>> => Len(w) = 1 \/ Len(w) > 1
    <2>1. w # <<>> => Len(w) # 0
      BY <1>1
    <2> QED
      BY <1>5, <2>1
  <1>10. NeedsConnectRecord(v) = NeedsConnectRecord(u)
    BY <1>2 DEF NeedsConnectRecord
  <1>11. x # <<>> /\ (Len(w) > 1 => Len(x) # 1)
    <2>1. x = <<>> => Len(x) = 0
      OBVIOUS
    <2> QED
      BY <1>5, <2>1
  <1>12. Opening(v)
    <2>1. CASE w = <<>>
      BY <1>2, <1>4, <1>8, <1>10, <1>11, <2>1 DEF Opening, w
    <2>2. CASE Len(w) = 1
      BY <1>2, <1>4, <1>8, <1>10, <1>11, <2>2 DEF Opening, w
    <2>3. CASE Len(w) > 1
      BY <1>2, <1>10, <1>11, <2>3 DEF Opening
    <2> QED
      BY <1>9, <2>1, <2>2, <2>3
  <1>13. x[1].kind = "handshake"
    <2>1. w = <<>> => f.kind = "handshake"
      BY <1>4 DEF Opening, w, f
    <2>2. w # <<>> => w[1].kind = "handshake"
      BY DEF Accepted, w
    <2> QED
      BY <1>6, <1>8, <2>1, <2>2
  <1>14. Len(x) > 1 /\ NeedsConnectRecord(u) => x[2].kind = "connect"
    <2>1. Len(w) = 1 /\ NeedsConnectRecord(u) => f.kind = "connect"
      BY <1>4 DEF Opening, w, f
    <2>2. Len(w) > 1 /\ NeedsConnectRecord(u) => w[2].kind = "connect"
      BY DEF Accepted, w
    <2>3. Len(x) > 1 => w # <<>>
      <3> SUFFICES ASSUME w = <<>> PROVE ~(Len(x) > 1)
        OBVIOUS
      <3>1. Len(x) = 1
        BY <1>8
      <3> QED
        BY <3>1
    <2> QED
      BY <1>7, <1>8, <1>9, <2>1, <2>2, <2>3
  <1>15. \A n \in DOMAIN x : x[n].for = u.sock
    <2> TAKE n \in DOMAIN x
    <2>1. n \in 1..Len(w) \/ n = Len(w) + 1
      BY <1>5
    <2>2. (\A m \in DOMAIN w : w[m].for = u.sock) /\ f.for = u.sock
      BY DEF Accepted, w, f
    <2> QED
      BY <1>5, <2>1, <2>2
  <1>16. \A n \in DOMAIN u.queue : u.queue[n].for = u.sock
    BY DEF Accepted
  <1> HIDE DEF Opening
  <1>17. Accepted(v)
    BY <1>2, <1>3, <1>10, <1>12, <1>13, <1>14, <1>15, <1>16 DEF Accepted
  <1> QED
    BY <1>17 DEF v, x, w, f


-----------------------------------------------------------------------------
(* Entries that close, start and are used again.                           *)

LEMMA NoConnectionTyped == NoConnection \in UdsConnSet
  <1>1. <<>> \in Seq(UdsFrames)
    OBVIOUS
  <1> QED
    BY <1>1 DEF NoConnection, UdsConnSet, UdsActions, UdsModes

LEMMA CloseUds ==
    ASSUME NEW u \in UdsConnSet, u.sched # "Off" => u.next # "none", NEW retry \in BOOLEAN
    PROVE  Closed(u, CloseUdsConnection(u, retry))
  <1> DEFINE v == [u EXCEPT !.sock = 0, !.peer = "none", !.own = FALSE, !.queue = <<>>, !.tx = NoUdsFrame,
                            !.retry = TRUE, !.wire = <<>>]
  <1>1. CASE u.type = "Client" /\ retry
    <2>1. CloseUdsConnection(u, retry) = v
      BY <1>1 DEF CloseUdsConnection
    <2>2. <<>> \in Seq(UdsFrames)
      OBVIOUS
    <2>3. v \in UdsConnSet
      BY <2>2 DEF UdsConnSet
    <2>4. /\ v.peer = "none" /\ v.type = u.type /\ v.sock = 0 /\ v.inst = u.inst /\ v.id = u.id
          /\ v.sched = u.sched /\ v.next = u.next
      BY DEF UdsConnSet
    <2> HIDE DEF v
    <2> QED
      BY <1>1, <2>1, <2>3, <2>4 DEF Closed
  <1>2. CASE ~(u.type = "Client" /\ retry)
    <2>1. CloseUdsConnection(u, retry) = NoConnection
      BY <1>2 DEF CloseUdsConnection
    <2>2. /\ NoConnection.peer = "none" /\ NoConnection.type = "Invalid" /\ NoConnection.sock = 0
          /\ NoConnection.inst = 0 /\ NoConnection.sched = "Off"
      BY DEF NoConnection
    <2> QED
      BY <2>1, <2>2, NoConnectionTyped DEF Closed
  <1> QED
    BY <1>1, <1>2

LEMMA ClosedRx ==
    ASSUME NEW u, NEW v, Closed(u, v), NEW r \in {"start", "header", "payload"}
    PROVE  Closed(u, [v EXCEPT !.rx = r])
  <1> DEFINE w == [v EXCEPT !.rx = r]
  <1>1. w \in UdsConnSet
    BY DEF Closed, UdsConnSet
  <1>2. /\ w.peer = v.peer /\ w.type = v.type /\ w.sock = v.sock /\ w.inst = v.inst /\ w.id = v.id
        /\ w.sched = v.sched /\ w.next = v.next
    BY DEF Closed, UdsConnSet
  <1> HIDE DEF w
  <1>3. Closed(u, w)
    BY <1>1, <1>2 DEF Closed
  <1> QED
    BY <1>3 DEF w

LEMMA ClosedHandshake ==
    ASSUME NEW u, NEW v, Closed(u, v) PROVE Closed(u, [v EXCEPT !.handshake = FALSE])
  <1> DEFINE w == [v EXCEPT !.handshake = FALSE]
  <1>1. w \in UdsConnSet
    BY DEF Closed, UdsConnSet
  <1>2. /\ w.peer = v.peer /\ w.type = v.type /\ w.sock = v.sock /\ w.inst = v.inst /\ w.id = v.id
        /\ w.sched = v.sched /\ w.next = v.next
    BY DEF Closed, UdsConnSet
  <1> HIDE DEF w
  <1>3. Closed(u, w)
    BY <1>1, <1>2 DEF Closed
  <1> QED
    BY <1>3 DEF w

\* StartUdsClient, for a new client and for a retry.
LEMMA StartClientEntry ==
    ASSUME NEW u \in UdsConnSet, u.peer = "none", u.retry = FALSE, u.sched # "Off" => u.next # "none",
           NEW sock \in Nat
    PROVE  LET v == StartUdsClient(u, sock) IN
           /\ v \in UdsConnSet /\ v.inst = u.inst /\ v.id = u.id /\ v.peer = "none" /\ v.type = "Client"
           /\ v.sock = sock /\ (v.sched # "Off" => v.next # "none") /\ (v.retry => sock = 0)
  <1> DEFINE v == StartUdsClient(u, sock)
  <1>1. CASE sock = 0
    <2> DEFINE b == [u EXCEPT !.type = "Client"]
               a == CloseUdsConnection(b, TRUE)
    <2>1. b \in UdsConnSet /\ b.type = "Client" /\ b.inst = u.inst /\ b.id = u.id /\ b.sched = u.sched /\ b.next = u.next
      BY DEF UdsConnSet
    <2> HIDE DEF b
    <2>2. Closed(b, a)
      BY <2>1, CloseUds
    <2>3. a.type = "Client" /\ a.inst = b.inst /\ a.id = b.id
      <3>1. a = [b EXCEPT !.sock = 0, !.peer = "none", !.own = FALSE, !.queue = <<>>, !.tx = NoUdsFrame,
                          !.retry = TRUE, !.wire = <<>>]
        BY <2>1 DEF CloseUdsConnection
      <3> HIDE DEF a
      <3> QED
        BY <2>1, <3>1 DEF UdsConnSet
    <2> HIDE DEF a
    <2>4. v = [a EXCEPT !.rx = u.rx]
      <3>1. v = [CloseUdsConnection([u EXCEPT !.type = "Client"], TRUE) EXCEPT !.rx = u.rx]
        BY <1>1 DEF StartUdsClient
      <3> HIDE DEF v
      <3> QED
        BY <3>1 DEF a, b
    <2>5. u.rx \in {"start", "header", "payload"}
      BY DEF UdsConnSet
    <2> HIDE DEF v
    <2>6. Closed(b, v)
      <3>1. Closed(b, [a EXCEPT !.rx = u.rx])
        BY <2>2, <2>5, ClosedRx
      <3> QED
        BY <2>4, <3>1
    <2>7. v.type = a.type /\ v.inst = a.inst /\ v.id = a.id
      <3>1. a \in UdsConnSet
        BY <2>2 DEF Closed
      <3> QED
        BY <2>4, <3>1 DEF UdsConnSet
    <2>8. /\ v \in UdsConnSet /\ v.inst = u.inst /\ v.id = u.id /\ v.peer = "none" /\ v.type = "Client"
          /\ v.sock = sock /\ (v.sched # "Off" => v.next # "none")
      BY <1>1, <2>1, <2>3, <2>6, <2>7 DEF Closed
    <2> QED
      BY <1>1, <2>8 DEF v
  <1>2. CASE sock # 0
    <2> DEFINE f == UdsFrame("handshake", sock)
               q == <<f>> \o u.queue
               own == (u.rx = "start")
    <2>1. f \in UdsFrames /\ u.queue \in Seq(UdsFrames)
      BY DEF UdsFrame, UdsFrames, UdsKinds, UdsConnSet
    <2>2. v = [u EXCEPT !.type = "Client", !.sock = sock, !.queue = q, !.handshake = TRUE, !.own = own, !.wire = <<>>]
      BY <1>2 DEF StartUdsClient
    <2> HIDE DEF f
    <2>3. q \in Seq(UdsFrames) /\ <<>> \in Seq(UdsFrames)
      BY <2>1, InFront
    <2>4. own \in BOOLEAN
      OBVIOUS
    <2> HIDE DEF q, own, v
    <2>5. v \in UdsConnSet
      BY <2>2, <2>3, <2>4 DEF UdsConnSet
    <2>6. /\ v.inst = u.inst /\ v.id = u.id /\ v.peer = u.peer /\ v.type = "Client" /\ v.sock = sock
          /\ v.sched = u.sched /\ v.next = u.next /\ v.retry = u.retry
      BY <2>2 DEF UdsConnSet
    <2> QED
      BY <2>5, <2>6 DEF v
  <1> QED
    BY <1>1, <1>2

LEMMA CreateClientEntry ==
    ASSUME NEW i \in UdsInsts, us_ids \in Nat, NEW sock \in {0, us_ids + 1}
    PROVE  LET v == CreateUdsClient(i, sock) IN
           v \in UdsConnSet /\ v.id = us_ids + 1 /\ v.peer = "none" /\ SlotOK(v, us_ids + 1)
  <1> DEFINE h == us_ids + 1
             u == [NoConnection EXCEPT !.inst = i, !.id = h]
             v == StartUdsClient(u, sock)
  <1>1. h \in Nat /\ h \in 1..h /\ sock \in Nat /\ sock <= h /\ i # 0
    BY DEF UdsInsts
  <1>2. CreateUdsClient(i, sock) = v
    BY DEF CreateUdsClient
  <1> HIDE DEF h
  <1>3. u \in UdsConnSet
    BY <1>1, NoConnectionTyped DEF UdsConnSet
  <1>4. u.peer = "none" /\ u.retry = FALSE /\ u.sched = "Off" /\ u.inst = i /\ u.id = h
    BY DEF NoConnection
  <1> HIDE DEF u
  <1>5. /\ v \in UdsConnSet /\ v.inst = u.inst /\ v.id = u.id /\ v.peer = "none" /\ v.type = "Client"
        /\ v.sock = sock /\ (v.sched # "Off" => v.next # "none") /\ (v.retry => sock = 0)
    BY <1>1, <1>3, <1>4, StartClientEntry
  <1> HIDE DEF v
  <1>6. SlotOK(v, h)
    BY <1>1, <1>4, <1>5 DEF SlotOK
  <1> QED
    BY <1>2, <1>4, <1>5, <1>6 DEF h

\* The first of the entries of a table that are looked for.
LEMMA FirstOfIn ==
    ASSUME NEW n \in Nat, NEW S, S \subseteq 1..n, S # {} PROVE FirstOf(S) \in S
  BY FirstSlot DEF FirstOf

\* UDS_EnableConnection.
LEMMA EnabledAgrees ==
    ASSUME NEW srv, NEW con, NEW told, NEW req, ServersOK(srv), Agree(con, us_ids, told, req),
           NEW i \in UdsInsts, NEW mode \in {"Listen", "Connect"}, us_dm \in [UdsInsts -> UdsModes],
           NEW sock \in {0, us_ids + 1}
    PROVE  LET e == Enabled(i, mode, srv, con, sock) IN
           /\ ServersOK(e.srv)
           /\ Agree(e.con, IF mode = "Connect" THEN us_ids + 1 ELSE us_ids, told, req)
  <1> DEFINE S == {s \in DOMAIN srv : srv[s].inst = 0}
             C == {c \in DOMAIN con : con[c].inst = 0}
             s1 == FirstOf(S)
             c1 == FirstOf(C)
             r == [NoServer EXCEPT !.inst = i, !.listening = TRUE, !.next = us_dm[i]]
             v == CreateUdsClient(i, sock)
             e == Enabled(i, mode, srv, con, sock)
  <1>1. DOMAIN srv = 1..UdsServers /\ DOMAIN con = UdsSlots /\ us_ids \in Nat /\ UdsServers \in Nat /\ UdsConns \in Nat
    BY UdsAssumption DEF ServersOK, Agree
  <1>2. CASE mode = "Listen"
    <2>1. e.con = con /\ e.srv = IF S = {} THEN srv ELSE [srv EXCEPT ![s1] = r]
      BY <1>2 DEF Enabled
    <2>2. r \in UdsServerSet /\ r.sched = "Off"
      BY DEF NoServer, UdsServerSet, UdsModes, UdsActions
    <2>3. S # {} => s1 \in 1..UdsServers
      <3>1. S \subseteq 1..UdsServers
        BY <1>1
      <3> HIDE DEF S
      <3> QED
        BY <1>1, <3>1, FirstOfIn
    <2> HIDE DEF r, s1
    <2>4. ServersOK([srv EXCEPT ![s1] = r])
      BY <2>2 DEF ServersOK
    <2> QED
      BY <1>2, <2>1, <2>4
  <1>3. CASE mode = "Connect"
    <2>1. e.srv = srv /\ e.con = IF C = {} THEN con ELSE [con EXCEPT ![c1] = v]
      BY <1>3 DEF Enabled
    <2>2. CASE C = {}
      <3>1. Agree(con, us_ids + 1, told, req)
        <4>1. us_ids + 1 \in Nat /\ us_ids <= us_ids + 1
          BY <1>1
        <4>2. con \in [UdsSlots -> UdsConnSet] /\ \A c \in UdsSlots : SlotOK(con[c], us_ids)
          BY DEF Agree
        <4>3. \A c \in UdsSlots : SlotOK(con[c], us_ids + 1)
          <5> TAKE c \in UdsSlots
          <5>1. SlotOK(con[c], us_ids) /\ con[c].id \in Nat /\ con[c].sock \in Nat
            BY <4>2 DEF UdsConnSet
          <5> QED
            BY <1>1, <5>1 DEF SlotOK
        <4> QED
          BY <4>1, <4>2, <4>3, AgreeStays
      <3> QED
        BY <1>3, <2>1, <2>2, <3>1
    <2>3. CASE C # {}
      <3>1. c1 \in UdsSlots /\ con[c1].inst = 0
        <4>1. C \subseteq 1..UdsConns /\ \A c \in C : con[c].inst = 0
          BY <1>1 DEF UdsSlots
        <4> HIDE DEF C
        <4> QED
          BY <1>1, <2>3, <4>1, FirstOfIn DEF UdsSlots
      <3>2. v \in UdsConnSet /\ v.id = us_ids + 1 /\ v.peer = "none" /\ SlotOK(v, us_ids + 1)
        BY <1>1, CreateClientEntry
      <3> HIDE DEF v, c1
      <3>3. Agree([con EXCEPT ![c1] = v], us_ids + 1, told, req)
        BY <3>1, <3>2, AgreeNew
      <3> QED
        BY <1>3, <2>1, <2>3, <3>3
    <2> QED
      BY <2>2, <2>3
  <1> QED
    BY <1>2, <1>3


-----------------------------------------------------------------------------
(* The steps of the transport.                                             *)

UdsRest == <<us_srv, us_dm, us_service, us_i>>

LEMMA AgreePrimed ==
    ASSUME us_service' = us_service, Agree(us_con', us_ids', us_told', us_req')
    PROVE  Agree(us_con, us_ids, us_told, us_req)'
  <1>1. \A u : NeedsConnectRecord(u)' <=> NeedsConnectRecord(u)
    BY DEF NeedsConnectRecord
  <1> QED
    BY <1>1 DEF Agree, SlotOK, Accepted, Opening

\* A step that leaves the rest of the transport alone.
LEMMA RestStep ==
    ASSUME UdsIndInv, UNCHANGED UdsRest, Agree(us_con', us_ids', us_told', us_req')
    PROVE  UdsIndInv'
  <1>1. Agree(us_con, us_ids, us_told, us_req)'
    BY AgreePrimed DEF UdsRest
  <1>2. ServersOK(us_srv)' /\ us_service' \in BOOLEAN /\ us_i' \in 0..UdsServers /\ us_dm' \in [UdsInsts -> UdsModes]
    BY DEF UdsIndInv, UdsRest, ServersOK
  <1> QED
    BY <1>1, <1>2 DEF UdsIndInv

LEMMA EntryTyped ==
    ASSUME UdsIndInv, NEW c \in UdsSlots
    PROVE  /\ us_con[c] \in UdsConnSet /\ SlotOK(us_con[c], us_ids) /\ us_ids \in Nat
           /\ (us_con[c].sched # "Off" => us_con[c].next # "none")
           /\ us_con \in [UdsSlots -> UdsConnSet]
  <1>1. /\ us_con[c] \in UdsConnSet /\ SlotOK(us_con[c], us_ids) /\ us_ids \in Nat
        /\ us_con \in [UdsSlots -> UdsConnSet]
    BY DEF UdsIndInv, Agree
  <1> QED
    BY <1>1 DEF SlotOK

\* One entry changes and keeps its endpoint.
LEMMA EntryAgrees ==
    ASSUME UdsIndInv, NEW c \in UdsSlots, NEW v \in UdsConnSet, SameLink(us_con[c], v), SlotOK(v, us_ids)
    PROVE  Agree([us_con EXCEPT ![c] = v], us_ids, us_told, us_req)
  <1> DEFINE con2 == [us_con EXCEPT ![c] = v]
  <1>1. Agree(us_con, us_ids, us_told, us_req) /\ us_ids \in Nat /\ us_ids <= us_ids
    BY DEF UdsIndInv, Agree
  <1>2. us_con \in [UdsSlots -> UdsConnSet] /\ \A d \in UdsSlots : SlotOK(us_con[d], us_ids)
    BY <1>1 DEF Agree
  <1>3. con2 \in [UdsSlots -> UdsConnSet] /\ \A d \in UdsSlots : con2[d] = IF d = c THEN v ELSE us_con[d]
    BY <1>2
  <1> HIDE DEF con2
  <1>4. \A d \in UdsSlots :
          /\ SlotOK(con2[d], us_ids) /\ con2[d].inst = us_con[d].inst /\ con2[d].id = us_con[d].id
          /\ con2[d].peer = us_con[d].peer
          /\ con2[d].type = "Server" => us_con[d].type = "Server" /\ con2[d].sock = us_con[d].sock
    BY <1>2, <1>3 DEF SameLink
  <1>5. Agree(con2, us_ids, us_told, us_req)
    BY <1>1, <1>3, <1>4, AgreeStays
  <1> QED
    BY <1>5 DEF con2

LEMMA EntryStep ==
    ASSUME UdsIndInv, NEW c \in UdsSlots, NEW v \in UdsConnSet, SameLink(us_con[c], v), SlotOK(v, us_ids),
           us_con' = [us_con EXCEPT ![c] = v], UNCHANGED <<UdsRest, us_ids, us_told, us_req>>
    PROVE  UdsIndInv'
  <1>1. Agree(us_con', us_ids', us_told', us_req')
    BY EntryAgrees
  <1> QED
    BY <1>1, RestStep

\* One connection closes.
LEMMA ClosesStep ==
    ASSUME UdsIndInv, NEW c \in UdsSlots, NEW v, Closed(us_con[c], v),
           us_con' = [us_con EXCEPT ![c] = v], us_told' = PostUdsDisconnected(us_told, {c}),
           UNCHANGED <<UdsRest, us_ids, us_req>>
    PROVE  UdsIndInv'
  <1>1. Agree(us_con, us_ids, us_told, us_req)
    BY DEF UdsIndInv
  <1>2. us_con \in [UdsSlots -> UdsConnSet] /\ v \in UdsConnSet
    BY <1>1 DEF Agree, Closed
  <1>3. us_con' \in [UdsSlots -> UdsConnSet] /\ \A d \in UdsSlots : us_con'[d] = IF d = c THEN v ELSE us_con[d]
    BY <1>2
  <1>4. \A d \in UdsSlots : IF d \in {c} THEN Closed(us_con[d], us_con'[d]) ELSE us_con'[d] = us_con[d]
    BY <1>3
  <1>5. Agree(us_con', us_ids, PostUdsDisconnected(us_told, {c} \cap UdsSlots), us_req)
    BY <1>1, <1>3, <1>4, AgreeCloses
  <1>6. {c} \cap UdsSlots = {c}
    OBVIOUS
  <1>7. Agree(us_con', us_ids', us_told', us_req')
    BY <1>5, <1>6
  <1> QED
    BY <1>7, RestStep

LEMMA ClosesEntryStep ==
    ASSUME UdsIndInv, NEW c \in UdsSlots, Closes(c, TRUE), UNCHANGED <<UdsRest, us_ids, us_req>>
    PROVE  UdsIndInv'
  <1> DEFINE v == CloseUdsConnection(us_con[c], TRUE)
  <1>1. Closed(us_con[c], v)
    BY EntryTyped, CloseUds
  <1> HIDE DEF v
  <1>2. us_con' = [us_con EXCEPT ![c] = v] /\ us_told' = PostUdsDisconnected(us_told, {c})
    BY DEF Closes, v
  <1> QED
    BY <1>1, <1>2, ClosesStep

\* UDS_DisableConnection.
LEMMA DisabledAgrees ==
    ASSUME UdsIndInv, NEW i \in UdsInsts
    PROVE  /\ ServersOK(DisabledServers(i))
           /\ Agree(DisabledConns(i), us_ids, PostUdsDisconnected(us_told, Instance(i)), us_req)
  <1> DEFINE con2 == DisabledConns(i)
             srv2 == DisabledServers(i)
  <1>1. ServersOK(us_srv) /\ Agree(us_con, us_ids, us_told, us_req)
    BY DEF UdsIndInv
  <1>2. ServersOK(srv2)
    <2>1. NoServer \in UdsServerSet /\ NoServer.sched = "Off"
      BY DEF NoServer, UdsServerSet, UdsModes, UdsActions
    <2>2. srv2 = [s \in 1..UdsServers |-> IF us_srv[s].inst = i THEN NoServer ELSE us_srv[s]]
      BY <1>1 DEF DisabledServers, ServersOK
    <2>3. srv2 \in [1..UdsServers -> UdsServerSet]
      BY <1>1, <2>1, <2>2 DEF ServersOK
    <2>4. \A s \in 1..UdsServers : srv2[s] = IF us_srv[s].inst = i THEN NoServer ELSE us_srv[s]
      BY <2>2
    <2> HIDE DEF srv2
    <2> QED
      BY <1>1, <2>1, <2>3, <2>4 DEF ServersOK
  <1>3. \A c \in UdsSlots : IF c \in Instance(i) THEN Closed(us_con[c], con2[c]) ELSE con2[c] = us_con[c]
    <2> TAKE c \in UdsSlots
    <2>1. con2[c] = IF c \in Instance(i) THEN CloseUdsConnection(us_con[c], FALSE) ELSE us_con[c]
      BY DEF DisabledConns
    <2>2. Closed(us_con[c], CloseUdsConnection(us_con[c], FALSE))
      BY EntryTyped, CloseUds
    <2> HIDE DEF con2
    <2> QED
      BY <2>1, <2>2
  <1>4. con2 \in [UdsSlots -> UdsConnSet]
    <2>1. DOMAIN con2 = UdsSlots /\ con2 = [c \in UdsSlots |-> con2[c]]
      BY DEF DisabledConns
    <2>2. \A c \in UdsSlots : con2[c] \in UdsConnSet
      BY <1>1, <1>3 DEF Closed, Agree
    <2> QED
      BY <2>1, <2>2
  <1>5. Instance(i) \cap UdsSlots = Instance(i)
    BY DEF Instance
  <1> HIDE DEF con2, srv2
  <1>6. Agree(con2, us_ids, PostUdsDisconnected(us_told, Instance(i) \cap UdsSlots), us_req)
    BY <1>1, <1>3, <1>4, AgreeCloses
  <1> QED
    BY <1>2, <1>5, <1>6 DEF con2, srv2

LEMMA ReconnectedAgrees ==
    ASSUME UdsIndInv, NEW i \in UdsInsts, NEW mode \in {"Listen", "Connect"}, UdsReconnected(i, mode)
    PROVE  ServersOK(us_srv') /\ Agree(us_con', us_ids', us_told', us_req)
  <1>1. PICK ok \in BOOLEAN :
          LET e == Enabled(i, mode, DisabledServers(i), DisabledConns(i), IF ok THEN us_ids + 1 ELSE 0) IN
          us_srv' = e.srv /\ us_con' = e.con
    BY DEF UdsReconnected
  <1> DEFINE sock == IF ok THEN us_ids + 1 ELSE 0
             srv == DisabledServers(i)
             con == DisabledConns(i)
             told == PostUdsDisconnected(us_told, Instance(i))
             e == Enabled(i, mode, srv, con, sock)
  <1>2. us_srv' = e.srv /\ us_con' = e.con
    BY <1>1
  <1>3. us_told' = told /\ us_ids' = IF mode = "Connect" THEN us_ids + 1 ELSE us_ids
    BY DEF UdsReconnected
  <1>4. ServersOK(srv) /\ Agree(con, us_ids, told, us_req)
    BY DisabledAgrees
  <1>5. sock \in {0, us_ids + 1} /\ us_dm \in [UdsInsts -> UdsModes]
    BY DEF UdsIndInv
  <1> HIDE DEF sock, srv, con, told
  <1>6. ServersOK(e.srv) /\ Agree(e.con, IF mode = "Connect" THEN us_ids + 1 ELSE us_ids, told, us_req)
    BY <1>4, <1>5, EnabledAgrees
  <1> QED
    BY <1>2, <1>3, <1>6

LEMMA UdsInitHolds == UdsInit => UdsIndInv
  <1> SUFFICES ASSUME UdsInit PROVE UdsIndInv
    OBVIOUS
  <1> DEFINE mode == IF us_service THEN "Connect" ELSE "Listen"
  <1>1. us_service \in BOOLEAN /\ us_i = 0 /\ us_req = NoRequest
    BY DEF UdsInit
  <1>2. us_dm = [i \in UdsInsts |-> mode] /\ mode \in UdsModes \ {"none"}
    BY DEF UdsInit, UdsModes
  <1>3. ServersOK(us_srv)
    <2>1. us_srv = [s \in 1..UdsServers |->
                       IF us_service \/ s \notin UdsInsts THEN NoServer
                       ELSE [NoServer EXCEPT !.inst = s, !.listening = TRUE, !.next = mode]]
      BY DEF UdsInit
    <2> HIDE DEF mode
    <2>2. NoServer \in UdsServerSet /\ NoServer.sched = "Off"
      BY DEF NoServer, UdsServerSet, UdsModes, UdsActions
    <2>3. ASSUME NEW s \in UdsInsts
          PROVE  /\ [NoServer EXCEPT !.inst = s, !.listening = TRUE, !.next = mode] \in UdsServerSet
                 /\ [NoServer EXCEPT !.inst = s, !.listening = TRUE, !.next = mode].sched = "Off"
      BY <1>2 DEF NoServer, UdsServerSet, UdsModes, UdsActions
    <2>4. \A s \in 1..UdsServers : us_srv[s] \in UdsServerSet /\ us_srv[s].sched = "Off"
      BY <2>1, <2>2, <2>3
    <2>5. us_srv \in [1..UdsServers -> UdsServerSet]
      BY <2>1, <2>4
    <2> QED
      BY <2>4, <2>5 DEF ServersOK
  <1>4. Cardinality(UdsInsts) = 2
    <2> DEFINE n == 2
    <2>1. UdsInsts = 1..n /\ n \in Nat /\ n >= 1
      BY DEF UdsInsts
    <2> HIDE DEF n
    <2>2. Cardinality(1..n) = n
      BY <2>1, FS_Interval
    <2>3. Cardinality(UdsInsts) = n
      BY <2>1, <2>2
    <2> QED
      BY <2>3 DEF n
  <1>5. us_ids = IF us_service THEN 2 ELSE 0
    BY <1>4 DEF UdsInit
  <1>6. \A c \in UdsSlots : /\ us_con[c] \in UdsConnSet /\ us_con[c].peer = "none" /\ us_con[c].type # "Server"
                            /\ us_con[c].sock = 0 /\ us_con[c].sched = "Off"
                            /\ us_con[c].inst # 0 => us_con[c].id = c /\ us_service /\ c \in {1, 2}
    <2>1. us_con = [c \in UdsSlots |->
                       IF ~us_service \/ c \notin UdsInsts THEN NoConnection
                       ELSE [NoConnection EXCEPT !.inst = c, !.type = "Client", !.id = c, !.retry = TRUE]]
      BY DEF UdsInit
    <2>2. ASSUME NEW c \in UdsInsts
          PROVE  LET v == [NoConnection EXCEPT !.inst = c, !.type = "Client", !.id = c, !.retry = TRUE] IN
                 v \in UdsConnSet /\ v.peer = "none" /\ v.type = "Client" /\ v.sock = 0 /\ v.sched = "Off" /\ v.id = c
      <3>1. c \in Nat
        BY DEF UdsInsts
      <3>2. [NoConnection EXCEPT !.inst = c, !.type = "Client", !.id = c, !.retry = TRUE] \in UdsConnSet
        BY <3>1, NoConnectionTyped DEF UdsConnSet
      <3> QED
        BY <3>2 DEF NoConnection
    <2>3. /\ NoConnection.peer = "none" /\ NoConnection.type = "Invalid" /\ NoConnection.sock = 0
          /\ NoConnection.inst = 0 /\ NoConnection.sched = "Off"
      BY DEF NoConnection
    <2> TAKE c \in UdsSlots
    <2>4. CASE ~us_service \/ c \notin UdsInsts
      BY <2>1, <2>3, <2>4, NoConnectionTyped
    <2>5. CASE us_service /\ c \in UdsInsts
      <3>1. us_con[c] = [NoConnection EXCEPT !.inst = c, !.type = "Client", !.id = c, !.retry = TRUE]
        BY <2>1, <2>5
      <3> QED
        BY <2>2, <2>5, <3>1 DEF UdsInsts
    <2> QED
      BY <1>1, <2>4, <2>5
  <1>7. us_con \in [UdsSlots -> UdsConnSet]
    <2>1. DOMAIN us_con = UdsSlots /\ us_con = [c \in UdsSlots |-> us_con[c]]
      BY DEF UdsInit
    <2> QED
      BY <1>6, <2>1
  <1>8. us_ids \in Nat /\ us_told \in [UdsPeers \X UdsInsts -> 0..us_ids] /\ \A k \in UdsPeers \X UdsInsts : us_told[k] = 0
    <2>1. us_told = [k \in UdsPeers \X UdsInsts |-> 0]
      BY DEF UdsInit
    <2> QED
      BY <1>5, <2>1
  <1>9. \A c \in UdsSlots : SlotOK(us_con[c], us_ids)
    <2> TAKE c \in UdsSlots
    <2>1. us_con[c].inst # 0 => us_con[c].id \in 1..us_ids
      BY <1>5, <1>6
    <2> QED
      BY <1>6, <1>8, <2>1 DEF SlotOK
  <1>10. \A c, d \in UdsSlots : us_con[c].inst # 0 /\ us_con[d].inst # 0 /\ us_con[c].id = us_con[d].id => c = d
    BY <1>6
  <1>11. us_req \in [id : 0..us_ids, sock : Nat]
    BY <1>1, <1>8 DEF NoRequest
  <1>12. Agree(us_con, us_ids, us_told, us_req)
    BY <1>1, <1>6, <1>7, <1>8, <1>9, <1>10, <1>11 DEF Agree
  <1>13. 0 \in 0..UdsServers
    BY UdsAssumption
  <1> QED
    BY <1>1, <1>2, <1>3, <1>12, <1>13 DEF UdsIndInv


\* An endpoint's handshake is accepted, and the DM thread is told.
LEMMA AgreeHandshake ==
    ASSUME UdsIndInv, NEW c \in UdsSlots, us_con[c].inst # 0, us_con[c].peer = "none", NEW e \in UdsPeers,
           ~\E d \in UdsSlots : us_con[d].inst = us_con[c].inst /\ us_con[d].peer = e,
           NEW v \in UdsConnSet, v.inst = us_con[c].inst, v.type = us_con[c].type, v.id = us_con[c].id,
           v.sock = us_con[c].sock, v.peer = e, SlotOK(v, us_ids)
    PROVE  Agree([us_con EXCEPT ![c] = v], us_ids,
                 [us_told EXCEPT ![<<e, us_con[c].inst>>] = us_con[c].id], us_req)
  <1> DEFINE con2 == [us_con EXCEPT ![c] = v]
             k0 == <<e, us_con[c].inst>>
             told2 == [us_told EXCEPT ![k0] = us_con[c].id]
  <1>1. /\ us_ids \in Nat /\ us_told \in [UdsPeers \X UdsInsts -> 0..us_ids]
        /\ \A d \in UdsSlots : SlotOK(us_con[d], us_ids)
        /\ \A b, d \in UdsSlots : us_con[b].inst # 0 /\ us_con[d].inst # 0 /\ us_con[b].id = us_con[d].id => b = d
        /\ \A d \in UdsSlots : us_con[d].peer # "none" => us_told[<<us_con[d].peer, us_con[d].inst>>] = us_con[d].id
        /\ \A k \in UdsPeers \X UdsInsts :
              us_told[k] # 0 => \E d \in UdsSlots : us_con[d].peer = k[1] /\ us_con[d].inst = k[2]
        /\ us_con \in [UdsSlots -> UdsConnSet]
        /\ us_req \in [id : 0..us_ids, sock : Nat] /\ (us_req # NoRequest => us_req.id # 0)
        /\ \A d \in UdsSlots :
              us_con[d].type = "Server" /\ us_con[d].id = us_req.id => us_con[d].sock = us_req.sock /\ us_con[d].peer # "none"
    BY DEF Agree, UdsIndInv
  <1>2. us_con[c].inst \in UdsInsts /\ us_con[c].id \in 1..us_ids
    BY <1>1 DEF UdsConnSet, SlotOK
  <1>3. k0 \in UdsPeers \X UdsInsts /\ k0[1] = e /\ k0[2] = us_con[c].inst
    BY <1>2
  <1> HIDE DEF k0
  <1>4. told2 \in [UdsPeers \X UdsInsts -> 0..us_ids]
    <2>1. us_con[c].id \in 0..us_ids
      BY <1>1, <1>2
    <2> QED
      BY <1>1, <2>1
  <1>5. \A k \in UdsPeers \X UdsInsts : told2[k] = IF k = k0 THEN us_con[c].id ELSE us_told[k]
    BY <1>1, <1>3
  <1>6. con2 \in [UdsSlots -> UdsConnSet] /\ \A d \in UdsSlots : con2[d] = IF d = c THEN v ELSE us_con[d]
    BY <1>1
  <1> HIDE DEF con2, told2
  <1>7. \A d \in UdsSlots : SlotOK(con2[d], us_ids)
    BY <1>1, <1>6
  <1>8. \A b, d \in UdsSlots : con2[b].inst # 0 /\ con2[d].inst # 0 /\ con2[b].id = con2[d].id => b = d
    BY <1>1, <1>6
  <1>9. ASSUME NEW d \in UdsSlots, con2[d].peer # "none"
        PROVE  told2[<<con2[d].peer, con2[d].inst>>] = con2[d].id
    <2>1. CASE d = c
      <3>1. <<con2[d].peer, con2[d].inst>> = k0
        BY <1>6, <2>1 DEF k0
      <3> QED
        BY <1>3, <1>5, <1>6, <2>1, <3>1
    <2>2. CASE d # c
      <3> DEFINE k == <<us_con[d].peer, us_con[d].inst>>
      <3>1. con2[d] = us_con[d]
        BY <1>6, <2>2
      <3>2. us_con[d].peer \in UdsPeers /\ us_con[d].inst \in UdsInsts
        BY <1>1, <1>9, <3>1 DEF UdsConnSet, SlotOK
      <3>3. k \in UdsPeers \X UdsInsts /\ us_told[k] = us_con[d].id
        BY <1>1, <1>9, <3>1, <3>2
      <3>4. k # k0
        BY DEF k0
      <3> HIDE DEF k
      <3>5. told2[k] = us_con[d].id
        BY <1>5, <3>3, <3>4
      <3> QED
        BY <3>1, <3>5 DEF k
    <2> QED
      BY <2>1, <2>2
  <1>10. ASSUME NEW k \in UdsPeers \X UdsInsts, told2[k] # 0
         PROVE  \E d \in UdsSlots : con2[d].peer = k[1] /\ con2[d].inst = k[2]
    <2>1. CASE k = k0
      BY <1>3, <1>6, <2>1
    <2>2. CASE k # k0
      <3>1. us_told[k] # 0
        BY <1>5, <1>10, <2>2
      <3>2. PICK d \in UdsSlots : us_con[d].peer = k[1] /\ us_con[d].inst = k[2]
        BY <1>1, <3>1
      <3>3. d # c
        BY <3>2, UdsAssumption
      <3> QED
        BY <1>6, <3>2, <3>3
    <2> QED
      BY <2>1, <2>2
  <1>11. \A d \in UdsSlots :
            con2[d].type = "Server" /\ con2[d].id = us_req.id => con2[d].sock = us_req.sock /\ con2[d].peer # "none"
    BY <1>1, <1>6, UdsAssumption
  <1>12. Agree(con2, us_ids, told2, us_req)
    BY <1>1, <1>4, <1>6, <1>7, <1>8, <1>9, <1>10, <1>11 DEF Agree
  <1> QED
    BY <1>12 DEF con2, told2, k0

\* The DM thread gets a request, and is done with it.
LEMMA AgreeRequest ==
    ASSUME NEW con, NEW ids, NEW told, NEW req, Agree(con, ids, told, req),
           NEW c \in UdsSlots, con[c].inst # 0, con[c].peer # "none"
    PROVE  Agree(con, ids, told, [id |-> con[c].id, sock |-> con[c].sock])
  <1> DEFINE req2 == [id |-> con[c].id, sock |-> con[c].sock]
  <1>1. /\ \A d \in UdsSlots : SlotOK(con[d], ids) /\ con[d] \in UdsConnSet
        /\ \A d, e \in UdsSlots : con[d].inst # 0 /\ con[e].inst # 0 /\ con[d].id = con[e].id => d = e
        /\ ids \in Nat
    BY DEF Agree
  <1>2. con[c].id \in 1..ids /\ con[c].sock \in Nat /\ 1..ids \subseteq 0..ids /\ ~(0 \in 1..ids)
    BY <1>1 DEF SlotOK, UdsConnSet
  <1>3. req2 \in [id : 0..ids, sock : Nat] /\ req2.id = con[c].id /\ req2.sock = con[c].sock /\ req2.id # 0
    BY <1>2
  <1> HIDE DEF req2
  <1>4. \A d \in UdsSlots : con[d].type = "Server" => con[d].inst # 0
    BY <1>1 DEF SlotOK
  <1>5. \A d \in UdsSlots : con[d].type = "Server" /\ con[d].id = req2.id => con[d].sock = req2.sock /\ con[d].peer # "none"
    BY <1>1, <1>3, <1>4
  <1>6. Agree(con, ids, told, req2)
    BY <1>3, <1>5 DEF Agree
  <1> QED
    BY <1>6 DEF req2

LEMMA AgreeNoRequest ==
    ASSUME NEW con, NEW ids, NEW told, NEW req, Agree(con, ids, told, req)
    PROVE  Agree(con, ids, told, NoRequest)
  <1>1. \A d \in UdsSlots : SlotOK(con[d], ids) /\ ids \in Nat
    BY DEF Agree
  <1>2. \A d \in UdsSlots : con[d].type = "Server" => con[d].id # 0
    BY <1>1 DEF SlotOK
  <1>3. NoRequest \in [id : 0..ids, sock : Nat] /\ NoRequest.id = 0
    BY <1>1 DEF NoRequest, Agree
  <1> QED
    BY <1>2, <1>3 DEF Agree

-----------------------------------------------------------------------------
(* Changes of Device.UnixDomainSockets.                                    *)

LEMMA ConnAddedStep == ASSUME NEW i \in UdsInsts PROVE UdsIndInv /\ Notify_UdsConnAdded(i) => UdsIndInv'
  <1> SUFFICES ASSUME UdsIndInv, Notify_UdsConnAdded(i) PROVE UdsIndInv'
    OBVIOUS
  <1> DEFINE mode == IF us_service THEN "Connect" ELSE "Listen"
  <1>1. us_dm' = [us_dm EXCEPT ![i] = mode] /\ us_dm \in [UdsInsts -> UdsModes] /\ us_service \in BOOLEAN
    BY DEF Notify_UdsConnAdded, UdsIndInv
  <1>2. us_dm'[i] = mode /\ mode \in {"Listen", "Connect"} /\ us_dm' \in [UdsInsts -> UdsModes]
    BY <1>1 DEF UdsModes
  <1>3. PICK ok \in BOOLEAN :
          LET e == Enabled(i, us_dm'[i], us_srv, us_con, IF ok THEN us_ids + 1 ELSE 0) IN
          /\ us_srv' = [s \in DOMAIN us_srv |->
                           IF e.srv[s].inst = i THEN [e.srv[s] EXCEPT !.next = us_dm'[i]] ELSE e.srv[s]]
          /\ us_con' = e.con
    BY DEF Notify_UdsConnAdded
  <1> DEFINE sock == IF ok THEN us_ids + 1 ELSE 0
             e == Enabled(i, mode, us_srv, us_con, sock)
  <1>4. /\ us_srv' = [s \in DOMAIN us_srv |->
                         IF e.srv[s].inst = i THEN [e.srv[s] EXCEPT !.next = mode] ELSE e.srv[s]]
        /\ us_con' = e.con
    BY <1>2, <1>3
  <1>5. sock \in {0, us_ids + 1} /\ ServersOK(us_srv) /\ Agree(us_con, us_ids, us_told, us_req)
    BY DEF UdsIndInv
  <1> HIDE DEF sock
  <1>6. ServersOK(e.srv) /\ Agree(e.con, IF mode = "Connect" THEN us_ids + 1 ELSE us_ids, us_told, us_req)
    BY <1>1, <1>2, <1>5, EnabledAgrees
  <1>7. UNCHANGED <<us_service, us_i, us_told, us_req>> /\ us_ids' = IF us_service THEN us_ids + 1 ELSE us_ids
    BY DEF Notify_UdsConnAdded
  <1>8. Agree(us_con', us_ids', us_told', us_req')
    BY <1>1, <1>4, <1>6, <1>7
  <1> HIDE DEF e
  <1>9. ServersOK(us_srv')
    <2> HIDE DEF mode
    <2>1. DOMAIN us_srv = 1..UdsServers /\ e.srv \in [1..UdsServers -> UdsServerSet]
      BY <1>5, <1>6 DEF ServersOK
    <2>2. ASSUME NEW s \in 1..UdsServers
          PROVE  us_srv'[s] \in UdsServerSet /\ (us_srv'[s].sched # "Off" => us_srv'[s].next # "none")
      <3>1. us_srv'[s] = IF e.srv[s].inst = i THEN [e.srv[s] EXCEPT !.next = mode] ELSE e.srv[s]
        BY <1>4, <2>1
      <3>2. e.srv[s] \in UdsServerSet /\ (e.srv[s].sched # "Off" => e.srv[s].next # "none")
        BY <1>6, <2>1 DEF ServersOK
      <3>3. [e.srv[s] EXCEPT !.next = mode] \in UdsServerSet /\ [e.srv[s] EXCEPT !.next = mode].next = mode
        BY <1>2, <3>2 DEF UdsServerSet, UdsModes
      <3> QED
        BY <1>2, <3>1, <3>2, <3>3
    <2>3. us_srv' \in [1..UdsServers -> UdsServerSet]
      <3>1. DOMAIN us_srv' = 1..UdsServers /\ us_srv' = [s \in 1..UdsServers |-> us_srv'[s]]
        BY <1>4, <2>1
      <3> QED
        BY <2>2, <3>1
    <2> QED
      BY <2>2, <2>3 DEF ServersOK
  <1>10. Agree(us_con, us_ids, us_told, us_req)'
    BY <1>7, <1>8, AgreePrimed
  <1>11. ServersOK(us_srv)'
    BY <1>9 DEF ServersOK
  <1> QED
    BY <1>2, <1>7, <1>10, <1>11 DEF UdsIndInv

LEMMA ConnDeletedStep == ASSUME NEW i \in UdsInsts PROVE UdsIndInv /\ Notify_UdsConnDeleted(i) => UdsIndInv'
  <1> SUFFICES ASSUME UdsIndInv, Notify_UdsConnDeleted(i) PROVE UdsIndInv'
    OBVIOUS
  <1>1. /\ us_srv' = DisabledServers(i) /\ us_con' = DisabledConns(i)
        /\ us_told' = PostUdsDisconnected(us_told, Instance(i))
        /\ UNCHANGED <<us_service, us_i, us_ids, us_req>>
        /\ us_dm' \in [UdsInsts -> UdsModes]
    BY DEF Notify_UdsConnDeleted, UdsIndInv, UdsModes
  <1>2. ServersOK(us_srv') /\ Agree(us_con', us_ids', us_told', us_req')
    BY <1>1, DisabledAgrees
  <1>3. Agree(us_con, us_ids, us_told, us_req)' /\ ServersOK(us_srv)'
    BY <1>1, <1>2, AgreePrimed DEF ServersOK
  <1> QED
    BY <1>1, <1>3 DEF UdsIndInv

\* The mode and an action that an entry is given.
LEMMA ScheduledEntry ==
    ASSUME NEW u \in UdsConnSet, SlotOK(u, us_ids), NEW a \in UdsActions, NEW m \in UdsModes, a # "Off" => m # "none"
    PROVE  LET v == [u EXCEPT !.sched = a, !.next = m] IN
           v \in UdsConnSet /\ SameLink(u, v) /\ SlotOK(v, us_ids)
  <1> DEFINE v == [u EXCEPT !.sched = a, !.next = m]
  <1>1. v \in UdsConnSet
    BY DEF UdsConnSet
  <1>2. /\ SameLink(u, v) /\ v.wire = u.wire /\ v.queue = u.queue /\ v.tx = u.tx /\ v.sched = a /\ v.next = m
        /\ v.retry = u.retry
    BY DEF UdsConnSet, SameLink
  <1> HIDE DEF v
  <1>3. Accepted(u) => Accepted(v)
    BY <1>1, <1>2, AcceptedSame
  <1>4. SlotOK(v, us_ids)
    BY <1>2, <1>3 DEF SlotOK, SameLink
  <1> QED
    BY <1>1, <1>2, <1>4 DEF v

LEMMA ChangePathStep ==
    ASSUME NEW i \in UdsInsts, NEW mode \in {"Listen", "Connect"}
    PROVE  UdsIndInv /\ NotifyChange_UdsPath(i, mode) => UdsIndInv'
  <1> SUFFICES ASSUME UdsIndInv, NotifyChange_UdsPath(i, mode) PROVE UdsIndInv'
    OBVIOUS
  <1> DEFINE S == {s \in DOMAIN us_srv : us_srv[s].inst = i}
             s1 == FirstOf(S)
             c1 == FirstOf(Instance(i))
  <1>1. /\ us_srv' = IF S = {} THEN us_srv ELSE [us_srv EXCEPT ![s1].sched = "Signalled", ![s1].next = mode]
        /\ us_con' = IF S # {} \/ Instance(i) = {} THEN us_con
                     ELSE [us_con EXCEPT ![c1].sched = "Signalled", ![c1].next = mode]
        /\ UNCHANGED <<us_service, us_i, us_ids, us_told, us_req>>
        /\ us_dm' \in [UdsInsts -> UdsModes]
    BY DEF NotifyChange_UdsPath, UdsIndInv, UdsModes
  <1>2. ServersOK(us_srv) /\ Agree(us_con, us_ids, us_told, us_req) /\ us_con \in [UdsSlots -> UdsConnSet]
    BY DEF UdsIndInv, Agree
  <1>3. ServersOK(us_srv')
    <2>1. CASE S = {}
      BY <1>1, <1>2, <2>1
    <2>2. CASE S # {}
      <3>1. us_srv' = [us_srv EXCEPT ![s1].sched = "Signalled", ![s1].next = mode]
        BY <1>1, <2>2
      <3>2. S \subseteq 1..UdsServers /\ UdsServers \in Nat
        BY <1>2, UdsAssumption DEF ServersOK
      <3> HIDE DEF S
      <3>3. s1 \in 1..UdsServers
        BY <2>2, <3>2, FirstOfIn
      <3> HIDE DEF s1
      <3> DEFINE r == [us_srv[s1] EXCEPT !.sched = "Signalled", !.next = mode]
      <3>4. us_srv[s1] \in UdsServerSet /\ us_srv \in [1..UdsServers -> UdsServerSet]
        BY <1>2, <3>3 DEF ServersOK
      <3>5. us_srv' = [us_srv EXCEPT ![s1] = r]
        BY <3>1, <3>3, <3>4 DEF UdsServerSet
      <3>6. r \in UdsServerSet /\ r.next = mode
        BY <3>4 DEF UdsServerSet, UdsModes, UdsActions
      <3> HIDE DEF r
      <3> QED
        BY <1>2, <3>4, <3>5, <3>6 DEF ServersOK
    <2> QED
      BY <2>1, <2>2
  <1>4. Agree(us_con', us_ids, us_told, us_req)
    <2>1. CASE S # {} \/ Instance(i) = {}
      BY <1>1, <1>2, <2>1
    <2>2. CASE ~(S # {} \/ Instance(i) = {})
      <3>1. us_con' = [us_con EXCEPT ![c1].sched = "Signalled", ![c1].next = mode]
        BY <1>1, <2>2
      <3>2. c1 \in UdsSlots
        <4>1. Instance(i) \subseteq 1..UdsConns /\ UdsConns \in Nat /\ Instance(i) # {}
          BY <2>2, UdsAssumption DEF Instance, UdsSlots
        <4> QED
          BY <4>1, FirstOfIn DEF UdsSlots
      <3> HIDE DEF c1, S
      <3> DEFINE v == [us_con[c1] EXCEPT !.sched = "Signalled", !.next = mode]
      <3>3. us_con[c1] \in UdsConnSet /\ SlotOK(us_con[c1], us_ids)
        BY <3>2, EntryTyped
      <3>4. us_con' = [us_con EXCEPT ![c1] = v]
        BY <1>2, <3>1, <3>2, <3>3 DEF UdsConnSet
      <3>5. "Signalled" \in UdsActions /\ mode \in UdsModes /\ mode # "none"
        BY DEF UdsActions, UdsModes
      <3>6. v \in UdsConnSet /\ SameLink(us_con[c1], v) /\ SlotOK(v, us_ids)
        BY <3>3, <3>5, ScheduledEntry
      <3> HIDE DEF v
      <3> QED
        BY <3>2, <3>4, <3>6, EntryAgrees
    <2> QED
      BY <2>1, <2>2
  <1> HIDE DEF S, s1, c1
  <1>5. Agree(us_con, us_ids, us_told, us_req)' /\ ServersOK(us_srv)'
    BY <1>1, <1>3, <1>4, AgreePrimed DEF ServersOK
  <1> QED
    BY <1>1, <1>5 DEF UdsIndInv

\* Scheduled actions become due.
LEMMA ActivateStep == UdsIndInv /\ UDS_ActivateScheduledActions => UdsIndInv'
  <1> SUFFICES ASSUME UdsIndInv, UDS_ActivateScheduledActions PROVE UdsIndInv'
    OBVIOUS
  <1> DEFINE A(r) == IF r.inst # 0 /\ r.sched = "Signalled" THEN [r EXCEPT !.sched = "Activated"] ELSE r
  <1>1. /\ us_srv' = [s \in DOMAIN us_srv |-> A(us_srv[s])]
        /\ us_con' = [c \in UdsSlots |-> A(us_con[c])]
        /\ UNCHANGED <<us_dm, us_service, us_i, us_ids, us_told, us_req>>
    BY DEF UDS_ActivateScheduledActions
  <1>2. ServersOK(us_srv) /\ Agree(us_con, us_ids, us_told, us_req) /\ us_ids \in Nat
    BY DEF UdsIndInv, Agree
  <1>3. ServersOK(us_srv')
    <2>1. ASSUME NEW s \in 1..UdsServers
          PROVE  A(us_srv[s]) \in UdsServerSet /\ (A(us_srv[s]).sched # "Off" => A(us_srv[s]).next # "none")
      <3>1. us_srv[s] \in UdsServerSet /\ (us_srv[s].sched # "Off" => us_srv[s].next # "none")
        BY <1>2 DEF ServersOK
      <3>2. [us_srv[s] EXCEPT !.sched = "Activated"] \in UdsServerSet
        BY <3>1 DEF UdsServerSet, UdsActions
      <3>3. [us_srv[s] EXCEPT !.sched = "Activated"].next = us_srv[s].next
        BY <3>1 DEF UdsServerSet
      <3> QED
        BY <3>1, <3>2, <3>3
    <2>2. us_srv' = [s \in 1..UdsServers |-> A(us_srv[s])]
      BY <1>1, <1>2 DEF ServersOK
    <2> HIDE DEF A
    <2> QED
      BY <2>1, <2>2 DEF ServersOK
  <1>4. ASSUME NEW c \in UdsSlots
        PROVE  LET v == A(us_con[c]) IN
               v \in UdsConnSet /\ SameLink(us_con[c], v) /\ SlotOK(v, us_ids)
    <2>1. us_con[c] \in UdsConnSet /\ SlotOK(us_con[c], us_ids)
          /\ (us_con[c].sched # "Off" => us_con[c].next # "none")
      BY EntryTyped
    <2>2. CASE us_con[c].inst # 0 /\ us_con[c].sched = "Signalled"
      <3> DEFINE m == us_con[c].next
                 v == [us_con[c] EXCEPT !.sched = "Activated", !.next = m]
      <3>1. m \in UdsModes /\ m # "none" /\ "Activated" \in UdsActions
        BY <2>1, <2>2 DEF UdsConnSet, UdsActions
      <3>2. A(us_con[c]) = v
        BY <2>1, <2>2 DEF UdsConnSet
      <3> HIDE DEF m, A
      <3>3. v \in UdsConnSet /\ SameLink(us_con[c], v) /\ SlotOK(v, us_ids)
        BY <2>1, <3>1, ScheduledEntry
      <3> QED
        BY <3>2, <3>3
    <2>3. CASE ~(us_con[c].inst # 0 /\ us_con[c].sched = "Signalled")
      <3>1. A(us_con[c]) = us_con[c]
        BY <2>3
      <3> HIDE DEF A
      <3> QED
        BY <2>1, <3>1 DEF SameLink
    <2> QED
      BY <2>2, <2>3
  <1> HIDE DEF A
  <1>5. us_con' \in [UdsSlots -> UdsConnSet] /\ \A c \in UdsSlots : us_con'[c] = A(us_con[c])
    BY <1>1, <1>4
  <1>6. \A c \in UdsSlots :
           /\ SlotOK(us_con'[c], us_ids) /\ us_con'[c].inst = us_con[c].inst /\ us_con'[c].id = us_con[c].id
           /\ us_con'[c].peer = us_con[c].peer
           /\ us_con'[c].type = "Server" => us_con[c].type = "Server" /\ us_con'[c].sock = us_con[c].sock
    BY <1>4, <1>5 DEF SameLink
  <1>7. Agree(us_con', us_ids, us_told, us_req)
    BY <1>2, <1>5, <1>6, AgreeStays
  <1>8. Agree(us_con, us_ids, us_told, us_req)' /\ ServersOK(us_srv)'
    BY <1>1, <1>3, <1>7, AgreePrimed DEF ServersOK
  <1> QED
    BY <1>1, <1>8 DEF UdsIndInv

\* A record is queued on the connection of the request.
LEMMA QueueMessageStep ==
    ASSUME NEW kind \in {"message", "disconnect"}
    PROVE  UdsIndInv /\ UDS_QueueBinaryMessage(kind) => UdsIndInv'
  <1> SUFFICES ASSUME UdsIndInv, UDS_QueueBinaryMessage(kind) PROVE UdsIndInv'
    OBVIOUS
  <1> DEFINE C == FindUdsConnectionByConnId(us_req.id)
             c == FirstOf(C)
             f == UdsFrame(kind, us_req.sock)
  <1>1. /\ us_con' = IF C = {} THEN us_con ELSE [us_con EXCEPT ![c].queue = Append(@, f)]
        /\ us_req' = NoRequest /\ UNCHANGED UdsRest /\ UNCHANGED <<us_ids, us_told>>
    BY DEF UDS_QueueBinaryMessage, UdsRest
  <1>2. Agree(us_con', us_ids, us_told, us_req)
    <2>1. CASE C = {}
      BY <1>1, <2>1 DEF UdsIndInv
    <2>2. CASE C # {}
      <3>1. C \subseteq 1..UdsConns /\ UdsConns \in Nat
        BY UdsAssumption DEF FindUdsConnectionByConnId, UdsSlots
      <3>2. us_con' = [us_con EXCEPT ![c].queue = Append(@, f)]
        BY <1>1, <2>2
      <3> HIDE DEF C
      <3>3. c \in C
        BY <2>2, <3>1, FirstOfIn
      <3>4. c \in UdsSlots /\ us_con[c].id = us_req.id
        BY <3>3 DEF C, FindUdsConnectionByConnId
      <3> HIDE DEF c
      <3>5. us_con[c] \in UdsConnSet /\ SlotOK(us_con[c], us_ids) /\ us_con \in [UdsSlots -> UdsConnSet]
        BY <3>4, EntryTyped
      <3>6. /\ us_req.sock \in Nat
            /\ us_con[c].type = "Server" => us_con[c].sock = us_req.sock /\ us_con[c].peer # "none"
        BY <3>4 DEF UdsIndInv, Agree
      <3>7. f \in UdsFrames /\ f.for = us_req.sock
        BY <3>6 DEF UdsFrame, UdsFrames, UdsKinds
      <3> HIDE DEF f
      <3> DEFINE u == us_con[c]
                 v == [u EXCEPT !.queue = Append(@, f)]
      <3>8. us_con' = [us_con EXCEPT ![c] = v]
        BY <3>2, <3>4, <3>5 DEF UdsConnSet
      <3>9. u.type = "Server" => Accepted(v)
        BY <3>5, <3>6, <3>7, AcceptedAppend DEF SlotOK
      <3>10. v \in UdsConnSet
        <4>1. u \in UdsConnSet /\ u.queue \in Seq(UdsFrames)
          BY <3>5 DEF UdsConnSet
        <4>2. Append(u.queue, f) \in Seq(UdsFrames)
          BY <3>7, <4>1
        <4> HIDE DEF u
        <4> QED
          BY <4>1, <4>2 DEF UdsConnSet
      <3>11. /\ SameLink(u, v) /\ v.retry = u.retry /\ v.sched = u.sched /\ v.next = u.next
        BY <3>5 DEF UdsConnSet, SameLink
      <3>12. SlotOK(u, us_ids)
        BY <3>5
      <3> HIDE DEF u, v
      <3>13. SlotOK(v, us_ids)
        BY <3>9, <3>11, <3>12 DEF SlotOK, SameLink
      <3>14. SameLink(us_con[c], v)
        BY <3>11 DEF u
      <3> QED
        BY <3>4, <3>8, <3>10, <3>13, <3>14, EntryAgrees
    <2> QED
      BY <2>1, <2>2
  <1> HIDE DEF C, c, f
  <1>3. Agree(us_con', us_ids', us_told', us_req')
    BY <1>1, <1>2, AgreeNoRequest
  <1> QED
    BY <1>1, <1>3, RestStep

-----------------------------------------------------------------------------
(* The pass over the servers.                                              *)

LEMMA BeginPassStep == UdsIndInv /\ BeginPass => UdsIndInv'
  <1> SUFFICES ASSUME UdsIndInv, BeginPass PROVE UdsIndInv'
    OBVIOUS
  <1>1. us_i' = 1 /\ UNCHANGED <<us_srv, us_con, us_dm, us_service, us_ids, us_told, us_req>>
    BY DEF BeginPass
  <1>2. us_i' \in 0..UdsServers
    BY <1>1, UdsAssumption
  <1>3. Agree(us_con', us_ids', us_told', us_req')
    BY <1>1 DEF UdsIndInv
  <1>4. Agree(us_con, us_ids, us_told, us_req)'
    BY <1>1, <1>3, AgreePrimed
  <1> QED
    BY <1>1, <1>2, <1>4 DEF UdsIndInv, ServersOK

LEMMA UpdateServerStep == UdsIndInv /\ UpdateServer => UdsIndInv'
  <1> SUFFICES ASSUME UdsIndInv, UpdateServer PROVE UdsIndInv'
    OBVIOUS
  <1> DEFINE s == us_srv[us_i]
             due == s.inst # 0 /\ s.sched = "Activated"
             b == Busy(s.inst)
             i == IF ~due THEN us_i ELSE IF b # {} THEN FirstOf(b) ELSE UdsConns + 1
  <1>1. /\ us_i # 0 /\ us_i' = IF i + 1 > UdsServers THEN 0 ELSE i + 1
        /\ IF due /\ b = {} THEN UdsReconnected(s.inst, s.next) ELSE UNCHANGED <<us_srv, us_con, us_told, us_ids>>
        /\ UNCHANGED <<us_dm, us_service, us_req>>
    BY DEF UpdateServer
  <1>2. us_i \in 0..UdsServers /\ ServersOK(us_srv) /\ UdsServers \in Nat /\ UdsConns \in Nat
    BY UdsAssumption DEF UdsIndInv
  <1>3. s \in UdsServerSet /\ (s.sched # "Off" => s.next # "none")
    BY <1>1, <1>2 DEF ServersOK
  <1>4. i \in Nat
    <2>1. b # {} => FirstOf(b) \in 1..UdsConns
      <3>1. b \subseteq 1..UdsConns
        BY DEF Busy, Instance, UdsSlots
      <3> HIDE DEF b
      <3> QED
        BY <1>2, <3>1, FirstOfIn
    <2> HIDE DEF b, due
    <2> QED
      BY <1>2, <2>1
  <1>5. us_i' \in 0..UdsServers
    <2> HIDE DEF i
    <2> QED
      BY <1>1, <1>2, <1>4
  <1>6. ServersOK(us_srv') /\ Agree(us_con', us_ids', us_told', us_req')
    <2>1. CASE due /\ b = {}
      <3>1. s.inst \in UdsInsts /\ s.next \in {"Listen", "Connect"}
        BY <1>3, <2>1 DEF UdsServerSet, UdsModes
      <3>2. UdsReconnected(s.inst, s.next)
        BY <1>1, <2>1
      <3> HIDE DEF s
      <3> QED
        BY <1>1, <3>1, <3>2, ReconnectedAgrees
    <2>2. CASE ~(due /\ b = {})
      <3>1. UNCHANGED <<us_srv, us_con, us_told, us_ids, us_req>>
        BY <1>1, <2>2
      <3> QED
        BY <3>1 DEF UdsIndInv
    <2> QED
      BY <2>1, <2>2
  <1>7. Agree(us_con, us_ids, us_told, us_req)' /\ ServersOK(us_srv)'
    BY <1>1, <1>6, AgreePrimed DEF ServersOK
  <1> QED
    BY <1>1, <1>5, <1>7 DEF UdsIndInv

LEMMA UpdateClientStep == ASSUME NEW c \in UdsSlots PROVE UdsIndInv /\ UpdateClient(c) => UdsIndInv'
  <1> SUFFICES ASSUME UdsIndInv, UpdateClient(c) PROVE UdsIndInv'
    OBVIOUS
  <1>1. /\ us_con[c].inst # 0 /\ us_con[c].sched = "Activated" /\ UdsReconnected(us_con[c].inst, us_con[c].next)
        /\ UNCHANGED <<us_dm, us_service, us_i, us_req>>
    BY DEF UpdateClient
  <1>2. us_con[c].inst \in UdsInsts /\ us_con[c].next \in {"Listen", "Connect"}
    BY <1>1, EntryTyped DEF UdsConnSet, UdsModes
  <1>3. ServersOK(us_srv') /\ Agree(us_con', us_ids', us_told', us_req')
    BY <1>1, <1>2, ReconnectedAgrees
  <1>4. Agree(us_con, us_ids, us_told, us_req)' /\ ServersOK(us_srv)'
    BY <1>1, <1>3, AgreePrimed DEF ServersOK
  <1> QED
    BY <1>1, <1>4 DEF UdsIndInv

-----------------------------------------------------------------------------
(* What the sockets bring.                                                 *)

\* HandleUdsListeningSocketConnection: the connection gets an entry, or is closed again.
LEMMA AcceptStep ==
    ASSUME NEW s \in 1..UdsServers
    PROVE  UdsIndInv /\ HandleUdsListeningSocketConnection(s) => UdsIndInv'
  <1> SUFFICES ASSUME UdsIndInv, HandleUdsListeningSocketConnection(s) PROVE UdsIndInv'
    OBVIOUS
  <1> DEFINE c == FirstOf(FreeUdsSlots)
             i == us_srv[s].inst
             h == us_ids + 1
             v == [NoConnection EXCEPT !.inst = i, !.type = "Server", !.id = h, !.sock = h]
  <1>1. /\ us_srv[s].inst # 0 /\ us_ids' = h
        /\ us_con' = IF FreeUdsSlots = {} THEN us_con ELSE [us_con EXCEPT ![c] = v]
        /\ UNCHANGED UdsRest /\ UNCHANGED <<us_told, us_req>>
    BY DEF HandleUdsListeningSocketConnection, CalcNextUdsConnectionId, UdsRest
  <1>2. /\ Agree(us_con, us_ids, us_told, us_req) /\ us_ids \in Nat /\ i \in UdsInsts
        /\ us_con \in [UdsSlots -> UdsConnSet] /\ \A d \in UdsSlots : SlotOK(us_con[d], us_ids)
    BY <1>1 DEF UdsIndInv, ServersOK, UdsServerSet, Agree
  <1>3. h \in Nat /\ us_ids <= h /\ h \in 1..h /\ 1..us_ids \subseteq 1..h
    BY <1>2
  <1>4. Agree(us_con', us_ids', us_told', us_req')
    <2>1. CASE FreeUdsSlots = {}
      <3> HIDE DEF h
      <3>1. ASSUME NEW d \in UdsSlots PROVE SlotOK(us_con[d], h)
        BY <1>2, <1>3 DEF SlotOK, UdsConnSet
      <3>2. Agree(us_con, h, us_told, us_req)
        BY <1>2, <1>3, <3>1, AgreeStays
      <3> QED
        BY <1>1, <2>1, <3>2
    <2>2. CASE FreeUdsSlots # {}
      <3>1. FreeUdsSlots \subseteq 1..UdsConns /\ UdsConns \in Nat
        BY UdsAssumption DEF FreeUdsSlots, UdsSlots
      <3>2. c \in FreeUdsSlots
        BY <2>2, <3>1, FirstOfIn
      <3>3. c \in UdsSlots /\ us_con[c].inst = 0
        BY <3>2 DEF FreeUdsSlots
      <3> HIDE DEF c, h, i
      <3>4. v \in UdsConnSet
        BY <1>2, <1>3, NoConnectionTyped DEF UdsConnSet
      <3>5. /\ v.inst = i /\ v.type = "Server" /\ v.id = h /\ v.sock = h /\ v.peer = "none" /\ v.queue = <<>>
            /\ v.tx = NoUdsFrame /\ v.retry = FALSE /\ v.sched = "Off" /\ v.wire = <<>>
        BY NoConnectionTyped DEF UdsConnSet, NoConnection
      <3>6. NoUdsFrame.kind = "none"
        BY DEF NoUdsFrame, UdsFrame
      <3>7. i # 0
        BY <1>2 DEF UdsInsts
      <3> HIDE DEF v
      <3>8. Accepted(v)
        BY <3>5, <3>6 DEF Accepted
      <3>9. SlotOK(v, h)
        BY <1>3, <3>5, <3>7, <3>8 DEF SlotOK
      <3>10. Agree([us_con EXCEPT ![c] = v], h, us_told, us_req)
        BY <1>2, <3>3, <3>4, <3>5, <3>9, AgreeNew DEF h
      <3> QED
        BY <1>1, <2>2, <3>10
    <2> QED
      BY <2>1, <2>2
  <1> QED
    BY <1>1, <1>4, RestStep

\* An entry in which only the place in a frame and its flags change.
LEMMA RxEntry ==
    ASSUME NEW u \in UdsConnSet, SlotOK(u, us_ids), NEW r \in {"start", "header", "payload"}
    PROVE  LET v == [u EXCEPT !.rx = r] IN
           v \in UdsConnSet /\ SameLink(u, v) /\ SlotOK(v, us_ids)
  <1> DEFINE v == [u EXCEPT !.rx = r]
  <1>1. v \in UdsConnSet
    BY DEF UdsConnSet
  <1>2. /\ SameLink(u, v) /\ v.wire = u.wire /\ v.queue = u.queue /\ v.tx = u.tx /\ v.sched = u.sched /\ v.next = u.next
        /\ v.retry = u.retry
    BY DEF UdsConnSet, SameLink
  <1> HIDE DEF v
  <1>3. Accepted(u) => Accepted(v)
    BY <1>1, <1>2, AcceptedSame
  <1>4. SlotOK(v, us_ids)
    BY <1>2, <1>3 DEF SlotOK, SameLink
  <1> QED
    BY <1>1, <1>2, <1>4 DEF v

LEMMA ReadPartStep == ASSUME NEW c \in UdsSlots PROVE UdsIndInv /\ ReadPart(c) => UdsIndInv'
  <1> SUFFICES ASSUME UdsIndInv, ReadPart(c) PROVE UdsIndInv'
    OBVIOUS
  <1>1. PICK r \in {"header", "payload"} : us_con' = [us_con EXCEPT ![c].rx = r]
    BY DEF ReadPart
  <1>2. UNCHANGED <<UdsRest, us_ids, us_told, us_req>>
    BY DEF ReadPart, UdsRest
  <1> DEFINE v == [us_con[c] EXCEPT !.rx = r]
  <1>3. us_con[c] \in UdsConnSet /\ SlotOK(us_con[c], us_ids) /\ us_con \in [UdsSlots -> UdsConnSet]
    BY EntryTyped
  <1>4. us_con' = [us_con EXCEPT ![c] = v]
    BY <1>1, <1>3 DEF UdsConnSet
  <1>5. v \in UdsConnSet /\ SameLink(us_con[c], v) /\ SlotOK(v, us_ids)
    BY <1>3, RxEntry
  <1> HIDE DEF v
  <1> QED
    BY <1>2, <1>4, <1>5, EntryStep

LEMMA ReadFailsStep ==
    ASSUME NEW c \in UdsSlots, NEW frame \in BOOLEAN PROVE UdsIndInv /\ ReadFails(c, frame) => UdsIndInv'
  <1> SUFFICES ASSUME UdsIndInv, ReadFails(c, frame) PROVE UdsIndInv'
    OBVIOUS
  <1> DEFINE k == CloseUdsConnection(us_con[c], TRUE)
             r == IF frame THEN "start" ELSE k.rx
             v == [k EXCEPT !.rx = r]
  <1>1. /\ us_con' = [us_con EXCEPT ![c] = v] /\ us_told' = PostUdsDisconnected(us_told, {c})
        /\ UNCHANGED <<UdsRest, us_ids, us_req>>
    BY DEF ReadFails, UdsRest
  <1>2. Closed(us_con[c], k)
    BY EntryTyped, CloseUds
  <1> HIDE DEF k
  <1>3. r \in {"start", "header", "payload"}
    BY <1>2 DEF Closed, UdsConnSet
  <1> HIDE DEF r
  <1>4. Closed(us_con[c], v)
    BY <1>2, <1>3, ClosedRx
  <1> HIDE DEF v
  <1> QED
    BY <1>1, <1>4, ClosesStep

LEMMA ReadMisalignedStep == ASSUME NEW c \in UdsSlots PROVE UdsIndInv /\ ReadMisaligned(c) => UdsIndInv'
  BY ClosesEntryStep DEF ReadMisaligned, UdsRest

LEMMA HandshakeTimeoutStep == ASSUME NEW c \in UdsSlots PROVE UdsIndInv /\ HandshakeTimeout(c) => UdsIndInv'
  <1> SUFFICES ASSUME UdsIndInv, HandshakeTimeout(c) PROVE UdsIndInv'
    OBVIOUS
  <1> DEFINE k == CloseUdsConnection(us_con[c], TRUE)
             v == [k EXCEPT !.handshake = FALSE]
  <1>1. /\ us_con' = [us_con EXCEPT ![c] = v] /\ us_told' = PostUdsDisconnected(us_told, {c})
        /\ UNCHANGED <<UdsRest, us_ids, us_req>>
    BY DEF HandshakeTimeout, UdsRest
  <1>2. Closed(us_con[c], k)
    BY EntryTyped, CloseUds
  <1> HIDE DEF k
  <1>3. Closed(us_con[c], v)
    BY <1>2, ClosedHandshake
  <1> HIDE DEF v
  <1> QED
    BY <1>1, <1>3, ClosesStep

\* A record: it becomes the DM thread's request, when the endpoint is known.
LEMMA ReadRecordStep == ASSUME NEW c \in UdsSlots PROVE UdsIndInv /\ ReadRecord(c) => UdsIndInv'
  <1> SUFFICES ASSUME UdsIndInv, ReadRecord(c) PROVE UdsIndInv'
    OBVIOUS
  <1> DEFINE u == us_con[c]
             v == [u EXCEPT !.rx = "start"]
  <1>1. /\ us_con' = [us_con EXCEPT ![c].rx = "start"] /\ u.sock # 0
        /\ us_req' = IF u.peer = "none" THEN us_req ELSE [id |-> u.id, sock |-> u.sock]
        /\ UNCHANGED UdsRest /\ UNCHANGED <<us_ids, us_told>>
    BY DEF ReadRecord, UdsRest
  <1>2. u \in UdsConnSet /\ SlotOK(u, us_ids) /\ us_con \in [UdsSlots -> UdsConnSet]
    BY EntryTyped
  <1>3. us_con' = [us_con EXCEPT ![c] = v]
    BY <1>1, <1>2 DEF UdsConnSet
  <1>4. v \in UdsConnSet /\ SameLink(u, v) /\ SlotOK(v, us_ids)
    BY <1>2, RxEntry
  <1> HIDE DEF v
  <1>5. Agree(us_con', us_ids, us_told, us_req)
    BY <1>3, <1>4, EntryAgrees
  <1>6. us_con'[c] = v /\ v.inst # 0 /\ v.peer = u.peer /\ v.id = u.id /\ v.sock = u.sock
    BY <1>1, <1>2, <1>3, <1>4 DEF SlotOK, SameLink
  <1>7. Agree(us_con', us_ids', us_told', us_req')
    <2>1. CASE u.peer = "none"
      BY <1>1, <1>5, <2>1
    <2>2. CASE u.peer # "none"
      <3>1. us_con'[c].inst # 0 /\ us_con'[c].peer # "none"
        BY <1>6, <2>2
      <3>2. Agree(us_con', us_ids, us_told, [id |-> us_con'[c].id, sock |-> us_con'[c].sock])
        BY <1>5, <3>1, AgreeRequest
      <3> QED
        BY <1>1, <1>6, <2>2, <3>2
    <2> QED
      BY <2>1, <2>2
  <1> QED
    BY <1>1, <1>7, RestStep

\* An entry keeps its link and its schedule, and what an accepted one owes its endpoint.
LEMMA EntryKept ==
    ASSUME NEW ids, NEW u \in UdsConnSet, SlotOK(u, ids), NEW v \in UdsConnSet, SameLink(u, v),
           v.retry = u.retry, v.sched = u.sched, v.next = u.next, u.type = "Server" => Accepted(v)
    PROVE  SlotOK(v, ids)
  <1> HIDE DEF Accepted
  <1> QED
    BY DEF SlotOK, SameLink

LEMMA ErrorEntry ==
    ASSUME NEW u \in UdsConnSet, u.peer = "none", SlotOK(u, us_ids)
    PROVE  LET v == SendUdsErrorFrame(u) IN
           v \in UdsConnSet /\ SameLink(u, v) /\ SlotOK(v, us_ids)
  <1> DEFINE f == UdsFrame("error", u.sock)
             p == <<f>> \o u.queue
             v == SendUdsErrorFrame(u)
  <1>1. u.queue \in Seq(UdsFrames) /\ f \in UdsFrames
    BY DEF UdsConnSet, UdsFrame, UdsFrames, UdsKinds
  <1>2. v = [u EXCEPT !.queue = p, !.rx = "start"]
    BY DEF SendUdsErrorFrame
  <1>3. u.type = "Server" => Accepted(v)
    BY AcceptedError DEF SlotOK
  <1> HIDE DEF f, v
  <1>4. p \in Seq(UdsFrames)
    BY <1>1, InFront
  <1> HIDE DEF p
  <1>5. v \in UdsConnSet
    BY <1>2, <1>4 DEF UdsConnSet
  <1>6. SameLink(u, v) /\ v.retry = u.retry /\ v.sched = u.sched /\ v.next = u.next
    BY <1>2 DEF UdsConnSet, SameLink
  <1>7. SlotOK(v, us_ids)
    BY <1>3, <1>5, <1>6, EntryKept
  <1> QED
    BY <1>5, <1>6, <1>7 DEF v

LEMMA HandshakeEntry ==
    ASSUME NEW u \in UdsConnSet, u.inst # 0, u.peer = "none", ~u.retry, SlotOK(u, us_ids), NEW e \in UdsPeers
    PROVE  LET v == HandshakeDone(u, e) IN
           /\ v \in UdsConnSet /\ v.inst = u.inst /\ v.type = u.type /\ v.id = u.id /\ v.sock = u.sock /\ v.peer = e
           /\ SlotOK(v, us_ids)
  <1> DEFINE S == [kind : {"handshake", "message", "error"}, for : Nat]
             f == UdsFrame("connect", u.sock)
             h == UdsFrame("handshake", u.sock)
             o == Only(u.queue, S)
             d == <<f>> \o o
             r == IF NeedsConnectRecord(u) THEN d ELSE u.queue
             k == <<h>> \o r
             p == IF u.type = "Server" THEN k ELSE r
             v == HandshakeDone(u, e)
  <1>1. u.queue \in Seq(UdsFrames) /\ f \in UdsFrames /\ h \in UdsFrames
    BY DEF UdsConnSet, UdsFrame, UdsFrames, UdsKinds
  <1>2. v = [u EXCEPT !.peer = e, !.handshake = FALSE, !.rx = "start", !.queue = p]
    BY DEF HandshakeDone, QueueUspConnectRecord_Uds, UdsConnSet
  <1>3. u.type = "Server" => Accepted(v)
    BY AcceptedHandshake DEF SlotOK
  <1> HIDE DEF f, h, S, v
  <1>4. o \in Seq(UdsFrames)
    BY <1>1, OnlyAt
  <1> HIDE DEF o
  <1>5. d \in Seq(UdsFrames)
    BY <1>1, <1>4, InFront
  <1> HIDE DEF d
  <1>6. r \in Seq(UdsFrames)
    BY <1>1, <1>5
  <1> HIDE DEF r
  <1>7. k \in Seq(UdsFrames)
    BY <1>1, <1>6, InFront
  <1> HIDE DEF k
  <1>8. p \in Seq(UdsFrames)
    BY <1>6, <1>7
  <1> HIDE DEF p
  <1>9. v \in UdsConnSet
    BY <1>2, <1>8 DEF UdsConnSet
  <1>10. /\ v.inst = u.inst /\ v.type = u.type /\ v.id = u.id /\ v.sock = u.sock /\ v.peer = e
         /\ v.retry = u.retry /\ v.sched = u.sched /\ v.next = u.next
    BY <1>2 DEF UdsConnSet
  <1> HIDE DEF Accepted
  <1>11. SlotOK(v, us_ids)
    BY <1>3, <1>10 DEF SlotOK
  <1> QED
    BY <1>9, <1>10, <1>11 DEF v

\* A handshake: ignored when there was one, refused with an error frame, or accepted and told to the DM thread.
LEMMA ReadHandshakeStep ==
    ASSUME NEW c \in UdsSlots, NEW e \in UdsPeers, NEW accepted \in BOOLEAN
    PROVE  UdsIndInv /\ ReadHandshake(c, e, accepted) => UdsIndInv'
  <1> SUFFICES ASSUME UdsIndInv, ReadHandshake(c, e, accepted) PROVE UdsIndInv'
    OBVIOUS
  <1> DEFINE u == us_con[c]
  <1>1. /\ u.sock # 0 /\ UNCHANGED UdsRest /\ UNCHANGED <<us_ids, us_req>>
        /\ IF u.peer # "none"
           THEN us_con' = [us_con EXCEPT ![c].rx = "start"] /\ UNCHANGED us_told
           ELSE IF ~accepted \/ ~ValidateUdsEndpointID(u, e)
           THEN us_con' = [us_con EXCEPT ![c] = SendUdsErrorFrame(u)] /\ UNCHANGED us_told
           ELSE /\ us_con' = [us_con EXCEPT ![c] = HandshakeDone(u, e)]
                /\ us_told' = [us_told EXCEPT ![<<e, u.inst>>] = u.id]
    BY DEF ReadHandshake, UdsRest
  <1>2. u \in UdsConnSet /\ SlotOK(u, us_ids) /\ us_con \in [UdsSlots -> UdsConnSet]
    BY EntryTyped
  <1>3. u.inst # 0 /\ ~u.retry
    BY <1>1, <1>2 DEF SlotOK
  <1>4. CASE u.peer # "none"
    <2> DEFINE v == [u EXCEPT !.rx = "start"]
    <2>1. us_con' = [us_con EXCEPT ![c] = v]
      BY <1>1, <1>2, <1>4 DEF UdsConnSet
    <2>2. v \in UdsConnSet /\ SameLink(u, v) /\ SlotOK(v, us_ids)
      BY <1>2, RxEntry
    <2> HIDE DEF v
    <2> QED
      BY <1>1, <1>4, <2>1, <2>2, EntryStep
  <1>5. CASE u.peer = "none" /\ (~accepted \/ ~ValidateUdsEndpointID(u, e))
    <2> DEFINE v == SendUdsErrorFrame(u)
    <2>1. us_con' = [us_con EXCEPT ![c] = v]
      BY <1>1, <1>5
    <2>2. v \in UdsConnSet /\ SameLink(u, v) /\ SlotOK(v, us_ids)
      BY <1>2, <1>5, ErrorEntry
    <2> HIDE DEF v
    <2> QED
      BY <1>1, <1>5, <2>1, <2>2, EntryStep
  <1>6. CASE u.peer = "none" /\ ~(~accepted \/ ~ValidateUdsEndpointID(u, e))
    <2> DEFINE v == HandshakeDone(u, e)
    <2>1. us_con' = [us_con EXCEPT ![c] = v] /\ us_told' = [us_told EXCEPT ![<<e, u.inst>>] = u.id]
      BY <1>1, <1>6
    <2>2. ~\E d \in UdsSlots : us_con[d].inst = us_con[c].inst /\ us_con[d].peer = e
      BY <1>3, <1>6 DEF ValidateUdsEndpointID
    <2>3. /\ v \in UdsConnSet /\ v.inst = u.inst /\ v.type = u.type /\ v.id = u.id /\ v.sock = u.sock /\ v.peer = e
          /\ SlotOK(v, us_ids)
      BY <1>2, <1>3, <1>6, HandshakeEntry
    <2> HIDE DEF v
    <2>4. Agree([us_con EXCEPT ![c] = v], us_ids, [us_told EXCEPT ![<<e, us_con[c].inst>>] = us_con[c].id], us_req)
      BY <1>3, <1>6, <2>2, <2>3, AgreeHandshake
    <2>5. Agree(us_con', us_ids', us_told', us_req')
      BY <1>1, <2>1, <2>4
    <2> QED
      BY <1>1, <2>5, RestStep
  <1> QED
    BY <1>4, <1>5, <1>6

-----------------------------------------------------------------------------
(* What is written to the sockets.                                         *)

\* PopUdsSendItem
LEMMA PopEntry ==
    ASSUME NEW w \in UdsConnSet, SlotOK(w, us_ids), NEW expires \in BOOLEAN
    PROVE  LET v == PopUdsSendItem(w, expires) IN
           v \in UdsConnSet /\ SameLink(w, v) /\ SlotOK(v, us_ids)
  <1> DEFINE q == IF expires THEN Only(w.queue, Lasting) ELSE w.queue
             o == [w EXCEPT !.queue = q]
             v == PopUdsSendItem(w, expires)
  <1>1. v = IF w.tx # NoUdsFrame THEN w
            ELSE IF q = <<>> THEN o ELSE [w EXCEPT !.queue = Tail(q), !.tx = Head(q)]
    BY DEF PopUdsSendItem, Lasting
  <1>2. CASE w.tx # NoUdsFrame
    BY <1>1, <1>2 DEF SameLink
  <1>3. CASE w.tx = NoUdsFrame
    <2>1. w.queue \in Seq(UdsFrames)
      BY DEF UdsConnSet
    <2>2. q \in Seq(UdsFrames)
      BY <2>1, OnlyAt
    <2>3. w.type = "Server" => Accepted(o)
      <3> HAVE w.type = "Server"
      <3>1. Accepted(w)
        BY DEF SlotOK
      <3>2. CASE expires
        BY <1>3, <3>1, <3>2, AcceptedExpire
      <3>3. CASE ~expires
        <4>1. o = w
          BY <3>3 DEF UdsConnSet
        <4> QED
          BY <3>1, <4>1
      <3> QED
        BY <3>2, <3>3
    <2> HIDE DEF q, v
    <2>4. o \in UdsConnSet
      BY <2>2 DEF UdsConnSet
    <2>5. o.queue = q /\ o.tx = NoUdsFrame /\ SameLink(w, o) /\ o.retry = w.retry /\ o.sched = w.sched /\ o.next = w.next
      BY <1>3 DEF UdsConnSet, SameLink
    <2>6. CASE q = <<>>
      <3>1. v = o
        BY <1>1, <1>3, <2>6
      <3> HIDE DEF o
      <3>2. SlotOK(o, us_ids)
        BY <2>3, <2>4, <2>5, EntryKept
      <3> QED
        BY <2>4, <2>5, <3>1, <3>2 DEF v
    <2>7. CASE q # <<>>
      <3> DEFINE t == Tail(q)
                 h == Head(q)
      <3>1. t \in Seq(UdsFrames) /\ h \in UdsFrames
        BY <2>2, <2>7
      <3>2. v = [w EXCEPT !.queue = t, !.tx = h]
        BY <1>1, <1>3, <2>7
      <3>3. v = [o EXCEPT !.queue = Tail(o.queue), !.tx = Head(o.queue)]
        BY <2>5, <3>2 DEF UdsConnSet
      <3> HIDE DEF o, t, h
      <3>4. w.type = "Server" => Accepted(v)
        BY <2>3, <2>4, <2>5, <2>7, <3>3, AcceptedPop
      <3>5. v \in UdsConnSet
        BY <3>1, <3>2 DEF UdsConnSet
      <3>6. SameLink(w, v) /\ v.retry = w.retry /\ v.sched = w.sched /\ v.next = w.next
        BY <3>2 DEF UdsConnSet, SameLink
      <3>7. SlotOK(v, us_ids)
        BY <3>4, <3>5, <3>6, EntryKept
      <3> QED
        BY <3>5, <3>6, <3>7 DEF v
    <2> QED
      BY <2>6, <2>7
  <1> QED
    BY <1>2, <1>3

LEMMA WrittenEntry ==
    ASSUME NEW u \in UdsConnSet, SlotOK(u, us_ids), u.tx # NoUdsFrame, u.tx.kind # "error"
    PROVE  LET v == [u EXCEPT !.tx = NoUdsFrame, !.wire = Append(@, u.tx)] IN
           v \in UdsConnSet /\ SameLink(u, v) /\ SlotOK(v, us_ids)
  <1> DEFINE x == Append(u.wire, u.tx)
             v == [u EXCEPT !.tx = NoUdsFrame, !.wire = x]
  <1>1. u.type = "Server" => Accepted([u EXCEPT !.tx = NoUdsFrame, !.wire = Append(@, u.tx)])
    BY AcceptedWrite DEF SlotOK
  <1>2. u.type = "Server" => Accepted(v)
    BY <1>1
  <1>3. u.wire \in Seq(UdsFrames) /\ u.tx \in UdsFrames
    BY DEF UdsConnSet
  <1>4. x \in Seq(UdsFrames)
    BY <1>3
  <1> HIDE DEF x
  <1>5. v \in UdsConnSet
    BY <1>4 DEF UdsConnSet
  <1>6. SameLink(u, v) /\ v.retry = u.retry /\ v.sched = u.sched /\ v.next = u.next
    BY DEF UdsConnSet, SameLink
  <1> HIDE DEF v
  <1>7. SlotOK(v, us_ids)
    BY <1>2, <1>5, <1>6, EntryKept
  <1> QED
    BY <1>5, <1>6, <1>7 DEF v, x

LEMMA SendFramesStep ==
    ASSUME NEW c \in UdsSlots, NEW expires \in BOOLEAN, NEW result \in {"sent", "part", "fails"}
    PROVE  UdsIndInv /\ SendUdsFrames(c, expires, result) => UdsIndInv'
  <1> SUFFICES ASSUME UdsIndInv, SendUdsFrames(c, expires, result) PROVE UdsIndInv'
    OBVIOUS
  <1> DEFINE u == PopUdsSendItem(us_con[c], expires)
  <1>1. /\ UNCHANGED <<UdsRest, us_ids, us_req>>
        /\ IF u.tx = NoUdsFrame \/ result = "part"
           THEN us_con' = [us_con EXCEPT ![c] = u] /\ UNCHANGED us_told
           ELSE IF result = "fails" \/ u.tx.kind \in {"error", "disconnect"} THEN Closes(c, TRUE)
           ELSE us_con' = [us_con EXCEPT ![c] = [u EXCEPT !.tx = NoUdsFrame, !.wire = Append(@, u.tx)]] /\ UNCHANGED us_told
    BY DEF SendUdsFrames, UdsRest
  <1>2. us_con[c] \in UdsConnSet /\ SlotOK(us_con[c], us_ids)
    BY EntryTyped
  <1>3. u \in UdsConnSet /\ SameLink(us_con[c], u) /\ SlotOK(u, us_ids)
    BY <1>2, PopEntry
  <1> HIDE DEF u
  <1>4. CASE u.tx = NoUdsFrame \/ result = "part"
    BY <1>1, <1>3, <1>4, EntryStep
  <1>5. CASE ~(u.tx = NoUdsFrame \/ result = "part") /\ (result = "fails" \/ u.tx.kind \in {"error", "disconnect"})
    BY <1>1, <1>5, ClosesEntryStep
  <1>6. CASE ~(u.tx = NoUdsFrame \/ result = "part") /\ ~(result = "fails" \/ u.tx.kind \in {"error", "disconnect"})
    <2> DEFINE v == [u EXCEPT !.tx = NoUdsFrame, !.wire = Append(@, u.tx)]
    <2>1. us_con' = [us_con EXCEPT ![c] = v] /\ UNCHANGED us_told
      BY <1>1, <1>6
    <2>2. v \in UdsConnSet /\ SameLink(u, v) /\ SlotOK(v, us_ids)
      BY <1>3, <1>6, WrittenEntry
    <2> HIDE DEF v
    <2>3. SameLink(us_con[c], v)
      BY <1>3, <2>2 DEF SameLink
    <2> QED
      BY <1>1, <2>1, <2>2, <2>3, EntryStep
  <1> QED
    BY <1>4, <1>5, <1>6

\* A client tries again.
LEMMA RetryStep ==
    ASSUME NEW c \in UdsSlots, NEW ok \in BOOLEAN PROVE UdsIndInv /\ RetryUdsClient(c, ok) => UdsIndInv'
  <1> SUFFICES ASSUME UdsIndInv, RetryUdsClient(c, ok) PROVE UdsIndInv'
    OBVIOUS
  <1> DEFINE h == us_ids + 1
             sock == IF ok THEN h ELSE 0
             w == us_con[c]
             b == [w EXCEPT !.retry = FALSE]
             v == StartUdsClient(b, sock)
             con2 == [us_con EXCEPT ![c] = v]
  <1>1. /\ w.inst # 0 /\ w.retry /\ us_ids' = h /\ us_con' = con2
        /\ UNCHANGED UdsRest /\ UNCHANGED <<us_told, us_req>>
    BY DEF RetryUdsClient, UdsRest
  <1>2. /\ w \in UdsConnSet /\ SlotOK(w, us_ids) /\ us_ids \in Nat /\ (w.sched # "Off" => w.next # "none")
        /\ us_con \in [UdsSlots -> UdsConnSet]
    BY EntryTyped
  <1>3. h \in Nat /\ us_ids <= h /\ 1..us_ids \subseteq 1..h /\ sock \in {0, h}
    BY <1>2
  <1>4. Agree(us_con, us_ids, us_told, us_req) /\ \A d \in UdsSlots : SlotOK(us_con[d], us_ids)
    BY DEF UdsIndInv, Agree
  <1>5. w.peer = "none" /\ w.id \in 1..h
    BY <1>1, <1>2, <1>3 DEF SlotOK
  <1> HIDE DEF h, w, sock
  <1>6. /\ b \in UdsConnSet /\ b.peer = "none" /\ b.retry = FALSE /\ b.inst = w.inst /\ b.id = w.id
        /\ b.sched = w.sched /\ b.next = w.next
    BY <1>2, <1>5 DEF UdsConnSet
  <1> HIDE DEF b
  <1>7. sock \in Nat /\ sock <= h
    BY <1>3
  <1>8. /\ v \in UdsConnSet /\ v.inst = b.inst /\ v.id = b.id /\ v.peer = "none" /\ v.type = "Client"
        /\ v.sock = sock /\ (v.sched # "Off" => v.next # "none") /\ (v.retry => sock = 0)
    BY <1>2, <1>6, <1>7, StartClientEntry
  <1> HIDE DEF v
  <1>9. SlotOK(v, h)
    BY <1>1, <1>5, <1>6, <1>7, <1>8 DEF SlotOK
  <1>10. con2 \in [UdsSlots -> UdsConnSet] /\ \A d \in UdsSlots : con2[d] = IF d = c THEN v ELSE us_con[d]
    BY <1>2, <1>8
  <1> HIDE DEF con2
  <1>11. ASSUME NEW d \in UdsSlots PROVE SlotOK(us_con[d], h)
    <2>1. SlotOK(us_con[d], us_ids) /\ us_con[d].sock \in Nat
      BY <1>2, <1>4 DEF UdsConnSet
    <2> HIDE DEF Accepted
    <2> QED
      BY <1>2, <1>3, <2>1 DEF SlotOK
  <1>12. ASSUME NEW d \in UdsSlots
         PROVE  /\ SlotOK(con2[d], h) /\ con2[d].inst = us_con[d].inst /\ con2[d].id = us_con[d].id
                /\ con2[d].peer = us_con[d].peer
                /\ con2[d].type = "Server" => us_con[d].type = "Server" /\ con2[d].sock = us_con[d].sock
    <2>1. CASE d = c
      <3>1. con2[d] = v /\ us_con[d] = w
        BY <1>10, <2>1 DEF w
      <3> QED
        BY <1>5, <1>6, <1>8, <1>9, <3>1
    <2>2. CASE d # c
      BY <1>10, <1>11, <2>2
    <2> QED
      BY <2>1, <2>2
  <1>13. Agree(con2, h, us_told, us_req)
    BY <1>3, <1>4, <1>10, <1>12, AgreeStays
  <1>14. Agree(us_con', us_ids', us_told', us_req')
    BY <1>1, <1>13
  <1> QED
    BY <1>1, <1>14, RestStep

-----------------------------------------------------------------------------
\* Every step of the Unix domain socket transport keeps the accounts.
LEMMA UdsStep == UdsIndInv /\ [UdsNext]_udsVars => UdsIndInv'
  <1> SUFFICES ASSUME UdsIndInv, [UdsNext]_udsVars PROVE UdsIndInv'
    OBVIOUS
  <1>1. CASE \E i \in UdsInsts : Notify_UdsConnAdded(i) \/ Notify_UdsConnDeleted(i)
    BY <1>1, ConnAddedStep, ConnDeletedStep
  <1>2. CASE \E i \in UdsInsts, mode \in {"Listen", "Connect"} : NotifyChange_UdsPath(i, mode)
    BY <1>2, ChangePathStep
  <1>3. CASE UDS_ActivateScheduledActions
    BY <1>3, ActivateStep
  <1>4. CASE \E kind \in {"message", "disconnect"} : UDS_QueueBinaryMessage(kind)
    BY <1>4, QueueMessageStep
  <1>5. CASE BeginPass \/ UpdateServer
    BY <1>5, BeginPassStep, UpdateServerStep
  <1>6. CASE \E s \in 1..UdsServers : HandleUdsListeningSocketConnection(s)
    BY <1>6, AcceptStep
  <1>7. CASE \E c \in UdsSlots : UpdateClient(c)
    BY <1>7, UpdateClientStep
  <1>8. CASE \E c \in UdsSlots :
               ReadPart(c) \/ (\E frame \in BOOLEAN : ReadFails(c, frame)) \/ ReadMisaligned(c) \/ ReadRecord(c)
    BY <1>8, ReadPartStep, ReadFailsStep, ReadMisalignedStep, ReadRecordStep
  <1>9. CASE \E c \in UdsSlots : \E e \in UdsPeers, accepted \in BOOLEAN : ReadHandshake(c, e, accepted)
    BY <1>9, ReadHandshakeStep
  <1>10. CASE \E c \in UdsSlots :
                \E expires \in BOOLEAN, result \in {"sent", "part", "fails"} : SendUdsFrames(c, expires, result)
    BY <1>10, SendFramesStep
  <1>11. CASE \E c \in UdsSlots : (\E ok \in BOOLEAN : RetryUdsClient(c, ok)) \/ HandshakeTimeout(c)
    BY <1>11, RetryStep, HandshakeTimeoutStep
  <1>12. CASE UNCHANGED udsVars
    <2>1. UNCHANGED UdsRest /\ UNCHANGED <<us_con, us_ids, us_told, us_req>>
      BY <1>12 DEF udsVars, UdsRest
    <2>2. Agree(us_con', us_ids', us_told', us_req')
      BY <2>1 DEF UdsIndInv
    <2> QED
      BY <2>1, <2>2, RestStep
  <1> QED
    BY <1>1, <1>2, <1>3, <1>4, <1>5, <1>6, <1>7, <1>8, <1>9, <1>10, <1>11, <1>12 DEF UdsNext

\* What the invariant says of the endpoints: the connections of one are the one the DM thread was told.
LEMMA ToldAgrees == UdsIndInv => UdsToldAgrees
  <1> SUFFICES ASSUME UdsIndInv, NEW e \in UdsPeers, NEW i \in UdsInsts
               PROVE  {us_con[c].id : c \in {d \in Instance(i) : us_con[d].peer = e}} = {us_told[e, i]} \ {0}
    BY DEF UdsToldAgrees
  <1> DEFINE k == <<e, i>>
             D == {d \in Instance(i) : us_con[d].peer = e}
  <1>1. /\ \A c \in UdsSlots : us_con[c].peer # "none" => us_told[<<us_con[c].peer, us_con[c].inst>>] = us_con[c].id
        /\ \A l \in UdsPeers \X UdsInsts :
              us_told[l] # 0 => \E c \in UdsSlots : us_con[c].peer = l[1] /\ us_con[c].inst = l[2]
        /\ \A c \in UdsSlots : SlotOK(us_con[c], us_ids)
    BY DEF UdsIndInv, Agree
  <1>2. k \in UdsPeers \X UdsInsts /\ k[1] = e /\ k[2] = i /\ e # "none" /\ i # 0
    BY UdsAssumption DEF UdsInsts
  <1>3. ASSUME NEW c \in D PROVE us_con[c].id = us_told[k] /\ us_told[k] # 0
    <2>1. c \in UdsSlots /\ us_con[c].inst = i /\ us_con[c].peer = e
      BY DEF Instance
    <2>2. us_con[c].id # 0
      BY <1>1, <1>2, <2>1 DEF SlotOK
    <2> QED
      BY <1>1, <1>2, <2>1, <2>2
  <1>4. ASSUME us_told[k] # 0 PROVE \E c \in D : TRUE
    <2>1. PICK c \in UdsSlots : us_con[c].peer = k[1] /\ us_con[c].inst = k[2]
      BY <1>1, <1>2, <1>4
    <2>2. c \in D
      BY <1>2, <2>1 DEF Instance
    <2> QED
      BY <2>2
  <1>5. {us_con[c].id : c \in D} = {us_told[k]} \ {0}
    <2> HIDE DEF D, k
    <2> QED
      BY <1>3, <1>4
  <1> QED
    BY <1>5

LEMMA UdsIndInvMeans == UdsIndInv => UdsInv
  <1> SUFFICES ASSUME UdsIndInv PROVE UdsInv
    OBVIOUS
  <1>1. UdsTypeOK
    <2>1. /\ us_i \in 0..UdsServers /\ us_told \in [UdsPeers \X UdsInsts -> 0..us_ids] /\ us_ids \in Nat
          /\ us_srv \in [1..UdsServers -> UdsServerSet]
      BY DEF UdsIndInv, Agree, ServersOK
    <2>2. \A s \in DOMAIN us_srv : us_srv[s].inst \in {0} \cup UdsInsts
      BY <2>1 DEF UdsServerSet
    <2>3. ASSUME NEW c \in UdsSlots
          PROVE  us_con[c].inst \in {0} \cup UdsInsts /\ us_con[c].sock \in 0..us_ids
      <3>1. us_con[c] \in UdsConnSet /\ us_con[c].sock <= us_ids
        BY EntryTyped DEF SlotOK
      <3> QED
        BY <2>1, <3>1 DEF UdsConnSet
    <2> QED
      BY <2>1, <2>2, <2>3 DEF UdsTypeOK
  <1>2. UdsSession
    <2> SUFFICES ASSUME NEW c \in UdsSlots, us_con[c].type = "Server"
                 PROVE  LET w == us_con[c].wire IN
                        /\ w # <<>> => w[1].kind = "handshake"
                        /\ Len(w) > 1 /\ NeedsConnectRecord(us_con[c]) => w[2].kind = "connect"
                        /\ \A n \in DOMAIN w : w[n].for = us_con[c].sock
      BY DEF UdsSession
    <2>1. Accepted(us_con[c])
      BY EntryTyped DEF SlotOK
    <2> QED
      BY <2>1 DEF Accepted
  <1> QED
    BY <1>1, <1>2, ToldAgrees DEF UdsInv

(***************************************************************************)
(* What the DM thread was told of the endpoints at the other end is what   *)
(* the table of connections says, and what an endpoint is sent on a        *)
(* connection that it made begins with the handshake and the connect       *)
(* record and answers only what it asked on that connection: whatever      *)
(* connections come, fail, time out, are refused, reconfigured and closed  *)
(* meanwhile, and for tables of any size.                                  *)
(***************************************************************************)
THEOREM UdsAccounts == UdsSpec => []UdsInv
  <1>1. UdsInit => UdsIndInv
    BY UdsInitHolds
  <1>2. UdsIndInv /\ [UdsNext]_udsVars => UdsIndInv'
    BY UdsStep
  <1>3. UdsIndInv => UdsInv
    BY UdsIndInvMeans
  <1> QED
    BY <1>1, <1>2, <1>3, PTL DEF UdsSpec
=============================================================================
