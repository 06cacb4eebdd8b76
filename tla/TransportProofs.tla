--------------------------- MODULE TransportProofs ---------------------------
(***************************************************************************)
(* Proofs about the websocket client and the websocket server, for any     *)
(* number of connections, records, faults and changes of the               *)
(* configuration.                                                          *)
(***************************************************************************)
EXTENDS WsClient, WsServer, FiniteSetTheorems, TLAPS

-----------------------------------------------------------------------------
(* What is left of a send queue (SendQueue).                               *)

Stay(q, S) == {i \in DOMAIN q : q[i] \in S}
Place(q, S, i) == Cardinality({j \in Stay(q, S) : j <= i})

\* The places of the entries that stay run from 1 to their number, in their order.
LEMMA StayPlaces ==
    ASSUME NEW T, NEW q \in Seq(T), NEW S
    PROVE  /\ IsFiniteSet(Stay(q, S)) /\ Cardinality(Stay(q, S)) \in Nat
           /\ \A i \in Stay(q, S) : Place(q, S, i) \in 1..Cardinality(Stay(q, S))
           /\ \A i, k \in Stay(q, S) : i < k => Place(q, S, i) < Place(q, S, k)
           /\ \A n \in 1..Cardinality(Stay(q, S)) : \E i \in Stay(q, S) : Place(q, S, i) = n
  <1> DEFINE Z == Stay(q, S)
             upto(i) == {j \in Z : j <= i}
  <1>1. Z \subseteq 1..Len(q) /\ Len(q) \in Nat /\ Z \subseteq Nat
    BY DEF Stay
  <1> HIDE DEF Z
  <1>2. IsFiniteSet(Z) /\ Cardinality(Z) \in Nat
    <2>1. IsFiniteSet(1..Len(q))
      BY <1>1, FS_Interval
    <2> QED
      BY <1>1, <2>1, FS_Subset, FS_CardinalityType
  <1>3. ASSUME NEW i \in Z
        PROVE  /\ IsFiniteSet(upto(i)) /\ Cardinality(upto(i)) \in 1..Cardinality(Z)
    <2>1. upto(i) \in SUBSET Z /\ i \in upto(i)
      BY <1>1
    <2> HIDE DEF upto
    <2>2. IsFiniteSet(upto(i)) /\ Cardinality(upto(i)) \in Nat /\ Cardinality(upto(i)) <= Cardinality(Z)
      BY <1>2, <2>1, FS_Subset, FS_CardinalityType
    <2>3. Cardinality(upto(i)) # 0
      BY <2>1, <2>2, FS_EmptySet
    <2> QED
      BY <1>2, <2>2, <2>3
  <1>4. ASSUME NEW i \in Z, NEW k \in Z, i < k
        PROVE  Cardinality(upto(i)) < Cardinality(upto(k))
    <2>1. upto(i) \in SUBSET upto(k)
      <3> SUFFICES ASSUME NEW j \in upto(i) PROVE j \in upto(k)
        OBVIOUS
      <3> QED
        BY <1>1, <1>4
    <2>2. k \in upto(k) /\ k \notin upto(i)
      BY <1>1, <1>4
    <2> HIDE DEF upto
    <2>3. Cardinality(upto(i)) <= Cardinality(upto(k)) /\ Cardinality(upto(i)) # Cardinality(upto(k))
      BY <1>3, <2>1, <2>2, FS_Subset
    <2> QED
      BY <1>2, <1>3, <2>3
  <1> DEFINE place == [i \in Z |-> Cardinality(upto(i))]
  <1>5. place \in Surjection(Z, 1..Cardinality(Z))
    <2>1. place \in [Z -> 1..Cardinality(Z)]
      BY <1>3
    <2>2. \A i, k \in Z : place[i] = place[k] => i = k
      <3> SUFFICES ASSUME NEW i \in Z, NEW k \in Z, i # k PROVE place[i] # place[k]
        OBVIOUS
      <3>1. i < k \/ k < i
        BY <1>1
      <3>2. place[i] < place[k] \/ place[k] < place[i]
        BY <1>4, <3>1
      <3>3. \A z \in Z : place[z] \in 1..Cardinality(Z)
        BY <1>3
      <3>4. place[i] \in Nat /\ place[k] \in Nat
        BY <1>2, <3>3
      <3> QED
        BY <3>2, <3>4
    <2> HIDE DEF place
    <2>3. place \in Injection(Z, 1..Cardinality(Z))
      BY <2>1, <2>2 DEF Injection, IsInjective
    <2>4. IsFiniteSet(1..Cardinality(Z)) /\ Cardinality(1..Cardinality(Z)) = Cardinality(Z)
      BY <1>2, FS_Interval
    <2> QED
      BY <1>2, <2>3, <2>4, FS_Injection
  <1>6. \A n \in 1..Cardinality(Z) : \E i \in Z : place[i] = n
    BY <1>5 DEF Surjection
  <1>7. \A i \in Z : Place(q, S, i) = Cardinality(upto(i)) /\ place[i] = Cardinality(upto(i))
    BY DEF Place, Z
  <1> HIDE DEF place, upto
  <1> QED
    BY <1>2, <1>3, <1>4, <1>6, <1>7 DEF Z

\* The entry at place n is the one that stays and has that place.
LEMMA OnlyAt ==
    ASSUME NEW T, NEW q \in Seq(T), NEW S
    PROVE  /\ DOMAIN Only(q, S) = 1..Cardinality(Stay(q, S))
           /\ Only(q, S) \in Seq(T) /\ Len(Only(q, S)) = Cardinality(Stay(q, S))
  <1> DEFINE at(k) == CHOOSE i \in Stay(q, S) : Place(q, S, i) = k
             m == Cardinality(Stay(q, S))
  <1>1. Only(q, S) = [k \in 1..m |-> q[at(k)]]
    BY DEF Only, Stay, Place
  <1>2. \A k \in 1..m : at(k) \in Stay(q, S)
    BY StayPlaces
  <1>3. m \in Nat
    BY StayPlaces
  <1>4. \A k \in 1..m : q[at(k)] \in T
    <2>1. \A i \in Stay(q, S) : q[i] \in T
      BY DEF Stay
    <2> QED
      BY <1>2, <2>1
  <1> HIDE DEF at, m
  <1>5. Only(q, S) \in Seq(T) /\ Len(Only(q, S)) = m
    BY <1>1, <1>3, <1>4
  <1> QED
    BY <1>1, <1>5 DEF m

LEMMA OnlyAtPlace ==
    ASSUME NEW T, NEW q \in Seq(T), NEW S, NEW i \in Stay(q, S)
    PROVE  Only(q, S)[Place(q, S, i)] = q[i]
  <1> DEFINE at(k) == CHOOSE z \in Stay(q, S) : Place(q, S, z) = k
             m == Cardinality(Stay(q, S))
             n == Place(q, S, i)
             z == at(n)
  <1>1. Only(q, S) = [k \in 1..m |-> q[at(k)]]
    BY DEF Only, Stay, Place
  <1>2. n \in 1..m /\ m \in Nat
    BY StayPlaces
  <1>3. z \in Stay(q, S) /\ Place(q, S, z) = n
    BY <1>2, StayPlaces
  <1>4. Only(q, S)[n] = q[z]
    BY <1>1, <1>2
  <1> HIDE DEF z, at, m, n
  <1>5. i \in Int /\ z \in Int /\ n \in Int
    BY <1>2, <1>3 DEF Stay
  <1>6. ~ (z < i) /\ ~ (i < z)
    BY <1>3, <1>5, StayPlaces DEF n
  <1>7. z = i
    BY <1>5, <1>6
  <1> QED
    BY <1>4, <1>7 DEF n

\* The entries of what is left are those of the queue that are in S.
LEMMA OnlySet ==
    ASSUME NEW T, NEW q \in Seq(T), NEW S
    PROVE  ToSet(Only(q, S)) = ToSet(q) \cap S
  <1> DEFINE v == Only(q, S)
             m == Cardinality(Stay(q, S))
  <1>1. DOMAIN v = 1..m
    BY OnlyAt
  <1>a. \A i \in Stay(q, S) : Place(q, S, i) \in 1..m
    BY StayPlaces
  <1>b. \A i \in Stay(q, S) : v[Place(q, S, i)] = q[i]
    BY OnlyAtPlace
  <1>2. \A i \in Stay(q, S) : Place(q, S, i) \in 1..m /\ v[Place(q, S, i)] = q[i]
    BY <1>a, <1>b
  <1>3. \A k \in 1..m : \E i \in Stay(q, S) : v[k] = q[i]
    BY <1>2, StayPlaces
  <1> HIDE DEF v, m
  <1>4. ASSUME NEW x \in ToSet(v) PROVE x \in ToSet(q) \cap S
    BY <1>1, <1>3 DEF ToSet, Stay
  <1>5. ASSUME NEW x \in ToSet(q) \cap S PROVE x \in ToSet(v)
    BY <1>1, <1>2 DEF ToSet, Stay
  <1> QED
    BY <1>4, <1>5 DEF v

\* The head stays the head, if it stays.
LEMMA OnlyHead ==
    ASSUME NEW T, NEW q \in Seq(T), q # <<>>, NEW S, q[1] \in S
    PROVE  Only(q, S) # <<>> /\ Only(q, S)[1] = q[1]
  <1>1. 1 \in Stay(q, S)
    BY DEF Stay
  <1>2. \A i \in Stay(q, S) : i = 1 \/ 1 < i
    BY DEF Stay
  <1>3. Place(q, S, 1) \in 1..Cardinality(Stay(q, S)) /\ Cardinality(Stay(q, S)) \in Nat
    BY <1>1, StayPlaces
  <1>4. PICK i \in Stay(q, S) : Place(q, S, i) = 1
    BY <1>3, StayPlaces
  <1>5. ~ (1 < i)
    BY <1>1, <1>3, <1>4, StayPlaces
  <1>6. i = 1
    BY <1>2, <1>5
  <1>7. Only(q, S)[Place(q, S, i)] = q[i]
    BY OnlyAtPlace
  <1>8. DOMAIN Only(q, S) = 1..Cardinality(Stay(q, S))
    BY OnlyAt
  <1>9. Only(q, S)[1] = q[1] /\ 1 \in DOMAIN Only(q, S)
    BY <1>3, <1>4, <1>6, <1>7, <1>8
  <1> QED
    BY <1>9

\* Records are numbered in the order in which they are queued.
Ascending(q) == \A i, j \in DOMAIN q : i < j => q[i] < q[j]

LEMMA OnlyAscending ==
    ASSUME NEW q \in Seq(Int), Ascending(q), NEW S
    PROVE  Ascending(Only(q, S))
  <1> SUFFICES ASSUME NEW k \in DOMAIN Only(q, S), NEW l \in DOMAIN Only(q, S), k < l
               PROVE  Only(q, S)[k] < Only(q, S)[l]
    BY DEF Ascending
  <1>1. k \in 1..Cardinality(Stay(q, S)) /\ l \in 1..Cardinality(Stay(q, S))
    BY OnlyAt
  <1>2. PICK i \in Stay(q, S) : Place(q, S, i) = k
    BY <1>1, StayPlaces
  <1>3. PICK j \in Stay(q, S) : Place(q, S, j) = l
    BY <1>1, StayPlaces
  <1>4. i \in DOMAIN q /\ j \in DOMAIN q /\ i \in Int /\ j \in Int
    BY DEF Stay
  <1>5. k \in Int /\ l \in Int /\ ~ (l < k) /\ l # k
    BY <1>1
  <1>6. i < j
    <2>1. ~ (j < i)
      BY <1>2, <1>3, <1>5, StayPlaces
    <2>2. i # j
      BY <1>2, <1>3, <1>5
    <2> QED
      BY <1>4, <2>1, <2>2
  <1>7. q[i] < q[j]
    BY <1>4, <1>6 DEF Ascending
  <1>8. Only(q, S)[k] = q[i] /\ Only(q, S)[l] = q[j]
    BY <1>2, <1>3, OnlyAtPlace
  <1> QED
    BY <1>7, <1>8

\* An entry that is appended stays behind the others, if it stays.
LEMMA OnlyAppend ==
    ASSUME NEW T, NEW q \in Seq(T), NEW e \in T, NEW S
    PROVE  Only(Append(q, e), S) = IF e \in S THEN Append(Only(q, S), e) ELSE Only(q, S)
  <1> DEFINE p == Append(q, e)
             n == Len(q)
             Z == Stay(q, S)
             Y == Stay(p, S)
             m == Cardinality(Z)
             u == Only(p, S)
             v == Only(q, S)
  <1>1. /\ p \in Seq(T) /\ n \in Nat /\ Len(p) = n + 1 /\ p[n + 1] = e
        /\ DOMAIN q = 1..n /\ DOMAIN p = 1..(n + 1)
        /\ \A i \in 1..n : p[i] = q[i]
    OBVIOUS
  <1>2. Z \subseteq 1..n /\ Y = IF e \in S THEN Z \cup {n + 1} ELSE Z
    BY <1>1 DEF Stay
  <1>3. /\ IsFiniteSet(Z) /\ m \in Nat
        /\ Cardinality(Y) = IF e \in S THEN m + 1 ELSE m
    <2>1. IsFiniteSet(Z) /\ m \in Nat
      BY StayPlaces
    <2>2. n + 1 \notin Z
      BY <1>1, <1>2
    <2> HIDE DEF Z, Y
    <2> QED
      BY <1>2, <2>1, <2>2, FS_AddElement
  <1>4. \A i \in Z : Place(p, S, i) = Place(q, S, i)
    <2> TAKE i \in Z
    <2>1. i < n + 1
      BY <1>1, <1>2
    <2>2. {j \in Y : j <= i} = {j \in Z : j <= i}
      BY <1>1, <1>2, <2>1
    <2> QED
      BY <2>2 DEF Place
  <1>5. /\ u \in Seq(T) /\ Len(u) = Cardinality(Y) /\ DOMAIN u = 1..Cardinality(Y)
        /\ v \in Seq(T) /\ Len(v) = m /\ DOMAIN v = 1..m
    <2>1. v \in Seq(T) /\ Len(v) = m /\ DOMAIN v = 1..m
      BY OnlyAt
    <2>2. u \in Seq(T) /\ Len(u) = Cardinality(Y) /\ DOMAIN u = 1..Cardinality(Y)
      <3> HIDE DEF p
      <3> QED
        BY <1>1, OnlyAt
    <2> QED
      BY <2>1, <2>2
  <1>6. \A k \in 1..m : u[k] = v[k]
    <2> TAKE k \in 1..m
    <2>1. PICK i \in Z : Place(q, S, i) = k
      BY StayPlaces
    <2>2. i \in Y /\ p[i] = q[i] /\ Place(p, S, i) = k
      BY <1>1, <1>2, <1>4, <2>1
    <2>3. v[k] = q[i]
      BY <2>1, OnlyAtPlace
    <2>4. u[k] = p[i]
      <3>1. Only(p, S)[Place(p, S, i)] = p[i]
        <4>1. i \in Stay(p, S)
          BY <2>2
        <4> HIDE DEF p
        <4> QED
          BY <1>1, <4>1, OnlyAtPlace
      <3> QED
        BY <2>2, <3>1
    <2> QED
      BY <2>2, <2>3, <2>4
  <1>7. CASE e \notin S
    <2>1. u = v
      <3> HIDE DEF u, v, m, Y, Z, p
      <3> QED
        BY <1>3, <1>5, <1>6, <1>7
    <2> QED
      BY <1>7, <2>1
  <1>8. CASE e \in S
    <2>1. n + 1 \in Y /\ {j \in Y : j <= n + 1} = Y
      BY <1>1, <1>2, <1>8
    <2>2. Place(p, S, n + 1) = m + 1
      BY <1>3, <1>8, <2>1 DEF Place
    <2>3. u[m + 1] = e
      <3>1. Only(p, S)[Place(p, S, n + 1)] = p[n + 1]
        <4>1. n + 1 \in Stay(p, S)
          BY <2>1
        <4> HIDE DEF p, n
        <4> QED
          BY <1>1, <4>1, OnlyAtPlace
      <3> QED
        BY <1>1, <2>2, <3>1
    <2>4. u = Append(v, e)
      <3> HIDE DEF u, v, m, Y, Z, p, n
      <3>1. Append(v, e) \in Seq(T) /\ Len(Append(v, e)) = m + 1
        BY <1>3, <1>5
      <3>2. \A k \in 1..(m + 1) : Append(v, e)[k] = IF k = m + 1 THEN e ELSE v[k]
        BY <1>3, <1>5
      <3>3. \A k \in 1..(m + 1) : u[k] = Append(v, e)[k]
        <4> TAKE k \in 1..(m + 1)
        <4>1. k = m + 1 \/ k \in 1..m
          BY <1>3
        <4>2. Append(v, e)[k] = IF k = m + 1 THEN e ELSE v[k]
          BY <3>2
        <4>3. k \in 1..m => k # m + 1
          BY <1>3
        <4> QED
          BY <1>6, <2>3, <4>1, <4>2, <4>3
      <3>4. Len(u) = m + 1
        BY <1>3, <1>5, <1>8
      <3> QED
        BY <1>3, <1>5, <3>1, <3>3, <3>4
    <2> QED
      BY <1>8, <2>4
  <1> QED
    BY <1>7, <1>8

LEMMA OnlyEmpty == ASSUME NEW S PROVE Only(<<>>, S) = <<>>
  <1>1. <<>> \in Seq({}) /\ Stay(<<>>, S) = {}
    BY DEF Stay
  <1>2. Cardinality(Stay(<<>>, S)) = 0
    BY <1>1, FS_EmptySet
  <1>3. Only(<<>>, S) \in Seq({}) /\ Len(Only(<<>>, S)) = 0
    BY <1>1, <1>2, OnlyAt
  <1> QED
    BY <1>3

-----------------------------------------------------------------------------
(* Queues.                                                                 *)

LEMMA AppendSet ==
    ASSUME NEW T, NEW q \in Seq(T), NEW e \in T
    PROVE  ToSet(Append(q, e)) = ToSet(q) \cup {e}
  <1>1. /\ DOMAIN Append(q, e) = 1..(Len(q) + 1) /\ DOMAIN q = 1..Len(q) /\ Len(q) \in Nat
        /\ Append(q, e)[Len(q) + 1] = e
        /\ \A i \in 1..Len(q) : Append(q, e)[i] = q[i]
    OBVIOUS
  <1>2. ASSUME NEW x \in ToSet(Append(q, e)) PROVE x \in ToSet(q) \cup {e}
    <2>1. PICK i \in 1..(Len(q) + 1) : Append(q, e)[i] = x
      BY <1>1 DEF ToSet
    <2> QED
      BY <1>1, <2>1 DEF ToSet
  <1>3. ASSUME NEW x \in ToSet(q) \cup {e} PROVE x \in ToSet(Append(q, e))
    BY <1>1 DEF ToSet
  <1> QED
    BY <1>2, <1>3

LEMMA HeadTailSet ==
    ASSUME NEW T, NEW q \in Seq(T), q # <<>>
    PROVE  /\ Head(q) = q[1] /\ Head(q) \in T /\ Tail(q) \in Seq(T)
           /\ ToSet(q) = {Head(q)} \cup ToSet(Tail(q))
  <1>1. /\ Head(q) = q[1] /\ Head(q) \in T /\ Tail(q) \in Seq(T)
        /\ DOMAIN q = 1..Len(q) /\ Len(q) \in Nat \ {0}
        /\ DOMAIN Tail(q) = 1..(Len(q) - 1)
        /\ \A i \in 1..(Len(q) - 1) : Tail(q)[i] = q[i + 1]
    OBVIOUS
  <1>2. ASSUME NEW x \in ToSet(q) PROVE x \in {Head(q)} \cup ToSet(Tail(q))
    <2>1. PICK i \in 1..Len(q) : q[i] = x
      BY <1>1 DEF ToSet
    <2>2. CASE i # 1
      <3>1. i - 1 \in 1..(Len(q) - 1) /\ (i - 1) + 1 = i
        BY <1>1, <2>2
      <3> QED
        BY <1>1, <2>1, <3>1 DEF ToSet
    <2> QED
      BY <1>1, <2>1, <2>2
  <1>3. ASSUME NEW x \in {Head(q)} \cup ToSet(Tail(q)) PROVE x \in ToSet(q)
    <2>1. CASE x \in ToSet(Tail(q))
      <3>1. PICK i \in 1..(Len(q) - 1) : Tail(q)[i] = x
        BY <1>1, <2>1 DEF ToSet
      <3>2. i + 1 \in 1..Len(q)
        BY <1>1
      <3> QED
        BY <1>1, <3>1, <3>2 DEF ToSet
    <2>2. CASE x = Head(q)
      BY <1>1, <2>2 DEF ToSet
    <2> QED
      BY <2>1, <2>2
  <1> QED
    BY <1>1, <1>2, <1>3

(***************************************************************************)
(* WsClient.  The inductive invariant has one part for each piece of state *)
(* and one for the chunks on the connection.                               *)
(***************************************************************************)
WsStates == {"Idle", "AwaitingConnected", "Running", "Retrying"}
WsReasons == {"Unknown", "ConnParamsChanged", "GracefulClose", "BadUspRecord", "ServerDisconnect",
              "LibWebSocketsError", "MissingPong", "InternalError"}
WsActions == {"Off", "Signalled", "Activated"}
WsClients ==
    [state : WsStates, conf : 0..2, at : 0..2, reason : WsReasons, reconnect : WsActions, close : WsActions,
     disconnected : BOOLEAN, ping : BOOLEAN, pings : 0..(AllowedMissingPongs + 1), queue : Seq(WsQueued), tx : 0..1]
WsLibs == [writable : BOOLEAN, kill : BOOLEAN]

ClientOK(w) ==
    /\ w \in WsClients /\ Ascending(w.queue)
    /\ (w.state = "Idle") = (w.conf = 0)
    /\ w.state = "Idle" => w.queue = <<>>
    /\ w.state \in {"AwaitingConnected", "Running"} /\ w.at # w.conf => w.reconnect # "Off" \/ w.reason # "Unknown"
LibOK(w, l) == l \in WsLibs /\ (l.writable \/ l.kill => w.state \in {"AwaitingConnected", "Running"})

\* A step that leaves the queue, and the connection if there is one, as they are.
Keeps(w, v) ==
    /\ v.queue = w.queue /\ v.tx = w.tx
    /\ (v.state = "Idle") = (w.state = "Idle") /\ (v.state = "Running") = (w.state = "Running")

\* A client that has no connection any more, or waits for one, with the queue that it had.
Waits(w, v) == v.state \in {"AwaitingConnected", "Retrying"} /\ v.queue = w.queue /\ v.tx = w.tx
Gives(w, s) == s = State(NoWsclient, Quiet) \/ Waits(w, s.wc)
WsOK(s) == ClientOK(s.wc) /\ LibOK(s.wc, s.lib)

USE WsAssumption

LEMMA RecordNumbers == WsQueued \subseteq Int /\ WsRecs \subseteq WsQueued /\ Disconnects \subseteq Int
  BY DEF WsQueued, WsRecs, UspConnect, Disconnects

LEMMA QueueInts == ASSUME NEW q \in Seq(WsQueued) PROVE q \in Seq(Int)
  <1>1. Len(q) \in Nat /\ q = [i \in 1..Len(q) |-> q[i]] /\ \A i \in 1..Len(q) : q[i] \in WsQueued
    OBVIOUS
  <1>2. \A i \in 1..Len(q) : q[i] \in Int
    BY <1>1, RecordNumbers
  <1> QED
    BY <1>1, <1>2

LEMMA NoClientOK == WsOK(State(NoWsclient, Quiet))
  <1>1. <<>> \in Seq(WsQueued) /\ Ascending(<<>>)
    BY DEF Ascending
  <1>2. NoWsclient \in WsClients
    BY <1>1 DEF NoWsclient, WsClients, WsStates, WsReasons, WsActions
  <1>3. Quiet \in WsLibs /\ ~Quiet.writable /\ ~Quiet.kill
    BY DEF Quiet, WsLibs
  <1> QED
    BY <1>1, <1>2, <1>3 DEF WsOK, ClientOK, LibOK, State, NoWsclient

LEMMA AttemptGives ==
    ASSUME NEW w \in WsClients, w.conf # 0, Ascending(w.queue)
    PROVE  LET s == AttemptWsclientConnect(w) IN WsOK(s) /\ Waits(w, s.wc)
  <1> DEFINE s == AttemptWsclientConnect(w)
  <1>1. /\ s.wc \in WsClients /\ s.lib = Quiet
        /\ s.wc.state = (IF ~wc_may THEN "Retrying" ELSE "AwaitingConnected")
        /\ s.wc.conf = w.conf /\ s.wc.queue = w.queue /\ s.wc.tx = w.tx
        /\ wc_may => s.wc.at = w.conf
    <2>1. 0 \in 0..(AllowedMissingPongs + 1) /\ "Unknown" \in WsReasons /\ "Off" \in WsActions
      BY DEF WsReasons, WsActions
    <2>2. CASE wc_may
      BY <2>1, <2>2 DEF AttemptWsclientConnect, State, WsClients, WsStates
    <2>3. CASE ~wc_may
      BY <2>3 DEF AttemptWsclientConnect, State, WsClients, WsStates
    <2> QED
      BY <2>2, <2>3
  <1> HIDE DEF s
  <1>2. ClientOK(s.wc) /\ Waits(w, s.wc)
    BY <1>1 DEF ClientOK, Waits
  <1>3. LibOK(s.wc, s.lib)
    BY <1>1 DEF LibOK, Quiet, WsLibs
  <1> QED
    BY <1>2, <1>3 DEF WsOK, s

LEMMA RetryGives ==
    ASSUME NEW w \in WsClients, w.conf # 0, Ascending(w.queue)
    PROVE  LET s == ScheduleWsclientRetry(w) IN WsOK(s) /\ Waits(w, s.wc)
  <1> DEFINE s == ScheduleWsclientRetry(w)
  <1>1. /\ s.wc \in WsClients /\ s.lib = Quiet /\ s.wc.state = "Retrying"
        /\ s.wc.conf = w.conf /\ s.wc.queue = w.queue /\ s.wc.tx = w.tx
    BY DEF ScheduleWsclientRetry, State, WsClients, WsStates
  <1> HIDE DEF s
  <1>2. ClientOK(s.wc) /\ Waits(w, s.wc)
    BY <1>1 DEF ClientOK, Waits
  <1>3. LibOK(s.wc, s.lib)
    BY <1>1 DEF LibOK, Quiet, WsLibs
  <1> QED
    BY <1>2, <1>3 DEF WsOK, s

\* The library is done with a connection.
LEMMA DestroyedGives ==
    ASSUME NEW w \in WsClients, w.conf # 0, Ascending(w.queue)
    PROVE  LET s == HandleWscEvent_Destroyed(w) IN WsOK(s) /\ Gives(w, s)
  <1>1. CASE w.reason = "GracefulClose"
    BY <1>1, NoClientOK DEF HandleWscEvent_Destroyed, DestroyWsclient, Gives
  <1>2. CASE w.reason = "ConnParamsChanged"
    BY <1>2, AttemptGives DEF HandleWscEvent_Destroyed, Gives
  <1>3. CASE w.reason \notin {"GracefulClose", "ConnParamsChanged"}
    BY <1>3, RetryGives DEF HandleWscEvent_Destroyed, Gives
  <1> QED
    BY <1>1, <1>2, <1>3

\* A client that waits for its connection is to be closed.
LEMMA ForceGives ==
    ASSUME NEW w \in WsClients, w.conf # 0, Ascending(w.queue), w.state = "AwaitingConnected",
           LibOK(w, wc_lib), NEW reason \in WsReasons \ {"Unknown"}
    PROVE  LET s == ForceWsclientClose(w, reason) IN WsOK(s) /\ Keeps(w, s.wc)
  <1> DEFINE s == ForceWsclientClose(w, reason)
  <1>1. /\ s.wc \in WsClients /\ s.lib \in WsLibs
        /\ s.wc.state = w.state /\ s.wc.conf = w.conf /\ s.wc.queue = w.queue /\ s.wc.tx = w.tx
        /\ s.wc.reason # "Unknown"
    BY DEF ForceWsclientClose, State, WsClients, LibOK, WsLibs
  <1> HIDE DEF s
  <1> QED
    BY <1>1 DEF WsOK, ClientOK, LibOK, Keeps, s

LEMMA GracefulGives ==
    ASSUME NEW w, ClientOK(w), w.state = "Running", NEW l, LibOK(w, l), NEW reason \in WsReasons \ {"Unknown"}
    PROVE  LET s == GracefullyCloseWsclient(w, l, reason) IN WsOK(s) /\ Keeps(w, s.wc)
  <1> DEFINE s == GracefullyCloseWsclient(w, l, reason)
  <1>1. /\ s.wc \in WsClients /\ s.lib \in WsLibs
        /\ s.wc.state = w.state /\ s.wc.conf = w.conf /\ s.wc.queue = w.queue /\ s.wc.tx = w.tx
        /\ s.wc.reason # "Unknown"
    BY DEF GracefullyCloseWsclient, State, WsClients, LibOK, WsLibs, ClientOK
  <1> HIDE DEF s
  <1> QED
    BY <1>1 DEF WsOK, ClientOK, LibOK, Keeps, s

LEMMA ConnParamsGives ==
    ASSUME ClientOK(wc), LibOK(wc, wc_lib), wc.state # "Idle", NEW conf \in 1..2
    PROVE  LET s == HandleWsclient_ConnParamsChanged(wc, conf) IN WsOK(s) /\ Keeps(wc, s.wc)
  <1> DEFINE v == [wc EXCEPT !.conf = conf]
             u == [v EXCEPT !.reconnect = "Signalled"]
             s == HandleWsclient_ConnParamsChanged(wc, conf)
  <1>1. /\ wc \in WsClients /\ Ascending(wc.queue) /\ wc.conf # 0
        /\ wc.state \in {"AwaitingConnected", "Running", "Retrying"}
    BY DEF ClientOK, WsClients, WsStates
  <1>2. /\ v \in WsClients /\ v.conf = conf /\ conf # 0 /\ v.state = wc.state
        /\ v.queue = wc.queue /\ v.tx = wc.tx
    BY <1>1 DEF WsClients
  <1>3. /\ u \in WsClients /\ u.conf = conf /\ u.state = wc.state
        /\ u.queue = wc.queue /\ u.tx = wc.tx /\ u.reconnect = "Signalled"
    <2> HIDE DEF v
    <2> QED
      BY <1>2 DEF WsClients, WsActions
  <1>4. LibOK(v, wc_lib)
    <2> HIDE DEF v
    <2> QED
      BY <1>2 DEF LibOK
  <1>5. CASE conf = wc.conf
    BY <1>5 DEF HandleWsclient_ConnParamsChanged, WsOK, State, Keeps
  <1>6. CASE conf # wc.conf /\ wc.state = "AwaitingConnected"
    <2>1. s = ForceWsclientClose(v, "ConnParamsChanged")
      BY <1>6 DEF HandleWsclient_ConnParamsChanged
    <2> HIDE DEF v, s
    <2>2. WsOK(s) /\ Keeps(v, s.wc)
      BY <1>1, <1>2, <1>4, <1>6, <2>1, ForceGives DEF WsReasons
    <2>3. WsOK(s) /\ Keeps(wc, s.wc)
      BY <1>2, <2>2 DEF Keeps
    <2> QED
      BY <2>3 DEF s
  <1>7. CASE conf # wc.conf /\ wc.state = "Running"
    <2>1. s = State(u, wc_lib)
      BY <1>7 DEF HandleWsclient_ConnParamsChanged
    <2> HIDE DEF v, u, s
    <2>2. WsOK(s) /\ Keeps(wc, s.wc)
      BY <1>1, <1>2, <1>3, <1>7, <2>1 DEF WsOK, State, ClientOK, LibOK, Keeps
    <2> QED
      BY <2>2 DEF s
  <1>8. CASE conf # wc.conf /\ wc.state = "Retrying"
    <2>1. s = AttemptWsclientConnect(v)
      BY <1>8 DEF HandleWsclient_ConnParamsChanged
    <2> HIDE DEF v, s
    <2>2. WsOK(s) /\ Waits(v, s.wc)
      BY <1>1, <1>2, <2>1, AttemptGives
    <2>3. WsOK(s) /\ Keeps(wc, s.wc)
      BY <1>2, <1>8, <2>2 DEF Keeps, Waits
    <2> QED
      BY <2>3 DEF s
  <1> QED
    BY <1>1, <1>5, <1>6, <1>7, <1>8

\* A client that starts, with an empty queue.
Opens(w, v) ==
    w.state = "Idle" /\ v.state \in {"AwaitingConnected", "Retrying"} /\ v.queue = <<>> /\ v.tx = 0

LEMMA StartGives ==
    ASSUME ClientOK(wc), LibOK(wc, wc_lib), NEW conf \in 1..2
    PROVE  LET s == HandleWsclient_StartClient(wc, conf) IN WsOK(s) /\ (Keeps(wc, s.wc) \/ Opens(wc, s.wc))
  <1>1. CASE wc.state # "Idle"
    BY <1>1, ConnParamsGives DEF HandleWsclient_StartClient
  <1>2. CASE wc.state = "Idle"
    <2> DEFINE v == [NoWsclient EXCEPT !.conf = conf]
               s == HandleWsclient_StartClient(wc, conf)
    <2>1. ClientOK(NoWsclient)
      BY NoClientOK DEF WsOK, State
    <2>a. NoWsclient \in WsClients /\ Ascending(NoWsclient.queue)
      BY <2>1 DEF ClientOK
    <2>b. NoWsclient.queue = <<>> /\ NoWsclient.tx = 0
      BY DEF NoWsclient
    <2>2. /\ v \in WsClients /\ v.conf = conf /\ conf # 0 /\ v.queue = <<>> /\ v.tx = 0
          /\ Ascending(v.queue)
      BY <2>a, <2>b DEF WsClients
    <2>3. s = AttemptWsclientConnect(v)
      BY <1>2 DEF HandleWsclient_StartClient
    <2> HIDE DEF v, s
    <2>4. WsOK(s) /\ Waits(v, s.wc)
      BY <2>2, <2>3, AttemptGives
    <2>5. Opens(wc, s.wc)
      BY <1>2, <2>2, <2>4 DEF Opens, Waits
    <2> QED
      BY <2>4, <2>5 DEF s
  <1> QED
    BY <1>1, <1>2

LEMMA StopGives ==
    ASSUME ClientOK(wc), LibOK(wc, wc_lib)
    PROVE  LET s == HandleWsclient_StopClient(wc) IN
           WsOK(s) /\ (Keeps(wc, s.wc) \/ s = State(NoWsclient, Quiet))
  <1> DEFINE s == HandleWsclient_StopClient(wc)
             u == [wc EXCEPT !.close = "Signalled"]
  <1>1. wc \in WsClients /\ wc.state \in {"Idle", "AwaitingConnected", "Running", "Retrying"} /\ Ascending(wc.queue)
    BY DEF ClientOK, WsClients, WsStates
  <1>2. CASE wc.state = "Idle"
    BY <1>2 DEF HandleWsclient_StopClient, WsOK, State, Keeps
  <1>3. CASE wc.state = "AwaitingConnected"
    <2>1. s = ForceWsclientClose(wc, "GracefulClose") /\ wc.conf # 0
      BY <1>3 DEF HandleWsclient_StopClient, ClientOK
    <2> HIDE DEF s
    <2>2. WsOK(s) /\ Keeps(wc, s.wc)
      BY <1>1, <1>3, <2>1, ForceGives DEF WsReasons
    <2> QED
      BY <2>2 DEF s
  <1>4. CASE wc.state = "Running"
    <2>1. s = State(u, wc_lib)
      BY <1>4 DEF HandleWsclient_StopClient
    <2>2. /\ u \in WsClients /\ u.conf = wc.conf /\ u.at = wc.at /\ u.state = wc.state
          /\ u.queue = wc.queue /\ u.tx = wc.tx /\ u.reconnect = wc.reconnect /\ u.reason = wc.reason
      BY <1>1 DEF WsClients, WsActions
    <2> HIDE DEF u, s
    <2>3. WsOK(s) /\ Keeps(wc, s.wc)
      BY <1>1, <1>4, <2>1, <2>2 DEF WsOK, State, ClientOK, LibOK, Keeps
    <2> QED
      BY <2>3 DEF s
  <1>5. CASE wc.state = "Retrying"
    BY <1>5, NoClientOK DEF HandleWsclient_StopClient, DestroyWsclient
  <1> QED
    BY <1>1, <1>2, <1>3, <1>4, <1>5

LEMMA AllowGives ==
    ASSUME ClientOK(wc), LibOK(wc, wc_lib)
    PROVE  LET s == HandleWsclient_AllowConnect(wc) IN WsOK(s) /\ Keeps(wc, s.wc)
  <1>1. CASE wc.state = "Retrying"
    <2>1. wc \in WsClients /\ wc.conf # 0 /\ Ascending(wc.queue)
      BY <1>1 DEF ClientOK
    <2>2. LET s == AttemptWsclientConnect(wc) IN WsOK(s) /\ Waits(wc, s.wc)
      BY <2>1, AttemptGives
    <2> QED
      BY <1>1, <2>2 DEF HandleWsclient_AllowConnect, Waits, Keeps
  <1>2. CASE wc.state # "Retrying"
    BY <1>2 DEF HandleWsclient_AllowConnect, WsOK, State, Keeps
  <1> QED
    BY <1>1, <1>2

LEMMA ActivateGives ==
    ASSUME ClientOK(wc), LibOK(wc, wc_lib)
    PROVE  LET s == HandleWsclient_ActivateScheduledActions(wc) IN WsOK(s) /\ Keeps(wc, s.wc)
  <1> DEFINE u == [wc EXCEPT !.reconnect = Activate(@), !.close = Activate(@)]
  <1>1. wc \in WsClients
    BY DEF ClientOK
  <1>2. \A a \in WsActions : Activate(a) \in WsActions /\ (Activate(a) = "Off" <=> a = "Off")
    BY DEF WsActions, Activate
  <1>3. wc.reconnect \in WsActions /\ wc.close \in WsActions
    BY <1>1 DEF WsClients
  <1>4. /\ u \in WsClients /\ u.conf = wc.conf /\ u.at = wc.at /\ u.state = wc.state
        /\ u.queue = wc.queue /\ u.tx = wc.tx /\ u.reason = wc.reason /\ u.reconnect = Activate(wc.reconnect)
    BY <1>1, <1>2, <1>3 DEF WsClients
  <1> HIDE DEF u
  <1>5. ClientOK(u) /\ LibOK(u, wc_lib) /\ Keeps(wc, u)
    BY <1>2, <1>3, <1>4 DEF ClientOK, LibOK, Keeps
  <1> QED
    BY <1>5 DEF HandleWsclient_ActivateScheduledActions, State, WsOK, u

\* Servicing the send queue only asks the library to write, or for a close.
LEMMA ServiceGives ==
    ASSUME NEW w, ClientOK(w), NEW l, LibOK(w, l)
    PROVE  LET s == ServiceWsclientSendQueue(w, l) IN
           WsOK(s) /\ Keeps(w, s.wc) /\ (w.state # "Running" => s = State(w, l))
  <1> DEFINE k == [l EXCEPT !.writable = TRUE]
  <1>0. WsOK(State(w, l)) /\ Keeps(w, w)
    BY DEF WsOK, State, Keeps
  <1>1. CASE w.state # "Running"
    BY <1>0, <1>1 DEF ServiceWsclientSendQueue, State
  <1>2. CASE w.state = "Running" /\ w.queue # <<>>
    <2>1. LibOK(w, k)
      BY <1>2 DEF LibOK, WsLibs
    <2> HIDE DEF k
    <2>2. WsOK(State(w, k))
      BY <2>1 DEF WsOK, State
    <2> QED
      BY <1>0, <1>2, <2>2 DEF ServiceWsclientSendQueue, State, k
  <1>3. CASE w.state = "Running" /\ w.queue = <<>>
    <2>1. \A reason \in WsReasons \ {"Unknown"} :
             LET s == GracefullyCloseWsclient(w, l, reason) IN WsOK(s) /\ Keeps(w, s.wc)
      BY <1>3, GracefulGives
    <2>2. {"BadUspRecord", "ConnParamsChanged", "GracefulClose"} \subseteq WsReasons \ {"Unknown"}
      BY DEF WsReasons
    <2>3. CASE w.disconnected
      BY <1>3, <2>1, <2>2, <2>3 DEF ServiceWsclientSendQueue
    <2>4. CASE ~w.disconnected /\ w.reconnect = "Activated"
      BY <1>3, <2>1, <2>2, <2>4 DEF ServiceWsclientSendQueue
    <2>5. CASE ~w.disconnected /\ w.reconnect # "Activated" /\ (w.close = "Activated" \/ wc_exit = "activated")
      BY <1>3, <2>1, <2>2, <2>5 DEF ServiceWsclientSendQueue
    <2>6. CASE ~w.disconnected /\ w.reconnect # "Activated" /\ ~(w.close = "Activated" \/ wc_exit = "activated")
      BY <1>0, <1>3, <2>6 DEF ServiceWsclientSendQueue, State
    <2>7. w.disconnected \in BOOLEAN
      BY DEF ClientOK, WsClients
    <2> QED
      BY <2>3, <2>4, <2>5, <2>6, <2>7
  <1> QED
    BY <1>1, <1>2, <1>3

-----------------------------------------------------------------------------
(* What the queue of the client goes through.                              *)

LEMMA AscendingAppend ==
    ASSUME NEW q \in Seq(Int), Ascending(q), NEW e \in Int, \A x \in ToSet(q) : x < e
    PROVE  Ascending(Append(q, e))
  <1> DEFINE p == Append(q, e)
             n == Len(q)
  <1>1. /\ n \in Nat /\ DOMAIN p = 1..(n + 1) /\ p[n + 1] = e /\ DOMAIN q = 1..n
        /\ \A i \in 1..n : p[i] = q[i] /\ q[i] < e
    BY DEF ToSet
  <1> HIDE DEF p, n
  <1>2. ASSUME NEW i \in DOMAIN p, NEW j \in DOMAIN p, i < j PROVE p[i] < p[j]
    <2>1. i \in 1..n /\ (j \in 1..n \/ j = n + 1)
      BY <1>1, <1>2
    <2> QED
      BY <1>1, <1>2, <2>1 DEF Ascending
  <1> QED
    BY <1>2 DEF Ascending, p

LEMMA AscendingTail ==
    ASSUME NEW q \in Seq(Int), q # <<>>, Ascending(q)
    PROVE  Ascending(Tail(q)) /\ \A x \in ToSet(Tail(q)) : Head(q) < x
  <1> DEFINE p == Tail(q)
             n == Len(q)
  <1>1. /\ n \in Nat \ {0} /\ DOMAIN p = 1..(n - 1) /\ DOMAIN q = 1..n /\ Head(q) = q[1]
        /\ \A i \in 1..(n - 1) : p[i] = q[i + 1]
    OBVIOUS
  <1> HIDE DEF p, n
  <1>2. \A i \in 1..(n - 1) : i + 1 \in DOMAIN q /\ 1 \in DOMAIN q /\ 1 < i + 1
    BY <1>1
  <1>3. ASSUME NEW i \in DOMAIN p, NEW j \in DOMAIN p, i < j PROVE p[i] < p[j]
    <2>0. i \in 1..(n - 1) /\ j \in 1..(n - 1)
      BY <1>1
    <2>a. i \in Int /\ j \in Int /\ i + 1 < j + 1
      BY <1>3, <2>0
    <2>b. i + 1 \in DOMAIN q /\ j + 1 \in DOMAIN q
      BY <1>2, <2>0
    <2>1. i + 1 \in DOMAIN q /\ j + 1 \in DOMAIN q /\ i + 1 < j + 1
      BY <2>a, <2>b
    <2> QED
      BY <1>1, <2>1 DEF Ascending
  <1>4. \A i \in DOMAIN p : Head(q) < p[i]
    BY <1>1, <1>2 DEF Ascending
  <1> QED
    BY <1>3, <1>4 DEF Ascending, ToSet, p

LEMMA PrependSet ==
    ASSUME NEW T, NEW q \in Seq(T), NEW e \in T
    PROVE  /\ <<e>> \o q \in Seq(T) /\ <<e>> \o q # <<>> /\ (<<e>> \o q)[1] = e
           /\ ToSet(<<e>> \o q) = {e} \cup ToSet(q)
  <1> DEFINE p == <<e>> \o q
             n == Len(q)
  <1>1. /\ n \in Nat /\ p \in Seq(T) /\ DOMAIN p = 1..(n + 1) /\ p[1] = e /\ DOMAIN q = 1..n
        /\ \A i \in 2..(n + 1) : p[i] = q[i - 1]
    OBVIOUS
  <1> HIDE DEF p, n
  <1>2. ASSUME NEW x \in ToSet(p) PROVE x \in {e} \cup ToSet(q)
    <2>1. PICK i \in 1..(n + 1) : p[i] = x
      BY <1>1 DEF ToSet
    <2>2. i = 1 \/ (i \in 2..(n + 1) /\ i - 1 \in 1..n)
      BY <1>1
    <2> QED
      BY <1>1, <2>1, <2>2 DEF ToSet
  <1>3. ASSUME NEW x \in {e} \cup ToSet(q) PROVE x \in ToSet(p)
    <2>1. CASE x = e
      BY <1>1, <2>1 DEF ToSet
    <2>2. CASE x \in ToSet(q)
      <3>1. PICK i \in 1..n : q[i] = x
        BY <1>1, <2>2 DEF ToSet
      <3>2. i + 1 \in 2..(n + 1) /\ (i + 1) - 1 = i /\ i + 1 \in DOMAIN p
        BY <1>1
      <3> QED
        BY <1>1, <3>1, <3>2 DEF ToSet
    <2> QED
      BY <2>1, <2>2
  <1>4. p # <<>>
    BY <1>1
  <1> QED
    BY <1>1, <1>2, <1>3, <1>4 DEF p

LEMMA AscendingPrepend ==
    ASSUME NEW q \in Seq(Int), Ascending(q), NEW e \in Int, \A x \in ToSet(q) : e < x
    PROVE  Ascending(<<e>> \o q)
  <1> DEFINE p == <<e>> \o q
             n == Len(q)
  <1>1. /\ n \in Nat /\ DOMAIN p = 1..(n + 1) /\ p[1] = e /\ DOMAIN q = 1..n
        /\ \A i \in 2..(n + 1) : p[i] = q[i - 1] /\ i - 1 \in 1..n
        /\ \A i \in 1..n : e < q[i]
    BY DEF ToSet
  <1> HIDE DEF p, n
  <1>2. ASSUME NEW i \in DOMAIN p, NEW j \in DOMAIN p, i < j PROVE p[i] < p[j]
    <2>1. j \in 2..(n + 1) /\ (i = 1 \/ i \in 2..(n + 1))
      BY <1>1, <1>2
    <2>2. CASE i = 1
      BY <1>1, <2>1, <2>2
    <2>3. CASE i \in 2..(n + 1)
      <3>1. i - 1 < j - 1
        BY <1>2, <2>1, <2>3
      <3> QED
        BY <1>1, <2>1, <2>3, <3>1 DEF Ascending
    <2> QED
      BY <2>1, <2>2, <2>3
  <1> QED
    BY <1>2 DEF Ascending, p

\* What may leave the queue of w when the records of old expire: not a record that was begun.
Stays(w, old) == {r \in WsQueued : r \notin old \/ (w.tx # 0 /\ r = Head(w.queue))}

LEMMA ExpiredGives ==
    ASSUME NEW w, ClientOK(w), NEW old \in SUBSET WsRecs
    PROVE  LET v == RemoveExpiredWsclientMessages(w, old) IN
           /\ v \in WsClients /\ v = [w EXCEPT !.queue = v.queue]
           /\ v.queue \in Seq(WsQueued) /\ Ascending(v.queue)
           /\ ToSet(v.queue) = ToSet(w.queue) \cap Stays(w, old)
           /\ w.queue # <<>> /\ (w.tx # 0 \/ w.queue[1] = UspConnect) => v.queue # <<>> /\ v.queue[1] = w.queue[1]
  <1> DEFINE q == Only(w.queue, Stays(w, old))
             v == RemoveExpiredWsclientMessages(w, old)
  <1>1. w \in WsClients /\ w.queue \in Seq(WsQueued) /\ w.queue \in Seq(Int) /\ Ascending(w.queue)
    BY QueueInts DEF ClientOK, WsClients
  <1>2. v = [w EXCEPT !.queue = q]
    BY DEF RemoveExpiredWsclientMessages, Stays
  <1>3. q \in Seq(WsQueued)
    BY <1>1, OnlyAt
  <1>4. ToSet(q) = ToSet(w.queue) \cap Stays(w, old)
    BY <1>1, OnlySet
  <1>5. Ascending(q)
    BY <1>1, OnlyAscending
  <1>6. ASSUME w.queue # <<>>, w.tx # 0 \/ w.queue[1] = UspConnect
        PROVE  q # <<>> /\ q[1] = w.queue[1]
    <2>1. Head(w.queue) = w.queue[1] /\ w.queue[1] \in WsQueued
      BY <1>1, <1>6
    <2>2. UspConnect \notin WsRecs
      BY DEF UspConnect, WsRecs
    <2>3. w.queue[1] \in Stays(w, old)
      BY <1>6, <2>1, <2>2 DEF Stays
    <2> HIDE DEF q
    <2> QED
      BY <1>1, <1>6, <2>3, OnlyHead DEF q
  <1> HIDE DEF q
  <1>7. v \in WsClients /\ v.queue = q
    BY <1>1, <1>2, <1>3 DEF WsClients
  <1> HIDE DEF v
  <1> QED
    BY <1>2, <1>3, <1>4, <1>5, <1>6, <1>7 DEF v

-----------------------------------------------------------------------------
(* The inductive invariant of the client, and what MtpQueue sees of it.    *)

WsMsgs ==
    [type : {"StartClient"}, conf : 1..2]
    \cup [type : {"StopClient", "AllowConnect", "ActivateScheduledActions", "ForceTrustStoreReload"}]
    \cup [type : {"QueueUspRecord"}, rec : WsRecs]

\* The records that were posted and not yet taken by the thread.
IsRecord(m) == m.type = "QueueUspRecord"
Pending(msgs) == {msgs[i].rec : i \in {j \in DOMAIN msgs : msgs[j].type = "QueueUspRecord"}}

\* They are the last that were posted, in their order.
MsgsOK(msgs, n) ==
    /\ msgs \in Seq(WsMsgs)
    /\ \A i, j \in DOMAIN msgs : i < j /\ IsRecord(msgs[i]) /\ IsRecord(msgs[j]) => msgs[i].rec < msgs[j].rec
    /\ Pending(msgs) \subseteq 1..n
    /\ \A p \in Pending(msgs), r \in 1..n : r \notin Pending(msgs) => r < p

\* The client holds records that were taken.
HoldsTaken(w, msgs, n) == ToSet(w.queue) \subseteq {UspConnect} \cup ((1..n) \ Pending(msgs))

\* The last chunk ends its record, or the record is the first of the queue and tx is how much of it is
\* sent.  On a new connection tx may be that of a record of the last one: then the connect record is
\* first, and USP_ASSERT ends the agent.
WsChunk == WsQueued \X (1..2)
Half(w, l) == w.tx = 1 /\ w.queue # <<>> /\ w.queue[1] \in WsRecs /\ l = <<w.queue[1], 1>>
Whole(w, l) == w.tx = 0 /\ l[2] = WsChunks(l[1])
WireOK(w, wire) ==
    /\ wire \in Seq(WsChunk)
    /\ w.state # "Running" => wire = <<>>
    /\ w.state = "Running" /\ wire = <<>> => w.queue # <<>> /\ w.queue[1] = UspConnect
    /\ wire # <<>> => Whole(w, wire[Len(wire)]) \/ Half(w, wire[Len(wire)])

WsIndInv ==
    /\ ClientOK(wc) /\ LibOK(wc, wc_lib)
    /\ wc_conf \in 0..2 /\ wc_exit \in {"no", "activated", "exited", "aborted"} /\ wc_n \in 0..MaxWsRecords
    /\ MsgsOK(wc_msgs, wc_n) /\ HoldsTaken(wc, wc_msgs, wc_n)
    /\ WireOK(wc, wc_wire) /\ WsWellFramed

-----------------------------------------------------------------------------
(* The messages of the data model thread.                                  *)

LEMMA WsMsgForms ==
    ASSUME NEW m \in WsMsgs
    PROVE  /\ m.type \in {"StartClient", "StopClient", "AllowConnect", "ActivateScheduledActions",
                          "ForceTrustStoreReload", "QueueUspRecord"}
           /\ m.type = "StartClient" => m.conf \in 1..2
           /\ IsRecord(m) => m.rec \in WsRecs
  BY DEF WsMsgs, IsRecord

LEMMA MsgsTail ==
    ASSUME NEW n \in Nat, NEW msgs, MsgsOK(msgs, n), msgs # <<>>
    PROVE  /\ Head(msgs) \in WsMsgs /\ MsgsOK(Tail(msgs), n)
           /\ ~IsRecord(Head(msgs)) => Pending(Tail(msgs)) = Pending(msgs)
           /\ IsRecord(Head(msgs)) => LET r == Head(msgs).rec IN
                 /\ r \in WsRecs /\ r \in 1..n /\ r \notin Pending(Tail(msgs))
                 /\ Pending(msgs) = Pending(Tail(msgs)) \cup {r}
                 /\ \A q \in 1..n : q \notin Pending(msgs) => q < r
  <1> DEFINE t == Tail(msgs)
             h == Head(msgs)
             k == Len(msgs)
  <1>1. /\ msgs \in Seq(WsMsgs) /\ Pending(msgs) \subseteq 1..n
        /\ \A p \in Pending(msgs), r \in 1..n : r \notin Pending(msgs) => r < p
        /\ \A i, j \in DOMAIN msgs : i < j /\ IsRecord(msgs[i]) /\ IsRecord(msgs[j]) => msgs[i].rec < msgs[j].rec
    BY DEF MsgsOK
  <1>2. /\ k \in Nat \ {0} /\ DOMAIN msgs = 1..k /\ DOMAIN t = 1..(k - 1) /\ h = msgs[1]
        /\ t \in Seq(WsMsgs) /\ h \in WsMsgs
        /\ \A i \in 1..(k - 1) : t[i] = msgs[i + 1] /\ i + 1 \in 1..k /\ 1 < i + 1
    BY <1>1
  <1>3. \A i \in 1..k : i = 1 \/ (i - 1 \in 1..(k - 1) /\ t[i - 1] = msgs[i])
    <2> TAKE i \in 1..k
    <2>1. CASE i # 1
      <3>1. i - 1 \in 1..(k - 1) /\ (i - 1) + 1 = i
        BY <1>2, <2>1
      <3> QED
        BY <1>2, <3>1
    <2> QED
      BY <2>1
  <1> HIDE DEF t, h, k
  <1>4. Pending(msgs) = Pending(t) \cup (IF IsRecord(h) THEN {h.rec} ELSE {})
    <2>1. ASSUME NEW p \in Pending(msgs) PROVE p \in Pending(t) \cup (IF IsRecord(h) THEN {h.rec} ELSE {})
      <3>1. PICK i \in 1..k : IsRecord(msgs[i]) /\ p = msgs[i].rec
        BY <1>2 DEF Pending, IsRecord
      <3>2. CASE i = 1
        BY <1>2, <3>1, <3>2
      <3>3. CASE i - 1 \in 1..(k - 1) /\ t[i - 1] = msgs[i]
        <4>1. i - 1 \in DOMAIN t /\ IsRecord(t[i - 1]) /\ p = t[i - 1].rec
          BY <1>2, <3>1, <3>3
        <4> QED
          BY <4>1 DEF Pending, IsRecord
      <3> QED
        BY <1>3, <3>2, <3>3
    <2>2. ASSUME NEW p \in Pending(t) PROVE p \in Pending(msgs)
      <3>1. PICK i \in 1..(k - 1) : IsRecord(t[i]) /\ p = t[i].rec
        BY <1>2 DEF Pending, IsRecord
      <3> QED
        BY <1>2, <3>1 DEF Pending, IsRecord
    <2>3. IsRecord(h) => h.rec \in Pending(msgs)
      BY <1>2 DEF Pending, IsRecord
    <2> QED
      BY <2>1, <2>2, <2>3
  <1>5. IsRecord(h) => \A p \in Pending(t) : h.rec < p
    <2> SUFFICES ASSUME IsRecord(h), NEW p \in Pending(t) PROVE h.rec < p
      OBVIOUS
    <2>1. PICK i \in 1..(k - 1) : IsRecord(t[i]) /\ p = t[i].rec
      BY <1>2 DEF Pending, IsRecord
    <2>2. t[i] = msgs[i + 1] /\ i + 1 \in DOMAIN msgs /\ 1 \in DOMAIN msgs /\ 1 < i + 1
      BY <1>2
    <2> QED
      BY <1>1, <1>2, <2>1, <2>2
  <1>6. IsRecord(h) => h.rec \in WsRecs /\ h.rec \in 1..n /\ h.rec \notin Pending(t)
    <2> HAVE IsRecord(h)
    <2>1. h.rec \in 1..n /\ h.rec \in WsRecs
      BY <1>1, <1>2, <1>4, WsMsgForms
    <2> QED
      BY <1>5, <2>1
  <1>7. MsgsOK(t, n)
    <2>1. ASSUME NEW i \in DOMAIN t, NEW j \in DOMAIN t, i < j, IsRecord(t[i]), IsRecord(t[j])
          PROVE  t[i].rec < t[j].rec
      <3>0. i \in 1..(k - 1) /\ j \in 1..(k - 1)
        BY <1>2
      <3>1. i \in Int /\ j \in Int /\ i + 1 < j + 1
        BY <2>1, <3>0
      <3>2. i + 1 \in DOMAIN msgs /\ j + 1 \in DOMAIN msgs /\ t[i] = msgs[i + 1] /\ t[j] = msgs[j + 1]
        BY <1>2, <3>0
      <3>3. IsRecord(msgs[i + 1]) /\ IsRecord(msgs[j + 1])
        BY <2>1, <3>2
      <3>4. msgs[i + 1].rec < msgs[j + 1].rec
        BY <1>1, <3>1, <3>2, <3>3
      <3> QED
        BY <3>2, <3>4
    <2>2. ASSUME NEW p \in Pending(t), NEW r \in 1..n, r \notin Pending(t) PROVE r < p
      <3>1. CASE r \in Pending(msgs)
        BY <1>4, <1>5, <2>2, <3>1
      <3>2. CASE r \notin Pending(msgs)
        BY <1>1, <1>4, <3>2
      <3> QED
        BY <3>1, <3>2
    <2>3. Pending(t) \subseteq 1..n
      BY <1>1, <1>4
    <2> QED
      BY <1>2, <2>1, <2>2, <2>3 DEF MsgsOK
  <1>8. IsRecord(h) => \A q \in 1..n : q \notin Pending(msgs) => q < h.rec
    BY <1>1, <1>4
  <1> QED
    BY <1>2, <1>4, <1>6, <1>7, <1>8 DEF t, h

LEMMA MsgsAppend ==
    ASSUME NEW n \in Nat, NEW msgs, MsgsOK(msgs, n), NEW m \in WsMsgs
    PROVE  /\ ~IsRecord(m) => MsgsOK(Append(msgs, m), n) /\ Pending(Append(msgs, m)) = Pending(msgs)
           /\ IsRecord(m) /\ m.rec = n + 1 =>
                 MsgsOK(Append(msgs, m), n + 1) /\ Pending(Append(msgs, m)) = Pending(msgs) \cup {n + 1}
  <1> DEFINE t == Append(msgs, m)
             k == Len(msgs)
  <1>1. /\ msgs \in Seq(WsMsgs) /\ Pending(msgs) \subseteq 1..n
        /\ \A p \in Pending(msgs), r \in 1..n : r \notin Pending(msgs) => r < p
        /\ \A i, j \in DOMAIN msgs : i < j /\ IsRecord(msgs[i]) /\ IsRecord(msgs[j]) => msgs[i].rec < msgs[j].rec
    BY DEF MsgsOK
  <1>2. /\ k \in Nat /\ DOMAIN msgs = 1..k /\ DOMAIN t = 1..(k + 1) /\ t[k + 1] = m /\ t \in Seq(WsMsgs)
        /\ \A i \in 1..k : t[i] = msgs[i] /\ i \in 1..(k + 1)
    BY <1>1
  <1>3. \A i \in 1..(k + 1) : i \in 1..k \/ i = k + 1
    BY <1>2
  <1> HIDE DEF t, k
  <1>4. Pending(t) = Pending(msgs) \cup (IF IsRecord(m) THEN {m.rec} ELSE {})
    <2>1. ASSUME NEW p \in Pending(t) PROVE p \in Pending(msgs) \cup (IF IsRecord(m) THEN {m.rec} ELSE {})
      <3>1. PICK i \in 1..(k + 1) : IsRecord(t[i]) /\ p = t[i].rec
        BY <1>2 DEF Pending, IsRecord
      <3> QED
        BY <1>2, <1>3, <3>1 DEF Pending, IsRecord
    <2>2. ASSUME NEW p \in Pending(msgs) PROVE p \in Pending(t)
      <3>1. PICK i \in 1..k : IsRecord(msgs[i]) /\ p = msgs[i].rec
        BY <1>2 DEF Pending, IsRecord
      <3> QED
        BY <1>2, <3>1 DEF Pending, IsRecord
    <2>3. k + 1 \in DOMAIN t
      BY <1>2
    <2>4. IsRecord(m) => m.rec \in Pending(t)
      BY <1>2, <2>3 DEF Pending, IsRecord
    <2> QED
      BY <2>1, <2>2, <2>4
  <1>5. CASE ~IsRecord(m)
    <2>1. ASSUME NEW i \in DOMAIN t, NEW j \in DOMAIN t, i < j, IsRecord(t[i]), IsRecord(t[j])
          PROVE  t[i].rec < t[j].rec
      <3>1. i \in 1..k /\ j \in 1..k
        BY <1>2, <1>3, <1>5, <2>1
      <3> QED
        BY <1>1, <1>2, <2>1, <3>1
    <2>2. Pending(t) = Pending(msgs)
      BY <1>4, <1>5
    <2> QED
      BY <1>1, <1>2, <1>5, <2>1, <2>2 DEF MsgsOK, t
  <1>6. CASE IsRecord(m) /\ m.rec = n + 1
    <2>1. Pending(t) = Pending(msgs) \cup {n + 1}
      BY <1>4, <1>6
    <2>2. ASSUME NEW i \in DOMAIN t, NEW j \in DOMAIN t, i < j, IsRecord(t[i]), IsRecord(t[j])
          PROVE  t[i].rec < t[j].rec
      <3>1. i \in 1..k /\ (j \in 1..k \/ j = k + 1)
        BY <1>2, <1>3, <2>2
      <3>2. CASE j \in 1..k
        BY <1>1, <1>2, <2>2, <3>1, <3>2
      <3>3. CASE j = k + 1
        <4>1. msgs[i].rec \in Pending(msgs) /\ t[i] = msgs[i]
          BY <1>2, <2>2, <3>1 DEF Pending, IsRecord
        <4> QED
          BY <1>1, <1>2, <1>6, <3>3, <4>1
      <3> QED
        BY <3>1, <3>2, <3>3
    <2>3. ASSUME NEW p \in Pending(t), NEW r \in 1..(n + 1), r \notin Pending(t) PROVE r < p
      <3>1. r \in 1..n /\ r \notin Pending(msgs)
        BY <2>1, <2>3
      <3> QED
        BY <1>1, <2>1, <3>1
    <2>4. Pending(t) \subseteq 1..(n + 1)
      BY <1>1, <2>1
    <2> QED
      BY <1>2, <1>6, <2>1, <2>2, <2>3, <2>4 DEF MsgsOK, t
  <1> QED
    BY <1>5, <1>6 DEF t

-----------------------------------------------------------------------------
(* What MtpQueue sees of the client.                                       *)

WsOwn == Disconnects \cup {UspConnect}
WsWhole == {<<r, WsChunks(r)>> : r \in WsRecs \ Disconnects}
Held(w) == ToSet(w.queue) \ WsOwn
Begun(w) == w.state = "Running" /\ w.tx # 0 /\ Head(w.queue) \notin WsOwn
Offers(msgs, n) == (1..n) \ (Pending(msgs) \cup Disconnects)
SentOn(wire) == LET whole == Only(wire, WsWhole) IN [i \in DOMAIN whole |-> whole[i][1]]

StepOfWs == [WsQueue!QNext]_(WsQueue!qVars)

\* A record that comes after those of before; the records that may leave the queue unsent.
OfferedTo(r) ==
    /\ r \in WsRecs \ Disconnects /\ \A q \in Offers(wc_msgs, wc_n) : q < r
    /\ Offers(wc_msgs, wc_n)' = Offers(wc_msgs, wc_n) \cup {r}
First(r, H) == r \in H /\ \A q \in H : r <= q
MayLeave == SUBSET {r \in Held(wc) : ~(Begun(wc) /\ First(r, Held(wc)))}

SameOffers == Offers(wc_msgs, wc_n)' = Offers(wc_msgs, wc_n)
SameOpen == (wc'.state # "Idle") = (wc.state # "Idle")
SameUp == (wc'.state = "Running") = (wc.state = "Running")
SameHeld == Held(wc') = Held(wc)
SameBegun == Begun(wc') = Begun(wc)
SameSent == SentOn(wc_wire') = SentOn(wc_wire)

USE DEF StepOfWs, WsOwn, WsWhole, Held, Begun, Offers, SentOn, Pending, OfferedTo, First, MayLeave,
        SameOffers, SameOpen, SameUp, SameHeld, SameBegun, SameSent

LEMMA WsStutters ==
    ASSUME SameOpen, SameUp, SameOffers, SameHeld, SameBegun, SameSent
    PROVE  StepOfWs
  BY DEF WsQueue!qVars

LEMMA WsOpens ==
    ASSUME wc.state = "Idle", wc'.state # "Idle", SameUp, SameOffers, SameHeld, SameBegun, SameSent
    PROVE  StepOfWs
  <1>1. WsQueue!Open
    BY DEF WsQueue!Open
  <1> QED
    BY <1>1 DEF WsQueue!QNext

LEMMA WsGoesUp ==
    ASSUME wc.state \notin {"Idle", "Running"}, wc'.state = "Running", SameOffers, SameHeld, SameBegun, SameSent
    PROVE  StepOfWs
  <1>1. WsQueue!Up
    BY DEF WsQueue!Up
  <1> QED
    BY <1>1 DEF WsQueue!QNext

LEMMA WsGoesDown ==
    ASSUME wc.state = "Running", wc'.state \notin {"Idle", "Running"}, SameOffers, SameHeld, ~Begun(wc'),
           SentOn(wc_wire') = <<>>
    PROVE  StepOfWs
  <1>1. WsQueue!Down
    BY DEF WsQueue!Down
  <1> QED
    BY <1>1 DEF WsQueue!QNext

LEMMA WsEnds ==
    ASSUME wc.state # "Idle", wc'.state = "Idle", Held(wc') = {}, ~Begun(wc'), SentOn(wc_wire') = <<>>,
           SameOffers \/ \E r \in WsRecs : OfferedTo(r)
    PROVE  StepOfWs
  <1>1. WsQueue!End
    BY DEF WsQueue!End, WsQueue!Offered
  <1> QED
    BY <1>1 DEF WsQueue!QNext

LEMMA WsOffers ==
    ASSUME NEW r, OfferedTo(r), SameOpen, SameUp, SameBegun, SameSent,
           NEW old \in MayLeave,
           IF wc.state # "Idle" THEN Held(wc') = (Held(wc) \ old) \cup {r} ELSE old = {} /\ SameHeld
    PROVE  StepOfWs
  <1>1. WsQueue!Offer
    BY DEF WsQueue!Offer, WsQueue!Offered, WsQueue!MayExpire, WsQueue!IsFirst
  <1> QED
    BY <1>1 DEF WsQueue!QNext

LEMMA WsExpires ==
    ASSUME SameOffers, SameOpen, SameUp, SameBegun, SameSent, NEW old \in MayLeave, Held(wc') = Held(wc) \ old
    PROVE  StepOfWs
  <1>1. WsQueue!Expire
    BY DEF WsQueue!Expire, WsQueue!MayExpire, WsQueue!IsFirst
  <1> QED
    BY <1>1 DEF WsQueue!QNext

LEMMA WsBegins ==
    ASSUME SameOffers, SameOpen, SameUp, SameSent, wc.state = "Running", NEW old \in MayLeave,
           Held(wc') = Held(wc) \ old, Held(wc') # {}, Begun(wc')
    PROVE  StepOfWs
  <1>1. WsQueue!Begin
    BY DEF WsQueue!Begin, WsQueue!MayExpire, WsQueue!IsFirst
  <1> QED
    BY <1>1 DEF WsQueue!QNext

LEMMA WsSends ==
    ASSUME SameOffers, SameOpen, SameUp, wc.state = "Running", NEW old \in MayLeave,
           NEW r \in Held(wc), First(r, Held(wc) \ old),
           Held(wc') = Held(wc) \ (old \cup {r}), ~Begun(wc'), SentOn(wc_wire') = Append(SentOn(wc_wire), r)
    PROVE  StepOfWs
  <1>1. WsQueue!Send
    BY DEF WsQueue!Send, WsQueue!MayExpire, WsQueue!IsFirst
  <1> QED
    BY <1>1 DEF WsQueue!QNext

HIDE DEF StepOfWs, WsOwn, WsWhole, Held, Begun, Offers, SentOn, Pending, OfferedTo, First, MayLeave,
         SameOffers, SameOpen, SameUp, SameHeld, SameBegun, SameSent

-----------------------------------------------------------------------------
(* The steps of the client.                                                *)

\* The queue and the connection stay as they are.
LEMMA KeptStep ==
    ASSUME WsIndInv, ClientOK(wc'), LibOK(wc', wc_lib'), Keeps(wc, wc'), wc_wire' = wc_wire,
           MsgsOK(wc_msgs', wc_n'), HoldsTaken(wc', wc_msgs', wc_n'), SameOffers,
           wc_conf' \in 0..2, wc_exit' \in {"no", "activated", "exited", "aborted"}, wc_n' \in 0..MaxWsRecords
    PROVE  WsIndInv' /\ StepOfWs
  <1>1. WireOK(wc', wc_wire') /\ WsWellFramed'
    BY DEF WsIndInv, WireOK, Keeps, Whole, Half, WsWellFramed
  <1>2. WsIndInv'
    BY <1>1 DEF WsIndInv
  <1>3. SameOpen /\ SameUp /\ SameHeld /\ SameBegun /\ SameSent
    BY DEF Keeps, SameOpen, SameUp, SameHeld, SameBegun, SameSent, Held, Begun
  <1> QED
    BY <1>2, <1>3, WsStutters

\* The same, by a callback of the library.
LEMMA CalledStep ==
    ASSUME WsIndInv, ClientOK(wc'), LibOK(wc', wc_lib'), Keeps(wc, wc'), UNCHANGED <<wc_wire, WsOthers>>
    PROVE  WsIndInv' /\ StepOfWs
  <1>1. UNCHANGED <<wc_msgs, wc_n, wc_conf, wc_exit, wc_wire>>
    BY DEF WsOthers
  <1>2. HoldsTaken(wc', wc_msgs', wc_n')
    BY <1>1 DEF WsIndInv, HoldsTaken, Keeps
  <1>3. SameOffers
    BY <1>1 DEF SameOffers, Offers
  <1> QED
    BY <1>1, <1>2, <1>3, KeptStep DEF WsIndInv

\* A message is posted.
LEMMA PostedStep ==
    ASSUME WsIndInv, UNCHANGED <<wc, wc_lib, wc_wire>>, MsgsOK(wc_msgs', wc_n'),
           \/ wc_n' = wc_n /\ Pending(wc_msgs') = Pending(wc_msgs)
           \/ wc_n' = wc_n + 1 /\ Pending(wc_msgs') = Pending(wc_msgs) \cup {wc_n + 1},
           wc_conf' \in 0..2, wc_exit' \in {"no", "activated", "exited", "aborted"}, wc_n' \in 0..MaxWsRecords
    PROVE  WsIndInv' /\ StepOfWs
  <1>1. ClientOK(wc') /\ LibOK(wc', wc_lib') /\ Keeps(wc, wc')
    BY DEF WsIndInv, Keeps
  <1>2. wc_n \in Nat
    BY DEF WsIndInv
  <1>3. (1..wc_n') \ Pending(wc_msgs') = (1..wc_n) \ Pending(wc_msgs)
    <2>1. CASE wc_n' = wc_n /\ Pending(wc_msgs') = Pending(wc_msgs)
      BY <2>1
    <2>2. CASE wc_n' = wc_n + 1 /\ Pending(wc_msgs') = Pending(wc_msgs) \cup {wc_n + 1}
      BY <1>2, <2>2
    <2> QED
      BY <2>1, <2>2
  <1>4. HoldsTaken(wc', wc_msgs', wc_n')
    BY <1>3 DEF WsIndInv, HoldsTaken
  <1>5. SameOffers
    BY <1>3 DEF SameOffers, Offers
  <1> QED
    BY <1>1, <1>4, <1>5, KeptStep

LEMMA NoWsclientHas == NoWsclient.state = "Idle" /\ NoWsclient.queue = <<>> /\ NoWsclient.tx = 0
  BY DEF NoWsclient

LEMMA NothingSent == SentOn(<<>>) = <<>>
  <1>1. Only(<<>>, WsWhole) = <<>>
    BY OnlyEmpty
  <1>2. SentOn(<<>>) = [i \in {} |-> Only(<<>>, WsWhole)[i][1]]
    BY <1>1 DEF SentOn
  <1>3. <<>> = [i \in 1..0 |-> Only(<<>>, WsWhole)[i][1]] /\ 1..0 = {}
    OBVIOUS
  <1> QED
    BY <1>2, <1>3

\* The client is gone, or waits for another connection.
LEMMA GivenStep ==
    ASSUME WsIndInv, wc.state # "Idle", NEW s, WsOK(s), Gives(wc, s), Become(s), wc_wire' = <<>>, UNCHANGED WsOthers
    PROVE  WsIndInv' /\ StepOfWs
  <1>1. UNCHANGED <<wc_msgs, wc_n, wc_conf, wc_exit>>
    BY DEF WsOthers
  <1>2. wc' = s.wc /\ wc_lib' = s.lib /\ ClientOK(wc') /\ LibOK(wc', wc_lib')
    BY DEF Become, WsOK
  <1>3. (wc' = NoWsclient /\ wc'.queue = <<>>) \/ Waits(wc, wc')
    BY <1>2, NoWsclientHas DEF Gives, State
  <1>4. wc'.state # "Running"
    BY <1>3, NoWsclientHas DEF Waits
  <1>5. ToSet(<<>>) = {}
    BY DEF ToSet
  <1>6. HoldsTaken(wc', wc_msgs', wc_n')
    BY <1>1, <1>3, <1>5 DEF WsIndInv, HoldsTaken, Waits
  <1>7. WireOK(wc', wc_wire') /\ WsWellFramed'
    BY <1>4 DEF WireOK, WsWellFramed
  <1>8. WsIndInv'
    BY <1>1, <1>2, <1>6, <1>7 DEF WsIndInv
  <1>9. SameOffers /\ ~Begun(wc') /\ SentOn(wc_wire') = <<>>
    BY <1>1, <1>4, NothingSent DEF SameOffers, Offers, Begun
  <1>10. CASE wc' = NoWsclient
    <2>1. wc'.state = "Idle" /\ Held(wc') = {}
      BY <1>5, <1>10, NoWsclientHas DEF Held
    <2> QED
      BY <1>8, <1>9, <2>1, WsEnds
  <1>11. CASE Waits(wc, wc') /\ wc.state = "Running"
    <2>1. SameHeld /\ wc'.state \notin {"Idle", "Running"}
      BY <1>11 DEF SameHeld, Held, Waits
    <2> QED
      BY <1>8, <1>9, <1>11, <2>1, WsGoesDown
  <1>12. CASE Waits(wc, wc') /\ wc.state # "Running"
    <2>1. SameHeld /\ SameOpen /\ SameUp /\ SameBegun
      BY <1>12 DEF SameHeld, Held, Waits, SameOpen, SameUp, SameBegun, Begun
    <2>2. wc_wire = <<>>
      BY <1>12 DEF WsIndInv, WireOK
    <2>3. SameSent
      BY <2>2 DEF SameSent
    <2> QED
      BY <1>8, <1>9, <2>1, <2>3, WsStutters
  <1> QED
    BY <1>3, <1>10, <1>11, <1>12

\* A connection is lost; w is the client with the reason for it.
LEMMA LostStep ==
    ASSUME WsIndInv, wc.state # "Idle", NEW w \in WsClients, w.conf = wc.conf, w.queue = wc.queue, w.tx = wc.tx,
           Lost(w), UNCHANGED WsOthers
    PROVE  WsIndInv' /\ StepOfWs
  <1> DEFINE s == HandleWscEvent_Destroyed(w)
  <1>1. w.conf # 0 /\ Ascending(w.queue)
    BY DEF WsIndInv, ClientOK
  <1>2. WsOK(s) /\ Gives(w, s)
    BY <1>1, DestroyedGives
  <1>3. Become(s) /\ wc_wire' = <<>>
    BY DEF Lost
  <1> HIDE DEF s
  <1>4. Gives(wc, s)
    BY <1>2 DEF Gives, Waits
  <1> QED
    BY <1>2, <1>3, <1>4, GivenStep

-----------------------------------------------------------------------------
(* The data model thread.                                                  *)

LEMMA MessageStep ==
    ASSUME WsIndInv, UNCHANGED <<wc, wc_lib, wc_wire, wc_n>>, NEW m \in WsMsgs, ~IsRecord(m), Post(m),
           wc_conf' \in 0..2, wc_exit' \in {"no", "activated", "exited", "aborted"}
    PROVE  WsIndInv' /\ StepOfWs
  <1>1. wc_n \in 0..MaxWsRecords /\ wc_n \in Nat /\ MsgsOK(wc_msgs, wc_n)
    BY DEF WsIndInv
  <1>2. MsgsOK(Append(wc_msgs, m), wc_n) /\ Pending(Append(wc_msgs, m)) = Pending(wc_msgs)
    BY <1>1, MsgsAppend
  <1>3. wc_msgs' = Append(wc_msgs, m)
    BY DEF Post
  <1> QED
    BY <1>1, <1>2, <1>3, PostedStep

LEMMA StartClientStep == ASSUME WsIndInv, WSCLIENT_StartClient PROVE WsIndInv' /\ StepOfWs
  <1> DEFINE m == [type |-> "StartClient", conf |-> wc_conf']
  <1>1. wc_conf' \in 1..2 /\ Post(m) /\ UNCHANGED <<wc, wc_lib, wc_wire, wc_n, wc_exit>>
    BY DEF WSCLIENT_StartClient
  <1>2. m \in WsMsgs /\ ~IsRecord(m)
    BY <1>1 DEF WsMsgs, IsRecord
  <1>3. wc_conf' \in 0..2 /\ wc_exit' \in {"no", "activated", "exited", "aborted"}
    BY <1>1 DEF WsIndInv
  <1> HIDE DEF m
  <1> QED
    BY <1>1, <1>2, <1>3, MessageStep

LEMMA StopClientStep == ASSUME WsIndInv, WSCLIENT_StopClient PROVE WsIndInv' /\ StepOfWs
  <1> DEFINE m == [type |-> "StopClient"]
  <1>1. wc_conf' = 0 /\ Post(m) /\ UNCHANGED <<wc, wc_lib, wc_wire, wc_n, wc_exit>>
    BY DEF WSCLIENT_StopClient
  <1>2. m \in WsMsgs /\ ~IsRecord(m)
    BY DEF WsMsgs, IsRecord
  <1>3. wc_conf' \in 0..2 /\ wc_exit' \in {"no", "activated", "exited", "aborted"}
    BY <1>1 DEF WsIndInv
  <1> HIDE DEF m
  <1> QED
    BY <1>1, <1>2, <1>3, MessageStep

LEMMA AllowConnectStep == ASSUME WsIndInv, WSCLIENT_AllowConnect PROVE WsIndInv' /\ StepOfWs
  <1> DEFINE m == [type |-> "AllowConnect"]
  <1>1. Post(m) /\ UNCHANGED <<wc, wc_lib, wc_wire, wc_n, wc_exit, wc_conf>>
    BY DEF WSCLIENT_AllowConnect
  <1>2. m \in WsMsgs /\ ~IsRecord(m)
    BY DEF WsMsgs, IsRecord
  <1>3. wc_conf' \in 0..2 /\ wc_exit' \in {"no", "activated", "exited", "aborted"}
    BY <1>1 DEF WsIndInv
  <1> HIDE DEF m
  <1> QED
    BY <1>1, <1>2, <1>3, MessageStep

LEMMA ActivateScheduledActionsStep ==
    ASSUME WsIndInv, WSCLIENT_ActivateScheduledActions PROVE WsIndInv' /\ StepOfWs
  <1> DEFINE m == [type |-> "ActivateScheduledActions"]
  <1>1. Post(m) /\ wc_exit' \in {wc_exit, "activated"} /\ UNCHANGED <<wc, wc_lib, wc_wire, wc_n, wc_conf>>
    BY DEF WSCLIENT_ActivateScheduledActions
  <1>2. m \in WsMsgs /\ ~IsRecord(m)
    BY DEF WsMsgs, IsRecord
  <1>3. wc_conf' \in 0..2 /\ wc_exit' \in {"no", "activated", "exited", "aborted"}
    BY <1>1 DEF WsIndInv
  <1> HIDE DEF m
  <1> QED
    BY <1>1, <1>2, <1>3, MessageStep

LEMMA QueueRecordStep == ASSUME WsIndInv, WSCLIENT_QueueBinaryMessage PROVE WsIndInv' /\ StepOfWs
  <1> DEFINE m == [type |-> "QueueUspRecord", rec |-> wc_n']
  <1>1. /\ wc_n < MaxWsRecords /\ wc_n' = wc_n + 1 /\ Post(m)
        /\ UNCHANGED <<wc, wc_lib, wc_wire, wc_exit, wc_conf>>
    BY DEF WSCLIENT_QueueBinaryMessage
  <1>2. wc_n \in Nat /\ wc_n' \in 0..MaxWsRecords /\ wc_n' \in WsRecs /\ MsgsOK(wc_msgs, wc_n)
    BY <1>1 DEF WsIndInv, WsRecs
  <1>3. m \in WsMsgs /\ IsRecord(m) /\ m.rec = wc_n + 1
    BY <1>1, <1>2 DEF WsMsgs, IsRecord
  <1>4. wc_msgs' = Append(wc_msgs, m)
    BY <1>1 DEF Post
  <1>5. wc_conf' \in 0..2 /\ wc_exit' \in {"no", "activated", "exited", "aborted"}
    BY <1>1 DEF WsIndInv
  <1> HIDE DEF m
  <1>6. MsgsOK(wc_msgs', wc_n') /\ Pending(wc_msgs') = Pending(wc_msgs) \cup {wc_n + 1}
    BY <1>1, <1>2, <1>3, <1>4, MsgsAppend
  <1> QED
    BY <1>1, <1>2, <1>5, <1>6, PostedStep

LEMMA RestartStep == ASSUME WsIndInv, RestartWithNewTrustStore PROVE WsIndInv' /\ StepOfWs
  <1> DEFINE a == [type |-> "StopClient"]
             b == [type |-> "ForceTrustStoreReload"]
             c == [type |-> "StartClient", conf |-> wc_conf]
             x == Append(wc_msgs, a)
             y == Append(x, b)
             z == Append(y, c)
  <1>1. wc_msgs' = wc_msgs \o <<a, b, c>> /\ wc_conf # 0 /\ UNCHANGED <<wc, wc_lib, wc_wire, wc_n, wc_exit, wc_conf>>
    BY DEF RestartWithNewTrustStore
  <1>2. wc_n \in 0..MaxWsRecords /\ wc_n \in Nat /\ MsgsOK(wc_msgs, wc_n) /\ wc_msgs \in Seq(WsMsgs) /\ wc_conf \in 1..2
    BY <1>1 DEF WsIndInv, MsgsOK
  <1>3. a \in WsMsgs /\ b \in WsMsgs /\ c \in WsMsgs /\ ~IsRecord(a) /\ ~IsRecord(b) /\ ~IsRecord(c)
    BY <1>2 DEF WsMsgs, IsRecord
  <1> HIDE DEF a, b, c
  <1>4. wc_msgs' = z
    BY <1>1, <1>2, <1>3
  <1>5. MsgsOK(x, wc_n) /\ Pending(x) = Pending(wc_msgs)
    BY <1>2, <1>3, MsgsAppend
  <1> HIDE DEF x
  <1>6. MsgsOK(y, wc_n) /\ Pending(y) = Pending(wc_msgs)
    BY <1>2, <1>3, <1>5, MsgsAppend
  <1> HIDE DEF y
  <1>7. MsgsOK(z, wc_n) /\ Pending(z) = Pending(wc_msgs)
    BY <1>2, <1>3, <1>6, MsgsAppend
  <1> HIDE DEF z
  <1>8. wc_conf' \in 0..2 /\ wc_exit' \in {"no", "activated", "exited", "aborted"}
    BY <1>1 DEF WsIndInv
  <1> QED
    BY <1>1, <1>2, <1>4, <1>7, <1>8, PostedStep

-----------------------------------------------------------------------------
(* The callbacks, except for Transmit.                                     *)

LEMMA ConnectionEndsStep == ASSUME WsIndInv, ConnectionEnds PROVE WsIndInv' /\ StepOfWs
  <1> DEFINE why == IF wc.state = "Running" THEN "ServerDisconnect" ELSE "LibWebSocketsError"
             w == ReasonOr(wc, why)
  <1>1. wc.state # "Idle" /\ Lost(w) /\ UNCHANGED WsOthers
    BY DEF ConnectionEnds
  <1>2. why \in WsReasons /\ wc \in WsClients
    BY DEF WsReasons, WsIndInv, ClientOK
  <1> HIDE DEF why
  <1>3. w \in WsClients /\ w.conf = wc.conf /\ w.queue = wc.queue /\ w.tx = wc.tx
    BY <1>2 DEF ReasonOr, WsClients
  <1> HIDE DEF w
  <1> QED
    BY <1>1, <1>3, LostStep

LEMMA ReceiveBadStep == ASSUME WsIndInv, HandleWscEvent_ReceiveBad PROVE WsIndInv' /\ StepOfWs
  <1> DEFINE v == [wc EXCEPT !.pings = 0]
             w == ReasonOr(v, "BadUspRecord")
  <1>1. wc.state # "Idle" /\ Lost(w) /\ UNCHANGED WsOthers
    BY DEF HandleWscEvent_ReceiveBad
  <1>2. "BadUspRecord" \in WsReasons /\ wc \in WsClients /\ 0 \in 0..(AllowedMissingPongs + 1)
    BY DEF WsReasons, WsIndInv, ClientOK
  <1>3. v \in WsClients /\ v.conf = wc.conf /\ v.queue = wc.queue /\ v.tx = wc.tx
    BY <1>2 DEF WsClients
  <1> HIDE DEF v
  <1>4. w \in WsClients /\ w.conf = wc.conf /\ w.queue = wc.queue /\ w.tx = wc.tx
    BY <1>2, <1>3 DEF ReasonOr, WsClients
  <1> HIDE DEF w
  <1> QED
    BY <1>1, <1>4, LostStep

LEMMA PongStep == ASSUME WsIndInv, HandleWscEvent_PongReceived PROVE WsIndInv' /\ StepOfWs
  <1>1. wc' = [wc EXCEPT !.pings = 0] /\ UNCHANGED <<wc_lib, wc_wire, WsOthers>>
    BY DEF HandleWscEvent_PongReceived
  <1>2. wc \in WsClients /\ 0 \in 0..(AllowedMissingPongs + 1)
    BY DEF WsIndInv, ClientOK
  <1>3. /\ wc' \in WsClients /\ wc'.conf = wc.conf /\ wc'.at = wc.at /\ wc'.state = wc.state
        /\ wc'.queue = wc.queue /\ wc'.tx = wc.tx /\ wc'.reconnect = wc.reconnect /\ wc'.reason = wc.reason
    BY <1>1, <1>2 DEF WsClients
  <1>4. ClientOK(wc') /\ LibOK(wc', wc_lib') /\ Keeps(wc, wc')
    BY <1>1, <1>3 DEF WsIndInv, ClientOK, LibOK, Keeps
  <1> QED
    BY <1>1, <1>4, CalledStep

LEMMA PingTimerStep == ASSUME WsIndInv, HandleWscEvent_PingTimer PROVE WsIndInv' /\ StepOfWs
  <1>1. /\ wc' = [wc EXCEPT !.ping = TRUE] /\ wc_lib' = [wc_lib EXCEPT !.writable = TRUE]
        /\ wc.state = "Running" /\ UNCHANGED <<wc_wire, WsOthers>>
    BY DEF HandleWscEvent_PingTimer, Become, State
  <1>2. wc \in WsClients /\ wc_lib \in WsLibs
    BY DEF WsIndInv, ClientOK, LibOK
  <1>3. /\ wc' \in WsClients /\ wc'.conf = wc.conf /\ wc'.at = wc.at /\ wc'.state = wc.state
        /\ wc'.queue = wc.queue /\ wc'.tx = wc.tx /\ wc'.reconnect = wc.reconnect /\ wc'.reason = wc.reason
    BY <1>1, <1>2 DEF WsClients
  <1>4. wc_lib' \in WsLibs
    BY <1>1, <1>2 DEF WsLibs
  <1>5. ClientOK(wc') /\ LibOK(wc', wc_lib') /\ Keeps(wc, wc')
    BY <1>1, <1>3, <1>4 DEF WsIndInv, ClientOK, LibOK, Keeps
  <1> QED
    BY <1>1, <1>5, CalledStep

LEMMA RetryTimerStep == ASSUME WsIndInv, HandleWscEvent_RetryTimer PROVE WsIndInv' /\ StepOfWs
  <1> DEFINE s == AttemptWsclientConnect(wc)
  <1>1. Become(s) /\ wc.state = "Retrying" /\ UNCHANGED <<wc_wire, WsOthers>>
    BY DEF HandleWscEvent_RetryTimer
  <1>2. wc \in WsClients /\ wc.conf # 0 /\ Ascending(wc.queue)
    BY <1>1 DEF WsIndInv, ClientOK
  <1>3. WsOK(s) /\ Waits(wc, s.wc)
    BY <1>2, AttemptGives
  <1> HIDE DEF s
  <1>4. ClientOK(wc') /\ LibOK(wc', wc_lib') /\ Keeps(wc, wc')
    BY <1>1, <1>3 DEF Become, WsOK, Waits, Keeps
  <1> QED
    BY <1>1, <1>4, CalledStep

\* The connection is made: the connect record is in front.
LEMMA ConnectedStep == ASSUME WsIndInv, HandleWscEvent_Connected PROVE WsIndInv' /\ StepOfWs
  <1> DEFINE o == Only(wc.queue, WsRecs \ Disconnects)
             q == <<UspConnect>> \o o
             v == [wc EXCEPT !.state = "Running"]
  <1>1. /\ wc.state = "AwaitingConnected" /\ wc' = QueueUspConnectRecord_Wsclient(v)
        /\ UNCHANGED <<wc_lib, wc_wire, WsOthers>>
    BY DEF HandleWscEvent_Connected
  <1>2. wc \in WsClients /\ wc.queue \in Seq(WsQueued) /\ wc.queue \in Seq(Int) /\ Ascending(wc.queue)
    BY QueueInts DEF WsIndInv, ClientOK, WsClients
  <1>3. v \in WsClients /\ v = [wc EXCEPT !.state = "Running"] /\ v.queue = wc.queue
    BY <1>2 DEF WsClients, WsStates
  <1>4. o \in Seq(WsQueued) /\ ToSet(o) = ToSet(wc.queue) \cap (WsRecs \ Disconnects) /\ Ascending(o)
    BY <1>2, OnlyAt, OnlySet, OnlyAscending
  <1>5. wc' = [v EXCEPT !.queue = q]
    BY <1>1, <1>3 DEF QueueUspConnectRecord_Wsclient
  <1> HIDE DEF o
  <1>6. UspConnect \in WsQueued /\ UspConnect \in Int /\ UspConnect \notin WsRecs /\ \A x \in WsRecs : UspConnect < x
    BY DEF WsQueued, UspConnect, WsRecs
  <1>7. /\ q \in Seq(WsQueued) /\ q # <<>> /\ q[1] = UspConnect /\ Head(q) = UspConnect
        /\ ToSet(q) = {UspConnect} \cup ToSet(o)
    <2>1. /\ q \in Seq(WsQueued) /\ q # <<>> /\ q[1] = UspConnect
          /\ ToSet(q) = {UspConnect} \cup ToSet(o)
      BY <1>4, <1>6, PrependSet
    <2> HIDE DEF q
    <2> QED
      BY <2>1
  <1>8. Ascending(q)
    <2>1. \A x \in ToSet(o) : UspConnect < x
      BY <1>4, <1>6
    <2>2. o \in Seq(Int)
      BY <1>4, QueueInts
    <2> QED
      BY <1>4, <1>6, <2>1, <2>2, AscendingPrepend
  <1> HIDE DEF q
  <1>9. /\ wc' \in WsClients /\ wc'.state = "Running" /\ wc'.queue = q
        /\ wc'.conf = wc.conf /\ wc'.at = wc.at
        /\ wc'.tx = wc.tx /\ wc'.reconnect = wc.reconnect /\ wc'.reason = wc.reason
    <2>1. /\ v.state = "Running" /\ v.conf = wc.conf /\ v.at = wc.at /\ v.tx = wc.tx
          /\ v.reconnect = wc.reconnect /\ v.reason = wc.reason
      BY <1>2 DEF WsClients
    <2> HIDE DEF v
    <2> QED
      BY <1>3, <1>5, <1>7, <2>1 DEF WsClients
  <1> HIDE DEF v
  <1>10. ClientOK(wc') /\ LibOK(wc', wc_lib')
    BY <1>1, <1>8, <1>9 DEF WsIndInv, ClientOK, LibOK
  <1>11. UNCHANGED <<wc_msgs, wc_n, wc_conf, wc_exit, wc_wire>>
    BY <1>1 DEF WsOthers
  <1>12. HoldsTaken(wc', wc_msgs', wc_n')
    BY <1>4, <1>7, <1>9, <1>11 DEF WsIndInv, HoldsTaken
  <1>13. wc_wire = <<>>
    BY <1>1 DEF WsIndInv, WireOK
  <1>14. WireOK(wc', wc_wire') /\ WsWellFramed'
    BY <1>7, <1>9, <1>11, <1>13 DEF WireOK, WsWellFramed
  <1>15. WsIndInv'
    BY <1>10, <1>11, <1>12, <1>14 DEF WsIndInv
  <1>16. SameOffers /\ SameSent
    BY <1>11 DEF SameOffers, Offers, SameSent
  <1>17. SameHeld
    <2>1. ToSet(wc.queue) \subseteq WsRecs \cup {UspConnect}
      BY <1>2 DEF ToSet, WsQueued
    <2> QED
      BY <1>4, <1>7, <1>9, <2>1 DEF SameHeld, Held, WsOwn
  <1>18. SameBegun
    BY <1>1, <1>7, <1>9 DEF SameBegun, Begun, WsOwn
  <1> QED
    BY <1>1, <1>9, <1>15, <1>16, <1>17, <1>18, WsGoesUp

LEMMA PingStep == ASSUME WsIndInv, SendWsclientPing PROVE WsIndInv' /\ StepOfWs
  <1> DEFINE w == [wc EXCEPT !.reason = "MissingPong"]
             v == [wc EXCEPT !.ping = FALSE, !.pings = @ + 1]
  <1>1. wc.state = "Running" /\ UNCHANGED WsOthers
    BY DEF SendWsclientPing, Writable
  <1>2. wc \in WsClients /\ wc_lib \in WsLibs /\ wc.pings \in 0..(AllowedMissingPongs + 1)
    BY DEF WsIndInv, ClientOK, LibOK, WsClients
  <1>3. CASE wc.pings > AllowedMissingPongs
    <2>1. Lost(w)
      BY <1>3 DEF SendWsclientPing
    <2>2. w \in WsClients /\ w.conf = wc.conf /\ w.queue = wc.queue /\ w.tx = wc.tx
      BY <1>2 DEF WsClients, WsReasons
    <2> HIDE DEF w
    <2> QED
      BY <1>1, <2>1, <2>2, LostStep
  <1>4. CASE ~(wc.pings > AllowedMissingPongs)
    <2>1. wc' = v /\ wc_lib' = Written /\ UNCHANGED wc_wire
      BY <1>4 DEF SendWsclientPing, Become, State
    <2>2. wc.pings + 1 \in 0..(AllowedMissingPongs + 1)
      BY <1>2, <1>4
    <2>3. /\ v \in WsClients /\ v.conf = wc.conf /\ v.at = wc.at /\ v.state = wc.state
          /\ v.queue = wc.queue /\ v.tx = wc.tx /\ v.reconnect = wc.reconnect /\ v.reason = wc.reason
      BY <1>2, <2>2 DEF WsClients
    <2> HIDE DEF v
    <2>4. Written \in WsLibs
      BY <1>2 DEF Written, WsLibs
    <2>5. ClientOK(wc') /\ LibOK(wc', wc_lib') /\ Keeps(wc, wc')
      BY <1>1, <2>1, <2>3, <2>4 DEF WsIndInv, ClientOK, LibOK, Keeps
    <2> QED
      BY <1>1, <2>1, <2>5, CalledStep
  <1> QED
    BY <1>3, <1>4

LEMMA NothingStep == ASSUME WsIndInv, TransmitNothing PROVE WsIndInv' /\ StepOfWs
  <1>1. wc.state = "Running" /\ UNCHANGED WsOthers
    BY DEF TransmitNothing, Writable
  <1>2. wc \in WsClients /\ wc_lib \in WsLibs
    BY DEF WsIndInv, ClientOK, LibOK
  <1>3. CASE wc.reason # "Unknown"
    <2>1. Lost(wc)
      BY <1>3 DEF TransmitNothing
    <2> QED
      BY <1>1, <1>2, <2>1, LostStep
  <1>4. CASE wc.reason = "Unknown"
    <2>1. wc' = wc /\ wc_lib' = Written /\ UNCHANGED wc_wire
      BY <1>4 DEF TransmitNothing, Become, State
    <2>2. Written \in WsLibs
      BY <1>2 DEF Written, WsLibs
    <2>3. ClientOK(wc') /\ LibOK(wc', wc_lib') /\ Keeps(wc, wc')
      BY <1>1, <2>1, <2>2 DEF WsIndInv, LibOK, Keeps
    <2> QED
      BY <1>1, <2>1, <2>3, CalledStep
  <1> QED
    BY <1>3, <1>4

LEMMA FailsStep == ASSUME WsIndInv, TransmitFails PROVE WsIndInv' /\ StepOfWs
  <1> DEFINE u == [wc EXCEPT !.reason = "InternalError", !.ping = FALSE, !.pings = @ + 1]
             v == ReasonOr(wc, "InternalError")
  <1>1. wc.state = "Running" /\ UNCHANGED WsOthers
    BY DEF TransmitFails, Writable
  <1>2. wc \in WsClients /\ "InternalError" \in WsReasons /\ wc.pings \in 0..(AllowedMissingPongs + 1) /\ wc.ping \in BOOLEAN
    BY DEF WsIndInv, ClientOK, WsClients, WsReasons
  <1>3. CASE wc.ping
    <2>1. Lost(u) /\ wc.pings <= AllowedMissingPongs
      BY <1>3 DEF TransmitFails
    <2>2. wc.pings + 1 \in 0..(AllowedMissingPongs + 1)
      BY <1>2, <2>1
    <2>3. u \in WsClients /\ u.conf = wc.conf /\ u.queue = wc.queue /\ u.tx = wc.tx
      BY <1>2, <2>2 DEF WsClients
    <2> HIDE DEF u
    <2> QED
      BY <1>1, <2>1, <2>3, LostStep
  <1>4. CASE ~wc.ping
    <2>1. Lost(v)
      BY <1>4 DEF TransmitFails
    <2>2. v \in WsClients /\ v.conf = wc.conf /\ v.queue = wc.queue /\ v.tx = wc.tx
      BY <1>2 DEF ReasonOr, WsClients
    <2> HIDE DEF v
    <2> QED
      BY <1>1, <2>1, <2>2, LostStep
  <1> QED
    BY <1>2, <1>3, <1>4

-----------------------------------------------------------------------------
(* HandleWscEvent_Transmit.                                                *)

LEMMA HeadLeast ==
    ASSUME NEW q \in Seq(Int), Ascending(q), q # <<>>
    PROVE  Head(q) \in ToSet(q) /\ \A x \in ToSet(q) : Head(q) <= x
  <1>1. Head(q) = q[1] /\ 1 \in DOMAIN q /\ \A i \in DOMAIN q : i = 1 \/ 1 < i
    OBVIOUS
  <1>2. Head(q) \in ToSet(q)
    BY <1>1 DEF ToSet
  <1>3. ASSUME NEW x \in ToSet(q) PROVE Head(q) <= x
    <2>1. PICK i \in DOMAIN q : q[i] = x
      BY DEF ToSet
    <2>2. i = 1 \/ q[1] < q[i]
      BY <1>1 DEF Ascending
    <2>3. q[1] \in Int /\ q[i] \in Int
      BY <1>1
    <2> QED
      BY <1>1, <2>1, <2>2, <2>3
  <1> QED
    BY <1>2, <1>3

\* While a record is begun, it is the head of the queue.
LEMMA BegunHead ==
    ASSUME WsIndInv, wc.state = "Running", wc.tx # 0 \/ wc_wire = <<>>
    PROVE  /\ wc.queue # <<>> /\ Head(wc.queue) = wc.queue[1]
           /\ wc_wire = <<>> => wc.queue[1] = UspConnect
           /\ wc_wire # <<>> => Half(wc, wc_wire[Len(wc_wire)])
  <1>1. wc.queue \in Seq(WsQueued)
    BY DEF WsIndInv, ClientOK, WsClients
  <1>2. wc.queue # <<>> /\ (wc_wire = <<>> => wc.queue[1] = UspConnect) /\ (wc_wire # <<>> => Half(wc, wc_wire[Len(wc_wire)]))
    BY DEF WsIndInv, WireOK, Whole, Half
  <1> QED
    BY <1>1, <1>2

\* What expires may leave the queue, and the head of a queue that is begun does not.
LEMMA ExpiredLeaves ==
    ASSUME WsIndInv, NEW old \in SUBSET WsRecs
    PROVE  LET w == RemoveExpiredWsclientMessages(wc, old) IN
           /\ Held(wc) \ Held(w) \in MayLeave /\ Held(w) \subseteq Held(wc)
           /\ wc.state = "Running" /\ (wc.tx # 0 \/ wc_wire = <<>>) => w.queue # <<>> /\ w.queue[1] = wc.queue[1]
           /\ wc.state = "Running" /\ wc.tx # 0 /\ Head(wc.queue) \notin WsOwn => Head(wc.queue) \in Held(w)
  <1> DEFINE w == RemoveExpiredWsclientMessages(wc, old)
  <1>1. /\ wc \in WsClients /\ wc.queue \in Seq(WsQueued) /\ wc.queue \in Seq(Int) /\ Ascending(wc.queue)
        /\ ClientOK(wc)
    BY QueueInts DEF WsIndInv, ClientOK, WsClients
  <1>2. /\ ToSet(w.queue) = ToSet(wc.queue) \cap Stays(wc, old)
        /\ wc.queue # <<>> /\ (wc.tx # 0 \/ wc.queue[1] = UspConnect) => w.queue # <<>> /\ w.queue[1] = wc.queue[1]
    BY <1>1, ExpiredGives
  <1> HIDE DEF w
  <1>3. Held(w) \subseteq Held(wc)
    BY <1>2 DEF Held
  <1>4. wc.state = "Running" /\ (wc.tx # 0 \/ wc_wire = <<>>) => w.queue # <<>> /\ w.queue[1] = wc.queue[1]
    BY <1>2, BegunHead
  <1>5. ASSUME wc.state = "Running", wc.tx # 0, Head(wc.queue) \notin WsOwn
        PROVE  /\ Head(wc.queue) \in Held(w) /\ Head(wc.queue) \in Held(wc)
               /\ \A x \in Held(wc) : Head(wc.queue) <= x
    <2>1. wc.queue # <<>>
      BY <1>5, BegunHead
    <2>2. Head(wc.queue) \in ToSet(wc.queue) /\ \A x \in ToSet(wc.queue) : Head(wc.queue) <= x
      BY <1>1, <2>1, HeadLeast
    <2>3. Head(wc.queue) \in WsQueued
      BY <1>1, <2>1
    <2> QED
      BY <1>2, <1>5, <2>2, <2>3 DEF Held, Stays
  <1>6. ASSUME NEW r \in Held(wc) \ Held(w), Begun(wc), First(r, Held(wc)) PROVE FALSE
    <2>1. /\ Head(wc.queue) \in Held(w) /\ Head(wc.queue) \in Held(wc)
          /\ \A x \in Held(wc) : Head(wc.queue) <= x
      BY <1>5, <1>6 DEF Begun
    <2>2. Held(wc) \subseteq Int
      BY <1>1 DEF Held, ToSet
    <2>3. r = Head(wc.queue)
      BY <1>6, <2>1, <2>2 DEF First
    <2> QED
      BY <2>1, <2>3
  <1>7. Held(wc) \ Held(w) \in MayLeave
    BY <1>6 DEF MayLeave
  <1> QED
    BY <1>3, <1>4, <1>5, <1>7 DEF w

\* A connection is framed, and stays so with a chunk that follows its last.
Framed(wire) ==
    /\ wire # <<>> => wire[1] = <<UspConnect, 1>>
    /\ \A i \in 1..Len(wire) :
          /\ wire[i][2] = 1 => i = 1 \/ wire[i - 1][2] = WsChunks(wire[i - 1][1])
          /\ wire[i][2] # 1 => i # 1 /\ wire[i - 1] = <<wire[i][1], wire[i][2] - 1>>

LEMMA FramedAppend ==
    ASSUME NEW wire \in Seq(WsChunk), Framed(wire), NEW c \in WsChunk,
           wire = <<>> => c = <<UspConnect, 1>>,
           wire # <<>> => LET l == wire[Len(wire)] IN
              (c[2] = 1 /\ l[2] = WsChunks(l[1])) \/ (c[2] # 1 /\ l = <<c[1], c[2] - 1>>)
    PROVE  Framed(Append(wire, c))
  <1> DEFINE p == Append(wire, c)
             n == Len(wire)
  <1>1. /\ n \in Nat /\ Len(p) = n + 1 /\ p[n + 1] = c /\ \A i \in 1..n : p[i] = wire[i]
        /\ wire = <<>> <=> n = 0
    OBVIOUS
  <1> HIDE DEF p
  <1>2. CASE n = 0
    <2>1. p[1] = <<UspConnect, 1>> /\ Len(p) = 1
      BY <1>1, <1>2
    <2> QED
      BY <2>1 DEF Framed, p
  <1>3. CASE n # 0
    <2>1. p[1] = <<UspConnect, 1>>
      BY <1>1, <1>3 DEF Framed
    <2>2. ASSUME NEW i \in 1..(n + 1)
          PROVE  /\ p[i][2] = 1 => i = 1 \/ p[i - 1][2] = WsChunks(p[i - 1][1])
                 /\ p[i][2] # 1 => i # 1 /\ p[i - 1] = <<p[i][1], p[i][2] - 1>>
      <3>1. CASE i = n + 1
        <4>1. p[i] = c /\ p[i - 1] = wire[n] /\ i # 1
          BY <1>1, <1>3, <3>1
        <4> QED
          BY <1>1, <1>3, <4>1
      <3>2. CASE i \in 1..n
        <4>1. p[i] = wire[i] /\ (i = 1 \/ p[i - 1] = wire[i - 1])
          BY <1>1, <3>2
        <4> QED
          BY <3>2, <4>1 DEF Framed
      <3> QED
        BY <1>1, <3>1, <3>2
    <2> QED
      BY <1>1, <2>1, <2>2 DEF Framed, p
  <1> QED
    BY <1>2, <1>3

\* The last chunk of a record is what MtpQueue sees of it.
LEMMA SentAppend ==
    ASSUME NEW wire \in Seq(WsChunk), NEW c \in WsChunk
    PROVE  SentOn(Append(wire, c)) = IF c \in WsWhole THEN Append(SentOn(wire), c[1]) ELSE SentOn(wire)
  <1> DEFINE v == Only(wire, WsWhole)
             u == Only(Append(wire, c), WsWhole)
  <1>1. v \in Seq(WsChunk)
    BY OnlyAt
  <1>2. u = IF c \in WsWhole THEN Append(v, c) ELSE v
    BY OnlyAppend
  <1>3. SentOn(wire) = [i \in DOMAIN v |-> v[i][1]] /\ SentOn(Append(wire, c)) = [i \in DOMAIN u |-> u[i][1]]
    BY DEF SentOn
  <1> HIDE DEF u, v
  <1>4. CASE c \notin WsWhole
    BY <1>2, <1>3, <1>4
  <1>5. CASE c \in WsWhole
    <2> DEFINE a == [i \in DOMAIN v |-> v[i][1]]
               b == [i \in DOMAIN u |-> u[i][1]]
               n == Len(v)
    <2>1. u = Append(v, c) /\ n \in Nat /\ DOMAIN v = 1..n /\ DOMAIN u = 1..(n + 1)
      BY <1>1, <1>2, <1>5
    <2>2. \A i \in 1..(n + 1) : u[i] = IF i = n + 1 THEN c ELSE v[i]
      BY <1>1, <2>1
    <2>3. \A i \in 1..n : v[i][1] \in WsQueued
      BY <1>1 DEF WsChunk
    <2>4. a \in Seq(WsQueued) /\ Len(a) = n
      BY <2>1, <2>3
    <2>5. c[1] \in WsQueued
      BY DEF WsChunk
    <2>6. b \in Seq(WsQueued) /\ Len(b) = n + 1 /\ \A i \in 1..(n + 1) : b[i] = IF i = n + 1 THEN c[1] ELSE v[i][1]
      <3>1. \A i \in 1..(n + 1) : i = n + 1 \/ i \in 1..n
        BY <2>1
      <3>2. \A i \in 1..(n + 1) : u[i][1] \in WsQueued /\ u[i][1] = IF i = n + 1 THEN c[1] ELSE v[i][1]
        BY <2>2, <2>3, <2>5, <3>1
      <3> QED
        BY <2>1, <3>2
    <2>7. \A i \in 1..n : a[i] = v[i][1] /\ i # n + 1
      BY <2>1
    <2> HIDE DEF a, b
    <2>8. b = Append(a, c[1])
      <3>1. Append(a, c[1]) \in Seq(WsQueued) /\ Len(Append(a, c[1])) = n + 1
        BY <2>1, <2>4, <2>5
      <3>2. \A i \in 1..(n + 1) : Append(a, c[1])[i] = IF i = n + 1 THEN c[1] ELSE a[i]
        BY <2>1, <2>4, <2>5
      <3>3. \A i \in 1..(n + 1) : i = n + 1 \/ i \in 1..n
        BY <2>1
      <3>4. \A i \in 1..(n + 1) : b[i] = Append(a, c[1])[i]
        BY <2>6, <2>7, <3>2, <3>3
      <3> QED
        BY <2>1, <2>6, <3>1, <3>4
    <2> QED
      BY <1>3, <1>5, <2>8 DEF a, b
  <1> QED
    BY <1>4, <1>5

LEMMA OldRecords == \A old \in Old : old \in SUBSET WsRecs
  BY DEF Old

LEMMA AppendLast ==
    ASSUME NEW T, NEW s \in Seq(T), NEW c \in T
    PROVE  Append(s, c) \in Seq(T) /\ Append(s, c) # <<>> /\ Append(s, c)[Len(Append(s, c))] = c
  OBVIOUS

\* One chunk of the head h of the queue of w, which is what has not expired of the queue.
LEMMA ChunkStep ==
    ASSUME WsIndInv, wc.state = "Running", wc_lib.writable, NEW old \in SUBSET WsRecs, NEW w,
           w = RemoveExpiredWsclientMessages(wc, old), w.queue # <<>>, ~(w.tx >= WsChunks(Head(w.queue))),
           wc' = Transmitted(w), wc_lib' = Written, wc_wire' = Append(wc_wire, <<Head(w.queue), w.tx + 1>>),
           UNCHANGED <<wc_msgs, wc_conf, wc_exit, wc_n>>
    PROVE  WsIndInv' /\ StepOfWs
  <1> DEFINE h == Head(w.queue)
             t == Tail(w.queue)
             c == <<h, w.tx + 1>>
             gone == Held(wc) \ Held(w)
             last == w.tx + 1 = WsChunks(h)
  <1>1. /\ wc \in WsClients /\ wc.queue \in Seq(WsQueued) /\ ClientOK(wc) /\ wc.tx \in 0..1
    BY DEF WsIndInv, ClientOK, WsClients
  <1>2. /\ w \in WsClients /\ w = [wc EXCEPT !.queue = w.queue] /\ w.queue \in Seq(WsQueued) /\ Ascending(w.queue)
        /\ ToSet(w.queue) \subseteq ToSet(wc.queue)
    BY <1>1, ExpiredGives
  <1>3. /\ gone \in MayLeave /\ Held(w) \subseteq Held(wc) /\ Held(w) = Held(wc) \ gone
        /\ wc.tx # 0 \/ wc_wire = <<>> => w.queue[1] = wc.queue[1]
        /\ wc.tx # 0 /\ Head(wc.queue) \notin WsOwn => Head(wc.queue) \in Held(w)
    BY ExpiredLeaves
  <1> HIDE DEF gone
  <1>4. /\ w.state = "Running" /\ w.tx = wc.tx /\ w.conf = wc.conf /\ w.at = wc.at /\ w.reconnect = wc.reconnect
        /\ w.reason = wc.reason /\ w.disconnected \in BOOLEAN
    <2> DEFINE q == w.queue
    <2>1. w = [wc EXCEPT !.queue = q]
      BY <1>2
    <2> HIDE DEF q
    <2>2. [wc EXCEPT !.queue = q].state = "Running" /\ [wc EXCEPT !.queue = q].tx = wc.tx
          /\ [wc EXCEPT !.queue = q].conf = wc.conf /\ [wc EXCEPT !.queue = q].at = wc.at
          /\ [wc EXCEPT !.queue = q].reconnect = wc.reconnect /\ [wc EXCEPT !.queue = q].reason = wc.reason
          /\ [wc EXCEPT !.queue = q].disconnected = wc.disconnected
      BY <1>1 DEF WsClients
    <2>3. wc.disconnected \in BOOLEAN
      BY <1>1 DEF WsClients
    <2> QED
      BY <2>1, <2>2, <2>3
  <1>5. /\ h = w.queue[1] /\ h \in WsQueued /\ t \in Seq(WsQueued) /\ ToSet(w.queue) = {h} \cup ToSet(t)
    BY <1>2, HeadTailSet
  <1>6. /\ w.queue \in Seq(Int) /\ t \in Seq(Int) /\ Ascending(t) /\ (\A x \in ToSet(t) : h < x)
        /\ \A x \in ToSet(w.queue) : h <= x
    <2>1. w.queue \in Seq(Int) /\ t \in Seq(Int)
      BY <1>2, <1>5, QueueInts
    <2> QED
      BY <1>2, <2>1, AscendingTail, HeadLeast
  <1> HIDE DEF t
  <1>7. /\ wc' \in WsClients /\ wc'.state = "Running" /\ wc'.conf = wc.conf /\ wc'.at = wc.at
        /\ wc'.reconnect = wc.reconnect /\ wc'.reason = wc.reason
        /\ last => wc'.tx = 0 /\ wc'.queue = t
        /\ ~last => wc'.tx = w.tx + 1 /\ wc'.queue = w.queue
    <2> DEFINE d == w.disconnected \/ h \in Disconnects
    <2>0. d \in BOOLEAN
      OBVIOUS
    <2>1. CASE last
      <3>1. wc' = [w EXCEPT !.disconnected = d, !.tx = 0, !.queue = t]
        BY <2>1 DEF Transmitted, t
      <3> HIDE DEF d, last, h
      <3>2. 0 \in 0..1
        OBVIOUS
      <3> DEFINE v == [w EXCEPT !.disconnected = d, !.tx = 0, !.queue = t]
      <3>3. /\ v \in WsClients /\ v.state = w.state /\ v.conf = w.conf /\ v.at = w.at
            /\ v.reconnect = w.reconnect /\ v.reason = w.reason /\ v.tx = 0 /\ v.queue = t
        BY <1>2, <1>5, <2>0, <3>2 DEF WsClients
      <3>4. wc' = v
        BY <3>1
      <3> HIDE DEF v
      <3> QED
        BY <1>4, <2>1, <3>3, <3>4
    <2>2. CASE ~last
      <3>1. wc' = [w EXCEPT !.disconnected = d, !.tx = w.tx + 1, !.queue = w.queue]
        <4>1. wc' = [w EXCEPT !.disconnected = d, !.tx = @ + 1, !.queue = @]
          BY <2>2 DEF Transmitted
        <4> QED
          BY <4>1
      <3>2. w.tx + 1 \in 0..1
        BY <1>1, <1>4, <2>2 DEF WsChunks
      <3> HIDE DEF d, last, h
      <3> DEFINE v == [w EXCEPT !.disconnected = d, !.tx = w.tx + 1, !.queue = w.queue]
      <3>3. /\ v \in WsClients /\ v.state = w.state /\ v.conf = w.conf /\ v.at = w.at
            /\ v.reconnect = w.reconnect /\ v.reason = w.reason /\ v.tx = w.tx + 1 /\ v.queue = w.queue
        BY <1>2, <2>0, <3>2 DEF WsClients
      <3>4. wc' = v
        BY <3>1
      <3> HIDE DEF v
      <3> QED
        BY <1>4, <2>2, <3>3, <3>4
    <2> QED
      BY <2>1, <2>2
  \* The three cases: the connect record, the first half and the second half of another.
  <1>8. \/ w.tx = 0 /\ h = UspConnect /\ last /\ c = <<UspConnect, 1>> /\ WsChunks(h) = 1
        \/ w.tx = 0 /\ h \in WsRecs /\ ~last /\ c = <<h, 1>> /\ WsChunks(h) = 2 /\ wc_wire # <<>>
        \/ w.tx = 1 /\ h \in WsRecs /\ last /\ c = <<h, 2>> /\ WsChunks(h) = 2 /\ wc_wire # <<>>
           /\ wc_wire[Len(wc_wire)] = <<h, 1>> /\ h = Head(wc.queue)
    <2>1. h \in WsRecs \/ h = UspConnect
      BY <1>5 DEF WsQueued
    <2>2. h \in WsRecs => h # UspConnect
      BY DEF WsRecs, UspConnect
    <2>3. w.tx = 0 \/ w.tx = 1
      BY <1>1, <1>4
    <2>4. CASE h = UspConnect
      <3>1. WsChunks(h) = 1
        BY <2>4 DEF WsChunks
      <3>2. w.tx = 0
        BY <2>3, <3>1
      <3> QED
        BY <2>4, <3>1, <3>2
    <2>5. CASE h \in WsRecs
      <3>1. WsChunks(h) = 2
        BY <2>2, <2>5 DEF WsChunks
      <3>2. wc_wire # <<>>
        <4> SUFFICES ASSUME wc_wire = <<>> PROVE FALSE
          OBVIOUS
        <4>1. wc.queue[1] = UspConnect
          BY BegunHead
        <4> QED
          BY <1>3, <1>5, <2>2, <2>5, <4>1
      <3>3. w.tx = 0 => ~last /\ c = <<h, 1>>
        BY <3>1
      <3>4. ASSUME w.tx = 1
            PROVE  last /\ c = <<h, 2>> /\ wc_wire[Len(wc_wire)] = <<h, 1>> /\ h = Head(wc.queue)
        <4>1. last /\ c = <<h, 2>>
          BY <3>1, <3>4
        <4>2. h = wc.queue[1] /\ Half(wc, wc_wire[Len(wc_wire)]) /\ h = Head(wc.queue)
          BY <1>3, <1>4, <1>5, <3>2, <3>4, BegunHead
        <4> QED
          BY <4>1, <4>2 DEF Half
      <3> QED
        BY <2>3, <2>5, <3>1, <3>2, <3>3, <3>4
    <2> QED
      BY <2>1, <2>4, <2>5
  <1>9. c \in WsChunk
    BY <1>5, <1>8 DEF WsChunk
  <1>10. wc_wire \in Seq(WsChunk) /\ wc_wire' = Append(wc_wire, c) /\ wc_wire' \in Seq(WsChunk)
         /\ wc_wire' # <<>> /\ wc_wire'[Len(wc_wire')] = c
    <2>1. wc_wire \in Seq(WsChunk) /\ wc_wire' = Append(wc_wire, c)
      BY DEF WsIndInv, WireOK
    <2> HIDE DEF c
    <2> DEFINE a == Append(wc_wire, c)
    <2>2. a \in Seq(WsChunk) /\ a # <<>> /\ a[Len(a)] = c
      BY <1>9, <2>1, AppendLast
    <2>3. wc_wire' = a
      BY <2>1
    <2> HIDE DEF a
    <2> QED
      BY <2>1, <2>2, <2>3 DEF a
  <1>11. Framed(wc_wire')
    <2>1. Framed(wc_wire)
      BY DEF WsIndInv, WsWellFramed, Framed
    <2>2. wc_wire = <<>> => c = <<UspConnect, 1>>
      BY <1>8
    <2>3. wc_wire # <<>> => LET l == wc_wire[Len(wc_wire)] IN
             (c[2] = 1 /\ l[2] = WsChunks(l[1])) \/ (c[2] # 1 /\ l = <<c[1], c[2] - 1>>)
      <3> HAVE wc_wire # <<>>
      <3>1. CASE w.tx = 0
        <4>1. Whole(wc, wc_wire[Len(wc_wire)])
          BY <1>4, <3>1 DEF WsIndInv, WireOK, Half
        <4>2. c[2] = 1
          BY <3>1
        <4> QED
          BY <4>1, <4>2 DEF Whole
      <3>2. CASE w.tx = 1
        BY <1>8, <3>2
      <3> QED
        BY <1>8, <3>1, <3>2
    <2> HIDE DEF c
    <2> QED
      BY <1>9, <1>10, <2>1, <2>2, <2>3, FramedAppend
  <1>12. WsWellFramed'
    BY <1>11 DEF WsWellFramed, Framed
  <1>13. WireOK(wc', wc_wire')
    <2>1. Whole(wc', c) \/ Half(wc', c)
      BY <1>5, <1>7, <1>8 DEF Whole, Half
    <2> QED
      BY <1>7, <1>10, <2>1 DEF WireOK
  <1>14. ClientOK(wc') /\ LibOK(wc', wc_lib')
    <2>1. Written \in WsLibs
      BY DEF WsIndInv, LibOK, Written, WsLibs
    <2>2. Ascending(wc'.queue)
      BY <1>2, <1>6, <1>7, <1>8
    <2> QED
      BY <1>7, <2>1, <2>2 DEF WsIndInv, ClientOK, LibOK
  <1>15. HoldsTaken(wc', wc_msgs', wc_n')
    <2>1. ToSet(wc'.queue) \subseteq ToSet(wc.queue)
      BY <1>2, <1>5, <1>7, <1>8
    <2> QED
      BY <2>1 DEF WsIndInv, HoldsTaken
  <1>16. WsIndInv'
    BY <1>12, <1>13, <1>14, <1>15 DEF WsIndInv
  <1>17. SameOffers /\ SameOpen /\ SameUp
    BY <1>7 DEF SameOffers, Offers, SameOpen, SameUp
  <1>18. SentOn(wc_wire') = IF c \in WsWhole THEN Append(SentOn(wc_wire), c[1]) ELSE SentOn(wc_wire)
    <2> HIDE DEF c
    <2> QED
      BY <1>9, <1>10, SentAppend
  <1>19. c \in WsWhole <=> (h \in WsRecs \ Disconnects /\ last)
    <2>1. c \in WsWhole => h \in WsRecs \ Disconnects /\ w.tx + 1 = WsChunks(h)
      BY DEF WsWhole
    <2>2. h \in WsRecs \ Disconnects /\ last => c \in WsWhole
      BY DEF WsWhole
    <2> QED
      BY <2>1, <2>2
  <1>20. UspConnect \in WsOwn /\ UspConnect \notin WsRecs /\ (\A r \in WsRecs : r \notin Disconnects => r \notin WsOwn)
         /\ Disconnects \subseteq WsOwn
    BY DEF WsOwn, WsRecs, UspConnect
  <1>21. CASE w.tx = 0 /\ h = UspConnect
    <2>1. Held(wc') = Held(wc) \ gone
      BY <1>3, <1>5, <1>7, <1>8, <1>20, <1>21 DEF Held
    <2>2. SameBegun /\ SameSent
      BY <1>4, <1>7, <1>8, <1>18, <1>19, <1>20, <1>21 DEF SameBegun, Begun, SameSent
    <2> QED
      BY <1>3, <1>16, <1>17, <2>1, <2>2, WsExpires
  <1>22. CASE w.tx = 0 /\ h \in WsRecs
    <2>1. Held(wc') = Held(wc) \ gone /\ SameSent
      BY <1>3, <1>7, <1>8, <1>18, <1>19, <1>20, <1>22 DEF Held, SameSent
    <2>2. CASE h \in Disconnects
      <3>1. SameBegun
        BY <1>4, <1>7, <1>8, <1>20, <1>22, <2>2 DEF SameBegun, Begun
      <3> QED
        BY <1>3, <1>16, <1>17, <2>1, <3>1, WsExpires
    <2>3. CASE h \notin Disconnects
      <3>1. wc'.tx # 0 /\ Head(wc'.queue) = h /\ h \notin WsOwn /\ h \in ToSet(wc'.queue)
        <4>1. h = Head(w.queue) /\ h # UspConnect
          BY <1>20, <1>22
        <4> HIDE DEF h, c
        <4>2. ~last
          BY <1>8, <1>22, <4>1
        <4>3. w.tx + 1 # 0
          BY <1>22
        <4> HIDE DEF last
        <4> QED
          BY <1>5, <1>7, <1>20, <1>22, <2>3, <4>1, <4>2, <4>3
      <3>2. Begun(wc') /\ Held(wc') # {}
        BY <1>7, <3>1 DEF Begun, Held
      <3> QED
        BY <1>3, <1>16, <1>17, <2>1, <3>2, WsBegins
    <2> QED
      BY <2>2, <2>3
  <1>23. CASE w.tx = 1 /\ h \in WsRecs
    <2>1. wc'.tx = 0 /\ wc'.queue = t /\ ~Begun(wc') /\ h \notin ToSet(t) /\ h = Head(wc.queue)
      <3>1. h \in Int
        BY <1>23 DEF WsRecs
      <3>2. h \notin ToSet(t)
        <4> HIDE DEF h
        <4> QED
          BY <1>6, <3>1
      <3>3. last /\ h = Head(wc.queue)
        <4> HIDE DEF c, h, last
        <4> QED
          BY <1>8, <1>20, <1>23
      <3>4. wc'.tx = 0 /\ wc'.queue = t
        <4> HIDE DEF h, last
        <4> QED
          BY <1>7, <3>3
      <3> QED
        BY <3>2, <3>3, <3>4 DEF Begun
    <2>2. CASE h \in Disconnects
      <3>1. Held(wc') = Held(wc) \ gone
        BY <1>3, <1>5, <1>20, <2>1, <2>2 DEF Held
      <3>2. SameBegun /\ SameSent
        BY <1>18, <1>19, <1>20, <2>1, <2>2 DEF SameBegun, Begun, SameSent
      <3> QED
        BY <1>3, <1>16, <1>17, <3>1, <3>2, WsExpires
    <2>3. CASE h \notin Disconnects
      <3>1. h \in Held(w) /\ First(h, Held(w)) /\ Held(wc') = Held(w) \ {h}
        BY <1>5, <1>6, <1>20, <1>23, <2>1, <2>3 DEF Held, First
      <3>2. h \in Held(wc) /\ First(h, Held(wc) \ gone) /\ Held(wc') = Held(wc) \ (gone \cup {h})
        BY <1>3, <3>1
      <3>3. SentOn(wc_wire') = Append(SentOn(wc_wire), h)
        BY <1>8, <1>18, <1>19, <1>23, <2>3
      <3> QED
        BY <1>3, <1>16, <1>17, <2>1, <3>2, <3>3, WsSends
    <2> QED
      BY <2>2, <2>3
  <1> QED
    BY <1>8, <1>21, <1>22, <1>23

LEMMA TransmitStep == ASSUME WsIndInv, HandleWscEvent_Transmit PROVE WsIndInv' /\ StepOfWs
  <1>1. /\ wc.state = "Running" /\ wc_lib.writable
        /\ UNCHANGED <<wc_msgs, wc_conf, wc_n>>
    BY DEF HandleWscEvent_Transmit, Writable
  <1>2. PICK old \in Old :
          LET w == RemoveExpiredWsclientMessages(wc, old) IN
          IF w.queue = <<>> THEN Become(State(w, Written)) /\ UNCHANGED <<wc_wire, wc_exit>>
          ELSE IF w.tx >= WsChunks(Head(w.queue)) THEN wc_exit' = "aborted" /\ UNCHANGED <<wc, wc_lib, wc_wire>>
          ELSE /\ Become(State(Transmitted(w), Written)) /\ UNCHANGED wc_exit
               /\ wc_wire' = Append(wc_wire, <<Head(w.queue), w.tx + 1>>)
    BY DEF HandleWscEvent_Transmit
  <1> DEFINE w == RemoveExpiredWsclientMessages(wc, old)
  <1>3. old \in SUBSET WsRecs /\ ClientOK(wc)
    BY OldRecords DEF WsIndInv
  <1>4. CASE w.queue = <<>>
    <2>1. wc' = w /\ wc_lib' = Written /\ UNCHANGED <<wc_wire, wc_exit>>
      BY <1>2, <1>4 DEF Become, State
    <2>2. /\ w \in WsClients /\ w = [wc EXCEPT !.queue = w.queue] /\ w.queue \in Seq(WsQueued) /\ Ascending(w.queue)
      BY <1>3, ExpiredGives
    <2>3. /\ Held(wc) \ Held(w) \in MayLeave /\ Held(w) \subseteq Held(wc)
          /\ wc.tx # 0 \/ wc_wire = <<>> => w.queue # <<>>
      BY <1>1, <1>3, ExpiredLeaves
    <2> HIDE DEF w
    <2>4. wc.tx = 0 /\ wc_wire # <<>>
      BY <1>4, <2>3
    <2>5. wc \in WsClients
      BY <1>3 DEF ClientOK
    <2>6. /\ wc'.state = "Running" /\ wc'.tx = wc.tx /\ wc'.conf = wc.conf /\ wc'.at = wc.at
          /\ wc'.reconnect = wc.reconnect /\ wc'.reason = wc.reason /\ wc'.queue = <<>>
      <3>1. wc' = [wc EXCEPT !.queue = <<>>]
        BY <1>4, <2>1, <2>2
      <3> QED
        BY <1>1, <2>5, <3>1 DEF WsClients
    <2>7. Written \in WsLibs
      BY DEF WsIndInv, LibOK, Written, WsLibs
    <2>8. ClientOK(wc') /\ LibOK(wc', wc_lib')
      BY <1>1, <1>3, <2>1, <2>2, <2>6, <2>7 DEF ClientOK, LibOK
    <2>9. WireOK(wc', wc_wire') /\ WsWellFramed'
      BY <1>1, <2>1, <2>4, <2>6 DEF WsIndInv, WireOK, Whole, Half, WsWellFramed
    <2>10. HoldsTaken(wc', wc_msgs', wc_n')
      BY <2>6 DEF HoldsTaken, ToSet
    <2>11. WsIndInv'
      BY <1>1, <2>1, <2>8, <2>9, <2>10 DEF WsIndInv
    <2>12. SameOffers /\ SameOpen /\ SameUp /\ SameSent /\ SameBegun
      BY <1>1, <2>1, <2>4, <2>6 DEF SameOffers, Offers, SameOpen, SameUp, SameSent, SameBegun, Begun
    <2>13. Held(wc') = Held(wc) \ (Held(wc) \ Held(w))
      BY <2>1, <2>3
    <2> QED
      BY <2>3, <2>11, <2>12, <2>13, WsExpires
  <1>5. CASE w.queue # <<>> /\ w.tx >= WsChunks(Head(w.queue))
    <2>1. wc_exit' = "aborted" /\ UNCHANGED <<wc, wc_lib, wc_wire>>
      BY <1>2, <1>5
    <2>2. /\ ClientOK(wc') /\ LibOK(wc', wc_lib') /\ Keeps(wc, wc') /\ HoldsTaken(wc', wc_msgs', wc_n') /\ SameOffers
      BY <1>1, <2>1 DEF WsIndInv, Keeps, HoldsTaken, SameOffers, Offers
    <2> QED
      BY <1>1, <2>1, <2>2, KeptStep DEF WsIndInv
  <1>6. CASE w.queue # <<>> /\ ~(w.tx >= WsChunks(Head(w.queue)))
    <2>1. /\ wc' = Transmitted(w) /\ wc_lib' = Written /\ UNCHANGED wc_exit
          /\ wc_wire' = Append(wc_wire, <<Head(w.queue), w.tx + 1>>)
      BY <1>2, <1>6 DEF Become, State
    <2>2. w = RemoveExpiredWsclientMessages(wc, old)
      OBVIOUS
    <2> HIDE DEF w
    <2> QED
      BY <1>1, <1>3, <1>6, <2>1, <2>2, ChunkStep
  <1> QED
    BY <1>4, <1>5, <1>6

-----------------------------------------------------------------------------
(* WSCLIENT_Main.                                                          *)

\* The first message, unless it is a record.
LEMMA OtherMessageGives ==
    ASSUME WsIndInv, wc_msgs # <<>>, NEW old, Head(wc_msgs) \in WsMsgs, ~IsRecord(Head(wc_msgs))
    PROVE  LET s == ServiceWsclientMessageQueue(old) IN
           WsOK(s) /\ (Keeps(wc, s.wc) \/ s = State(NoWsclient, Quiet) \/ Opens(wc, s.wc))
  <1> DEFINE m == Head(wc_msgs)
             s == ServiceWsclientMessageQueue(old)
  <1>1. ClientOK(wc) /\ LibOK(wc, wc_lib)
    BY DEF WsIndInv
  <1>2. /\ m.type \in {"StartClient", "StopClient", "AllowConnect", "ActivateScheduledActions", "ForceTrustStoreReload"}
        /\ m.type = "StartClient" => m.conf \in 1..2
    BY WsMsgForms DEF IsRecord
  <1>3. CASE m.type = "StartClient"
    <2>1. s = HandleWsclient_StartClient(wc, m.conf)
      BY <1>3 DEF ServiceWsclientMessageQueue
    <2> HIDE DEF s, m
    <2>2. WsOK(s) /\ (Keeps(wc, s.wc) \/ Opens(wc, s.wc))
      BY <1>1, <1>2, <1>3, <2>1, StartGives
    <2> QED
      BY <2>2 DEF s
  <1>4. CASE m.type = "StopClient"
    BY <1>1, <1>4, StopGives DEF ServiceWsclientMessageQueue
  <1>5. CASE m.type = "AllowConnect"
    BY <1>1, <1>5, AllowGives DEF ServiceWsclientMessageQueue
  <1>6. CASE m.type = "ActivateScheduledActions"
    BY <1>1, <1>6, ActivateGives DEF ServiceWsclientMessageQueue
  <1>7. CASE m.type = "ForceTrustStoreReload"
    BY <1>7, NoClientOK DEF ServiceWsclientMessageQueue, HandleWsclient_ForceTrustStoreReload, DestroyWsclient
  <1> HIDE DEF s, m
  <1> QED
    BY <1>2, <1>3, <1>4, <1>5, <1>6, <1>7 DEF s, m

\* A record is queued behind those that have not expired.
Queues(w, v, rec, old) ==
    /\ (v.state = "Idle") = (w.state = "Idle") /\ (v.state = "Running") = (w.state = "Running") /\ v.tx = w.tx
    /\ v.queue = Append(RemoveExpiredWsclientMessages(w, old).queue, rec)

LEMMA RecordGives ==
    ASSUME WsIndInv, wc_msgs # <<>>, NEW old \in SUBSET WsRecs, IsRecord(Head(wc_msgs))
    PROVE  LET s == ServiceWsclientMessageQueue(old)
               rec == Head(wc_msgs).rec
           IN WsOK(s) /\ (IF wc.state = "Idle" THEN s = State(wc, wc_lib) ELSE Queues(wc, s.wc, rec, old))
  <1> DEFINE s == ServiceWsclientMessageQueue(old)
             r == Head(wc_msgs).rec
             w == RemoveExpiredWsclientMessages(wc, old)
             q == w.queue
             p == Append(q, r)
  <1>1. ClientOK(wc) /\ LibOK(wc, wc_lib) /\ wc_n \in Nat /\ MsgsOK(wc_msgs, wc_n) /\ wc \in WsClients
    BY DEF WsIndInv, ClientOK
  <1>2. s = HandleWsclient_QueueUspRecord(wc, r, old)
    BY DEF ServiceWsclientMessageQueue, IsRecord
  <1>3. CASE wc.state = "Idle"
    BY <1>1, <1>2, <1>3 DEF HandleWsclient_QueueUspRecord, WsOK, State
  <1>4. CASE wc.state # "Idle"
    <2>1. s = State([w EXCEPT !.queue = p], wc_lib)
      BY <1>2, <1>4 DEF HandleWsclient_QueueUspRecord
    <2>2. /\ w \in WsClients /\ w = [wc EXCEPT !.queue = q] /\ q \in Seq(WsQueued) /\ Ascending(q)
          /\ ToSet(q) \subseteq ToSet(wc.queue)
      BY <1>1, ExpiredGives
    <2>3. /\ r \in WsRecs /\ r \in Int /\ r \in WsQueued
          /\ \A x \in 1..wc_n : x \notin Pending(wc_msgs) => x < r
      BY <1>1, MsgsTail DEF WsRecs, WsQueued
    <2> HIDE DEF r
    <2>4. p \in Seq(WsQueued) /\ Ascending(p)
      <3>1. UspConnect < r
        BY <2>3 DEF WsRecs, UspConnect
      <3>2. \A x \in ToSet(q) : x < r
        BY <2>2, <2>3, <3>1 DEF WsIndInv, HoldsTaken
      <3>3. q \in Seq(Int)
        BY <2>2, QueueInts
      <3> HIDE DEF q
      <3> QED
        BY <2>2, <2>3, <3>2, <3>3, AscendingAppend
    <2> HIDE DEF p, w
    <2>5. [w EXCEPT !.queue = p] = [wc EXCEPT !.queue = p]
      <3> HIDE DEF q
      <3>1. wc \in WsClients
        BY <1>1
      <3> QED
        BY <2>2, <3>1 DEF WsClients
    <2> DEFINE v == [wc EXCEPT !.queue = p]
    <2>6. /\ v \in WsClients /\ v.state = wc.state /\ v.conf = wc.conf /\ v.at = wc.at /\ v.tx = wc.tx
          /\ v.reconnect = wc.reconnect /\ v.reason = wc.reason /\ v.queue = p
      BY <1>1, <2>4 DEF WsClients
    <2>7. s = State(v, wc_lib)
      BY <2>1, <2>5
    <2> HIDE DEF v, s
    <2>8. s.wc = v /\ s.lib = wc_lib
      BY <2>7 DEF State
    <2>9. WsOK(s)
      BY <1>1, <1>4, <2>4, <2>6, <2>8 DEF WsOK, ClientOK, LibOK
    <2>10. Queues(wc, s.wc, r, old)
      BY <2>6, <2>8 DEF Queues, p, w
    <2> QED
      BY <1>4, <2>9, <2>10 DEF s, r
  <1> QED
    BY <1>3, <1>4

\* The client ends, with a record that it was given just now or not.
LEMMA EndStep ==
    ASSUME WsIndInv, wc' = NoWsclient, wc_lib' = Quiet, wc_wire' = <<>>,
           wc_msgs' = IF wc_msgs = <<>> THEN <<>> ELSE Tail(wc_msgs),
           wc_exit' \in {"no", "activated", "exited", "aborted"}, UNCHANGED <<wc_conf, wc_n>>
    PROVE  WsIndInv' /\ StepOfWs
  <1>1. ClientOK(wc') /\ LibOK(wc', wc_lib')
    BY NoClientOK DEF WsOK, State
  <1>2. wc'.state = "Idle" /\ wc'.queue = <<>> /\ ToSet(wc'.queue) = {}
    BY NoWsclientHas DEF ToSet
  <1>3. wc_n \in Nat /\ MsgsOK(wc_msgs, wc_n)
    BY DEF WsIndInv
  <1>4. MsgsOK(wc_msgs', wc_n') /\ (SameOffers \/ \E r \in WsRecs : OfferedTo(r))
    <2>1. CASE wc_msgs = <<>>
      BY <1>3, <2>1 DEF SameOffers, Offers
    <2>2. CASE wc_msgs # <<>> /\ ~IsRecord(Head(wc_msgs))
      BY <1>3, <2>2, MsgsTail DEF SameOffers, Offers
    <2>3. CASE wc_msgs # <<>> /\ IsRecord(Head(wc_msgs))
      <3> DEFINE r == Head(wc_msgs).rec
      <3>1. /\ MsgsOK(Tail(wc_msgs), wc_n) /\ r \in WsRecs /\ r \in 1..wc_n /\ r \notin Pending(Tail(wc_msgs))
            /\ Pending(wc_msgs) = Pending(Tail(wc_msgs)) \cup {r}
            /\ \A q \in 1..wc_n : q \notin Pending(wc_msgs) => q < r
        BY <1>3, <2>3, MsgsTail
      <3> HIDE DEF r
      <3>2. wc_msgs' = Tail(wc_msgs)
        BY <2>3
      <3>3. CASE r \in Disconnects
        BY <3>1, <3>2, <3>3 DEF SameOffers, Offers
      <3>4. CASE r \notin Disconnects
        <4>1. OfferedTo(r)
          BY <3>1, <3>2, <3>4 DEF OfferedTo, Offers
        <4> QED
          BY <3>1, <3>2, <4>1
      <3> QED
        BY <3>3, <3>4
    <2> QED
      BY <2>1, <2>2, <2>3
  <1>5. WsIndInv'
    BY <1>1, <1>2, <1>4 DEF WsIndInv, HoldsTaken, WireOK, WsWellFramed
  <1>6. Held(wc') = {} /\ ~Begun(wc') /\ SentOn(wc_wire') = <<>>
    BY <1>2, NothingSent DEF Held, Begun
  <1>7. CASE wc.state # "Idle"
    BY <1>2, <1>4, <1>5, <1>6, <1>7, WsEnds
  <1>8. CASE wc.state = "Idle"
    <2>1. wc.queue = <<>> /\ wc_wire = <<>>
      BY <1>8 DEF WsIndInv, ClientOK, WireOK
    <2>2. SameHeld /\ SameOpen /\ SameUp /\ SameBegun /\ SameSent
      BY <1>2, <1>8, <2>1 DEF SameHeld, Held, SameOpen, SameUp, SameBegun, Begun, SameSent
    <2>3. {} \in MayLeave
      BY DEF MayLeave
    <2>4. CASE SameOffers
      BY <1>5, <2>2, <2>4, WsStutters
    <2>5. CASE \E r \in WsRecs : OfferedTo(r)
      BY <1>5, <1>8, <2>2, <2>3, <2>5, WsOffers
    <2> QED
      BY <1>4, <2>4, <2>5
  <1> QED
    BY <1>7, <1>8

\* A record is taken by a client.
LEMMA QueuedStep ==
    ASSUME WsIndInv, wc_msgs # <<>>, IsRecord(Head(wc_msgs)), wc.state # "Idle", NEW old \in SUBSET WsRecs,
           Queues(wc, wc', Head(wc_msgs).rec, old), ClientOK(wc'), LibOK(wc', wc_lib'),
           wc_msgs' = Tail(wc_msgs), wc_wire' = IF wc'.state = "Running" THEN wc_wire ELSE <<>>,
           UNCHANGED <<wc_conf, wc_n, wc_exit>>
    PROVE  WsIndInv' /\ StepOfWs
  <1> DEFINE r == Head(wc_msgs).rec
             w == RemoveExpiredWsclientMessages(wc, old)
             q == w.queue
             gone == Held(wc) \ Held(w)
  <1>1. ClientOK(wc) /\ wc_n \in Nat /\ MsgsOK(wc_msgs, wc_n) /\ wc \in WsClients
    BY DEF WsIndInv, ClientOK
  <1>2. /\ MsgsOK(Tail(wc_msgs), wc_n) /\ r \in WsRecs /\ r \in 1..wc_n /\ r \notin Pending(Tail(wc_msgs))
        /\ Pending(wc_msgs) = Pending(Tail(wc_msgs)) \cup {r}
        /\ \A x \in 1..wc_n : x \notin Pending(wc_msgs) => x < r
    BY <1>1, MsgsTail
  <1>3. q \in Seq(WsQueued) /\ ToSet(q) \subseteq ToSet(wc.queue)
    BY <1>1, ExpiredGives
  <1>4. /\ gone \in MayLeave /\ Held(w) = Held(wc) \ gone
        /\ wc.state = "Running" /\ (wc.tx # 0 \/ wc_wire = <<>>) => q # <<>> /\ q[1] = wc.queue[1]
    BY ExpiredLeaves
  <1> HIDE DEF gone
  <1>5. /\ (wc'.state = "Idle") = (wc.state = "Idle") /\ (wc'.state = "Running") = (wc.state = "Running")
        /\ wc'.tx = wc.tx /\ wc'.queue = Append(q, r)
    BY DEF Queues
  <1> HIDE DEF r
  <1>6. /\ ToSet(Append(q, r)) = ToSet(q) \cup {r} /\ Append(q, r) # <<>>
        /\ q # <<>> => Append(q, r)[1] = q[1] /\ Head(Append(q, r)) = q[1]
    <2>1. r \in WsQueued
      BY <1>2 DEF WsQueued
    <2> HIDE DEF q
    <2>2. ToSet(Append(q, r)) = ToSet(q) \cup {r}
      BY <1>3, <2>1, AppendSet
    <2> QED
      BY <1>3, <2>1, <2>2
  <1>7. Held(w) = ToSet(q) \ WsOwn
    BY DEF Held
  <1> HIDE DEF q, w
  <1>8. wc_wire' = wc_wire
    BY <1>5 DEF WsIndInv, WireOK
  <1>9. HoldsTaken(wc', wc_msgs', wc_n')
    BY <1>2, <1>3, <1>5, <1>6 DEF WsIndInv, HoldsTaken
  <1>10. WireOK(wc', wc_wire') /\ WsWellFramed'
    <2>1. wc'.state = "Running" /\ wc_wire = <<>> => wc'.queue # <<>> /\ wc'.queue[1] = UspConnect
      BY <1>4, <1>5, <1>6, BegunHead
    <2>2. wc_wire # <<>> => Whole(wc', wc_wire[Len(wc_wire)]) \/ Half(wc', wc_wire[Len(wc_wire)])
      <3> HAVE wc_wire # <<>>
      <3>1. wc.state = "Running"
        BY DEF WsIndInv, WireOK
      <3>2. CASE wc.tx = 0
        BY <1>5, <3>2 DEF WsIndInv, WireOK, Whole, Half
      <3>3. CASE wc.tx # 0
        BY <1>4, <1>5, <1>6, <3>1, <3>3, BegunHead DEF Half
      <3> QED
        BY <3>2, <3>3
    <2> QED
      BY <1>5, <1>8, <2>1, <2>2 DEF WsIndInv, WireOK, WsWellFramed
  <1>11. WsIndInv'
    BY <1>2, <1>9, <1>10 DEF WsIndInv
  <1>12. SameBegun
    <2>1. wc.state = "Running" /\ wc.tx # 0 => Head(wc'.queue) = Head(wc.queue)
      BY <1>4, <1>5, <1>6, BegunHead
    <2> QED
      BY <1>5, <2>1 DEF SameBegun, Begun
  <1>13. SameOpen /\ SameUp /\ SameSent
    BY <1>5, <1>8 DEF SameOpen, SameUp, SameSent
  <1>14. CASE r \in Disconnects
    <2>1. SameOffers
      BY <1>2, <1>14 DEF SameOffers, Offers
    <2>2. Held(wc') = Held(wc) \ gone
      BY <1>4, <1>5, <1>6, <1>7, <1>14 DEF Held, WsOwn
    <2> QED
      BY <1>4, <1>11, <1>12, <1>13, <2>1, <2>2, WsExpires
  <1>15. CASE r \notin Disconnects
    <2>1. OfferedTo(r)
      BY <1>2, <1>15 DEF OfferedTo, Offers
    <2>2. r \notin WsOwn
      BY <1>2, <1>15 DEF WsOwn, WsRecs, UspConnect
    <2>3. Held(wc') = (Held(wc) \ gone) \cup {r}
      BY <1>4, <1>5, <1>6, <1>7, <2>2 DEF Held
    <2> QED
      BY <1>4, <1>11, <1>12, <1>13, <2>1, <2>3, WsOffers
  <1> QED
    BY <1>14, <1>15

\* A record comes when there is no client.
LEMMA RefusedStep ==
    ASSUME WsIndInv, wc_msgs # <<>>, IsRecord(Head(wc_msgs)), wc.state = "Idle", UNCHANGED <<wc, wc_lib, wc_wire>>,
           wc_msgs' = Tail(wc_msgs), UNCHANGED <<wc_conf, wc_n, wc_exit>>
    PROVE  WsIndInv' /\ StepOfWs
  <1> DEFINE r == Head(wc_msgs).rec
  <1>1. wc_n \in Nat /\ MsgsOK(wc_msgs, wc_n)
    BY DEF WsIndInv
  <1>2. /\ MsgsOK(Tail(wc_msgs), wc_n) /\ r \in WsRecs /\ r \in 1..wc_n /\ r \notin Pending(Tail(wc_msgs))
        /\ Pending(wc_msgs) = Pending(Tail(wc_msgs)) \cup {r}
        /\ \A x \in 1..wc_n : x \notin Pending(wc_msgs) => x < r
    BY <1>1, MsgsTail
  <1> HIDE DEF r
  <1>3. WsIndInv'
    BY <1>2 DEF WsIndInv, HoldsTaken, WsWellFramed
  <1>4. SameOpen /\ SameUp /\ SameBegun /\ SameSent /\ SameHeld
    BY DEF SameOpen, SameUp, SameSent, SameBegun, SameHeld
  <1>5. CASE r \in Disconnects
    <2>1. SameOffers
      BY <1>2, <1>5 DEF SameOffers, Offers
    <2> QED
      BY <1>3, <1>4, <2>1, WsStutters
  <1>6. CASE r \notin Disconnects
    <2>1. OfferedTo(r) /\ {} \in MayLeave
      BY <1>2, <1>6 DEF OfferedTo, Offers, MayLeave
    <2> QED
      BY <1>3, <1>4, <2>1, WsOffers
  <1> QED
    BY <1>5, <1>6

\* A client starts.
LEMMA OpenedStep ==
    ASSUME WsIndInv, Opens(wc, wc'), ClientOK(wc'), LibOK(wc', wc_lib'), MsgsOK(wc_msgs', wc_n'),
           Pending(wc_msgs') = Pending(wc_msgs), wc_wire' = IF wc'.state = "Running" THEN wc_wire ELSE <<>>,
           UNCHANGED <<wc_conf, wc_n, wc_exit>>
    PROVE  WsIndInv' /\ StepOfWs
  <1>1. wc.queue = <<>> /\ wc_wire = <<>> /\ wc.state = "Idle"
    BY DEF Opens, WsIndInv, ClientOK, WireOK
  <1>2. wc'.queue = <<>> /\ wc'.state \notin {"Idle", "Running"} /\ wc_wire' = <<>>
    BY DEF Opens
  <1>3. HoldsTaken(wc', wc_msgs', wc_n') /\ WireOK(wc', wc_wire') /\ WsWellFramed'
    BY <1>2 DEF HoldsTaken, ToSet, WireOK, WsWellFramed
  <1>4. WsIndInv'
    BY <1>3 DEF WsIndInv
  <1>5. SameUp /\ SameOffers /\ SameHeld /\ SameBegun /\ SameSent
    BY <1>1, <1>2 DEF SameUp, SameOffers, Offers, SameHeld, Held, SameBegun, Begun, SameSent
  <1> QED
    BY <1>1, <1>2, <1>4, <1>5, WsOpens

LEMMA MainStep == ASSUME WsIndInv, WSCLIENT_Main PROVE WsIndInv' /\ StepOfWs
  <1>1. PICK old \in Old :
          LET m == ServiceWsclientMessageQueue(old)
              s == ServiceWsclientSendQueue(m.wc, m.lib)
          IN /\ Expiring(old)
             /\ old # {} => wc_msgs # <<>> /\ Head(wc_msgs).type = "QueueUspRecord"
             /\ IF wc_exit = "activated" /\ AreAllWsclientResponsesSent(s.wc)
                THEN wc_exit' = "exited" /\ Become(DestroyWsclient(s.wc))
                ELSE UNCHANGED wc_exit /\ Become(s)
    BY DEF WSCLIENT_Main
  <1>2. /\ wc_msgs' = IF wc_msgs = <<>> THEN <<>> ELSE Tail(wc_msgs)
        /\ wc_wire' = IF wc'.state = "Running" THEN wc_wire ELSE <<>>
        /\ UNCHANGED <<wc_conf, wc_n>>
    BY DEF WSCLIENT_Main
  <1> DEFINE m == ServiceWsclientMessageQueue(old)
             s == ServiceWsclientSendQueue(m.wc, m.lib)
  <1>3. /\ old \in SUBSET WsRecs /\ ClientOK(wc) /\ LibOK(wc, wc_lib) /\ wc_n \in Nat /\ MsgsOK(wc_msgs, wc_n)
        /\ wc_conf \in 0..2 /\ wc_n \in 0..MaxWsRecords /\ wc_exit \in {"no", "activated", "exited", "aborted"}
    BY OldRecords DEF WsIndInv
  <1>4. /\ wc_msgs = <<>> => m = State(wc, wc_lib) /\ WsOK(m) /\ Keeps(wc, m.wc)
        /\ wc_msgs # <<>> /\ ~IsRecord(Head(wc_msgs)) =>
              WsOK(m) /\ (Keeps(wc, m.wc) \/ m = State(NoWsclient, Quiet) \/ Opens(wc, m.wc))
        /\ wc_msgs # <<>> /\ IsRecord(Head(wc_msgs)) =>
              /\ WsOK(m)
              /\ IF wc.state = "Idle" THEN m = State(wc, wc_lib) ELSE Queues(wc, m.wc, Head(wc_msgs).rec, old)
    <2>1. CASE wc_msgs = <<>>
      BY <1>3, <2>1 DEF ServiceWsclientMessageQueue, State, WsOK, Keeps
    <2>2. CASE wc_msgs # <<>> /\ ~IsRecord(Head(wc_msgs))
      BY <1>3, <2>2, OtherMessageGives, MsgsTail
    <2>3. CASE wc_msgs # <<>> /\ IsRecord(Head(wc_msgs))
      BY <1>3, <2>3, RecordGives
    <2> QED
      BY <2>1, <2>2, <2>3
  <1> HIDE DEF m
  <1>5. WsOK(m)
    BY <1>4
  <1>6. WsOK(s) /\ Keeps(m.wc, s.wc) /\ (m.wc.state # "Running" => s = State(m.wc, m.lib))
    BY <1>5, ServiceGives DEF WsOK
  <1>7. IF wc_exit = "activated" /\ AreAllWsclientResponsesSent(s.wc)
        THEN wc_exit' = "exited" /\ Become(DestroyWsclient(s.wc))
        ELSE UNCHANGED wc_exit /\ Become(s)
    BY <1>1 DEF m
  <1> HIDE DEF s
  <1>8. wc_exit' \in {"no", "activated", "exited", "aborted"}
    BY <1>3, <1>7
  <1>9. CASE wc_exit = "activated" /\ AreAllWsclientResponsesSent(s.wc)
    <2>1. wc' = NoWsclient /\ wc_lib' = Quiet
      BY <1>7, <1>9 DEF Become, DestroyWsclient, State
    <2>2. wc_wire' = <<>>
      BY <1>2, <2>1, NoWsclientHas
    <2> QED
      BY <1>2, <1>8, <2>1, <2>2, EndStep
  <1>10. CASE ~(wc_exit = "activated" /\ AreAllWsclientResponsesSent(s.wc))
    <2>1. /\ UNCHANGED wc_exit /\ wc' = s.wc /\ wc_lib' = s.lib /\ ClientOK(wc') /\ LibOK(wc', wc_lib')
      BY <1>6, <1>7, <1>10 DEF Become, WsOK
    <2>2. CASE m = State(NoWsclient, Quiet)
      <3>1. wc' = NoWsclient /\ wc_lib' = Quiet
        BY <1>6, <2>1, <2>2, NoWsclientHas DEF State
      <3>2. wc_wire' = <<>>
        BY <1>2, <3>1, NoWsclientHas
      <3> QED
        BY <1>2, <1>8, <3>1, <3>2, EndStep
    <2>3. CASE (wc_msgs = <<>> \/ ~IsRecord(Head(wc_msgs))) /\ (Keeps(wc, m.wc) \/ Opens(wc, m.wc))
      <3>1. MsgsOK(wc_msgs', wc_n') /\ Pending(wc_msgs') = Pending(wc_msgs)
        BY <1>2, <1>3, <2>3, MsgsTail
      <3>2. CASE Keeps(wc, m.wc)
        <4>1. Keeps(wc, wc')
          BY <1>6, <2>1, <3>2 DEF Keeps
        <4>2. wc_wire' = wc_wire
          BY <1>2, <4>1 DEF Keeps, WsIndInv, WireOK
        <4>3. HoldsTaken(wc', wc_msgs', wc_n') /\ SameOffers
          BY <1>2, <3>1, <4>1 DEF WsIndInv, HoldsTaken, Keeps, SameOffers, Offers
        <4> QED
          BY <1>2, <1>3, <1>8, <2>1, <3>1, <4>1, <4>2, <4>3, KeptStep
      <3>3. CASE Opens(wc, m.wc)
        <4>1. Opens(wc, wc')
          <5>1. m.wc.state # "Running"
            BY <3>3 DEF Opens
          <5>2. wc' = m.wc
            BY <1>6, <2>1, <5>1 DEF State
          <5> QED
            BY <3>3, <5>2
        <4> QED
          BY <1>2, <2>1, <3>1, <4>1, OpenedStep
      <3> QED
        BY <2>3, <3>2, <3>3
    <2>4. CASE wc_msgs # <<>> /\ IsRecord(Head(wc_msgs)) /\ wc.state = "Idle"
      <3>1. m = State(wc, wc_lib)
        BY <1>4, <2>4
      <3>2. wc' = wc /\ wc_lib' = wc_lib
        BY <1>6, <2>1, <2>4, <3>1 DEF State
      <3>3. wc_wire' = wc_wire
        BY <1>2, <2>4, <3>2 DEF WsIndInv, WireOK
      <3> QED
        BY <1>2, <2>1, <2>4, <3>2, <3>3, RefusedStep
    <2>5. CASE wc_msgs # <<>> /\ IsRecord(Head(wc_msgs)) /\ wc.state # "Idle"
      <3>1. Queues(wc, m.wc, Head(wc_msgs).rec, old)
        BY <1>4, <2>5
      <3>2. Queues(wc, wc', Head(wc_msgs).rec, old)
        BY <1>6, <2>1, <3>1 DEF Queues, Keeps
      <3> QED
        BY <1>2, <1>3, <2>1, <2>5, <3>2, QueuedStep
    <2> QED
      BY <1>4, <2>2, <2>3, <2>4, <2>5
  <1> QED
    BY <1>9, <1>10

-----------------------------------------------------------------------------
LEMMA WsInitHolds == WsInit => WsIndInv /\ WsQueue!QInit
  <1> HAVE WsInit
  <1>1. ClientOK(wc) /\ LibOK(wc, wc_lib)
    BY NoClientOK DEF WsInit, WsOK, State
  <1>2. wc_msgs = <<>> /\ wc_wire = <<>> /\ wc_n = 0 /\ wc_conf = 0 /\ wc_exit = "no"
        /\ wc.state = "Idle" /\ wc.queue = <<>> /\ wc.tx = 0
    BY NoWsclientHas DEF WsInit
  <1>3. Pending(wc_msgs) = {} /\ ToSet(wc.queue) = {}
    BY <1>2 DEF Pending, ToSet
  <1>4. MsgsOK(wc_msgs, wc_n)
    BY <1>2, <1>3 DEF MsgsOK
  <1>5. HoldsTaken(wc, wc_msgs, wc_n) /\ WireOK(wc, wc_wire) /\ WsWellFramed
    BY <1>2, <1>3 DEF HoldsTaken, WireOK, WsWellFramed
  <1>6. WsIndInv
    BY <1>1, <1>2, <1>4, <1>5 DEF WsIndInv
  <1>7. Held(wc) = {} /\ ~Begun(wc) /\ Offers(wc_msgs, wc_n) = {} /\ SentOn(wc_wire) = <<>>
    BY <1>2, <1>3, NothingSent DEF Held, Begun, Offers
  <1>8. WsQueue!QInit
    BY <1>2, <1>7 DEF WsQueue!QInit, Held, Begun, Offers, SentOn, Pending, WsOwn, WsWhole
  <1> QED
    BY <1>6, <1>8

LEMMA WsStep == WsIndInv /\ [WsNext]_wcVars => WsIndInv' /\ StepOfWs
  <1> SUFFICES ASSUME WsIndInv, [WsNext]_wcVars PROVE WsIndInv' /\ StepOfWs
    OBVIOUS
  <1>1. CASE UNCHANGED wcVars
    <2>1. UNCHANGED <<wc, wc_lib, wc_wire, WsOthers>>
      BY <1>1 DEF wcVars, wcBounds, WsOthers
    <2>2. ClientOK(wc') /\ LibOK(wc', wc_lib') /\ Keeps(wc, wc')
      BY <2>1 DEF WsIndInv, Keeps
    <2> QED
      BY <2>1, <2>2, CalledStep
  <1>2. CASE WsNext
    BY <1>2, StartClientStep, StopClientStep, AllowConnectStep, ActivateScheduledActionsStep, QueueRecordStep,
       RestartStep, MainStep, ConnectionEndsStep, ConnectedStep, PongStep, ReceiveBadStep, RetryTimerStep,
       PingTimerStep, PingStep, NothingStep, TransmitStep, FailsStep DEF WsNext
  <1> QED
    BY <1>1, <1>2

LEMMA WsInductive == WsSpec => []WsIndInv
  BY WsInitHolds, WsStep, PTL DEF WsSpec

\* What the controller sees of a connection is the connect record and then whole records, each once and
\* in the order of its chunks, whatever expires, is lost or is pinged in the middle of a record; and a
\* connection that lasts is one to the parameters of the client (wsclient.c:1184, :2024, :2148, :2443).
THEOREM WsClientFrames == WsSpec => []WsInv
  <1>1. WsIndInv => WsInv
    <2> HAVE WsIndInv
    <2>1. wc \in WsClients /\ wc_lib \in WsLibs
      BY DEF WsIndInv, ClientOK, LibOK
    <2>2. /\ wc.state \in WsStates /\ wc.queue \in Seq(WsQueued) /\ wc.tx \in 0..1 /\ wc.conf \in 0..2
          /\ wc.at \in 0..2 /\ wc.pings \in 0..(AllowedMissingPongs + 1)
      BY <2>1 DEF WsClients
    <2>3. WsTypeOK
      BY <2>2 DEF WsTypeOK, WsIndInv, ClientOK, LibOK, WsStates
    <2>4. WsParamsCurrent
      BY DEF WsParamsCurrent, WsIndInv, ClientOK
    <2> QED
      BY <2>3, <2>4 DEF WsInv, WsIndInv
  <1> QED
    BY <1>1, WsInductive, PTL

\* The client implements MtpQueue: through lost connections, retries, new parameters, expiries and the
\* reload of the trust store a record is held until its last chunk is written, it expires unbegun, or
\* the client is destroyed, and records are sent in their order, each at most once on a connection.
THEOREM WsClientKeepsQueue == WsSpec => WsKeepsQueue
  <1>1. WsIndInv /\ [WsNext]_wcVars => [WsQueue!QNext]_(WsQueue!qVars)
    BY WsStep DEF StepOfWs
  <1> QED
    BY <1>1, WsInitHolds, WsInductive, PTL DEF WsSpec, WsKeepsQueue, WsQueue!QSpec

-----------------------------------------------------------------------------
(* The websocket server (WsServer).                                        *)

USE WssAssumption

\* A set of slots has a first one.
LEMMA FirstSlot ==
    ASSUME NEW n \in Nat, NEW F, F \subseteq 1..n, F # {}
    PROVE  \E c \in F : \A d \in F : c <= d
  <1> DEFINE q == [i \in 1..n |-> i]
  <1>1. q \in Seq(Nat) /\ Stay(q, F) = F
    <2>1. q \in [1..n -> Nat]
      OBVIOUS
    <2>2. \A i \in 1..n : q[i] = i
      OBVIOUS
    <2>3. q \in Seq(Nat) /\ DOMAIN q = 1..n
      BY <2>1
    <2> HIDE DEF q
    <2>4. Stay(q, F) \subseteq F /\ F \subseteq Stay(q, F)
      BY <2>2, <2>3 DEF Stay
    <2> QED
      BY <2>3, <2>4
  <1> HIDE DEF q
  <1>a. q \in Seq(Nat)
    BY <1>1
  <1>b. /\ IsFiniteSet(Stay(q, F)) /\ Cardinality(Stay(q, F)) \in Nat
        /\ \A i \in Stay(q, F) : Place(q, F, i) \in 1..Cardinality(Stay(q, F))
        /\ \A i, k \in Stay(q, F) : i < k => Place(q, F, i) < Place(q, F, k)
        /\ \A m \in 1..Cardinality(Stay(q, F)) : \E i \in Stay(q, F) : Place(q, F, i) = m
    BY <1>a, StayPlaces
  <1>2. /\ IsFiniteSet(F) /\ Cardinality(F) \in Nat
        /\ \A i \in F : Place(q, F, i) \in 1..Cardinality(F)
        /\ \A i, k \in F : i < k => Place(q, F, i) < Place(q, F, k)
        /\ \A m \in 1..Cardinality(F) : \E i \in F : Place(q, F, i) = m
    BY <1>1, <1>b
  <1>3. 1 \in 1..Cardinality(F)
    BY <1>2, FS_EmptySet
  <1>4. PICK c \in F : Place(q, F, c) = 1
    BY <1>2, <1>3
  <1>5. ASSUME NEW d \in F PROVE c <= d
    <2>1. ~ (d < c)
      <3>1. Place(q, F, d) \in 1..Cardinality(F)
        BY <1>2
      <3>2. d < c => Place(q, F, d) < 1
        BY <1>2, <1>4
      <3> QED
        BY <1>2, <3>1, <3>2
    <2>2. c \in Int /\ d \in Int
      OBVIOUS
    <2> QED
      BY <2>1, <2>2
  <1> QED
    BY <1>5

WssActions == {"Off", "Signalled", "Activated"}
WssConfs == [on : BOOLEAN, path : {1, 2}, keep : {1, 2}]
WssSrvs == [up : BOOLEAN, cur : WssConfs, new : WssConfs, restart : WssActions, stop : WssActions]
WssConnections ==
    [handle : Nat, id : Nat, phase : {"none", "created", "open"}, peer : {"unknown", Controller},
     queue : Seq(WssQueued), tx : 0..1, part : WssQueued, ping : BOOLEAN, disconnect : BOOLEAN,
     writable : BOOLEAN]

\* A record of which a part is sent is the head of the queue.  Nothing is sent before the handshake ends.
WssFramed(w) ==
    /\ w.tx # 0 => w.queue # <<>> /\ w.queue[1] = w.part /\ w.part \in WssRecs
    /\ w.phase = "created" => w.tx = 0 /\ w.peer = "unknown"

WssTyped ==
    /\ ws_srv \in WssSrvs /\ ws_con \in [WssConns -> WssConnections]
    /\ ws_conf \in WssConfs /\ ws_exit \in {"no", "activated", "exited"}
    /\ ws_held \in 0..WssSlots /\ ws_h \in Nat /\ ws_n \in 0..MaxWssRecords

\* Connections exist while the server is up, and the controller has one at most; the connection whose
\* callback holds the mutex stays, as it cannot be lost before the callback returns.
WssIndInv ==
    /\ WssTyped
    /\ \A c \in WssConns : ws_con[c].handle # 0 => ws_srv.up /\ WssFramed(ws_con[c])
    /\ ws_held # 0 => ws_con[ws_held].handle # 0 /\ ws_con[ws_held].phase = "created"
    /\ \A c, d \in WithEid(Controller) : c = d

\* What is left of a queue that keeps the record of which a part is sent.
LEMMA ExpiredFramed ==
    ASSUME NEW w \in WssConnections, WssFramed(w), NEW old
    PROVE  /\ RemoveExpiredWsservMessages(w, old) \in WssConnections
           /\ WssFramed(RemoveExpiredWsservMessages(w, old))
           /\ RemoveExpiredWsservMessages(w, old).handle = w.handle
           /\ RemoveExpiredWsservMessages(w, old).phase = w.phase
           /\ RemoveExpiredWsservMessages(w, old).peer = w.peer
           /\ RemoveExpiredWsservMessages(w, old).tx = w.tx
  <1> DEFINE S == {r \in WssQueued : r \notin old \/ (w.tx # 0 /\ r = Head(w.queue))}
             p == Only(w.queue, S)
             v == RemoveExpiredWsservMessages(w, old)
  <1>1. w.queue \in Seq(WssQueued)
    BY DEF WssConnections
  <1>2. v = [w EXCEPT !.queue = p]
    BY DEF RemoveExpiredWsservMessages
  <1>3. p \in Seq(WssQueued)
    BY <1>1, OnlyAt
  <1>4. w.tx # 0 => p # <<>> /\ p[1] = w.part
    <2> HAVE w.tx # 0
    <2>1. w.queue # <<>> /\ w.queue[1] = w.part
      BY DEF WssFramed
    <2>2. w.queue[1] \in S
      BY <1>1, <2>1
    <2> HIDE DEF S
    <2> QED
      BY <1>1, <2>1, <2>2, OnlyHead
  <1> HIDE DEF p, v
  <1>5. v \in WssConnections
    BY <1>2, <1>3 DEF WssConnections
  <1>6. /\ v.handle = w.handle /\ v.phase = w.phase /\ v.peer = w.peer /\ v.tx = w.tx
        /\ v.part = w.part /\ v.queue = p
    BY <1>2 DEF WssConnections
  <1>7. WssFramed(v)
    BY <1>4, <1>6 DEF WssFramed
  <1> QED
    BY <1>5, <1>6, <1>7 DEF v

LEMMA AppendFramed ==
    ASSUME NEW w \in WssConnections, WssFramed(w), NEW r \in WssQueued
    PROVE  /\ [w EXCEPT !.queue = Append(@, r)] \in WssConnections
           /\ WssFramed([w EXCEPT !.queue = Append(@, r)])
           /\ [w EXCEPT !.queue = Append(@, r)].handle = w.handle
           /\ [w EXCEPT !.queue = Append(@, r)].phase = w.phase
           /\ [w EXCEPT !.queue = Append(@, r)].peer = w.peer
  <1> DEFINE p == Append(w.queue, r)
             v == [w EXCEPT !.queue = p]
  <1>1. w.queue \in Seq(WssQueued)
    BY DEF WssConnections
  <1>2. p \in Seq(WssQueued) /\ p # <<>> /\ (w.queue # <<>> => p[1] = w.queue[1])
    <2> DEFINE q == w.queue
    <2>1. q \in Seq(WssQueued)
      BY <1>1
    <2> HIDE DEF q
    <2>2. Append(q, r) \in Seq(WssQueued) /\ Len(Append(q, r)) = Len(q) + 1 /\ Len(q) \in Nat
      BY <2>1
    <2>3. q # <<>> => Append(q, r)[1] = q[1]
      BY <2>1
    <2>4. Append(q, r) # <<>>
      BY <2>2
    <2> QED
      BY <2>2, <2>3, <2>4 DEF q
  <1> HIDE DEF p
  <1>3. v \in WssConnections
    BY <1>2 DEF WssConnections
  <1>4. /\ v.handle = w.handle /\ v.phase = w.phase /\ v.peer = w.peer /\ v.tx = w.tx
        /\ v.part = w.part /\ v.queue = p
    BY DEF WssConnections
  <1>5. WssFramed(v)
    BY <1>2, <1>4 DEF WssFramed
  <1> QED
    BY <1>3, <1>4, <1>5 DEF p

\* A chunk: the record stays at the head until its last one.
LEMMA SentFramed ==
    ASSUME NEW w \in WssConnections, WssFramed(w), w.queue # <<>>, w.phase = "open"
    PROVE  /\ WssSent(w) \in WssConnections /\ WssFramed(WssSent(w))
           /\ WssSent(w).handle = w.handle /\ WssSent(w).phase = w.phase /\ WssSent(w).peer = w.peer
  <1> DEFINE r == Head(w.queue)
             last == w.tx + 1 = WssChunks(r)
             p == IF last THEN Tail(w.queue) ELSE w.queue
             t == IF last THEN 0 ELSE w.tx + 1
             disc == (r = WssDisconnect)
             v == WssSent(w)
  <1>1. w.queue \in Seq(WssQueued) /\ w.tx \in 0..1
    BY DEF WssConnections
  <1>2. r \in WssQueued /\ r = w.queue[1]
    BY <1>1
  <1>3. p \in Seq(WssQueued) /\ (~last => p = w.queue)
    BY <1>1
  <1>4. t \in 0..1 /\ (t # 0 => ~last /\ r \in WssRecs)
    <2>1. CASE w.tx = 0
      <3>1. CASE r \in WssRecs
        BY <2>1, <3>1 DEF WssChunks
      <3>2. CASE r \notin WssRecs
        BY <2>1, <3>2 DEF WssChunks
      <3> QED
        BY <3>1, <3>2
    <2>2. CASE w.tx = 1
      <3>1. r \in WssRecs
        BY <1>2, <2>2 DEF WssFramed
      <3>2. last
        BY <2>2, <3>1 DEF WssChunks
      <3> QED
        BY <3>2
    <2> QED
      BY <1>1, <2>1, <2>2
  <1>5. v = [w EXCEPT !.queue = p, !.tx = t, !.part = r, !.disconnect = disc, !.writable = FALSE]
    BY DEF WssSent, WssConnections
  <1>6. disc \in BOOLEAN
    OBVIOUS
  <1> HIDE DEF v, disc, t, last, r
  <1>7. v \in WssConnections
    <2> HIDE DEF p
    <2> QED
      BY <1>2, <1>3, <1>4, <1>5, <1>6 DEF WssConnections
  <1>8. /\ v.handle = w.handle /\ v.phase = w.phase /\ v.peer = w.peer
        /\ v.queue = p /\ v.tx = t /\ v.part = r
    <2> HIDE DEF p
    <2> QED
      BY <1>5 DEF WssConnections
  <1>9. WssFramed(v)
    <2>1. t # 0 => p # <<>> /\ p[1] = r /\ r \in WssRecs
      BY <1>2, <1>3, <1>4
    <2> QED
      BY <1>8, <2>1 DEF WssFramed
  <1> QED
    BY <1>7, <1>8, <1>9 DEF v


\* A step that makes no new connection of the controller keeps the invariant.
LEMMA WssConStep ==
    ASSUME WssIndInv, WssTyped',
           \A c \in WssConns : ws_con'[c].handle # 0 =>
               /\ ws_srv'.up /\ WssFramed(ws_con'[c])
               /\ ws_con'[c].peer = Controller => ws_con[c].handle # 0 /\ ws_con[c].peer = Controller,
           ws_held' # 0 => ws_con'[ws_held'].handle # 0 /\ ws_con'[ws_held'].phase = "created"
    PROVE  WssIndInv'
  <1>1. \A c \in WithEid(Controller)' : c \in WithEid(Controller)
    BY DEF WithEid, Open
  <1>2. \A c, d \in WithEid(Controller)' : c = d
    BY <1>1 DEF WssIndInv
  <1> QED
    BY <1>2 DEF WssIndInv

\* Connections that stay as they are.
LEMMA WssSameCon ==
    ASSUME WssIndInv, WssTyped', UNCHANGED ws_con, ws_held' = ws_held,
           Open # {} => ws_srv'.up
    PROVE  WssIndInv'
  <1>1. \A c \in WssConns : ws_con[c].handle # 0 => ws_srv'.up
    BY DEF Open
  <1> QED
    BY <1>1, WssConStep DEF WssIndInv

\* One connection changes, no callback holds the mutex.
LEMMA WssOneStep ==
    ASSUME WssIndInv, NEW c \in WssConns, NEW w \in WssConnections, UNCHANGED WssOthers,
           ws_con' = [ws_con EXCEPT ![c] = w],
           ws_h' \in Nat, ws_n' \in 0..MaxWssRecords,
           \/ w.handle = 0
           \/ ws_srv.up /\ WssFramed(w) /\ (w.peer = Controller => ws_con[c].handle # 0 /\ ws_con[c].peer = Controller),
           ws_held' = 0
    PROVE  WssIndInv'
  <1>1. /\ ws_con \in [WssConns -> WssConnections] /\ 0 \in 0..WssSlots
    BY DEF WssIndInv, WssTyped
  <1>2. \A d \in WssConns : ws_con'[d] = IF d = c THEN w ELSE ws_con[d]
    BY <1>1
  <1>3. ws_con' \in [WssConns -> WssConnections]
    BY <1>1
  <1>4. WssTyped'
    BY <1>1, <1>3 DEF WssTyped, WssIndInv, WssOthers
  <1>5. \A d \in WssConns : ws_con'[d].handle # 0 =>
            /\ ws_srv'.up /\ WssFramed(ws_con'[d])
            /\ ws_con'[d].peer = Controller => ws_con[d].handle # 0 /\ ws_con[d].peer = Controller
    BY <1>2 DEF WssIndInv, WssOthers
  <1> QED
    BY <1>4, <1>5, WssConStep

LEMMA OpenCon ==
    ASSUME WssIndInv, NEW c \in Open
    PROVE  c \in WssConns /\ ws_con[c] \in WssConnections /\ ws_con[c].handle # 0 /\ ws_srv.up /\ WssFramed(ws_con[c])
  BY DEF Open, WssIndInv, WssTyped

LEMMA DestroyedCon ==
    ASSUME NEW w \in WssConnections
    PROVE  Destroyed(w) \in WssConnections /\ Destroyed(w).handle = 0
  <1>1. <<>> \in Seq(WssQueued)
    OBVIOUS
  <1> QED
    BY <1>1 DEF Destroyed, WssConnections

LEMMA WssInitHolds == WssInit => WssIndInv
  <1> SUFFICES ASSUME WssInit PROVE WssIndInv
    OBVIOUS
  <1>1. NoWsconn \in WssConnections /\ NoWsconn.handle = 0
    <2>1. <<>> \in Seq(WssQueued) /\ 0 \in WssQueued
      BY DEF WssQueued, WssConnect
    <2> QED
      BY <2>1 DEF NoWsconn, WssConnections
  <1>2. ws_conf \in WssConfs
    BY DEF WssInit, WssConfs
  <1>3. ws_srv \in WssSrvs
    BY <1>2 DEF WssInit, WssSrvs, WssActions
  <1>4. ws_con \in [WssConns -> WssConnections] /\ \A c \in WssConns : ws_con[c].handle = 0
    BY <1>1 DEF WssInit
  <1>5. 0 \in 0..WssSlots /\ 0 \in 0..MaxWssRecords
    OBVIOUS
  <1>6. WssTyped
    BY <1>2, <1>3, <1>4, <1>5 DEF WssTyped, WssInit
  <1>7. WithEid(Controller) = {}
    BY <1>4 DEF WithEid, Open
  <1> QED
    BY <1>4, <1>6, <1>7 DEF WssIndInv, WssInit

-----------------------------------------------------------------------------
(* The data model thread and the thread of the server.                     *)

LEMMA NotifyWssStep == WssIndInv /\ NotifyChange_Wss => WssIndInv'
  <1> SUFFICES ASSUME WssIndInv, NotifyChange_Wss PROVE WssIndInv'
    OBVIOUS
  <1>1. PICK conf \in WssConfs :
          /\ ws_conf' = conf
          /\ ws_srv' = CASE conf.on -> WSSERVER_EnableServer(conf)
                         [] ~conf.on /\ ws_conf.on -> WSSERVER_DisableServer
                         [] OTHER -> ws_srv
    BY DEF NotifyChange_Wss, WssConfs
  <1>2. ws_srv \in WssSrvs /\ ws_conf \in WssConfs
    BY DEF WssIndInv, WssTyped
  <1>3. WSSERVER_EnableServer(conf) \in WssSrvs /\ WSSERVER_EnableServer(conf).up = ws_srv.up
    BY <1>2 DEF WSSERVER_EnableServer, WssSrvs, WssConfs, WssActions
  <1>4. WSSERVER_DisableServer \in WssSrvs /\ WSSERVER_DisableServer.up = ws_srv.up
    BY <1>2 DEF WSSERVER_DisableServer, WssSrvs, WssActions
  <1>5. conf.on \in BOOLEAN /\ ws_conf.on \in BOOLEAN
    BY <1>2 DEF WssConfs
  <1>6. ws_srv' \in WssSrvs /\ ws_srv'.up = ws_srv.up
    BY <1>1, <1>2, <1>3, <1>4, <1>5
  <1>7. UNCHANGED <<ws_con, ws_exit, ws_held, ws_h, ws_n>>
    BY DEF NotifyChange_Wss
  <1>8. WssTyped'
    BY <1>1, <1>6, <1>7 DEF WssIndInv, WssTyped
  <1> QED
    BY <1>6, <1>7, <1>8, WssSameCon, OpenCon

LEMMA ActivateWssStep == WssIndInv /\ WSSERVER_ActivateScheduledActions => WssIndInv'
  <1> SUFFICES ASSUME WssIndInv, WSSERVER_ActivateScheduledActions PROVE WssIndInv'
    OBVIOUS
  <1>1. ws_srv \in WssSrvs
    BY DEF WssIndInv, WssTyped
  <1>2. ws_srv' \in WssSrvs /\ ws_srv'.up = ws_srv.up
    BY <1>1 DEF WSSERVER_ActivateScheduledActions, WssActivated, WssSrvs, WssActions
  <1>3. UNCHANGED <<ws_con, ws_conf, ws_held, ws_h, ws_n>> /\ ws_exit' \in {"no", "activated", "exited"}
    BY DEF WSSERVER_ActivateScheduledActions, wssBounds, WssIndInv, WssTyped
  <1>4. WssTyped'
    BY <1>2, <1>3 DEF WssIndInv, WssTyped
  <1> QED
    BY <1>2, <1>3, <1>4, WssSameCon, OpenCon

LEMMA QueueWssStep == WssIndInv /\ WSSERVER_QueueBinaryMessage => WssIndInv'
  <1> SUFFICES ASSUME WssIndInv, WSSERVER_QueueBinaryMessage PROVE WssIndInv'
    OBVIOUS
  <1>1. PICK req \in ws_req, old \in WssOlds :
          ws_con' = [c \in WssConns |->
              IF c \in {d \in Open : ws_con[d].id = req}
              THEN [RemoveExpiredWsservMessages(ws_con[c], old) EXCEPT !.queue = Append(@, ws_n')] ELSE ws_con[c]]
    BY DEF WSSERVER_QueueBinaryMessage
  <1>2. /\ ws_n' \in WssQueued /\ ws_n' \in 0..MaxWssRecords
        /\ UNCHANGED <<ws_srv, ws_conf, ws_exit, ws_held, ws_h>> /\ ws_held = 0
    BY DEF WSSERVER_QueueBinaryMessage, WssIndInv, WssTyped, WssQueued, WssRecs, WssFree
  <1>3. \A c \in WssConns : /\ ws_con'[c] \in WssConnections
                            /\ ws_con'[c].handle = ws_con[c].handle /\ ws_con'[c].peer = ws_con[c].peer
                            /\ ws_con[c].handle # 0 => WssFramed(ws_con'[c])
    <2> TAKE c \in WssConns
    <2>1. CASE c \in Open /\ ws_con[c].id = req
      <3> DEFINE v == RemoveExpiredWsservMessages(ws_con[c], old)
      <3>1. ws_con[c] \in WssConnections /\ WssFramed(ws_con[c])
        BY <2>1, OpenCon
      <3>2. v \in WssConnections /\ WssFramed(v) /\ v.handle = ws_con[c].handle /\ v.peer = ws_con[c].peer
        BY <3>1, ExpiredFramed
      <3>3. ws_con'[c] = [v EXCEPT !.queue = Append(@, ws_n')]
        BY <1>1, <2>1
      <3> HIDE DEF v
      <3>4. /\ [v EXCEPT !.queue = Append(@, ws_n')] \in WssConnections
            /\ WssFramed([v EXCEPT !.queue = Append(@, ws_n')])
            /\ [v EXCEPT !.queue = Append(@, ws_n')].handle = v.handle
            /\ [v EXCEPT !.queue = Append(@, ws_n')].peer = v.peer
        BY <1>2, <3>2, AppendFramed
      <3> QED
        BY <3>2, <3>3, <3>4
    <2>2. CASE ~(c \in Open /\ ws_con[c].id = req)
      <3>1. ws_con'[c] = ws_con[c]
        BY <1>1, <2>2
      <3> QED
        BY <3>1 DEF WssIndInv, WssTyped
    <2> QED
      BY <2>1, <2>2
  <1>4. ws_con' \in [WssConns -> WssConnections]
    <2>1. DOMAIN ws_con' = WssConns /\ ws_con' = [c \in WssConns |-> ws_con'[c]]
      BY <1>1
    <2> QED
      BY <1>3, <2>1
  <1>5. WssTyped'
    BY <1>2, <1>4 DEF WssIndInv, WssTyped
  <1> QED
    BY <1>2, <1>3, <1>5, WssConStep DEF WssIndInv


LEMMA StartedSrv ==
    ASSUME NEW s \in WssSrvs PROVE StartWebsockServer(s) \in WssSrvs /\ StartWebsockServer(s).up
  BY DEF StartWebsockServer, WssSrvs, WssActions

LEMMA ServiceInactiveStep == WssIndInv /\ ServiceInactiveWebsockServer => WssIndInv'
  <1> SUFFICES ASSUME WssIndInv, ServiceInactiveWebsockServer PROVE WssIndInv'
    OBVIOUS
  <1>1. ws_srv \in WssSrvs /\ ws_exit \in {"no", "activated", "exited"}
    BY DEF WssIndInv, WssTyped
  <1>2. ws_srv' \in WssSrvs /\ ws_exit' \in {"no", "activated", "exited"}
    BY <1>1, StartedSrv DEF ServiceInactiveWebsockServer, WssExits
  <1>3. UNCHANGED <<ws_con, ws_conf, ws_held, ws_h, ws_n>> /\ ~ws_srv.up
    BY DEF ServiceInactiveWebsockServer
  <1>4. WssTyped'
    BY <1>2, <1>3 DEF WssIndInv, WssTyped
  <1>5. Open = {}
    BY <1>3, OpenCon
  <1> QED
    BY <1>3, <1>4, <1>5, WssSameCon

LEMMA StopServerStep == WssIndInv /\ StopServer => WssIndInv'
  <1> SUFFICES ASSUME WssIndInv, StopServer PROVE WssIndInv'
    OBVIOUS
  <1>1. ws_srv \in WssSrvs /\ ws_exit \in {"no", "activated", "exited"}
    BY DEF WssIndInv, WssTyped
  <1>2. /\ [ws_srv EXCEPT !.up = FALSE, !.stop = "Off"] \in WssSrvs
        /\ [ws_srv EXCEPT !.up = FALSE] \in WssSrvs
    BY <1>1 DEF WssSrvs, WssActions
  <1>3. ws_srv' \in WssSrvs /\ ws_exit' \in {"no", "activated", "exited"}
    BY <1>1, <1>2, StartedSrv DEF StopServer, WssExits
  <1>4. UNCHANGED <<ws_con, ws_conf, ws_held, ws_h, ws_n>> /\ Open = {}
    BY DEF StopServer, Quiesced
  <1>5. WssTyped'
    BY <1>3, <1>4 DEF WssIndInv, WssTyped
  <1> QED
    BY <1>4, <1>5, WssSameCon

\* A connection of which only writable changes.
LEMMA WritableCon ==
    ASSUME NEW w \in WssConnections, WssFramed(w), NEW b \in BOOLEAN
    PROVE  /\ [w EXCEPT !.writable = b] \in WssConnections /\ WssFramed([w EXCEPT !.writable = b])
           /\ [w EXCEPT !.writable = b].handle = w.handle
           /\ [w EXCEPT !.writable = b].phase = w.phase
           /\ [w EXCEPT !.writable = b].peer = w.peer
  <1> DEFINE v == [w EXCEPT !.writable = b]
  <1>1. v \in WssConnections
    BY DEF WssConnections
  <1>2. /\ v.handle = w.handle /\ v.phase = w.phase /\ v.peer = w.peer
        /\ v.queue = w.queue /\ v.tx = w.tx /\ v.part = w.part
    BY DEF WssConnections
  <1>3. WssFramed(v)
    BY <1>2 DEF WssFramed
  <1> QED
    BY <1>1, <1>2, <1>3

LEMMA ServiceActiveStep == WssIndInv /\ ServiceActiveWebsockServer => WssIndInv'
  <1> SUFFICES ASSUME WssIndInv, ServiceActiveWebsockServer PROVE WssIndInv'
    OBVIOUS
  <1>1. /\ ws_con' = [c \in WssConns |-> IF c \in Open /\ NeedsWritable(ws_con[c])
                                         THEN [ws_con[c] EXCEPT !.writable = TRUE] ELSE ws_con[c]]
        /\ UNCHANGED <<ws_srv, ws_conf, ws_exit, ws_held, ws_h, ws_n>> /\ ws_held = 0
    BY DEF ServiceActiveWebsockServer, WssFree, wssBounds
  <1>2. \A c \in WssConns : /\ ws_con'[c] \in WssConnections
                            /\ ws_con'[c].handle = ws_con[c].handle /\ ws_con'[c].peer = ws_con[c].peer
                            /\ ws_con[c].handle # 0 => WssFramed(ws_con'[c])
    <2> TAKE c \in WssConns
    <2>1. CASE c \in Open /\ NeedsWritable(ws_con[c])
      <3>1. ws_con'[c] = [ws_con[c] EXCEPT !.writable = TRUE]
        BY <1>1, <2>1
      <3>2. ws_con[c] \in WssConnections /\ WssFramed(ws_con[c])
        BY <2>1, OpenCon
      <3> QED
        BY <3>1, <3>2, WritableCon
    <2>2. CASE ~(c \in Open /\ NeedsWritable(ws_con[c]))
      <3>1. ws_con'[c] = ws_con[c]
        BY <1>1, <2>2
      <3> QED
        BY <3>1 DEF WssIndInv, WssTyped
    <2> QED
      BY <2>1, <2>2
  <1>3. ws_con' \in [WssConns -> WssConnections]
    <2>1. DOMAIN ws_con' = WssConns /\ ws_con' = [c \in WssConns |-> ws_con'[c]]
      BY <1>1
    <2> QED
      BY <1>2, <2>1
  <1>4. WssTyped'
    BY <1>1, <1>3 DEF WssIndInv, WssTyped
  <1> QED
    BY <1>1, <1>2, <1>4, WssConStep DEF WssIndInv

LEMMA WanPollStep == WssIndInv /\ HandleWssEvent_WanPollTimer => WssIndInv'
  <1> SUFFICES ASSUME WssIndInv, HandleWssEvent_WanPollTimer PROVE WssIndInv'
    OBVIOUS
  <1>1. ws_srv \in WssSrvs
    BY DEF WssIndInv, WssTyped
  <1>2. ws_srv' \in WssSrvs /\ ws_srv'.up
    BY <1>1 DEF HandleWssEvent_WanPollTimer, WssSrvs, WssActions
  <1>3. UNCHANGED <<ws_con, ws_conf, ws_exit, ws_held, ws_h, ws_n>>
    BY DEF HandleWssEvent_WanPollTimer
  <1>4. WssTyped'
    BY <1>2, <1>3 DEF WssIndInv, WssTyped
  <1> QED
    BY <1>2, <1>3, <1>4, WssSameCon

-----------------------------------------------------------------------------
(* Callbacks of libwebsockets for the server.                              *)

\* The first free entry of ws_connections is taken, cleared.
LEMMA WsiCreateStep == WssIndInv /\ HandleWssEvent_WsiCreate => WssIndInv'
  <1> SUFFICES ASSUME WssIndInv, HandleWssEvent_WsiCreate PROVE WssIndInv'
    OBVIOUS
  <1> DEFINE F == WssConns \ Open
             c == CHOOSE e \in F : \A d \in F : e <= d
  <1>1. /\ UNCHANGED <<ws_srv, ws_conf, ws_exit, ws_held, ws_n>> /\ ws_held = 0 /\ ws_srv.up
        /\ ws_h' \in Nat /\ ws_h \in Nat
    BY DEF HandleWssEvent_WsiCreate, WssFree, WssOthers, WssIndInv, WssTyped
  <1>2. CASE F = {}
    <2>1. UNCHANGED ws_con
      BY <1>2 DEF HandleWssEvent_WsiCreate
    <2>2. WssTyped'
      BY <1>1, <2>1 DEF WssIndInv, WssTyped
    <2> QED
      BY <1>1, <2>1, <2>2, WssSameCon
  <1>3. CASE F # {}
    <2>1. c \in F
      <3>1. F \subseteq 1..WssSlots /\ WssSlots \in Nat
        BY DEF WssConns
      <3> HIDE DEF F
      <3>2. \E e \in F : \A d \in F : e <= d
        BY <1>3, <3>1, FirstSlot
      <3> QED
        BY <3>2
    <2>2. ws_con' = [ws_con EXCEPT ![c] = NewWsconn(c)]
      BY <1>3 DEF HandleWssEvent_WsiCreate
    <2>3. c \in WssConns
      BY <2>1
    <2> HIDE DEF c
    <2> DEFINE w == NewWsconn(c)
    <2>4. w \in WssConnections /\ w.tx = 0 /\ w.peer = "unknown"
      <3>1. <<>> \in Seq(WssQueued) /\ 0 \in WssQueued /\ ws_h + 1 \in Nat
        BY <1>1 DEF WssQueued, WssConnect
      <3>2. NoWsconn \in WssConnections /\ NoWsconn.tx = 0 /\ NoWsconn.peer = "unknown"
        BY <3>1 DEF NoWsconn, WssConnections
      <3> DEFINE h == ws_h + 1
      <3>3. w = [NoWsconn EXCEPT !.handle = h, !.id = h, !.phase = "created"]
        BY DEF NewWsconn
      <3>4. h \in Nat
        BY <3>1
      <3> HIDE DEF w, h
      <3>5. w \in WssConnections
        BY <3>2, <3>3, <3>4 DEF WssConnections
      <3>6. w.tx = NoWsconn.tx /\ w.peer = NoWsconn.peer
        BY <3>2, <3>3 DEF WssConnections
      <3> QED
        BY <3>2, <3>5, <3>6
    <2> HIDE DEF w
    <2>5. WssFramed(w) /\ w.peer # Controller
      BY <2>4 DEF WssFramed, Controller
    <2>6. ws_n' \in 0..MaxWssRecords
      BY <1>1 DEF WssIndInv, WssTyped
    <2>7. UNCHANGED WssOthers /\ ws_con' = [ws_con EXCEPT ![c] = w] /\ ws_held' = 0
      BY <1>1, <2>2 DEF HandleWssEvent_WsiCreate, w
    <2> QED
      BY <1>1, <2>3, <2>4, <2>5, <2>6, <2>7, WssOneStep
  <1> QED
    BY <1>2, <1>3

LEMMA DestroyedStep ==
    ASSUME WssIndInv, NEW c \in Open, HandleWssEvent_Destroyed(c), UNCHANGED <<WssOthers, ws_h, ws_n>>, ws_held' = 0
    PROVE  WssIndInv'
  <1> DEFINE w == Destroyed(ws_con[c])
  <1>1. c \in WssConns /\ ws_con[c] \in WssConnections
    BY OpenCon
  <1>2. w \in WssConnections /\ w.handle = 0
    BY <1>1, DestroyedCon
  <1>3. ws_con' = [ws_con EXCEPT ![c] = w]
    BY DEF HandleWssEvent_Destroyed
  <1> HIDE DEF w
  <1>4. ws_h' \in Nat /\ ws_n' \in 0..MaxWssRecords /\ UNCHANGED WssOthers
    BY DEF WssIndInv, WssTyped
  <1> QED
    BY <1>1, <1>2, <1>3, <1>4, WssOneStep

LEMMA WssLostStep == ASSUME NEW c \in WssConns PROVE WssIndInv /\ WssLost(c) => WssIndInv'
  <1> SUFFICES ASSUME WssIndInv, WssLost(c) PROVE WssIndInv'
    OBVIOUS
  <1>1. /\ c \in Open /\ HandleWssEvent_Destroyed(c) /\ UNCHANGED <<WssOthers, ws_h, ws_n>> /\ ws_held' = 0
    BY DEF WssLost, WssFree
  <1> QED
    BY <1>1, DestroyedStep

LEMMA EstablishedBeginStep == ASSUME NEW c \in WssConns PROVE WssIndInv /\ EstablishedBegin(c) => WssIndInv'
  <1> SUFFICES ASSUME WssIndInv, EstablishedBegin(c) PROVE WssIndInv'
    OBVIOUS
  <1>1. /\ c \in Open /\ ws_con[c].phase = "created" /\ ws_held' = c
        /\ UNCHANGED <<ws_srv, ws_con, ws_conf, ws_exit, ws_h, ws_n>>
    BY DEF EstablishedBegin, WssOthers
  <1>2. c \in 0..WssSlots /\ ws_con[c].handle # 0
    BY <1>1, OpenCon DEF WssConns
  <1>3. WssTyped'
    BY <1>1, <1>2 DEF WssIndInv, WssTyped
  <1> QED
    BY <1>1, <1>2, <1>3, WssConStep DEF WssIndInv

LEMMA EstablishedUnknownStep == ASSUME NEW c \in WssConns PROVE WssIndInv /\ EstablishedUnknown(c) => WssIndInv'
  <1> SUFFICES ASSUME WssIndInv, EstablishedUnknown(c) PROVE WssIndInv'
    OBVIOUS
  <1> DEFINE w == [ws_con[c] EXCEPT !.phase = "open"]
  <1>1. /\ c \in Open /\ UNCHANGED WssOthers /\ ws_held' = 0 /\ UNCHANGED <<ws_h, ws_n>>
    BY DEF EstablishedUnknown, WssFree
  <1>2. ws_con' = [ws_con EXCEPT ![c] = w]
    <2>1. ws_con \in [WssConns -> WssConnections]
      BY DEF WssIndInv, WssTyped
    <2> QED
      BY <2>1 DEF EstablishedUnknown
  <1>3. ws_con[c] \in WssConnections /\ ws_con[c].handle # 0 /\ ws_srv.up /\ WssFramed(ws_con[c])
    BY <1>1, OpenCon
  <1>4. w \in WssConnections
    BY <1>3 DEF WssConnections
  <1>5. /\ w.peer = ws_con[c].peer /\ w.phase = "open" /\ w.tx = ws_con[c].tx
        /\ w.queue = ws_con[c].queue /\ w.part = ws_con[c].part
    BY <1>3 DEF WssConnections
  <1> HIDE DEF w
  <1>6. WssFramed(w)
    BY <1>3, <1>5 DEF WssFramed
  <1>7. ws_h' \in Nat /\ ws_n' \in 0..MaxWssRecords
    BY <1>1 DEF WssIndInv, WssTyped
  <1> QED
    BY <1>1, <1>2, <1>3, <1>4, <1>5, <1>6, <1>7, WssOneStep


\* The controller is let in when it has no other connection, and the connection starts with its connect record.
LEMMA EstablishedEndStep == WssIndInv /\ EstablishedEnd => WssIndInv'
  <1> SUFFICES ASSUME WssIndInv, EstablishedEnd PROVE WssIndInv'
    OBVIOUS
  <1> DEFINE h == ws_held
             q == <<WssConnect>>
             w == [ws_con[h] EXCEPT !.phase = "open", !.peer = Controller, !.queue = q]
  <1>1. /\ UNCHANGED <<WssOthers, ws_h, ws_n>> /\ ws_held' = 0 /\ h # 0
    BY DEF EstablishedEnd
  <1>2. h \in WssConns /\ ws_con[h].handle # 0 /\ ws_con[h].phase = "created"
    BY <1>1 DEF WssIndInv, WssTyped, WssConns
  <1>3. h \in Open
    BY <1>2 DEF Open
  <1>4. ws_con[h] \in WssConnections /\ ws_srv.up /\ WssFramed(ws_con[h])
    BY <1>3, OpenCon
  <1>5. CASE Permitted(Controller)
    <2>1. ws_con \in [WssConns -> WssConnections]
      BY DEF WssIndInv, WssTyped
    <2>2. ws_con' = [ws_con EXCEPT ![h] = w]
      BY <1>5, <2>1, <1>2, <1>4 DEF EstablishedEnd, WssConnections
    <2>3. q \in Seq(WssQueued)
      <3>1. WssConnect \in WssQueued
        BY DEF WssQueued
      <3> QED
        BY <3>1
    <2> HIDE DEF q
    <2>4. w \in WssConnections
      BY <1>4, <2>3 DEF WssConnections
    <2>5. w.phase = "open" /\ w.tx = ws_con[h].tx
      BY <1>4 DEF WssConnections
    <2> HIDE DEF w, h
    <2>6. WssFramed(w)
      BY <1>2, <1>4, <2>5 DEF WssFramed
    <2>7. \A d \in WssConns : ws_con'[d] = IF d = h THEN w ELSE ws_con[d]
      BY <2>1, <2>2
    <2>8. ws_con' \in [WssConns -> WssConnections]
      BY <2>1, <2>2, <2>4
    <2>9. WssTyped'
      <3>1. 0 \in 0..WssSlots
        OBVIOUS
      <3> QED
        BY <1>1, <2>8, <3>1 DEF WssIndInv, WssTyped, WssOthers
    <2>10. WithEid(Controller) = {}
      BY <1>5 DEF Permitted
    <2>11. \A d \in WithEid(Controller)' : d = h
      <3> SUFFICES ASSUME NEW d \in WithEid(Controller)', d # h PROVE FALSE
        OBVIOUS
      <3>1. d \in WssConns /\ ws_con'[d].handle # 0 /\ ws_con'[d].peer = Controller
        BY DEF WithEid, Open
      <3>2. ws_con'[d] = ws_con[d]
        BY <2>7, <3>1
      <3>3. d \in WithEid(Controller)
        BY <3>1, <3>2 DEF WithEid, Open
      <3> QED
        BY <2>10, <3>3
    <2>12. \A d \in WssConns : ws_con'[d].handle # 0 => ws_srv'.up /\ WssFramed(ws_con'[d])
      BY <1>1, <1>4, <2>6, <2>7 DEF WssIndInv, WssOthers
    <2> QED
      BY <1>1, <2>9, <2>11, <2>12 DEF WssIndInv
  <1>6. CASE ~Permitted(Controller)
    <2>1. HandleWssEvent_Destroyed(h)
      BY <1>6 DEF EstablishedEnd
    <2> HIDE DEF h
    <2> QED
      BY <1>1, <1>3, <2>1, DestroyedStep
  <1> QED
    BY <1>5, <1>6

LEMMA WssReceiveStep == ASSUME NEW c \in WssConns PROVE WssIndInv /\ HandleWssEvent_Receive(c) => WssIndInv'
  <1> SUFFICES ASSUME WssIndInv, HandleWssEvent_Receive(c) PROVE WssIndInv'
    OBVIOUS
  <1>1. UNCHANGED <<ws_srv, ws_con, ws_conf, ws_exit, ws_held, ws_h, ws_n>>
    BY DEF HandleWssEvent_Receive, WssOthers
  <1>2. WssTyped'
    BY <1>1 DEF WssIndInv, WssTyped
  <1> QED
    BY <1>1, <1>2, WssSameCon, OpenCon

\* The flags of a connection change, and neither its queue nor what is sent of it.
LEMMA FlagsStep ==
    ASSUME WssIndInv, NEW c \in Open, NEW ping \in BOOLEAN, NEW writable \in BOOLEAN,
           ws_con' = [ws_con EXCEPT ![c].ping = ping, ![c].writable = writable],
           UNCHANGED <<WssOthers, ws_held, ws_h, ws_n>>, ws_held = 0
    PROVE  WssIndInv'
  <1> DEFINE w == [ws_con[c] EXCEPT !.ping = ping, !.writable = writable]
  <1>1. c \in WssConns /\ ws_con[c] \in WssConnections /\ ws_con[c].handle # 0 /\ ws_srv.up /\ WssFramed(ws_con[c])
    BY OpenCon
  <1>2. ws_con \in [WssConns -> WssConnections]
    BY DEF WssIndInv, WssTyped
  <1>3. ws_con' = [ws_con EXCEPT ![c] = w]
    BY <1>1, <1>2 DEF WssConnections
  <1>4. w \in WssConnections
    BY <1>1 DEF WssConnections
  <1>5. /\ w.peer = ws_con[c].peer /\ w.phase = ws_con[c].phase /\ w.tx = ws_con[c].tx
        /\ w.queue = ws_con[c].queue /\ w.part = ws_con[c].part
    BY <1>1 DEF WssConnections
  <1> HIDE DEF w
  <1>6. WssFramed(w)
    BY <1>1, <1>5 DEF WssFramed
  <1>7. ws_h' \in Nat /\ ws_n' \in 0..MaxWssRecords /\ UNCHANGED WssOthers /\ ws_held' = 0
    BY DEF WssIndInv, WssTyped
  <1> QED
    BY <1>1, <1>3, <1>4, <1>5, <1>6, <1>7, WssOneStep

LEMMA WssPingTimerStep == ASSUME NEW c \in WssConns PROVE WssIndInv /\ HandleWssEvent_PingTimer(c) => WssIndInv'
  <1> SUFFICES ASSUME WssIndInv, HandleWssEvent_PingTimer(c) PROVE WssIndInv'
    OBVIOUS
  <1>1. /\ c \in Open /\ UNCHANGED <<WssOthers, ws_held, ws_h, ws_n>> /\ ws_held = 0
        /\ ws_con' = [ws_con EXCEPT ![c].ping = TRUE, ![c].writable = TRUE]
    BY DEF HandleWssEvent_PingTimer, WssFree
  <1> QED
    BY <1>1, FlagsStep

LEMMA TransmitOtherStep == ASSUME NEW c \in WssConns PROVE WssIndInv /\ TransmitOther(c) => WssIndInv'
  <1> SUFFICES ASSUME WssIndInv, TransmitOther(c) PROVE WssIndInv'
    OBVIOUS
  <1>1. c \in Open /\ UNCHANGED <<WssOthers, ws_held, ws_h, ws_n>> /\ ws_held = 0
    BY DEF TransmitOther, CanWrite, WssFree
  <1>2. ws_con[c] \in WssConnections /\ ws_con \in [WssConns -> WssConnections]
    BY <1>1, OpenCon DEF WssIndInv, WssTyped
  <1>3. \/ HandleWssEvent_Destroyed(c)
        \/ ws_con' = [ws_con EXCEPT ![c].ping = FALSE, ![c].writable = FALSE]
        \/ ws_con' = [ws_con EXCEPT ![c].writable = FALSE]
    BY <1>2 DEF TransmitOther, WssConnections
  <1>4. CASE HandleWssEvent_Destroyed(c)
    BY <1>1, <1>4, DestroyedStep
  <1>5. CASE ws_con' = [ws_con EXCEPT ![c].ping = FALSE, ![c].writable = FALSE]
    BY <1>1, <1>5, FlagsStep
  <1>6. CASE ws_con' = [ws_con EXCEPT ![c].writable = FALSE]
    <2> DEFINE b == ws_con[c].ping
    <2>1. b \in BOOLEAN
      BY <1>2 DEF WssConnections
    <2>2. ws_con' = [ws_con EXCEPT ![c].ping = b, ![c].writable = FALSE]
      BY <1>2, <1>6 DEF WssConnections
    <2> HIDE DEF b
    <2> QED
      BY <1>1, <2>1, <2>2, FlagsStep
  <1> QED
    BY <1>3, <1>4, <1>5, <1>6

LEMMA WssTransmitStep == ASSUME NEW c \in WssConns PROVE WssIndInv /\ HandleWssEvent_Transmit(c) => WssIndInv'
  <1> SUFFICES ASSUME WssIndInv, HandleWssEvent_Transmit(c) PROVE WssIndInv'
    OBVIOUS
  <1>1. /\ c \in Open /\ UNCHANGED <<WssOthers, ws_h, ws_n>> /\ ws_held' = 0
        /\ ws_con[c].phase = "open"
    BY DEF HandleWssEvent_Transmit, CanWrite, WssFree
  <1>2. PICK old \in WssOlds :
          LET w == RemoveExpiredWsservMessages(ws_con[c], old) IN
          ws_con' = [ws_con EXCEPT ![c] = IF w.queue = <<>> THEN [w EXCEPT !.writable = FALSE] ELSE WssSent(w)]
    BY DEF HandleWssEvent_Transmit
  <1> DEFINE w == RemoveExpiredWsservMessages(ws_con[c], old)
             v == IF w.queue = <<>> THEN [w EXCEPT !.writable = FALSE] ELSE WssSent(w)
  <1>3. c \in WssConns /\ ws_con[c] \in WssConnections /\ ws_con[c].handle # 0 /\ ws_srv.up /\ WssFramed(ws_con[c])
    BY <1>1, OpenCon
  <1>4. /\ w \in WssConnections /\ WssFramed(w) /\ w.handle = ws_con[c].handle
        /\ w.phase = "open" /\ w.peer = ws_con[c].peer
    BY <1>1, <1>3, ExpiredFramed
  <1>5. ws_con' = [ws_con EXCEPT ![c] = v]
    BY <1>2
  <1> HIDE DEF w
  <1>6. v \in WssConnections /\ WssFramed(v) /\ v.peer = ws_con[c].peer
    BY <1>4, SentFramed, WritableCon
  <1> HIDE DEF v
  <1>7. ws_h' \in Nat /\ ws_n' \in 0..MaxWssRecords /\ UNCHANGED WssOthers
    BY <1>1 DEF WssIndInv, WssTyped
  <1> QED
    BY <1>1, <1>3, <1>5, <1>6, <1>7, WssOneStep

-----------------------------------------------------------------------------
(* The websocket client of the agent, seen from the server.                *)

LEMMA DisconnectEndpointStep == WssIndInv /\ WSSERVER_DisconnectEndpoint => WssIndInv'
  <1> SUFFICES ASSUME WssIndInv, WSSERVER_DisconnectEndpoint PROVE WssIndInv'
    OBVIOUS
  <1> DEFINE told(c) == c \in WithEid(Controller) /\ WssDisconnect \notin ToSet(ws_con[c].queue)
  <1>1. /\ ws_con' = [c \in WssConns |-> IF told(c) THEN [ws_con[c] EXCEPT !.queue = Append(@, WssDisconnect)]
                                         ELSE ws_con[c]]
        /\ UNCHANGED <<ws_srv, ws_conf, ws_exit, ws_held, ws_h, ws_n>> /\ ws_held = 0
    BY DEF WSSERVER_DisconnectEndpoint, WssClient
  <1>2. \A c \in WssConns : /\ ws_con'[c] \in WssConnections
                            /\ ws_con'[c].handle = ws_con[c].handle /\ ws_con'[c].peer = ws_con[c].peer
                            /\ ws_con[c].handle # 0 => WssFramed(ws_con'[c])
    <2> TAKE c \in WssConns
    <2>1. CASE told(c)
      <3>1. ws_con'[c] = [ws_con[c] EXCEPT !.queue = Append(@, WssDisconnect)]
        BY <1>1, <2>1
      <3>2. c \in Open
        BY <2>1 DEF WithEid
      <3>3. ws_con[c] \in WssConnections /\ WssFramed(ws_con[c]) /\ WssDisconnect \in WssQueued
        BY <3>2, OpenCon DEF WssQueued
      <3> QED
        BY <3>1, <3>3, AppendFramed, ZenonT(60)
    <2>2. CASE ~told(c)
      <3>1. ws_con'[c] = ws_con[c]
        BY <1>1, <2>2
      <3> QED
        BY <3>1 DEF WssIndInv, WssTyped
    <2> QED
      BY <2>1, <2>2
  <1>3. ws_con' \in [WssConns -> WssConnections]
    <2>1. DOMAIN ws_con' = WssConns /\ ws_con' = [c \in WssConns |-> ws_con'[c]]
      BY <1>1
    <2> QED
      BY <1>2, <2>1
  <1>4. WssTyped'
    BY <1>1, <1>3 DEF WssIndInv, WssTyped
  <1> QED
    BY <1>1, <1>2, <1>4, WssConStep DEF WssIndInv

LEMMA ClientStep ==
    ASSUME WssIndInv, UNCHANGED <<ws_srv, ws_con, ws_conf, ws_exit, ws_held, ws_h, ws_n>>
    PROVE  WssIndInv'
  <1>1. WssTyped'
    BY DEF WssIndInv, WssTyped
  <1> QED
    BY <1>1, WssSameCon, OpenCon

LEMMA WssStep == WssIndInv /\ [WssNext]_wssVars => WssIndInv'
  <1> SUFFICES ASSUME WssIndInv, [WssNext]_wssVars PROVE WssIndInv'
    OBVIOUS
  <1>1. CASE UNCHANGED wssVars
    BY <1>1, ClientStep DEF wssVars, wssBounds
  <1>2. CASE ValidateBegin \/ ClientConnected
    BY <1>2, ClientStep DEF ValidateBegin, ClientConnected, WssClient
  <1>3. CASE WssThread
    BY <1>3, ServiceInactiveStep, StopServerStep, ServiceActiveStep, EstablishedEndStep,
       DisconnectEndpointStep DEF WssThread
  <1>4. ASSUME NEW c \in WssConns,
               \/ WssLost(c) \/ EstablishedBegin(c) \/ EstablishedUnknown(c) \/ HandleWssEvent_Receive(c)
               \/ HandleWssEvent_PingTimer(c) \/ TransmitOther(c) \/ HandleWssEvent_Transmit(c)
        PROVE  WssIndInv'
    BY <1>4, WssLostStep, EstablishedBeginStep, EstablishedUnknownStep, WssReceiveStep, WssPingTimerStep,
       TransmitOtherStep, WssTransmitStep
  <1> QED
    BY <1>1, <1>2, <1>3, <1>4, NotifyWssStep, ActivateWssStep, QueueWssStep, WanPollStep, WsiCreateStep DEF WssNext

\* What a controller sees of its connection to the server is framed, although records expire, are queued
\* for a connection that is gone, and entries of the table are used again; and a controller that connects
\* in any order has one connection at most (wsserver.c:1101, :1395, :2175).
THEOREM WsServerFrames == WssSpec => []WssInv
  <1>1. WssIndInv => WssInv
    <2> HAVE WssIndInv
    <2>1. WssTypeOK
      <3>1. \A c \in WssConns : ws_con[c].tx \in 0..1 /\ ws_con[c].queue \in Seq(WssQueued)
        BY DEF WssIndInv, WssTyped, WssConnections
      <3>2. ws_srv.up \in BOOLEAN /\ {ws_srv.restart, ws_srv.stop} \subseteq {"Off", "Signalled", "Activated"}
        BY DEF WssIndInv, WssTyped, WssSrvs, WssActions
      <3>3. Open # {} => ws_srv.up
        BY OpenCon
      <3> QED
        BY <3>1, <3>2, <3>3 DEF WssTypeOK, WssIndInv, WssTyped
    <2>2. WssWellFramed
      <3> SUFFICES ASSUME NEW c \in Open, ws_con[c].tx # 0
                   PROVE  ws_con[c].queue # <<>> /\ Head(ws_con[c].queue) = ws_con[c].part
        BY DEF WssWellFramed
      <3>1. ws_con[c] \in WssConnections /\ WssFramed(ws_con[c])
        BY OpenCon
      <3>2. ws_con[c].queue \in Seq(WssQueued) /\ ws_con[c].queue # <<>> /\ ws_con[c].queue[1] = ws_con[c].part
        BY <3>1 DEF WssFramed, WssConnections
      <3> QED
        BY <3>2
    <2>3. WssUnique
      <3> DEFINE A == {c \in WithEid(Controller) : ~ws_con[c].disconnect}
      <3>1. \A c, d \in A : c = d
        BY DEF WssIndInv
      <3> HIDE DEF A
      <3>2. CASE A = {}
        BY <3>2, FS_EmptySet DEF WssUnique, A
      <3>3. CASE A # {}
        <4>1. PICK c \in A : TRUE
          BY <3>3
        <4>2. A = {c}
          BY <3>1
        <4>3. Cardinality(A) = 1
          BY <4>2, FS_Singleton
        <4> QED
          BY <4>3 DEF WssUnique, A
      <3> QED
        BY <3>2, <3>3
    <2> QED
      BY <2>1, <2>2, <2>3 DEF WssInv
  <1> QED
    BY <1>1, WssInitHolds, WssStep, PTL DEF WssSpec
=============================================================================
