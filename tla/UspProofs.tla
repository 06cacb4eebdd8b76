----------------------------- MODULE UspProofs ------------------------------
(***************************************************************************)
(* Proofs about both ends of a registration: the broker's side (UspBroker) *)
(* and the USP Service's (UspService).                                     *)
(*                                                                         *)
(* Broker: for every set of services, paths and nodes, every size of the   *)
(* service table and any number of failures.  Services answer              *)
(* GetSupportedDM requests over the connection that asked; the run with    *)
(* late answers shows why this is needed.                                  *)
(*                                                                         *)
(* Service: for any set of vendor threads and any number of calls,         *)
(* registrations and faults, a sleeping thread has exactly one wake-up to  *)
(* come, and no request outlives its frame.  The queue of the data model   *)
(* thread and the list of requests matter only through who is in them, so  *)
(* the lemmas on sequences give their ranges, and every step is then about *)
(* the two sets.                                                           *)
(***************************************************************************)
EXTENDS UspBroker, UspService, TLAPS

-----------------------------------------------------------------------------
(* The broker (UspBroker).                                                 *)

\* The types of the variables the argument is about.
RegTypes ==
    /\ mtp \in [Services -> SUBSET Sockets]
    /\ registered_paths \in [Services -> SUBSET Paths]
    /\ waiting \in [Services -> BOOLEAN]
    /\ asked \in [Services -> BOOLEAN]
    /\ gsdm_paths \in [Services -> SUBSET Paths]
    /\ owner \in [Nodes -> Services \cup {Absent}]

\* A response that may still come is awaited, over the socket that is connected, and asks
\* for paths that are registered.
AskedIsRegistered ==
    \A s \in Services : asked[s] =>
        waiting[s] /\ "controller" \in mtp[s] /\ gsdm_paths[s] \subseteq registered_paths[s]

\* Nodes go with the socket over which they were registered.
OwnerIsConnected ==
    \A s \in Services, n \in Nodes : owner[n] = s => "controller" \in mtp[s]

\* The inductive invariant.
RegInv ==
    RegTypes /\ NoOverlap /\ OwnedIsRegistered /\ AskedIsRegistered /\ OwnerIsConnected

\* What a step may do to the owners of nodes.
NoTheftStep == \A n \in Nodes : owner[n] # Absent => owner'[n] \in {owner[n], Absent}

-----------------------------------------------------------------------------
(* Paths.                                                                  *)

LEMMA PrefixesComparable ==
    ASSUME NEW a \in Seq(STRING), NEW b \in Seq(STRING), NEW c \in Seq(STRING),
           IsStrictPrefix(a, c), IsStrictPrefix(b, c)
    PROVE  a = b \/ IsStrictPrefix(a, b) \/ IsStrictPrefix(b, a)
  <1> DEFINE Below(x, y) == Len(x) <= Len(y) /\ \A i \in 1..Len(x) : x[i] = y[i]
  <1>1. ASSUME NEW x \in Seq(STRING), NEW y \in Seq(STRING)
        PROVE  IsPrefix(x, y) <=> Below(x, y)
    <2>1. Len(x) \in Nat /\ Len(y) \in Nat /\ SubSeq(x, 1, Len(x)) = x
      OBVIOUS
    <2>2. ASSUME IsPrefix(x, y)
          PROVE  Below(x, y)
      <3>1. Len(x) <= Len(y) /\ x = SubSeq(y, 1, Len(x))
        BY <2>1, <2>2 DEF IsPrefix
      <3>2. \A i \in 1..Len(x) : SubSeq(y, 1, Len(x))[i] = y[i]
        BY <2>1, <3>1
      <3> QED
        BY <3>1, <3>2
    <2>3. ASSUME Below(x, y)
          PROVE  IsPrefix(x, y)
      <3>1. Len(SubSeq(y, 1, Len(x))) = Len(x) /\ SubSeq(y, 1, Len(x)) \in Seq(STRING)
        BY <2>1, <2>3
      <3>2. \A i \in 1..Len(x) : SubSeq(y, 1, Len(x))[i] = x[i]
        BY <2>1, <2>3
      <3>3. SubSeq(y, 1, Len(x)) = x
        BY <3>1, <3>2
      <3> QED
        BY <2>1, <2>3, <3>3 DEF IsPrefix
    <2> QED
      BY <2>2, <2>3
  <1>2. Below(a, c) /\ Below(b, c)
    BY <1>1 DEF IsStrictPrefix
  <1>3. Len(a) \in Nat /\ Len(b) \in Nat
    OBVIOUS
  <1>4. CASE Len(a) <= Len(b)
    BY <1>1, <1>2, <1>3, <1>4 DEF IsStrictPrefix
  <1>5. CASE Len(b) <= Len(a)
    BY <1>1, <1>2, <1>3, <1>5 DEF IsStrictPrefix
  <1> QED
    BY <1>3, <1>4, <1>5

\* Two paths above one node are in conflict: no node can be reached through two
\* registrations that IsPathAlreadyRegistered lets stand beside each other.
LEMMA CommonNode ==
    ASSUME NEW n \in Nodes, NEW p \in Paths, NEW q \in Paths,
           MatchesOrIsChildOf(n, p), MatchesOrIsChildOf(n, q)
    PROVE  Conflict(p, q)
  <1>1. p.name \in Seq(STRING) /\ q.name \in Seq(STRING) /\ n.name \in Seq(STRING)
    <2>1. ASSUME NEW r \in Paths
          PROVE  r \in Path
      <3>1. PICK s \in Services : \E h \in Offers[s] : r \in ToSet(h)
        BY DEF Paths
      <3> PICK h \in Offers[s] : r \in ToSet(h)
        BY <3>1
      <3>2. h \in Seq(Path)
        BY PathAssumption
      <3> QED
        BY <3>2 DEF ToSet
    <2> QED
      BY <2>1, PathAssumption DEF Path
  <1>2. CASE n = p \/ n = q
    BY <1>2 DEF Conflict
  <1>3. CASE n # p /\ n # q
    <2>1. /\ p.kind = "object" /\ IsStrictPrefix(p.name, n.name)
          /\ q.kind = "object" /\ IsStrictPrefix(q.name, n.name)
      BY <1>3 DEF MatchesOrIsChildOf
    <2>2. p.name = q.name \/ IsStrictPrefix(p.name, q.name) \/ IsStrictPrefix(q.name, p.name)
      BY <1>1, <2>1, PrefixesComparable
    <2> QED
      BY <2>1, <2>2 DEF Conflict, MatchesOrIsChildOf
  <1> QED
    BY <1>2, <1>3

LEMMA ConflictSymmetric ==
    ASSUME NEW p, NEW q, Conflict(p, q)
    PROVE  Conflict(q, p)
  BY DEF Conflict

-----------------------------------------------------------------------------
(* Steps.                                                                  *)

LEMMA InitReg == Init => RegInv
  <1> SUFFICES ASSUME Init
               PROVE  RegInv
    OBVIOUS
  <1>1. RegTypes
    BY DEF Init, RegTypes
  <1>2. \A s \in Services : registered_paths[s] = {} /\ ~asked[s]
    BY DEF Init
  <1>3. \A n \in Nodes : owner[n] = Absent /\ owner[n] \notin Services
    BY ServicesAssumption DEF Init, Absent
  <1> QED
    BY <1>1, <1>2, <1>3
       DEF RegInv, NoOverlap, OwnedIsRegistered, AskedIsRegistered, OwnerIsConnected

LEMMA UnchangedReg ==
    ASSUME RegInv, UNCHANGED <<mtp, regVars>>
    PROVE  RegInv' /\ NoTheftStep
  BY DEF RegInv, RegTypes, NoOverlap, OwnedIsRegistered, AskedIsRegistered,
         OwnerIsConnected, NoTheftStep, regVars

LEMMA RestartedReg ==
    ASSUME RegInv, Restarted
    PROVE  RegInv' /\ NoTheftStep
  BY ServicesAssumption DEF RegInv, RegTypes, NoOverlap, OwnedIsRegistered, AskedIsRegistered,
         OwnerIsConnected, NoTheftStep, Restarted, Absent

\* What connects only adds to mtp.
LEMMA ConnectReg ==
    ASSUME RegInv, NEW s \in Services, NEW k \in Sockets, Connect(s, k)
    PROVE  RegInv' /\ NoTheftStep
  <1>1. UNCHANGED regVars
    BY DEF Connect
  <1>2. mtp' \in [Services -> SUBSET Sockets] /\ \A t \in Services : mtp[t] \subseteq mtp'[t]
    BY DEF Connect, RegInv, RegTypes
  <1> QED
    BY <1>1, <1>2 DEF RegInv, RegTypes, NoOverlap, OwnedIsRegistered, AskedIsRegistered,
       OwnerIsConnected, NoTheftStep, regVars

LEMMA DisconnectReg ==
    ASSUME RegInv, ~LateAnswers, NEW s \in Services, NEW k \in Sockets, Disconnect(s, k)
    PROVE  RegInv' /\ NoTheftStep
  <1>1. CASE s \notin known
    BY <1>1, UnchangedReg DEF Disconnect
  <1>2. CASE s \in known
    <2>1. HandleDisconnect(s, k)
      BY <1>2 DEF Disconnect
    <2>2. /\ mtp' = [mtp EXCEPT ![s] = @ \ {k}]
          /\ mtp' \in [Services -> SUBSET Sockets]
      BY <2>1 DEF HandleDisconnect, RegInv, RegTypes
    <2>3. CASE k = "controller"
      <3>1. /\ registered_paths' = [registered_paths EXCEPT ![s] = {}]
            /\ owner' = Destroyed(registered_paths[s])
            /\ asked' = [asked EXCEPT ![s] = FALSE]
        BY <2>1, <2>3 DEF HandleDisconnect, AgentDisconnect, ForgetPaths
      <3>2. /\ waiting' \in [Services -> BOOLEAN]
            /\ gsdm_paths' \in [Services -> SUBSET Paths]
            /\ \A t \in Services \ {s} : waiting'[t] = waiting[t] /\ gsdm_paths'[t] = gsdm_paths[t]
        BY <2>1 DEF HandleDisconnect, FreeUspService, RegInv, RegTypes
      <3>3. \A n \in Nodes : owner'[n] # Absent =>
                owner'[n] = owner[n] /\ \A p \in registered_paths[s] : ~MatchesOrIsChildOf(n, p)
        BY <3>1 DEF Destroyed
      <3>4. \A n \in Nodes : owner'[n] # s
        BY <3>3, ServicesAssumption DEF RegInv, OwnedIsRegistered, Absent
      <3>5. RegTypes'
        BY <2>2, <3>1, <3>2 DEF RegInv, RegTypes, Destroyed
      <3>6. NoOverlap'
        BY <3>1 DEF RegInv, RegTypes, NoOverlap
      <3>7. OwnedIsRegistered'
        BY <3>1, <3>3, <3>4 DEF RegInv, RegTypes, OwnedIsRegistered
      <3>8. AskedIsRegistered'
        BY <2>2, <3>1, <3>2 DEF RegInv, RegTypes, AskedIsRegistered
      <3>9. OwnerIsConnected'
        BY <2>2, <3>3, <3>4, ServicesAssumption DEF RegInv, RegTypes, OwnerIsConnected, Absent
      <3>10. NoTheftStep
        BY <3>3 DEF NoTheftStep
      <3> QED
        BY <3>5, <3>6, <3>7, <3>8, <3>9, <3>10 DEF RegInv
    <2>4. CASE k = "agent" /\ ~(mtp[s] \subseteq {k})
      <3>1. UNCHANGED regVars
        BY <2>1, <2>4 DEF HandleDisconnect, regVars
      <3>2. \A t \in Services : "controller" \in mtp[t] => "controller" \in mtp'[t]
        BY <2>2, <2>4 DEF RegInv, RegTypes
      <3> QED
        BY <2>2, <3>1, <3>2 DEF RegInv, RegTypes, NoOverlap, OwnedIsRegistered,
           AskedIsRegistered, OwnerIsConnected, NoTheftStep, regVars
    <2>5. CASE k = "agent" /\ mtp[s] \subseteq {k}
      <3>1. "controller" \notin mtp[s]
        BY <2>5
      <3>2. ~asked[s] /\ \A n \in Nodes : owner[n] # s
        BY <3>1 DEF RegInv, AskedIsRegistered, OwnerIsConnected
      <3>3. /\ UNCHANGED <<owner, asked>>
            /\ registered_paths' = [registered_paths EXCEPT ![s] = {}]
            /\ waiting' = [waiting EXCEPT ![s] = FALSE]
            /\ gsdm_paths' = [gsdm_paths EXCEPT ![s] = {}]
        BY <2>1, <2>5 DEF HandleDisconnect, FreeUspService, ForgetPaths
      <3>4. RegTypes'
        BY <2>2, <3>3 DEF RegInv, RegTypes
      <3>5. NoOverlap'
        BY <3>3 DEF RegInv, RegTypes, NoOverlap
      <3>6. OwnedIsRegistered'
        BY <3>2, <3>3 DEF RegInv, RegTypes, OwnedIsRegistered
      <3>7. AskedIsRegistered'
        BY <2>2, <3>2, <3>3 DEF RegInv, RegTypes, AskedIsRegistered
      <3>8. OwnerIsConnected'
        BY <2>2, <3>2, <3>3 DEF RegInv, RegTypes, OwnerIsConnected
      <3>9. NoTheftStep
        BY <3>3 DEF NoTheftStep
      <3> QED
        BY <3>4, <3>5, <3>6, <3>7, <3>8, <3>9 DEF RegInv
    <2> QED
      BY <2>3, <2>4, <2>5 DEF Sockets
  <1> QED
    BY <1>1, <1>2

\* The accepted paths conflict neither with each other nor with what any service has
\* registered.
LEMMA AcceptedApart ==
    ASSUME NEW s \in Services, NEW q \in Offers[s], NEW I \in SUBSET DOMAIN q,
           Accept(s, q, I)
    PROVE  /\ \A i, j \in I : Conflict(q[i], q[j]) => q[i] = q[j]
           /\ \A i \in I, t \in Services : \A p \in registered_paths[t] : ~Conflict(q[i], p)
  <1>1. \A i \in I : ~IsPathAlreadyRegistered(q[i], {q[j] : j \in I \cap 1..(i - 1)})
    BY DEF Accept, ShouldPathBeAddedToDataModel
  <1>2. \A i \in I, t \in Services : \A p \in registered_paths[t] : ~Conflict(q[i], p)
    BY <1>1 DEF IsPathAlreadyRegistered
  <1>3. \A i, j \in I : j \in 1..(i - 1) => ~Conflict(q[i], q[j])
    BY <1>1 DEF IsPathAlreadyRegistered
  <1>4. ASSUME NEW i \in I, NEW j \in I, i # j
        PROVE  ~Conflict(q[i], q[j])
    <2>1. i \in 1..Len(q) /\ j \in 1..Len(q) /\ Len(q) \in Nat
      BY PathAssumption
    <2> QED
      BY <1>3, <1>4, <2>1, ConflictSymmetric
  <1> QED
    BY <1>2, <1>4

LEMMA RegisterReg ==
    ASSUME RegInv, NEW s \in Services, NEW q \in Offers[s], NEW partial \in BOOLEAN,
           HandleRegister(s, q, partial)
    PROVE  RegInv' /\ NoTheftStep
  <1>1. PICK I \in SUBSET DOMAIN q :
          /\ Accept(s, q, I)
          /\ \/ Restarted
             \/ /\ mtp' = [mtp EXCEPT ![s] = IF s \in known THEN @ ELSE {"controller"}]
                /\ \/ Registered(s, {q[i] : i \in I})
                   \/ UNCHANGED <<registered_paths, waiting, asked, gsdm_paths>>
                /\ UNCHANGED owner
    BY DEF HandleRegister
  <1> DEFINE accepted == {q[i] : i \in I}
  <1>2. accepted \subseteq Paths
    BY DEF Paths, ToSet
  <1>3. /\ \A p \in accepted, r \in accepted : Conflict(p, r) => p = r
        /\ \A p \in accepted, t \in Services : \A r \in registered_paths[t] : ~Conflict(p, r)
    BY <1>1, AcceptedApart
  <1> HIDE DEF accepted
  <1>4. CASE Restarted
    BY <1>4, RestartedReg
  <1>5. ASSUME mtp' = [mtp EXCEPT ![s] = IF s \in known THEN @ ELSE {"controller"}],
               UNCHANGED owner
        PROVE  /\ mtp' \in [Services -> SUBSET Sockets]
               /\ \A t \in Services : "controller" \in mtp[t] => "controller" \in mtp'[t]
               /\ OwnerIsConnected' /\ NoTheftStep
    <2>1. /\ mtp' \in [Services -> SUBSET Sockets]
          /\ \A t \in Services : "controller" \in mtp[t] => "controller" \in mtp'[t]
      BY <1>5 DEF RegInv, RegTypes, Sockets
    <2> QED
      BY <1>5, <2>1 DEF RegInv, OwnerIsConnected, NoTheftStep
  <1>6. ASSUME mtp' = [mtp EXCEPT ![s] = IF s \in known THEN @ ELSE {"controller"}],
               UNCHANGED <<registered_paths, waiting, asked, gsdm_paths, owner>>
        PROVE  RegInv' /\ NoTheftStep
    BY <1>5, <1>6 DEF RegInv, RegTypes, NoOverlap, OwnedIsRegistered, AskedIsRegistered
  <1>7. ASSUME mtp' = [mtp EXCEPT ![s] = IF s \in known THEN @ ELSE {"controller"}],
               Registered(s, accepted), UNCHANGED owner
        PROVE  RegInv' /\ NoTheftStep
    <2>1. /\ registered_paths' = [registered_paths EXCEPT ![s] = @ \cup accepted]
          /\ \A t \in Services : registered_paths[t] \subseteq registered_paths'[t]
      BY <1>7 DEF Registered, RegInv, RegTypes
    <2>2. ASSUME "controller" \in mtp'[s]
          PROVE  RegTypes' /\ AskedIsRegistered'
      <3>1. /\ waiting' = [waiting EXCEPT ![s] = TRUE]
            /\ asked' = [asked EXCEPT ![s] = TRUE]
            /\ gsdm_paths' = [gsdm_paths EXCEPT ![s] = accepted]
        BY <1>7, <2>2 DEF Registered
      <3>2. RegTypes'
        BY <1>2, <1>5, <1>7, <2>1, <3>1 DEF RegInv, RegTypes
      <3>3. accepted \subseteq registered_paths'[s]
        BY <2>1 DEF RegInv, RegTypes
      <3>4. AskedIsRegistered'
        BY <1>5, <1>7, <2>1, <2>2, <3>1, <3>3 DEF RegInv, RegTypes, AskedIsRegistered
      <3> QED
        BY <3>2, <3>4
    <2>3. ASSUME "controller" \notin mtp'[s]
          PROVE  RegTypes' /\ AskedIsRegistered'
      <3>0. ("controller" \in mtp'[s]) = FALSE
        BY <2>3
      <3>1. /\ waiting' = [waiting EXCEPT ![s] = FALSE]
            /\ asked' = [asked EXCEPT ![s] = FALSE]
            /\ gsdm_paths' = [gsdm_paths EXCEPT ![s] = @]
        BY <1>7, <3>0, Zenon DEF Registered
      <3>2. RegTypes'
        BY <1>2, <1>5, <1>7, <2>1, <3>1 DEF RegInv, RegTypes
      <3>3. AskedIsRegistered'
        BY <1>5, <1>7, <2>1, <3>1 DEF RegInv, RegTypes, AskedIsRegistered
      <3> QED
        BY <3>2, <3>3
    <2>4. NoOverlap'
      <3> SUFFICES ASSUME NEW a \in Services, NEW b \in Services,
                          NEW p \in registered_paths'[a], NEW r \in registered_paths'[b],
                          Conflict(p, r)
                   PROVE  a = b /\ p = r
        BY DEF NoOverlap
      <3>1. /\ p \in registered_paths[a] \/ (a = s /\ p \in accepted)
            /\ r \in registered_paths[b] \/ (b = s /\ r \in accepted)
        BY <2>1 DEF RegInv, RegTypes
      <3> QED
        BY <1>3, <3>1, ConflictSymmetric DEF RegInv, NoOverlap
    <2>5. OwnedIsRegistered'
      BY <1>7, <2>1 DEF RegInv, RegTypes, OwnedIsRegistered
    <2> QED
      BY <1>5, <1>7, <2>2, <2>3, <2>4, <2>5 DEF RegInv
  <1> QED
    BY <1>1, <1>4, <1>6, <1>7 DEF accepted

\* The response adds nodes below the paths it was asked for, which are registered; a node
\* that another service owns lies below none of them.
LEMMA GsdmReg ==
    ASSUME RegInv, NEW s \in Services, NEW N, NEW f, HandleGetSupportedDMResp(s, N, f)
    PROVE  RegInv' /\ NoTheftStep
  <1>1. /\ asked[s]
        /\ waiting' = [waiting EXCEPT ![s] = FALSE]
        /\ asked' = [asked EXCEPT ![s] = FALSE]
        /\ gsdm_paths' = [gsdm_paths EXCEPT ![s] = {}]
        /\ owner' = AddNodes(s, N)
        /\ UNCHANGED <<mtp, registered_paths>>
    BY DEF HandleGetSupportedDMResp, linkVars
  <1>2. "controller" \in mtp[s] /\ gsdm_paths[s] \subseteq registered_paths[s]
    BY <1>1 DEF RegInv, AskedIsRegistered
  <1>3. \A n \in Nodes : \/ owner'[n] = owner[n]
                          \/ /\ owner'[n] = s
                             /\ \E p \in registered_paths[s] : MatchesOrIsChildOf(n, p)
    BY <1>1, <1>2 DEF AddNodes
  <1>4. RegTypes'
    BY <1>1, <1>3 DEF RegInv, RegTypes, AddNodes
  <1>5. NoOverlap'
    BY <1>1 DEF RegInv, NoOverlap
  <1>6. OwnedIsRegistered'
    BY <1>1, <1>3 DEF RegInv, OwnedIsRegistered
  <1>7. AskedIsRegistered'
    BY <1>1 DEF RegInv, RegTypes, AskedIsRegistered
  <1>8. OwnerIsConnected'
    BY <1>1, <1>2, <1>3 DEF RegInv, OwnerIsConnected
  <1>9. NoTheftStep
    <2> SUFFICES ASSUME NEW n \in Nodes, owner[n] # Absent, owner'[n] # owner[n]
                 PROVE  FALSE
      BY DEF NoTheftStep
    <2>1. owner[n] \in Services
      BY DEF RegInv, RegTypes
    <2>2. PICK p \in registered_paths[s] : owner'[n] = s /\ MatchesOrIsChildOf(n, p)
      BY <1>3
    <2>3. PICK r \in registered_paths[owner[n]] : MatchesOrIsChildOf(n, r)
      BY DEF RegInv, OwnedIsRegistered
    <2>4. p \in Paths /\ r \in Paths
      BY <2>1 DEF RegInv, RegTypes
    <2>5. Conflict(p, r)
      BY <2>2, <2>3, <2>4, CommonNode
    <2> QED
      BY <2>1, <2>2, <2>5 DEF RegInv, NoOverlap
  <1> QED
    BY <1>4, <1>5, <1>6, <1>7, <1>8, <1>9 DEF RegInv

\* The nodes below the paths that are deregistered go with them, whichever these are.
LEMMA DeRegisterReg ==
    ASSUME RegInv, NEW s \in Services, NEW q, NEW f, HandleDeRegister(s, q, f)
    PROVE  RegInv' /\ NoTheftStep
  <1>1. PICK gone :
          /\ registered_paths' = [registered_paths EXCEPT ![s] = registered_paths[s] \ gone]
          /\ owner' = Destroyed(gone)
    BY DEF HandleDeRegister
  <1>2. ~waiting[s] /\ UNCHANGED <<mtp, waiting, asked, gsdm_paths>>
    BY DEF HandleDeRegister, linkVars
  <1>3. ~asked[s]
    BY <1>2 DEF RegInv, AskedIsRegistered
  <1>4. \A n \in Nodes : owner'[n] # Absent =>
            owner'[n] = owner[n] /\ \A p \in gone : ~MatchesOrIsChildOf(n, p)
    BY <1>1 DEF Destroyed
  <1>5. \A t \in Services : registered_paths'[t] \subseteq registered_paths[t]
    BY <1>1 DEF RegInv, RegTypes
  <1>6. RegTypes'
    BY <1>1, <1>2 DEF RegInv, RegTypes, Destroyed
  <1>7. NoOverlap'
    BY <1>5 DEF RegInv, NoOverlap
  <1>8. OwnedIsRegistered'
    <2> SUFFICES ASSUME NEW n \in Nodes, owner'[n] # Absent
                 PROVE  \E p \in registered_paths'[owner'[n]] : MatchesOrIsChildOf(n, p)
      BY DEF OwnedIsRegistered
    <2>1. owner[n] \in Services /\ owner'[n] = owner[n]
      BY <1>4 DEF RegInv, RegTypes
    <2>2. PICK p \in registered_paths[owner[n]] : MatchesOrIsChildOf(n, p)
      BY <2>1, <1>4 DEF RegInv, OwnedIsRegistered
    <2>3. p \notin gone
      BY <1>4, <2>2
    <2>4. p \in registered_paths'[owner[n]]
      BY <1>1, <2>1, <2>2, <2>3 DEF RegInv, RegTypes
    <2> QED
      BY <2>1, <2>2, <2>4
  <1>9. AskedIsRegistered'
    BY <1>1, <1>2, <1>3 DEF RegInv, RegTypes, AskedIsRegistered
  <1>10. OwnerIsConnected'
    BY <1>2, <1>4, ServicesAssumption DEF RegInv, OwnerIsConnected, Absent
  <1>11. NoTheftStep
    BY <1>4 DEF NoTheftStep
  <1> QED
    BY <1>6, <1>7, <1>8, <1>9, <1>10, <1>11 DEF RegInv

LEMMA LostAnswerReg ==
    ASSUME RegInv, NEW s \in Services, GetSupportedDMRespEmpty(s) \/ GetSupportedDMError(s)
    PROVE  RegInv' /\ NoTheftStep
  <1>1. /\ asked' = [asked EXCEPT ![s] = FALSE]
        /\ waiting' = waiting \/ waiting' = [waiting EXCEPT ![s] = FALSE]
        /\ UNCHANGED <<mtp, registered_paths, gsdm_paths, owner>>
    BY DEF GetSupportedDMRespEmpty, GetSupportedDMError, linkVars
  <1>2. RegTypes'
    BY <1>1 DEF RegInv, RegTypes
  <1>3. AskedIsRegistered'
    BY <1>1 DEF RegInv, RegTypes, AskedIsRegistered
  <1> QED
    BY <1>1, <1>2, <1>3 DEF RegInv, NoOverlap, OwnedIsRegistered, OwnerIsConnected, NoTheftStep

LEMMA NextReg ==
    ASSUME ~LateAnswers, RegInv, [Next]_vars
    PROVE  RegInv' /\ NoTheftStep
  <1>1. CASE UNCHANGED vars
    BY <1>1, UnchangedReg DEF vars, linkVars
  <1>2. ASSUME NEW s \in Services, NEW k \in Sockets, Connect(s, k) \/ Disconnect(s, k)
        PROVE  RegInv' /\ NoTheftStep
    BY <1>2, ConnectReg, DisconnectReg
  <1>3. ASSUME NEW s \in Services, ServiceRestart(s)
        PROVE  RegInv' /\ NoTheftStep
    BY <1>3, UnchangedReg DEF ServiceRestart, linkVars
  <1>4. ASSUME NEW b, NEW new, NEW f, SetSub(b, new, f)
        PROVE  RegInv' /\ NoTheftStep
    <2>1. UNCHANGED <<mtp, regVars>>
      BY <1>4 DEF SetSub, linkVars
    <2> QED
      BY <2>1, UnchangedReg
  <1>5. CASE BrokerRestart
    BY <1>5, RestartedReg DEF BrokerRestart
  <1> QED
    BY <1>1, <1>2, <1>3, <1>4, <1>5, RegisterReg, GsdmReg, DeRegisterReg, LostAnswerReg DEF Next

-----------------------------------------------------------------------------

\* The inductive invariant holds in every reachable state.
THEOREM RegInvariant == ~LateAnswers => (Spec => []RegInv)
  <1>1. Init => RegInv
    BY InitReg
  <1>2. ~LateAnswers /\ RegInv /\ [Next]_vars => RegInv'
    BY NextReg
  <1>3. CASE ~LateAnswers
    BY <1>1, <1>2, <1>3, PTL DEF Spec
  <1> QED
    BY <1>3

\* Registrations never overlap, whatever is registered, deregistered, lost or restarted:
\* IsPathAlreadyRegistered sees every registration, answered or not.
THEOREM RegistrationsApart == ~LateAnswers => (Spec => []NoOverlap)
  <1>1. RegInv => NoOverlap
    BY DEF RegInv
  <1> QED
    BY <1>1, RegInvariant, PTL

\* The nodes a service added lie below paths it has registered, so that they go when the
\* registration goes, by DATA_MODEL_DeRegisterPath on deregistration and disconnection.
THEOREM NodesRegistered == ~LateAnswers => (Spec => []OwnedIsRegistered)
  <1>1. RegInv => OwnedIsRegistered
    BY DEF RegInv
  <1> QED
    BY <1>1, RegInvariant, PTL

\* ProcessGsdm_SupportedObject never takes a node from another service.
THEOREM NodesNotStolen == ~LateAnswers => (Spec => NoTheft)
  <1>1. ~LateAnswers /\ RegInv /\ [Next]_vars => NoTheftStep
    BY NextReg
  <1>2. NoTheftStep => [\A n \in Nodes : owner[n] # Absent => owner'[n] \in {owner[n], Absent}]_vars
    BY DEF NoTheftStep
  <1>3. CASE ~LateAnswers
    BY <1>1, <1>2, <1>3, RegInvariant, PTL DEF Spec, NoTheft
  <1> QED
    BY <1>3

-----------------------------------------------------------------------------
(* The USP Service (UspService).                                           *)

(* Sequences without repetition.                                           *)

\* Linking to the tail, and posting to a queue.
LEMMA AppendedRange ==
  ASSUME NEW S, NEW s \in Seq(S), IsInjective(s), NEW x \in S, x \notin Range(s)
  PROVE  /\ Append(s, x) \in Seq(S) /\ IsInjective(Append(s, x))
         /\ Range(Append(s, x)) = Range(s) \cup {x}
  <1> DEFINE t == Append(s, x)
  <1>1. /\ t \in Seq(S) /\ Len(s) \in Nat /\ DOMAIN s = 1..Len(s) /\ DOMAIN t = 1..(Len(s) + 1)
        /\ \A j \in 1..Len(s) : t[j] = s[j]
        /\ t[Len(s) + 1] = x
    OBVIOUS
  <1> HIDE DEF t
  <1>2. \A j \in 1..Len(s) : s[j] # x
    BY <1>1 DEF Range
  <1>3. IsInjective(t)
    BY <1>1, <1>2 DEF IsInjective
  <1>4. Range(t) \subseteq Range(s) \cup {x}
    BY <1>1 DEF Range
  <1>5. Range(s) \subseteq Range(t) /\ x \in Range(t)
    BY <1>1 DEF Range
  <1> QED
    BY <1>1, <1>3, <1>4, <1>5 DEF t

\* Reading a queue.
LEMMA TailRange ==
  ASSUME NEW S, NEW s \in Seq(S), IsInjective(s), s # << >>
  PROVE  /\ Head(s) \in S /\ Head(s) \in Range(s)
         /\ Tail(s) \in Seq(S) /\ IsInjective(Tail(s))
         /\ Range(Tail(s)) = Range(s) \ {Head(s)}
  <1> DEFINE t == Tail(s)
  <1>1. /\ t \in Seq(S) /\ Len(s) \in Nat \ {0} /\ DOMAIN s = 1..Len(s) /\ DOMAIN t = 1..(Len(s) - 1)
        /\ \A j \in 1..(Len(s) - 1) : t[j] = s[j + 1]
        /\ Head(s) = s[1] /\ s[1] \in S
    <2>1. Len(s) \in Nat /\ Len(s) # 0 /\ DOMAIN s = 1..Len(s)
      OBVIOUS
    <2>2. t \in Seq(S) /\ Len(t) = Len(s) - 1 /\ DOMAIN t = 1..Len(t)
      BY <2>1
    <2>3. \A j \in 1..(Len(s) - 1) : t[j] = s[j + 1]
      BY <2>1
    <2>4. Head(s) = s[1] /\ s[1] \in S
      BY <2>1
    <2> QED
      BY <2>1, <2>2, <2>3, <2>4
  <1> HIDE DEF t
  <1>2. IsInjective(t)
    <2>1. SUFFICES ASSUME NEW j \in DOMAIN t, NEW k \in DOMAIN t, t[j] = t[k] PROVE j = k
      BY DEF IsInjective
    <2>2. j + 1 \in DOMAIN s /\ k + 1 \in DOMAIN s /\ s[j + 1] = s[k + 1]
      BY <1>1, <2>1
    <2>3. j + 1 = k + 1
      BY <2>2 DEF IsInjective
    <2> QED
      BY <1>1, <2>3
  <1>3. Head(s) \in Range(s)
    BY <1>1 DEF Range
  <1>4. Range(t) \subseteq Range(s) \ {Head(s)}
    <2>1. SUFFICES ASSUME NEW j \in 1..(Len(s) - 1)
                   PROVE  t[j] \in Range(s) /\ t[j] # Head(s)
      BY <1>1 DEF Range
    <2>2. j + 1 \in DOMAIN s /\ 1 \in DOMAIN s /\ j + 1 # 1 /\ t[j] = s[j + 1]
      BY <1>1
    <2> QED
      BY <1>1, <2>2 DEF Range, IsInjective
  <1>5. Range(s) \ {Head(s)} \subseteq Range(t)
    <2>1. SUFFICES ASSUME NEW k \in 1..Len(s), s[k] # Head(s) PROVE s[k] \in Range(t)
      BY <1>1 DEF Range
    <2>2. k - 1 \in 1..(Len(s) - 1) /\ s[k] = t[k - 1]
      BY <1>1, <2>1
    <2> QED
      BY <1>1, <2>2 DEF Range
  <1> QED
    BY <1>1, <1>2, <1>3, <1>4, <1>5 DEF t

\* DLLIST_Unlink
LEMMA UnlinkedRange ==
  ASSUME NEW S, NEW s \in Seq(S), IsInjective(s), NEW i \in DOMAIN s
  PROVE  /\ Unlink(s, i) \in Seq(S) /\ IsInjective(Unlink(s, i))
         /\ Range(Unlink(s, i)) = Range(s) \ {s[i]}
  <1> DEFINE t == Unlink(s, i)
             at(j) == IF j < i THEN j ELSE j + 1
  <1>1. Len(s) \in Nat /\ DOMAIN s = 1..Len(s) /\ i \in 1..Len(s)
    OBVIOUS
  <1>2. DOMAIN t = 1..(Len(s) - 1) /\ \A j \in 1..(Len(s) - 1) : t[j] = s[at(j)]
    BY DEF Unlink
  <1>3. \A j \in 1..(Len(s) - 1) : at(j) \in 1..Len(s) /\ at(j) # i /\ s[at(j)] \in S
    BY <1>1
  <1>4. \A j, k \in 1..(Len(s) - 1) : at(j) = at(k) => j = k
    BY <1>1
  <1>5. t \in Seq(S)
    <2>1. t \in [1..(Len(s) - 1) -> S]
      BY <1>2, <1>3 DEF Unlink
    <2>2. Len(s) - 1 \in Nat
      BY <1>1
    <2> QED
      BY <2>1, <2>2
  <1>6. \A k \in 1..Len(s) : k # i => \E j \in 1..(Len(s) - 1) : at(j) = k
    <2> TAKE k \in 1..Len(s)
    <2> HAVE k # i
    <2>1. CASE k < i
      <3>1. k \in 1..(Len(s) - 1) /\ at(k) = k
        BY <1>1, <2>1
      <3> QED
        BY <3>1
    <2>2. CASE k > i
      <3>1. k - 1 \in 1..(Len(s) - 1) /\ at(k - 1) = k
        BY <1>1, <2>2
      <3> QED
        BY <3>1
    <2> QED
      BY <1>1, <2>1, <2>2
  <1> HIDE DEF t, at
  <1>7. IsInjective(t)
    BY <1>1, <1>2, <1>3, <1>4 DEF IsInjective
  <1>8. Range(t) \subseteq Range(s) \ {s[i]}
    BY <1>1, <1>2, <1>3 DEF Range, IsInjective
  <1>9. Range(s) \ {s[i]} \subseteq Range(t)
    <2>1. SUFFICES ASSUME NEW k \in 1..Len(s), s[k] # s[i] PROVE s[k] \in Range(t)
      BY <1>1 DEF Range
    <2>2. PICK j \in 1..(Len(s) - 1) : at(j) = k
      BY <1>6, <2>1
    <2> QED
      BY <1>2, <2>2 DEF Range
  <1> QED
    BY <1>5, <1>7, <1>8, <1>9 DEF t

\* SYNC_TIMER_Add, and SYNC_TIMER_Remove or the expiry.
LEMMA TimerAdded ==
  ASSUME NEW s \in Seq(BOOLEAN)
  PROVE  /\ Append(s, TRUE) \in Seq(BOOLEAN) /\ Len(Append(s, TRUE)) = Len(s) + 1
         /\ DOMAIN Append(s, TRUE) = 1..(Len(s) + 1) /\ DOMAIN s = 1..Len(s) /\ Len(s) \in Nat
         /\ Append(s, TRUE)[Len(s) + 1]
         /\ \A t \in DOMAIN s : Append(s, TRUE)[t] = s[t]
  <1>1. /\ Len(s) \in Nat /\ DOMAIN s = 1..Len(s)
        /\ Append(s, TRUE) \in Seq(BOOLEAN) /\ Len(Append(s, TRUE)) = Len(s) + 1
        /\ DOMAIN Append(s, TRUE) = 1..(Len(s) + 1)
    OBVIOUS
  <1>2. Append(s, TRUE)[Len(s) + 1] = TRUE
    OBVIOUS
  <1>3. \A t \in 1..Len(s) : Append(s, TRUE)[t] = s[t]
    OBVIOUS
  <1> QED
    BY <1>1, <1>2, <1>3

LEMMA TimerStopped ==
  ASSUME NEW s \in Seq(BOOLEAN), NEW k \in DOMAIN s
  PROVE  LET n == [s EXCEPT ![k] = FALSE]
         IN  /\ n \in Seq(BOOLEAN) /\ Len(n) = Len(s) /\ DOMAIN n = DOMAIN s
             /\ \A t \in DOMAIN s : t # k => n[t] = s[t]
  <1> DEFINE n == [s EXCEPT ![k] = FALSE]
  <1>1. Len(s) \in Nat /\ DOMAIN s = 1..Len(s) /\ s \in [1..Len(s) -> BOOLEAN]
    OBVIOUS
  <1>2. n \in [1..Len(s) -> BOOLEAN] /\ \A t \in DOMAIN s : t # k => n[t] = s[t]
    BY <1>1
  <1> HIDE DEF n
  <1>3. n \in Seq(BOOLEAN) /\ Len(n) = Len(s) /\ DOMAIN n = DOMAIN s
    BY <1>1, <1>2
  <1> QED
    BY <1>2, <1>3 DEF n

-----------------------------------------------------------------------------
(* The steps.                                                              *)

\* A step that concerns one thread x, and for the others changes neither
\* where their requests are nor the timers of those that are listed.
LEMMA OneThread ==
  ASSUME SvcInv, SvcTypeOK', IsInjective(doWork'), IsInjective(reqList'), TimersApart',
         NEW x \in Vendors,
         \A w \in Vendors \ {x} :
           /\ vendor'[w].pc = vendor[w].pc /\ vendor'[w].sem = vendor[w].sem
           /\ w \in Range(doWork') <=> w \in Range(doWork)
           /\ w \in Range(reqList') <=> w \in Range(reqList)
           /\ w \in Range(reqList) /\ TimerRuns(w) => TimerRuns(w)',
         IF vendor'[x].pc = "wait"
         THEN \/ x \in Range(doWork') /\ x \notin Range(reqList') /\ vendor'[x].sem = 0
              \/ x \notin Range(doWork') /\ x \in Range(reqList') /\ vendor'[x].sem = 0 /\ TimerRuns(x)'
              \/ x \notin Range(doWork') /\ x \notin Range(reqList') /\ vendor'[x].sem = 1
         ELSE x \notin Range(doWork') /\ x \notin Range(reqList')
  PROVE  SvcInv'
  <1>1. ASSUME NEW w \in Vendors
        PROVE  IF vendor'[w].pc = "wait"
               THEN \/ w \in Range(doWork') /\ w \notin Range(reqList') /\ vendor'[w].sem = 0
                    \/ w \notin Range(doWork') /\ w \in Range(reqList') /\ vendor'[w].sem = 0 /\ TimerRuns(w)'
                    \/ w \notin Range(doWork') /\ w \notin Range(reqList') /\ vendor'[w].sem = 1
               ELSE w \notin Range(doWork') /\ w \notin Range(reqList')
    <2>1. CASE w = x
      BY <2>1
    <2>2. CASE w # x
      BY <2>2 DEF SvcInv, OneWakeToCome
    <2> QED
      BY <2>1, <2>2
  <1>2. OneWakeToCome'
    BY <1>1 DEF OneWakeToCome
  <1> QED
    BY <1>2 DEF SvcInv

\* A step that leaves the threads, the queue, the list and the timers alone.
LEMMA NoThread ==
  ASSUME SvcInv, UNCHANGED <<vendor, doWork, reqList, svcTimers, label>>, SvcTypeOK'
  PROVE  SvcInv'
  BY DEF SvcInv, OneWakeToCome, TimersApart, TimerRuns

\* A thread that is awake makes a call, forms its message id, or is refused.
LEMMA AwakeStep ==
  ASSUME SvcInv, NEW x \in Vendors, vendor[x].pc # "wait" \/ vendor[x].sem > 0,
         NEW r \in VendorReq, r.pc # "wait", vendor' = [vendor EXCEPT ![x] = r],
         msgCount' \in Nat,
         UNCHANGED <<doWork, reqList, svcTimers, label, register, svcStopped>>
  PROVE  SvcInv'
  <1>1. vendor \in [Vendors -> VendorReq]
    BY DEF SvcInv, SvcTypeOK
  <1>2. vendor' \in [Vendors -> VendorReq] /\ vendor'[x] = r /\ \A w \in Vendors \ {x} : vendor'[w] = vendor[w]
    BY <1>1
  <1>3. SvcTypeOK'
    BY <1>2 DEF SvcInv, SvcTypeOK
  <1>4. x \notin Range(doWork) /\ x \notin Range(reqList)
    BY DEF SvcInv, OneWakeToCome
  <1>5. Range(reqList) \subseteq Vendors
    BY DEF SvcInv, SvcTypeOK, Range
  <1>6. TimersApart'
    BY <1>2, <1>4, <1>5 DEF SvcInv, TimersApart
  <1>7. \A w \in Vendors \ {x} : TimerRuns(w) => TimerRuns(w)'
    BY <1>2 DEF TimerRuns
  <1>8. IsInjective(doWork') /\ IsInjective(reqList')
    BY DEF SvcInv, OneWakeToCome
  <1>9. \A w \in Vendors \ {x} :
          /\ vendor'[w].pc = vendor[w].pc /\ vendor'[w].sem = vendor[w].sem
          /\ w \in Range(doWork') <=> w \in Range(doWork)
          /\ w \in Range(reqList') <=> w \in Range(reqList)
          /\ w \in Range(reqList) /\ TimerRuns(w) => TimerRuns(w)'
    BY <1>2, <1>7
  <1>10. vendor'[x].pc # "wait" /\ x \notin Range(doWork') /\ x \notin Range(reqList')
    BY <1>2, <1>4
  <1> QED
    BY <1>3, <1>6, <1>8, <1>9, <1>10, OneThread

LEMMA ReadCountStep ==
  ASSUME SvcInv, NEW x \in Vendors, NEW op \in ServiceOps, ReadCount(x, op)
  PROVE  SvcInv'
  <1> DEFINE r == NewRequest(op, vendor[x].calls + 1)
  <1>1. vendor[x] \in VendorReq /\ msgCount \in Nat
    BY DEF SvcInv, SvcTypeOK
  <1>2. r \in VendorReq /\ r.pc # "wait"
    <2>1. ASSUME NEW n \in Nat
          PROVE  NewRequest(op, n) \in VendorReq /\ NewRequest(op, n).pc # "wait"
      BY <1>1 DEF NewRequest, NoReq, VendorReq
    <2>2. vendor[x].calls + 1 \in Nat
      BY <1>1 DEF VendorReq
    <2> QED
      BY <2>1, <2>2
  <1>3. /\ vendor[x].pc # "wait" /\ vendor' = [vendor EXCEPT ![x] = r] /\ msgCount' \in Nat
        /\ UNCHANGED <<doWork, reqList, svcTimers, label, register, svcStopped>>
    BY <1>1 DEF ReadCount
  <1> HIDE DEF r
  <1> QED
    BY <1>2, <1>3, AwakeStep

LEMMA CalcStep ==
  ASSUME SvcInv, NEW x \in Vendors, CalcUspServiceMessageId(x)
  PROVE  SvcInv'
  <1> DEFINE r == [vendor[x] EXCEPT !.pc = "perform", !.id = vendor[x].seen + 1]
  <1>1. vendor[x] \in VendorReq /\ vendor \in [Vendors -> VendorReq]
    BY DEF SvcInv, SvcTypeOK
  <1>2. r \in VendorReq /\ r.pc # "wait" /\ vendor[x].seen + 1 \in Nat
    <2>1. vendor[x].seen + 1 \in Nat
      BY <1>1 DEF VendorReq
    <2>2. ASSUME NEW v \in VendorReq, NEW n \in Nat
          PROVE  LET q == [v EXCEPT !.pc = "perform", !.id = n] IN q \in VendorReq /\ q.pc # "wait"
      BY DEF VendorReq
    <2> QED
      BY <1>1, <2>1, <2>2
  <1>3. vendor' = [vendor EXCEPT ![x] = r]
    BY <1>1 DEF CalcUspServiceMessageId, VendorReq
  <1>4. /\ vendor[x].pc # "wait" /\ msgCount' \in Nat
        /\ UNCHANGED <<doWork, reqList, svcTimers, label, register, svcStopped>>
    BY <1>2 DEF CalcUspServiceMessageId
  <1> HIDE DEF r
  <1> QED
    BY <1>2, <1>3, <1>4, AwakeStep

LEMMA ReturnStep ==
  ASSUME SvcInv, NEW x \in Vendors, NotConnectedYet(x) \/ Return(x)
  PROVE  SvcInv'
  <1> DEFINE r == [NoReq EXCEPT !.calls = vendor[x].calls]
  <1>1. vendor[x] \in VendorReq /\ msgCount \in Nat
    BY DEF SvcInv, SvcTypeOK
  <1>2. r \in VendorReq /\ r.pc # "wait"
    BY <1>1 DEF NoReq, VendorReq
  <1>3. /\ vendor[x].pc # "wait" \/ vendor[x].sem > 0
        /\ vendor' = [vendor EXCEPT ![x] = r] /\ msgCount' \in Nat
        /\ UNCHANGED <<doWork, reqList, svcTimers, label, register, svcStopped>>
    BY <1>1 DEF NotConnectedYet, Return
  <1> HIDE DEF r
  <1> QED
    BY <1>2, <1>3, AwakeStep

\* A thread goes to sleep, with its request in the queue.
LEMMA PerformStep ==
  ASSUME SvcInv, NEW x \in Vendors, PerformUspServiceRequest(x)
  PROVE  SvcInv'
  <1>1. /\ vendor \in [Vendors -> VendorReq] /\ doWork \in Seq(Vendors)
        /\ IsInjective(doWork) /\ IsInjective(reqList)
    BY DEF SvcInv, SvcTypeOK, OneWakeToCome
  <1>2. x \notin Range(doWork) /\ x \notin Range(reqList)
    BY DEF SvcInv, OneWakeToCome, PerformUspServiceRequest
  <1>3. /\ doWork' \in Seq(Vendors) /\ IsInjective(doWork')
        /\ Range(doWork') = Range(doWork) \cup {x}
    BY <1>1, <1>2, AppendedRange DEF PerformUspServiceRequest
  <1>4. vendor' = [vendor EXCEPT ![x] = [vendor[x] EXCEPT !.pc = "wait", !.err = "fail", !.sem = 0]]
    BY <1>1 DEF PerformUspServiceRequest, VendorReq
  <1>5. /\ vendor' \in [Vendors -> VendorReq] /\ vendor'[x].pc = "wait" /\ vendor'[x].sem = 0
        /\ vendor'[x].tid = vendor[x].tid
        /\ \A w \in Vendors \ {x} : vendor'[w] = vendor[w]
    BY <1>1, <1>4, ZenonT(60) DEF VendorReq
  <1>6. UNCHANGED <<msgCount, reqList, svcTimers, label, register, svcStopped>>
    BY DEF PerformUspServiceRequest
  <1>7. SvcTypeOK'
    BY <1>3, <1>5, <1>6 DEF SvcInv, SvcTypeOK
  <1>8. Range(reqList) \subseteq Vendors
    BY DEF SvcInv, SvcTypeOK, Range
  <1>9. TimersApart'
    BY <1>2, <1>5, <1>6, <1>8 DEF SvcInv, TimersApart
  <1>10. \A w \in Vendors \ {x} : TimerRuns(w) => TimerRuns(w)'
    BY <1>5, <1>6 DEF TimerRuns
  <1>11. \A w \in Vendors \ {x} :
          /\ vendor'[w].pc = vendor[w].pc /\ vendor'[w].sem = vendor[w].sem
          /\ w \in Range(doWork') <=> w \in Range(doWork)
          /\ w \in Range(reqList') <=> w \in Range(reqList)
          /\ w \in Range(reqList) /\ TimerRuns(w) => TimerRuns(w)'
    BY <1>3, <1>5, <1>6, <1>10
  <1>12. x \in Range(doWork') /\ x \notin Range(reqList')
    BY <1>2, <1>3, <1>6
  <1>13. IsInjective(reqList')
    BY <1>1, <1>6
  <1> QED
    BY <1>3, <1>5, <1>7, <1>9, <1>11, <1>12, <1>13, OneThread

\* The request moves from the queue to the list, with a timer of its own.
LEMMA QueueStep ==
  ASSUME SvcInv, QueueUspServiceRequest
  PROVE  SvcInv'
  <1>1. /\ vendor \in [Vendors -> VendorReq] /\ doWork \in Seq(Vendors) /\ reqList \in Seq(Vendors)
        /\ IsInjective(doWork) /\ IsInjective(reqList) /\ doWork # << >>
        /\ svcTimers \in Seq(BOOLEAN) /\ label = Len(svcTimers) + 1
    BY DEF SvcInv, SvcTypeOK, OneWakeToCome, QueueUspServiceRequest
  <1>0. Head(doWork) \in Vendors
    BY <1>1, TailRange
  <1> PICK x \in Vendors : x = Head(doWork)
    BY <1>0
  <1>2. /\ x \in Range(doWork)
        /\ doWork' \in Seq(Vendors) /\ IsInjective(doWork')
        /\ Range(doWork') = Range(doWork) \ {x}
    BY <1>1, TailRange DEF QueueUspServiceRequest
  <1>3. /\ vendor' = [vendor EXCEPT ![x].tid = label] /\ label' = label + 1
        /\ reqList' = Append(reqList, x) /\ svcTimers' = Append(svcTimers, TRUE)
        /\ UNCHANGED <<msgCount, register, svcStopped>>
    BY DEF QueueUspServiceRequest
  <1>4. vendor[x].pc = "wait" /\ x \notin Range(reqList) /\ vendor[x].sem = 0
    BY <1>2 DEF SvcInv, OneWakeToCome
  <1>5. /\ reqList' \in Seq(Vendors) /\ IsInjective(reqList')
        /\ Range(reqList') = Range(reqList) \cup {x}
    BY <1>1, <1>2, <1>3, <1>4, AppendedRange
  <1>6. /\ Len(svcTimers) \in Nat /\ svcTimers' \in Seq(BOOLEAN) /\ label' = Len(svcTimers') + 1
        /\ DOMAIN svcTimers = 1..Len(svcTimers) /\ DOMAIN svcTimers' = 1..label
        /\ svcTimers'[label] /\ \A t \in DOMAIN svcTimers : svcTimers'[t] = svcTimers[t]
    BY <1>1, <1>3, TimerAdded
  <1>7. /\ vendor' \in [Vendors -> VendorReq] /\ vendor'[x].pc = "wait" /\ vendor'[x].sem = 0
        /\ vendor'[x].tid = label
        /\ \A w \in Vendors \ {x} : vendor'[w] = vendor[w]
    <2>1. label \in Nat
      BY <1>1, <1>6
    <2>2. vendor[x] \in VendorReq /\ vendor' = [vendor EXCEPT ![x] = [vendor[x] EXCEPT !.tid = label]]
      BY <1>1, <1>2, <1>3
    <2>3. [vendor[x] EXCEPT !.tid = label] \in VendorReq
      BY <2>1, <2>2 DEF VendorReq
    <2>4. /\ [vendor[x] EXCEPT !.tid = label].pc = vendor[x].pc /\ [vendor[x] EXCEPT !.tid = label].sem = vendor[x].sem
          /\ [vendor[x] EXCEPT !.tid = label].tid = label
      BY <2>2 DEF VendorReq
    <2> QED
      BY <1>1, <1>2, <1>4, <2>2, <2>3, <2>4
  <1>8. SvcTypeOK'
    BY <1>2, <1>3, <1>5, <1>6, <1>7 DEF SvcInv, SvcTypeOK
  <1>9. Range(reqList) \subseteq Vendors \ {x}
    BY <1>1, <1>4 DEF Range
  <1>10. \A w \in Range(reqList) : vendor'[w].tid # label
    <2>1. \A w \in Range(reqList) : vendor[w].tid \in 1..Len(svcTimers)
      BY <1>6, <1>9 DEF SvcInv, OneWakeToCome, TimerRuns
    <2> QED
      BY <1>1, <1>6, <1>7, <1>9, <2>1
  <1>11. TimersApart'
    <2>1. \A v, w \in Range(reqList) : vendor'[v].tid = vendor'[w].tid => v = w
      BY <1>7, <1>9 DEF SvcInv, TimersApart
    <2> QED
      BY <1>5, <1>7, <1>10, <2>1 DEF TimersApart
  <1>12. \A w \in Vendors \ {x} : TimerRuns(w) => TimerRuns(w)'
    BY <1>1, <1>6, <1>7 DEF TimerRuns
  <1>13. TimerRuns(x)'
    BY <1>1, <1>6, <1>7 DEF TimerRuns
  <1>14. \A w \in Vendors \ {x} :
          /\ vendor'[w].pc = vendor[w].pc /\ vendor'[w].sem = vendor[w].sem
          /\ w \in Range(doWork') <=> w \in Range(doWork)
          /\ w \in Range(reqList') <=> w \in Range(reqList)
          /\ w \in Range(reqList) /\ TimerRuns(w) => TimerRuns(w)'
    BY <1>2, <1>5, <1>7, <1>12
  <1>15. x \notin Range(doWork') /\ x \in Range(reqList')
    BY <1>2, <1>5
  <1> QED
    BY <1>2, <1>5, <1>7, <1>8, <1>11, <1>13, <1>14, <1>15, OneThread

\* The request in place i is unlinked, its thread is woken, and no other
\* request's timer is stopped.
LEMMA WakeStep ==
  ASSUME SvcInv, NEW i \in DOMAIN reqList,
         NEW e \in {"ok", "fail"}, NEW o \in {"none", "own", "other"},
         vendor' = [vendor EXCEPT ![reqList[i]] =
                      [vendor[reqList[i]] EXCEPT !.err = e, !.own = o, !.sem = vendor[reqList[i]].sem + 1]],
         reqList' = Unlink(reqList, i),
         svcTimers' = [svcTimers EXCEPT ![vendor[reqList[i]].tid] = FALSE],
         UNCHANGED <<msgCount, doWork, label, register, svcStopped>>
  PROVE  SvcInv'
  <1>1. /\ vendor \in [Vendors -> VendorReq] /\ doWork \in Seq(Vendors) /\ reqList \in Seq(Vendors)
        /\ IsInjective(doWork) /\ IsInjective(reqList)
        /\ svcTimers \in Seq(BOOLEAN) /\ label = Len(svcTimers) + 1
    BY DEF SvcInv, SvcTypeOK, OneWakeToCome
  <1>2. reqList[i] \in Vendors /\ reqList[i] \in Range(reqList)
    BY <1>1 DEF Range
  <1> PICK x \in Vendors : x = reqList[i]
    BY <1>2
  <1>3. /\ reqList' \in Seq(Vendors) /\ IsInjective(reqList')
        /\ Range(reqList') = Range(reqList) \ {x}
    BY <1>1, UnlinkedRange
  <1>4. /\ vendor' = [vendor EXCEPT ![x] = [vendor[x] EXCEPT !.err = e, !.own = o, !.sem = vendor[x].sem + 1]]
        /\ svcTimers' = [svcTimers EXCEPT ![vendor[x].tid] = FALSE]
    OBVIOUS
  <1>5. vendor[x].pc = "wait" /\ x \notin Range(doWork) /\ vendor[x].sem = 0 /\ TimerRuns(x)
    BY <1>2 DEF SvcInv, OneWakeToCome
  <1>6. /\ vendor' \in [Vendors -> VendorReq] /\ vendor'[x].pc = "wait" /\ vendor'[x].sem = 1
        /\ \A w \in Vendors \ {x} : vendor'[w] = vendor[w]
    <2> DEFINE r == [vendor[x] EXCEPT !.err = e, !.own = o, !.sem = vendor[x].sem + 1]
    <2>1. vendor[x] \in VendorReq
      BY <1>1, <1>2
    <2>2. r \in VendorReq /\ r.pc = "wait" /\ r.sem = 1
      <3>1. ASSUME NEW v \in VendorReq, NEW n \in Nat
            PROVE  /\ [v EXCEPT !.err = e, !.own = o, !.sem = n] \in VendorReq
                   /\ [v EXCEPT !.err = e, !.own = o, !.sem = n].pc = v.pc
                   /\ [v EXCEPT !.err = e, !.own = o, !.sem = n].sem = n
        BY DEF VendorReq
      <3>2. vendor[x].sem + 1 = 1 /\ vendor[x].sem + 1 \in Nat
        BY <1>5
      <3> QED
        BY <1>5, <2>1, <3>1, <3>2
    <2>3. vendor' = [vendor EXCEPT ![x] = r]
      BY <1>4
    <2> HIDE DEF r
    <2> QED
      BY <1>1, <1>2, <2>2, <2>3
  <1>7. /\ vendor[x].tid \in DOMAIN svcTimers
        /\ svcTimers' \in Seq(BOOLEAN) /\ Len(svcTimers') = Len(svcTimers) /\ DOMAIN svcTimers' = DOMAIN svcTimers
        /\ \A t \in DOMAIN svcTimers : t # vendor[x].tid => svcTimers'[t] = svcTimers[t]
    <2>1. vendor[x].tid \in DOMAIN svcTimers
      BY <1>5 DEF TimerRuns
    <2> QED
      BY <1>1, <1>4, <2>1, TimerStopped
  <1>8. SvcTypeOK'
    BY <1>1, <1>3, <1>6, <1>7 DEF SvcInv, SvcTypeOK
  <1>9. Range(reqList) \subseteq Vendors
    BY <1>1 DEF Range
  <1>10. TimersApart'
    BY <1>3, <1>6, <1>9 DEF SvcInv, TimersApart
  <1>11. \A w \in Range(reqList) \ {x} : TimerRuns(w) => TimerRuns(w)'
    <2>1. \A w \in Range(reqList) \ {x} : vendor[w].tid # vendor[x].tid
      BY <1>2 DEF SvcInv, TimersApart
    <2> QED
      BY <1>6, <1>7, <1>9, <2>1 DEF TimerRuns
  <1>12. \A w \in Vendors \ {x} :
          /\ vendor'[w].pc = vendor[w].pc /\ vendor'[w].sem = vendor[w].sem
          /\ w \in Range(doWork') <=> w \in Range(doWork)
          /\ w \in Range(reqList') <=> w \in Range(reqList)
          /\ w \in Range(reqList) /\ TimerRuns(w) => TimerRuns(w)'
    BY <1>3, <1>6, <1>11
  <1>13. x \notin Range(doWork') /\ x \notin Range(reqList') /\ IsInjective(doWork')
    BY <1>1, <1>3, <1>5
  <1> QED
    BY <1>2, <1>3, <1>6, <1>8, <1>10, <1>12, <1>13, OneThread

LEMMA ExpectedStep ==
  ASSUME SvcInv, NEW r \in fromBroker, ExpectedResponse(r)
  PROVE  SvcInv'
  <1>1. PICK i \in DOMAIN reqList :
          /\ vendor' = [vendor EXCEPT
                ![reqList[i]].err = ResponseError(vendor[reqList[i]].op, r), ![reqList[i]].sem = @ + 1,
                ![reqList[i]].own = IF r.of = reqList[i] /\ r.call = vendor[reqList[i]].calls
                                    THEN "own" ELSE "other"]
          /\ reqList' = Unlink(reqList, i)
          /\ svcTimers' = [svcTimers EXCEPT ![vendor[reqList[i]].tid] = FALSE]
    BY DEF ExpectedResponse
  <1> DEFINE x == reqList[i]
             e == ResponseError(vendor[x].op, r)
             o == IF r.of = x /\ r.call = vendor[x].calls THEN "own" ELSE "other"
  <1>2. e \in {"ok", "fail"} /\ o \in {"none", "own", "other"}
    BY DEF ResponseError
  <1>3. x \in Vendors /\ vendor \in [Vendors -> VendorReq]
    BY DEF SvcInv, SvcTypeOK
  <1>4. vendor' = [vendor EXCEPT ![x].err = e, ![x].sem = vendor[x].sem + 1, ![x].own = o]
    BY <1>1, <1>3 DEF VendorReq
  <1> HIDE DEF e, o
  <1>5. vendor' = [vendor EXCEPT ![x] = [vendor[x] EXCEPT !.err = e, !.own = o, !.sem = vendor[x].sem + 1]]
    BY <1>3, <1>4 DEF VendorReq
  <1>6. UNCHANGED <<msgCount, doWork, label, register, svcStopped>>
    BY DEF ExpectedResponse
  <1> QED
    BY <1>1, <1>2, <1>5, <1>6, WakeStep

\* The timer of a listed request expires, or one that nobody waits for.
LEMMA TimeoutStep ==
  ASSUME SvcInv, NEW t \in DOMAIN svcTimers, ResponseTimeout(t)
  PROVE  SvcInv'
  <1> DEFINE late == {i \in DOMAIN reqList : vendor[reqList[i]].tid = t}
  <1>1. /\ vendor \in [Vendors -> VendorReq] /\ reqList \in Seq(Vendors) /\ svcTimers \in Seq(BOOLEAN)
        /\ svcTimers' = [svcTimers EXCEPT ![t] = FALSE]
        /\ UNCHANGED <<msgCount, doWork, label, register, svcStopped>>
    BY DEF SvcInv, SvcTypeOK, ResponseTimeout
  <1>2. CASE late = {} /\ UNCHANGED <<vendor, reqList>>
    <2>1. \A w \in Range(reqList) : w \in Vendors /\ vendor[w].tid # t
      BY <1>1, <1>2 DEF Range
    <2>2. /\ svcTimers' \in Seq(BOOLEAN) /\ Len(svcTimers') = Len(svcTimers) /\ DOMAIN svcTimers' = DOMAIN svcTimers
          /\ \A k \in DOMAIN svcTimers : k # t => svcTimers'[k] = svcTimers[k]
      BY <1>1, TimerStopped
    <2>3. SvcTypeOK'
      BY <1>1, <1>2, <2>2 DEF SvcInv, SvcTypeOK
    <2>4. \A w \in Range(reqList) : TimerRuns(w) => TimerRuns(w)'
      BY <1>2, <2>1, <2>2 DEF TimerRuns
    <2>5. OneWakeToCome'
      BY <1>1, <1>2, <2>4 DEF SvcInv, OneWakeToCome
    <2>6. TimersApart'
      BY <1>2 DEF SvcInv, TimersApart
    <2> QED
      BY <2>3, <2>5, <2>6 DEF SvcInv
  <1>3. CASE \E i \in late :
               /\ vendor' = [vendor EXCEPT ![reqList[i]].err = "fail", ![reqList[i]].sem = @ + 1]
               /\ reqList' = Unlink(reqList, i)
    <2>1. PICK i \in DOMAIN reqList :
            /\ vendor[reqList[i]].tid = t
            /\ vendor' = [vendor EXCEPT ![reqList[i]].err = "fail", ![reqList[i]].sem = @ + 1]
            /\ reqList' = Unlink(reqList, i)
      BY <1>3
    <2> DEFINE x == reqList[i]
               o == vendor[x].own
    <2>2. x \in Vendors /\ vendor[x] \in VendorReq
      BY <1>1
    <2>3. o \in {"none", "own", "other"}
      BY <2>2 DEF VendorReq
    <2>4. vendor' = [vendor EXCEPT ![x].err = "fail", ![x].sem = vendor[x].sem + 1]
      BY <1>1, <2>1, <2>2 DEF VendorReq
    <2>5. vendor' = [vendor EXCEPT ![x] = [vendor[x] EXCEPT !.err = "fail", !.sem = vendor[x].sem + 1]]
      BY <1>1, <2>2, <2>4 DEF VendorReq
    <2>6. ASSUME NEW v \in VendorReq, NEW n
          PROVE  [v EXCEPT !.err = "fail", !.sem = n] = [v EXCEPT !.err = "fail", !.own = v.own, !.sem = n]
      BY DEF VendorReq
    <2>7. vendor' = [vendor EXCEPT ![x] = [vendor[x] EXCEPT !.err = "fail", !.own = o, !.sem = vendor[x].sem + 1]]
      BY <2>2, <2>5, <2>6
    <2>8. svcTimers' = [svcTimers EXCEPT ![vendor[x].tid] = FALSE]
      BY <1>1, <2>1
    <2> HIDE DEF o
    <2> QED
      BY <1>1, <2>1, <2>3, <2>7, <2>8, WakeStep
  <1> QED
    BY <1>2, <1>3 DEF ResponseTimeout

\* The agent stops: every listed request is woken, none is left in the list.
LEMMA StopStep ==
  ASSUME SvcInv, USP_SERVICE_Stop
  PROVE  SvcInv'
  <1>1. /\ vendor \in [Vendors -> VendorReq] /\ reqList' = << >>
        /\ vendor' = [w \in Vendors |->
             IF w \in Range(reqList)
             THEN [vendor[w] EXCEPT !.err = "fail", !.sem = vendor[w].sem + 1] ELSE vendor[w]]
        /\ svcStopped' = TRUE /\ UNCHANGED <<msgCount, doWork, svcTimers, label, register>>
    BY DEF SvcInv, SvcTypeOK, USP_SERVICE_Stop
  <1>2. ASSUME NEW v \in VendorReq
        PROVE  /\ [v EXCEPT !.err = "fail", !.sem = v.sem + 1] \in VendorReq
               /\ [v EXCEPT !.err = "fail", !.sem = v.sem + 1].pc = v.pc
               /\ [v EXCEPT !.err = "fail", !.sem = v.sem + 1].sem = v.sem + 1
    <2>1. ASSUME NEW n \in Nat
          PROVE  /\ [v EXCEPT !.err = "fail", !.sem = n] \in VendorReq
                 /\ [v EXCEPT !.err = "fail", !.sem = n].pc = v.pc
                 /\ [v EXCEPT !.err = "fail", !.sem = n].sem = n
      BY DEF VendorReq
    <2>2. v.sem + 1 \in Nat
      BY DEF VendorReq
    <2> QED
      BY <2>1, <2>2
  <1>3. /\ vendor' \in [Vendors -> VendorReq]
        /\ \A w \in Vendors :
             /\ vendor'[w].pc = vendor[w].pc
             /\ vendor'[w].sem = IF w \in Range(reqList) THEN vendor[w].sem + 1 ELSE vendor[w].sem
    BY <1>1, <1>2
  <1>4. reqList' \in Seq(Vendors) /\ Range(reqList') = {} /\ IsInjective(reqList')
    <2>1. reqList' = << >>
      BY <1>1
    <2>2. << >> \in Seq(Vendors) /\ Range(<< >>) = {} /\ IsInjective(<< >>)
      BY DEF Range, IsInjective
    <2> QED
      BY <2>1, <2>2
  <1>5. SvcTypeOK'
    BY <1>1, <1>3, <1>4 DEF SvcInv, SvcTypeOK
  <1>6. TimersApart'
    BY <1>4 DEF TimersApart
  <1>7. IsInjective(doWork') /\ Range(doWork') = Range(doWork)
    BY <1>1 DEF SvcInv, OneWakeToCome
  <1>8. ASSUME NEW w \in Vendors
        PROVE  IF vendor'[w].pc = "wait"
               THEN \/ w \in Range(doWork') /\ vendor'[w].sem = 0
                    \/ w \notin Range(doWork') /\ vendor'[w].sem = 1
               ELSE w \notin Range(doWork')
    BY <1>3, <1>7 DEF SvcInv, OneWakeToCome
  <1>9. OneWakeToCome'
    BY <1>4, <1>7, <1>8 DEF OneWakeToCome
  <1> QED
    BY <1>5, <1>6, <1>9 DEF SvcInv

\* The rest of the data model thread, the broker and the socket touch neither
\* the requests nor their timers.
LEMMA QuietStep ==
  ASSUME SvcInv,
         \/ \E r \in fromBroker : UnexpectedResponse(r) \/ HandleRegisterResp(r)
         \/ SetBrokerAgent \/ QueueRegisterRequest \/ ConnectionLost \/ ConnectionUp
         \/ \E m \in toBroker, res \in Results : BrokerAnswers(m, res)
  PROVE  SvcInv'
  <1>1. /\ SvcTypeOK /\ msgCount \in Nat
        /\ register \in [id : Nat, sent : Nat, log : {"none", "waiting", "registered", "refused"}]
    BY DEF SvcInv, SvcTypeOK
  <1>2. UNCHANGED <<vendor, doWork, reqList, svcTimers, label, svcStopped>>
    BY DEF UnexpectedResponse, HandleRegisterResp, SetBrokerAgent, QueueRegisterRequest,
           ConnectionLost, ConnectionUp, BrokerAnswers
  <1>3. msgCount' = msgCount \/ msgCount' = msgCount + 1
    BY DEF UnexpectedResponse, HandleRegisterResp, SetBrokerAgent, QueueRegisterRequest,
           ConnectionLost, ConnectionUp, BrokerAnswers
  <1>4. register' \in [id : Nat, sent : Nat, log : {"none", "waiting", "registered", "refused"}]
    <2>1. CASE UNCHANGED register
      BY <1>1, <2>1
    <2>2. CASE QueueRegisterRequest
      BY <1>1, <2>2, SMTT(30) DEF QueueRegisterRequest
    <2>3. ASSUME NEW r, HandleRegisterResp(r)
          PROVE  register' \in [id : Nat, sent : Nat, log : {"none", "waiting", "registered", "refused"}]
      BY <1>1, <2>3 DEF HandleRegisterResp
    <2> QED
      BY <2>1, <2>2, <2>3 DEF UnexpectedResponse, SetBrokerAgent, ConnectionLost, ConnectionUp, BrokerAnswers
  <1>5. SvcTypeOK'
    BY <1>1, <1>2, <1>3, <1>4 DEF SvcTypeOK
  <1> QED
    BY <1>2, <1>5, NoThread

LEMMA SvcStart ==
  ASSUME SvcInit
  PROVE  SvcInv
  <1>1. NoReq \in VendorReq /\ NoReq.pc = "idle"
    BY DEF NoReq, VendorReq
  <1>2. /\ Range(doWork) = {} /\ Range(reqList) = {} /\ IsInjective(doWork) /\ IsInjective(reqList)
    BY DEF SvcInit, Range, IsInjective
  <1>3. \A w \in Vendors : vendor[w].pc = "idle"
    BY <1>1 DEF SvcInit
  <1>4. SvcTypeOK
    <2>1. vendor \in [Vendors -> VendorReq]
      BY <1>1 DEF SvcInit
    <2>2. /\ doWork \in Seq(Vendors) /\ reqList \in Seq(Vendors)
          /\ svcTimers \in Seq(BOOLEAN) /\ label = Len(svcTimers) + 1
      BY DEF SvcInit
    <2>3. /\ msgCount \in Nat /\ svcStopped \in BOOLEAN
          /\ register \in [id : Nat, sent : Nat, log : {"none", "waiting", "registered", "refused"}]
      BY DEF SvcInit
    <2> QED
      BY <2>1, <2>2, <2>3 DEF SvcTypeOK
  <1>5. OneWakeToCome /\ TimersApart
    BY <1>2, <1>3 DEF OneWakeToCome, TimersApart
  <1> QED
    BY <1>4, <1>5 DEF SvcInv

LEMMA SvcKept ==
  ASSUME SvcInv, [SvcNext]_svcVars
  PROVE  SvcInv'
  <1>1. ASSUME NEW w \in Vendors, VendorStep(w)
        PROVE  SvcInv'
    BY <1>1, CalcStep, ReturnStep, PerformStep DEF VendorStep
  <1>2. CASE Responses
    BY <1>2, ExpectedStep, QuietStep DEF Responses
  <1>3. CASE Timeouts
    BY <1>3, TimeoutStep DEF Timeouts
  <1>4. CASE UNCHANGED svcVars
    BY <1>4 DEF svcVars, SvcInv, SvcTypeOK, OneWakeToCome, TimersApart, TimerRuns
  <1> QED
    BY <1>1, <1>2, <1>3, <1>4, ReadCountStep, QueueStep, StopStep, QuietStep DEF SvcNext

\* However the vendor threads, the data model thread, the broker and the
\* socket interleave, a thread asleep in PerformUspServiceRequest has exactly
\* one wake-up to come from the queue, its timer or its semaphore; the queue,
\* the list and the timers hold no request whose stack frame has gone; and
\* no two listed requests share a timer.
THEOREM ServiceRequestsWake == SvcSpec => []SvcInv
  BY SvcStart, SvcKept, PTL DEF SvcSpec
=============================================================================
