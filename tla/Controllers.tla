----------------------------- MODULE Controllers -----------------------------
(***************************************************************************)
(* Device.LocalAgent.Controller.{i} and its MTP.{i} table                  *)
(* (device_controller.c): the rows in the database, the controllers[]      *)
(* array that mirrors them, the websocket clients that run for them, and   *)
(* the controllers each MQTT client has been told about.  The other        *)
(* protocols are left out: CoAP clients have their pool too, and STOMP and *)
(* UDS MTPs keep a reference as MQTT ones do.                              *)
(*                                                                         *)
(* A USP message changes the table in one transaction: every operation is  *)
(* validated when it is made, against the array and the values written so  *)
(* far; the notify callbacks run in the same order after the commit, and   *)
(* what they return is only logged.  A transaction is one action here, all *)
(* of it runs on the data model thread.  Row values are reduced to what    *)
(* the callbacks look at; an MTP keeps one reference, to an MQTT client.   *)
(***************************************************************************)
EXTENDS Integers, Sequences, SequencesExt, FiniteSets

CONSTANTS
  Conts, ContMtps,     \* instance numbers of controllers and of their MTPs
  ContProtocols,       \* the protocols in use, of "ws", "mqtt"
  MqttInsts,           \* instance numbers of Device.MQTT.Client.{i}
  MaxControllers,      \* MAX_CONTROLLERS
  MaxContMtps,         \* MAX_CONTROLLER_MTPS
  MaxMtpClients,       \* MAX_WEBSOCKET_CLIENTS, MAX_MQTT_CLIENTS
  MaxTransOps,         \* bound: operations in one transaction
  OneAdd               \* a transaction creates at most one object

ASSUME ControllersAssumption ==
  /\ Conts \subseteq Nat \ {0} /\ ContMtps \subseteq Nat \ {0}
  /\ MqttInsts \subseteq Nat \ {0}
  /\ ContProtocols \subseteq {"ws", "mqtt"}
  /\ MaxTransOps \in 1..2 /\ OneAdd \in BOOLEAN

VARIABLES
  rows,      \* the committed database
  conts,     \* controllers[]
  mqttRows,  \* instances of Device.MQTT.Client
  running,   \* the MTPs that have a websocket client
  topics,    \* what MQTT_ModifyConnectedControllers last told each client
  mayConnect,\* can_mtp_connect
  starved    \* history: MTPs for which no client could be started when they were to have one

ctVars == <<rows, conts, mqttRows, running, topics, mayConnect, starved>>

NoMtp == [on |-> FALSE, enable |-> FALSE, protocol |-> "none", ref |-> 0]
NoTable == [on |-> [c \in Conts |-> FALSE], enable |-> [c \in Conts |-> FALSE],
            mtp |-> [x \in Conts \X ContMtps |-> NoMtp]]

CtInit ==
  /\ rows = NoTable /\ conts = NoTable
  /\ mqttRows = {}
  /\ running = {} /\ topics = {} /\ starved = {}
  /\ mayConnect = FALSE

-----------------------------------------------------------------------------
(* The operations of a transaction.                                        *)

Op(name, x, b, p, r) == [op |-> name, c |-> x[1], m |-> x[2],
                         b |-> b, p |-> p, r |-> r]
AnyMtp == Conts \X ContMtps
AnyRef == MqttInsts \cup {0}

ContOps ==
  {Op(n, <<c, 0>>, FALSE, "none", 0) : n \in {"addCont", "delCont"}, c \in Conts}
    \cup {Op("contEnable", <<c, 0>>, b, "none", 0) : c \in Conts, b \in BOOLEAN}
MtpOps ==
  {Op("addMtp", x, b, p, r) : x \in AnyMtp, b \in BOOLEAN, p \in ContProtocols, r \in AnyRef}
    \cup {Op("mtpEnable", x, b, "none", 0) : x \in AnyMtp, b \in BOOLEAN}
    \cup {Op("protocol", x, FALSE, p, 0) : x \in AnyMtp, p \in ContProtocols}
    \cup {Op("ref", x, FALSE, "none", r) : x \in AnyMtp, r \in AnyRef}
    \cup {Op(n, x, FALSE, "none", 0) : n \in {"delMtp", "host"}, x \in AnyMtp}

IsAdd(o) == o.op \in {"addCont", "addMtp"}
IsDel(o) == o.op \in {"delCont", "delMtp"}

EnabledMtps(t, p) == {x \in AnyMtp : t.mtp[x].on /\ t.mtp[x].enable /\ t.mtp[x].protocol = p}

\* Only one enabled MTP of a controller has this protocol.
ValidateMtpUniqueness(p, x) ==
  ~ \E y \in EnabledMtps(conts, p) : y[1] = x[1] /\ y # x

\* There is a client left for one more MTP of this protocol.
ValidateMtpResourceAvailable(p, x) ==
  Cardinality(EnabledMtps(conts, p) \ {x}) + 1 <= MaxMtpClients

MayEnable(p, x) == ValidateMtpUniqueness(p, x) /\ ValidateMtpResourceAvailable(p, x)

UsedSlots(t) == Cardinality({c \in Conts : t.on[c]})
UsedMtpSlots(t, c) == Cardinality({m \in ContMtps : t.mtp[<<c, m>>].on})

\* The validate callbacks, w being the database as the transaction sees it.
Valid(w, o) ==
  LET x == <<o.c, o.m>>
  IN  CASE o.op = "addCont" -> ~w.on[o.c] /\ UsedSlots(conts) < MaxControllers
        [] o.op \in {"delCont", "contEnable"} -> w.on[o.c]
        [] o.op = "addMtp" -> /\ w.on[o.c] /\ ~w.mtp[x].on /\ conts.on[o.c]
                              /\ UsedMtpSlots(conts, o.c) < MaxContMtps
                              /\ o.r \in mqttRows \cup {0}
                              /\ o.b => MayEnable(o.p, x)
        [] o.op = "mtpEnable" -> w.mtp[x].on /\ (o.b => MayEnable(w.mtp[x].protocol, x))
        [] o.op = "protocol" -> w.mtp[x].on /\ (w.mtp[x].enable => MayEnable(o.p, x))
        [] o.op = "ref" -> w.mtp[x].on /\ o.r \in mqttRows \cup {0}
        [] o.op \in {"delMtp", "host"} -> w.mtp[x].on

\* What the operation writes.
ApplyOp(w, o) ==
  LET x == <<o.c, o.m>>
  IN  CASE o.op = "addCont" -> [w EXCEPT !.on[o.c] = TRUE, !.enable[o.c] = FALSE]
        [] o.op = "delCont" ->
             [w EXCEPT !.on[o.c] = FALSE, !.enable[o.c] = FALSE,
                       !.mtp = [y \in AnyMtp |-> IF y[1] = o.c THEN NoMtp ELSE w.mtp[y]]]
        [] o.op = "contEnable" -> [w EXCEPT !.enable[o.c] = o.b]
        [] o.op = "addMtp" ->
             [w EXCEPT !.mtp[x] = [on |-> TRUE, enable |-> o.b, protocol |-> o.p, ref |-> o.r]]
        [] o.op = "delMtp" -> [w EXCEPT !.mtp[x] = NoMtp]
        [] o.op = "mtpEnable" -> [w EXCEPT !.mtp[x].enable = o.b]
        [] o.op = "protocol" -> [w EXCEPT !.mtp[x].protocol = o.p]
        [] o.op = "ref" -> [w EXCEPT !.mtp[x].ref = o.r]
        [] o.op = "host" -> w

-----------------------------------------------------------------------------
(* The notify callbacks.  s is [t: controllers[], run: the clients, starved,  *)
(* top: what the MQTT clients were told], w the database after the commit.   *)

\* MTPs that are to have a client.
Wanted(t) == {x \in EnabledMtps(t, "ws") : t.on[x[1]] /\ t.enable[x[1]]}

\* HandleWsclient_StartClient reuses the MTP's client or takes a free one.  When none is
\* free the message is ignored, and the DM thread is told nothing.
StartClient(s, x) ==
  IF x \in s.run \/ Cardinality(s.run) < MaxMtpClients
  THEN [s EXCEPT !.run = @ \cup {x}] ELSE [s EXCEPT !.starved = @ \cup {x}]
StopClient(s, x) == [s EXCEPT !.run = @ \ {x}]

\* DEVICE_CONTROLLER_GetMqttControllerTopics for every MQTT client.
TopicsOf(t, conns) ==
  {z \in conns \X Conts : /\ t.on[z[2]] /\ t.enable[z[2]]
                          /\ \E x \in EnabledMtps(t, "mqtt") :
                               x[1] = z[2] /\ t.mtp[x].ref = z[1]}
UpdateControllerTopics(s) == [s EXCEPT !.top = TopicsOf(s.t, mqttRows)]

\* Start the client of an enabled MTP of an enabled controller, else stop it.
StartOrStop(s, x) ==
  IF s.t.mtp[x].protocol # "ws" THEN s
  ELSE IF s.t.mtp[x].enable /\ s.t.enable[x[1]] THEN StartClient(s, x)
  ELSE StopClient(s, x)


\* The clients of a controller's MTPs after its Enable has changed: all start or all
\* stop, so which MTP has the first slot matters only for a pool that runs out.
StartOrStopAll(s, c) ==
  FoldLeft(LAMBDA r, m : StartOrStop(r, <<c, m>>), s, SetToSeq(ContMtps))

\* ProcessControllerAdded: a new controller has no MTPs.
Notify_ControllerAdded(s, o, w) ==
  IF UsedSlots(s.t) >= MaxControllers THEN s
  ELSE UpdateControllerTopics(
         [s EXCEPT !.t.on[o.c] = TRUE, !.t.enable[o.c] = w.enable[o.c]])

\* DestroyController.  The MTPs' own callbacks come after this one and find
\* neither controller nor MTP.
Notify_ControllerDeleted(s, o) ==
  UpdateControllerTopics([s EXCEPT !.t = ApplyOp(s.t, [o EXCEPT !.op = "delCont"])])

\* Whether ProcessControllerMtpAdded starts the client of a new MTP; nothing starts it
\* later because the clients may connect.
ClientOfNewMtp(s, x) ==
  IF x \notin Wanted(s.t) THEN s
  ELSE IF mayConnect THEN StartClient(s, x) ELSE [s EXCEPT !.starved = @ \cup {x}]

\* ProcessControllerMtpAdded: the row is read back from the database.  A row
\* that is refused here keeps its slot, without its reference.
Notify_ControllerMtpAdded(s, o, w) ==
  LET x == <<o.c, o.m>>
      row == w.mtp[x]
      clash == \E y \in EnabledMtps(s.t, row.protocol) : y[1] = o.c /\ y # x
      none == Cardinality(EnabledMtps(s.t, row.protocol) \ {x}) + 1 > MaxMtpClients
  IN  IF ~s.t.on[o.c] \/ UsedMtpSlots(s.t, o.c) >= MaxContMtps THEN s
      ELSE IF row.enable /\ (clash \/ none) THEN [s EXCEPT !.t.mtp[x] = [row EXCEPT !.ref = 0]]
      ELSE UpdateControllerTopics(ClientOfNewMtp([s EXCEPT !.t.mtp[x] = row], x))

\* The MQTT clients are not told.
Notify_ControllerMtpDeleted(s, o) ==
  LET x == <<o.c, o.m>>
      s1 == IF x \in Wanted(s.t) THEN StopClient(s, x) ELSE s
  IN  IF ~s.t.mtp[x].on THEN s ELSE [s1 EXCEPT !.t.mtp[x] = NoMtp]

Notify_ControllerEnable(s, o) ==
  IF s.t.enable[o.c] = o.b THEN s
  ELSE UpdateControllerTopics(StartOrStopAll([s EXCEPT !.t.enable[o.c] = o.b], o.c))

Notify_ControllerMtpEnable(s, o) ==
  LET x == <<o.c, o.m>>
  IN  IF s.t.mtp[x].enable = o.b THEN s
      ELSE UpdateControllerTopics(StartOrStop([s EXCEPT !.t.mtp[x].enable = o.b], x))

\* The client of the old protocol stops and that of the new one starts.
ProtocolClients(s, x, old) ==
  StartOrStop(IF old = "ws" THEN StopClient(s, x) ELSE s, x)

\* A mutant of the next: a disabled MTP keeps its old protocol.
ProtocolLater(s, o) ==
  LET x == <<o.c, o.m>>
  IN  IF ~s.t.mtp[x].enable \/ ~s.t.enable[o.c] THEN s
      ELSE ProtocolClients([s EXCEPT !.t.mtp[x].protocol = o.p], x, s.t.mtp[x].protocol)

Notify_ControllerMtpProtocol(s, o) ==
  LET x == <<o.c, o.m>>
      s1 == [s EXCEPT !.t.mtp[x].protocol = o.p]
  IN  IF s.t.mtp[x].protocol = o.p THEN s
      ELSE IF ~s.t.mtp[x].enable \/ ~s.t.enable[o.c] THEN s1
      ELSE UpdateControllerTopics(ProtocolClients(s1, x, s.t.mtp[x].protocol))

\* A blank reference changes nothing in the array.  The MQTT clients are told while the
\* array has the reference as it is in the database.
Notify_ControllerMtpMqttReference(s, o, w) ==
  LET x == <<o.c, o.m>>
      read == UpdateControllerTopics([s EXCEPT !.t.mtp[x].ref = w.mtp[x].ref])
  IN  IF o.r = 0 THEN s ELSE [read EXCEPT !.t.mtp[x].ref = o.r]

\* Notify_ControllerMtpWebsockHost and the other connection parameters: the
\* client is started again whatever the MTP's protocol.
Notify_ControllerMtpWebsockHost(s, o) ==
  LET x == <<o.c, o.m>>
  IN  IF s.t.mtp[x].enable THEN StartClient(s, x) ELSE s

NotifyOp(s, o, w) ==
  CASE o.op = "addCont" -> Notify_ControllerAdded(s, o, w)
    [] o.op = "delCont" -> Notify_ControllerDeleted(s, o)
    [] o.op = "contEnable" -> Notify_ControllerEnable(s, o)
    [] o.op = "addMtp" -> Notify_ControllerMtpAdded(s, o, w)
    [] o.op = "delMtp" -> Notify_ControllerMtpDeleted(s, o)
    [] o.op = "mtpEnable" -> Notify_ControllerMtpEnable(s, o)
    [] o.op = "protocol" -> Notify_ControllerMtpProtocol(s, o)
    [] o.op = "ref" -> Notify_ControllerMtpMqttReference(s, o, w)
    [] o.op = "host" -> Notify_ControllerMtpWebsockHost(s, o)

-----------------------------------------------------------------------------
(* A transaction: DM_TRANS_Commit after every operation has been accepted. *)

Committed(s, w) ==
  /\ conts' = s.t /\ running' = s.run /\ topics' = s.top /\ rows' = w
  /\ starved' = (s.starved \cap Wanted(s.t)) \ s.run
  /\ UNCHANGED <<mqttRows, mayConnect>>

Now == [t |-> conts, run |-> running, starved |-> starved, top |-> topics]

OneOp(o) ==
  /\ Valid(rows, o)
  /\ LET w == ApplyOp(rows, o) IN Committed(NotifyOp(Now, o, w), w)

\* Two operations of one Add, Set or Delete message, the second on what the
\* first has written.
TwoOps(o1) ==
  /\ MaxTransOps = 2 /\ (OneAdd => ~IsAdd(o1))
  /\ Valid(rows, o1)
  /\ LET w1 == ApplyOp(rows, o1)
     IN  \E o2 \in {o \in ContOps \cup MtpOps : IsAdd(o) = IsAdd(o1) /\ IsDel(o) = IsDel(o1)} :
           /\ Valid(w1, o2)
           /\ LET w2 == ApplyOp(w1, o2)
              IN  Committed(NotifyOp(NotifyOp(Now, o1, w2), o2, w2), w2)

\* A new MQTT client, and the deletion of one: DEVICE_CONTROLLER_NotifyMqttConn-
\* Deleted blanks the references of the MTPs whose protocol is MQTT, in the
\* transaction that follows.
MqttAdded(i) ==
  /\ i \in MqttInsts \ mqttRows
  /\ mqttRows' = mqttRows \cup {i}
  /\ topics' = topics \cup TopicsOf(conts, {i})
  /\ UNCHANGED <<rows, conts, running, mayConnect, starved>>

MqttDeleted(i) ==
  /\ i \in mqttRows
  /\ mqttRows' = mqttRows \ {i}
  /\ rows' = [rows EXCEPT !.mtp = [x \in AnyMtp |->
       IF conts.mtp[x].on /\ conts.mtp[x].protocol = "mqtt" /\ conts.mtp[x].ref = i
       THEN [rows.mtp[x] EXCEPT !.ref = 0] ELSE rows.mtp[x]]]
  /\ topics' = {z \in topics : z[1] # i}
  /\ UNCHANGED <<conts, running, mayConnect, starved>>

\* PollCanMtpConnect finds that the clients may connect: those that were
\* started are let go, none is started.
MtpsMayConnect ==
  /\ ~mayConnect /\ mayConnect' = TRUE
  /\ UNCHANGED <<rows, conts, mqttRows, running, topics, starved>>

CtNext ==
  \/ \E o \in ContOps \cup MtpOps : OneOp(o)
  \/ \E o \in ContOps \cup MtpOps : TwoOps(o)
  \/ \E i \in MqttInsts : MqttAdded(i) \/ MqttDeleted(i)
  \/ MtpsMayConnect

CtSpec == CtInit /\ [][CtNext]_ctVars

-----------------------------------------------------------------------------
(* Properties.                                                             *)

\* The array, the clients and the topics hold what their C types allow.
CtTypeOK ==
  /\ \A t \in {rows, conts} :
       /\ t.on \in [Conts -> BOOLEAN] /\ t.enable \in [Conts -> BOOLEAN]
       /\ \A x \in AnyMtp : t.mtp[x].protocol \in ContProtocols \cup {"none"}
  /\ running \subseteq AnyMtp /\ Cardinality(running) <= MaxMtpClients
  /\ topics \subseteq MqttInsts \X Conts /\ mayConnect \in BOOLEAN

\* The callbacks keep controllers[] equal to the database across any
\* sequence of transactions, whatever order the parameters of one message
\* come in: the agent addresses a controller by the array and shows the
\* database.  One value may differ: a reference that has been blanked, or
\* whose MQTT client was deleted, stays in the array until another is set.
ArrayIsDatabase ==
  /\ conts.on = rows.on /\ conts.enable = rows.enable
  /\ \A x \in AnyMtp : /\ [conts.mtp[x] EXCEPT !.ref = rows.mtp[x].ref] = rows.mtp[x]
                       /\ rows.mtp[x].ref \in {conts.mtp[x].ref, 0}

\* Once the clients may connect, an enabled MTP of an enabled controller has
\* its websocket client: no order of Enable, Protocol and the controller's
\* Enable leaves it without one.  Two things do: the MTP was added before the
\* clients may connect, or no client was free when it was to start, because
\* clients that nothing stopped hold them (RunningIsEnabled) or one message
\* enabled more MTPs than there are (OneMtpPerProtocol).
EnabledIsRunning == mayConnect => Wanted(conts) \subseteq running \cup starved

\* device_controller.c:3684 "if the connection is currently enabled": a client
\* runs only for an enabled MTP of that protocol, of an enabled controller.
RunningIsEnabled ==
  running \subseteq Wanted(conts)

\* device_controller.c:5039 "only one MTP of the specified protocol is enabled
\* at any one time for the specified controller".
OneMtpPerProtocol ==
  \A p \in ContProtocols : \A x, y \in EnabledMtps(rows, p) : x[1] = y[1] => x = y

=============================================================================
