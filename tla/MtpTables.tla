------------------------------ MODULE MtpTables ------------------------------
(***************************************************************************)
(* Device.LocalAgent.MTP and the connections it refers to (device_mtp.c,   *)
(* device_stomp.c, device_mqtt.c): every change of a row or a connection   *)
(* has to reach the STOMP and MQTT clients and the CoAP and websocket      *)
(* servers.                                                                *)
(*                                                                         *)
(* What these have been told is `told'; what they do with it is modelled   *)
(* in Stomp, Mqtt, WsServer and Coap.  A parameter is set in a transaction *)
(* of its own.                                                             *)
(***************************************************************************)
EXTENDS Integers, Sequences, FiniteSets, TLC

CONSTANTS
  MtpSlots,         \* number of entries of agent_mtps
  MtpProtocols,     \* values of Protocol
  MaxMtpInst,       \* bound on instance numbers of Device.LocalAgent.MTP
  MaxConnInst,      \* bound on instance numbers of connections
  MaxTableChanges   \* bound on changes

ASSUME MtpTablesAssumption ==
  /\ MtpProtocols \subseteq {"STOMP", "MQTT", "CoAP", "WebSocket", "UDS"}
  /\ {MtpSlots, MaxMtpInst, MaxConnInst, MaxTableChanges} \subseteq Nat \ {0}

VARIABLES
  mtpRows,    \* Device.LocalAgent.MTP in the database: a function on its instances
  slots,      \* agent_mtps
  conns,      \* per client protocol, the connection table: a function on its instances
  told,       \* what each protocol has been told last
  canConnect, \* can_mtp_connect
  tableCount  \* [changes, mtps, conns]: changes so far, highest instance numbers

mtVars == <<mtpRows, slots, conns, told, canConnect, tableCount>>

Clients == {"STOMP", "MQTT"}
NoDest == ""          \* no queue or topic
Dests == {"a", "b"}
MtpNumbers == 1..2    \* values of a host, a port or a retry interval

\* The parameters of a row: one reference and one destination per client
\* protocol, and one port for each server.
RowParams == {"enable", "protocol", "refSTOMP", "refMQTT", "destSTOMP", "destMQTT", "portCoAP", "portWebSocket"}
RefOf(p) == IF p = "STOMP" THEN "refSTOMP" ELSE "refMQTT"
DestOf(p) == IF p = "STOMP" THEN "destSTOMP" ELSE "destMQTT"

\* DestroyAgentMtp
FreeMtp == [inst |-> 0, enable |-> FALSE, protocol |-> "none", refSTOMP |-> 0, refMQTT |-> 0,
            destSTOMP |-> NoDest, destMQTT |-> NoDest, portCoAP |-> 0, portWebSocket |-> 0]
SlotsOf(s, i) == {k \in DOMAIN s : s[k].inst = i}
\* FindAgentMtpByInstance, FindUnusedAgentMtp: the first in the array.
FirstSlot(s, i) == CHOOSE k \in SlotsOf(s, i) : \A j \in SlotsOf(s, i) : k <= j

\* DEVICE_MTP_GetAgentStompQueue, DEVICE_MTP_GetAgentMqttResponseTopic
AgentDest(s, p, c) ==
  LET fit == {k \in DOMAIN s : /\ s[k].inst # 0 /\ s[k].enable /\ s[k].protocol = p
                               /\ s[k][RefOf(p)] = c /\ s[k][DestOf(p)] # NoDest}
  IN IF fit = {} THEN NoDest ELSE s[CHOOSE k \in fit : \A j \in fit : k <= j][DestOf(p)]

-----------------------------------------------------------------------------
(* What the protocols are told.  Each operator returns the new `told'.     *)

\* EnableStompConnection, EnableMQTTClient
EnableConn(t, s, p, c, x) == [t EXCEPT ![p] = (c :> [host |-> x.host, retry |-> x.retry, dest |-> AgentDest(s, p, c)]) @@ @]
\* DEVICE_STOMP_ScheduleReconnect, DEVICE_MQTT_ScheduleReconnect: the
\* destination is the one of this moment.
ScheduleReconnect(t, s, p, c) ==
  IF c \in DOMAIN conns[p] /\ conns[p][c].enable THEN EnableConn(t, s, p, c, conns[p][c]) ELSE t
\* STOMP_DisableConnection, MQTT_DisableClient
DisableConn(t, p, c) == [t EXCEPT ![p] = [i \in DOMAIN t[p] \ {c} |-> t[p][i]]]

\* WSSERVER_EnableServer, WSSERVER_DisableServer
EnableServer(t, m) == IF canConnect THEN [t EXCEPT !.WebSocket = m.portWebSocket] ELSE t
DisableServer(t) == IF canConnect THEN [t EXCEPT !.WebSocket = 0] ELSE t

\* ControlCoapServer, with COAP_SERVER_Start or COAP_SERVER_Stop
CoapAllowed(m) == canConnect /\ m.protocol = "CoAP" /\ m.enable
CoapStart(t, m) == IF CoapAllowed(m) THEN [t EXCEPT !.CoAP = Append(@, <<m.inst, m.portCoAP>>)] ELSE t
CoapStop(t, m) ==
  LET IsOther(x) == x[1] # m.inst
  IN IF CoapAllowed(m) THEN [t EXCEPT !.CoAP = SelectSeq(@, IsOther)] ELSE t

-----------------------------------------------------------------------------
(* Changes of rows.                                                        *)

\* CheckOnlyOneWsServerEnabled
OnlyWsServer(i, m) ==
  (m.enable /\ m.protocol = "WebSocket") =>
     ~\E k \in DOMAIN slots : /\ slots[k].inst \notin {0, i} /\ slots[k].enable
                              /\ slots[k].protocol = "WebSocket"

\* NotifyChange_AgentMtpEnable, for the entry m and its changed form n.
EnableChanged(s, m, n) ==
  CASE m.protocol \in Clients -> ScheduleReconnect(told, s, m.protocol, m[RefOf(m.protocol)])
    [] m.protocol = "CoAP" -> IF n.enable THEN CoapStart(told, n) ELSE CoapStop(told, m)
    [] m.protocol = "WebSocket" -> IF n.enable THEN EnableServer(told, n) ELSE DisableServer(told)
    [] OTHER -> told

\* Seeded error: the new protocol is stored before the old one is stopped.
ProtocolStoredFirst(old, s, m, n) ==
  IF ~m.enable THEN told
  ELSE LET a == CoapStop(told, n)
           b == IF m.protocol = "WebSocket" THEN DisableServer(a) ELSE a
           c == ScheduleReconnect(ScheduleReconnect(b, old, "MQTT", m.refMQTT), s, "STOMP", m.refSTOMP)
           d == CoapStart(c, n)
       IN IF n.protocol = "WebSocket" THEN EnableServer(d, n) ELSE d

\* NotifyChange_AgentMtpProtocol: MQTT reconnects with the entries as they
\* were, STOMP with the changed entry.
ProtocolChanged(old, s, m, n) ==
  IF ~m.enable THEN told
  ELSE LET a == CoapStop(told, m)
           b == IF m.protocol = "WebSocket" THEN DisableServer(a) ELSE a
           c == ScheduleReconnect(ScheduleReconnect(b, old, "MQTT", m.refMQTT), s, "STOMP", m.refSTOMP)
           d == CoapStart(c, n)
       IN IF n.protocol = "WebSocket" THEN EnableServer(d, n) ELSE d

\* NotifyChange_AgentMtpStompReference, NotifyChange_AgentMtpMqttReference
ReferenceChanged(s, p, m, n) ==
  IF m.enable /\ m.protocol = p
    THEN ScheduleReconnect(ScheduleReconnect(told, s, p, m[RefOf(p)]), s, p, n[RefOf(p)]) ELSE told

\* NotifyChange_AgentMtpStompDestination: the queue of this row, whichever
\* row is the first.
StompDestinationChanged(m, n) ==
  LET c == m.refSTOMP
  IN IF m.enable /\ m.protocol = "STOMP" /\ c \in DOMAIN told.STOMP
       THEN [told EXCEPT !.STOMP[c].dest = n.destSTOMP] ELSE told
\* NotifyChange_AgentMtpMqtt_ResponseTopicConfigured
MqttTopicChanged(s, m) ==
  IF m.enable /\ m.protocol = "MQTT" THEN ScheduleReconnect(told, s, "MQTT", m.refMQTT) ELSE told
\* NotifyChange_AgentMtpCoAPPort, CoAPPath and CoAPEncryption
CoapConfigChanged(m, n) == CoapStart(CoapStop(told, m), n)
\* NotifyChange_AgentMtpWebsockPort, WebsockPath and WebsockEncryption
WebsockConfigChanged(n) == IF n.enable /\ n.protocol = "WebSocket" THEN EnableServer(told, n) ELSE told

Changed(param, old, s, m, n) ==
  CASE param = "enable" -> EnableChanged(s, m, n)
    [] param = "protocol" -> ProtocolChanged(old, s, m, n)
    [] param = "refSTOMP" -> ReferenceChanged(s, "STOMP", m, n)
    [] param = "refMQTT" -> ReferenceChanged(s, "MQTT", m, n)
    [] param = "destSTOMP" -> StompDestinationChanged(m, n)
    [] param = "destMQTT" -> MqttTopicChanged(s, m)
    [] param = "portCoAP" -> CoapConfigChanged(m, n)
    [] param = "portWebSocket" -> WebsockConfigChanged(n)

\* The values a Set may give: DEVICE_MTP_ValidateStompReference and
\* DEVICE_MTP_ValidateMqttReference refuse a connection that does not exist.
Values(param) ==
  CASE param = "enable" -> BOOLEAN
    [] param = "protocol" -> MtpProtocols
    [] param = "refSTOMP" -> {0} \cup DOMAIN conns.STOMP
    [] param = "refMQTT" -> {0} \cup DOMAIN conns.MQTT
    [] param \in {"destSTOMP", "destMQTT"} -> Dests
    [] OTHER -> MtpNumbers

CountChange == /\ tableCount.changes < MaxTableChanges
               /\ tableCount' = [tableCount EXCEPT !.changes = @ + 1]

\* A Set of one parameter of one row.
SetMtpParam ==
  \E i \in DOMAIN mtpRows, param \in RowParams :
    \E v \in Values(param) :
      LET k == FirstSlot(slots, i)
          m == slots[k]
          n == [m EXCEPT ![param] = v]
          s == [slots EXCEPT ![k] = n]
      IN /\ mtpRows[i][param] # v /\ CountChange
         /\ OnlyWsServer(i, [mtpRows[i] EXCEPT ![param] = v])
         /\ mtpRows' = [mtpRows EXCEPT ![i][param] = v]
         /\ slots' = s /\ told' = Changed(param, slots, s, m, n)
         /\ UNCHANGED <<conns, canConnect>>

\* ProcessAgentMtpAdded.
StartMtp(t, s, m) ==
  LET a == CoapStart(t, m)
      b == IF m.enable /\ m.protocol = "WebSocket" THEN EnableServer(a, m) ELSE a
  IN IF m.enable /\ m.protocol \in Clients THEN ScheduleReconnect(b, s, m.protocol, m[RefOf(m.protocol)]) ELSE b

\* ValidateAdd_AgentMtp, Notify_AgentMtpAdded
AddMtp ==
  \E protocol \in MtpProtocols, enable \in BOOLEAN, ref \in {0, 1} :
    LET i == tableCount.mtps + 1
        m == [FreeMtp EXCEPT !.inst = i, !.enable = enable, !.protocol = protocol, !.portCoAP = 1,
                             !.portWebSocket = 1, !.destSTOMP = "b", !.destMQTT = "b",
                             !.refSTOMP = IF 1 \in DOMAIN conns.STOMP THEN ref ELSE 0,
                             !.refMQTT = IF 1 \in DOMAIN conns.MQTT THEN ref ELSE 0]
        s == [slots EXCEPT ![FirstSlot(slots, 0)] = m]
    IN /\ tableCount.changes < MaxTableChanges /\ i <= MaxMtpInst
       /\ tableCount' = [tableCount EXCEPT !.changes = @ + 1, !.mtps = i]
       /\ SlotsOf(slots, 0) # {} /\ OnlyWsServer(i, m)
       /\ mtpRows' = (i :> m) @@ mtpRows /\ slots' = s /\ told' = StartMtp(told, s, m)
       /\ UNCHANGED <<conns, canConnect>>

\* The switch of Notify_AgentMtpDeleted, which has no case for websockets.
StopMtp(m) ==
  IF m.protocol \in Clients THEN ScheduleReconnect(told, slots, m.protocol, m[RefOf(m.protocol)])
  ELSE CoapStop(told, m)

\* Notify_AgentMtpDeleted: the entry of a disabled row stays.
DeleteMtp ==
  \E i \in DOMAIN mtpRows :
    LET k == FirstSlot(slots, i)
        m == slots[k]
    IN /\ CountChange
       /\ mtpRows' = [j \in DOMAIN mtpRows \ {i} |-> mtpRows[j]]
       /\ IF m.enable THEN slots' = [slots EXCEPT ![k] = FreeMtp] /\ told' = StopMtp(m)
          ELSE UNCHANGED <<slots, told>>
       /\ UNCHANGED <<conns, canConnect>>

-----------------------------------------------------------------------------
(* Changes of connections.                                                 *)

\* Notify_StompConnAdded, Notify_MQTTClientAdded
AddConn ==
  \E p \in Clients, enable \in BOOLEAN :
    LET c == tableCount.conns + 1
        x == [enable |-> enable, host |-> 1, retry |-> 1]
    IN /\ tableCount.changes < MaxTableChanges /\ c <= MaxConnInst
       /\ tableCount' = [tableCount EXCEPT !.changes = @ + 1, !.conns = c]
       /\ conns' = [conns EXCEPT ![p] = (c :> x) @@ @]
       /\ told' = IF enable THEN EnableConn(told, slots, p, c, x) ELSE told
       /\ UNCHANGED <<mtpRows, slots, canConnect>>

\* NotifyChange_StompEnable, NotifyChange_MQTTEnable
SetConnEnable ==
  \E p \in Clients :
    \E c \in DOMAIN conns[p] :
      LET x == [conns[p][c] EXCEPT !.enable = ~@]
      IN /\ CountChange /\ conns' = [conns EXCEPT ![p][c] = x]
         /\ told' = IF x.enable THEN EnableConn(told, slots, p, c, x) ELSE DisableConn(told, p, c)
         /\ UNCHANGED <<mtpRows, slots, canConnect>>

\* Seeded error: the reconnect is scheduled with the old value.
TellOldHost(p, c, x, y) == IF x.enable THEN EnableConn(told, slots, p, c, x) ELSE told

\* NotifyChange_StompHost, StompUsername, StompPassword, VirtualHost,
\* MQTTPassword, MQTTProtocolVersion, MQTTTransportProtocol: reconnect.
TellHost(p, c, x, y) == IF x.enable THEN EnableConn(told, slots, p, c, y) ELSE told

SetConnHost ==
  \E p \in Clients :
    \E c \in DOMAIN conns[p] :
      LET x == conns[p][c]
          y == [x EXCEPT !.host = 3 - @]
      IN /\ CountChange /\ conns' = [conns EXCEPT ![p][c] = y] /\ told' = TellHost(p, c, x, y)
         /\ UNCHANGED <<mtpRows, slots, canConnect>>

\* NotifyChange_RetryInitialInterval and others: told without a reconnect.
SetConnRetry ==
  \E p \in Clients :
    \E c \in DOMAIN conns[p] :
      LET y == [conns[p][c] EXCEPT !.retry = 3 - @]
      IN /\ CountChange /\ conns' = [conns EXCEPT ![p][c] = y]
         /\ told' = IF c \in DOMAIN told[p] THEN [told EXCEPT ![p][c].retry = y.retry] ELSE told
         /\ UNCHANGED <<mtpRows, slots, canConnect>>

\* DEVICE_MTP_NotifyStompConnDeleted, DEVICE_MTP_NotifyMqttConnDeleted: only
\* rows of the protocol lose the reference.
Unpicked(m, p, c) == IF m.protocol = p /\ m[RefOf(p)] = c THEN [m EXCEPT ![RefOf(p)] = 0] ELSE m

\* Notify_StompConnDeleted, Notify_MqttClientDeleted
DeleteConn ==
  \E p \in Clients :
    \E c \in DOMAIN conns[p] :
      /\ CountChange
      /\ conns' = [conns EXCEPT ![p] = [i \in DOMAIN @ \ {c} |-> @[i]]]
      /\ told' = DisableConn(told, p, c)
      /\ slots' = [k \in DOMAIN slots |-> Unpicked(slots[k], p, c)]
      /\ mtpRows' = [i \in DOMAIN mtpRows |-> Unpicked(mtpRows[i], p, c)]
      /\ UNCHANGED canConnect

\* PollCanMtpConnect, DEVICE_MTP_StartMtpServers
AllowConnect ==
  LET servers == {k \in DOMAIN slots : slots[k].inst # 0 /\ slots[k].enable}
      coap == {<<slots[k].inst, slots[k].portCoAP>> : k \in {j \in servers : slots[j].protocol = "CoAP"}}
      ws == {slots[k].portWebSocket : k \in {j \in servers : slots[j].protocol = "WebSocket"}}
  IN /\ ~canConnect /\ canConnect' = TRUE
     /\ \E order \in [1..Cardinality(coap) -> coap], port \in IF ws = {} THEN {0} ELSE ws :
          /\ {order[j] : j \in DOMAIN order} = coap
          /\ told' = [told EXCEPT !.CoAP = @ \o order, !.WebSocket = port]
     /\ UNCHANGED <<mtpRows, slots, conns, tableCount>>

\* DEVICE_MTP_Start: a row with a reference that does not exist is deleted.
Loads(m) == \A p \in Clients : m[RefOf(p)] \in {0} \cup DOMAIN conns[p]

\* The agent starts with the tables of the database.
RestartTables ==
  LET keep == {i \in DOMAIN mtpRows : Loads(mtpRows[i])}
      s == [k \in 1..MtpSlots |->
              LET before == {i \in keep : Cardinality({j \in keep : j <= i}) = k}
              IN IF before = {} THEN FreeMtp ELSE mtpRows[CHOOSE i \in before : TRUE]]
      Started(p) == [c \in {d \in DOMAIN conns[p] : conns[p][d].enable} |->
                       [host |-> conns[p][c].host, retry |-> conns[p][c].retry, dest |-> AgentDest(s, p, c)]]
  IN /\ CountChange
     /\ mtpRows' = [i \in keep |-> mtpRows[i]] /\ slots' = s /\ canConnect' = FALSE
     /\ told' = [STOMP |-> Started("STOMP"), MQTT |-> Started("MQTT"), CoAP |-> <<>>, WebSocket |-> 0]
     /\ UNCHANGED conns

MtInit ==
  \E protocol \in MtpProtocols :
    LET m == [inst |-> 1, enable |-> TRUE, protocol |-> protocol, refSTOMP |-> 1, refMQTT |-> 1,
              destSTOMP |-> "a", destMQTT |-> "a", portCoAP |-> 1, portWebSocket |-> 1]
        s == [k \in 1..MtpSlots |-> IF k = 1 THEN m ELSE FreeMtp]
        x == [enable |-> TRUE, host |-> 1, retry |-> 1]
    IN /\ mtpRows = (1 :> m) /\ slots = s /\ conns = [p \in Clients |-> (1 :> x)]
       /\ told = [STOMP |-> (1 :> [host |-> 1, retry |-> 1, dest |-> AgentDest(s, "STOMP", 1)]),
                  MQTT |-> (1 :> [host |-> 1, retry |-> 1, dest |-> AgentDest(s, "MQTT", 1)]),
                  CoAP |-> <<>>, WebSocket |-> 0]
       /\ canConnect = FALSE /\ tableCount = [changes |-> 0, mtps |-> 1, conns |-> 1]

MtNext ==
  \/ SetMtpParam \/ AddMtp \/ DeleteMtp \/ AddConn \/ SetConnEnable \/ SetConnHost \/ SetConnRetry
  \/ DeleteConn \/ AllowConnect \/ RestartTables

MtSpec == MtInit /\ [][MtNext]_mtVars

-----------------------------------------------------------------------------
(* Properties.                                                             *)

\* The tables hold what their C types allow.
MtTypeOK ==
  /\ DOMAIN slots = 1..MtpSlots /\ \A k \in DOMAIN slots : slots[k].inst \in 0..MaxMtpInst
  /\ DOMAIN conns = Clients /\ canConnect \in BOOLEAN /\ told.WebSocket \in {0} \cup MtpNumbers

\* CoAP servers run for the enabled CoAP rows, with their ports, one each,
\* and for nothing else, whatever changes and deletions came in whatever
\* order (ControlCoapServer, device_mtp.c:1548, does nothing for an entry
\* that is not CoAP at that moment; coap_server.c:327 asserts that an entry
\* is not started twice).
CoapServersMatch ==
  canConnect =>
    /\ {told.CoAP[j] : j \in DOMAIN told.CoAP} =
         {<<i, mtpRows[i].portCoAP>> : i \in {j \in DOMAIN mtpRows : mtpRows[j].enable /\ mtpRows[j].protocol = "CoAP"}}
    /\ \A j, k \in DOMAIN told.CoAP : j # k => told.CoAP[j][1] # told.CoAP[k][1]

\* A client has a connection for the enabled connections of its table and no
\* other, and knows their current parameters, also after the reconnects that
\* changes of rows schedule (device_stomp.c:1584, device_mqtt.c:1980).
ConnectionsTold ==
  \A p \in Clients :
    /\ DOMAIN told[p] = {c \in DOMAIN conns[p] : conns[p][c].enable}
    /\ \A c \in DOMAIN told[p] : told[p][c].host = conns[p][c].host /\ told[p][c].retry = conns[p][c].retry

\* device_mtp.c:1351 "Schedule the affected MQTT connection to reconnect
\* (because it might have lost or gained a agent queue to subscribe to)": an
\* MQTT client knows the topic of its row after every change.
TopicTold == \A c \in DOMAIN told.MQTT : told.MQTT[c].dest = AgentDest(slots, "MQTT", c)

\* The transports run what the tables say, with the values of the tables.
MtpTablesInv == MtTypeOK /\ CoapServersMatch /\ ConnectionsTold
=============================================================================
