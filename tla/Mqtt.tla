-------------------------------- MODULE Mqtt --------------------------------
(***************************************************************************)
(* One client of the MQTT MTP: the calls of the DM thread, the passes of   *)
(* the MTP thread and the callbacks libmosquitto makes during a pass.      *)
(*                                                                         *)
(* Every function runs under mqtt_access_mutex, so each is one step from a *)
(* client record to the next, written as an operator on that record; only  *)
(* mosquitto_connect is called with the mutex released.                    *)
(***************************************************************************)
EXTENDS Integers, Sequences

CONSTANTS
    MaxMqttRecords,   \* records queued
    MaxMqttChanges,   \* changes made to the client's configuration
    MaxMqttFailures   \* failures of the network, the broker and the publishing of a record

ASSUME MqttAssumption == {MaxMqttRecords, MaxMqttChanges, MaxMqttFailures} \subseteq Nat

MqttState == {"Idle", "SendingConnect", "AwaitingConnect", "Running", "AwaitingDisconnect", "ErrorRetrying"}
SubState == {"Unsubscribed", "Subscribing", "Subscribed", "Unsubscribing", "Resubscribing", "Failed"}
MqttAction == {"Off", "Signalled", "Activated"}

\* A record on usp_record_send_queue, numbered in the order of queueing; a connect record is put in front.
ConnectRecord == [kind |-> "connect", no |-> 0]
QueuedRecord(kind, n) == [kind |-> kind, no |-> n]
MqttRecord == {ConnectRecord} \cup [kind : {"message", "disconnect"}, no : Nat \ {0}]

\* A subscription: a topic the agent or the data model wants, and how far the broker is.
NoSub == [inst |-> FALSE, enabled |-> FALSE, st |-> "Unsubscribed"]
Agent == "agent_topic"
User == "user_topic"

VARIABLES
    mq,         \* mqtt_clients[i], with the state of its libmosquitto client
    mq_dm,      \* device_mqtt.c: [enable, conf, sub], sub one of "none", "off", "on";
                \* wasOff tells whether the client was ever disabled
    mq_allowed, \* DEVICE_CONTROLLER_CanMtpConnect
    mq_connecting, \* is the MTP thread inside mosquitto_connect, without the mutex?
    mq_first,   \* the kind of the first record published on this connection, or "none"
    mq_sent,    \* the messages published on it
    mq_done,    \* messages that left the queue as they should
    mq_n, mq_changes, mq_failures

mqVars == <<mq, mq_dm, mq_allowed, mq_connecting, mq_first, mq_sent, mq_done, mq_n, mq_changes, mq_failures>>
mqGhost == <<mq_first, mq_sent, mq_done>>

\* InitClient
InitClient ==
    [used |-> FALSE, state |-> "Idle", reconnect |-> "Off", close |-> "Off", isReconnect |-> FALSE,
     isDisconnected |-> FALSE, isSubscribed |-> FALSE, conn |-> 0, next |-> 0,
     sock |-> FALSE, connack |-> FALSE, acks |-> {}, broker |-> {},
     response |-> "Unsubscribed", sub |-> NoSub, queue |-> {}]

MqttInit ==
    /\ mq = InitClient
    /\ mq_dm = [enable |-> FALSE, conf |-> 1, sub |-> "none", wasOff |-> FALSE]
    /\ mq_allowed \in BOOLEAN
    /\ mq_connecting = FALSE
    /\ mq_first = "none" /\ mq_sent = <<>> /\ mq_done = {}
    /\ mq_n = 0 /\ mq_changes = 0 /\ mq_failures = 0

\* The messages of a queue, and the record at its head.
Messages(q) == {n \in 1..MaxMqttRecords : QueuedRecord("message", n) \in q}
IsHead(h, q) == h \in q /\ \A r \in q : h.no <= r.no
-----------------------------------------------------------------------------
(***************************************************************************)
(* What happens to a client.                                               *)
(***************************************************************************)
\* EnableMosquitto: a new libmosquitto client; the old one's socket closes.
EnableMosquitto(c) ==
    [c EXCEPT !.sock = FALSE, !.connack = FALSE, !.acks = {}, !.broker = {}, !.isDisconnected = FALSE]

\* Mutant: a configuration change that is due is forgotten when the client is enabled.
EnableMqttClientAsBefore(c) ==
    IF mq_allowed THEN [EnableMosquitto(c) EXCEPT !.state = "SendingConnect", !.conn = mq.conn, !.reconnect = "Off",
                            !.close = "Off", !.isSubscribed = FALSE, !.response = "Unsubscribed"]
    ELSE [c EXCEPT !.state = "ErrorRetrying", !.reconnect = "Off"]

\* EnableMqttClient
EnableMqttClient(c) ==
    LET d == [c EXCEPT !.reconnect = "Off", !.close = "Off", !.isSubscribed = FALSE, !.response = "Unsubscribed"]
    IN IF mq_allowed THEN [EnableMosquitto(d) EXCEPT !.state = "SendingConnect"]
                     ELSE [d EXCEPT !.state = "ErrorRetrying"]

\* ParamReplace(conn_params, next_params)
TakeNext(c) == [c EXCEPT !.conn = c.next]

\* Mutant: a reconnect empties the queue as a close does.
CleanMqttClientWholly(c, isReconnect) ==
    [c EXCEPT !.state = "Idle", !.reconnect = "Off", !.close = "Off", !.isSubscribed = FALSE,
              !.response = "Unsubscribed", !.conn = 0, !.queue = {}, !.used = isReconnect,
              !.next = IF isReconnect THEN c.next ELSE 0, !.isReconnect = isReconnect]

\* CleanMqttClient
CleanMqttClient(c, isReconnect) ==
    LET d == [c EXCEPT !.state = "Idle", !.reconnect = "Off", !.close = "Off", !.isSubscribed = FALSE,
                       !.response = "Unsubscribed", !.conn = 0]
    IN IF isReconnect THEN d
       ELSE [d EXCEPT !.queue = {}, !.next = 0, !.used = FALSE, !.isReconnect = FALSE]

\* HandleMqttReconnectAfterDisconnect
HandleMqttReconnectAfterDisconnect(c) ==
    IF c.isReconnect
    THEN EnableMqttClient(TakeNext([CleanMqttClient(c, TRUE) EXCEPT !.isReconnect = FALSE]))
    ELSE CleanMqttClient(c, FALSE)

\* DisconnectClient: the DISCONNECT goes out in a later pass.
DisconnectClient(c) == IF c.sock THEN [c EXCEPT !.state = "AwaitingDisconnect"] ELSE c

\* HandleMqttError: back off, or go straight on if the client was being reconnected.
HandleMqttError(c) ==
    IF c.state = "AwaitingDisconnect" /\ c.isReconnect
    THEN HandleMqttReconnectAfterDisconnect(c)
    ELSE TakeNext([DisconnectClient(c) EXCEPT !.isReconnect = FALSE, !.isSubscribed = FALSE, !.state = "ErrorRetrying"])

\* Subscribe: the SUBACK carries the message id of the last SUBSCRIBE or UNSUBSCRIBE.
SubscribeAgent(c) == [c EXCEPT !.response = "Subscribing", !.acks = @ \cup {"sub_agent"}]
SubscribeUser(c) ==
    [c EXCEPT !.sub.st = "Subscribing", !.acks = (@ \ {"unsub_user"}) \cup {"sub_user"}]
UnsubscribeUser(c, st) ==
    [c EXCEPT !.sub.st = st, !.acks = (@ \ {"sub_user"}) \cup {"unsub_user"}]

\* SubscribeToAll: every slot that is enabled, whether or not it holds an instance.
SubscribeToAll(c) ==
    LET d == SubscribeAgent(c) IN IF c.sub.enabled THEN SubscribeUser(d) ELSE d

\* Mutant: the connect record waits its turn.
QueueUspConnectRecordLast(c) == [c EXCEPT !.queue = @ \cup {QueuedRecord("connect", MaxMqttRecords + 1)}]

\* QueueUspMqttConnectRecords: in front of everything, instead of stale ones.
QueueUspMqttConnectRecords(c) ==
    [c EXCEPT !.queue = {ConnectRecord} \cup {r \in @ : r.kind = "message"}]

\* ConnectCallback, ConnectV5Callback
ConnectCallback(c, accepted, v5) ==
    LET d == [c EXCEPT !.connack = FALSE] IN
    IF c.state \notin {"AwaitingConnect", "ErrorRetrying"}
    THEN IF v5 THEN HandleMqttError(d) ELSE d
    ELSE IF ~accepted THEN HandleMqttError(d)
    ELSE QueueUspMqttConnectRecords(SubscribeToAll([d EXCEPT !.state = "Running"]))

\* DisconnectIfAllSubscriptionsFailed: of those that were tried.
AllSubscriptionsFailed(c) ==
    /\ c.sub.enabled => c.sub.st \in {"Unsubscribed", "Failed"}
    /\ c.response \in {"Unsubscribed", "Failed"}

\* SubscribeCallback
SubscribeCallback(c, a, granted) ==
    LET st == IF granted THEN "Subscribed" ELSE "Failed"
        d == IF a = "sub_agent"
             THEN [c EXCEPT !.acks = @ \ {a}, !.response = st, !.broker = IF granted THEN @ \cup {Agent} ELSE @]
             ELSE [c EXCEPT !.acks = @ \ {a}, !.sub.st = st, !.broker = IF granted THEN @ \cup {User} ELSE @]
    IN IF granted THEN [d EXCEPT !.isSubscribed = TRUE]
       ELSE IF AllSubscriptionsFailed(d) THEN HandleMqttError(d) ELSE d

\* Mutant: a topic that changed is forgotten with the old one.
UnsubscribeCallbackOnly(c) ==
    [c EXCEPT !.acks = @ \ {"unsub_user"}, !.broker = @ \ {User},
              !.sub.st = IF @ \in {"Unsubscribing", "Resubscribing"} THEN "Unsubscribed" ELSE @]

\* UnsubscribeCallback
UnsubscribeCallback(c) ==
    LET d == [c EXCEPT !.acks = @ \ {"unsub_user"}, !.broker = @ \ {User}] IN
    IF c.sub.st = "Unsubscribing" THEN [d EXCEPT !.sub.st = "Unsubscribed"]
    ELSE IF c.sub.st = "Resubscribing" THEN SubscribeUser(d)
    ELSE d

\* PublishCallback, when the record was a disconnect record
PublishCallback(c) == HandleMqttError([c EXCEPT !.acks = @ \ {"published"}])
-----------------------------------------------------------------------------
(***************************************************************************)
(* A pass of the MTP thread.                                               *)
(***************************************************************************)
\* HandleMqttReconnect
HandleMqttReconnect(c) ==
    CASE c.state \in {"Idle", "ErrorRetrying"} -> EnableMqttClient(TakeNext(c))
      [] c.state = "AwaitingDisconnect" -> [c EXCEPT !.isReconnect = TRUE]
      [] OTHER -> IF c.sock THEN DisconnectClient([c EXCEPT !.isReconnect = TRUE])
                            ELSE EnableMqttClient(TakeNext(c))

\* HandleMqttClose: a connection stays until its queue is empty.
HandleMqttClose(c) ==
    CASE c.state = "AwaitingDisconnect" -> [c EXCEPT !.isReconnect = FALSE]
      [] c.state \in {"SendingConnect", "Idle", "ErrorRetrying"} -> CleanMqttClient(c, FALSE)
      [] OTHER -> IF c.queue = {} THEN DisconnectClient([c EXCEPT !.isReconnect = FALSE]) ELSE c

\* HandleMqttDisconnect
HandleMqttDisconnect(c) ==
    LET d == [c EXCEPT !.isDisconnected = FALSE] IN
    CASE c.state \in {"ErrorRetrying", "Idle"} -> d
      [] c.state = "AwaitingDisconnect" -> HandleMqttReconnectAfterDisconnect(d)
      [] OTHER -> HandleMqttError(d)

\* The end of MQTT_ProcessAllSocketActivity for a client.
Finished(c) ==
    LET r == IF c.reconnect = "Activated" /\ c.queue = {} THEN HandleMqttReconnect(c) ELSE c
        k == IF r.close = "Activated" THEN HandleMqttClose(r) ELSE r
    IN IF k.isDisconnected THEN HandleMqttDisconnect(k) ELSE k

\* What the socket of c can bring: callbacks of libmosquitto, or an error after which
\* libmosquitto has closed the socket and called the disconnect callback.
Closed(c) == [c EXCEPT !.sock = FALSE, !.connack = FALSE, !.acks = {}, !.broker = {}, !.isDisconnected = TRUE]
Received(c) ==
         {[c |-> c, fails |-> 0]}
    \cup (IF c.sock /\ c.state \in {"AwaitingDisconnect", "ErrorRetrying"} THEN {[c |-> Closed(c), fails |-> 0]} ELSE {})
    \cup (IF c.sock THEN {[c |-> HandleMqttError(Closed(c)), fails |-> 1], [c |-> Closed(c), fails |-> 1]} ELSE {})
    \cup (IF c.connack THEN {[c |-> ConnectCallback(c, ok, v5), fails |-> IF ok THEN 0 ELSE 1] : ok, v5 \in BOOLEAN} ELSE {})
    \cup {[c |-> SubscribeCallback(c, a, ok), fails |-> IF ok THEN 0 ELSE 1] : a \in c.acks \cap {"sub_agent", "sub_user"}, ok \in BOOLEAN}
    \cup (IF "unsub_user" \in c.acks THEN {[c |-> UnsubscribeCallback(c), fails |-> 0]} ELSE {})
    \cup (IF "published" \in c.acks THEN {[c |-> PublishCallback(c), fails |-> 0]} ELSE {})

\* The client after a step, and what the step means for the records.
Becomes(c) ==
    /\ mq' = c
    /\ mq_done' = IF c.used THEN mq_done ELSE mq_done \cup Messages(mq.queue)
    /\ mq_sent' = IF c.state = "SendingConnect" THEN <<>> ELSE mq_sent
    /\ mq_first' = IF c.state = "SendingConnect" THEN "none" ELSE mq_first

\* MQTT_ProcessAllSocketActivity
MQTT_ProcessAllSocketActivity ==
    /\ mq.used /\ ~mq_connecting /\ mq.state # "SendingConnect"
    /\ \E r \in Received(mq) :
          /\ mq_failures + r.fails <= MaxMqttFailures
          /\ mq_failures' = mq_failures + r.fails
          /\ Becomes(Finished(r.c))
    /\ UNCHANGED <<mq_dm, mq_allowed, mq_connecting, mq_n, mq_changes>>

\* Connect: the mutex is released while libmosquitto connects.
Connect ==
    /\ mq.used /\ ~mq_connecting /\ mq.state = "SendingConnect"
    /\ mq_connecting' = TRUE
    /\ UNCHANGED <<mq, mq_dm, mq_allowed, mqGhost, mq_n, mq_changes, mq_failures>>

Connected(ok) ==
    /\ mq_connecting
    /\ ok \/ mq_failures < MaxMqttFailures
    /\ mq_failures' = IF ok THEN mq_failures ELSE mq_failures + 1
    /\ mq_connecting' = FALSE
    /\ Becomes(Finished(IF ok THEN [mq EXCEPT !.state = "AwaitingConnect", !.sock = TRUE, !.connack = TRUE]
                              ELSE HandleMqttError(mq)))
    /\ UNCHANGED <<mq_dm, mq_allowed, mq_n, mq_changes>>

\* RemoveExpiredMqttMessages
Unexpired(q, expired) == q \ {QueuedRecord("message", n) : n \in expired}

\* Publish: what is left of the queue q when its head is published.  A disconnect record ends the
\* connection once it is out; a message that cannot be published is dropped
\* (MSG_HANDLER_ShouldDropFailedMessage) or tried again.
PublishHead(q, h, result) ==
    /\ mq' = [mq EXCEPT !.queue = IF result = "retry" THEN q ELSE q \ {h},
                        !.acks = IF result # "sent" THEN @
                                 ELSE IF h.kind = "disconnect" THEN @ \cup {"published"} ELSE @ \ {"published"}]
    /\ mq_first' = IF result = "sent" /\ mq_first = "none" THEN h.kind ELSE mq_first
    /\ mq_sent' = IF result = "sent" /\ h.kind = "message" THEN Append(mq_sent, h.no) ELSE mq_sent

\* MQTT_UpdateAllSockSet for a running client: expired records go, then the head is published once there
\* is a subscription.
PublishQueued(expired, result) ==
    LET q == Unexpired(mq.queue, expired)
        faults == (IF expired = {} THEN 0 ELSE 1) + (IF result = "drop" THEN 1 ELSE 0)
    IN /\ mq.used /\ ~mq_connecting /\ mq.state = "Running"
       /\ mq_failures + faults <= MaxMqttFailures
       /\ mq_failures' = mq_failures + faults
       /\ \/ /\ result = "none" /\ ~(mq.isSubscribed /\ q # {})
             /\ mq' = [mq EXCEPT !.queue = q]
             /\ UNCHANGED <<mq_first, mq_sent>>
          \/ /\ result # "none" /\ mq.isSubscribed
             /\ \E h \in q : /\ IsHead(h, q)
                             /\ result = "sent" \/ h.kind = "message"
                             /\ PublishHead(q, h, result)
       /\ mq_done' = mq_done \cup (Messages(mq.queue) \ Messages(mq'.queue))
       /\ UNCHANGED <<mq_dm, mq_allowed, mq_connecting, mq_n, mq_changes>>

\* MQTT_UpdateAllSockSet for a client that waits to retry.
RetryMqttClient ==
    /\ mq.used /\ ~mq_connecting /\ mq.state = "ErrorRetrying"
    /\ Becomes(EnableMqttClient(TakeNext(mq)))
    /\ UNCHANGED <<mq_dm, mq_allowed, mq_connecting, mq_n, mq_changes, mq_failures>>
-----------------------------------------------------------------------------
(***************************************************************************)
(* The DM thread.                                                          *)
(***************************************************************************)
MqttChange == mq_changes < MaxMqttChanges /\ mq_changes' = mq_changes + 1

\* MQTT_EnableClient, refused while the client is anything but idle or waiting to retry.
EnableClient(c, conf, enable, sub) ==
    IF c.used /\ c.state \notin {"Idle", "ErrorRetrying"} THEN c
    ELSE LET d == [c EXCEPT !.used = TRUE, !.conn = conf, !.next = conf, !.sub = sub]
         IN IF enable THEN EnableMqttClient(d) ELSE d

SubConfig(s) == [inst |-> s # "none", enabled |-> s = "on", st |-> "Unsubscribed"]

\* NotifyChange_MQTTEnable to true
EnableMQTTClient ==
    /\ ~mq_dm.enable
    /\ MqttChange
    /\ mq_dm' = [mq_dm EXCEPT !.enable = TRUE]
    /\ Becomes(EnableClient(mq, mq_dm.conf, TRUE, SubConfig(mq_dm.sub)))
    /\ UNCHANGED <<mq_allowed, mq_connecting, mq_n, mq_failures>>

\* NotifyChange_MQTTEnable to false, Notify_MqttClientDeleted: MQTT_DisableClient
MQTT_DisableClient ==
    /\ mq_dm.enable
    /\ MqttChange
    /\ mq_dm' = [mq_dm EXCEPT !.enable = FALSE, !.wasOff = TRUE]
    /\ mq' = IF mq.used THEN [mq EXCEPT !.close = "Signalled"] ELSE mq
    /\ UNCHANGED <<mq_allowed, mq_connecting, mqGhost, mq_n, mq_failures>>

\* MQTT_UpdateConnectionParams: all of the client's parameters, now or for the next connection
MQTT_UpdateConnectionParams(c, conf, reconnect) ==
    IF ~c.used THEN c ELSE [c EXCEPT !.next = conf, !.reconnect = IF reconnect THEN "Signalled" ELSE @]

\* NotifyChange_MQTTBrokerAddress, BrokerPort, Username, Password, ProtocolVersion,
\* TransportProtocol: a parameter that needs another connection
NotifyChange_MQTTBrokerAddress ==
    /\ MqttChange
    /\ mq_dm' = [mq_dm EXCEPT !.conf = @ + 1]
    /\ mq' = IF mq_dm.enable THEN MQTT_UpdateConnectionParams(mq, mq_dm.conf + 1, TRUE) ELSE mq
    /\ UNCHANGED <<mq_allowed, mq_connecting, mqGhost, mq_n, mq_failures>>

\* NotifyChange_MQTTKeepAliveTime, ALPN, ClientID, CleanSession, CleanStart, RequestResponseInfo
\* and the retry parameters: whatever is configured is for the next connection.
NotifyChange_MQTTKeepAliveTime ==
    /\ MqttChange
    /\ mq' = MQTT_UpdateConnectionParams(mq, mq_dm.conf, FALSE)
    /\ UNCHANGED <<mq_dm, mq_allowed, mq_connecting, mqGhost, mq_n, mq_failures>>

\* Operate_MQTTForceReconnect
Operate_MQTTForceReconnect ==
    /\ mq_dm.enable /\ mq.used /\ mq.state = "Running"
    /\ MqttChange
    /\ mq' = MQTT_UpdateConnectionParams(mq, mq_dm.conf, TRUE)
    /\ UNCHANGED <<mq_dm, mq_allowed, mq_connecting, mqGhost, mq_n, mq_failures>>

\* MQTT_ActivateScheduledActions, once the responses have gone to the MTP threads
Activated(a) == IF a = "Signalled" THEN "Activated" ELSE a
MQTT_ActivateScheduledActions ==
    /\ "Signalled" \in {mq.reconnect, mq.close}
    /\ mq' = [mq EXCEPT !.reconnect = Activated(@), !.close = Activated(@)]
    /\ UNCHANGED <<mq_dm, mq_allowed, mq_connecting, mqGhost, mq_n, mq_changes, mq_failures>>

\* MQTT_AllowConnect
MQTT_AllowConnect ==
    /\ ~mq_allowed
    /\ mq_allowed' = TRUE
    /\ UNCHANGED <<mq, mq_dm, mq_connecting, mqGhost, mq_n, mq_changes, mq_failures>>

\* MQTT_QueueBinaryMessage: expired records go, then the record is the last.  (One that is in the queue
\* already changes nothing.)
MQTT_QueueBinaryMessage(kind, expired) ==
    LET faults == IF expired = {} THEN 0 ELSE 1 IN
    /\ mq.used
    /\ mq_n < MaxMqttRecords /\ mq_failures + faults <= MaxMqttFailures
    /\ mq_n' = mq_n + 1 /\ mq_failures' = mq_failures + faults
    /\ mq' = [mq EXCEPT !.queue = Unexpired(@, expired) \cup {QueuedRecord(kind, mq_n + 1)}]
    /\ mq_done' = mq_done \cup expired
    /\ UNCHANGED <<mq_dm, mq_allowed, mq_connecting, mq_first, mq_sent, mq_changes>>

\* MQTT_AddSubscription, for a client that has a slot; Notify_MqttClientSubcriptionsAdded
MQTT_AddSubscription(s) ==
    /\ mq_dm.sub = "none" /\ s # "none"
    /\ MqttChange
    /\ mq_dm' = [mq_dm EXCEPT !.sub = s]
    /\ LET c == [mq EXCEPT !.sub = SubConfig(s)] IN
       mq' = IF ~mq.used THEN mq ELSE IF s = "on" /\ mq.state = "Running" THEN SubscribeUser(c) ELSE c
    /\ UNCHANGED <<mq_allowed, mq_connecting, mqGhost, mq_n, mq_failures>>

\* MQTT_ScheduleResubscription, when Enable or Topic of the subscription changes
ScheduleResubscription(c, s) ==
    LET unsubscribing == c.sub.enabled /\ c.sub.st \notin {"Unsubscribed", "Unsubscribing"}
        d == [c EXCEPT !.sub.enabled = (s = "on")]
    IN IF c.state # "Running" THEN [c EXCEPT !.sub = SubConfig(s)]
       ELSE IF unsubscribing THEN UnsubscribeUser(d, IF s = "on" THEN "Resubscribing" ELSE "Unsubscribing")
       ELSE IF s = "on" THEN SubscribeUser(d)
       ELSE [d EXCEPT !.sub.st = "Unsubscribed"]

MQTT_ScheduleResubscription(s) ==
    /\ mq_dm.sub # "none" /\ s # "none" /\ (s = "off" => mq_dm.sub = "on")
    /\ MqttChange
    /\ mq_dm' = [mq_dm EXCEPT !.sub = s]
    /\ mq' = IF mq.used /\ mq.sub.inst THEN ScheduleResubscription(mq, s) ELSE mq
    /\ UNCHANGED <<mq_allowed, mq_connecting, mqGhost, mq_n, mq_failures>>

\* MQTT_DeleteSubscription: the slot is free, but it stays enabled.
MQTT_DeleteSubscription ==
    /\ mq_dm.sub # "none"
    /\ MqttChange
    /\ mq_dm' = [mq_dm EXCEPT !.sub = "none"]
    /\ LET c == IF mq.sub.enabled /\ mq.state = "Running" /\ mq.sub.st \in {"Resubscribing", "Subscribed"}
                THEN UnsubscribeUser(mq, "Unsubscribing") ELSE mq
       IN mq' = IF mq.used THEN [c EXCEPT !.sub.inst = FALSE] ELSE mq
    /\ UNCHANGED <<mq_allowed, mq_connecting, mqGhost, mq_n, mq_failures>>

MqttNext ==
    \/ MQTT_ProcessAllSocketActivity
    \/ Connect
    \/ \E ok \in BOOLEAN : Connected(ok)
    \/ \E expired \in SUBSET Messages(mq.queue), result \in {"none", "sent", "drop", "retry"} : PublishQueued(expired, result)
    \/ RetryMqttClient
    \/ EnableMQTTClient
    \/ MQTT_DisableClient
    \/ NotifyChange_MQTTBrokerAddress
    \/ NotifyChange_MQTTKeepAliveTime
    \/ Operate_MQTTForceReconnect
    \/ MQTT_ActivateScheduledActions
    \/ MQTT_AllowConnect
    \/ \E kind \in {"message", "disconnect"}, expired \in SUBSET Messages(mq.queue) : MQTT_QueueBinaryMessage(kind, expired)
    \/ \E s \in {"off", "on"} : MQTT_AddSubscription(s) \/ MQTT_ScheduleResubscription(s)
    \/ MQTT_DeleteSubscription

MqttSpec == MqttInit /\ [][MqttNext]_mqVars
-----------------------------------------------------------------------------
MqttAck == {"sub_agent", "sub_user", "unsub_user", "published"}
MqttSub == [inst : BOOLEAN, enabled : BOOLEAN, st : SubState]
MqttClient ==
    [used : BOOLEAN, state : MqttState, reconnect : MqttAction, close : MqttAction, isReconnect : BOOLEAN,
     isDisconnected : BOOLEAN, isSubscribed : BOOLEAN, conn : Nat, next : Nat, sock : BOOLEAN, connack : BOOLEAN,
     acks : SUBSET MqttAck, broker : SUBSET {Agent, User}, response : SubState, sub : MqttSub,
     queue : SUBSET MqttRecord]

\* The client, its parameters and its queue hold what their C types allow.
MqttTypeOK ==
    /\ mq \in MqttClient
    /\ mq_dm \in [enable : BOOLEAN, conf : Nat, sub : {"none", "off", "on"}, wasOff : BOOLEAN]
    /\ mq_allowed \in BOOLEAN /\ mq_connecting \in BOOLEAN
    /\ mq_first \in {"none", "connect", "message", "disconnect"} /\ mq_sent \in Seq(Nat)
    /\ mq_n \in 0..MaxMqttRecords /\ mq_changes \in 0..MaxMqttChanges /\ mq_failures \in 0..MaxMqttFailures
    /\ mq_done \subseteq 1..mq_n

\* The client implements the queue that MtpQueue promises to the data model thread: errors, retries,
\* new parameters and reconnections lose no message, and messages are published in order.
MqttQueue == INSTANCE MtpQueue WITH
    Records <- 1..MaxMqttRecords,
    open <- mq.used,
    up <- mq.state = "Running",
    offered <- mq_done \cup Messages(mq.queue),
    held <- Messages(mq.queue),
    begun <- FALSE,
    sent <- IF mq.state = "Running" THEN mq_sent ELSE <<>>
MqttKeepsQueue == MqttQueue!QSpec

\* On every connection a controller gets the USP connect record before any other record,
\* whatever was queued before and however often the handshake was tried.
MqttConnectFirst == mq_first \in {"none", "connect"}

\* A client that stays enabled and has come to rest, with no reconnection scheduled, uses
\* the parameters of the data model, also when they changed during the connect, an error, a
\* retry or the reconnection that an earlier change caused.
MqttParamsCurrent ==
    mq.used /\ mq.state = "Running" /\ mq_dm.enable /\ ~mq_dm.wasOff /\ mq.reconnect = "Off" => mq.conn = mq_dm.conf

\* Once the broker has answered everything, it has the subscription of the data model.
MqttSubscribed ==
    mq.used /\ mq.state = "Running" /\ mq.acks = {} /\ mq_failures = 0 =>
        (mq_dm.sub = "on" /\ mq.sub.inst => User \in mq.broker)

\* A client without a slot holds nothing; a CONNACK is only awaited before the connection runs; a topic
\* has at most one SUBSCRIBE or UNSUBSCRIBE outstanding that its answers are matched with.
ClientSane(c) ==
    /\ ~c.used => c.state = "Idle" /\ c.queue = {}
    /\ c.connack => c.state \notin {"Running", "SendingConnect"}
    /\ ~("sub_user" \in c.acks /\ "unsub_user" \in c.acks)

\* A client that keeps its connection or will make the next one, with its next parameters.
StaysConnected(c) ==
    /\ c.used /\ c.close = "Off"
    /\ c.state = "AwaitingDisconnect" => c.isReconnect
    /\ c.reconnect = "Off" => c.conn = c.next

\* The broker has the topic, or the request that will bring it there is on its way.
TopicComes(c) ==
    c.used /\ c.sub.inst =>
        /\ c.sub.enabled
        /\ c.state = "Running" => \/ "sub_user" \in c.acks
                                  \/ "unsub_user" \in c.acks /\ c.sub.st = "Resubscribing"
                                  \/ "unsub_user" \notin c.acks /\ User \in c.broker

\* The inductive invariant: what the client, the data model and the records published so far have to do
\* with each other between two steps.
MqttIndInv ==
    /\ MqttTypeOK /\ ClientSane(mq)
    /\ \A r \in mq.queue : r.no <= mq_n
    /\ mq_connecting => mq.used /\ mq.state = "SendingConnect"
    /\ mq.connack \/ mq.state = "SendingConnect" => mq_first = "none" /\ mq_sent = <<>>
    /\ mq.state = "Running" /\ mq_first = "none" => ConnectRecord \in mq.queue
    /\ ~mq_dm.enable /\ ~mq_dm.wasOff => ~mq.used
    /\ mq_dm.enable /\ ~mq_dm.wasOff => StaysConnected(mq) /\ mq.next = mq_dm.conf
    /\ mq_failures = 0 /\ mq_dm.sub = "on" => TopicComes(mq)
    /\ MqttConnectFirst

\* What a controller and the broker see of a connection: the connect record first, the parameters and
\* the subscription that the data model holds (mqtt.c:2003, :2145, :3020).
MqttInv == MqttTypeOK /\ MqttConnectFirst /\ MqttParamsCurrent /\ MqttSubscribed
=============================================================================
