----------------------------- MODULE MqttProofs -----------------------------
(***************************************************************************)
(* An MQTT client keeps the promises of Mqtt for any number of records,    *)
(* changes and failures: its send queue implements MtpQueue, a connection  *)
(* starts with the connect record, and the parameters and the subscription *)
(* in use are those of the data model.                                     *)
(*                                                                         *)
(* Every handler is an operator on the client's record.  Follows says what *)
(* all of them have in common; it is transitive, so a pass of the MTP      *)
(* thread, which calls several, is put together from one lemma for each.   *)
(***************************************************************************)
EXTENDS Mqtt, TLAPS

Follows(c, d) ==
    /\ d \in MqttClient /\ ClientSane(d)
    /\ d.used => c.used /\ d.next = c.next /\ Messages(d.queue) = Messages(c.queue)
    /\ d.queue \subseteq c.queue \cup {ConnectRecord}
    /\ d.connack => c.connack
    /\ d.state = "Running" => \/ c.state = "Running" /\ d.queue = c.queue
                              \/ c.connack /\ ConnectRecord \in d.queue
    /\ StaysConnected(c) => StaysConnected(d)

\* The subscription is not forgotten.
KeepsTopic(c, d) == TopicComes(c) => TopicComes(d)

\* A pass is a sequence of handlers.
LEMMA FollowsTransitive ==
    ASSUME NEW c, NEW d, NEW e, Follows(c, d), Follows(d, e)
    PROVE Follows(c, e)
BY DEF Follows

\* EnableMqttClient takes a client that has a slot to a connection with its next parameters, or to a
\* retry if it may not connect yet.
LEMMA EnableGives ==
    ASSUME NEW c \in MqttClient, ClientSane(c), c.used
    PROVE LET d == EnableMqttClient(TakeNext(c)) IN
          /\ d \in MqttClient /\ ClientSane(d) /\ StaysConnected(d)
          /\ d.used /\ d.next = c.next /\ d.queue = c.queue /\ d.sub = c.sub
          /\ d.connack => c.connack
          /\ d.state \in {"SendingConnect", "ErrorRetrying"}
<1> DEFINE d == EnableMqttClient(TakeNext(c))
<1>1. d \in MqttClient
  BY ZenonT(60) DEF EnableMqttClient, TakeNext, EnableMosquitto, MqttClient, MqttState, MqttAction, SubState
<1>2. /\ d.used = c.used /\ d.next = c.next /\ d.queue = c.queue /\ d.close = "Off" /\ d.conn = c.next
      /\ d.sub = c.sub
  BY DEF EnableMqttClient, TakeNext, EnableMosquitto, MqttClient
<1>3. /\ d.state = IF mq_allowed THEN "SendingConnect" ELSE "ErrorRetrying"
      /\ d.connack = IF mq_allowed THEN FALSE ELSE c.connack
      /\ d.acks = IF mq_allowed THEN {} ELSE c.acks
  BY DEF EnableMqttClient, TakeNext, EnableMosquitto, MqttClient
<1> HIDE DEF d
<1>4. ClientSane(d)
  BY <1>2, <1>3 DEF ClientSane
<1>5. StaysConnected(d)
  BY <1>2, <1>3 DEF StaysConnected
<1> QED
  BY <1>1, <1>2, <1>3, <1>4, <1>5 DEF d

LEMMA EnableFollows ==
    ASSUME NEW c \in MqttClient, ClientSane(c), c.used
    PROVE /\ Follows(c, EnableMqttClient(TakeNext(c)))
          /\ KeepsTopic(c, EnableMqttClient(TakeNext(c)))
BY EnableGives DEF Follows, KeepsTopic, TopicComes

\* CleanMqttClient frees the slot, unless it is about to be used again.
LEMMA CleanGives ==
    ASSUME NEW c \in MqttClient, ClientSane(c), c.used, NEW b \in BOOLEAN
    PROVE LET d == CleanMqttClient(c, b) IN
          /\ d \in MqttClient /\ ClientSane(d)
          /\ d.used = b
          /\ b => d.next = c.next /\ d.queue = c.queue
          /\ ~b => d.queue = {}
          /\ d.connack = c.connack /\ d.sub = c.sub /\ d.state = "Idle"
<1> DEFINE d == CleanMqttClient(c, b)
<1>1. d \in MqttClient
  BY DEF CleanMqttClient, MqttClient, MqttState, MqttAction, SubState
<1>2. /\ d.used = b /\ d.state = "Idle" /\ d.connack = c.connack /\ d.sub = c.sub /\ d.acks = c.acks
      /\ b => d.next = c.next /\ d.queue = c.queue
      /\ ~b => d.queue = {}
  BY DEF CleanMqttClient, MqttClient
<1> HIDE DEF d
<1> QED
  BY <1>1, <1>2 DEF ClientSane, d

\* The disconnection of a client that is to be reconnected does not close it.
LEMMA AfterDisconnectFollows ==
    ASSUME NEW c \in MqttClient, ClientSane(c), c.used, c.state = "AwaitingDisconnect"
    PROVE /\ Follows(c, HandleMqttReconnectAfterDisconnect(c))
          /\ KeepsTopic(c, HandleMqttReconnectAfterDisconnect(c))
          /\ c.isReconnect => HandleMqttReconnectAfterDisconnect(c).used
<1>1. CASE c.isReconnect
  <2> DEFINE k == CleanMqttClient(c, TRUE)
             e == [k EXCEPT !.isReconnect = FALSE]
             d == EnableMqttClient(TakeNext(e))
  <2>1. /\ k \in MqttClient /\ ClientSane(k) /\ k.used /\ k.next = c.next /\ k.queue = c.queue
        /\ k.connack = c.connack /\ k.sub = c.sub
    BY CleanGives
  <2>2. /\ e \in MqttClient /\ e.used = k.used /\ e.next = k.next /\ e.queue = k.queue /\ e.connack = k.connack
        /\ e.sub = k.sub /\ e.state = k.state /\ e.acks = k.acks
    <3> HIDE DEF k
    <3> QED BY <2>1 DEF MqttClient
  <2>3. ClientSane(e)
    <3> HIDE DEF k, e
    <3> QED BY <2>1, <2>2 DEF ClientSane
  <2>4. HandleMqttReconnectAfterDisconnect(c) = d
    BY <1>1 DEF HandleMqttReconnectAfterDisconnect
  <2> HIDE DEF k, e
  <2>5. /\ d \in MqttClient /\ ClientSane(d) /\ StaysConnected(d)
        /\ d.used /\ d.next = e.next /\ d.queue = e.queue /\ d.sub = e.sub
        /\ d.connack => e.connack
        /\ d.state \in {"SendingConnect", "ErrorRetrying"}
    BY <2>1, <2>2, <2>3, EnableGives
  <2> HIDE DEF d
  <2> QED
    BY <2>1, <2>2, <2>4, <2>5 DEF Follows, KeepsTopic, TopicComes
<1>2. CASE ~c.isReconnect
  <2> DEFINE d == CleanMqttClient(c, FALSE)
  <2>1. HandleMqttReconnectAfterDisconnect(c) = d
    BY <1>2 DEF HandleMqttReconnectAfterDisconnect
  <2>2. /\ d \in MqttClient /\ ClientSane(d) /\ ~d.used /\ d.queue = {}
        /\ d.connack = c.connack /\ d.sub = c.sub /\ d.state = "Idle"
    BY CleanGives
  <2>3. ~StaysConnected(c)
    BY <1>2 DEF StaysConnected
  <2> HIDE DEF d
  <2> QED
    BY <1>2, <2>1, <2>2, <2>3 DEF Follows, KeepsTopic, TopicComes
<1> QED
  BY <1>1, <1>2 DEF MqttClient

\* An error leads to a retry with the next parameters; a client that was being reconnected goes on.
LEMMA ErrorFollows ==
    ASSUME NEW c \in MqttClient, ClientSane(c), c.used
    PROVE /\ Follows(c, HandleMqttError(c))
          /\ KeepsTopic(c, HandleMqttError(c))
          /\ HandleMqttError(c).used
<1>1. CASE c.state = "AwaitingDisconnect" /\ c.isReconnect
  BY <1>1, AfterDisconnectFollows DEF HandleMqttError
<1>2. CASE ~(c.state = "AwaitingDisconnect" /\ c.isReconnect)
  <2> DEFINE d == HandleMqttError(c)
  <2>1. d \in MqttClient
    BY <1>2 DEF HandleMqttError, TakeNext, DisconnectClient, MqttClient, MqttState
  <2>2. /\ d.used = c.used /\ d.next = c.next /\ d.conn = c.next /\ d.queue = c.queue /\ d.sub = c.sub
        /\ d.connack = c.connack /\ d.acks = c.acks /\ d.close = c.close /\ d.state = "ErrorRetrying"
    BY <1>2 DEF HandleMqttError, TakeNext, DisconnectClient, MqttClient
  <2> HIDE DEF d
  <2>3. ClientSane(d)
    BY <2>2 DEF ClientSane
  <2>4. StaysConnected(c) => StaysConnected(d)
    BY <2>2 DEF StaysConnected
  <2>5. KeepsTopic(c, d)
    BY <2>2 DEF KeepsTopic, TopicComes
  <2> QED
    BY <2>1, <2>2, <2>3, <2>4, <2>5 DEF Follows, d
<1> QED
  BY <1>1, <1>2

-----------------------------------------------------------------------------
(* The callbacks of libmosquitto.                                          *)

\* A step that leaves alone what Follows is about.
LEMMA SameFollows ==
    ASSUME NEW c \in MqttClient, ClientSane(c), NEW d \in MqttClient,
           d.used = c.used, d.next = c.next, d.conn = c.conn, d.queue = c.queue, d.state = c.state,
           d.connack => c.connack, d.close = c.close, d.reconnect = c.reconnect,
           c.isReconnect => d.isReconnect,
           ~("sub_user" \in d.acks /\ "unsub_user" \in d.acks)
    PROVE Follows(c, d)
<1>1. ClientSane(d)
  BY DEF ClientSane
<1>2. StaysConnected(c) => StaysConnected(d)
  BY DEF StaysConnected
<1> QED
  BY <1>1, <1>2 DEF Follows

\* Subscribe and Unsubscribe: what is outstanding for the user's topic afterwards.
LEMMA SubscribeUserGives ==
    ASSUME NEW c \in MqttClient
    PROVE LET d == SubscribeUser(c) IN
          /\ d \in MqttClient
          /\ d.used = c.used /\ d.next = c.next /\ d.conn = c.conn /\ d.queue = c.queue /\ d.state = c.state
          /\ d.connack = c.connack /\ d.close = c.close /\ d.reconnect = c.reconnect
          /\ d.isReconnect = c.isReconnect /\ d.broker = c.broker
          /\ d.sub.inst = c.sub.inst /\ d.sub.enabled = c.sub.enabled
          /\ "sub_user" \in d.acks /\ "unsub_user" \notin d.acks
<1> DEFINE d == SubscribeUser(c)
<1>1. c.sub \in MqttSub
  BY DEF MqttClient
<1>2. d.sub = [c.sub EXCEPT !.st = "Subscribing"]
  BY DEF MqttClient, SubscribeUser
<1>3. d.sub \in MqttSub /\ d.sub.inst = c.sub.inst /\ d.sub.enabled = c.sub.enabled /\ d.sub.st = "Subscribing"
  BY <1>1, <1>2 DEF MqttSub, SubState
<1>4. d.acks \subseteq MqttAck /\ "sub_user" \in d.acks /\ "unsub_user" \notin d.acks
  BY DEF MqttClient, MqttAck, SubscribeUser
<1>5. /\ d.used = c.used /\ d.next = c.next /\ d.conn = c.conn /\ d.queue = c.queue /\ d.state = c.state
      /\ d.connack = c.connack /\ d.close = c.close /\ d.reconnect = c.reconnect
      /\ d.isReconnect = c.isReconnect /\ d.broker = c.broker
  BY DEF MqttClient, SubscribeUser
<1>6. d \in MqttClient
  <2>1. d = [c EXCEPT !.sub = d.sub, !.acks = d.acks]
    BY <1>2 DEF MqttClient, SubscribeUser
  <2> HIDE DEF d
  <2> QED
    BY <1>3, <1>4, <2>1 DEF MqttClient
<1> HIDE DEF d
<1> QED
  BY <1>3, <1>4, <1>5, <1>6 DEF d

LEMMA UnsubscribeUserGives ==
    ASSUME NEW c \in MqttClient, NEW st \in SubState
    PROVE LET d == UnsubscribeUser(c, st) IN
          /\ d \in MqttClient
          /\ d.used = c.used /\ d.next = c.next /\ d.conn = c.conn /\ d.queue = c.queue /\ d.state = c.state
          /\ d.connack = c.connack /\ d.close = c.close /\ d.reconnect = c.reconnect
          /\ d.isReconnect = c.isReconnect /\ d.broker = c.broker
          /\ d.sub.inst = c.sub.inst /\ d.sub.enabled = c.sub.enabled /\ d.sub.st = st
          /\ "unsub_user" \in d.acks /\ "sub_user" \notin d.acks
<1> DEFINE d == UnsubscribeUser(c, st)
<1>1. c.sub \in MqttSub
  BY DEF MqttClient
<1>2. d.sub = [c.sub EXCEPT !.st = st]
  BY DEF MqttClient, UnsubscribeUser
<1>3. d.sub \in MqttSub /\ d.sub.inst = c.sub.inst /\ d.sub.enabled = c.sub.enabled /\ d.sub.st = st
  BY <1>1, <1>2 DEF MqttSub, SubState
<1>4. d.acks \subseteq MqttAck /\ "unsub_user" \in d.acks /\ "sub_user" \notin d.acks
  BY DEF MqttClient, MqttAck, UnsubscribeUser
<1>5. /\ d.used = c.used /\ d.next = c.next /\ d.conn = c.conn /\ d.queue = c.queue /\ d.state = c.state
      /\ d.connack = c.connack /\ d.close = c.close /\ d.reconnect = c.reconnect
      /\ d.isReconnect = c.isReconnect /\ d.broker = c.broker
  BY DEF MqttClient, UnsubscribeUser
<1>6. d \in MqttClient
  <2>1. d = [c EXCEPT !.sub = d.sub, !.acks = d.acks]
    BY <1>2 DEF MqttClient, UnsubscribeUser
  <2> HIDE DEF d
  <2> QED
    BY <1>3, <1>4, <2>1 DEF MqttClient
<1> HIDE DEF d
<1> QED
  BY <1>3, <1>4, <1>5, <1>6 DEF d

\* The connection is accepted: the topics are subscribed to and the connect record goes in front.
LEMMA AcceptedFollows ==
    ASSUME NEW c \in MqttClient, ClientSane(c), c.used, ~c.connack, NEW b \in MqttClient, b.connack,
           b.used, c = [b EXCEPT !.connack = FALSE], b.state \in {"AwaitingConnect", "ErrorRetrying"}
    PROVE LET d == QueueUspMqttConnectRecords(SubscribeToAll([c EXCEPT !.state = "Running"])) IN
          Follows(b, d) /\ KeepsTopic(b, d) /\ d.used
<1> DEFINE r == [c EXCEPT !.state = "Running"]
           a == SubscribeToAll(r)
           d == QueueUspMqttConnectRecords(a)
<1>1. /\ r \in MqttClient /\ r.state = "Running"
      /\ r.used = b.used /\ r.next = b.next /\ r.conn = b.conn /\ r.queue = b.queue /\ ~r.connack
      /\ r.close = b.close /\ r.reconnect = b.reconnect /\ r.sub = b.sub /\ r.acks = c.acks
  BY DEF MqttClient, MqttState
<1> HIDE DEF r
<1> DEFINE g == SubscribeAgent(r)
<1>2. /\ g \in MqttClient
      /\ g.state = "Running" /\ g.used = r.used /\ g.next = r.next /\ g.conn = r.conn /\ g.queue = r.queue
      /\ g.connack = r.connack /\ g.close = r.close /\ g.reconnect = r.reconnect /\ g.sub = r.sub
      /\ g.acks = r.acks \cup {"sub_agent"}
  BY <1>1 DEF SubscribeAgent, MqttClient, SubState, MqttAck
<1> HIDE DEF g
<1>3. /\ a \in MqttClient
      /\ a.state = "Running" /\ a.used = r.used /\ a.next = r.next /\ a.conn = r.conn /\ a.queue = r.queue
      /\ a.connack = r.connack /\ a.close = r.close /\ a.reconnect = r.reconnect
      /\ a.sub.inst = r.sub.inst /\ a.sub.enabled = r.sub.enabled
      /\ r.sub.enabled => "sub_user" \in a.acks /\ "unsub_user" \notin a.acks
      /\ ~r.sub.enabled => a.acks = r.acks \cup {"sub_agent"}
  <2>1. a = IF r.sub.enabled THEN SubscribeUser(g) ELSE g
    BY DEF SubscribeToAll, g
  <2> HIDE DEF a
  <2>2. CASE r.sub.enabled
    <3> DEFINE u == SubscribeUser(g)
    <3>1. /\ u \in MqttClient
          /\ u.used = g.used /\ u.next = g.next /\ u.conn = g.conn /\ u.queue = g.queue /\ u.state = g.state
          /\ u.connack = g.connack /\ u.close = g.close /\ u.reconnect = g.reconnect
          /\ u.sub.inst = g.sub.inst /\ u.sub.enabled = g.sub.enabled
          /\ "sub_user" \in u.acks /\ "unsub_user" \notin u.acks
      BY <1>2, SubscribeUserGives
    <3> HIDE DEF u
    <3>2. a = u
      BY <2>1, <2>2 DEF u
    <3> QED
      BY <1>2, <2>2, <3>1, <3>2
  <2>3. CASE ~r.sub.enabled
    BY <1>2, <2>1, <2>3
  <2> QED
    BY <2>2, <2>3
<1> HIDE DEF a
<1>4. d \in MqttClient
  BY <1>3 DEF QueueUspMqttConnectRecords, MqttClient, MqttRecord
<1>5. /\ d.state = a.state /\ d.used = a.used /\ d.next = a.next /\ d.conn = a.conn /\ d.connack = a.connack
      /\ d.close = a.close /\ d.reconnect = a.reconnect /\ d.sub = a.sub /\ d.acks = a.acks
      /\ d.queue = {ConnectRecord} \cup {x \in a.queue : x.kind = "message"}
  BY <1>3 DEF QueueUspMqttConnectRecords, MqttClient
<1> HIDE DEF d
<1>6. Messages(d.queue) = Messages(b.queue)
  BY <1>1, <1>3, <1>5 DEF Messages, QueuedRecord, ConnectRecord
<1>7. ClientSane(d)
  BY <1>1, <1>3, <1>5 DEF ClientSane
<1>8. StaysConnected(b) => StaysConnected(d)
  BY <1>1, <1>3, <1>5 DEF StaysConnected
<1>9. KeepsTopic(b, d)
  BY <1>1, <1>3, <1>5 DEF KeepsTopic, TopicComes
<1> QED
  BY <1>1, <1>3, <1>4, <1>5, <1>6, <1>7, <1>8, <1>9 DEF Follows, d, a, r

LEMMA ConnectCallbackFollows ==
    ASSUME NEW c \in MqttClient, ClientSane(c), c.used, c.connack, NEW ok \in BOOLEAN, NEW v5 \in BOOLEAN
    PROVE /\ Follows(c, ConnectCallback(c, ok, v5))
          /\ KeepsTopic(c, ConnectCallback(c, ok, v5))
          /\ ConnectCallback(c, ok, v5).used
<1> DEFINE d == [c EXCEPT !.connack = FALSE]
<1>1. /\ d \in MqttClient /\ ~d.connack /\ d.used
      /\ d.next = c.next /\ d.conn = c.conn /\ d.queue = c.queue /\ d.state = c.state /\ d.close = c.close
      /\ d.reconnect = c.reconnect /\ d.isReconnect = c.isReconnect /\ d.acks = c.acks /\ d.sub = c.sub
      /\ d.broker = c.broker
  BY DEF MqttClient
<1>2. ClientSane(d) /\ Follows(c, d) /\ KeepsTopic(c, d)
  <2> HIDE DEF d
  <2>1. ClientSane(d)
    BY <1>1 DEF ClientSane
  <2>2. Follows(c, d)
    BY <1>1, SameFollows DEF ClientSane
  <2> QED
    BY <1>1, <2>1, <2>2 DEF KeepsTopic, TopicComes
<1>3. Follows(c, HandleMqttError(d)) /\ KeepsTopic(c, HandleMqttError(d)) /\ HandleMqttError(d).used
  <2> HIDE DEF d
  <2> QED BY <1>1, <1>2, ErrorFollows, FollowsTransitive DEF KeepsTopic
<1>4. CASE c.state \notin {"AwaitingConnect", "ErrorRetrying"}
  BY <1>1, <1>2, <1>3, <1>4 DEF ConnectCallback
<1>5. CASE c.state \in {"AwaitingConnect", "ErrorRetrying"} /\ ~ok
  BY <1>3, <1>5 DEF ConnectCallback
<1>6. CASE c.state \in {"AwaitingConnect", "ErrorRetrying"} /\ ok
  <2>1. ConnectCallback(c, ok, v5) = QueueUspMqttConnectRecords(SubscribeToAll([d EXCEPT !.state = "Running"]))
    BY <1>6 DEF ConnectCallback
  <2> QED
    BY <1>1, <1>2, <1>6, <2>1, AcceptedFollows
<1> QED
  BY <1>4, <1>5, <1>6

\* An answer of the broker to a SUBSCRIBE.  What it refuses is lost until the client reconnects.
LEMMA SubscribeCallbackFollows ==
    ASSUME NEW c \in MqttClient, ClientSane(c), c.used, NEW ok \in BOOLEAN,
           NEW a \in c.acks \cap {"sub_agent", "sub_user"}
    PROVE /\ Follows(c, SubscribeCallback(c, a, ok))
          /\ ok => KeepsTopic(c, SubscribeCallback(c, a, ok))
          /\ SubscribeCallback(c, a, ok).used
<1> DEFINE agent == a = "sub_agent"
           st == IF ok THEN "Subscribed" ELSE "Failed"
           d == IF agent
                THEN [c EXCEPT !.acks = @ \ {a}, !.response = st, !.broker = IF ok THEN @ \cup {Agent} ELSE @]
                ELSE [c EXCEPT !.acks = @ \ {a}, !.sub.st = st, !.broker = IF ok THEN @ \cup {User} ELSE @]
           e == [d EXCEPT !.isSubscribed = TRUE]
<1>1. st \in SubState
  BY DEF SubState
<1>2. SubscribeCallback(c, a, ok) = IF ok THEN e ELSE IF AllSubscriptionsFailed(d) THEN HandleMqttError(d) ELSE d
  BY DEF SubscribeCallback
<1> HIDE DEF st
<1>3. c.sub \in MqttSub
  BY DEF MqttClient
<1>4. /\ d.used = c.used /\ d.next = c.next /\ d.conn = c.conn /\ d.queue = c.queue /\ d.state = c.state
      /\ d.connack = c.connack /\ d.close = c.close /\ d.reconnect = c.reconnect
      /\ d.isReconnect = c.isReconnect /\ d.acks = c.acks \ {a}
  BY DEF MqttClient
<1>5. c.broker \subseteq d.broker /\ (ok /\ ~agent => User \in d.broker)
  BY DEF MqttClient
<1>6. /\ d \in MqttClient
      /\ d.sub.inst = c.sub.inst /\ d.sub.enabled = c.sub.enabled /\ (agent => d.sub.st = c.sub.st)
  <2>1. CASE agent
    BY <1>1, <2>1 DEF MqttClient
  <2>2. CASE ~agent
    <3>1. d.sub = [c.sub EXCEPT !.st = st]
      BY <2>2 DEF MqttClient
    <3>2. d.sub \in MqttSub /\ d.sub.inst = c.sub.inst /\ d.sub.enabled = c.sub.enabled
      BY <1>1, <1>3, <3>1 DEF MqttSub
    <3>3. d.broker \subseteq {Agent, User} /\ d.acks \subseteq MqttAck
      BY <1>4, <2>2 DEF MqttClient
    <3>4. d = [c EXCEPT !.acks = d.acks, !.sub = d.sub, !.broker = d.broker]
      BY <2>2, <3>1 DEF MqttClient
    <3> HIDE DEF d
    <3>5. d \in MqttClient
      BY <3>2, <3>3, <3>4 DEF MqttClient
    <3> QED
      BY <2>2, <3>2, <3>5
  <2> QED
    BY <2>1, <2>2
<1> HIDE DEF d
<1>7. ClientSane(d) /\ Follows(c, d)
  <2>1. ~("sub_user" \in d.acks /\ "unsub_user" \in d.acks)
    BY <1>4 DEF ClientSane
  <2> QED
    BY <1>4, <1>6, <2>1, SameFollows DEF Follows
<1>8. CASE ok
  <2>1. /\ e \in MqttClient
        /\ e.used = d.used /\ e.next = d.next /\ e.conn = d.conn /\ e.queue = d.queue /\ e.state = d.state
        /\ e.connack = d.connack /\ e.close = d.close /\ e.reconnect = d.reconnect
        /\ e.isReconnect = d.isReconnect /\ e.acks = d.acks /\ e.sub = d.sub /\ e.broker = d.broker
    BY <1>6 DEF MqttClient
  <2> HIDE DEF e
  <2>2. Follows(c, e)
    <3>1. ~("sub_user" \in e.acks /\ "unsub_user" \in e.acks)
      BY <1>4, <2>1 DEF ClientSane
    <3>2. Follows(d, e)
      BY <1>6, <1>7, <2>1, <3>1, SameFollows
    <3> QED
      BY <1>7, <3>2, FollowsTransitive
  <2>3. KeepsTopic(c, e)
    <3>1. CASE agent
      BY <1>4, <1>5, <1>6, <2>1, <3>1 DEF KeepsTopic, TopicComes
    <3>2. CASE ~agent
      <4>1. a = "sub_user" /\ "unsub_user" \notin c.acks
        BY <3>2 DEF ClientSane
      <4> QED
        BY <1>4, <1>5, <1>6, <1>8, <2>1, <3>2, <4>1 DEF KeepsTopic, TopicComes
    <3> QED
      BY <3>1, <3>2
  <2> QED
    BY <1>2, <1>4, <1>8, <2>1, <2>2, <2>3
<1>9. CASE ~ok
  <2>1. Follows(c, HandleMqttError(d)) /\ HandleMqttError(d).used
    BY <1>4, <1>6, <1>7, ErrorFollows, FollowsTransitive
  <2> QED
    BY <1>2, <1>4, <1>7, <1>9, <2>1
<1> QED
  BY <1>8, <1>9

\* The answer to an UNSUBSCRIBE; a topic that has changed is subscribed to again.
LEMMA UnsubscribeCallbackFollows ==
    ASSUME NEW c \in MqttClient, ClientSane(c), c.used, "unsub_user" \in c.acks
    PROVE /\ Follows(c, UnsubscribeCallback(c))
          /\ KeepsTopic(c, UnsubscribeCallback(c))
          /\ UnsubscribeCallback(c).used
<1> DEFINE d == [c EXCEPT !.acks = @ \ {"unsub_user"}, !.broker = @ \ {User}]
           u == [d EXCEPT !.sub.st = "Unsubscribed"]
           s == SubscribeUser(d)
<1>1. /\ d \in MqttClient
      /\ d.used = c.used /\ d.next = c.next /\ d.conn = c.conn /\ d.queue = c.queue /\ d.state = c.state
      /\ d.connack = c.connack /\ d.close = c.close /\ d.reconnect = c.reconnect
      /\ d.isReconnect = c.isReconnect /\ d.acks = c.acks \ {"unsub_user"} /\ d.sub = c.sub
  BY DEF MqttClient
<1>2. UnsubscribeCallback(c) = IF c.sub.st = "Unsubscribing" THEN u ELSE IF c.sub.st = "Resubscribing" THEN s ELSE d
  BY DEF UnsubscribeCallback
<1> HIDE DEF d
<1>3. "sub_user" \notin c.acks
  BY DEF ClientSane
<1>4. TopicComes(c) /\ c.sub.inst /\ c.state = "Running" => c.sub.st = "Resubscribing"
  BY <1>3 DEF TopicComes
<1>5. Follows(c, d) /\ (c.sub.st # "Resubscribing" => KeepsTopic(c, d))
  <2>1. Follows(c, d)
    BY <1>1, <1>3, SameFollows
  <2> QED
    BY <1>1, <1>4, <2>1 DEF KeepsTopic, TopicComes
<1>6. CASE c.sub.st = "Unsubscribing"
  <2>1. d.sub \in MqttSub
    BY <1>1 DEF MqttClient
  <2>2. u.sub = [d.sub EXCEPT !.st = "Unsubscribed"]
    BY <1>1 DEF MqttClient
  <2>3. u.sub \in MqttSub /\ u.sub.inst = d.sub.inst /\ u.sub.enabled = d.sub.enabled
    BY <2>1, <2>2 DEF MqttSub, SubState
  <2>4. /\ u.used = d.used /\ u.next = d.next /\ u.conn = d.conn /\ u.queue = d.queue /\ u.state = d.state
        /\ u.connack = d.connack /\ u.close = d.close /\ u.reconnect = d.reconnect
        /\ u.isReconnect = d.isReconnect /\ u.acks = d.acks
    BY <1>1 DEF MqttClient
  <2>5. u = [d EXCEPT !.sub = u.sub]
    BY <1>1, <2>2 DEF MqttClient
  <2> HIDE DEF u
  <2>6. u \in MqttClient
    BY <1>1, <2>3, <2>5 DEF MqttClient
  <2>7. Follows(c, u)
    <3>1. ClientSane(d)
      BY <1>5 DEF Follows
    <3>2. ~("sub_user" \in u.acks /\ "unsub_user" \in u.acks)
      BY <1>1, <1>3, <2>4
    <3>3. Follows(d, u)
      BY <1>1, <2>4, <2>6, <3>1, <3>2, SameFollows
    <3> QED
      BY <1>5, <3>3, FollowsTransitive
  <2>8. KeepsTopic(c, u)
    BY <1>1, <1>4, <1>6, <2>3, <2>4 DEF KeepsTopic, TopicComes
  <2> QED
    BY <1>1, <1>2, <1>6, <2>4, <2>7, <2>8
<1>7. CASE c.sub.st = "Resubscribing"
  <2>1. /\ s \in MqttClient
        /\ s.used = d.used /\ s.next = d.next /\ s.conn = d.conn /\ s.queue = d.queue /\ s.state = d.state
        /\ s.connack = d.connack /\ s.close = d.close /\ s.reconnect = d.reconnect
        /\ s.isReconnect = d.isReconnect
        /\ s.sub.inst = d.sub.inst /\ s.sub.enabled = d.sub.enabled
        /\ "sub_user" \in s.acks /\ "unsub_user" \notin s.acks
    BY <1>1, SubscribeUserGives
  <2> HIDE DEF s
  <2>2. Follows(c, s)
    BY <1>1, <2>1, SameFollows, ZenonT(60)
  <2>3. KeepsTopic(c, s)
    BY <1>1, <2>1 DEF KeepsTopic, TopicComes
  <2> QED
    BY <1>1, <1>2, <1>7, <2>1, <2>2, <2>3
<1>8. CASE c.sub.st \notin {"Unsubscribing", "Resubscribing"}
  BY <1>1, <1>2, <1>5, <1>8
<1> QED
  BY <1>6, <1>7, <1>8

\* A disconnect record is out.
LEMMA PublishCallbackFollows ==
    ASSUME NEW c \in MqttClient, ClientSane(c), c.used
    PROVE /\ Follows(c, PublishCallback(c))
          /\ KeepsTopic(c, PublishCallback(c))
          /\ PublishCallback(c).used
<1> DEFINE d == [c EXCEPT !.acks = @ \ {"published"}]
<1>1. /\ d \in MqttClient
      /\ d.used = c.used /\ d.next = c.next /\ d.conn = c.conn /\ d.queue = c.queue /\ d.state = c.state
      /\ d.connack = c.connack /\ d.close = c.close /\ d.reconnect = c.reconnect
      /\ d.isReconnect = c.isReconnect /\ d.acks = c.acks \ {"published"} /\ d.sub = c.sub /\ d.broker = c.broker
  BY DEF MqttClient
<1>2. PublishCallback(c) = HandleMqttError(d)
  BY DEF PublishCallback
<1> HIDE DEF d
<1>3. ~("sub_user" \in d.acks /\ "unsub_user" \in d.acks)
  BY <1>1 DEF ClientSane
<1>4. Follows(c, d) /\ ClientSane(d)
  BY <1>1, <1>3, SameFollows DEF Follows
<1>5. KeepsTopic(c, d)
  BY <1>1 DEF KeepsTopic, TopicComes
<1>6. Follows(d, HandleMqttError(d)) /\ KeepsTopic(d, HandleMqttError(d)) /\ HandleMqttError(d).used
  BY <1>1, <1>4, ErrorFollows
<1> QED
  BY <1>2, <1>4, <1>5, <1>6, FollowsTransitive DEF KeepsTopic

\* libmosquitto has closed the socket.
LEMMA ClosedFollows ==
    ASSUME NEW c \in MqttClient, ClientSane(c), c.used
    PROVE /\ Follows(c, Closed(c)) /\ Closed(c).used
          /\ c.state # "Running" => KeepsTopic(c, Closed(c))
<1> DEFINE d == Closed(c)
<1>1. /\ d \in MqttClient
      /\ d.used = c.used /\ d.next = c.next /\ d.conn = c.conn /\ d.queue = c.queue /\ d.state = c.state
      /\ ~d.connack /\ d.close = c.close /\ d.reconnect = c.reconnect
      /\ d.isReconnect = c.isReconnect /\ d.acks = {} /\ d.sub = c.sub
  BY DEF MqttClient, Closed
<1> HIDE DEF d
<1>2. Follows(c, d)
  BY <1>1, SameFollows
<1>3. c.state # "Running" => KeepsTopic(c, d)
  BY <1>1 DEF KeepsTopic, TopicComes
<1> QED
  BY <1>1, <1>2, <1>3 DEF d

-----------------------------------------------------------------------------
(* The end of a pass.                                                      *)

\* A reconnection that is due.
LEMMA ReconnectFollows ==
    ASSUME NEW c \in MqttClient, ClientSane(c), c.used
    PROVE /\ Follows(c, HandleMqttReconnect(c))
          /\ KeepsTopic(c, HandleMqttReconnect(c))
          /\ HandleMqttReconnect(c).used
<1> DEFINE d == [c EXCEPT !.isReconnect = TRUE]
           e == [d EXCEPT !.state = "AwaitingDisconnect"]
<1>1. /\ d \in MqttClient
      /\ d.used = c.used /\ d.next = c.next /\ d.conn = c.conn /\ d.queue = c.queue /\ d.state = c.state
      /\ d.connack = c.connack /\ d.close = c.close /\ d.reconnect = c.reconnect /\ d.isReconnect
      /\ d.acks = c.acks /\ d.sub = c.sub /\ d.broker = c.broker /\ d.sock = c.sock
  BY DEF MqttClient
<1>2. /\ e \in MqttClient
      /\ e.used = c.used /\ e.next = c.next /\ e.conn = c.conn /\ e.queue = c.queue /\ e.state = "AwaitingDisconnect"
      /\ e.connack = c.connack /\ e.close = c.close /\ e.reconnect = c.reconnect /\ e.isReconnect
      /\ e.acks = c.acks /\ e.sub = c.sub
  BY DEF MqttClient, MqttState
<1>3. \/ c.state \in {"Idle", "ErrorRetrying"} \/ (c.state \notin {"Idle", "ErrorRetrying", "AwaitingDisconnect"} /\ ~c.sock)
      => HandleMqttReconnect(c) = EnableMqttClient(TakeNext(c))
  BY DEF HandleMqttReconnect
<1>4. c.state = "AwaitingDisconnect" => HandleMqttReconnect(c) = d
  BY DEF HandleMqttReconnect
<1>5. c.state \notin {"Idle", "ErrorRetrying", "AwaitingDisconnect"} /\ c.sock => HandleMqttReconnect(c) = e
  BY <1>1 DEF HandleMqttReconnect, DisconnectClient
<1> HIDE DEF d, e
<1>6. Follows(c, d) /\ KeepsTopic(c, d)
  <2>1. ~("sub_user" \in d.acks /\ "unsub_user" \in d.acks)
    BY <1>1 DEF ClientSane
  <2>2. Follows(c, d)
    BY <1>1, <2>1, SameFollows
  <2> QED
    BY <1>1, <2>2 DEF KeepsTopic, TopicComes
<1>7. Follows(c, e) /\ KeepsTopic(c, e)
  <2>1. ClientSane(e)
    BY <1>2 DEF ClientSane
  <2>2. StaysConnected(c) => StaysConnected(e)
    BY <1>2 DEF StaysConnected
  <2> QED
    BY <1>2, <2>1, <2>2 DEF Follows, KeepsTopic, TopicComes
<1> QED
  BY <1>1, <1>2, <1>3, <1>4, <1>5, <1>6, <1>7, EnableFollows, EnableGives

\* A close that is due: a client that is to be closed does not stay connected.
LEMMA CloseFollows ==
    ASSUME NEW c \in MqttClient, ClientSane(c), c.used, c.close = "Activated"
    PROVE /\ Follows(c, HandleMqttClose(c))
          /\ KeepsTopic(c, HandleMqttClose(c))
<1> DEFINE d == [c EXCEPT !.isReconnect = FALSE]
           e == [d EXCEPT !.state = "AwaitingDisconnect"]
           k == CleanMqttClient(c, FALSE)
<1>1. /\ d \in MqttClient
      /\ d.used = c.used /\ d.next = c.next /\ d.queue = c.queue /\ d.state = c.state
      /\ d.connack = c.connack /\ d.acks = c.acks /\ d.sub = c.sub /\ d.broker = c.broker
  BY DEF MqttClient
<1>2. /\ e \in MqttClient
      /\ e.used = c.used /\ e.next = c.next /\ e.queue = c.queue /\ e.state = "AwaitingDisconnect"
      /\ e.connack = c.connack /\ e.acks = c.acks /\ e.sub = c.sub
  BY DEF MqttClient, MqttState
<1>3. HandleMqttClose(c) \in {c, d, e, k}
  BY DEF HandleMqttClose, DisconnectClient
<1>4. ~StaysConnected(c)
  BY DEF StaysConnected
<1>5. /\ k \in MqttClient /\ ClientSane(k) /\ ~k.used /\ k.queue = {} /\ k.connack = c.connack /\ k.state = "Idle"
  BY CleanGives
<1> HIDE DEF d, e, k
<1>6. Follows(c, c) /\ KeepsTopic(c, c)
  BY <1>4 DEF Follows, KeepsTopic
<1>7. Follows(c, d) /\ KeepsTopic(c, d)
  BY <1>1, <1>4 DEF Follows, KeepsTopic, TopicComes, ClientSane
<1>8. Follows(c, e) /\ KeepsTopic(c, e)
  BY <1>2, <1>4 DEF Follows, KeepsTopic, TopicComes, ClientSane
<1>9. Follows(c, k) /\ KeepsTopic(c, k)
  BY <1>5, <1>4 DEF Follows, KeepsTopic, TopicComes
<1> QED
  BY <1>3, <1>6, <1>7, <1>8, <1>9

\* The disconnect callback was called in this pass or before.
LEMMA DisconnectFollows ==
    ASSUME NEW c \in MqttClient, ClientSane(c)
    PROVE /\ Follows(c, HandleMqttDisconnect(c))
          /\ KeepsTopic(c, HandleMqttDisconnect(c))
<1> DEFINE d == [c EXCEPT !.isDisconnected = FALSE]
<1>1. /\ d \in MqttClient
      /\ d.used = c.used /\ d.next = c.next /\ d.conn = c.conn /\ d.queue = c.queue /\ d.state = c.state
      /\ d.connack = c.connack /\ d.close = c.close /\ d.reconnect = c.reconnect /\ d.isReconnect = c.isReconnect
      /\ d.acks = c.acks /\ d.sub = c.sub /\ d.broker = c.broker
  BY DEF MqttClient
<1>2. /\ c.state \in {"ErrorRetrying", "Idle"} => HandleMqttDisconnect(c) = d
      /\ c.state = "AwaitingDisconnect" => HandleMqttDisconnect(c) = HandleMqttReconnectAfterDisconnect(d)
      /\ c.state \notin {"ErrorRetrying", "Idle", "AwaitingDisconnect"} => HandleMqttDisconnect(c) = HandleMqttError(d)
  BY DEF HandleMqttDisconnect
<1> HIDE DEF d
<1>3. Follows(c, d) /\ KeepsTopic(c, d) /\ ClientSane(d)
  <2>1. ~("sub_user" \in d.acks /\ "unsub_user" \in d.acks)
    BY <1>1 DEF ClientSane
  <2>2. Follows(c, d)
    BY <1>1, <2>1, SameFollows
  <2> QED
    BY <1>1, <2>2 DEF KeepsTopic, TopicComes, Follows
<1>4. CASE c.state \in {"ErrorRetrying", "Idle"}
  BY <1>2, <1>3, <1>4
<1>5. CASE c.state \notin {"ErrorRetrying", "Idle"}
  <2>1. d.used
    BY <1>1, <1>5 DEF ClientSane, MqttClient
  <2>2. CASE c.state = "AwaitingDisconnect"
    <3>1. /\ Follows(d, HandleMqttReconnectAfterDisconnect(d))
          /\ KeepsTopic(d, HandleMqttReconnectAfterDisconnect(d))
      BY <1>1, <1>3, <2>1, <2>2, AfterDisconnectFollows
    <3> QED
      BY <1>2, <1>3, <2>2, <3>1, FollowsTransitive DEF KeepsTopic
  <2>3. CASE c.state # "AwaitingDisconnect"
    <3>1. Follows(d, HandleMqttError(d)) /\ KeepsTopic(d, HandleMqttError(d))
      BY <1>1, <1>3, <2>1, ErrorFollows
    <3> QED
      BY <1>2, <1>3, <1>5, <2>3, <3>1, FollowsTransitive DEF KeepsTopic
  <2> QED
    BY <2>2, <2>3
<1> QED
  BY <1>4, <1>5

\* What is scheduled for the end of a pass.
LEMMA FinishedFollows ==
    ASSUME NEW c \in MqttClient, ClientSane(c), c.used
    PROVE /\ Follows(c, Finished(c))
          /\ KeepsTopic(c, Finished(c))
<1> DEFINE r == IF c.reconnect = "Activated" /\ c.queue = {} THEN HandleMqttReconnect(c) ELSE c
           k == IF r.close = "Activated" THEN HandleMqttClose(r) ELSE r
           d == IF k.isDisconnected THEN HandleMqttDisconnect(k) ELSE k
<1>0. Follows(c, c) /\ KeepsTopic(c, c)
  BY DEF Follows, KeepsTopic
<1>1. Follows(c, r) /\ KeepsTopic(c, r) /\ r.used
  BY <1>0, ReconnectFollows
<1>2. Finished(c) = d
  BY DEF Finished
<1> HIDE DEF r
<1>3. r \in MqttClient /\ ClientSane(r)
  BY <1>1 DEF Follows
<1>4. Follows(c, k) /\ KeepsTopic(c, k)
  <2>1. CASE r.close = "Activated"
    BY <1>1, <1>3, <2>1, CloseFollows, FollowsTransitive DEF KeepsTopic
  <2>2. CASE r.close # "Activated"
    BY <1>1, <2>2
  <2> QED
    BY <2>1, <2>2
<1> HIDE DEF k
<1>5. k \in MqttClient /\ ClientSane(k)
  BY <1>4 DEF Follows
<1>6. CASE k.isDisconnected
  BY <1>2, <1>4, <1>5, <1>6, DisconnectFollows, FollowsTransitive DEF KeepsTopic
<1>7. CASE ~k.isDisconnected
  BY <1>2, <1>4, <1>7
<1> QED
  BY <1>6, <1>7

-----------------------------------------------------------------------------
(* The invariant and the refinement, step by step.  Each step of the       *)
(* client preserves the invariant and is a step of MtpQueue, or none.      *)

StepOfQueue == [MqttQueue!QNext]_MqttQueue!qVars

DmType == [enable : BOOLEAN, conf : Nat, sub : {"none", "off", "on"}, wasOff : BOOLEAN]

\* The messages in the queue were queued.
LEMMA MessagesQueued ==
    ASSUME MqttIndInv
    PROVE Messages(mq.queue) \subseteq 1..mq_n
<1> SUFFICES ASSUME NEW n \in Messages(mq.queue) PROVE n \in 1..mq_n
  OBVIOUS
<1>1. n \in 1..MaxMqttRecords /\ QueuedRecord("message", n) \in mq.queue
  BY DEF Messages
<1>2. QueuedRecord("message", n).no <= mq_n
  BY <1>1 DEF MqttIndInv
<1>3. mq_n \in Nat
  BY MqttAssumption DEF MqttIndInv, MqttTypeOK
<1> QED
  BY <1>1, <1>2, <1>3, MqttAssumption DEF QueuedRecord

\* A step of the DM thread that touches neither queue nor connection.
LEMMA QuietStep ==
    ASSUME MqttIndInv, mq' \in MqttClient, UNCHANGED <<mqGhost, mq_connecting, mq_n, mq_failures>>,
           mq'.used = mq.used, mq'.state = mq.state, mq'.queue = mq.queue, mq'.connack = mq.connack,
           ~("sub_user" \in mq'.acks /\ "unsub_user" \in mq'.acks),
           mq_dm' \in DmType, mq_changes' \in 0..MaxMqttChanges, mq_allowed' \in BOOLEAN,
           ~mq_dm'.enable /\ ~mq_dm'.wasOff => ~mq.used,
           mq_dm'.enable /\ ~mq_dm'.wasOff => StaysConnected(mq') /\ mq'.next = mq_dm'.conf,
           mq_failures = 0 /\ mq_dm'.sub = "on" => TopicComes(mq')
    PROVE MqttIndInv' /\ StepOfQueue
<1>1. MqttTypeOK'
  BY DEF MqttIndInv, MqttTypeOK, mqGhost, DmType
<1>2. ClientSane(mq')
  BY DEF MqttIndInv, ClientSane
<1>3. MqttIndInv'
  BY <1>1, <1>2 DEF MqttIndInv, mqGhost, MqttConnectFirst
<1>4. UNCHANGED MqttQueue!qVars
  BY DEF MqttQueue!qVars, mqGhost
<1> QED
  BY <1>3, <1>4 DEF StepOfQueue

\* A step of the MTP thread that ends with the client c, after the client was x for a moment.
LEMMA PassStep ==
    ASSUME MqttIndInv, mq.used, NEW x \in MqttClient, NEW c, Follows(x, c), Becomes(c),
           x.used, x.queue = mq.queue, x.next = mq.next, x.state = "Running" => mq.state = "Running",
           x.connack => mq_first = "none" /\ mq_sent = <<>>,
           StaysConnected(mq) => StaysConnected(x),
           mq_failures' \in 0..MaxMqttFailures,
           mq_failures' = 0 => mq_failures = 0 /\ KeepsTopic(mq, x) /\ KeepsTopic(x, c),
           ~mq_connecting', UNCHANGED <<mq_dm, mq_allowed, mq_n, mq_changes>>, mq_connecting' \in BOOLEAN
    PROVE MqttIndInv' /\ StepOfQueue
<1> USE DEF Becomes
<1>1. /\ c \in MqttClient /\ ClientSane(c)
      /\ c.used => c.next = mq.next /\ Messages(c.queue) = Messages(mq.queue)
      /\ c.queue \subseteq mq.queue \cup {ConnectRecord}
      /\ c.connack => mq_first = "none" /\ mq_sent = <<>>
      /\ c.state = "Running" => \/ mq.state = "Running" /\ c.queue = mq.queue
                                \/ ConnectRecord \in c.queue /\ mq_first = "none" /\ mq_sent = <<>>
      /\ StaysConnected(mq) => StaysConnected(c)
  BY DEF Follows
<1>2. Messages(mq.queue) \subseteq 1..mq_n
  BY MessagesQueued
<1>3. MqttTypeOK'
  <2>1. mq_done' \subseteq 1..mq_n
    BY <1>2 DEF MqttIndInv, MqttTypeOK
  <2>2. mq_sent' \in Seq(Nat)
    BY DEF MqttIndInv, MqttTypeOK
  <2> QED
    BY <1>1, <2>1, <2>2 DEF MqttIndInv, MqttTypeOK
<1>4. \A r \in c.queue : r.no <= mq_n
  <2>1. ConnectRecord.no <= mq_n
    BY MqttAssumption DEF ConnectRecord, MqttIndInv, MqttTypeOK
  <2> QED
    BY <1>1, <2>1 DEF MqttIndInv
<1>5. MqttIndInv'
  <2>1. c.connack \/ c.state = "SendingConnect" => mq_first' = "none" /\ mq_sent' = <<>>
    BY <1>1
  <2>2. c.state = "Running" /\ mq_first' = "none" => ConnectRecord \in c.queue
    BY <1>1 DEF MqttIndInv
  <2>3. mq_dm.enable /\ ~mq_dm.wasOff => StaysConnected(c) /\ c.next = mq_dm.conf
    BY <1>1 DEF MqttIndInv, StaysConnected
  <2>4. ~mq_dm.enable /\ ~mq_dm.wasOff => ~c.used
    BY DEF MqttIndInv
  <2>5. mq_failures' = 0 /\ mq_dm.sub = "on" => TopicComes(c)
    BY DEF MqttIndInv, KeepsTopic
  <2>6. MqttConnectFirst'
    BY DEF MqttIndInv, MqttConnectFirst
  <2> QED
    BY <1>1, <1>3, <1>4, <2>1, <2>2, <2>3, <2>4, <2>5, <2>6 DEF MqttIndInv
<1>6. CASE ~c.used
  <2>1. c.queue = {} /\ c.state = "Idle"
    BY <1>1, <1>6 DEF ClientSane
  <2>2. Messages(c.queue) = {}
    BY <2>1 DEF Messages
  <2>3. MqttQueue!End
    BY <1>6, <2>1, <2>2 DEF MqttQueue!End
  <2> QED
    BY <1>5, <2>3 DEF StepOfQueue, MqttQueue!QNext
<1>7. CASE c.used /\ mq.state = "Running" /\ c.state # "Running"
  <2>1. MqttQueue!Down
    BY <1>1, <1>7 DEF MqttQueue!Down
  <2> QED
    BY <1>5, <2>1 DEF StepOfQueue, MqttQueue!QNext
<1>8. CASE c.used /\ mq.state # "Running" /\ c.state = "Running"
  <2>1. MqttQueue!Up
    BY <1>1, <1>8 DEF MqttQueue!Up
  <2> QED
    BY <1>5, <2>1 DEF StepOfQueue, MqttQueue!QNext
<1>9. CASE c.used /\ (mq.state = "Running" <=> c.state = "Running")
  <2>1. UNCHANGED MqttQueue!qVars
    BY <1>1, <1>9 DEF MqttQueue!qVars
  <2> QED
    BY <1>5, <2>1 DEF StepOfQueue
<1> QED
  BY <1>6, <1>7, <1>8, <1>9

-----------------------------------------------------------------------------
(* The MTP thread.                                                         *)

\* Whatever the socket brings.
LEMMA ReceivedFollows ==
    ASSUME NEW c \in MqttClient, ClientSane(c), c.used, NEW r \in Received(c)
    PROVE /\ Follows(c, r.c) /\ r.c.used
          /\ r.fails \in {0, 1}
          /\ r.fails = 0 => KeepsTopic(c, r.c)
<1>1. CASE r = [c |-> c, fails |-> 0]
  BY <1>1 DEF Follows, KeepsTopic
<1>2. CASE r = [c |-> Closed(c), fails |-> 0] /\ c.state \in {"AwaitingDisconnect", "ErrorRetrying"}
  BY <1>2, ClosedFollows
<1>3. CASE r = [c |-> Closed(c), fails |-> 1]
  BY <1>3, ClosedFollows
<1>4. CASE r = [c |-> HandleMqttError(Closed(c)), fails |-> 1]
  <2>1. /\ Closed(c) \in MqttClient /\ ClientSane(Closed(c)) /\ Closed(c).used
        /\ Follows(c, Closed(c))
    BY ClosedFollows DEF Follows
  <2>2. Follows(Closed(c), HandleMqttError(Closed(c))) /\ HandleMqttError(Closed(c)).used
    BY <2>1, ErrorFollows
  <2> QED
    BY <1>4, <2>1, <2>2, FollowsTransitive
<1>5. CASE c.connack /\ \E ok, v5 \in BOOLEAN : r = [c |-> ConnectCallback(c, ok, v5), fails |-> IF ok THEN 0 ELSE 1]
  <2>1. PICK ok \in BOOLEAN, v5 \in BOOLEAN : r = [c |-> ConnectCallback(c, ok, v5), fails |-> IF ok THEN 0 ELSE 1]
    BY <1>5
  <2> QED
    BY <1>5, <2>1, ConnectCallbackFollows
<1>6. CASE \E a \in c.acks \cap {"sub_agent", "sub_user"}, ok \in BOOLEAN :
             r = [c |-> SubscribeCallback(c, a, ok), fails |-> IF ok THEN 0 ELSE 1]
  <2>1. PICK a \in c.acks \cap {"sub_agent", "sub_user"}, ok \in BOOLEAN :
             r = [c |-> SubscribeCallback(c, a, ok), fails |-> IF ok THEN 0 ELSE 1]
    BY <1>6
  <2> QED
    BY <2>1, SubscribeCallbackFollows
<1>7. CASE "unsub_user" \in c.acks /\ r = [c |-> UnsubscribeCallback(c), fails |-> 0]
  BY <1>7, UnsubscribeCallbackFollows
<1>8. CASE r = [c |-> PublishCallback(c), fails |-> 0]
  BY <1>8, PublishCallbackFollows
<1> QED
  BY <1>1, <1>2, <1>3, <1>4, <1>5, <1>6, <1>7, <1>8 DEF Received

LEMMA ProcessStep ==
    ASSUME MqttIndInv, MQTT_ProcessAllSocketActivity
    PROVE MqttIndInv' /\ StepOfQueue
<1>1. mq \in MqttClient /\ ClientSane(mq) /\ mq.used /\ ~mq_connecting
  BY DEF MqttIndInv, MqttTypeOK, MQTT_ProcessAllSocketActivity
<1>2. PICK r \in Received(mq) : /\ mq_failures + r.fails <= MaxMqttFailures
                               /\ mq_failures' = mq_failures + r.fails
                               /\ Becomes(Finished(r.c))
  BY DEF MQTT_ProcessAllSocketActivity
<1>3. /\ Follows(mq, r.c) /\ r.c.used
      /\ r.fails \in {0, 1}
      /\ r.fails = 0 => KeepsTopic(mq, r.c)
  BY <1>1, ReceivedFollows
<1>4. Follows(r.c, Finished(r.c)) /\ KeepsTopic(r.c, Finished(r.c))
  BY <1>3, FinishedFollows DEF Follows
<1>5. Follows(mq, Finished(r.c))
  BY <1>3, <1>4, FollowsTransitive
<1>6. mq_failures \in 0..MaxMqttFailures /\ mq_connecting \in BOOLEAN
  BY DEF MqttIndInv, MqttTypeOK
<1>7. /\ mq_failures' \in 0..MaxMqttFailures
      /\ mq_failures' = 0 => mq_failures = 0 /\ KeepsTopic(mq, Finished(r.c))
  BY <1>2, <1>3, <1>4, <1>6, MqttAssumption DEF KeepsTopic
<1>8. KeepsTopic(mq, mq)
  BY DEF KeepsTopic
<1>9. mq.connack => mq_first = "none" /\ mq_sent = <<>>
  BY DEF MqttIndInv
<1>10. UNCHANGED <<mq_dm, mq_allowed, mq_connecting, mq_n, mq_changes>>
  BY DEF MQTT_ProcessAllSocketActivity
<1> QED
  BY <1>1, <1>2, <1>5, <1>6, <1>7, <1>8, <1>9, <1>10, PassStep

LEMMA ConnectStep ==
    ASSUME MqttIndInv, Connect
    PROVE MqttIndInv' /\ StepOfQueue
<1>1. MqttIndInv'
  BY DEF MqttIndInv, MqttTypeOK, Connect, mqGhost, MqttConnectFirst
<1>2. UNCHANGED MqttQueue!qVars
  BY DEF Connect, mqGhost, MqttQueue!qVars
<1> QED
  BY <1>1, <1>2 DEF StepOfQueue

LEMMA ConnectedStep ==
    ASSUME MqttIndInv, NEW ok \in BOOLEAN, Connected(ok)
    PROVE MqttIndInv' /\ StepOfQueue
<1> DEFINE a == [mq EXCEPT !.state = "AwaitingConnect", !.sock = TRUE, !.connack = TRUE]
<1>1. /\ mq \in MqttClient /\ ClientSane(mq) /\ mq.used /\ mq.state = "SendingConnect"
      /\ mq_first = "none" /\ mq_sent = <<>>
      /\ mq_failures \in 0..MaxMqttFailures
  BY DEF MqttIndInv, MqttTypeOK, Connected
<1>2. /\ mq_failures' \in 0..MaxMqttFailures /\ (mq_failures' = 0 => mq_failures = 0)
      /\ mq_connecting' = FALSE /\ UNCHANGED <<mq_dm, mq_allowed, mq_n, mq_changes>>
  BY <1>1, MqttAssumption DEF Connected
<1>3. CASE ok
  <2>1. /\ a \in MqttClient
        /\ a.used = mq.used /\ a.next = mq.next /\ a.conn = mq.conn /\ a.queue = mq.queue /\ a.state = "AwaitingConnect"
        /\ a.close = mq.close /\ a.reconnect = mq.reconnect /\ a.acks = mq.acks /\ a.sub = mq.sub
    BY <1>1 DEF MqttClient, MqttState
  <2>2. Becomes(Finished(a))
    BY <1>3 DEF Connected
  <2> HIDE DEF a
  <2>3. ClientSane(a) /\ (StaysConnected(mq) => StaysConnected(a)) /\ KeepsTopic(mq, a)
    BY <1>1, <2>1 DEF ClientSane, StaysConnected, KeepsTopic, TopicComes
  <2>4. Follows(a, Finished(a)) /\ KeepsTopic(a, Finished(a))
    BY <1>1, <2>1, <2>3, FinishedFollows
  <2> QED
    BY <1>1, <1>2, <2>1, <2>2, <2>3, <2>4, PassStep
<1>4. CASE ~ok
  <2> DEFINE e == HandleMqttError(mq)
  <2>1. Follows(mq, e) /\ KeepsTopic(mq, e) /\ e.used
    BY <1>1, ErrorFollows
  <2>2. Follows(e, Finished(e)) /\ KeepsTopic(e, Finished(e))
    BY <2>1, FinishedFollows DEF Follows
  <2>3. Becomes(Finished(e))
    BY <1>4 DEF Connected
  <2>4. Follows(mq, Finished(e)) /\ KeepsTopic(mq, Finished(e)) /\ KeepsTopic(mq, mq)
    BY <2>1, <2>2, FollowsTransitive DEF KeepsTopic
  <2> QED
    BY <1>1, <1>2, <2>3, <2>4, PassStep
<1> QED
  BY <1>3, <1>4

LEMMA RetryStep ==
    ASSUME MqttIndInv, RetryMqttClient
    PROVE MqttIndInv' /\ StepOfQueue
<1>1. /\ mq \in MqttClient /\ ClientSane(mq) /\ mq.used /\ ~mq_connecting
      /\ mq_failures \in 0..MaxMqttFailures /\ mq_connecting \in BOOLEAN
      /\ mq.connack => mq_first = "none" /\ mq_sent = <<>>
  BY DEF MqttIndInv, MqttTypeOK, RetryMqttClient
<1> DEFINE c == EnableMqttClient(TakeNext(mq))
<1>2. Follows(mq, c) /\ KeepsTopic(mq, c) /\ KeepsTopic(mq, mq)
  BY <1>1, EnableFollows DEF KeepsTopic
<1>3. Becomes(c) /\ UNCHANGED <<mq_dm, mq_allowed, mq_connecting, mq_n, mq_changes, mq_failures>>
  BY DEF RetryMqttClient
<1> HIDE DEF c
<1> QED
  BY <1>1, <1>2, <1>3, PassStep

\* Expired messages, and nothing else, leave the queue.
LEMMA UnexpiredMessages ==
    ASSUME NEW q \in SUBSET MqttRecord, NEW expired \in SUBSET Messages(q)
    PROVE /\ Unexpired(q, expired) \subseteq q
          /\ Messages(Unexpired(q, expired)) = Messages(q) \ expired
          /\ ConnectRecord \in q => ConnectRecord \in Unexpired(q, expired)
<1>1. ASSUME NEW n \in 1..MaxMqttRecords, NEW m \in expired
      PROVE QueuedRecord("message", n) = QueuedRecord("message", m) <=> n = m
  BY DEF QueuedRecord
<1>2. Messages(Unexpired(q, expired)) = Messages(q) \ expired
  BY <1>1 DEF Messages, Unexpired
<1>3. \A m \in expired : QueuedRecord("message", m) # ConnectRecord
  BY DEF QueuedRecord, ConnectRecord
<1> QED
  BY <1>2, <1>3 DEF Unexpired

\* The head leaves the queue as the first of its messages, or without one.
LEMMA HeadMessages ==
    ASSUME NEW q \in SUBSET MqttRecord, NEW h \in q
    PROVE /\ h.kind # "message" => Messages(q \ {h}) = Messages(q)
          /\ h.kind = "message" => Messages(q \ {h}) = Messages(q) \ {h.no}
          /\ h.kind = "message" /\ h.no \in 1..MaxMqttRecords => h.no \in Messages(q)
          /\ h.no = 0 => h = ConnectRecord
          /\ h.kind \in {"connect", "message", "disconnect"} /\ h.no \in Nat
<1>1. h \in MqttRecord
  OBVIOUS
<1>2. /\ h.no = 0 => h = ConnectRecord
      /\ h.kind \in {"connect", "message", "disconnect"} /\ h.no \in Nat
      /\ h = QueuedRecord(h.kind, h.no)
  BY <1>1 DEF MqttRecord, ConnectRecord, QueuedRecord
<1>3. \A n \in 1..MaxMqttRecords : QueuedRecord("message", n) = h <=> h.kind = "message" /\ h.no = n
  BY <1>2 DEF QueuedRecord
<1>4. h.kind # "message" => Messages(q \ {h}) = Messages(q)
  BY <1>3 DEF Messages
<1>5. h.kind = "message" => Messages(q \ {h}) = Messages(q) \ {h.no}
  BY <1>3 DEF Messages
<1>6. h.kind = "message" /\ h.no \in 1..MaxMqttRecords => h.no \in Messages(q)
  BY <1>2 DEF Messages
<1> QED
  BY <1>2, <1>4, <1>5, <1>6

\* The first record published on a connection is the connect record, and the first message is the
\* first that is held.
LEMMA PublishStep ==
    ASSUME MqttIndInv, NEW expired \in SUBSET Messages(mq.queue), NEW result \in {"none", "sent", "drop", "retry"},
           PublishQueued(expired, result)
    PROVE MqttIndInv' /\ StepOfQueue
<1> DEFINE q == Unexpired(mq.queue, expired)
<1>1. /\ mq \in MqttClient /\ mq.used /\ ~mq_connecting /\ mq.state = "Running" /\ mq.queue \subseteq MqttRecord
      /\ mq.acks \subseteq MqttAck
  BY DEF MqttIndInv, MqttTypeOK, PublishQueued, MqttClient
<1>2. /\ q \subseteq mq.queue /\ Messages(q) = Messages(mq.queue) \ expired
      /\ ConnectRecord \in mq.queue => ConnectRecord \in q
  BY <1>1, UnexpiredMessages
<1>3. /\ mq_failures' \in 0..MaxMqttFailures /\ (mq_failures' = 0 => mq_failures = 0)
      /\ UNCHANGED <<mq_dm, mq_allowed, mq_connecting, mq_n, mq_changes>>
      /\ mq_done' = mq_done \cup (Messages(mq.queue) \ Messages(mq'.queue))
  <2> DEFINE faults == (IF expired = {} THEN 0 ELSE 1) + (IF result = "drop" THEN 1 ELSE 0)
  <2>1. faults \in {0, 1, 2}
    OBVIOUS
  <2>2. mq_failures' = mq_failures + faults /\ mq_failures + faults <= MaxMqttFailures
    BY DEF PublishQueued
  <2> HIDE DEF faults
  <2>3. mq_failures \in Nat /\ MaxMqttFailures \in Nat
    BY MqttAssumption DEF MqttIndInv, MqttTypeOK
  <2>4. mq_failures' \in 0..MaxMqttFailures /\ (mq_failures' = 0 => mq_failures = 0)
    BY <2>1, <2>2, <2>3
  <2>5. /\ UNCHANGED <<mq_dm, mq_allowed, mq_connecting, mq_n, mq_changes>>
        /\ mq_done' = mq_done \cup (Messages(mq.queue) \ Messages(mq'.queue))
    BY DEF PublishQueued
  <2> QED
    BY <2>4, <2>5
<1>4. Messages(mq.queue) \subseteq 1..mq_n
  BY MessagesQueued
<1>5. ASSUME NEW p \in SUBSET q, NEW acks \in SUBSET MqttAck,
             acks \cup {"published"} = mq.acks \cup {"published"},
             mq' = [mq EXCEPT !.queue = p, !.acks = acks],
             mq_first' \in {"none", "connect"}, mq_first' = "none" => ConnectRecord \in p,
             mq_sent' \in Seq(Nat)
      PROVE MqttIndInv'
  <2> DEFINE c == [mq EXCEPT !.queue = p, !.acks = acks]
  <2>1. /\ c \in MqttClient /\ ClientSane(c)
        /\ c.used = mq.used /\ c.state = mq.state /\ c.connack = mq.connack /\ c.queue = p /\ c.next = mq.next
        /\ StaysConnected(mq) => StaysConnected(c)
        /\ KeepsTopic(mq, c)
    <3> HIDE DEF q
    <3>1. mq \in MqttClient /\ ClientSane(mq) /\ p \in SUBSET MqttRecord /\ p \subseteq mq.queue
      BY <1>1, <1>2 DEF MqttIndInv
    <3>2. c \in MqttClient
      BY <3>1 DEF MqttClient
    <3>3. /\ c.used = mq.used /\ c.next = mq.next /\ c.conn = mq.conn /\ c.state = mq.state
          /\ c.connack = mq.connack /\ c.close = mq.close /\ c.reconnect = mq.reconnect /\ c.isReconnect = mq.isReconnect
          /\ c.sub = mq.sub /\ c.broker = mq.broker /\ c.acks = acks /\ c.queue = p
      BY <3>1 DEF MqttClient
    <3>4. /\ "sub_user" \in acks <=> "sub_user" \in mq.acks
          /\ "unsub_user" \in acks <=> "unsub_user" \in mq.acks
      BY <1>5
    <3> HIDE DEF c
    <3>5. ClientSane(c)
      BY <1>1, <3>1, <3>3, <3>4 DEF ClientSane
    <3>6. KeepsTopic(mq, c)
      BY <3>3, <3>4 DEF KeepsTopic, TopicComes
    <3>7. StaysConnected(mq) => StaysConnected(c)
      BY <3>3 DEF StaysConnected
    <3> QED
      BY <3>2, <3>3, <3>5, <3>6, <3>7
  <2>2. mq' = c
    BY <1>5
  <2> HIDE DEF c, q
  <2>3. mq_done' \subseteq 1..mq_n
    BY <1>3, <1>4 DEF MqttIndInv, MqttTypeOK
  <2>4. MqttTypeOK'
    BY <1>3, <1>5, <2>1, <2>2, <2>3 DEF MqttIndInv, MqttTypeOK
  <2>5. ~mq.connack
    BY <1>1 DEF MqttIndInv, ClientSane
  <2>6. MqttConnectFirst'
    BY <1>5 DEF MqttConnectFirst
  <2>7. mq_failures' = 0 /\ mq_dm'.sub = "on" => TopicComes(c)
    BY <1>3, <2>1 DEF MqttIndInv, KeepsTopic
  <2> QED
    BY <1>1, <1>2, <1>3, <1>5, <2>1, <2>2, <2>4, <2>5, <2>6, <2>7 DEF MqttIndInv
<1>6. CASE result = "none"
  <2>1. mq' = [mq EXCEPT !.queue = q] /\ UNCHANGED <<mq_first, mq_sent>>
    BY <1>6 DEF PublishQueued
  <2>2. mq' = [mq EXCEPT !.queue = q, !.acks = mq.acks]
    <3> HIDE DEF q
    <3> QED BY <1>1, <2>1 DEF MqttClient
  <2> HIDE DEF q
  <2>3. mq_first' = "none" => ConnectRecord \in q
    BY <1>1, <1>2, <2>1 DEF MqttIndInv
  <2>4. MqttIndInv'
    BY <1>1, <1>5, <2>1, <2>2, <2>3 DEF MqttIndInv, MqttTypeOK, MqttConnectFirst
  <2>5. mq'.queue = q /\ mq'.used = mq.used /\ mq'.state = mq.state
    BY <1>1, <2>1 DEF MqttClient
  <2>6. MqttQueue!Expire
    <3>1. expired \in MqttQueue!MayExpire
      BY DEF MqttQueue!MayExpire
    <3> QED
      BY <1>2, <1>3, <2>1, <2>5, <3>1 DEF MqttQueue!Expire
  <2> QED
    BY <2>4, <2>6 DEF StepOfQueue, MqttQueue!QNext
<1>7. CASE result # "none"
  <2>1. PICK h \in q : /\ IsHead(h, q) /\ (result = "sent" \/ h.kind = "message")
                       /\ PublishHead(q, h, result)
    BY <1>7 DEF PublishQueued
  <2> DEFINE p == IF result = "retry" THEN q ELSE q \ {h}
             acks == IF result # "sent" THEN mq.acks
                     ELSE IF h.kind = "disconnect" THEN mq.acks \cup {"published"} ELSE mq.acks \ {"published"}
  <2>2. mq' = [mq EXCEPT !.queue = p, !.acks = acks]
    <3> HIDE DEF q
    <3> QED BY <2>1 DEF PublishHead
  <2>3. acks \in SUBSET MqttAck /\ acks \cup {"published"} = mq.acks \cup {"published"}
    BY <1>1 DEF MqttAck
  <2> HIDE DEF q
  <2>4. q \in SUBSET MqttRecord /\ p \in SUBSET q
    BY <1>1, <1>2
  <2>5. /\ h.kind # "message" => Messages(q \ {h}) = Messages(q)
        /\ h.kind = "message" => Messages(q \ {h}) = Messages(q) \ {h.no}
        /\ h.kind = "message" /\ h.no \in 1..MaxMqttRecords => h.no \in Messages(q)
        /\ h.no = 0 => h = ConnectRecord
        /\ h.kind \in {"connect", "message", "disconnect"} /\ h.no \in Nat
    BY <2>4, HeadMessages
  <2>6. mq_first = "none" => h = ConnectRecord /\ h.kind = "connect" /\ result = "sent"
    <3> HAVE mq_first = "none"
    <3>1. ConnectRecord \in q
      BY <1>1, <1>2 DEF MqttIndInv
    <3>2. h.no <= 0
      BY <2>1, <3>1 DEF IsHead, ConnectRecord
    <3>3. h = ConnectRecord
      BY <2>5, <3>2
    <3> QED
      BY <2>1, <3>3 DEF ConnectRecord
  <2>7. mq_first' = "connect" /\ mq_sent' \in Seq(Nat)
    <3>1. mq_first \in {"none", "connect"} /\ mq_sent \in Seq(Nat)
      BY DEF MqttIndInv, MqttTypeOK, MqttConnectFirst
    <3>2. /\ mq_first' = IF result = "sent" /\ mq_first = "none" THEN h.kind ELSE mq_first
          /\ mq_sent' = IF result = "sent" /\ h.kind = "message" THEN Append(mq_sent, h.no) ELSE mq_sent
      BY <2>1 DEF PublishHead
    <3> QED
      BY <2>5, <2>6, <3>1, <3>2
  <2>8. MqttIndInv'
    <3> HIDE DEF p, acks
    <3> QED BY <1>5, <2>2, <2>3, <2>4, <2>7
  <2>9. mq'.queue = p /\ mq'.used = mq.used /\ mq'.state = mq.state
    <3> HIDE DEF p, acks
    <3> QED BY <1>1, <2>2 DEF MqttClient
  <2>10. h.kind = "message" => h.no \in Messages(q)
    <3> HAVE h.kind = "message"
    <3>1. h.no # 0
      BY <2>5 DEF ConnectRecord
    <3>2. h.no <= mq_n /\ mq_n \in 0..MaxMqttRecords
      BY <1>2 DEF MqttIndInv, MqttTypeOK
    <3>3. h.no \in 1..MaxMqttRecords
      BY <2>5, <3>1, <3>2, MqttAssumption
    <3> QED
      BY <2>5, <3>3
  <2>11. CASE result = "sent" /\ h.kind = "message"
    <3>1. mq_sent' = Append(mq_sent, h.no)
      BY <2>1, <2>11 DEF PublishHead
    <3>2. Messages(p) = Messages(q) \ {h.no}
      BY <2>5, <2>11
    <3>3. MqttQueue!IsFirst(h.no, Messages(mq.queue) \ expired)
      <4>1. ASSUME NEW n \in Messages(q) PROVE h.no <= n
        <5>1. QueuedRecord("message", n) \in q
          BY DEF Messages
        <5>2. h.no <= QueuedRecord("message", n).no
          BY <2>1, <5>1 DEF IsHead
        <5> QED
          BY <5>2 DEF QueuedRecord
      <4> QED
        BY <1>2, <2>10, <2>11, <4>1 DEF MqttQueue!IsFirst
    <3>4. expired \in MqttQueue!MayExpire
      BY DEF MqttQueue!MayExpire
    <3>5. Messages(mq'.queue) = Messages(mq.queue) \ (expired \cup {h.no})
      BY <1>2, <2>9, <3>2
    <3>6. h.no \in Messages(mq.queue)
      BY <1>2, <2>10, <2>11
    <3>7. MqttQueue!Send
      BY <1>1, <1>3, <2>9, <3>1, <3>3, <3>4, <3>5, <3>6 DEF MqttQueue!Send
    <3> QED
      BY <2>8, <3>7 DEF StepOfQueue, MqttQueue!QNext
  <2>12. CASE ~(result = "sent" /\ h.kind = "message")
    <3>1. mq_sent' = mq_sent
      BY <2>1, <2>12 DEF PublishHead
    <3>2. PICK old \in SUBSET Messages(mq.queue) : Messages(p) = Messages(mq.queue) \ old
      <4>1. Messages(p) \subseteq Messages(q)
        BY <2>4 DEF Messages
      <4> WITNESS Messages(mq.queue) \ Messages(p) \in SUBSET Messages(mq.queue)
      <4> QED
        BY <1>2, <4>1
    <3>3. old \in MqttQueue!MayExpire
      BY DEF MqttQueue!MayExpire
    <3>4. MqttQueue!Expire
      <4> HIDE DEF p
      <4> QED BY <1>3, <2>9, <3>1, <3>2, <3>3 DEF MqttQueue!Expire
    <3> QED
      BY <2>8, <3>4 DEF StepOfQueue, MqttQueue!QNext
  <2> QED
    BY <2>11, <2>12
<1> QED
  BY <1>6, <1>7

\* The subscription that the data model configures, as a slot.
LEMMA SubConfigGives ==
    ASSUME NEW s \in {"none", "off", "on"}
    PROVE SubConfig(s) \in MqttSub /\ (s = "on" => SubConfig(s).enabled)
BY DEF SubConfig, MqttSub, SubState

\* A change of the configuration is counted.
LEMMA ChangeCounted ==
    ASSUME MqttIndInv, MqttChange
    PROVE mq_changes' \in 0..MaxMqttChanges
BY MqttAssumption DEF MqttIndInv, MqttTypeOK, MqttChange

\* Enabling the client opens the queue, unless a client that is being closed still has the slot.
LEMMA EnableStep ==
    ASSUME MqttIndInv, EnableMQTTClient
    PROVE MqttIndInv' /\ StepOfQueue
<1>1. /\ mq \in MqttClient /\ ClientSane(mq) /\ mq_dm \in DmType /\ ~mq_dm.enable
      /\ mq_changes' \in 0..MaxMqttChanges
  BY ChangeCounted DEF MqttIndInv, MqttTypeOK, EnableMQTTClient, DmType
<1>2. /\ mq_dm' \in DmType /\ mq_dm'.enable /\ mq_dm'.wasOff = mq_dm.wasOff /\ mq_dm'.sub = mq_dm.sub
      /\ mq_dm'.conf = mq_dm.conf
  BY <1>1 DEF EnableMQTTClient, DmType
<1>3. UNCHANGED <<mq_allowed, mq_connecting, mq_n, mq_failures>>
  BY DEF EnableMQTTClient
<1>4. CASE mq.used /\ mq.state \notin {"Idle", "ErrorRetrying"}
  <2>1. Becomes(mq)
    BY <1>4 DEF EnableMQTTClient, EnableClient
  <2>2. mq' = mq /\ UNCHANGED mqGhost
    BY <1>4, <2>1 DEF Becomes, MqttIndInv, mqGhost
  <2>3. mq_dm.wasOff
    BY <1>1, <1>4 DEF MqttIndInv
  <2>4. ~("sub_user" \in mq.acks /\ "unsub_user" \in mq.acks)
    BY <1>1 DEF ClientSane
  <2>5. mq_failures = 0 /\ mq_dm.sub = "on" => TopicComes(mq)
    BY DEF MqttIndInv
  <2>6. mq_allowed' \in BOOLEAN
    BY <1>3 DEF MqttIndInv, MqttTypeOK
  <2> QED
    BY <1>1, <1>2, <1>3, <2>2, <2>3, <2>4, <2>5, <2>6, QuietStep
<1>5. CASE ~(mq.used /\ mq.state \notin {"Idle", "ErrorRetrying"})
  <2> DEFINE d == [mq EXCEPT !.used = TRUE, !.conn = mq_dm.conf, !.next = mq_dm.conf, !.sub = SubConfig(mq_dm.sub)]
             c == EnableMqttClient(TakeNext(d))
  <2>1. mq_dm.conf \in Nat /\ SubConfig(mq_dm.sub) \in MqttSub /\ (mq_dm.sub = "on" => SubConfig(mq_dm.sub).enabled)
    BY <1>1, SubConfigGives DEF DmType
  <2>2. d \in MqttClient
    BY <1>1, <2>1 DEF MqttClient
  <2>3. /\ d.used /\ d.next = mq_dm.conf /\ d.sub = SubConfig(mq_dm.sub) /\ d.queue = mq.queue
        /\ d.connack = mq.connack /\ d.state = mq.state /\ d.acks = mq.acks /\ d.conn = mq_dm.conf
    BY <1>1 DEF MqttClient
  <2>4. TakeNext(d) = d
    BY <1>1 DEF TakeNext, MqttClient
  <2>5. Becomes(c)
    BY <1>5, <2>4 DEF EnableMQTTClient, EnableClient
  <2> HIDE DEF d
  <2>6. ClientSane(d)
    BY <1>1, <2>3 DEF ClientSane
  <2>7. /\ c \in MqttClient /\ ClientSane(c) /\ StaysConnected(c)
        /\ c.used /\ c.next = mq_dm.conf /\ c.queue = mq.queue /\ c.sub = SubConfig(mq_dm.sub)
        /\ c.connack => mq.connack
        /\ c.state \in {"SendingConnect", "ErrorRetrying"}
    BY <2>2, <2>3, <2>6, EnableGives
  <2> HIDE DEF c
  <2>8. /\ mq' = c /\ mq_done' = mq_done
        /\ mq_sent' = IF c.state = "SendingConnect" THEN <<>> ELSE mq_sent
        /\ mq_first' = IF c.state = "SendingConnect" THEN "none" ELSE mq_first
    BY <2>5, <2>7 DEF Becomes
  <2>9. mq_first' \in {"none", "connect"} /\ mq_sent' \in Seq(Nat) /\ MqttConnectFirst'
    BY <2>8 DEF MqttIndInv, MqttTypeOK, MqttConnectFirst
  <2>10. ~mq_connecting
    BY <1>5 DEF MqttIndInv
  <2>11. MqttTypeOK'
    BY <1>1, <1>2, <1>3, <2>7, <2>8, <2>9 DEF MqttIndInv, MqttTypeOK, DmType
  <2>12. c.connack \/ c.state = "SendingConnect" => mq_first' = "none" /\ mq_sent' = <<>>
    BY <2>7, <2>8 DEF MqttIndInv
  <2>13. mq_dm.sub = "on" => TopicComes(c)
    BY <2>1, <2>7 DEF TopicComes
  <2>14. \A r \in c.queue : r.no <= mq_n
    BY <2>7 DEF MqttIndInv
  <2>15. MqttIndInv'
    BY <1>2, <1>3, <2>7, <2>8, <2>9, <2>10, <2>11, <2>12, <2>13, <2>14 DEF MqttIndInv
  <2>16. /\ mq.state # "Running" /\ mq'.state # "Running" /\ mq'.used
         /\ Messages(mq'.queue) = Messages(mq.queue) /\ mq_done' = mq_done
    BY <1>1, <1>5, <2>7, <2>8 DEF ClientSane
  <2>17. CASE mq.used
    BY <1>1, <2>15, <2>16, <2>17 DEF StepOfQueue, MqttQueue!qVars, MqttClient
  <2>18. CASE ~mq.used
    BY <2>15, <2>16, <2>18 DEF StepOfQueue, MqttQueue!QNext, MqttQueue!Open
  <2> QED
    BY <2>17, <2>18
<1> QED
  BY <1>4, <1>5

\* A record is queued behind those of before that have not expired.
LEMMA QueueStep ==
    ASSUME MqttIndInv, NEW kind \in {"message", "disconnect"}, NEW expired \in SUBSET Messages(mq.queue),
           MQTT_QueueBinaryMessage(kind, expired)
    PROVE MqttIndInv' /\ StepOfQueue
<1> DEFINE n == mq_n + 1
           r == QueuedRecord(kind, n)
           q == Unexpired(mq.queue, expired)
<1>1. /\ mq \in MqttClient /\ ClientSane(mq) /\ mq.used /\ mq_n \in Nat /\ mq_n < MaxMqttRecords
      /\ mq_n' = n /\ mq' = [mq EXCEPT !.queue = q \cup {r}] /\ mq_done' = mq_done \cup expired
      /\ UNCHANGED <<mq_dm, mq_allowed, mq_connecting, mq_first, mq_sent, mq_changes>>
  BY MqttAssumption DEF MqttIndInv, MqttTypeOK, MQTT_QueueBinaryMessage
<1>2. r \in MqttRecord /\ r.no = n /\ n \in 1..MaxMqttRecords
  BY <1>1, MqttAssumption DEF QueuedRecord, MqttRecord
<1>3. mq_failures' \in 0..MaxMqttFailures /\ (mq_failures' = 0 => mq_failures = 0)
  <2> DEFINE faults == IF expired = {} THEN 0 ELSE 1
  <2>1. faults \in {0, 1}
    OBVIOUS
  <2>2. mq_failures' = mq_failures + faults /\ mq_failures + faults <= MaxMqttFailures
    BY DEF MQTT_QueueBinaryMessage
  <2> HIDE DEF faults
  <2>3. mq_failures \in Nat /\ MaxMqttFailures \in Nat
    BY MqttAssumption DEF MqttIndInv, MqttTypeOK
  <2> QED
    BY <2>1, <2>2, <2>3
<1>4. /\ mq.queue \subseteq MqttRecord /\ q \subseteq mq.queue /\ Messages(q) = Messages(mq.queue) \ expired
      /\ ConnectRecord \in mq.queue => ConnectRecord \in q
  <2>1. mq.queue \subseteq MqttRecord
    BY <1>1 DEF MqttClient
  <2> QED
    BY <2>1, UnexpiredMessages
<1> HIDE DEF n, q
<1>5. mq' \in MqttClient
  BY <1>1, <1>2, <1>4 DEF MqttClient
<1>6. /\ mq'.used = mq.used /\ mq'.next = mq.next /\ mq'.conn = mq.conn /\ mq'.state = mq.state
      /\ mq'.connack = mq.connack /\ mq'.close = mq.close /\ mq'.reconnect = mq.reconnect
      /\ mq'.isReconnect = mq.isReconnect /\ mq'.sub = mq.sub /\ mq'.broker = mq.broker /\ mq'.acks = mq.acks
      /\ mq'.queue = q \cup {r}
  BY <1>1 DEF MqttClient
<1>7. ClientSane(mq') /\ (StaysConnected(mq) => StaysConnected(mq')) /\ (TopicComes(mq) => TopicComes(mq'))
  BY <1>1, <1>6 DEF ClientSane, StaysConnected, TopicComes
<1>8. \A x \in mq'.queue : x.no <= n
  <2>1. SUFFICES ASSUME NEW x \in mq.queue PROVE x.no <= n
    BY <1>1, <1>2, <1>4, <1>6 DEF n
  <2>2. x \in MqttRecord /\ x.no <= mq_n
    BY <1>4 DEF MqttIndInv
  <2>3. x.no \in Nat
    BY <2>2 DEF MqttRecord, ConnectRecord
  <2> QED
    BY <1>1, <2>2, <2>3 DEF n
<1>9. Messages(mq.queue) \subseteq 1..mq_n /\ mq_done \subseteq 1..mq_n
  BY MessagesQueued DEF MqttIndInv, MqttTypeOK
<1>10. MqttTypeOK'
  <2>1. mq_done \cup expired \subseteq 1..n
    BY <1>1, <1>9 DEF n
  <2>2. n \in 0..MaxMqttRecords
    BY <1>2
  <2> QED
    BY <1>1, <1>3, <1>5, <2>1, <2>2 DEF MqttIndInv, MqttTypeOK
<1>11. MqttIndInv'
  <2>1. ConnectRecord \in mq.queue => ConnectRecord \in mq'.queue
    BY <1>4, <1>6
  <2> QED
    BY <1>1, <1>3, <1>6, <1>7, <1>8, <1>10, <2>1 DEF MqttIndInv, MqttConnectFirst
<1>12. \A m \in 1..MaxMqttRecords : QueuedRecord("message", m) = r <=> kind = "message" /\ m = n
  BY DEF QueuedRecord
<1>13. expired \in MqttQueue!MayExpire
  BY DEF MqttQueue!MayExpire
<1>14. CASE kind = "message"
  <2>1. Messages(mq'.queue) = (Messages(mq.queue) \ expired) \cup {n}
    <3>1. Messages(q \cup {r}) = Messages(q) \cup {n}
      BY <1>2, <1>12, <1>14 DEF Messages
    <3> QED
      BY <1>4, <1>6, <3>1
  <2>2. \A m \in mq_done \cup Messages(mq.queue) : m < n
    BY <1>1, <1>9 DEF n
  <2>3. MqttQueue!Offered(n)
    BY <1>1, <1>2, <2>1, <2>2 DEF MqttQueue!Offered
  <2>4. MqttQueue!Offer
    BY <1>1, <1>2, <1>6, <1>13, <2>1, <2>3 DEF MqttQueue!Offer
  <2> QED
    BY <1>11, <2>4 DEF StepOfQueue, MqttQueue!QNext
<1>15. CASE kind = "disconnect"
  <2>1. Messages(mq'.queue) = Messages(mq.queue) \ expired
    <3>1. Messages(q \cup {r}) = Messages(q)
      BY <1>12, <1>15 DEF Messages
    <3> QED
      BY <1>4, <1>6, <3>1
  <2>2. MqttQueue!Expire
    BY <1>1, <1>6, <1>13, <2>1 DEF MqttQueue!Expire
  <2> QED
    BY <1>11, <2>2 DEF StepOfQueue, MqttQueue!QNext
<1> QED
  BY <1>14, <1>15

\* MQTT_UpdateConnectionParams: the parameters are for the next connection, and only theirs is changed.
LEMMA UpdateGives ==
    ASSUME NEW c \in MqttClient, NEW conf \in Nat, NEW b \in BOOLEAN
    PROVE LET d == MQTT_UpdateConnectionParams(c, conf, b) IN
          /\ d \in MqttClient
          /\ d.used = c.used /\ d.state = c.state /\ d.queue = c.queue /\ d.connack = c.connack /\ d.acks = c.acks
          /\ TopicComes(c) => TopicComes(d)
          /\ c.used => d.next = conf
          /\ StaysConnected(c) /\ (b \/ conf = c.next) => StaysConnected(d)
<1> DEFINE d == MQTT_UpdateConnectionParams(c, conf, b)
<1>1. d \in MqttClient
  BY DEF MQTT_UpdateConnectionParams, MqttClient, MqttAction
<1>2. /\ d.used = c.used /\ d.state = c.state /\ d.queue = c.queue /\ d.connack = c.connack /\ d.acks = c.acks
      /\ d.sub = c.sub /\ d.broker = c.broker /\ d.close = c.close /\ d.isReconnect = c.isReconnect /\ d.conn = c.conn
      /\ c.used => d.next = conf /\ (b => d.reconnect = "Signalled") /\ (~b => d.reconnect = c.reconnect)
  BY DEF MQTT_UpdateConnectionParams, MqttClient
<1> HIDE DEF d
<1>3. TopicComes(c) => TopicComes(d)
  BY <1>2 DEF TopicComes
<1>4. StaysConnected(c) /\ (b \/ conf = c.next) => StaysConnected(d)
  BY <1>2 DEF StaysConnected
<1> QED
  BY <1>1, <1>2, <1>3, <1>4 DEF d

\* A change of the parameters reaches a client that stays connected.
LEMMA UpdateStep ==
    ASSUME MqttIndInv, NEW conf \in Nat, NEW b \in BOOLEAN,
           mq' = MQTT_UpdateConnectionParams(mq, conf, b), MqttChange,
           mq_dm' \in DmType, mq_dm'.conf = conf, mq_dm'.enable = mq_dm.enable, mq_dm'.wasOff = mq_dm.wasOff,
           mq_dm'.sub = mq_dm.sub, b \/ conf = mq_dm.conf,
           UNCHANGED <<mq_allowed, mq_connecting, mqGhost, mq_n, mq_failures>>
    PROVE MqttIndInv' /\ StepOfQueue
<1>1. mq \in MqttClient /\ mq_allowed \in BOOLEAN /\ ~("sub_user" \in mq.acks /\ "unsub_user" \in mq.acks)
  BY DEF MqttIndInv, MqttTypeOK, ClientSane
<1> DEFINE d == MQTT_UpdateConnectionParams(mq, conf, b)
<1>2. /\ mq' \in MqttClient
      /\ mq'.used = mq.used /\ mq'.state = mq.state /\ mq'.queue = mq.queue
      /\ mq'.connack = mq.connack /\ mq'.acks = mq.acks
      /\ TopicComes(mq) => TopicComes(mq')
      /\ mq.used => mq'.next = conf
      /\ StaysConnected(mq) /\ (b \/ conf = mq.next) => StaysConnected(mq')
  <2>1. /\ d \in MqttClient
        /\ d.used = mq.used /\ d.state = mq.state /\ d.queue = mq.queue
        /\ d.connack = mq.connack /\ d.acks = mq.acks
        /\ TopicComes(mq) => TopicComes(d)
        /\ mq.used => d.next = conf
        /\ StaysConnected(mq) /\ (b \/ conf = mq.next) => StaysConnected(d)
    BY <1>1, UpdateGives
  <2>2. mq' = d
    OBVIOUS
  <2> HIDE DEF d
  <2> QED
    BY <2>1, <2>2
<1>3. mq_dm'.enable /\ ~mq_dm'.wasOff => StaysConnected(mq') /\ mq'.next = mq_dm'.conf
  BY <1>2 DEF MqttIndInv, StaysConnected
<1>4. /\ ~mq_dm'.enable /\ ~mq_dm'.wasOff => ~mq.used
      /\ mq_failures = 0 /\ mq_dm'.sub = "on" => TopicComes(mq')
  BY <1>2 DEF MqttIndInv
<1>5. mq_changes' \in 0..MaxMqttChanges
  BY ChangeCounted
<1> QED
  BY <1>1, <1>2, <1>3, <1>4, <1>5, QuietStep

\* A parameter that needs another connection.
LEMMA BrokerAddressStep ==
    ASSUME MqttIndInv, NotifyChange_MQTTBrokerAddress
    PROVE MqttIndInv' /\ StepOfQueue
<1>1. mq \in MqttClient /\ mq_dm \in DmType
  BY DEF MqttIndInv, MqttTypeOK, DmType
<1>2. /\ mq_dm' \in DmType /\ mq_dm'.conf = mq_dm.conf + 1 /\ mq_dm'.enable = mq_dm.enable
      /\ mq_dm'.wasOff = mq_dm.wasOff /\ mq_dm'.sub = mq_dm.sub /\ mq_dm.conf + 1 \in Nat
  BY <1>1 DEF DmType, NotifyChange_MQTTBrokerAddress
<1>3. MqttChange /\ UNCHANGED <<mq_allowed, mq_connecting, mqGhost, mq_n, mq_failures>>
  BY DEF NotifyChange_MQTTBrokerAddress
<1>4. CASE mq_dm.enable
  <2>1. mq' = MQTT_UpdateConnectionParams(mq, mq_dm.conf + 1, TRUE)
    BY <1>4 DEF NotifyChange_MQTTBrokerAddress
  <2> QED
    BY <1>2, <1>3, <2>1, UpdateStep
<1>5. CASE ~mq_dm.enable
  <2>1. mq' = mq
    BY <1>5 DEF NotifyChange_MQTTBrokerAddress
  <2>2. mq_changes' \in 0..MaxMqttChanges /\ mq_allowed' \in BOOLEAN
    BY <1>3, ChangeCounted DEF MqttIndInv, MqttTypeOK
  <2>3. /\ ~mq_dm.enable /\ ~mq_dm.wasOff => ~mq.used
        /\ mq_failures = 0 /\ mq_dm.sub = "on" => TopicComes(mq)
        /\ ~("sub_user" \in mq.acks /\ "unsub_user" \in mq.acks)
    BY DEF MqttIndInv, ClientSane
  <2> QED
    BY <1>1, <1>2, <1>3, <1>5, <2>1, <2>2, <2>3, QuietStep
<1> QED
  BY <1>4, <1>5

\* Parameters of the next connection, and a reconnection that the controller asks for.
LEMMA ParamsStep ==
    ASSUME MqttIndInv, NotifyChange_MQTTKeepAliveTime \/ Operate_MQTTForceReconnect
    PROVE MqttIndInv' /\ StepOfQueue
<1>1. mq_dm \in DmType /\ mq_dm.conf \in Nat
  BY DEF MqttIndInv, MqttTypeOK, DmType
<1>2. MqttChange /\ UNCHANGED <<mq_dm, mq_allowed, mq_connecting, mqGhost, mq_n, mq_failures>>
  BY DEF NotifyChange_MQTTKeepAliveTime, Operate_MQTTForceReconnect
<1>3. PICK b \in BOOLEAN : mq' = MQTT_UpdateConnectionParams(mq, mq_dm.conf, b)
  BY DEF NotifyChange_MQTTKeepAliveTime, Operate_MQTTForceReconnect
<1>4. mq_dm' \in DmType /\ mq_dm' = mq_dm
  BY <1>1, <1>2
<1> QED
  BY <1>1, <1>2, <1>3, <1>4, UpdateStep

\* Closing is scheduled.
LEMMA DisableStep ==
    ASSUME MqttIndInv, MQTT_DisableClient
    PROVE MqttIndInv' /\ StepOfQueue
<1>1. mq \in MqttClient /\ mq_dm \in DmType /\ mq_allowed \in BOOLEAN /\ MqttChange
  BY DEF MqttIndInv, MqttTypeOK, DmType, MQTT_DisableClient
<1>2. mq_dm' \in DmType /\ mq_dm'.wasOff /\ mq_dm'.sub = mq_dm.sub
  BY <1>1 DEF DmType, MQTT_DisableClient
<1>3. /\ mq' \in MqttClient
      /\ mq'.used = mq.used /\ mq'.state = mq.state /\ mq'.queue = mq.queue /\ mq'.connack = mq.connack
      /\ mq'.acks = mq.acks /\ mq'.sub = mq.sub /\ mq'.broker = mq.broker
  BY <1>1 DEF MQTT_DisableClient, MqttClient, MqttAction
<1>4. /\ ~("sub_user" \in mq'.acks /\ "unsub_user" \in mq'.acks)
      /\ mq_failures = 0 /\ mq_dm'.sub = "on" => TopicComes(mq')
  BY <1>2, <1>3 DEF MqttIndInv, ClientSane, TopicComes
<1>5. UNCHANGED <<mq_allowed, mq_connecting, mqGhost, mq_n, mq_failures>>
  BY DEF MQTT_DisableClient
<1>6. mq_changes' \in 0..MaxMqttChanges
  BY <1>1, ChangeCounted
<1> QED
  BY <1>1, <1>2, <1>3, <1>4, <1>5, <1>6, QuietStep

\* What was scheduled before the responses went out takes effect after them.
LEMMA ActivateStep ==
    ASSUME MqttIndInv, MQTT_ActivateScheduledActions
    PROVE MqttIndInv' /\ StepOfQueue
<1>1. mq \in MqttClient /\ mq_dm \in DmType /\ mq_allowed \in BOOLEAN /\ mq_changes \in 0..MaxMqttChanges
  BY DEF MqttIndInv, MqttTypeOK, DmType
<1>2. UNCHANGED <<mq_dm, mq_allowed, mq_connecting, mqGhost, mq_n, mq_changes, mq_failures>>
  BY DEF MQTT_ActivateScheduledActions
<1>3. /\ mq' \in MqttClient
      /\ mq'.used = mq.used /\ mq'.state = mq.state /\ mq'.queue = mq.queue /\ mq'.connack = mq.connack
      /\ mq'.acks = mq.acks /\ mq'.sub = mq.sub /\ mq'.broker = mq.broker /\ mq'.conn = mq.conn
      /\ mq'.next = mq.next /\ mq'.isReconnect = mq.isReconnect
      /\ mq.close = "Off" => mq'.close = "Off"
      /\ mq'.reconnect = "Off" => mq.reconnect = "Off"
  BY <1>1 DEF MQTT_ActivateScheduledActions, Activated, MqttClient, MqttAction
<1>4. /\ ~("sub_user" \in mq'.acks /\ "unsub_user" \in mq'.acks)
      /\ TopicComes(mq) => TopicComes(mq')
      /\ StaysConnected(mq) => StaysConnected(mq')
  BY <1>3 DEF MqttIndInv, ClientSane, TopicComes, StaysConnected
<1>5. /\ ~mq_dm'.enable /\ ~mq_dm'.wasOff => ~mq.used
      /\ mq_dm'.enable /\ ~mq_dm'.wasOff => StaysConnected(mq') /\ mq'.next = mq_dm'.conf
      /\ mq_failures = 0 /\ mq_dm'.sub = "on" => TopicComes(mq')
  BY <1>2, <1>3, <1>4 DEF MqttIndInv
<1> QED
  BY <1>1, <1>2, <1>3, <1>4, <1>5, QuietStep

LEMMA AllowStep ==
    ASSUME MqttIndInv, MQTT_AllowConnect
    PROVE MqttIndInv' /\ StepOfQueue
BY DEF MqttIndInv, MqttTypeOK, MQTT_AllowConnect, mqGhost, MqttConnectFirst, StepOfQueue, MqttQueue!qVars

\* A change of the subscription leaves queue and connection alone.
LEMMA SubStep ==
    ASSUME MqttIndInv, NEW s \in {"none", "off", "on"}, MqttChange, mq' \in MqttClient,
           mq_dm' = [mq_dm EXCEPT !.sub = s],
           mq'.used = mq.used, mq'.state = mq.state, mq'.queue = mq.queue, mq'.connack = mq.connack,
           mq'.next = mq.next, mq'.conn = mq.conn, mq'.close = mq.close, mq'.reconnect = mq.reconnect,
           mq'.isReconnect = mq.isReconnect,
           ~("sub_user" \in mq'.acks /\ "unsub_user" \in mq'.acks),
           s = "on" => TopicComes(mq'),
           UNCHANGED <<mq_allowed, mq_connecting, mqGhost, mq_n, mq_failures>>
    PROVE MqttIndInv' /\ StepOfQueue
<1>1. mq_dm \in DmType /\ mq_allowed \in BOOLEAN /\ mq_changes' \in 0..MaxMqttChanges
  BY ChangeCounted DEF MqttIndInv, MqttTypeOK, DmType
<1>2. /\ mq_dm' \in DmType /\ mq_dm'.enable = mq_dm.enable /\ mq_dm'.wasOff = mq_dm.wasOff
      /\ mq_dm'.conf = mq_dm.conf /\ mq_dm'.sub = s
  BY <1>1 DEF DmType
<1>3. StaysConnected(mq) => StaysConnected(mq')
  BY DEF StaysConnected
<1>4. /\ ~mq_dm'.enable /\ ~mq_dm'.wasOff => ~mq.used
      /\ mq_dm'.enable /\ ~mq_dm'.wasOff => StaysConnected(mq') /\ mq'.next = mq_dm'.conf
  BY <1>2, <1>3 DEF MqttIndInv
<1> QED
  BY <1>1, <1>2, <1>4, QuietStep

\* A slot is filled, and subscribed to at once on a running connection.
LEMMA AddSubscriptionStep ==
    ASSUME MqttIndInv, NEW s \in {"off", "on"}, MQTT_AddSubscription(s)
    PROVE MqttIndInv' /\ StepOfQueue
<1> DEFINE c == [mq EXCEPT !.sub = SubConfig(s)]
           u == SubscribeUser(c)
<1>1. /\ mq \in MqttClient /\ ClientSane(mq) /\ MqttChange /\ mq_dm' = [mq_dm EXCEPT !.sub = s]
      /\ UNCHANGED <<mq_allowed, mq_connecting, mqGhost, mq_n, mq_failures>>
  BY DEF MqttIndInv, MqttTypeOK, MQTT_AddSubscription
<1>2. mq' = IF ~mq.used THEN mq ELSE IF s = "on" /\ mq.state = "Running" THEN u ELSE c
  BY DEF MQTT_AddSubscription
<1>3. SubConfig(s) \in MqttSub /\ (s = "on" => SubConfig(s).enabled)
  BY SubConfigGives
<1>4. c \in MqttClient
  BY <1>1, <1>3 DEF MqttClient
<1>5. /\ c.used = mq.used /\ c.state = mq.state /\ c.queue = mq.queue /\ c.connack = mq.connack
      /\ c.next = mq.next /\ c.conn = mq.conn /\ c.close = mq.close /\ c.reconnect = mq.reconnect
      /\ c.isReconnect = mq.isReconnect /\ c.acks = mq.acks /\ c.sub = SubConfig(s)
  BY <1>1 DEF MqttClient
<1> HIDE DEF c
<1>6. /\ u \in MqttClient
      /\ u.used = c.used /\ u.next = c.next /\ u.conn = c.conn /\ u.queue = c.queue /\ u.state = c.state
      /\ u.connack = c.connack /\ u.close = c.close /\ u.reconnect = c.reconnect
      /\ u.isReconnect = c.isReconnect /\ u.sub.enabled = c.sub.enabled
      /\ "sub_user" \in u.acks /\ "unsub_user" \notin u.acks
  BY <1>4, SubscribeUserGives
<1> HIDE DEF u
<1>7. ~("sub_user" \in mq.acks /\ "unsub_user" \in mq.acks)
  BY <1>1 DEF ClientSane
<1>8. CASE ~mq.used
  <2>1. mq' = mq /\ TopicComes(mq)
    BY <1>2, <1>8 DEF TopicComes
  <2> QED
    BY <1>1, <1>7, <2>1, SubStep
<1>9. CASE mq.used /\ s = "on" /\ mq.state = "Running"
  <2>1. mq' = u /\ TopicComes(u)
    BY <1>2, <1>3, <1>5, <1>6, <1>9 DEF TopicComes
  <2> QED
    BY <1>1, <1>5, <1>6, <2>1, SubStep
<1>10. CASE mq.used /\ ~(s = "on" /\ mq.state = "Running")
  <2>1. mq' = c /\ (s = "on" => TopicComes(c))
    BY <1>2, <1>3, <1>5, <1>10 DEF TopicComes
  <2> QED
    BY <1>1, <1>4, <1>5, <1>7, <2>1, SubStep
<1> QED
  BY <1>8, <1>9, <1>10

\* What a change of Enable or Topic leaves: on a running connection the topic that is wanted is subscribed
\* to, or is unsubscribed from first.
LEMMA ResubscriptionGives ==
    ASSUME NEW c \in MqttClient, ClientSane(c), NEW s \in {"off", "on"}
    PROVE LET d == ScheduleResubscription(c, s) IN
          /\ d \in MqttClient
          /\ d.used = c.used /\ d.state = c.state /\ d.queue = c.queue /\ d.connack = c.connack
          /\ d.next = c.next /\ d.conn = c.conn /\ d.close = c.close /\ d.reconnect = c.reconnect
          /\ d.isReconnect = c.isReconnect
          /\ ~("sub_user" \in d.acks /\ "unsub_user" \in d.acks)
          /\ s = "on" => TopicComes(d)
<1> DEFINE d == ScheduleResubscription(c, s)
           e == [c EXCEPT !.sub.enabled = (s = "on")]
           st == IF s = "on" THEN "Resubscribing" ELSE "Unsubscribing"
           f == [c EXCEPT !.sub = SubConfig(s)]
           g == [e EXCEPT !.sub.st = "Unsubscribed"]
<1>1. c.sub \in MqttSub /\ ~("sub_user" \in c.acks /\ "unsub_user" \in c.acks)
  BY DEF MqttClient, ClientSane
<1>2. /\ e \in MqttClient /\ e.sub = [c.sub EXCEPT !.enabled = (s = "on")]
      /\ e.used = c.used /\ e.state = c.state /\ e.queue = c.queue /\ e.connack = c.connack
      /\ e.next = c.next /\ e.conn = c.conn /\ e.close = c.close /\ e.reconnect = c.reconnect
      /\ e.isReconnect = c.isReconnect /\ e.acks = c.acks
  BY <1>1 DEF MqttClient, MqttSub
<1>3. e.sub \in MqttSub /\ (s = "on" => e.sub.enabled)
  <2>1. ASSUME NEW b \in BOOLEAN
        PROVE [c.sub EXCEPT !.enabled = b] \in MqttSub /\ [c.sub EXCEPT !.enabled = b].enabled = b
    BY <1>1 DEF MqttSub
  <2> DEFINE b == (s = "on")
  <2>2. b \in BOOLEAN /\ (s = "on" => b) /\ e.sub = [c.sub EXCEPT !.enabled = b]
    BY <1>2
  <2> HIDE DEF b, e
  <2> QED
    BY <2>1, <2>2
<1>4. /\ d = IF c.state # "Running" THEN f
             ELSE IF c.sub.enabled /\ c.sub.st \notin {"Unsubscribed", "Unsubscribing"} THEN UnsubscribeUser(e, st)
             ELSE IF s = "on" THEN SubscribeUser(e) ELSE g
      /\ st \in SubState
  BY DEF ScheduleResubscription, SubState
<1>5. CASE d = f /\ c.state # "Running"
  <2>1. SubConfig(s) \in MqttSub /\ (s = "on" => SubConfig(s).enabled)
    BY SubConfigGives
  <2>2. f \in MqttClient
    BY <2>1 DEF MqttClient
  <2>3. /\ f.used = c.used /\ f.state = c.state /\ f.queue = c.queue /\ f.connack = c.connack
        /\ f.next = c.next /\ f.conn = c.conn /\ f.close = c.close /\ f.reconnect = c.reconnect
        /\ f.isReconnect = c.isReconnect /\ f.acks = c.acks /\ f.sub = SubConfig(s)
    BY DEF MqttClient
  <2> HIDE DEF f, d
  <2>4. s = "on" => TopicComes(f)
    BY <1>5, <2>1, <2>3 DEF TopicComes
  <2> QED
    BY <1>1, <1>5, <2>2, <2>3, <2>4 DEF d
<1>6. CASE d = UnsubscribeUser(e, st)
  <2> HIDE DEF d, e, st
  <2>1. /\ d \in MqttClient
        /\ d.used = e.used /\ d.next = e.next /\ d.conn = e.conn /\ d.queue = e.queue /\ d.state = e.state
        /\ d.connack = e.connack /\ d.close = e.close /\ d.reconnect = e.reconnect
        /\ d.isReconnect = e.isReconnect /\ d.sub.enabled = e.sub.enabled /\ d.sub.st = st
        /\ "unsub_user" \in d.acks /\ "sub_user" \notin d.acks
    <3>1. e \in MqttClient /\ st \in SubState
      BY <1>2, <1>4
    <3> QED
      BY <1>6, <3>1, UnsubscribeUserGives
  <2>2. s = "on" => TopicComes(d)
    BY <1>3, <2>1 DEF TopicComes, st
  <2> QED
    BY <1>2, <2>1, <2>2 DEF d
<1>7. CASE d = SubscribeUser(e) /\ s = "on"
  <2> HIDE DEF d, e
  <2>1. /\ d \in MqttClient
        /\ d.used = e.used /\ d.next = e.next /\ d.conn = e.conn /\ d.queue = e.queue /\ d.state = e.state
        /\ d.connack = e.connack /\ d.close = e.close /\ d.reconnect = e.reconnect
        /\ d.isReconnect = e.isReconnect /\ d.sub.enabled = e.sub.enabled
        /\ "sub_user" \in d.acks /\ "unsub_user" \notin d.acks
    BY <1>2, <1>7, SubscribeUserGives
  <2>2. TopicComes(d)
    BY <1>3, <1>7, <2>1 DEF TopicComes
  <2> QED
    BY <1>2, <2>1, <2>2 DEF d
<1>8. CASE d = g /\ s # "on"
  <2> HIDE DEF d, e
  <2>1. /\ g.used = e.used /\ g.next = e.next /\ g.conn = e.conn /\ g.queue = e.queue /\ g.state = e.state
        /\ g.connack = e.connack /\ g.close = e.close /\ g.reconnect = e.reconnect
        /\ g.isReconnect = e.isReconnect /\ g.acks = e.acks
    BY <1>2 DEF MqttClient
  <2>2. g \in MqttClient
    BY <1>2, <1>3 DEF MqttClient, MqttSub, SubState
  <2> QED
    BY <1>1, <1>2, <1>8, <2>1, <2>2 DEF d
<1> QED
  BY <1>4, <1>5, <1>6, <1>7, <1>8

LEMMA ResubscriptionStep ==
    ASSUME MqttIndInv, NEW s \in {"off", "on"}, MQTT_ScheduleResubscription(s)
    PROVE MqttIndInv' /\ StepOfQueue
<1>1. /\ mq \in MqttClient /\ ClientSane(mq) /\ MqttChange /\ mq_dm' = [mq_dm EXCEPT !.sub = s]
      /\ UNCHANGED <<mq_allowed, mq_connecting, mqGhost, mq_n, mq_failures>>
  BY DEF MqttIndInv, MqttTypeOK, MQTT_ScheduleResubscription
<1>2. CASE mq.used /\ mq.sub.inst
  <2> DEFINE d == ScheduleResubscription(mq, s)
  <2>1. /\ d \in MqttClient
        /\ d.used = mq.used /\ d.state = mq.state /\ d.queue = mq.queue /\ d.connack = mq.connack
        /\ d.next = mq.next /\ d.conn = mq.conn /\ d.close = mq.close /\ d.reconnect = mq.reconnect
        /\ d.isReconnect = mq.isReconnect
        /\ ~("sub_user" \in d.acks /\ "unsub_user" \in d.acks)
        /\ s = "on" => TopicComes(d)
    BY <1>1, ResubscriptionGives
  <2>2. mq' = d
    BY <1>2 DEF MQTT_ScheduleResubscription
  <2> HIDE DEF d
  <2> QED
    BY <1>1, <2>1, <2>2, SubStep
<1>3. CASE ~(mq.used /\ mq.sub.inst)
  <2>1. mq' = mq /\ TopicComes(mq)
    BY <1>3 DEF MQTT_ScheduleResubscription, TopicComes
  <2>2. ~("sub_user" \in mq.acks /\ "unsub_user" \in mq.acks)
    BY <1>1 DEF ClientSane
  <2> QED
    BY <1>1, <2>1, <2>2, SubStep
<1> QED
  BY <1>2, <1>3

\* The slot is freed.
LEMMA DeleteSubscriptionStep ==
    ASSUME MqttIndInv, MQTT_DeleteSubscription
    PROVE MqttIndInv' /\ StepOfQueue
<1> DEFINE c == IF mq.sub.enabled /\ mq.state = "Running" /\ mq.sub.st \in {"Resubscribing", "Subscribed"}
                THEN UnsubscribeUser(mq, "Unsubscribing") ELSE mq
           d == [c EXCEPT !.sub.inst = FALSE]
<1>1. /\ mq \in MqttClient /\ ClientSane(mq) /\ MqttChange /\ mq_dm' = [mq_dm EXCEPT !.sub = "none"]
      /\ UNCHANGED <<mq_allowed, mq_connecting, mqGhost, mq_n, mq_failures>>
      /\ mq' = IF mq.used THEN d ELSE mq
  BY DEF MqttIndInv, MqttTypeOK, MQTT_DeleteSubscription
<1>2. ~("sub_user" \in mq.acks /\ "unsub_user" \in mq.acks) /\ "Unsubscribing" \in SubState
  BY <1>1 DEF ClientSane, SubState
<1>3. /\ c \in MqttClient
      /\ c.used = mq.used /\ c.state = mq.state /\ c.queue = mq.queue /\ c.connack = mq.connack
      /\ c.next = mq.next /\ c.conn = mq.conn /\ c.close = mq.close /\ c.reconnect = mq.reconnect
      /\ c.isReconnect = mq.isReconnect /\ ~("sub_user" \in c.acks /\ "unsub_user" \in c.acks)
  BY <1>1, <1>2, UnsubscribeUserGives
<1> HIDE DEF c
<1>4. d \in MqttClient
  BY <1>3 DEF MqttClient, MqttSub
<1>5. /\ d.used = c.used /\ d.state = c.state /\ d.queue = c.queue /\ d.connack = c.connack
      /\ d.next = c.next /\ d.conn = c.conn /\ d.close = c.close /\ d.reconnect = c.reconnect
      /\ d.isReconnect = c.isReconnect /\ d.acks = c.acks
  BY <1>3 DEF MqttClient
<1> HIDE DEF d
<1>6. CASE mq.used
  <2>1. mq' = d
    BY <1>1, <1>6
  <2> QED
    BY <1>1, <1>3, <1>4, <1>5, <2>1, SubStep
<1>7. CASE ~mq.used
  <2>1. mq' = mq
    BY <1>1, <1>7
  <2> QED
    BY <1>1, <1>2, <2>1, SubStep
<1> QED
  BY <1>6, <1>7

\* Every step of the client keeps the invariant and is a step of the queue or none.
LEMMA MqttStep ==
    ASSUME MqttIndInv, [MqttNext]_mqVars
    PROVE MqttIndInv' /\ StepOfQueue
<1>1. CASE UNCHANGED mqVars
  BY <1>1 DEF mqVars, MqttIndInv, MqttTypeOK, MqttConnectFirst, StepOfQueue, MqttQueue!qVars
<1>2. CASE MQTT_ProcessAllSocketActivity
  BY <1>2, ProcessStep
<1>3. CASE Connect
  BY <1>3, ConnectStep
<1>4. ASSUME NEW ok \in BOOLEAN, Connected(ok) PROVE MqttIndInv' /\ StepOfQueue
  BY <1>4, ConnectedStep
<1>5. ASSUME NEW expired \in SUBSET Messages(mq.queue), NEW result \in {"none", "sent", "drop", "retry"},
             PublishQueued(expired, result)
      PROVE MqttIndInv' /\ StepOfQueue
  BY <1>5, PublishStep
<1>6. CASE RetryMqttClient
  BY <1>6, RetryStep
<1>7. CASE EnableMQTTClient
  BY <1>7, EnableStep
<1>8. CASE MQTT_DisableClient
  BY <1>8, DisableStep
<1>9. CASE NotifyChange_MQTTBrokerAddress
  BY <1>9, BrokerAddressStep
<1>10. CASE NotifyChange_MQTTKeepAliveTime \/ Operate_MQTTForceReconnect
  BY <1>10, ParamsStep
<1>11. CASE MQTT_ActivateScheduledActions
  BY <1>11, ActivateStep
<1>12. CASE MQTT_AllowConnect
  BY <1>12, AllowStep
<1>13. ASSUME NEW kind \in {"message", "disconnect"}, NEW expired \in SUBSET Messages(mq.queue),
              MQTT_QueueBinaryMessage(kind, expired)
       PROVE MqttIndInv' /\ StepOfQueue
  BY <1>13, QueueStep
<1>14. ASSUME NEW s \in {"off", "on"}, MQTT_AddSubscription(s) PROVE MqttIndInv' /\ StepOfQueue
  BY <1>14, AddSubscriptionStep
<1>15. ASSUME NEW s \in {"off", "on"}, MQTT_ScheduleResubscription(s) PROVE MqttIndInv' /\ StepOfQueue
  BY <1>15, ResubscriptionStep
<1>16. CASE MQTT_DeleteSubscription
  BY <1>16, DeleteSubscriptionStep
<1> QED
  BY <1>1, <1>2, <1>3, <1>4, <1>5, <1>6, <1>7, <1>8, <1>9, <1>10, <1>11, <1>12, <1>13, <1>14, <1>15, <1>16
  DEF MqttNext

LEMMA MqttStarts == ASSUME MqttInit PROVE MqttIndInv /\ MqttQueue!QInit
<1>1. InitClient \in MqttClient
  BY DEF InitClient, MqttClient, NoSub, MqttSub, MqttState, MqttAction, SubState
<1>2. /\ ~InitClient.used /\ InitClient.state = "Idle" /\ InitClient.queue = {} /\ InitClient.acks = {}
      /\ ~InitClient.connack
  BY DEF InitClient
<1>3. MqttTypeOK
  <2>1. mq \in MqttClient /\ mq_allowed \in BOOLEAN /\ mq_connecting \in BOOLEAN /\ mq_first = "none"
    BY <1>1 DEF MqttInit
  <2>2. mq_dm \in [enable : BOOLEAN, conf : Nat, sub : {"none", "off", "on"}, wasOff : BOOLEAN]
    BY DEF MqttInit
  <2>3. mq_sent \in Seq(Nat) /\ mq_done \subseteq 1..mq_n
    BY DEF MqttInit
  <2>4. mq_n \in 0..MaxMqttRecords /\ mq_changes \in 0..MaxMqttChanges /\ mq_failures \in 0..MaxMqttFailures
    BY MqttAssumption DEF MqttInit
  <2> QED
    BY <2>1, <2>2, <2>3, <2>4 DEF MqttTypeOK
<1>4. ClientSane(mq) /\ TopicComes(mq)
  BY <1>2 DEF MqttInit, ClientSane, TopicComes
<1>5. MqttIndInv
  BY <1>2, <1>3, <1>4 DEF MqttInit, MqttIndInv, MqttConnectFirst
<1>6. Messages(mq.queue) = {}
  BY <1>2 DEF MqttInit, Messages
<1> QED
  BY <1>2, <1>5, <1>6 DEF MqttInit, MqttQueue!QInit
-----------------------------------------------------------------------------
(* The theorems. *)

\* Between any two steps of the DM thread, the MTP thread and the callbacks of libmosquitto, the client,
\* the data model and the records published so far fit together.
THEOREM MqttInvariant == MqttSpec => []MqttIndInv
<1>1. MqttInit => MqttIndInv
  BY MqttStarts
<1>2. MqttIndInv /\ [MqttNext]_mqVars => MqttIndInv'
  BY MqttStep
<1> QED
  BY <1>1, <1>2, PTL DEF MqttSpec

\* A controller gets the connect record first on every connection (QueueUspMqttConnectRecords); a running
\* client that stays enabled uses the parameters of the data model, whenever they changed; once the broker
\* has answered everything and nothing failed, it has the subscription of the data model.
THEOREM MqttCorrect == MqttSpec => []MqttInv
<1>1. MqttIndInv => MqttInv
  BY DEF MqttIndInv, MqttInv, MqttParamsCurrent, StaysConnected, MqttSubscribed, TopicComes
<1> QED
  BY <1>1, MqttInvariant, PTL

\* The client's queue implements MtpQueue: errors, retries, new parameters and reconnections lose no
\* message, and on a connection messages are published once and in the order of MQTT_QueueBinaryMessage.
THEOREM MqttImplementsQueue == MqttSpec => MqttKeepsQueue
<1>1. MqttInit => MqttQueue!QInit
  BY MqttStarts
<1>2. MqttIndInv /\ [MqttNext]_mqVars => [MqttQueue!QNext]_MqttQueue!qVars
  BY MqttStep DEF StepOfQueue
<1> QED
  BY <1>1, <1>2, MqttInvariant, PTL DEF MqttSpec, MqttKeepsQueue, MqttQueue!QSpec
=============================================================================
