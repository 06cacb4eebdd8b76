------------------------------ MODULE MsgEntry ------------------------------
(***************************************************************************)
(* How a received USP record becomes a handled message (msg_handler.c):    *)
(* the checks on the record, the role the sender must have acted in        *)
(* (ValidateUspMsgType), the dispatch to a handler and the answer it       *)
(* queues.  The same program runs as a USP Broker and as a USP Service;    *)
(* both are here, joined either by the Broker's two Unix domain sockets    *)
(* or by one other transport, with a controller (external) beyond.         *)
(*                                                                         *)
(* cur[n] is cur_msg_controller_instance: set while a record is validated, *)
(* read by everything that runs in the data model thread, and cleared at   *)
(* the end of HandleUspMessage.                                            *)
(***************************************************************************)
EXTENDS Naturals, Sequences, FiniteSets

CONSTANTS
    ServiceLinks,   \* {"bc", "ba"} (Unix domain sockets) or {"stomp"}
    AskTypes,       \* the requests that are tried
    MaxAsked,       \* requests made, the ones passed on included
    MaxOdd,         \* records of the controller that hold no request
    MaxUnsent       \* failures to publish

ASSUME MsgEntryAssumption ==
    /\ ServiceLinks \in {{"bc", "ba"}, {"stomp"}}
    /\ MaxAsked \in Nat /\ MaxOdd \in Nat /\ MaxUnsent \in Nat

VARIABLES
    wire,       \* wire[l][n]: the records on link l on their way to n, oldest first
    cur,        \* the endpoint whose controller instance is the current one, or "none"
    registered, \* the Broker has a USP Service entry for the service
    waiting,    \* the requests the service still waits for as a controller
    passedOn,   \* passedOn[i]: the request that request i was made for, or 0
    asked,      \* history: the requests made
    answered,   \* history: answered[i]: the answers queued to request i
    odd, unsent \* bounds

meVars == <<wire, cur, registered, waiting, passedOn, asked, answered, odd, unsent>>

Links == ServiceLinks \union {"acs"}
Nodes == {"broker", "service", "acs"}
Programs == {"broker", "service"}
Peer(l, n) ==
    IF l = "acs" THEN (IF n = "acs" THEN "broker" ELSE "acs")
    ELSE (IF n = "broker" THEN "service" ELSE "broker")
On(l) == IF l = "acs" THEN {"acs", "broker"} ELSE Programs

(* The message types, by who sends them: sender_role in ValidateUspMsgType *)
Requests8 == {"GET", "SET", "ADD", "DELETE", "OPERATE", "GET_SUPPORTED_DM", "GET_INSTANCES", "GET_SUPPORTED_PROTO"}
Responses8 == {"GET_RESP", "SET_RESP", "ADD_RESP", "DELETE_RESP", "OPERATE_RESP",
               "GET_SUPPORTED_DM_RESP", "GET_INSTANCES_RESP", "GET_SUPPORTED_PROTO_RESP"}
FromController == Requests8 \union {"NOTIFY_RESP", "REGISTER_RESP", "DEREGISTER_RESP"}
FromAgent == Responses8 \union {"NOTIFY", "REGISTER", "DEREGISTER"}
MsgTypes == FromController \union FromAgent \union {"ERROR"}
Answerable == Requests8 \union {"NOTIFY", "REGISTER", "DEREGISTER"}

SenderRole(type) ==
    (IF type \in FromController \union {"ERROR"} THEN {"controller"} ELSE {})
        \union (IF type \in FromAgent \union {"ERROR"} THEN {"agent"} ELSE {})

RespTo(type) ==
    CASE type = "GET" -> "GET_RESP" [] type = "SET" -> "SET_RESP" [] type = "ADD" -> "ADD_RESP"
      [] type = "DELETE" -> "DELETE_RESP" [] type = "OPERATE" -> "OPERATE_RESP"
      [] type = "GET_SUPPORTED_DM" -> "GET_SUPPORTED_DM_RESP" [] type = "GET_INSTANCES" -> "GET_INSTANCES_RESP"
      [] type = "GET_SUPPORTED_PROTO" -> "GET_SUPPORTED_PROTO_RESP" [] type = "NOTIFY" -> "NOTIFY_RESP"
      [] type = "REGISTER" -> "REGISTER_RESP" [] type = "DEREGISTER" -> "DEREGISTER_RESP"

ServiceExpectsMirrored(type, l) ==
    IF type \in Responses8 \union {"REGISTER", "DEREGISTER"} THEN {}
    ELSE CASE l = "bc" -> {"agent"}
           [] l = "ba" -> {"controller"}
           [] OTHER -> {"controller", "agent"}

(* The roles a program accepts a message of this type in, on link l        *)
ServiceExpects(type, l) ==
    IF type \in Responses8 \union {"REGISTER", "DEREGISTER"} THEN {}
    ELSE CASE l = "bc" -> {"controller"}
           [] l = "ba" -> {"agent"}
           [] OTHER -> {"controller", "agent"}

BrokerExpects(type, l) ==
    IF type = "DEREGISTER_RESP" THEN {}
    ELSE CASE l = "bc" -> {"agent"}
           [] l = "ba" -> {"controller"}
           [] l = "stomp" /\ registered -> {"controller", "agent"}
           [] OTHER -> IF type = "REGISTER_RESP" THEN {} ELSE {"controller"}

VerdictAlwaysError(n, l, type) ==
    LET expected == IF n = "service" THEN ServiceExpects(type, l) ELSE BrokerExpects(type, l)
    IN  IF expected \cap SenderRole(type) # {} THEN "accept" ELSE "error"

(* ValidateUspMsgType: a refused request is answered with an error, a      *)
(* refused response or error is not answered                               *)
Verdict(n, l, type) ==
    LET expected == IF n = "service" THEN ServiceExpects(type, l) ELSE BrokerExpects(type, l)
    IN  CASE expected \cap SenderRole(type) # {} -> "accept"
          [] expected \cap SenderRole(type) = {} /\ type \in Answerable -> "error"
          [] OTHER -> "ignore"

----------------------------------------------------------------------------
(* Records                                                                 *)
NoMsg == [type |-> "none", id |-> 0]
Rec(kind, msg) == [kind |-> kind, msg |-> msg]
Message(type, id) == Rec("message", [type |-> type, id |-> id])

(* What ends in the validation of a record, and what is left of cur: the   *)
(* record is for another endpoint; names an unknown sender; came without a *)
(* reply-to from a sender that has no MTP of this protocol; is encrypted;  *)
(* is a session or a disconnect record; is empty or of no known type; or   *)
(* holds what cannot be unpacked as a message                              *)
OddKinds == {"unparsed", "connect", "misdirected", "stranger", "no_mtp", "encrypted", "session",
             "disconnect", "empty", "unpackable", "headless"}
LeavesCur == {"no_mtp", "encrypted", "session", "disconnect", "empty", "unpackable"}
Disconnects == {"encrypted", "session", "disconnect"}

(* DEVICE_CONTROLLER_FindInstanceByEndpointId: a service on the Broker's   *)
(* sockets has no row in the Broker's controller table                     *)
InstanceOf(n, l) == IF n = "broker" /\ l \in {"bc", "ba"} THEN "none" ELSE Peer(l, n)

Send(w, l, to, recs) == [w EXCEPT ![l][to] = @ \o recs]
Received(l, n) == [wire EXCEPT ![l][n] = Tail(@)]

(* An answer to request i is queued to the endpoint that sent it           *)
AnswerOn(w, l, to, type, i) ==
    /\ wire' = Send(w, l, to, <<Message(type, i)>>)
    /\ answered' = [answered EXCEPT ![i] = @ + 1]
    /\ UNCHANGED <<asked, passedOn>>

NoAnswer(w) == wire' = w /\ UNCHANGED <<answered, asked, passedOn>>

(* A request of n to the other end of l                                    *)
AskOn(w, n, l, type, for) ==
    /\ Len(asked) < MaxAsked
    /\ asked' = Append(asked, [by |-> n, to |-> Peer(l, n), type |-> type])
    /\ wire' = Send(w, l, Peer(l, n), <<Message(type, Len(asked) + 1)>>)
    /\ passedOn' = [passedOn EXCEPT ![Len(asked) + 1] = for]
    /\ UNCHANGED answered

----------------------------------------------------------------------------
(* MSG_HANDLER_HandleBinaryRecord for a record that reaches no handler     *)
HandleOdd(n, l) ==
    /\ wire[l][n] # <<>>
    /\ LET kind == Head(wire[l][n]).kind IN
       /\ kind \in OddKinds
       /\ wire' = (IF kind \in Disconnects
                   THEN Send(Received(l, n), l, Peer(l, n), <<Rec("disconnect", NoMsg)>>)
                   ELSE Received(l, n))
       /\ cur' = [cur EXCEPT ![n] = CASE kind \in LeavesCur -> InstanceOf(n, l)
                                      [] kind \in {"unparsed", "connect", "misdirected"} -> @
                                      [] OTHER -> "none"]
    /\ UNCHANGED <<registered, waiting, passedOn, asked, answered, odd, unsent>>

(* The handlers: what each may answer.  A request for what the service     *)
(* registered is passed on by the Broker (USP_BROKER_AttemptPassthru)      *)
Handler(n, l, type, i) ==
    LET rest == Received(l, n)
        from == Peer(l, n)
    IN  CASE type \in Requests8 ->
               \/ \E t \in {RespTo(type), "ERROR"} : AnswerOn(rest, l, from, t, i)
               \/ type = "OPERATE" /\ NoAnswer(rest)
               \/ \E out \in ServiceLinks \ {"ba"} :
                    n = "broker" /\ l = "acs" /\ registered /\ AskOn(rest, n, out, type, i)
          [] type = "REGISTER" /\ n = "broker" ->
               \E t \in {RespTo(type), "ERROR"} : AnswerOn(rest, l, from, t, i)
          [] type = "DEREGISTER" /\ n = "broker" -> AnswerOn(rest, l, from, RespTo(type), i)
          [] type \in Responses8 \union {"ERROR"} /\ n = "broker" /\ passedOn[i] # 0 /\ Peer(l, n) = asked[i].to ->
               AnswerOn(rest, "acs", "acs", type, passedOn[i])
          [] OTHER -> NoAnswer(rest)

(* MSG_HANDLER_HandleBinaryRecord, HandleBinaryMessage, HandleUspMessage   *)
(* for a message: an answer the service waits for is taken before its type *)
(* is looked at                                                            *)
HandleMessage(n, l) ==
    /\ wire[l][n] # <<>> /\ Head(wire[l][n]).kind = "message"
    /\ LET m == Head(wire[l][n]).msg
           expected == n = "service" /\ m.id \in waiting /\ m.type \in Responses8 \union {"ERROR"}
           verdict == Verdict(n, l, m.type)
       IN  /\ CASE expected -> NoAnswer(Received(l, n))
                [] ~expected /\ verdict = "accept" -> Handler(n, l, m.type, m.id)
                [] ~expected /\ verdict = "error" -> AnswerOn(Received(l, n), l, Peer(l, n), "ERROR", m.id)
                [] OTHER -> NoAnswer(Received(l, n))
           /\ waiting' = IF expected THEN waiting \ {m.id} ELSE waiting
           /\ registered' = (registered \/ (~expected /\ n = "broker" /\ m.type = "REGISTER" /\ verdict = "accept"))
    /\ cur' = [cur EXCEPT ![n] = "none"]
    /\ UNCHANGED <<odd, unsent>>

----------------------------------------------------------------------------
(* What starts an exchange.  The Broker asks the service as a controller   *)
(* and notifies its controllers; the service registers, deregisters and    *)
(* notifies as an agent and asks as a controller; the controller asks      *)
Starts(n, l) ==
    CASE n = "acs" -> AskTypes
      [] n = "broker" /\ l = "bc" -> AskTypes \cap Requests8
      [] n = "broker" /\ l = "stomp" /\ registered -> AskTypes \cap (Requests8 \union {"NOTIFY"})
      [] n = "broker" /\ l \in {"ba", "acs"} -> AskTypes \cap {"NOTIFY"}
      [] n = "service" /\ l = "bc" -> AskTypes \cap {"NOTIFY", "REGISTER", "DEREGISTER"}
      [] n = "service" /\ l = "ba" -> AskTypes \cap Requests8
      [] n = "service" /\ l = "stomp" -> AskTypes
      [] OTHER -> {}

Ask(n, l) ==
    /\ \E type \in Starts(n, l) :
         /\ AskOn(wire, n, l, type, 0)
         /\ waiting' = IF n = "service" /\ type \in Requests8 THEN waiting \union {Len(asked) + 1} ELSE waiting
    /\ UNCHANGED <<cur, registered, odd, unsent>>

(* The service stops waiting: its caller's timeout                         *)
GiveUp ==
    /\ \E i \in waiting : waiting' = waiting \ {i}
    /\ UNCHANGED <<wire, cur, registered, passedOn, asked, answered, odd, unsent>>

(* The controller: answers a notification, takes anything else, and may    *)
(* send a record that holds no request or an answer nobody asked for       *)
ControllerTakes ==
    /\ wire["acs"]["acs"] # <<>>
    /\ LET r == Head(wire["acs"]["acs"]) IN
       IF r.kind = "message" /\ r.msg.type = "NOTIFY"
       THEN \E t \in {"NOTIFY_RESP", "ERROR"} : AnswerOn(Received("acs", "acs"), "acs", "broker", t, r.msg.id)
       ELSE NoAnswer(Received("acs", "acs"))
    /\ UNCHANGED <<cur, registered, waiting, odd, unsent>>

ControllerOdd ==
    /\ odd < MaxOdd /\ odd' = odd + 1
    /\ \E k \in OddKinds : wire' = Send(wire, "acs", "broker", <<Rec(k, NoMsg)>>)
    /\ UNCHANGED <<cur, registered, waiting, passedOn, asked, answered, unsent>>

(* A publish to the controller fails: MSG_HANDLER_ShouldDropFailedMessage  *)
(* drops the record, or puts an error in the place of a response           *)
PublishFails ==
    /\ unsent < MaxUnsent /\ unsent' = unsent + 1
    /\ wire["acs"]["acs"] # <<>>
    /\ LET r == Head(wire["acs"]["acs"])
           rest == Tail(wire["acs"]["acs"])
       IN  IF r.kind = "message" /\ r.msg.type \in Responses8 \union {"NOTIFY_RESP", "REGISTER_RESP", "DEREGISTER_RESP"}
           THEN wire' = [wire EXCEPT !["acs"]["acs"] = <<Message("ERROR", r.msg.id)>> \o rest]
           ELSE wire' = Received("acs", "acs")
    /\ UNCHANGED <<cur, registered, waiting, passedOn, asked, answered, odd>>

MeInit ==
    /\ wire = [l \in Links |-> [n \in Nodes |-> <<>>]]
    /\ cur = [n \in Programs |-> "none"]
    /\ registered = (ServiceLinks = {"bc", "ba"})   \* the handshake of a socket adds the service
    /\ waiting = {}
    /\ asked = <<>>
    /\ passedOn = [i \in 1..MaxAsked |-> 0]
    /\ answered = [i \in 1..MaxAsked |-> 0]
    /\ odd = 0 /\ unsent = 0

MeNext ==
    \/ \E l \in Links, n \in Programs : n \in On(l) /\ (HandleOdd(n, l) \/ HandleMessage(n, l))
    \/ \E l \in Links, n \in Nodes : n \in On(l) /\ Ask(n, l)
    \/ GiveUp \/ ControllerTakes \/ ControllerOdd \/ PublishFails

MeSpec == MeInit /\ [][MeNext]_meVars

----------------------------------------------------------------------------
MeTypeOK ==
    /\ cur \in [Programs -> Nodes \union {"none"}]
    /\ registered \in BOOLEAN
    /\ waiting \subseteq 1..Len(asked)
    /\ \A l \in Links, n \in Nodes, i \in 1..Len(asked) :
         \A k \in 1..Len(wire[l][n]) :
            wire[l][n][k].kind \in OddKinds \union {"message"}
            /\ wire[l][n][k].msg.type \in MsgTypes \union {"none"}

(* Every answer on its way is to a request that the endpoint it goes to    *)
(* sent to the endpoint it comes from, and no request is answered twice:   *)
(* whatever is refused, in whichever role and however late, an error or a  *)
(* response is never itself answered.                                      *)
EveryAnswerAsked ==
    /\ \A i \in 1..Len(asked) : answered[i] <= 1
    /\ \A l \in Links, n \in Nodes :
         \A k \in 1..Len(wire[l][n]) :
            LET r == wire[l][n][k]
            IN  r.kind = "message" /\ r.msg.type \notin Answerable =>
                  asked[r.msg.id].by = n /\ asked[r.msg.id].to = Peer(l, n)

(* The message a program is about to handle, if there is one               *)
AboutToHandle(l, n) == IF wire[l][n] = <<>> \/ Head(wire[l][n]).kind # "message" THEN {} ELSE {Head(wire[l][n]).msg}

(* What one program answers the other does not refuse: the answer to a     *)
(* request the Broker or the service made, and still waits for, passes the *)
(* other's table of who may send what on which link.                       *)
AnswersAccepted ==
    \A l \in ServiceLinks, n \in Programs :
       \A m \in AboutToHandle(l, n) :
          m.type \notin Answerable /\ ~(n = "service" /\ asked[m.id].type \in Requests8) =>
             Verdict(n, l, m.type) = "accept"

(* A command of the CLI runs between two messages, and finds no current    *)
(* controller: "Exit in case of running a CLI command, and hence no        *)
(* controller instance setup" (MSG_HANDLER_GetMsgControllerEndpointId).    *)
CliHasNoController == \A n \in Programs : cur[n] = "none"

(* The table of expected results kept with the function (msg_handler.c,    *)
(* validate_msg_test_cases): 012 and 423 are the cases about a service     *)
(* that deregisters.                                                       *)
DecidedAsTested ==
    /\ \A m \in AboutToHandle("bc", "service") : m.type = "DEREGISTER_RESP" => Verdict("service", "bc", m.type) = "ignore"
    /\ \A m \in AboutToHandle("bc", "broker") : m.type = "DEREGISTER" => Verdict("broker", "bc", m.type) = "error"

(* "a USP Service must have actually connected via STOMP and sent a        *)
(* Register request": the Broker accepts a Register of the service.        *)
RegisterAccepted ==
    "stomp" \in Links => \A m \in AboutToHandle("stomp", "broker") :
       m.type = "REGISTER" => Verdict("broker", "stomp", m.type) = "accept"

(* Questions and answers match, on every link and in every role.           *)
MsgEntryInv == MeTypeOK /\ EveryAnswerAsked /\ AnswersAccepted
=============================================================================
