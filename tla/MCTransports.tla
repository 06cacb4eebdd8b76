----------------------------- MODULE MCTransports -----------------------------
(***************************************************************************)
(* The message transfer protocols other than STOMP, in one run.  The       *)
(* initial state picks the transport that runs; the others stand still, so *)
(* the state space is the union of theirs and not the product.             *)
(***************************************************************************)
EXTENDS Mqtt, WsClient, WsServer, Coap

VARIABLE part

vars == <<mqVars, wcVars, wssVars, coVars, part>>

Init ==
    /\ part \in {"mqtt", "wsclient", "wsserver", "coap"}
    /\ MqttInit /\ WsInit /\ WssInit /\ CoapInit
    /\ part # "mqtt" => ~mq_allowed
    /\ part # "wsclient" => ~wc_may
    /\ part # "coap" => ~co_found /\ ~co_enc

Next ==
    /\ UNCHANGED part
    /\ \/ part = "mqtt" /\ MqttNext /\ UNCHANGED <<wcVars, wssVars, coVars>>
       \/ part = "wsclient" /\ WsNext /\ UNCHANGED <<mqVars, wssVars, coVars>>
       \/ part = "wsserver" /\ WssNext /\ UNCHANGED <<mqVars, wcVars, coVars>>
       \/ part = "coap" /\ CoapNext /\ UNCHANGED <<mqVars, wcVars, wssVars>>

\* Fairness matters to the one liveness property, of the websocket server, only.
Spec == Init /\ [][Next]_vars /\ WssFairness
==============================================================================
