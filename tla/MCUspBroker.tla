---------------------------- MODULE MCUspBroker -----------------------------
(* Two services that offer overlapping paths, a parameter of the Broker's own *)
(* and 'Device.' itself; only the first uses both sockets.  One subscription  *)
(* to a node, one to another node and 'Device.'.                              *)
EXTENDS UspBroker

N(name, kind) == [name |-> name, kind |-> kind]
A  == N(<<"A">>, "object")
AE == N(<<"A", "E">>, "event")
AC == N(<<"A", "C">>, "command")
BE == N(<<"B", "E">>, "event")
K  == N(<<"K">>, "param")

MCNodes == {A, AE, AC, BE}
MCCore == {K}
MCServices == {"s1", "s2"}
MCUses == [s \in MCServices |-> IF s = "s1" THEN Sockets ELSE {"controller"}]
MCOffers == [s \in MCServices |->
    IF s = "s1" THEN {<<A>>, <<BE>>} ELSE {<<AE, BE, K, DeviceDot>>}]
MCTrusted == [s \in MCServices |-> IF s = "s1" THEN MCNodes ELSE {A, AE}]
MCAnswers == [s \in MCServices |-> {MCNodes}]
MCSpecs == <<{[type |-> "Event", paths |-> {BE}]}, {[type |-> "Event", paths |-> {AE, DeviceDot}]}>>

\* Bound: nothing is explored beyond a state in which a table holds more.  What a lost
\* answer leaves behind can grow without limit, one entry with every registration.
MaxEntries == IF size = 1 THEN 1 ELSE 3
Short ==
    \A s \in Services : Len(table[s]) <= MaxEntries /\ Len(subs_map[s]) <= MaxEntries

\* Ids matter only where an entry of subs_map has that of an entry of the table.
Position(s, id) == {i \in DOMAIN table[s] : table[s][i].id = id}
WithoutIds(q) == [i \in DOMAIN q |-> [q[i] EXCEPT !.id = 0]]
View ==
    <<linkVars, regVars, sub, mark, lists, faults,
      [s \in Services |-> WithoutIds(table[s])],
      [s \in Services |-> [i \in DOMAIN subs_map[s] |->
          [subs_map[s][i] EXCEPT !.id = Position(s, @)]]]>>
=============================================================================
