------------------------------ MODULE MCBroker ------------------------------
(* Constants instantiating Broker for TLC.                                *)
EXTENDS Broker

\* Three pipes: p1 and p2 carry client-id c1 (a client that reconnects),
\* p3 carries c2.
MCPipes == {"p1", "p2", "p3"}
MCClientOf == [p \in Pipes |-> IF p = "p3" THEN "c2" ELSE "c1"]
MCTwoPipes == {"p1", "p2"}
MCOrder == <<"p1", "p2", "p3">>
MCTwoOrder == <<"p1", "p2">>
\* One pipe.
MCOnePipe == {"p1"}
MCOneOrder == <<"p1">>
\* Two pipes of two different clients.
MCPairPipes == {"p1", "p3"}
MCPairOrder == <<"p1", "p3">>

\* "t" is a client topic, "sys" the notification topic, "#" matches both.
MCTopics == {"t", "sys"}
MCFilters == {"t", "#"}
MCMatch(f, t) == f = "#" \/ f = t

\* Scenario bound: no connection is closed (no DISCONNECT, no teardown).
MCStayOpen == \A p \in Pipes : pstate[p] # "closed"
=============================================================================
