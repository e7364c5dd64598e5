---------------------------- MODULE MCTailBroker ----------------------------
(* Small instances of TailBroker: a client that takes everything and one   *)
(* with both filters, three events from two sources and services.          *)
EXTENDS TailBroker

CONSTANTS c1, c2, e1, e2, e3

MCConns == {c1, c2}
MCEvents == {e1, e2, e3}
MCFewEvents == {e2, e3}
MCSource == [e \in MCEvents |-> IF e = e1 THEN "ai" ELSE "logs"]
MCService == [e \in MCEvents |-> IF e = e3 THEN "db" ELSE "web"]
MCWantSource == [c \in MCConns |-> IF c = c1 THEN "all" ELSE "logs"]
MCWantService == [c \in MCConns |-> IF c = c1 THEN "" ELSE "web"]
=============================================================================
