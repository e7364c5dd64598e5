----------------------------- MODULE MCRawWindows -----------------------------
(* Small instances of RawWindows: two signals, one of them restricted to a  *)
(* service, over two tables, with a window of a tick on each side.          *)
EXTENDS RawWindows

S(t, s, at) == [table |-> t, service |-> s, at |-> at]

MCScope == [g \in {"alert", "anomaly"} |-> IF g = "alert" THEN "all" ELSE "web"]
MCTables == <<"gauge", "sum">>
MCSamples == {S("gauge", "web", 0), S("gauge", "web", 1), S("sum", "db", 1)}
MCFewSamples == {S("gauge", "web", 0), S("sum", "web", 1)}
=============================================================================
