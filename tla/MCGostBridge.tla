----------------------------- MODULE MCGostBridge -----------------------------
(* GostBridge with three connections, the primary host and one sibling.    *)
EXTENDS GostBridge

CONSTANTS c1, c2, c3, gost, plain

MCClient == {c1, c2, c3}
MCHost == {gost, plain}
MCKind == Kinds

\* Each host has a name of its own for its cookie, or both have the same.
OwnName == [h \in MCHost |-> IF h = gost THEN "PHPSESSID" ELSE "sid"]
OneName == [h \in MCHost |-> "PHPSESSID"]
===============================================================================
