----------------------------- MODULE MCPageQueue -----------------------------
(* PageQueue with two signatures, one of them in two parts, and a pump or  *)
(* two.                                                                    *)
EXTENDS PageQueue

MCMessage == {"long", "short"}
MCMethod  == [m \in MCMessage |-> "signature"]
MCParts   == [m \in MCMessage |-> IF m = "long" THEN 2 ELSE 1]
MCPump    == {"p1", "p2"}
=============================================================================
