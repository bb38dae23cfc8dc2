---------------------------- MODULE MCRecordLayer ----------------------------
(* RecordLayer on two ends, two content types, an empty and a one-byte     *)
(* fragment and a two-byte tag.                                            *)
EXTENDS RecordLayer, TLC

CONSTANTS client, server, handshake, appdata, empty, byte

MCEnd == {client, server}
MCContentType == {handshake, appdata}
MCFragment == {empty, byte}
MCMaxSent == (client :> 2) @@ (server :> 1)
MCSize == [f \in MCFragment |-> IF f = empty THEN 0 ELSE 1]
==============================================================================
