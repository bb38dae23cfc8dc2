----------------------------- MODULE MCGostLogin -----------------------------
(* GostLogin with a server that cuts its flight of eleven pieces into      *)
(* records of two pieces, or sends all that is left in one, as it likes.   *)
EXTENDS GostLogin

MCCut == {2}
===============================================================================
