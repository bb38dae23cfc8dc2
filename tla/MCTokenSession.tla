---------------------------- MODULE MCTokenSession ----------------------------
(* TokenSession on a card that does not understand absolute paths, with    *)
(* the private keys 1 and 3 (the latter in the PKCS#15 directory) and a    *)
(* certificate for each: that of key 1 ends within its second block, that  *)
(* of key 3 is as long as can be read.                                     *)
EXTENDS TokenSession

MCCall ==
  {[op |-> "sign", key |-> 1, pin |-> "right", input |-> "d1"],
   [op |-> "sign", key |-> 1, pin |-> "wrong", input |-> "d2"],
   [op |-> "sign", key |-> 3, pin |-> "right", input |-> "d2"],
   [op |-> "sign", key |-> 3, pin |-> "none", input |-> "md5"],
   [op |-> "vko", key |-> 1, pin |-> "right", input |-> "d1"],
   [op |-> "vko", key |-> 3, pin |-> "right", input |-> "d2"],
   [op |-> "certificate", key |-> 1, pin |-> "none", input |-> "d1"],
   [op |-> "certificate", key |-> 3, pin |-> "right", input |-> "d1"]}

OfKey(k) == <<X1000, X1000, X6004, certificate_file_id(k)>>

MCFiles ==
  {<<>>, <<X1000>>, <<X1000, X1000>>, <<X1000, X1000, X6002>>, <<X1000, X1000, X6002, 1>>,
   <<X5000>>, <<X5000, pkcs15_private_key_id(3)>>, <<X1000, X1000, X6004>>, OfKey(1), OfKey(3)}

MCCertificate ==
  [f \in {OfKey(1), OfKey(3)} |-> IF f = OfKey(1) THEN [key |-> 1, chunks |-> 2, exact |-> FALSE]
                                  ELSE [key |-> 3, chunks |-> 3, exact |-> TRUE]]
===============================================================================
