---------------------------- MODULE MCEsiaPlugin ----------------------------
(* EsiaPlugin with a page that asks for the certificate, for something     *)
(* that the script answers by itself, and for a signature.                 *)
EXTENDS EsiaPlugin

MCFunction == <<"get_list_certs", "get_list_info", "sign">>
=============================================================================
