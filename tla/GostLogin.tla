------------------------------ MODULE GostLogin ------------------------------
(***************************************************************************)
(* The handshake with a GOST front: run_login (src/src/gost_login.rs) with *)
(* the ClientHandshake it drives (gost_client.rs, gost_handshake.rs) and   *)
(* the TlsTransport under it (tls.rs).                                     *)
(*                                                                         *)
(* Both ends keep a transcript of the handshake messages they have sent    *)
(* and received, byte for byte, and prove to each other in CertificateVerify*)
(* and in the Finished messages that the two are the same.  The server may *)
(* cut its flight into records anywhere; the wire may change a byte; the   *)
(* server may refuse with an alert at any time and close, after which      *)
(* writes may succeed or fail.                                             *)
(*                                                                         *)
(* A message is a sequence of pieces: its type, its length and the pieces  *)
(* of its body, each body one piece long or empty.  Hashes, signatures and *)
(* encryption are symbolic: they are the values they are made of.  The     *)
(* server and the wire are external; the server is one that follows the    *)
(* protocol.  A sealed record is one of RecordLayer: its first record in   *)
(* each direction.                                                         *)
(*                                                                         *)
(* A definition X_Name is a mutant of X; see RecordLayer.                  *)
(***************************************************************************)
EXTENDS Naturals, Sequences, FiniteSets, SequencesExt

CONSTANTS
  Cut,          \* the lengths of the records the server cuts off its flight
  MaxFaults     \* bound: faults of the wire, the server and the token

ASSUME CutAssumption == Cut \subseteq Nat \ {0}
ASSUME BoundAssumption == MaxFaults \in Nat

VARIABLES
  client,     \* run_login: where it is, the ClientHandshake, handshake_buf
  probing,    \* GOST_LOGIN_PROBE is set
  server,     \* the server: what it waits for, transcript, flight left to send
  toServer,   \* the records on their way to the server
  toClient,   \* the records on their way to the client
  closed,     \* the server has closed the connection
  faults      \* the faults there have been, in order

vars == <<client, probing, server, toServer, toClient, closed, faults>>

None == <<>>

-----------------------------------------------------------------------------
(* Messages and records                                                    *)

HandshakeType == {"ClientHello", "ServerHello", "Certificate", "ServerKeyExchange",
                  "CertificateRequest", "ServerHelloDone", "CertificateVerify",
                  "ClientKeyExchange", "Finished"}

ContentType == {"ChangeCipherSpec", "Alert", "Handshake", "ApplicationData"}

Type(t)   == <<"type", t>>
Length(n) == <<"length", n>>
Random(e)    == <<"random", e>>
Leaf(e)      == <<"leaf", e>>
Request      == <<"request">>
Damaged      == <<"damaged">>

frame_handshake(t, body) == <<Type(t), Length(Len(body))>> \o body

Record(t, payload) == [type |-> t, payload |-> payload]
Alert            == Record("Alert", << <<"alert">> >>)
ChangeCipherSpec == Record("ChangeCipherSpec", << <<"ccs">> >>)

\* The keys both ends derive from the premaster and the randoms.
key_block(client_random, server_random) == <<"keys", client_random, server_random>>

\* The premaster wrapped under the key agreed on with the public key of leaf.
build_client_key_exchange(leaf, client_random, server_random) ==
  <<"premaster", leaf, client_random, server_random>>

\* The block the token makes of the transcript hash.
Signature(transcript) == <<"signature", transcript>>

finished_body(keys, label, transcript) == <<"finished", keys, label, transcript>>

\* The first record an end protects, which holds one message.
Sealed(keys, end, message) == Record("Handshake", << <<"sealed", keys, end, message>> >>)

\* What stays in the buffer when its first n pieces are taken.
Rest(buf, n) == SubSeq(buf, n + 1, Len(buf))

-----------------------------------------------------------------------------
(* Faults                                                                  *)

Fault(kind) == Len(faults) < MaxFaults /\ faults' = Append(faults, kind)

Had(kind) == kind \in ToSet(faults)

DamagedPiece(p) ==
  CASE p[1] = "type"   -> {Type(t) : t \in HandshakeType \cup {"unknown"}}
    [] p[1] = "length" -> {Length(n) : n \in 0..2}
    [] OTHER           -> {Damaged}

\* What one changed byte can make of record r.
DamagedRecord(r) ==
  {[r EXCEPT !.type = t] : t \in ContentType \cup {"unknown"}}
  \cup UNION {{[r EXCEPT !.payload[i] = p] : p \in DamagedPiece(r.payload[i])} : i \in DOMAIN r.payload}

DamageOne(queue) ==
  \E i \in DOMAIN queue : \E r \in DamagedRecord(queue[i]) :
    r # queue[i] /\ queue' = [queue EXCEPT ![i] = r]

Damage ==
  /\ Fault("damage")
  /\ \/ DamageOne(toServer) /\ UNCHANGED toClient
     \/ DamageOne(toClient) /\ UNCHANGED toServer
  /\ UNCHANGED <<client, probing, server, closed>>

\* The server goes away without a word, or what it said is lost with the
\* connection.
Reset ==
  /\ Fault("reset")
  /\ closed' = TRUE
  /\ toClient' = <<>> /\ toServer' = <<>>
  /\ UNCHANGED <<client, probing, server>>

-----------------------------------------------------------------------------
(* The server (external)                                                   *)

Flight ==
  frame_handshake("ServerHello", <<Random("server")>>)
  \o frame_handshake("Certificate", <<Leaf("server")>>)
  \o frame_handshake("CertificateRequest", <<Request>>)
  \o frame_handshake("ServerHelloDone", <<>>)

ServerKeys == key_block(server.client_random, Random("server"))

\* What the server takes at each point, given its transcript.
Expected(r) ==
  CASE server.pc = "ClientHello" ->
         \E d \in {Random("client"), Damaged} :
           r = Record("Handshake", frame_handshake("ClientHello", <<d>>))
    [] server.pc = "Certificate" ->
         \E d \in {Leaf("client"), Damaged} :
           r = Record("Handshake", frame_handshake("Certificate", <<d>>))
    [] server.pc = "ClientKeyExchange" ->
         r = Record("Handshake", frame_handshake("ClientKeyExchange",
               <<build_client_key_exchange(Leaf("server"), server.client_random, Random("server"))>>))
    [] server.pc = "CertificateVerify" ->
         r = Record("Handshake", frame_handshake("CertificateVerify",
                                                 <<Signature(server.transcript)>>))
    [] server.pc = "ChangeCipherSpec" -> r = ChangeCipherSpec
    [] server.pc = "Finished" ->
         r = Sealed(ServerKeys, "client", frame_handshake("Finished",
               <<finished_body(ServerKeys, "client", server.transcript)>>))

After(pc) ==
  CASE pc = "ClientHello"       -> "Certificate"
    [] pc = "Certificate"       -> "ClientKeyExchange"
    [] pc = "ClientKeyExchange" -> "CertificateVerify"
    [] pc = "CertificateVerify" -> "ChangeCipherSpec"
    [] pc = "ChangeCipherSpec"  -> "Finished"
    [] pc = "Finished"          -> "done"

\* The handshake message a record adds to the transcript.
Added(r) ==
  CASE r = ChangeCipherSpec -> <<>>
    [] server.pc = "Finished" -> r.payload[1][4]
    [] OTHER -> r.payload

Refuse ==
  /\ toClient' = Append(toClient, Alert)
  /\ closed' = TRUE
  /\ toServer' = <<>>
  /\ UNCHANGED server

Serve(r) ==
  LET transcript == server.transcript \o Added(r)
  IN  /\ server' = [pc |-> After(server.pc),
                    client_random |-> IF server.pc = "ClientHello" THEN r.payload[3]
                                      ELSE server.client_random,
                    transcript |-> transcript \o (IF server.pc = "ClientHello" THEN Flight ELSE <<>>),
                    unsent |-> IF server.pc = "ClientHello" THEN Flight ELSE server.unsent]
      /\ toServer' = Tail(toServer)
      /\ toClient' = IF server.pc # "Finished" THEN toClient
                     ELSE toClient \o <<ChangeCipherSpec,
                                        Sealed(ServerKeys, "server", frame_handshake("Finished",
                                          <<finished_body(ServerKeys, "server", transcript)>>))>>
      /\ UNCHANGED closed

\* The server handles the next record, or refuses it.
ServerReads ==
  /\ ~closed /\ server.unsent = <<>> /\ toServer # <<>>
  /\ IF Expected(Head(toServer)) THEN Serve(Head(toServer)) ELSE Refuse
  /\ UNCHANGED <<client, probing, faults>>

\* A record of the server's flight, or all the rest of it in one.
ServerSends ==
  /\ ~closed /\ server.unsent # <<>>
  /\ \E n \in (Cut \cap 1..Len(server.unsent)) \cup {Len(server.unsent)} :
       /\ toClient' = Append(toClient, Record("Handshake", SubSeq(server.unsent, 1, n)))
       /\ server' = [server EXCEPT !.unsent = Rest(@, n)]
  /\ UNCHANGED <<client, probing, toServer, closed, faults>>

\* The server does not like the client and says so.
ServerRefuses ==
  /\ ~closed /\ server.pc \notin {"ClientHello", "done"}
  /\ Fault("refusal")
  /\ Refuse
  /\ UNCHANGED <<client, probing>>

-----------------------------------------------------------------------------
(* The client: writing                                                     *)

Become(pc) == client' = [client EXCEPT !.pc = pc]

push_message(t, body) == client.transcript \o frame_handshake(t, body)

\* Mutant: the alert is not looked for.
enrich_with_alert_Not == Become("error") /\ UNCHANGED toClient

\* A write has failed: the record that comes in, if one does, may say why.
enrich_with_alert ==
  /\ Become(IF toClient # <<>> /\ Head(toClient).type = "Alert" THEN "alert" ELSE "error")
  /\ toClient' = IF toClient = <<>> THEN <<>> ELSE Tail(toClient)

\* send_record, which succeeds as long as the server is there and may do so
\* when it is there no more.  Then the client is c.
Send(r, c) ==
  \/ /\ client' = c
     /\ toServer' = IF closed THEN toServer ELSE Append(toServer, r)
     /\ UNCHANGED toClient
  \/ /\ closed
     /\ enrich_with_alert
     /\ UNCHANGED toServer

\* The first write is not one that is enriched.
ClientHello ==
  LET body == <<Random("client")>>
  IN  /\ client.pc = "ClientHello"
      /\ \/ /\ client' = [client EXCEPT !.pc = "flight",
                                        !.transcript = push_message("ClientHello", body)]
            /\ toServer' = IF closed THEN toServer
                           ELSE Append(toServer, Record("Handshake",
                                                        frame_handshake("ClientHello", body)))
         \/ closed /\ Become("error") /\ UNCHANGED toServer
      /\ UNCHANGED <<probing, server, toClient, closed, faults>>

-----------------------------------------------------------------------------
(* The client: the server's flight                                         *)

\* The length a piece says when it is taken for one.  A byte that is none says
\* more than will ever come.
LengthOf(p) == IF p[1] = "length" THEN p[2] ELSE 99

Complete(buf) == Len(buf) >= 2 /\ Len(buf) >= 2 + LengthOf(buf[2])

\* recv_handshake_message reads a record when it has no whole message.
ReadFlight ==
  /\ client.pc = "flight" /\ ~Complete(client.buf)
  /\ toClient # <<>>
  /\ LET r == Head(toClient)
     IN  CASE r.type = "Handshake" ->
                client' = [client EXCEPT !.buf = @ \o r.payload]
           [] r.type = "Alert" -> Become("alert")
           [] OTHER -> Become("error")
  /\ toClient' = Tail(toClient)
  /\ UNCHANGED <<probing, server, toServer, closed, faults>>

\* A damaged certificate may or may not have a leaf that can be parsed.
first_certificate(body) ==
  CASE body = <<>> -> {None}
    [] body # <<>> /\ body[1] = Leaf("server") -> {body[1]}
    [] OTHER -> {None, body[1]}

\* Mutant: only the certificate is looked for.
FlightRead_NoRandom(c) ==
  \/ /\ c.leaf # None
     /\ client' = [c EXCEPT !.pc = "Certificate"]
  \/ /\ c.leaf # Leaf("server")
     /\ client' = [c EXCEPT !.pc = "error"]

\* c, the client once the server's flight has been read: it must hold a
\* certificate with a usable key and a server random.
FlightRead(c) ==
  \/ /\ c.leaf # None /\ c.server_random # None
     /\ client' = [c EXCEPT !.pc = "Certificate"]
  \/ /\ c.leaf # Leaf("server") \/ c.server_random = None
     /\ client' = [c EXCEPT !.pc = "error"]

\* One whole message of the buffer, in whatever order the messages come.
TakeMessage ==
  /\ client.pc = "flight" /\ Complete(client.buf)
  /\ LET n    == 2 + LengthOf(client.buf[2])
         t    == client.buf[1]
         body == SubSeq(client.buf, 3, n)
         c    == [client EXCEPT !.buf = Rest(@, n),
                                !.transcript = @ \o SubSeq(client.buf, 1, n)]
     IN  CASE t = Type("ServerHello") /\ body # <<>> ->
                client' = [c EXCEPT !.server_random = body[1]]
           [] t = Type("Certificate") ->
                \E leaf \in first_certificate(body) :
                  client' = IF leaf = None THEN [c EXCEPT !.pc = "error"] ELSE [c EXCEPT !.leaf = leaf]
           [] t \in {Type("ServerKeyExchange"), Type("CertificateRequest")} -> client' = c
           [] t = Type("ServerHelloDone") -> FlightRead(c)
           [] OTHER -> Become("error")
  /\ UNCHANGED <<probing, server, toServer, toClient, closed, faults>>

-----------------------------------------------------------------------------
(* The client: its own flight                                              *)

\* The client goes on to step pc with a longer transcript, and with a probe
\* before that if probes are asked for.
Onward(pc, transcript) ==
  [client EXCEPT !.pc = pc, !.transcript = transcript, !.probe = probing]

Certificate ==
  LET body == <<Leaf("client")>>
  IN  /\ client.pc = "Certificate" /\ ~client.probe
      /\ Send(Record("Handshake", frame_handshake("Certificate", body)),
              Onward("ClientKeyExchange", push_message("Certificate", body)))
      /\ UNCHANGED <<probing, server, closed, faults>>

ClientKeyExchange ==
  LET body == <<build_client_key_exchange(client.leaf, Random("client"), client.server_random)>>
  IN  /\ client.pc = "ClientKeyExchange" /\ ~client.probe
      /\ Send(Record("Handshake", frame_handshake("ClientKeyExchange", body)),
              [Onward("CertificateVerify", push_message("ClientKeyExchange", body)) EXCEPT
                 !.keys = key_block(Random("client"), client.server_random)])
      /\ UNCHANGED <<probing, server, closed, faults>>

\* The token signs the transcript, or does not.
CertificateVerify ==
  LET body == <<Signature(client.transcript)>>
  IN  /\ client.pc = "CertificateVerify" /\ ~client.probe
      /\ \/ /\ Send(Record("Handshake", frame_handshake("CertificateVerify", body)),
                    Onward("ChangeCipherSpec", push_message("CertificateVerify", body)))
            /\ UNCHANGED faults
         \/ Fault("token") /\ Become("error") /\ UNCHANGED <<toServer, toClient>>
      /\ UNCHANGED <<probing, server, closed>>

ChangeCipherSpecs ==
  /\ client.pc = "ChangeCipherSpec" /\ ~client.probe
  /\ Send(ChangeCipherSpec, Onward("Finished", client.transcript))
  /\ UNCHANGED <<probing, server, closed, faults>>

\* Mutant: there is a probe after this message as after the others.
Finished_Probed ==
  LET body == <<finished_body(client.keys, "client", client.transcript)>>
  IN  /\ client.pc = "Finished" /\ ~client.probe
      /\ Send(Sealed(client.keys, "client", frame_handshake("Finished", body)),
              Onward("await_ccs", push_message("Finished", body)))
      /\ UNCHANGED <<probing, server, closed, faults>>

\* Mutant: the server's answer is not waited for.
Finished_Early ==
  LET body == <<finished_body(client.keys, "client", client.transcript)>>
  IN  /\ client.pc = "Finished" /\ ~client.probe
      /\ Send(Sealed(client.keys, "client", frame_handshake("Finished", body)),
              [Onward("established", push_message("Finished", body)) EXCEPT !.probe = FALSE])
      /\ UNCHANGED <<probing, server, closed, faults>>

Finished ==
  LET body == <<finished_body(client.keys, "client", client.transcript)>>
  IN  /\ client.pc = "Finished" /\ ~client.probe
      /\ Send(Sealed(client.keys, "client", frame_handshake("Finished", body)),
              [Onward("await_ccs", push_message("Finished", body)) EXCEPT !.probe = FALSE])
      /\ UNCHANGED <<probing, server, closed, faults>>

\* probe_stage: a short look at what comes in.  What it reads is gone.
Probe ==
  /\ client.probe
  /\ client' = [client EXCEPT !.probe = FALSE]
  /\ \/ toClient # <<>> /\ toClient' = Tail(toClient)
     \/ UNCHANGED toClient
  /\ UNCHANGED <<probing, server, toServer, closed, faults>>

-----------------------------------------------------------------------------
(* The client: the server's answer                                         *)

ReadCcs ==
  /\ client.pc = "await_ccs" /\ ~client.probe
  /\ toClient # <<>>
  /\ Become(CASE Head(toClient).type = "ChangeCipherSpec" -> "await_finished"
              [] Head(toClient).type = "Alert"            -> "alert"
              [] OTHER                                    -> "error")
  /\ toClient' = Tail(toClient)
  /\ UNCHANGED <<probing, server, toServer, closed, faults>>

\* The record must open under the keys and hold the verify_data that the
\* transcript so far calls for.
ReadFinished ==
  /\ client.pc = "await_finished"
  /\ toClient # <<>>
  /\ Become(IF Head(toClient) = Sealed(client.keys, "server", frame_handshake("Finished",
                  <<finished_body(client.keys, "server", client.transcript)>>))
            THEN "established" ELSE "error")
  /\ toClient' = Tail(toClient)
  /\ UNCHANGED <<probing, server, toServer, closed, faults>>

Reading == \/ client.pc = "flight" /\ ~Complete(client.buf)
           \/ client.pc \in {"await_ccs", "await_finished"} /\ ~client.probe

\* Mutant: the socket has no read time-out.
ReadFails_NoTimeout ==
  /\ Reading /\ toClient = <<>> /\ closed
  /\ Become("error")
  /\ UNCHANGED <<probing, server, toServer, toClient, closed, faults>>

\* A read finds the connection closed or times out, which is certain when the
\* server has nothing to do and a fault when it is merely slow.
ReadFails ==
  /\ Reading /\ toClient = <<>>
  /\ Become("error")
  /\ IF closed \/ (toServer = <<>> /\ server.unsent = <<>>) THEN UNCHANGED faults ELSE Fault("slow")
  /\ UNCHANGED <<probing, server, toServer, toClient, closed>>

-----------------------------------------------------------------------------

Init ==
  /\ client = [pc |-> "ClientHello", transcript |-> <<>>, buf |-> <<>>, leaf |-> None,
               server_random |-> None, keys |-> None, probe |-> FALSE]
  /\ probing \in BOOLEAN
  /\ server = [pc |-> "ClientHello", transcript |-> <<>>, client_random |-> None, unsent |-> <<>>]
  /\ toServer = <<>> /\ toClient = <<>>
  /\ closed = FALSE
  /\ faults = <<>>

ClientStep ==
  \/ ClientHello \/ ReadFlight \/ TakeMessage
  \/ Certificate \/ ClientKeyExchange \/ CertificateVerify \/ ChangeCipherSpecs \/ Finished
  \/ Probe \/ ReadCcs \/ ReadFinished \/ ReadFails

Next == ClientStep \/ ServerReads \/ ServerSends \/ ServerRefuses \/ Damage \/ Reset

Spec == Init /\ [][Next]_vars

\* The client runs on, and so does the server as long as it is there.
FairSpec ==
  Spec /\ WF_vars(ClientStep /\ faults' = faults) /\ WF_vars(ServerReads) /\ WF_vars(ServerSends)

-----------------------------------------------------------------------------
(* Properties                                                              *)

Over == {"established", "alert", "error"}

\* Every variable has its type; the client has keys from the moment it may send
\* what is protected under them.
TypeOK ==
  /\ client.pc \in {"ClientHello", "flight", "Certificate", "ClientKeyExchange", "CertificateVerify",
                    "ChangeCipherSpec", "Finished", "await_ccs", "await_finished"} \cup Over
  /\ client.pc \in {"ChangeCipherSpec", "Finished", "await_ccs", "await_finished", "established"} =>
       client.keys # None /\ client.leaf # None /\ client.server_random # None
  /\ probing \in BOOLEAN /\ closed \in BOOLEAN
  /\ \A r \in ToSet(toServer) \cup ToSet(toClient) : r.type \in ContentType \cup {"unknown"}
  /\ Len(faults) <= MaxFaults

\* When either end has finished, both hold the same transcript and the same
\* keys, the client has them from the server's own certificate, and the client
\* never finishes alone: although the client takes the server's messages in any
\* order and number and pieces them together from records cut anywhere.
Agreement ==
  /\ client.pc = "established" \/ server.pc = "done" =>
       /\ client.transcript = server.transcript
       /\ client.keys = ServerKeys
       /\ client.leaf = Leaf("server")
  /\ client.pc = "established" => server.pc = "done"

\* If the server refuses and nothing else goes wrong, the error names its
\* alert, at whatever point of the handshake the client learns of it: reading,
\* or in a write that fails (gost_login.rs:462).
AlertNamed ==
  client.pc = "error" /\ ~probing => faults # <<"refusal">>

\* No login ends badly of itself: as long as no fault has come of the wire, the
\* server or the token, the client neither gives up (a message it cannot use, a
\* time-out, a failed write: gost_login.rs:205) nor is refused for what it has
\* said, with probes and without, however the server cuts its flight.  So a login
\* without a fault, which returns as any does (LoginReturns), has succeeded.
Untroubled ==
  faults = <<>> => client.pc \notin {"alert", "error"}

\* run_login returns, even if the server falls silent.
LoginReturns == <>(client.pc \in Over)
===============================================================================
