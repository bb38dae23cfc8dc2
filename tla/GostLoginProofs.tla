--------------------------- MODULE GostLoginProofs ----------------------------
(***************************************************************************)
(* Theorems about GostLogin: its type invariant, that two ends one of      *)
(* which has finished agree on transcript, keys and certificate, that a    *)
(* refusal is named and that nothing fails of itself.  They hold however   *)
(* the server cuts its flight and for any number of faults.                *)
(*                                                                         *)
(* What a piece of a record says can be traced: what is sealed, and the    *)
(* premaster, come from one end only, and damage makes neither.  That is   *)
(* the invariant of the first part (IInv).  The second part is about       *)
(* logins without faults or with a refusal alone: what the ends say then   *)
(* is one fixed conversation, and every state has a place in it (Course).  *)
(***************************************************************************)
EXTENDS GostLogin, SequenceTheorems, TLAPS

IsSeq(q) == q \in Seq({q[i] : i \in DOMAIN q})

IsRecord(r) == DOMAIN r = {"type", "payload"} /\ r.type \in ContentType \cup {"unknown"}

FinishedMessage(keys, end, transcript) ==
  frame_handshake("Finished", <<finished_body(keys, end, transcript)>>)

Starting == {"ClientHello", "flight", "Certificate", "ClientKeyExchange"}

\* Client c has chosen certificate and random of the server, if it has any.
Settled(c) == c.pc \notin Starting

\* The client has sent all that it ever sends.
Silent(c) == Settled(c) /\ c.pc \notin {"CertificateVerify", "ChangeCipherSpec", "Finished"}

\* What a piece on its way to the server says of client c.
OfClient(c, p) ==
  /\ p[1] = "premaster" =>
       Settled(c) /\ p = build_client_key_exchange(c.leaf, Random("client"), c.server_random)
  /\ p[1] = "sealed" =>
       /\ Silent(c)
       /\ \E T \in {p[4][3][4]} :
            /\ p = <<"sealed", c.keys, "client", FinishedMessage(c.keys, "client", T)>>
            /\ c.transcript = T \o FinishedMessage(c.keys, "client", T)

\* The Finished message is the last of the client's.
ToServerInv ==
  /\ IsSeq(toServer)
  /\ \A i \in 1..Len(toServer) :
       /\ IsRecord(toServer[i])
       /\ \A j \in DOMAIN toServer[i].payload :
            /\ OfClient(client, toServer[i].payload[j])
            /\ toServer[i].payload[j][1] = "sealed" => i = Len(toServer)

\* Only a server that has finished seals.
ToClientInv ==
  /\ IsSeq(toClient)
  /\ \A i \in 1..Len(toClient) :
       /\ IsRecord(toClient[i])
       /\ \A j \in DOMAIN toClient[i].payload : toClient[i].payload[j][1] = "sealed" => server.pc = "done"

FlightPiece ==
  {Type(t) : t \in HandshakeType} \cup {Length(n) : n \in Nat} \cup {Random("server"), Leaf("server"), Request}

ServerPc == {"ClientHello", "Certificate", "ClientKeyExchange", "CertificateVerify", "ChangeCipherSpec",
             "Finished", "done"}

ServerInv ==
  /\ DOMAIN server = {"pc", "client_random", "transcript", "unsent"}
  /\ server.pc \in ServerPc
  /\ IsSeq(server.transcript) /\ server.unsent \in Seq(FlightPiece)
  /\ server.pc \in {"CertificateVerify", "ChangeCipherSpec", "Finished", "done"} =>
       Settled(client) /\ client.leaf = Leaf("server")
  /\ server.pc = "done" =>
       /\ Silent(client) /\ toServer = <<>>
       /\ client.transcript = server.transcript
       /\ client.keys = ServerKeys

ClientPc == Starting \cup {"CertificateVerify", "ChangeCipherSpec", "Finished", "await_ccs", "await_finished"}
            \cup Over

ClientInv ==
  /\ DOMAIN client = {"pc", "transcript", "buf", "leaf", "server_random", "keys", "probe"}
  /\ client.pc \in ClientPc
  /\ client.pc \notin {"ClientHello", "flight", "alert", "error"} => client.leaf # None /\ client.server_random # None
  /\ client.pc \in {"CertificateVerify", "ChangeCipherSpec", "Finished", "await_ccs", "await_finished",
                    "established"} => client.keys # None
  /\ client.pc = "established" => server.pc = "done"

RestInv == probing \in BOOLEAN /\ closed \in BOOLEAN /\ IsSeq(faults) /\ Len(faults) <= MaxFaults

IInv == ToServerInv /\ ToClientInv /\ ServerInv /\ ClientInv /\ RestInv

-----------------------------------------------------------------------------
(* Queues and records                                                      *)

LEMMA SeqOfElements ==
  ASSUME NEW S, NEW q \in Seq(S)
  PROVE  IsSeq(q) /\ Len(q) \in Nat /\ DOMAIN q = 1..Len(q)
BY IsASeq, LenProperties DEF IsSeq

LEMMA AppendQueue ==
  ASSUME NEW q, IsSeq(q), NEW r
  PROVE  /\ IsSeq(Append(q, r))
         /\ Len(q) \in Nat /\ Len(Append(q, r)) = Len(q) + 1
         /\ Append(q, r)[Len(q) + 1] = r
         /\ \A i \in 1..Len(q) : Append(q, r)[i] = q[i]
<1> DEFINE S == {q[i] : i \in DOMAIN q} \cup {r}
<1>1. q \in Seq(S)
  BY SeqMonotonic DEF IsSeq
<1> HIDE DEF S
<1>2. r \in S
  BY DEF S
<1>3. Append(q, r) \in Seq(S)
  BY <1>1, <1>2, AppendProperties
<1>4. IsSeq(Append(q, r)) /\ Len(q) \in Nat
  BY <1>1, <1>3, SeqOfElements
<1> QED
  BY <1>1, <1>2, <1>4, AppendProperties

LEMMA TailQueue ==
  ASSUME NEW q, IsSeq(q), q # <<>>
  PROVE  /\ IsSeq(Tail(q))
         /\ Len(q) \in Nat /\ Len(q) >= 1 /\ Len(Tail(q)) = Len(q) - 1
         /\ Head(q) = q[1]
         /\ \A i \in 1..Len(Tail(q)) : Tail(q)[i] = q[i + 1]
<1> DEFINE S == {q[i] : i \in DOMAIN q}
<1>1. q \in Seq(S)
  BY DEF IsSeq
<1> HIDE DEF S
<1>2. Tail(q) \in Seq(S)
  BY <1>1, HeadTailProperties
<1>3. IsSeq(Tail(q)) /\ Len(q) \in Nat
  BY <1>1, <1>2, SeqOfElements
<1>4. Len(q) # 0
  BY <1>1, EmptySeq
<1> QED
  BY <1>1, <1>3, <1>4, HeadTailProperties

LEMMA EmptyQueue == IsSeq(<<>>) /\ Len(<<>>) = 0
BY DEF IsSeq

\* A message of one piece.
LEMMA FrameOfOne ==
  ASSUME NEW t, NEW b
  PROVE  frame_handshake(t, <<b>>) = <<Type(t), Length(1), b>>
<1>1. Len(<<b>>) = 1
  OBVIOUS
<1>2. \A x, y, z : <<x, y>> \o <<z>> = <<x, y, z>>
  <2> TAKE x, y, z
  <2> DEFINE S == {x, y, z}
  <2>1. <<x, y>> \in Seq(S) /\ <<z>> \in Seq(S) /\ <<x, y, z>> \in Seq(S)
    OBVIOUS
  <2>2. Len(<<x, y>>) = 2 /\ Len(<<z>>) = 1 /\ Len(<<x, y, z>>) = 3
    OBVIOUS
  <2> HIDE DEF S
  <2>3. /\ <<x, y>> \o <<z>> \in Seq(S)
        /\ Len(<<x, y>> \o <<z>>) = 3
        /\ \A i \in 1..3 : (<<x, y>> \o <<z>>)[i] = IF i <= 2 THEN <<x, y>>[i] ELSE <<z>>[i - 2]
    BY <2>1, <2>2, ConcatProperties
  <2>4. \A i \in 1..3 : (<<x, y>> \o <<z>>)[i] = <<x, y, z>>[i]
    BY <2>3
  <2> QED
    BY <2>1, <2>2, <2>3, <2>4, SeqEqual
<1> QED
  BY <1>1, <1>2 DEF frame_handshake

Plain(p) == p[1] \notin {"premaster", "sealed"}

\* Damage keeps a record a record, and can make any piece of it plain, no more.
LEMMA DamagedFacts ==
  ASSUME NEW r, IsRecord(r), NEW s \in DamagedRecord(r)
  PROVE  /\ IsRecord(s)
         /\ DOMAIN s.payload = DOMAIN r.payload
         /\ \A j \in DOMAIN s.payload : s.payload[j] = r.payload[j] \/ Plain(s.payload[j])
<1>1. CASE s \in {[r EXCEPT !.type = t] : t \in ContentType \cup {"unknown"}}
  <2>1. PICK t \in ContentType \cup {"unknown"} : s = [r EXCEPT !.type = t]
    BY <1>1
  <2> QED
    BY <2>1 DEF IsRecord
<1>2. ASSUME NEW i \in DOMAIN r.payload, NEW p \in DamagedPiece(r.payload[i]),
             s = [r EXCEPT !.payload[i] = p]
      PROVE  /\ IsRecord(s)
             /\ DOMAIN s.payload = DOMAIN r.payload
             /\ \A j \in DOMAIN s.payload : s.payload[j] = r.payload[j] \/ Plain(s.payload[j])
  <2>1. Plain(p)
    BY DEF DamagedPiece, Plain, Type, Length, Damaged
  <2>2. /\ DOMAIN s = DOMAIN r
        /\ s.type = r.type
        /\ s.payload = [r.payload EXCEPT ![i] = p]
    BY <1>2 DEF IsRecord
  <2> QED
    BY <2>1, <2>2 DEF IsRecord
<1> QED
  BY <1>1, <1>2 DEF DamagedRecord

LEMMA DamageQueue ==
  ASSUME NEW q, IsSeq(q), NEW i \in DOMAIN q, NEW r
  PROVE  /\ IsSeq([q EXCEPT ![i] = r])
         /\ Len([q EXCEPT ![i] = r]) = Len(q)
         /\ DOMAIN q = 1..Len(q)
         /\ \A j \in 1..Len(q) : [q EXCEPT ![i] = r][j] = IF j = i THEN r ELSE q[j]
<1> DEFINE S == {q[j] : j \in DOMAIN q} \cup {r}
<1>1. q \in Seq(S)
  BY SeqMonotonic DEF IsSeq
<1> HIDE DEF S
<1>2. r \in S
  BY DEF S
<1>3. DOMAIN q = 1..Len(q)
  BY <1>1, SeqOfElements
<1>4. [q EXCEPT ![i] = r] \in Seq(S) /\ Len([q EXCEPT ![i] = r]) = Len(q)
  BY <1>1, <1>2, <1>3, ExceptSeq
<1> QED
  BY <1>1, <1>3, <1>4, SeqOfElements

-----------------------------------------------------------------------------
(* What the client does with what it has sent                              *)

\* Client d is c later, as far as the server can have heard of c.
Steady(c, d) ==
  /\ Settled(c) => Settled(d) /\ d.leaf = c.leaf /\ d.server_random = c.server_random
  /\ Silent(c) => Silent(d) /\ d.keys = c.keys /\ d.transcript = c.transcript

LEMMA SteadyPieces ==
  ASSUME NEW c, NEW d, Steady(c, d), NEW p, OfClient(c, p)
  PROVE  OfClient(d, p)
BY DEF Steady, OfClient

LEMMA PlainPiece ==
  ASSUME NEW c, NEW p, Plain(p)
  PROVE  OfClient(c, p)
BY DEF Plain, OfClient

\* A record with a message of one piece says what that piece says.
LEMMA MessageRecord ==
  ASSUME NEW c, NEW t, NEW b, OfClient(c, b),
         NEW r, r = Record("Handshake", frame_handshake(t, <<b>>))
  PROVE  IsRecord(r) /\ \A j \in DOMAIN r.payload : OfClient(c, r.payload[j])
<1>1. r.type = "Handshake" /\ r.payload = <<Type(t), Length(1), b>> /\ DOMAIN r = {"type", "payload"}
  BY FrameOfOne DEF Record
<1>2. /\ DOMAIN r.payload = 1..3
      /\ r.payload[1] = Type(t) /\ r.payload[2] = Length(1) /\ r.payload[3] = b
  BY <1>1
<1>3. Plain(Type(t)) /\ Plain(Length(1))
  BY DEF Plain, Type, Length
<1>4. OfClient(c, r.payload[1]) /\ OfClient(c, r.payload[2]) /\ OfClient(c, r.payload[3])
  BY <1>2, <1>3, PlainPiece
<1>5. IsRecord(r)
  BY <1>1 DEF IsRecord, ContentType
<1> QED
  BY <1>2, <1>4, <1>5

\* A record of one piece.
LEMMA PieceRecord ==
  ASSUME NEW c, NEW t \in ContentType, NEW p, OfClient(c, p), NEW r, r = Record(t, <<p>>)
  PROVE  IsRecord(r) /\ \A j \in DOMAIN r.payload : OfClient(c, r.payload[j])
<1>1. r.payload = <<p>> /\ DOMAIN r.payload = 1..1 /\ r.payload[1] = p
  BY DEF Record
<1> QED
  BY <1>1 DEF IsRecord, Record

LEMMA ToServerSteady ==
  ASSUME ToServerInv, Steady(client, client'), UNCHANGED toServer
  PROVE  ToServerInv'
BY SteadyPieces DEF ToServerInv

LEMMA ServerSteady ==
  ASSUME ServerInv, Steady(client, client'), UNCHANGED <<server, toServer>>
  PROVE  ServerInv'
BY DEF ServerInv, ServerKeys, Steady

\* A client that has not finished sends one more record.
LEMMA ToServerAppend ==
  ASSUME ToServerInv, Steady(client, client'), ~Silent(client),
         NEW r, toServer' = Append(toServer, r),
         IsRecord(r), \A j \in DOMAIN r.payload : OfClient(client', r.payload[j])
  PROVE  ToServerInv'
<1>1. /\ IsSeq(toServer')
      /\ Len(toServer) \in Nat /\ Len(toServer') = Len(toServer) + 1
      /\ toServer'[Len(toServer) + 1] = r
      /\ \A i \in 1..Len(toServer) : toServer'[i] = toServer[i]
  BY AppendQueue DEF ToServerInv
<1>2. ASSUME NEW i \in 1..Len(toServer')
      PROVE  /\ IsRecord(toServer'[i])
             /\ \A j \in DOMAIN toServer'[i].payload :
                  /\ OfClient(client', toServer'[i].payload[j])
                  /\ toServer'[i].payload[j][1] = "sealed" => i = Len(toServer')
  <2>1. CASE i = Len(toServer')
    BY <1>1, <2>1
  <2>2. CASE i \in 1..Len(toServer)
    <3>1. IsRecord(toServer[i]) /\ toServer'[i] = toServer[i]
      BY <1>1, <2>2 DEF ToServerInv
    <3>2. ASSUME NEW j \in DOMAIN toServer[i].payload
          PROVE  OfClient(client', toServer[i].payload[j]) /\ toServer[i].payload[j][1] # "sealed"
      <4>1. OfClient(client, toServer[i].payload[j])
        BY <2>2 DEF ToServerInv
      <4>2. toServer[i].payload[j][1] # "sealed"
        BY <4>1 DEF OfClient
      <4> QED
        BY <4>1, <4>2, SteadyPieces
    <3> QED
      BY <3>1, <3>2
  <2> QED
    BY <1>1, <2>1, <2>2
<1> QED
  BY <1>1, <1>2 DEF ToServerInv

LEMMA ToClientTail ==
  ASSUME ToClientInv, UNCHANGED server, toClient # <<>>, toClient' = Tail(toClient)
  PROVE  ToClientInv'
BY TailQueue DEF ToClientInv

LEMMA ToClientSame ==
  ASSUME ToClientInv, UNCHANGED <<server, toClient>>
  PROVE  ToClientInv'
BY DEF ToClientInv

\* A record is sent, or the connection turns out to be closed.
LEMMA SendKeeps ==
  ASSUME ToServerInv, ToClientInv, ServerInv, ClientInv, NEW r, NEW c,
         Send(r, c), UNCHANGED server,
         client.pc \in {"Certificate", "ClientKeyExchange", "CertificateVerify", "ChangeCipherSpec", "Finished"},
         Steady(client, c), IsRecord(r), \A j \in DOMAIN r.payload : OfClient(c, r.payload[j]),
         DOMAIN c = DOMAIN client
  PROVE  /\ ToServerInv' /\ ToClientInv' /\ ServerInv'
         /\ \/ client' = c
            \/ client' = [client EXCEPT !.pc = "alert"]
            \/ client' = [client EXCEPT !.pc = "error"]
<1>1. ~Silent(client)
  BY DEF Silent, Settled, Starting
<1>2. server.pc # "done"
  BY <1>1 DEF ServerInv
<1>3. CASE client' = c /\ UNCHANGED toClient /\ toServer' = IF closed THEN toServer ELSE Append(toServer, r)
  <2>1. ToServerInv'
    BY <1>1, <1>3, ToServerAppend, ToServerSteady
  <2>2. ToClientInv'
    BY <1>3, ToClientSame
  <2>3. ServerInv'
    BY <1>2, <1>3 DEF ServerInv, Steady
  <2> QED
    BY <1>3, <2>1, <2>2, <2>3
<1>4. CASE enrich_with_alert /\ UNCHANGED toServer
  <2>1. client' = [client EXCEPT !.pc = "alert"] \/ client' = [client EXCEPT !.pc = "error"]
    BY <1>4 DEF enrich_with_alert, Become
  <2>2. Steady(client, client')
    BY <2>1 DEF Steady, Settled, Silent, Starting, ClientInv
  <2>3. ToClientInv'
    BY <1>4, ToClientSame, ToClientTail DEF enrich_with_alert
  <2> QED
    BY <1>4, <2>1, <2>2, <2>3, ToServerSteady, ServerSteady
<1> QED
  BY <1>3, <1>4 DEF Send

-----------------------------------------------------------------------------
(* The steps of the client                                                 *)

LEMMA ClientHelloKeeps ==
  ASSUME IInv, ClientHello
  PROVE  IInv'
<1> USE DEF IInv
<1> DEFINE body == <<Random("client")>>
<1>1. /\ client.pc = "ClientHello" /\ UNCHANGED <<probing, server, toClient, closed, faults>>
      /\ ~Settled(client) /\ ~Silent(client)
  BY DEF ClientHello, Settled, Silent, Starting
<1>2. Steady(client, client')
  BY <1>1 DEF Steady, Silent
<1>4. ToClientInv' /\ RestInv'
  BY <1>1, ToClientSame DEF RestInv
<1>5. CASE UNCHANGED toServer /\ Become("error")
  BY <1>1, <1>2, <1>4, <1>5, ToServerSteady, ServerSteady DEF Become, ClientInv, ClientPc, Over, Starting
<1>6. CASE /\ client' = [client EXCEPT !.pc = "flight", !.transcript = push_message("ClientHello", body)]
           /\ toServer' = IF closed THEN toServer
                          ELSE Append(toServer, Record("Handshake", frame_handshake("ClientHello", body)))
  <2>1. ClientInv'
    BY <1>1, <1>6 DEF ClientInv, ClientPc, Over, Starting
  <2>2. ServerInv'
    BY <1>1, <1>2, <1>6 DEF ServerInv
  <2>3. CASE toServer' = toServer
    BY <1>2, <1>4, <2>1, <2>2, <2>3, ToServerSteady
  <2>4. CASE toServer' = Append(toServer, Record("Handshake", frame_handshake("ClientHello", body)))
    <3>1. PICK r : r = Record("Handshake", frame_handshake("ClientHello", body))
      OBVIOUS
    <3>2. Plain(Random("client"))
      BY DEF Plain, Random
    <3>3. IsRecord(r) /\ \A j \in DOMAIN r.payload : OfClient(client', r.payload[j])
      BY <3>1, <3>2, PlainPiece, MessageRecord
    <3> QED
      BY <1>1, <1>2, <1>4, <2>1, <2>2, <2>4, <3>1, <3>3, ToServerAppend
  <2> QED
    BY <1>6, <2>3, <2>4
<1> QED
  BY <1>1, <1>5, <1>6 DEF ClientHello

\* Until the client has settled, the server can know nothing of it that changes.
LEMMA FlightKeeps ==
  ASSUME IInv, ReadFlight \/ TakeMessage
  PROVE  IInv'
<1> USE DEF IInv
<1>1. /\ client.pc = "flight" /\ UNCHANGED <<probing, server, toServer, closed, faults>>
      /\ ~Settled(client) /\ ~Silent(client)
  BY DEF ReadFlight, TakeMessage, Settled, Silent, Starting
<1>2. Steady(client, client')
  BY <1>1 DEF Steady, Silent
<1>3. ToClientInv' /\ RestInv'
  BY <1>1, ToClientSame, ToClientTail DEF RestInv, ReadFlight, TakeMessage
<1>4. ClientInv'
  <2>1. CASE ReadFlight
    <3>1. \/ \E b : client' = [client EXCEPT !.buf = b]
          \/ Become("alert") \/ Become("error")
      BY <2>1 DEF ReadFlight
    <3> QED
      BY <1>1, <3>1 DEF Become, ClientInv, ClientPc, Over, Starting
  <2>2. CASE TakeMessage
    <3> DEFINE n    == 2 + LengthOf(client.buf[2])
               body == SubSeq(client.buf, 3, n)
               c    == [client EXCEPT !.buf = Rest(@, n), !.transcript = @ \o SubSeq(client.buf, 1, n)]
    <3>1. DOMAIN c = DOMAIN client /\ c.pc = "flight"
      BY <1>1 DEF ClientInv
    <3>2. \/ \E d : client' = [c EXCEPT !.server_random = d]
          \/ \E l : client' = [c EXCEPT !.leaf = l]
          \/ client' = [c EXCEPT !.pc = "error"]
          \/ client' = c
          \/ FlightRead(c)
          \/ Become("error")
      <4> HIDE DEF c, body
      <4> QED
        BY <2>2 DEF TakeMessage, c, body
    <3> HIDE DEF c
    <3> QED
      BY <1>1, <3>1, <3>2 DEF FlightRead, Become, ClientInv, ClientPc, Over, Starting
  <2> QED
    BY <2>1, <2>2
<1> QED
  BY <1>1, <1>2, <1>3, <1>4, ToServerSteady, ServerSteady

\* What a client becomes that goes on after sending.
LEMMA SentKeeps ==
  ASSUME IInv, NEW r, NEW c, Send(r, c), UNCHANGED <<probing, server, closed>>, RestInv',
         client.pc \in {"Certificate", "ClientKeyExchange", "CertificateVerify", "ChangeCipherSpec", "Finished"},
         Steady(client, c), IsRecord(r), \A j \in DOMAIN r.payload : OfClient(c, r.payload[j]),
         DOMAIN c = DOMAIN client, c.leaf = client.leaf, c.server_random = client.server_random,
         c.pc \in ClientPc \ {"ClientHello", "flight", "established"},
         c.pc # "ClientKeyExchange" => c.keys # None
  PROVE  IInv'
<1> USE DEF IInv
<1>1. /\ ToServerInv' /\ ToClientInv' /\ ServerInv'
      /\ \/ client' = c
         \/ client' = [client EXCEPT !.pc = "alert"]
         \/ client' = [client EXCEPT !.pc = "error"]
  BY SendKeeps
<1>2. ClientInv'
  BY <1>1 DEF ClientInv, ClientPc, Over
<1> QED
  BY <1>1, <1>2

LEMMA RestStays ==
  ASSUME IInv, UNCHANGED <<probing, closed, faults>>
  PROVE  RestInv'
BY DEF IInv, RestInv

LEMMA FaultKeepsRest ==
  ASSUME RestInv, NEW kind, Fault(kind), UNCHANGED probing, closed' \in BOOLEAN
  PROVE  RestInv'
<1>1. IsSeq(faults) /\ faults' = Append(faults, kind) /\ Len(faults) < MaxFaults
  BY DEF RestInv, Fault
<1>2. IsSeq(faults') /\ Len(faults') = Len(faults) + 1 /\ Len(faults) \in Nat
  BY <1>1, AppendQueue
<1>3. Len(faults') <= MaxFaults
  BY <1>1, <1>2, BoundAssumption
<1>4. probing' \in BOOLEAN
  BY DEF RestInv
<1> QED
  BY <1>2, <1>3, <1>4 DEF RestInv

LEMMA OnwardFacts ==
  ASSUME IInv, NEW pc, NEW transcript
  PROVE  /\ DOMAIN Onward(pc, transcript) = DOMAIN client
         /\ Onward(pc, transcript).pc = pc
         /\ Onward(pc, transcript).transcript = transcript
         /\ Onward(pc, transcript).leaf = client.leaf
         /\ Onward(pc, transcript).server_random = client.server_random
         /\ Onward(pc, transcript).keys = client.keys
BY DEF Onward, IInv, ClientInv

LEMMA CertificateKeeps ==
  ASSUME IInv, Certificate
  PROVE  IInv'
<1> DEFINE body == <<Leaf("client")>>
<1>1. client.pc = "Certificate" /\ UNCHANGED <<probing, server, closed, faults>>
  BY DEF Certificate
<1>2. PICK r, c : /\ r = Record("Handshake", frame_handshake("Certificate", body))
                  /\ c = Onward("ClientKeyExchange", push_message("Certificate", body))
  OBVIOUS
<1>3. Send(r, c)
  BY <1>2 DEF Certificate
<1>4. /\ DOMAIN c = DOMAIN client /\ c.pc = "ClientKeyExchange"
      /\ c.leaf = client.leaf /\ c.server_random = client.server_random
  BY <1>2, OnwardFacts
<1>5. Steady(client, c)
  BY <1>1 DEF Steady, Silent, Settled, Starting
<1>6. IsRecord(r) /\ \A j \in DOMAIN r.payload : OfClient(c, r.payload[j])
  <2>1. Plain(Leaf("client"))
    BY DEF Plain, Leaf
  <2> QED
    BY <1>2, <2>1, PlainPiece, MessageRecord
<1> QED
  BY <1>1, <1>3, <1>4, <1>5, <1>6, RestStays, SentKeeps DEF ClientPc, Starting

LEMMA ClientKeyExchangeKeeps ==
  ASSUME IInv, ClientKeyExchange
  PROVE  IInv'
<1> DEFINE b    == build_client_key_exchange(client.leaf, Random("client"), client.server_random)
           keys == key_block(Random("client"), client.server_random)
<1>1. client.pc = "ClientKeyExchange" /\ UNCHANGED <<probing, server, closed, faults>>
  BY DEF ClientKeyExchange
<1>2. PICK r, c : /\ r = Record("Handshake", frame_handshake("ClientKeyExchange", <<b>>))
                  /\ c = [Onward("CertificateVerify", push_message("ClientKeyExchange", <<b>>)) EXCEPT !.keys = keys]
  OBVIOUS
<1>3. Send(r, c)
  BY <1>2 DEF ClientKeyExchange
<1>4. /\ DOMAIN c = DOMAIN client /\ c.pc = "CertificateVerify"
      /\ c.leaf = client.leaf /\ c.server_random = client.server_random
      /\ c.keys = keys
  <2>1. "keys" \in DOMAIN client
    BY DEF IInv, ClientInv
  <2> QED
    BY <1>2, <2>1, OnwardFacts
<1>5. keys # None
  BY DEF key_block, None
<1>6. Steady(client, c)
  BY <1>1 DEF Steady, Silent, Settled, Starting
<1>7. OfClient(c, b)
  BY <1>4 DEF OfClient, build_client_key_exchange, Settled, Starting
<1> HIDE DEF b, keys
<1>8. IsRecord(r) /\ \A j \in DOMAIN r.payload : OfClient(c, r.payload[j])
  BY <1>2, <1>7, MessageRecord
<1> QED
  BY <1>1, <1>3, <1>4, <1>5, <1>6, <1>8, RestStays, SentKeeps DEF ClientPc, Starting

LEMMA CertificateVerifyKeeps ==
  ASSUME IInv, CertificateVerify
  PROVE  IInv'
<1> DEFINE b == Signature(client.transcript)
<1>1. client.pc = "CertificateVerify" /\ UNCHANGED <<probing, server, closed>>
  BY DEF CertificateVerify
<1>2. PICK r, c : /\ r = Record("Handshake", frame_handshake("CertificateVerify", <<b>>))
                  /\ c = Onward("ChangeCipherSpec", push_message("CertificateVerify", <<b>>))
  OBVIOUS
<1>3. CASE Send(r, c) /\ UNCHANGED faults
  <2>1. /\ DOMAIN c = DOMAIN client /\ c.pc = "ChangeCipherSpec"
        /\ c.leaf = client.leaf /\ c.server_random = client.server_random
        /\ c.keys = client.keys /\ client.keys # None
    BY <1>1, <1>2, OnwardFacts DEF IInv, ClientInv
  <2>2. Steady(client, c)
    BY <1>1, <2>1 DEF Steady, Silent, Settled, Starting
  <2>3. IsRecord(r) /\ \A j \in DOMAIN r.payload : OfClient(c, r.payload[j])
    <3>1. Plain(b)
      BY DEF Plain, Signature
    <3> HIDE DEF b
    <3> QED
      BY <1>2, <3>1, PlainPiece, MessageRecord
  <2> QED
    BY <1>1, <1>3, <2>1, <2>2, <2>3, RestStays, SentKeeps DEF ClientPc, Starting
<1>4. CASE Fault("token") /\ Become("error") /\ UNCHANGED <<toServer, toClient>>
  <2>1. Steady(client, client')
    BY <1>1, <1>4 DEF Become, Steady, Silent, Settled, Starting, IInv, ClientInv
  <2>2. RestInv'
    <3>1. RestInv /\ closed' \in BOOLEAN
      BY <1>1 DEF IInv, RestInv
    <3> QED
      BY <1>1, <1>4, <3>1, FaultKeepsRest
  <2>3. ClientInv'
    BY <1>1, <1>4 DEF Become, IInv, ClientInv, ClientPc, Over
  <2> QED
    BY <1>1, <1>4, <2>1, <2>2, <2>3, ToServerSteady, ServerSteady, ToClientSame DEF IInv
<1> QED
  BY <1>2, <1>3, <1>4 DEF CertificateVerify

LEMMA ChangeCipherSpecsKeeps ==
  ASSUME IInv, ChangeCipherSpecs
  PROVE  IInv'
<1>1. client.pc = "ChangeCipherSpec" /\ UNCHANGED <<probing, server, closed, faults>>
  BY DEF ChangeCipherSpecs
<1>2. PICK r, c : r = ChangeCipherSpec /\ c = Onward("Finished", client.transcript)
  OBVIOUS
<1>3. Send(r, c)
  BY <1>2 DEF ChangeCipherSpecs
<1>4. /\ DOMAIN c = DOMAIN client /\ c.pc = "Finished"
      /\ c.leaf = client.leaf /\ c.server_random = client.server_random
      /\ c.keys = client.keys /\ client.keys # None
  BY <1>1, <1>2, OnwardFacts DEF IInv, ClientInv
<1>5. Steady(client, c)
  BY <1>1, <1>4 DEF Steady, Silent, Settled, Starting
<1>6. IsRecord(r) /\ \A j \in DOMAIN r.payload : OfClient(c, r.payload[j])
  <2>1. Plain(<<"ccs">>)
    BY DEF Plain
  <2> QED
    BY <1>2, <2>1, PlainPiece, PieceRecord DEF ChangeCipherSpec, ContentType
<1> QED
  BY <1>1, <1>3, <1>4, <1>5, <1>6, RestStays, SentKeeps DEF ClientPc, Starting

\* The one record that the client seals holds the whole transcript before it.
LEMMA FinishedKeeps ==
  ASSUME IInv, Finished
  PROVE  IInv'
<1> DEFINE T == client.transcript
           M == FinishedMessage(client.keys, "client", T)
           p == <<"sealed", client.keys, "client", M>>
<1>1. client.pc = "Finished" /\ UNCHANGED <<probing, server, closed, faults>>
  BY DEF Finished
<1>2. PICK r, c : /\ r = Record("Handshake", <<p>>)
                  /\ c = [Onward("await_ccs", T \o M) EXCEPT !.probe = FALSE]
  OBVIOUS
<1>3. Send(r, c)
  BY <1>2 DEF Finished, Sealed, FinishedMessage, push_message
<1>4. /\ DOMAIN c = DOMAIN client /\ c.pc = "await_ccs"
      /\ c.leaf = client.leaf /\ c.server_random = client.server_random
      /\ c.transcript = T \o M
      /\ c.keys = client.keys /\ client.keys # None
  <2>1. "probe" \in DOMAIN client /\ client.keys # None
    BY <1>1 DEF IInv, ClientInv
  <2> DEFINE o == Onward("await_ccs", T \o M)
  <2>2. c = [o EXCEPT !.probe = FALSE]
    BY <1>2
  <2> HIDE DEF T, M, p
  <2>3. /\ DOMAIN o = DOMAIN client /\ o.pc = "await_ccs"
        /\ o.leaf = client.leaf /\ o.server_random = client.server_random
        /\ o.transcript = T \o M
        /\ o.keys = client.keys
    BY DEF Onward, IInv, ClientInv
  <2> HIDE DEF o
  <2> QED
    BY <2>1, <2>2, <2>3
<1>5. Steady(client, c)
  BY <1>1, <1>4 DEF Steady, Silent, Settled, Starting
<1>6. OfClient(c, p)
  <2>1. M = <<Type("Finished"), Length(1), finished_body(client.keys, "client", T)>>
    BY FrameOfOne DEF FinishedMessage
  <2>2. p[4] = M /\ M[3] = finished_body(client.keys, "client", T)
    BY <2>1
  <2>3. p[4][3][4] = T
    BY <2>2 DEF finished_body
  <2>4. p[1] = "sealed" /\ Silent(c)
    BY <1>4 DEF Silent, Settled, Starting
  <2> QED
    BY <1>4, <2>2, <2>3, <2>4 DEF OfClient
<1> HIDE DEF T, M, p
<1>7. IsRecord(r) /\ \A j \in DOMAIN r.payload : OfClient(c, r.payload[j])
  BY <1>2, <1>6, PieceRecord DEF ContentType
<1> QED
  BY <1>1, <1>3, <1>4, <1>5, <1>7, RestStays, SentKeeps DEF ClientPc, Starting

\* Reading leaves alone what the server has heard of.
LEMMA ReadingKeeps ==
  ASSUME IInv, Probe \/ ReadCcs \/ ReadFinished \/ ReadFails
  PROVE  IInv'
<1> USE DEF IInv
<1>1. UNCHANGED <<server, toServer, probing, closed>>
  BY DEF Probe, ReadCcs, ReadFinished, ReadFails
<1>2. RestInv'
  <2>1. UNCHANGED faults \/ Fault("slow")
    BY DEF Probe, ReadCcs, ReadFinished, ReadFails
  <2>2. RestInv /\ closed' \in BOOLEAN
    BY <1>1 DEF RestInv
  <2>3. CASE UNCHANGED faults
    BY <1>1, <2>3 DEF RestInv
  <2>4. CASE Fault("slow")
    BY <1>1, <2>2, <2>4, FaultKeepsRest
  <2> QED
    BY <2>1, <2>3, <2>4
<1>3. ToClientInv'
  BY <1>1, ToClientSame, ToClientTail DEF Probe, ReadCcs, ReadFinished, ReadFails
<1>4. \/ client' = [client EXCEPT !.probe = FALSE]
      \/ client' = [client EXCEPT !.pc = "alert"]
      \/ client' = [client EXCEPT !.pc = "error"]
      \/ client.pc = "await_ccs" /\ client' = [client EXCEPT !.pc = "await_finished"]
      \/ ReadFinished /\ client' = [client EXCEPT !.pc = "established"]
  <2>1. CASE ReadCcs
    BY <2>1 DEF ReadCcs, Become
  <2>2. CASE ReadFinished
    BY <2>2 DEF ReadFinished, Become
  <2> QED
    BY <2>1, <2>2 DEF Probe, ReadFails, Become
<1>5. ASSUME ReadFinished, client' = [client EXCEPT !.pc = "established"]
      PROVE  server.pc = "done"
  <2> DEFINE M == frame_handshake("Finished", <<finished_body(client.keys, "server", client.transcript)>>)
             p == <<"sealed", client.keys, "server", M>>
  <2>1. Head(toClient) = Record("Handshake", <<p>>) /\ toClient # <<>>
    BY <1>5 DEF ReadFinished, Become, Sealed, ClientInv
  <2>2. toClient[1].payload = <<p>> /\ 1 \in 1..Len(toClient)
    BY <2>1, TailQueue DEF ToClientInv, Record
  <2>3. 1 \in DOMAIN toClient[1].payload /\ toClient[1].payload[1][1] = "sealed"
    BY <2>2
  <2> QED
    BY <2>2, <2>3 DEF ToClientInv
<1>6. Steady(client, client')
  BY <1>4 DEF Steady, Silent, Settled, Starting, ClientInv, ReadFinished
<1>7. ClientInv'
  BY <1>1, <1>4, <1>5 DEF ClientInv, ClientPc, Over, ReadFinished
<1> QED
  BY <1>1, <1>2, <1>3, <1>6, <1>7, ToServerSteady, ServerSteady

-----------------------------------------------------------------------------
(* The steps of the server and of the wire                                 *)

LEMMA ConcatQueue ==
  ASSUME NEW q, IsSeq(q), NEW s, IsSeq(s)
  PROVE  /\ IsSeq(q \o s)
         /\ Len(q) \in Nat /\ Len(s) \in Nat /\ Len(q \o s) = Len(q) + Len(s)
         /\ \A i \in 1..Len(q) + Len(s) : (q \o s)[i] = IF i <= Len(q) THEN q[i] ELSE s[i - Len(q)]
<1> DEFINE S == {q[i] : i \in DOMAIN q} \cup {s[i] : i \in DOMAIN s}
<1>1. q \in Seq(S) /\ s \in Seq(S)
  BY SeqMonotonic DEF IsSeq
<1> HIDE DEF S
<1>2. q \o s \in Seq(S)
  BY <1>1, ConcatProperties
<1>3. IsSeq(q \o s) /\ Len(q) \in Nat /\ Len(s) \in Nat
  BY <1>1, <1>2, SeqOfElements
<1> QED
  BY <1>1, <1>3, ConcatProperties

LEMMA FlightOfPieces == Flight \in Seq(FlightPiece)
<1>1. ASSUME NEW t \in HandshakeType, NEW b \in FlightPiece
      PROVE  frame_handshake(t, <<b>>) \in Seq(FlightPiece)
  <2>1. Type(t) \in FlightPiece /\ Length(1) \in FlightPiece
    BY DEF FlightPiece
  <2>2. <<Type(t), Length(1), b>> \in Seq(FlightPiece)
    BY <2>1
  <2> QED
    BY <2>2, FrameOfOne
<1>2. frame_handshake("ServerHelloDone", <<>>) \in Seq(FlightPiece)
  <2>1. Type("ServerHelloDone") \in FlightPiece /\ Length(0) \in FlightPiece
    BY DEF FlightPiece, HandshakeType
  <2>2. <<Type("ServerHelloDone"), Length(0)>> \in Seq(FlightPiece) /\ <<>> \in Seq(FlightPiece)
    BY <2>1
  <2>3. Len(<<>>) = 0
    OBVIOUS
  <2> QED
    BY <2>2, <2>3, ConcatProperties DEF frame_handshake
<1>3. Random("server") \in FlightPiece /\ Leaf("server") \in FlightPiece /\ Request \in FlightPiece
  BY DEF FlightPiece
<1>4. /\ frame_handshake("ServerHello", <<Random("server")>>) \in Seq(FlightPiece)
      /\ frame_handshake("Certificate", <<Leaf("server")>>) \in Seq(FlightPiece)
      /\ frame_handshake("CertificateRequest", <<Request>>) \in Seq(FlightPiece)
  BY <1>1, <1>3 DEF HandshakeType
<1> QED
  BY <1>2, <1>4, ConcatProperties DEF Flight

LEMMA ToServerTail ==
  ASSUME ToServerInv, UNCHANGED client, toServer # <<>>, toServer' = Tail(toServer)
  PROVE  ToServerInv'
<1>1. PICK n \in Nat : /\ IsSeq(toServer')
                       /\ Len(toServer') = n /\ Len(toServer) = n + 1
                       /\ \A i \in 1..n : toServer'[i] = toServer[i + 1]
  <2>1. Len(toServer) - 1 \in Nat /\ Len(toServer) = (Len(toServer) - 1) + 1
    BY TailQueue DEF ToServerInv
  <2> QED
    BY <2>1, TailQueue DEF ToServerInv
<1>2. ASSUME NEW i \in 1..n
      PROVE  /\ IsRecord(toServer'[i])
             /\ \A j \in DOMAIN toServer'[i].payload :
                  /\ OfClient(client', toServer'[i].payload[j])
                  /\ toServer'[i].payload[j][1] = "sealed" => i = n
  <2>1. i + 1 \in 1..n + 1 /\ toServer'[i] = toServer[i + 1] /\ client' = client
    BY <1>1
  <2>2. i + 1 = n + 1 => i = n
    OBVIOUS
  <2>3. /\ IsRecord(toServer[i + 1])
        /\ \A j \in DOMAIN toServer[i + 1].payload :
             /\ OfClient(client, toServer[i + 1].payload[j])
             /\ toServer[i + 1].payload[j][1] = "sealed" => i + 1 = n + 1
    BY <1>1, <2>1 DEF ToServerInv
  <2> QED
    BY <2>1, <2>2, <2>3
<1> QED
  BY <1>1, <1>2 DEF ToServerInv

\* What the server learns from the two messages that say something of the client.
LEMMA ExpectedFacts ==
  ASSUME IInv, toServer # <<>>, NEW r, r = Head(toServer), Expected(r), server.pc # "done"
  PROVE  /\ IsSeq(Added(r))
         /\ server.pc = "ClientKeyExchange" => Settled(client) /\ client.leaf = Leaf("server")
         /\ server.pc = "Finished" =>
              /\ Silent(client) /\ Tail(toServer) = <<>> /\ client.keys = ServerKeys
              /\ client.transcript = server.transcript \o Added(r)
<1> USE DEF IInv
<1>1. /\ r = toServer[1] /\ Len(toServer) \in Nat /\ Len(toServer) >= 1
      /\ \A j \in DOMAIN r.payload :
           OfClient(client, r.payload[j]) /\ (r.payload[j][1] = "sealed" => Len(toServer) = 1)
  <2>1. r = toServer[1] /\ Len(toServer) \in Nat /\ Len(toServer) >= 1
    BY TailQueue DEF ToServerInv
  <2>2. 1 \in 1..Len(toServer)
    BY <2>1
  <2> QED
    BY <2>1, <2>2 DEF ToServerInv
<1>2. ASSUME NEW t, NEW b, r = Record("Handshake", frame_handshake(t, <<b>>))
      PROVE  IsSeq(r.payload) /\ OfClient(client, b) /\ r # ChangeCipherSpec
  <2>1. r.payload = <<Type(t), Length(1), b>> /\ r.type = "Handshake"
    BY <1>2, FrameOfOne DEF Record
  <2>2. 3 \in DOMAIN r.payload /\ r.payload[3] = b
    BY <2>1
  <2>3. IsSeq(r.payload)
    <3>1. <<Type(t), Length(1), b>> \in Seq({Type(t), Length(1), b})
      OBVIOUS
    <3> QED
      BY <2>1, <3>1, SeqOfElements
  <2> QED
    BY <1>1, <2>1, <2>2, <2>3 DEF ChangeCipherSpec, Record
<1>3. CASE server.pc \in {"ClientHello", "Certificate", "CertificateVerify"}
  <2>1. \E t, b : r = Record("Handshake", frame_handshake(t, <<b>>))
    BY <1>3 DEF Expected
  <2> QED
    BY <1>2, <1>3, <2>1 DEF Added
<1>4. CASE server.pc = "ClientKeyExchange"
  <2> DEFINE b == build_client_key_exchange(Leaf("server"), server.client_random, Random("server"))
  <2>1. r = Record("Handshake", frame_handshake("ClientKeyExchange", <<b>>))
    BY <1>4 DEF Expected
  <2>2. OfClient(client, b) /\ IsSeq(r.payload) /\ r # ChangeCipherSpec
    BY <1>2, <2>1
  <2>3. Settled(client) /\ client.leaf = Leaf("server")
    BY <2>2 DEF OfClient, build_client_key_exchange
  <2> QED
    BY <1>4, <2>2, <2>3 DEF Added
<1>5. CASE server.pc = "ChangeCipherSpec"
  BY <1>5, EmptyQueue DEF Added, Expected
<1>6. CASE server.pc = "Finished"
  <2> DEFINE M == FinishedMessage(ServerKeys, "client", server.transcript)
             p == <<"sealed", ServerKeys, "client", M>>
  <2>1. r = Record("Handshake", <<p>>)
    BY <1>6 DEF Expected, Sealed, FinishedMessage
  <2>2. r.payload = <<p>> /\ r.type = "Handshake"
    BY <2>1 DEF Record
  <2>3. 1 \in DOMAIN r.payload /\ r.payload[1] = p
    BY <2>2
  <2>4. p[1] = "sealed" /\ p[2] = ServerKeys /\ p[4] = M
    OBVIOUS
  <2>5. OfClient(client, p) /\ Len(toServer) = 1
    BY <1>1, <2>3, <2>4
  <2>6. M = <<Type("Finished"), Length(1), finished_body(ServerKeys, "client", server.transcript)>>
    BY FrameOfOne DEF FinishedMessage
  <2>7. M[3][4] = server.transcript
    BY <2>6 DEF finished_body
  <2>8. IsSeq(M)
    <3> DEFINE b == finished_body(ServerKeys, "client", server.transcript)
    <3>1. <<Type("Finished"), Length(1), b>> \in Seq({Type("Finished"), Length(1), b})
      OBVIOUS
    <3> QED
      BY <2>6, <3>1, SeqOfElements
  <2> HIDE DEF M
  <2>9. PICK T \in {p[4][3][4]} :
           /\ p = <<"sealed", client.keys, "client", FinishedMessage(client.keys, "client", T)>>
           /\ client.transcript = T \o FinishedMessage(client.keys, "client", T)
    BY <2>4, <2>5 DEF OfClient
  <2>10. T = server.transcript
    BY <2>4, <2>7
  <2>11. ServerKeys = client.keys /\ M = FinishedMessage(client.keys, "client", T)
    BY <2>9
  <2>12. Added(r) = M
    <3>1. r # ChangeCipherSpec
      BY <2>2 DEF ChangeCipherSpec, Record
    <3> QED
      BY <1>6, <2>3, <2>4, <3>1 DEF Added
  <2>13. Tail(toServer) = <<>>
    <3>1. IsSeq(toServer)
      BY DEF ToServerInv
    <3>2. IsSeq(Tail(toServer)) /\ Len(Tail(toServer)) = 0
      BY <2>5, <3>1, TailQueue
    <3> QED
      BY <3>2, EmptySeq DEF IsSeq
  <2>14. Silent(client)
    BY <2>4, <2>5 DEF OfClient
  <2> QED
    BY <1>6, <2>8, <2>9, <2>10, <2>11, <2>12, <2>13, <2>14
<1> QED
  BY <1>3, <1>4, <1>5, <1>6 DEF ServerInv, ServerPc

LEMMA ServeKeeps ==
  ASSUME IInv, toServer # <<>>, NEW r, r = Head(toServer), Expected(r), Serve(r), server.unsent = <<>>,
         UNCHANGED <<client, probing, faults>>
  PROVE  IInv'
<1> USE DEF IInv
<1>1. server.pc # "done" /\ server.pc \in ServerPc
  BY DEF ServerInv
<1> DEFINE transcript == server.transcript \o Added(r)
<1>2. /\ server'.pc = After(server.pc)
      /\ server'.client_random = IF server.pc = "ClientHello" THEN r.payload[3] ELSE server.client_random
      /\ server'.transcript = transcript \o (IF server.pc = "ClientHello" THEN Flight ELSE <<>>)
      /\ server'.unsent = IF server.pc = "ClientHello" THEN Flight ELSE server.unsent
      /\ DOMAIN server' = {"pc", "client_random", "transcript", "unsent"}
      /\ toServer' = Tail(toServer)
      /\ UNCHANGED closed
  BY DEF Serve
<1>3. /\ IsSeq(Added(r))
      /\ server.pc = "ClientKeyExchange" => Settled(client) /\ client.leaf = Leaf("server")
      /\ server.pc = "Finished" =>
           /\ Silent(client) /\ Tail(toServer) = <<>> /\ client.keys = ServerKeys
           /\ client.transcript = transcript
  BY <1>1, ExpectedFacts
<1>4. IsSeq(transcript)
  BY <1>3, ConcatQueue DEF ServerInv
<1>5. IsSeq(server'.transcript) /\ (server.pc = "Finished" => server'.transcript = transcript)
  <2> HIDE DEF transcript
  <2>1. IsSeq(Flight)
    BY FlightOfPieces, SeqOfElements
  <2>2. transcript \o <<>> = transcript
    BY <1>4, ConcatEmptySeq DEF IsSeq
  <2>3. IsSeq(transcript \o Flight)
    BY <1>4, <2>1, ConcatQueue
  <2> QED
    BY <1>2, <1>4, <2>2, <2>3
<1>6. server'.unsent \in Seq(FlightPiece)
  BY <1>2, FlightOfPieces DEF ServerInv
<1>7. /\ server'.pc \in ServerPc
      /\ server'.pc = "done" <=> server.pc = "Finished"
      /\ server'.pc \in {"CertificateVerify", "ChangeCipherSpec", "Finished", "done"} =>
           server.pc \in {"ClientKeyExchange", "CertificateVerify", "ChangeCipherSpec", "Finished", "done"}
  BY <1>1, <1>2 DEF After, ServerPc
<1> HIDE DEF transcript
<1>8. ServerInv'
  <2>1. server'.pc = "done" => ServerKeys' = ServerKeys
    BY <1>2, <1>7 DEF ServerKeys
  <2>2. server'.pc \in {"CertificateVerify", "ChangeCipherSpec", "Finished", "done"} =>
           Settled(client) /\ client.leaf = Leaf("server")
    BY <1>3, <1>7 DEF ServerInv
  <2>3. Settled(client') = Settled(client) /\ Silent(client') = Silent(client) /\ client' = client
    OBVIOUS
  <2> QED
    BY <1>2, <1>3, <1>5, <1>6, <1>7, <2>1, <2>2, <2>3 DEF ServerInv
<1>9. ToServerInv'
  BY <1>2, ToServerTail
<1>10. ToClientInv'
  <2>1. CASE server.pc # "Finished"
    <3>1. toClient' = toClient
      BY <2>1 DEF Serve
    <3> QED
      BY <1>1, <3>1 DEF ToClientInv
  <2>2. CASE server.pc = "Finished"
    <3>1. PICK p : toClient' = toClient \o <<ChangeCipherSpec, Record("Handshake", <<p>>)>>
      BY <2>2 DEF Serve, Sealed
    <3> DEFINE a == ChangeCipherSpec
               b == Record("Handshake", <<p>>)
    <3>2. IsRecord(a) /\ IsRecord(b)
      BY DEF IsRecord, Record, ChangeCipherSpec, ContentType
    <3> HIDE DEF a, b
    <3>3. <<a, b>> \in Seq({a, b}) /\ Len(<<a, b>>) = 2 /\ <<a, b>>[1] = a /\ <<a, b>>[2] = b
      OBVIOUS
    <3>4. IsSeq(<<a, b>>)
      BY <3>3, SeqOfElements
    <3>5. toClient' = toClient \o <<a, b>> /\ IsSeq(toClient)
      BY <3>1 DEF a, b, ToClientInv
    <3>6. /\ IsSeq(toClient')
          /\ Len(toClient) \in Nat /\ Len(toClient') = Len(toClient) + 2
          /\ \A i \in 1..Len(toClient) + 2 :
               toClient'[i] = IF i <= Len(toClient) THEN toClient[i] ELSE <<a, b>>[i - Len(toClient)]
      BY <3>3, <3>4, <3>5, ConcatQueue
    <3>7. ASSUME NEW i \in 1..Len(toClient')
          PROVE  IsRecord(toClient'[i])
      <4>1. CASE i <= Len(toClient)
        BY <3>6, <4>1 DEF ToClientInv
      <4>2. CASE i = Len(toClient) + 1 \/ i = Len(toClient) + 2
        BY <3>2, <3>3, <3>6, <4>2
      <4> QED
        BY <3>6, <4>1, <4>2
    <3> QED
      BY <1>7, <2>2, <3>6, <3>7 DEF ToClientInv
  <2> QED
    BY <2>1, <2>2
<1>11. ClientInv' /\ RestInv'
  BY <1>1, <1>2 DEF ClientInv, RestInv
<1> QED
  BY <1>8, <1>9, <1>10, <1>11

LEMMA RefuseKeeps ==
  ASSUME IInv, Refuse, UNCHANGED <<client, probing>>, RestInv'
  PROVE  IInv'
<1> USE DEF IInv
<1>1. toClient' = Append(toClient, Alert) /\ toServer' = <<>> /\ UNCHANGED server
  BY DEF Refuse
<1>2. /\ IsSeq(toClient')
      /\ Len(toClient) \in Nat /\ Len(toClient') = Len(toClient) + 1
      /\ toClient'[Len(toClient) + 1] = Alert
      /\ \A i \in 1..Len(toClient) : toClient'[i] = toClient[i]
  BY <1>1, AppendQueue DEF ToClientInv
<1>3. IsRecord(Alert) /\ \A j \in DOMAIN Alert.payload : Alert.payload[j][1] = "alert"
  BY DEF Alert, Record, IsRecord, ContentType
<1>4. \A i \in 1..Len(toClient') : i = Len(toClient) + 1 \/ i \in 1..Len(toClient)
  BY <1>2
<1>5. ToClientInv'
  BY <1>1, <1>2, <1>3, <1>4 DEF ToClientInv
<1>6. ToServerInv'
  BY <1>1, EmptyQueue DEF ToServerInv
<1>7. ServerInv' /\ ClientInv'
  BY <1>1 DEF ServerInv, ClientInv, ServerKeys
<1> QED
  BY <1>5, <1>6, <1>7

LEMMA ServerReadsKeeps ==
  ASSUME IInv, ServerReads
  PROVE  IInv'
<1>1. /\ toServer # <<>> /\ server.unsent = <<>> /\ UNCHANGED <<client, probing, faults>>
      /\ IF Expected(Head(toServer)) THEN Serve(Head(toServer)) ELSE Refuse
  BY DEF ServerReads
<1>2. CASE Expected(Head(toServer)) /\ Serve(Head(toServer))
  BY <1>1, <1>2, ServeKeeps
<1>3. CASE Refuse
  <2>1. RestInv'
    BY <1>1, <1>3 DEF Refuse, IInv, RestInv
  <2> QED
    BY <1>1, <1>3, <2>1, RefuseKeeps
<1> QED
  BY <1>1, <1>2, <1>3

LEMMA ServerSendsKeeps ==
  ASSUME IInv, ServerSends
  PROVE  IInv'
<1> USE DEF IInv
<1>1. /\ server.unsent \in Seq(FlightPiece) /\ server.unsent # <<>>
      /\ UNCHANGED <<client, probing, toServer, closed, faults>>
  BY DEF ServerSends, ServerInv
<1>2. Len(server.unsent) \in Nat
  BY <1>1, LenProperties
<1>3. PICK n \in (Cut \cap 1..Len(server.unsent)) \cup {Len(server.unsent)} :
        /\ toClient' = Append(toClient, Record("Handshake", SubSeq(server.unsent, 1, n)))
        /\ server' = [server EXCEPT !.unsent = Rest(@, n)]
  BY DEF ServerSends
<1>4. n \in 0..Len(server.unsent)
  BY <1>2, <1>3, CutAssumption
<1> DEFINE pieces == SubSeq(server.unsent, 1, n)
<1>5. pieces \in Seq(FlightPiece) /\ Rest(server.unsent, n) \in Seq(FlightPiece)
  BY <1>1, <1>2, <1>4, SubSeqProperties DEF Rest
<1> HIDE DEF pieces
<1>6. ASSUME NEW j \in DOMAIN pieces
      PROVE  pieces[j][1] # "sealed"
  <2>1. pieces[j] \in FlightPiece
    BY <1>5, LenProperties, ElementOfSeq
  <2> QED
    BY <2>1 DEF FlightPiece, Type, Length, Random, Leaf, Request
<1>7. PICK r : r = Record("Handshake", pieces)
  OBVIOUS
<1>8. IsRecord(r) /\ r.payload = pieces
  BY <1>7 DEF IsRecord, Record, ContentType
<1>9. /\ IsSeq(toClient')
      /\ Len(toClient) \in Nat /\ Len(toClient') = Len(toClient) + 1
      /\ toClient'[Len(toClient) + 1] = r
      /\ \A i \in 1..Len(toClient) : toClient'[i] = toClient[i]
  BY <1>3, <1>7, AppendQueue DEF ToClientInv, pieces
<1>10. \A i \in 1..Len(toClient') : i = Len(toClient) + 1 \/ i \in 1..Len(toClient)
  BY <1>9
<1>11. /\ server'.pc = server.pc /\ server'.transcript = server.transcript
       /\ server'.client_random = server.client_random
       /\ server'.unsent = Rest(server.unsent, n) /\ DOMAIN server' = DOMAIN server
  BY <1>3 DEF ServerInv
<1>12. ToClientInv'
  BY <1>6, <1>8, <1>9, <1>10, <1>11 DEF ToClientInv
<1>13. ServerInv'
  BY <1>1, <1>5, <1>11 DEF ServerInv, ServerKeys
<1>14. ToServerInv' /\ ClientInv' /\ RestInv'
  BY <1>1, <1>11 DEF ToServerInv, ClientInv, RestInv
<1> QED
  BY <1>12, <1>13, <1>14

LEMMA ServerRefusesKeeps ==
  ASSUME IInv, ServerRefuses
  PROVE  IInv'
<1>1. Fault("refusal") /\ Refuse /\ UNCHANGED <<client, probing>> /\ closed' = TRUE
  BY DEF ServerRefuses, Refuse
<1>2. RestInv'
  BY <1>1, FaultKeepsRest DEF IInv
<1> QED
  BY <1>1, <1>2, RefuseKeeps

\* A byte changes on the wire, in what goes one way or the other.
LEMMA DamageKeeps ==
  ASSUME IInv, Damage
  PROVE  IInv'
<1> USE DEF IInv
<1>1. UNCHANGED <<client, probing, server, closed>> /\ Fault("damage")
  BY DEF Damage
<1>2. RestInv'
  <2>1. RestInv /\ closed' \in BOOLEAN
    BY <1>1 DEF RestInv
  <2> QED
    BY <1>1, <2>1, FaultKeepsRest
<1>3. ClientInv'
  BY <1>1 DEF ClientInv
<1>4. CASE DamageOne(toServer) /\ UNCHANGED toClient
  <2>1. PICK i \in DOMAIN toServer : \E r \in DamagedRecord(toServer[i]) : toServer' = [toServer EXCEPT ![i] = r]
    BY <1>4 DEF DamageOne
  <2>2. PICK r \in DamagedRecord(toServer[i]) : toServer' = [toServer EXCEPT ![i] = r]
    BY <2>1
  <2>3. /\ IsSeq(toServer') /\ Len(toServer') = Len(toServer) /\ DOMAIN toServer = 1..Len(toServer)
        /\ \A j \in 1..Len(toServer) : toServer'[j] = IF j = i THEN r ELSE toServer[j]
    BY <2>2, DamageQueue DEF ToServerInv
  <2>4. IsRecord(toServer[i])
    BY <2>3 DEF ToServerInv
  <2>5. /\ IsRecord(r) /\ DOMAIN r.payload = DOMAIN toServer[i].payload
        /\ \A j \in DOMAIN r.payload : r.payload[j] = toServer[i].payload[j] \/ Plain(r.payload[j])
    BY <2>4, DamagedFacts
  <2>6. ASSUME NEW j \in DOMAIN r.payload
        PROVE  OfClient(client, r.payload[j]) /\ (r.payload[j][1] = "sealed" => i = Len(toServer))
    <3>1. CASE r.payload[j] = toServer[i].payload[j]
      BY <2>3, <2>5, <3>1 DEF ToServerInv
    <3>2. CASE Plain(r.payload[j])
      BY <3>2, PlainPiece DEF Plain
    <3> QED
      BY <2>5, <3>1, <3>2
  <2>7. ToServerInv'
    <3>1. ASSUME NEW k \in 1..Len(toServer')
          PROVE  /\ IsRecord(toServer'[k])
                 /\ \A j \in DOMAIN toServer'[k].payload :
                      /\ OfClient(client', toServer'[k].payload[j])
                      /\ toServer'[k].payload[j][1] = "sealed" => k = Len(toServer')
      <4>1. CASE k = i
        BY <1>1, <2>3, <2>5, <2>6, <4>1
      <4>2. CASE k # i
        BY <1>1, <2>3, <4>2 DEF ToServerInv
      <4> QED
        BY <4>1, <4>2
    <3> QED
      BY <2>3, <3>1 DEF ToServerInv
  <2>8. toServer # <<>>
    OBVIOUS
  <2>9. ServerInv'
    BY <1>1, <2>8 DEF ServerInv
  <2>10. ToClientInv'
    BY <1>1, <1>4, ToClientSame
  <2> QED
    BY <1>2, <1>3, <2>7, <2>9, <2>10
<1>5. CASE DamageOne(toClient) /\ UNCHANGED toServer
  <2>1. PICK i \in DOMAIN toClient : \E r \in DamagedRecord(toClient[i]) : toClient' = [toClient EXCEPT ![i] = r]
    BY <1>5 DEF DamageOne
  <2>2. PICK r \in DamagedRecord(toClient[i]) : toClient' = [toClient EXCEPT ![i] = r]
    BY <2>1
  <2>3. /\ IsSeq(toClient') /\ Len(toClient') = Len(toClient) /\ DOMAIN toClient = 1..Len(toClient)
        /\ \A j \in 1..Len(toClient) : toClient'[j] = IF j = i THEN r ELSE toClient[j]
    BY <2>2, DamageQueue DEF ToClientInv
  <2>4. IsRecord(toClient[i])
    BY <2>3 DEF ToClientInv
  <2>5. /\ IsRecord(r) /\ DOMAIN r.payload = DOMAIN toClient[i].payload
        /\ \A j \in DOMAIN r.payload : r.payload[j] = toClient[i].payload[j] \/ Plain(r.payload[j])
    BY <2>4, DamagedFacts
  <2>6. \A j \in DOMAIN r.payload : r.payload[j][1] = "sealed" => server.pc = "done"
    BY <2>3, <2>5 DEF ToClientInv, Plain
  <2>7. ToClientInv'
    BY <1>1, <2>3, <2>5, <2>6 DEF ToClientInv
  <2>8. ToServerInv'
    BY <1>1, <1>5 DEF ToServerInv
  <2>9. ServerInv'
    BY <1>1, <1>5 DEF ServerInv, ServerKeys
  <2> QED
    BY <1>2, <1>3, <2>7, <2>8, <2>9
<1> QED
  BY <1>4, <1>5 DEF Damage

LEMMA ResetKeeps ==
  ASSUME IInv, Reset
  PROVE  IInv'
<1> USE DEF IInv
<1>1. /\ Fault("reset") /\ closed' = TRUE /\ toClient' = <<>> /\ toServer' = <<>>
      /\ UNCHANGED <<client, probing, server>>
  BY DEF Reset
<1>2. RestInv'
  BY <1>1, FaultKeepsRest
<1>3. ToServerInv' /\ ToClientInv'
  BY <1>1, EmptyQueue DEF ToServerInv, ToClientInv
<1>4. ServerInv' /\ ClientInv'
  BY <1>1 DEF ServerInv, ClientInv, ServerKeys
<1> QED
  BY <1>2, <1>3, <1>4

-----------------------------------------------------------------------------

LEMMA InitIInv == Init => IInv
<1> SUFFICES ASSUME Init PROVE IInv
  OBVIOUS
<1>1. ToServerInv /\ ToClientInv
  BY EmptyQueue DEF Init, ToServerInv, ToClientInv
<1>2. ServerInv
  BY EmptyQueue DEF Init, ServerInv, ServerPc
<1>3. ClientInv
  BY DEF Init, ClientInv, ClientPc, Starting
<1>4. RestInv
  <2>1. IsSeq(faults) /\ Len(faults) = 0
    BY EmptyQueue DEF Init
  <2>2. Len(faults) <= MaxFaults
    BY <2>1, BoundAssumption
  <2>3. probing \in BOOLEAN /\ closed \in BOOLEAN
    BY DEF Init
  <2> QED
    BY <2>1, <2>2, <2>3 DEF RestInv
<1> QED
  BY <1>1, <1>2, <1>3, <1>4 DEF IInv

LEMMA NextKeeps == IInv /\ [Next]_vars => IInv'
<1> SUFFICES ASSUME IInv, [Next]_vars PROVE IInv'
  OBVIOUS
<1>1. CASE ClientStep
  BY <1>1, ClientHelloKeeps, FlightKeeps, CertificateKeeps, ClientKeyExchangeKeeps, CertificateVerifyKeeps,
     ChangeCipherSpecsKeeps, FinishedKeeps, ReadingKeeps DEF ClientStep
<1>2. CASE ServerReads \/ ServerSends \/ ServerRefuses
  BY <1>2, ServerReadsKeeps, ServerSendsKeeps, ServerRefusesKeeps
<1>3. CASE Damage \/ Reset
  BY <1>3, DamageKeeps, ResetKeeps
<1>4. CASE UNCHANGED vars
  BY <1>4 DEF vars, IInv, ToServerInv, ToClientInv, ServerInv, ServerKeys, ClientInv, RestInv
<1> QED
  BY <1>1, <1>2, <1>3, <1>4 DEF Next

LEMMA Invariance == Spec => []IInv
BY InitIInv, NextKeeps, PTL DEF Spec

\* Every variable has its type, whatever the wire and the server do, and the
\* client has keys, a certificate and a random of the server from the moment it
\* sends what rests on them.
THEOREM TypeCorrect == Spec => []TypeOK
<1>1. IInv => TypeOK
  <2> SUFFICES ASSUME IInv PROVE TypeOK
    OBVIOUS
  <2> USE DEF IInv
  <2>1. client.pc \in ClientPc
    BY DEF ClientInv
  <2>2. client.pc \in {"ChangeCipherSpec", "Finished", "await_ccs", "await_finished", "established"} =>
          client.keys # None /\ client.leaf # None /\ client.server_random # None
    BY DEF ClientInv
  <2>3. ASSUME NEW q, IsSeq(q), \A i \in 1..Len(q) : IsRecord(q[i]), NEW r \in ToSet(q)
        PROVE  r.type \in ContentType \cup {"unknown"}
    <3>1. DOMAIN q = 1..Len(q)
      BY <2>3, SeqOfElements DEF IsSeq
    <3> QED
      BY <2>3, <3>1 DEF ToSet, IsRecord
  <2>4. \A r \in ToSet(toServer) \cup ToSet(toClient) : r.type \in ContentType \cup {"unknown"}
    BY <2>3 DEF ToServerInv, ToClientInv
  <2> QED
    BY <2>1, <2>2, <2>4 DEF TypeOK, RestInv, ClientPc, Starting, Over
<1> QED
  BY <1>1, Invariance, PTL

\* An end that has finished has the transcript and the keys of the other, the
\* client from the server's own certificate, and the client never finishes
\* alone: after any number of damaged records and however the flight is cut.
THEOREM AgreementAlways == Spec => []Agreement
<1>1. IInv => Agreement
  BY DEF IInv, ServerInv, ClientInv, Agreement
<1> QED
  BY <1>1, Invariance, PTL

-----------------------------------------------------------------------------
(* A login that nothing disturbs but a refusal                             *)
(*                                                                         *)
(* What the two ends say to each other is then one fixed conversation, and *)
(* every state is a place in it: how far the client has come, how far the  *)
(* server, and what is on its way between them.                            *)

Quiet == faults = <<>> \/ (faults = <<"refusal">> /\ ~probing)

\* The conversation up to the end of the server's flight, and part of it.
Hello == frame_handshake("ClientHello", <<Random("client")>>) \o Flight
Part(a, b) == SubSeq(Hello, a + 1, b)

Keys      == key_block(Random("client"), Random("server"))
Premaster == build_client_key_exchange(Leaf("server"), Random("client"), Random("server"))

\* The transcript after each of the client's messages.
AfterCertificate == Hello \o frame_handshake("Certificate", <<Leaf("client")>>)
AfterKeyExchange == AfterCertificate \o frame_handshake("ClientKeyExchange", <<Premaster>>)
AfterVerify      == AfterKeyExchange \o frame_handshake("CertificateVerify", <<Signature(AfterKeyExchange)>>)
AfterFinished    == AfterVerify \o FinishedMessage(Keys, "client", AfterVerify)

\* The client's second flight, and for either end where it is and what its
\* transcript is when k records of that flight are behind it.
Sent == << Record("Handshake", frame_handshake("Certificate", <<Leaf("client")>>)),
           Record("Handshake", frame_handshake("ClientKeyExchange", <<Premaster>>)),
           Record("Handshake", frame_handshake("CertificateVerify", <<Signature(AfterKeyExchange)>>)),
           ChangeCipherSpec,
           Sealed(Keys, "client", FinishedMessage(Keys, "client", AfterVerify)) >>

Transcript == <<Hello, AfterCertificate, AfterKeyExchange, AfterVerify, AfterVerify, AfterFinished>>

ClientAt == <<"Certificate", "ClientKeyExchange", "CertificateVerify", "ChangeCipherSpec", "Finished", "await_ccs">>
ServerAt == <<"Certificate", "ClientKeyExchange", "CertificateVerify", "ChangeCipherSpec", "Finished", "done">>

ServerFinished == Sealed(Keys, "server", FinishedMessage(Keys, "server", AfterFinished))

\* Nothing has been said, or the ClientHello and no more.
Opening ==
  /\ client.pc = "ClientHello" /\ client.transcript = <<>> /\ client.buf = <<>> /\ ~client.probe
  /\ server.pc = "ClientHello" /\ server.transcript = <<>> /\ server.unsent = <<>>
  /\ toServer = <<>> /\ toClient = <<>> /\ ~closed

Hailed ==
  /\ client.pc = "flight" /\ client.transcript = Part(0, 3) /\ client.buf = <<>> /\ ~client.probe
  /\ server.pc = "ClientHello" /\ server.transcript = <<>> /\ server.unsent = <<>>
  /\ toServer = <<Record("Handshake", Part(0, 3))>> /\ toClient = <<>> /\ ~closed

\* The server's flight: the client has taken the messages up to t and has read
\* up to pos[0]; record i of the m on their way holds what is between pos[i - 1]
\* and pos[i]; the server has yet to send what comes after pos[m].
OnItsWay(t, m, pos) ==
  /\ client.transcript = Part(0, t) /\ client.buf = Part(t, pos[0])
  /\ t >= 6 => client.server_random = Random("server")
  /\ t >= 9 => client.leaf = Leaf("server")
  /\ t <= pos[0]
  /\ \A i, j \in 0..m : i < j => pos[i] < pos[j]
  /\ \A i \in 1..m : toClient[i] = Record("Handshake", Part(pos[i - 1], pos[i]))
  /\ Len(toClient) = IF closed THEN m + 1 ELSE m
  /\ closed => toClient[m + 1] = Alert
  /\ server.unsent = Part(pos[m], 14)

InFlight ==
  /\ client.pc = "flight" /\ ~client.probe
  /\ server.pc = "Certificate" /\ server.client_random = Random("client") /\ server.transcript = Hello
  /\ toServer = <<>>
  /\ \E t \in {3, 6, 9, 12}, m \in Nat : \E pos \in [0..m -> 3..14] : OnItsWay(t, m, pos)

\* The client's second flight, k records of which it has sent.
ClientSent(k) ==
  /\ client.pc = ClientAt[k + 1] /\ client.transcript = Transcript[k + 1]
  /\ client.server_random = Random("server") /\ client.leaf = Leaf("server")
  /\ k >= 2 => client.keys = Keys
  /\ client.probe => k \in 1..4

ServerTook(j, k) ==
  /\ server.pc = ServerAt[j + 1] /\ server.transcript = Transcript[j + 1]
  /\ server.client_random = Random("client") /\ server.unsent = <<>>
  /\ toServer = SubSeq(Sent, j + 1, k)
  /\ toClient = IF j = 5 THEN <<ChangeCipherSpec, ServerFinished>> ELSE <<>>

Exchange ==
  \E k \in 0..5 :
    /\ ClientSent(k)
    /\ closed => toClient = <<Alert>> /\ toServer = <<>>
    /\ ~closed => \E j \in 0..k : ServerTook(j, k)

\* The client waits for the server's Finished, or is done.
Ending ==
  /\ ~client.probe
  /\ \/ /\ client.pc = "await_finished" /\ client.transcript = AfterFinished /\ client.keys = Keys
        /\ server.pc = "done" /\ server.unsent = <<>>
        /\ toServer = <<>> /\ toClient = <<ServerFinished>>
     \/ client.pc = "established"
     \/ client.pc = "alert" /\ closed

Somewhere == Opening \/ Hailed \/ InFlight \/ Exchange \/ Ending

Course ==
  Quiet => /\ closed => faults = <<"refusal">>
           /\ client.probe => probing
           /\ Somewhere

-----------------------------------------------------------------------------
(* The conversation                                                        *)

LEMMA HelloPieces ==
  /\ IsSeq(Hello) /\ Len(Hello) = 14
  /\ Hello[1] = Type("ClientHello") /\ Hello[2] = Length(1) /\ Hello[3] = Random("client")
  /\ Hello[4] = Type("ServerHello") /\ Hello[5] = Length(1) /\ Hello[6] = Random("server")
  /\ Hello[7] = Type("Certificate") /\ Hello[8] = Length(1) /\ Hello[9] = Leaf("server")
  /\ Hello[10] = Type("CertificateRequest") /\ Hello[11] = Length(1) /\ Hello[12] = Request
  /\ Hello[13] = Type("ServerHelloDone") /\ Hello[14] = Length(0)
<1> DEFINE m0 == frame_handshake("ClientHello", <<Random("client")>>)
           m1 == frame_handshake("ServerHello", <<Random("server")>>)
           m2 == frame_handshake("Certificate", <<Leaf("server")>>)
           m3 == frame_handshake("CertificateRequest", <<Request>>)
           m4 == frame_handshake("ServerHelloDone", <<>>)
<1>1. /\ m0 = <<Type("ClientHello"), Length(1), Random("client")>>
      /\ m1 = <<Type("ServerHello"), Length(1), Random("server")>>
      /\ m2 = <<Type("Certificate"), Length(1), Leaf("server")>>
      /\ m3 = <<Type("CertificateRequest"), Length(1), Request>>
  BY FrameOfOne
<1>2. m4 = <<Type("ServerHelloDone"), Length(0)>>
  <2>1. \A x, y : <<x, y>> \o <<>> = <<x, y>>
    <3> TAKE x, y
    <3>1. <<x, y>> \in Seq({x, y})
      OBVIOUS
    <3> QED
      BY <3>1, ConcatEmptySeq
  <2>2. Len(<<>>) = 0
    OBVIOUS
  <2> QED
    BY <2>1, <2>2 DEF frame_handshake
<1>3. \A x, y, z : IsSeq(<<x, y, z>>) /\ Len(<<x, y, z>>) = 3
  <2> TAKE x, y, z
  <2>1. <<x, y, z>> \in Seq({x, y, z})
    OBVIOUS
  <2> QED
    BY <2>1, SeqOfElements
<1>4. \A x, y : IsSeq(<<x, y>>) /\ Len(<<x, y>>) = 2
  <2> TAKE x, y
  <2>1. <<x, y>> \in Seq({x, y})
    OBVIOUS
  <2> QED
    BY <2>1, SeqOfElements
<1>5. Hello = m0 \o (((m1 \o m2) \o m3) \o m4)
  BY DEF Hello, Flight
<1>6. /\ IsSeq(m0) /\ IsSeq(m1) /\ IsSeq(m2) /\ IsSeq(m3) /\ IsSeq(m4)
      /\ Len(m0) = 3 /\ Len(m1) = 3 /\ Len(m2) = 3 /\ Len(m3) = 3 /\ Len(m4) = 2
  BY <1>1, <1>2, <1>3, <1>4
<1> DEFINE f2 == m1 \o m2
           f3 == f2 \o m3
           f4 == f3 \o m4
<1> HIDE DEF m0, m1, m2, m3, m4
<1>7. IsSeq(f2) /\ Len(f2) = 6 /\ \A i \in 1..6 : f2[i] = IF i <= 3 THEN m1[i] ELSE m2[i - 3]
  <2>1. /\ IsSeq(f2) /\ Len(f2) = Len(m1) + Len(m2)
        /\ \A i \in 1..Len(m1) + Len(m2) : f2[i] = IF i <= Len(m1) THEN m1[i] ELSE m2[i - Len(m1)]
    BY <1>6, ConcatQueue
  <2> HIDE DEF f2
  <2> QED
    BY <1>6, <2>1
<1> HIDE DEF f2
<1>8. IsSeq(f3) /\ Len(f3) = 9 /\ \A i \in 1..9 : f3[i] = IF i <= 6 THEN f2[i] ELSE m3[i - 6]
  <2>1. /\ IsSeq(f3) /\ Len(f3) = Len(f2) + Len(m3)
        /\ \A i \in 1..Len(f2) + Len(m3) : f3[i] = IF i <= Len(f2) THEN f2[i] ELSE m3[i - Len(f2)]
    BY <1>6, <1>7, ConcatQueue
  <2> HIDE DEF f3
  <2> QED
    BY <1>6, <1>7, <2>1
<1> HIDE DEF f3
<1>9. IsSeq(f4) /\ Len(f4) = 11 /\ \A i \in 1..11 : f4[i] = IF i <= 9 THEN f3[i] ELSE m4[i - 9]
  <2>1. /\ IsSeq(f4) /\ Len(f4) = Len(f3) + Len(m4)
        /\ \A i \in 1..Len(f3) + Len(m4) : f4[i] = IF i <= Len(f3) THEN f3[i] ELSE m4[i - Len(f3)]
    BY <1>6, <1>8, ConcatQueue
  <2> HIDE DEF f4
  <2> QED
    BY <1>6, <1>8, <2>1
<1> HIDE DEF f4
<1>10. IsSeq(Hello) /\ Len(Hello) = 14 /\ \A i \in 1..14 : Hello[i] = IF i <= 3 THEN m0[i] ELSE f4[i - 3]
  <2>1. /\ IsSeq(Hello) /\ Len(Hello) = Len(m0) + Len(f4)
        /\ \A i \in 1..Len(m0) + Len(f4) : Hello[i] = IF i <= Len(m0) THEN m0[i] ELSE f4[i - Len(m0)]
    BY <1>5, <1>6, <1>9, ConcatQueue DEF f2, f3, f4
  <2> QED
    BY <1>6, <1>9, <2>1
<1>11. /\ Hello[1] = m0[1] /\ Hello[2] = m0[2] /\ Hello[3] = m0[3]
       /\ Hello[4] = m1[1] /\ Hello[5] = m1[2] /\ Hello[6] = m1[3]
       /\ Hello[7] = m2[1] /\ Hello[8] = m2[2] /\ Hello[9] = m2[3]
       /\ Hello[10] = m3[1] /\ Hello[11] = m3[2] /\ Hello[12] = m3[3]
       /\ Hello[13] = m4[1] /\ Hello[14] = m4[2]
  BY <1>7, <1>8, <1>9, <1>10
<1> QED
  BY <1>1, <1>2, <1>10, <1>11

HelloPiece == {Hello[i] : i \in DOMAIN Hello}

LEMMA PartType ==
  ASSUME NEW a \in Nat, NEW b \in Nat, a <= b, b <= 14
  PROVE  /\ Part(a, b) \in Seq(HelloPiece) /\ Len(Part(a, b)) = b - a
         /\ \A i \in 1..b - a : Part(a, b)[i] = Hello[a + i] /\ Hello[a + i] \in HelloPiece
<1>1. Hello \in Seq(HelloPiece) /\ Len(Hello) = 14
  BY HelloPieces DEF IsSeq, HelloPiece
<1>2. \A i \in 1..14 : Hello[i] \in HelloPiece
  <2>1. DOMAIN Hello = 1..14
    BY <1>1, LenProperties
  <2> QED
    BY <2>1 DEF HelloPiece
<1>3. \A i \in a + 1..b : Hello[i] \in HelloPiece
  BY <1>2
<1>4. a + 1 \in Int /\ b \in Int
  OBVIOUS
<1>5. /\ SubSeq(Hello, a + 1, b) \in Seq(HelloPiece)
      /\ Len(SubSeq(Hello, a + 1, b)) = IF a + 1 <= b THEN b - (a + 1) + 1 ELSE 0
      /\ \A i \in 1..b - (a + 1) + 1 : SubSeq(Hello, a + 1, b)[i] = Hello[a + 1 + i - 1]
  BY <1>3, <1>4, SubSeqProperties
<1>6. b - (a + 1) + 1 = b - a /\ \A i \in 1..b - a : a + 1 + i - 1 = a + i /\ a + i \in 1..14
  OBVIOUS
<1> QED
  BY <1>2, <1>5, <1>6 DEF Part

LEMMA PartJoined ==
  ASSUME NEW a \in Nat, NEW b \in Nat, NEW c \in Nat, a <= b, b <= c, c <= 14
  PROVE  Part(a, b) \o Part(b, c) = Part(a, c)
<1>1. Hello \in Seq(HelloPiece) /\ Len(Hello) = 14
  BY HelloPieces DEF IsSeq, HelloPiece
<1>2. a + 1 \in 1..15 /\ b \in a + 1 - 1..14 /\ c \in b..14
  OBVIOUS
<1> QED
  BY <1>1, <1>2, ConcatAdjacentSubSeq DEF Part

LEMMA PartCut ==
  ASSUME NEW a \in Nat, NEW b \in Nat, NEW n \in Nat, a + n <= b, b <= 14
  PROVE  SubSeq(Part(a, b), 1, n) = Part(a, a + n) /\ Rest(Part(a, b), n) = Part(a + n, b)
<1> DEFINE q == Part(a, b)
<1>1. q \in Seq(HelloPiece) /\ Len(q) = b - a /\ \A i \in 1..b - a : q[i] = Hello[a + i] /\ q[i] \in HelloPiece
  <2>1. a <= b
    OBVIOUS
  <2> QED
    BY <2>1, PartType
<1>2. /\ Part(a, a + n) \in Seq(HelloPiece) /\ Len(Part(a, a + n)) = n
      /\ \A i \in 1..n : Part(a, a + n)[i] = Hello[a + i]
  <2>1. a + n \in Nat /\ a <= a + n /\ a + n <= 14 /\ a + n - a = n
    OBVIOUS
  <2> QED
    BY <2>1, PartType
<1>3. /\ Part(a + n, b) \in Seq(HelloPiece) /\ Len(Part(a + n, b)) = b - (a + n)
      /\ \A i \in 1..b - (a + n) : Part(a + n, b)[i] = Hello[a + n + i]
  <2>1. a + n \in Nat
    OBVIOUS
  <2> QED
    BY <2>1, PartType
<1> HIDE DEF q
<1>4. SubSeq(q, 1, n) \in Seq(HelloPiece) /\ Len(SubSeq(q, 1, n)) = n /\ \A i \in 1..n : SubSeq(q, 1, n)[i] = q[i]
  <2>1. 1 \in Int /\ n \in Int /\ \A i \in 1..n : q[i] \in HelloPiece
    BY <1>1
  <2>2. /\ SubSeq(q, 1, n) \in Seq(HelloPiece) /\ Len(SubSeq(q, 1, n)) = IF 1 <= n THEN n - 1 + 1 ELSE 0
        /\ \A i \in 1..n - 1 + 1 : SubSeq(q, 1, n)[i] = q[1 + i - 1]
    BY <2>1, SubSeqProperties
  <2> QED
    BY <2>2
<1>5. /\ SubSeq(q, n + 1, b - a) \in Seq(HelloPiece) /\ Len(SubSeq(q, n + 1, b - a)) = b - (a + n)
      /\ \A i \in 1..b - (a + n) : SubSeq(q, n + 1, b - a)[i] = q[n + i]
  <2>1. n + 1 \in Int /\ b - a \in Int /\ \A i \in n + 1..b - a : q[i] \in HelloPiece
    BY <1>1
  <2>2. /\ SubSeq(q, n + 1, b - a) \in Seq(HelloPiece)
        /\ Len(SubSeq(q, n + 1, b - a)) = IF n + 1 <= b - a THEN b - a - (n + 1) + 1 ELSE 0
        /\ \A i \in 1..b - a - (n + 1) + 1 : SubSeq(q, n + 1, b - a)[i] = q[n + 1 + i - 1]
    BY <2>1, SubSeqProperties
  <2>3. b - a - (n + 1) + 1 = b - (a + n) /\ \A i \in 1..b - (a + n) : n + 1 + i - 1 = n + i
    OBVIOUS
  <2> QED
    BY <2>2, <2>3
<1>6. \A i \in 1..n : SubSeq(q, 1, n)[i] = Part(a, a + n)[i]
  BY <1>1, <1>2, <1>4
<1>7. \A i \in 1..b - (a + n) : SubSeq(q, n + 1, b - a)[i] = Part(a + n, b)[i]
  <2> TAKE i \in 1..b - (a + n)
  <2>1. n + i \in 1..b - a /\ a + (n + i) = a + n + i
    OBVIOUS
  <2> QED
    BY <1>1, <1>3, <1>5, <2>1
<1>8. SubSeq(q, 1, n) = Part(a, a + n)
  BY <1>2, <1>4, <1>6, SeqEqual
<1>9. SubSeq(q, n + 1, b - a) = Part(a + n, b)
  BY <1>3, <1>5, <1>7, SeqEqual
<1> QED
  BY <1>1, <1>8, <1>9 DEF q, Rest

\* The next message of the flight is whole when its last piece is there.
LEMMA WholeMessage ==
  ASSUME NEW t \in {3, 6, 9, 12}, NEW p \in t..14
  PROVE  /\ Complete(Part(t, p)) <=> p >= IF t = 12 THEN 14 ELSE t + 3
         /\ p >= t + 2 => LengthOf(Part(t, p)[2]) = IF t = 12 THEN 0 ELSE 1
<1>1. Len(Part(t, p)) = p - t /\ \A i \in 1..p - t : Part(t, p)[i] = Hello[t + i]
  <2>1. t \in Nat /\ p \in Nat /\ t <= p /\ p <= 14
    OBVIOUS
  <2> QED
    BY <2>1, PartType
<1>2. LengthOf(Hello[t + 2]) = IF t = 12 THEN 0 ELSE 1
  BY HelloPieces DEF LengthOf, Length
<1>3. p >= t + 2 => Part(t, p)[2] = Hello[t + 2]
  BY <1>1
<1> QED
  BY <1>1, <1>2, <1>3 DEF Complete

LEMMA CancelLeft ==
  ASSUME NEW S, NEW s \in Seq(S), NEW t \in Seq(S), NEW v \in Seq(S), s \o t = s \o v
  PROVE  t = v
<1>1. /\ Len(s \o t) = Len(s) + Len(t)
      /\ \A i \in 1..Len(s) + Len(t) : (s \o t)[i] = IF i <= Len(s) THEN s[i] ELSE t[i - Len(s)]
      /\ Len(s \o v) = Len(s) + Len(v)
      /\ \A i \in 1..Len(s) + Len(v) : (s \o v)[i] = IF i <= Len(s) THEN s[i] ELSE v[i - Len(s)]
  BY ConcatProperties
<1>2. Len(s) \in Nat /\ Len(t) \in Nat /\ Len(v) \in Nat
  BY LenProperties
<1>3. Len(t) = Len(v)
  BY <1>1, <1>2
<1>4. ASSUME NEW i \in 1..Len(t)
      PROVE  t[i] = v[i]
  <2> DEFINE j == Len(s) + i
  <2>1. j \in 1..Len(s) + Len(t) /\ ~(j <= Len(s)) /\ j - Len(s) = i
    BY <1>2
  <2> HIDE DEF j
  <2>2. (s \o t)[j] = t[i] /\ (s \o v)[j] = v[i]
    BY <1>1, <1>3, <2>1
  <2> QED
    BY <2>2
<1> QED
  BY <1>3, <1>4, SeqEqual

LEMMA HelloParts ==
  /\ frame_handshake("ClientHello", <<Random("client")>>) = Part(0, 3)
  /\ Flight = Part(3, 14) /\ Part(0, 14) = Hello
<1> DEFINE m0 == frame_handshake("ClientHello", <<Random("client")>>)
           x == Type("ClientHello")
           y == Length(1)
           z == Random("client")
<1>1. Hello \in Seq(HelloPiece) /\ Len(Hello) = 14
  BY HelloPieces DEF IsSeq, HelloPiece
<1>2. Part(0, 14) = Hello
  BY <1>1, SubSeqFull DEF Part
<1>3. m0 = <<x, y, z>>
  BY FrameOfOne
<1>4. Hello[1] = x /\ Hello[2] = y /\ Hello[3] = z
  BY HelloPieces
<1>5. /\ Part(0, 3) \in Seq(HelloPiece) /\ Len(Part(0, 3)) = 3
      /\ \A i \in 1..3 : Part(0, 3)[i] = Hello[i] /\ Hello[i] \in HelloPiece
  <2>1. /\ Part(0, 3) \in Seq(HelloPiece) /\ Len(Part(0, 3)) = 3 - 0
        /\ \A i \in 1..3 - 0 : Part(0, 3)[i] = Hello[0 + i] /\ Hello[0 + i] \in HelloPiece
    <3>1. 0 \in Nat /\ 3 \in Nat /\ 0 <= 3 /\ 3 <= 14
      OBVIOUS
    <3> QED
      BY <3>1, PartType, Zenon
  <2> QED
    BY <2>1
<1> HIDE DEF m0, x, y, z
<1>6. m0 \in Seq(HelloPiece) /\ Len(m0) = 3 /\ \A i \in 1..3 : m0[i] = Hello[i]
  <2>1. x \in HelloPiece /\ y \in HelloPiece /\ z \in HelloPiece
    BY <1>4, <1>5
  <2> QED
    BY <1>3, <1>4, <2>1
<1>7. Part(0, 3) = m0
  BY <1>5, <1>6, SeqEqual
<1>8. Part(0, 3) \o Part(3, 14) = Part(0, 14)
  <2>1. 0 \in Nat /\ 3 \in Nat /\ 14 \in Nat /\ 0 <= 3 /\ 3 <= 14 /\ 14 <= 14
    OBVIOUS
  <2> QED
    BY <2>1, PartJoined, Zenon
<1>9. m0 \o Flight = m0 \o Part(3, 14)
  BY <1>2, <1>7, <1>8 DEF Hello, m0
<1>10. Flight = Part(3, 14)
  <2> DEFINE U == FlightPiece \cup HelloPiece
  <2>1. Flight \in Seq(U)
    BY FlightOfPieces, SeqMonotonic
  <2>2. Part(3, 14) \in Seq(HelloPiece)
    <3>1. 3 \in Nat /\ 14 \in Nat /\ 3 <= 14 /\ 14 <= 14
      OBVIOUS
    <3> QED
      BY <3>1, PartType, Zenon
  <2>3. Part(3, 14) \in Seq(U) /\ m0 \in Seq(U)
    BY <1>6, <2>2, SeqMonotonic
  <2> HIDE DEF U
  <2> QED
    BY <1>9, <2>1, <2>3, CancelLeft
<1> QED
  BY <1>2, <1>7, <1>10 DEF m0

-----------------------------------------------------------------------------
(* The client's second flight                                              *)

LEMMA Segment ==
  ASSUME NEW S, NEW q \in Seq(S), NEW j \in Nat, NEW k \in Nat, j <= k, k <= Len(q)
  PROVE  /\ SubSeq(q, j + 1, k) = <<>> <=> j = k
         /\ j < k => Head(SubSeq(q, j + 1, k)) = q[j + 1] /\ Tail(SubSeq(q, j + 1, k)) = SubSeq(q, j + 1 + 1, k)
         /\ k < Len(q) => Append(SubSeq(q, j + 1, k), q[k + 1]) = SubSeq(q, j + 1, k + 1)
<1>1. Len(q) \in Nat
  BY LenProperties
<1>2. \A i \in 1..Len(q) : q[i] \in S
  BY ElementOfSeq
<1>3. /\ SubSeq(q, j + 1, k) \in Seq(S)
      /\ Len(SubSeq(q, j + 1, k)) = IF j + 1 <= k THEN k - (j + 1) + 1 ELSE 0
  <2>1. j + 1 \in Int /\ k \in Int /\ \A i \in j + 1..k : q[i] \in S
    BY <1>1, <1>2
  <2> QED
    BY <2>1, SubSeqProperties
<1>4. SubSeq(q, j + 1, k) = <<>> <=> j = k
  BY <1>3, EmptySeq
<1>5. ASSUME j < k
      PROVE  Head(SubSeq(q, j + 1, k)) = q[j + 1] /\ Tail(SubSeq(q, j + 1, k)) = SubSeq(q, j + 1 + 1, k)
  <2>1. j + 1 \in 1..Len(q) /\ k \in j + 1..Len(q)
    BY <1>1, <1>5
  <2> QED
    BY <2>1, HeadTailOfSubSeq
<1>6. ASSUME k < Len(q)
      PROVE  Append(SubSeq(q, j + 1, k), q[k + 1]) = SubSeq(q, j + 1, k + 1)
  <2>1. j + 1 \in 1..Len(q) /\ k + 1 \in j + 1..Len(q) /\ k + 1 - 1 = k
    BY <1>1, <1>6
  <2>2. SubSeq(q, j + 1, k + 1) = SubSeq(q, j + 1, k) \o <<q[k + 1]>>
    BY <2>1, SubSeqRecursiveSecond
  <2>3. q[k + 1] \in S
    BY <1>2, <2>1
  <2> QED
    BY <1>3, <2>2, <2>3, AppendIsConcat
<1> QED
  BY <1>4, <1>5, <1>6

\* Five records, four of them with one message each.
LEMMA SentRecords ==
  /\ Sent \in Seq({Sent[1], Sent[2], Sent[3], Sent[4], Sent[5]}) /\ Len(Sent) = 5
  /\ Sent[1] = Record("Handshake", frame_handshake("Certificate", <<Leaf("client")>>))
  /\ Sent[2] = Record("Handshake", frame_handshake("ClientKeyExchange", <<Premaster>>))
  /\ Sent[3] = Record("Handshake", frame_handshake("CertificateVerify", <<Signature(AfterKeyExchange)>>))
  /\ Sent[4] = ChangeCipherSpec
  /\ Sent[5] = Sealed(Keys, "client", FinishedMessage(Keys, "client", AfterVerify))
<1> DEFINE a == Record("Handshake", frame_handshake("Certificate", <<Leaf("client")>>))
           b == Record("Handshake", frame_handshake("ClientKeyExchange", <<Premaster>>))
           c == Record("Handshake", frame_handshake("CertificateVerify", <<Signature(AfterKeyExchange)>>))
           d == ChangeCipherSpec
           e == Sealed(Keys, "client", FinishedMessage(Keys, "client", AfterVerify))
<1>1. Sent = <<a, b, c, d, e>>
  BY DEF Sent
<1> HIDE DEF a, b, c, d, e
<1>2. /\ Len(Sent) = 5
      /\ Sent[1] = a /\ Sent[2] = b /\ Sent[3] = c /\ Sent[4] = d /\ Sent[5] = e
  BY <1>1
<1>3. Sent \in Seq({a, b, c, d, e})
  BY <1>1
<1> QED
  BY <1>2, <1>3 DEF a, b, c, d, e

LEMMA Transcripts ==
  /\ Transcript[1] = Hello /\ Transcript[2] = AfterCertificate /\ Transcript[3] = AfterKeyExchange
  /\ Transcript[4] = AfterVerify /\ Transcript[5] = AfterVerify /\ Transcript[6] = AfterFinished
  /\ \A i \in 1..6 : IsSeq(Transcript[i])
<1>1. /\ Transcript[1] = Hello /\ Transcript[2] = AfterCertificate /\ Transcript[3] = AfterKeyExchange
      /\ Transcript[4] = AfterVerify /\ Transcript[5] = AfterVerify /\ Transcript[6] = AfterFinished
  BY DEF Transcript
<1>2. ASSUME NEW t, NEW b
      PROVE  IsSeq(frame_handshake(t, <<b>>))
  <2>1. frame_handshake(t, <<b>>) = <<Type(t), Length(1), b>>
    BY FrameOfOne
  <2>2. <<Type(t), Length(1), b>> \in Seq({Type(t), Length(1), b})
    OBVIOUS
  <2> QED
    BY <2>1, <2>2, SeqOfElements
<1>3. IsSeq(AfterCertificate)
  BY <1>2, HelloPieces, ConcatQueue DEF AfterCertificate
<1>4. IsSeq(AfterKeyExchange)
  BY <1>2, <1>3, ConcatQueue DEF AfterKeyExchange
<1>5. IsSeq(AfterVerify)
  BY <1>2, <1>4, ConcatQueue DEF AfterVerify
<1>6. IsSeq(AfterFinished)
  BY <1>2, <1>5, ConcatQueue DEF AfterFinished, FinishedMessage
<1> QED
  BY <1>1, <1>3, <1>4, <1>5, <1>6, HelloPieces

LEMMA Places ==
  /\ ClientAt[1] = "Certificate" /\ ClientAt[2] = "ClientKeyExchange" /\ ClientAt[3] = "CertificateVerify"
  /\ ClientAt[4] = "ChangeCipherSpec" /\ ClientAt[5] = "Finished" /\ ClientAt[6] = "await_ccs"
  /\ ServerAt[1] = "Certificate" /\ ServerAt[2] = "ClientKeyExchange" /\ ServerAt[3] = "CertificateVerify"
  /\ ServerAt[4] = "ChangeCipherSpec" /\ ServerAt[5] = "Finished" /\ ServerAt[6] = "done"
BY DEF ClientAt, ServerAt

\* The next record is what the server waits for, and the transcript it goes on
\* with is the client's.
LEMMA Awaited ==
  ASSUME NEW j \in 1..5, NEW k, k = j + 1,
         server.pc = ServerAt[j], server.transcript = Transcript[j], server.client_random = Random("client")
  PROVE  /\ Expected(Sent[j]) /\ server.transcript \o Added(Sent[j]) = Transcript[k]
         /\ After(server.pc) = ServerAt[k]
         /\ server.pc # "ClientHello" /\ (server.pc = "Finished" <=> j = 5)
<1>1. ServerKeys = Keys
  BY DEF ServerKeys, Keys
<1>2. IsSeq(AfterVerify) /\ AfterVerify \o <<>> = AfterVerify
  BY Transcripts, ConcatEmptySeq DEF IsSeq
<1>3. \A p : Record("Handshake", p) # ChangeCipherSpec /\ Record("Handshake", p).payload = p
  BY DEF Record, ChangeCipherSpec
<1>4. CASE j = 1 /\ k = 2
  <2>1. server.pc = "Certificate" /\ server.transcript = Hello /\ After(server.pc) = "ClientKeyExchange"
    BY <1>4, Places, Transcripts DEF After
  <2>2. Expected(Sent[1])
    BY <2>1, SentRecords DEF Expected
  <2>3. server.transcript \o Added(Sent[1]) = AfterCertificate
    BY <1>3, <2>1, SentRecords DEF Added, AfterCertificate
  <2> QED
    BY <1>4, <2>1, <2>2, <2>3, Places, Transcripts
<1>5. CASE j = 2 /\ k = 3
  <2>1. server.pc = "ClientKeyExchange" /\ server.transcript = AfterCertificate /\ After(server.pc) = "CertificateVerify"
    BY <1>5, Places, Transcripts DEF After
  <2>2. Expected(Sent[2])
    BY <2>1, SentRecords DEF Expected, Premaster
  <2>3. server.transcript \o Added(Sent[2]) = AfterKeyExchange
    BY <1>3, <2>1, SentRecords DEF Added, AfterKeyExchange
  <2> QED
    BY <1>5, <2>1, <2>2, <2>3, Places, Transcripts
<1>6. CASE j = 3 /\ k = 4
  <2>1. server.pc = "CertificateVerify" /\ server.transcript = AfterKeyExchange /\ After(server.pc) = "ChangeCipherSpec"
    BY <1>6, Places, Transcripts DEF After
  <2>2. Expected(Sent[3])
    BY <2>1, SentRecords DEF Expected
  <2>3. server.transcript \o Added(Sent[3]) = AfterVerify
    BY <1>3, <2>1, SentRecords DEF Added, AfterVerify
  <2> QED
    BY <1>6, <2>1, <2>2, <2>3, Places, Transcripts
<1>7. CASE j = 4 /\ k = 5
  <2>1. server.pc = "ChangeCipherSpec" /\ server.transcript = AfterVerify /\ After(server.pc) = "Finished"
    BY <1>7, Places, Transcripts DEF After
  <2>2. Expected(Sent[4])
    BY <2>1, SentRecords DEF Expected
  <2>3. server.transcript \o Added(Sent[4]) = AfterVerify
    BY <1>2, <2>1, SentRecords DEF Added
  <2> QED
    BY <1>7, <2>1, <2>2, <2>3, Places, Transcripts
<1>8. CASE j = 5 /\ k = 6
  <2>1. server.pc = "Finished" /\ server.transcript = AfterVerify /\ After(server.pc) = "done"
    BY <1>8, Places, Transcripts DEF After
  <2>2. Expected(Sent[5])
    BY <1>1, <2>1, SentRecords DEF Expected, FinishedMessage
  <2>3. Added(Sent[5]) = FinishedMessage(Keys, "client", AfterVerify)
    <3> DEFINE M == FinishedMessage(Keys, "client", AfterVerify)
               p == <<"sealed", Keys, "client", M>>
    <3>1. Sent[5] = Record("Handshake", <<p>>)
      BY SentRecords DEF Sealed
    <3>2. p[4] = M
      OBVIOUS
    <3> HIDE DEF M, p
    <3>3. Sent[5].payload[1] = p
      BY <1>3, <3>1
    <3>4. Added(Sent[5]) = M
      BY <1>3, <2>1, <3>1, <3>2, <3>3 DEF Added
    <3> QED
      BY <3>4 DEF M
  <2> QED
    BY <1>8, <2>1, <2>2, <2>3, Places, Transcripts DEF AfterFinished
<1>9. \/ j = 1 /\ k = 2
      \/ j = 2 /\ k = 3
      \/ j = 3 /\ k = 4
      \/ j = 4 /\ k = 5
      \/ j = 5 /\ k = 6
  OBVIOUS
<1> QED
  BY <1>4, <1>5, <1>6, <1>7, <1>8, <1>9, Zenon

LEMMA ServerTakes ==
  ASSUME NEW k \in 0..5, NEW j \in 0..k, ServerTook(j, k), ServerReads
  PROVE  j + 1 \in 0..k /\ ServerTook(j + 1, k)' /\ UNCHANGED <<client, closed, probing, faults>>
<1>1. /\ ~closed /\ toServer # <<>> /\ UNCHANGED <<client, probing, faults>>
      /\ IF Expected(Head(toServer)) THEN Serve(Head(toServer)) ELSE Refuse
  BY DEF ServerReads
<1>2. /\ toServer = SubSeq(Sent, j + 1, k) /\ server.pc = ServerAt[j + 1] /\ server.transcript = Transcript[j + 1]
      /\ server.client_random = Random("client") /\ server.unsent = <<>>
      /\ toClient = IF j = 5 THEN <<ChangeCipherSpec, ServerFinished>> ELSE <<>>
  BY DEF ServerTook
<1>3. PICK S : Sent \in Seq(S) /\ Len(Sent) = 5
  BY SentRecords
<1>4. /\ j < k /\ Head(toServer) = Sent[j + 1] /\ Tail(toServer) = SubSeq(Sent, j + 1 + 1, k)
  <2>1. j \in Nat /\ k \in Nat /\ j <= k /\ k <= Len(Sent)
    BY <1>3
  <2> QED
    BY <1>1, <1>2, <1>3, <2>1, Segment
<1>5. j \in 0..4 /\ j # 5
  BY <1>4
<1> DEFINE r == Sent[j + 1]
           transcript == server.transcript \o Added(r)
<1>6. /\ Expected(r) /\ transcript = Transcript[j + 1 + 1] /\ After(server.pc) = ServerAt[j + 1 + 1]
      /\ server.pc # "ClientHello" /\ (server.pc = "Finished" <=> j = 4)
  <2>1. j + 1 \in 1..5 /\ (j + 1 = 5 <=> j = 4)
    BY <1>5
  <2> QED
    BY <1>2, <2>1, Awaited
<1>7. Serve(r)
  BY <1>1, <1>4, <1>6
<1>8. /\ server'.pc = After(server.pc)
      /\ server'.client_random = server.client_random
      /\ server'.transcript = transcript \o <<>>
      /\ server'.unsent = server.unsent
      /\ toServer' = Tail(toServer)
      /\ UNCHANGED closed
  BY <1>6, <1>7 DEF Serve
<1>9. server'.transcript = Transcript[j + 1 + 1]
  <2>1. IsSeq(Transcript[j + 1 + 1])
    <3>1. j + 1 + 1 \in 1..6
      BY <1>5
    <3> QED
      BY <3>1, Transcripts
  <2> HIDE DEF transcript
  <2> QED
    BY <1>6, <1>8, <2>1, ConcatEmptySeq DEF IsSeq
<1>10. toClient' = IF j + 1 = 5 THEN <<ChangeCipherSpec, ServerFinished>> ELSE <<>>
  <2>1. CASE j # 4
    <3>1. toClient' = toClient
      BY <1>6, <1>7, <2>1 DEF Serve
    <3> QED
      BY <1>2, <1>5, <2>1, <3>1
  <2>2. CASE j = 4
    <3> DEFINE f == Sealed(ServerKeys, "server", frame_handshake("Finished",
                             <<finished_body(ServerKeys, "server", transcript)>>))
    <3>1. toClient' = toClient \o <<ChangeCipherSpec, f>>
      BY <1>6, <1>7, <2>2 DEF Serve
    <3>2. transcript = AfterFinished
      BY <1>6, <2>2, Transcripts
    <3>3. f = ServerFinished
      BY <1>2, <3>2 DEF ServerKeys, Keys, ServerFinished, FinishedMessage
    <3> HIDE DEF f
    <3>4. <<ChangeCipherSpec, f>> \in Seq({ChangeCipherSpec, f})
      OBVIOUS
    <3>5. toClient = <<>>
      BY <1>2, <2>2
    <3>6. <<>> \o <<ChangeCipherSpec, f>> = <<ChangeCipherSpec, f>>
      BY <3>4, ConcatEmptySeq
    <3> QED
      BY <2>2, <3>1, <3>3, <3>5, <3>6
  <2> QED
    BY <2>1, <2>2
<1>11. ServerTook(j + 1, k)'
  <2> HIDE DEF transcript, r
  <2>1. /\ server'.pc = ServerAt[j + 1 + 1] /\ server'.transcript = Transcript[j + 1 + 1]
        /\ server'.client_random = Random("client") /\ server'.unsent = <<>>
        /\ toServer' = SubSeq(Sent, j + 1 + 1, k)
    BY <1>2, <1>4, <1>6, <1>8, <1>9, Zenon
  <2> QED
    BY <1>10, <2>1 DEF ServerTook
<1> QED
  BY <1>1, <1>4, <1>8, <1>11

LEMMA OneRecord == \A r : Head(<<r>>) = r /\ Tail(<<r>>) = <<>> /\ <<r>> # <<>> /\ Len(<<r>>) = 1 /\ <<r>>[1] = r
OBVIOUS

ClientPlaces == {"Certificate", "ClientKeyExchange", "CertificateVerify", "ChangeCipherSpec", "Finished", "await_ccs"}

\* Where the client is says what stage the conversation is at.
LEMMA Stages ==
  ASSUME Somewhere
  PROVE  /\ client.pc = "ClientHello" => Opening
         /\ client.pc = "flight" => Hailed \/ InFlight
         /\ client.pc \in ClientPlaces => Exchange
         /\ client.pc \in {"await_finished", "established", "alert"} => Ending
         /\ client.pc # "error"
<1>1. Exchange => client.pc \in ClientPlaces
  <2>1. \A i \in 1..6 : ClientAt[i] \in ClientPlaces
    <3> TAKE i \in 1..6
    <3>1. i = 1 \/ i = 2 \/ i = 3 \/ i = 4 \/ i = 5 \/ i = 6
      OBVIOUS
    <3> QED
      BY <3>1, Places DEF ClientPlaces
  <2>2. \A k \in 0..5 : k + 1 \in 1..6
    OBVIOUS
  <2> QED
    BY <2>1, <2>2 DEF Exchange, ClientSent
<1>2. Opening => client.pc = "ClientHello"
  BY DEF Opening
<1>3. Hailed \/ InFlight => client.pc = "flight"
  BY DEF Hailed, InFlight
<1>4. Ending => client.pc \in {"await_finished", "established", "alert"}
  BY DEF Ending
<1> QED
  BY <1>1, <1>2, <1>3, <1>4 DEF Somewhere, ClientPlaces

\* The client is at the message with number i of its second flight.
LEMMA ExchangeAt ==
  ASSUME Exchange, NEW i \in 1..6, client.pc = ClientAt[i]
  PROVE  /\ ClientSent(i - 1)
         /\ closed => toClient = <<Alert>> /\ toServer = <<>>
         /\ ~closed => \E j \in 0..i - 1 : ServerTook(j, i - 1)
<1>1. PICK k \in 0..5 : /\ ClientSent(k)
                        /\ closed => toClient = <<Alert>> /\ toServer = <<>>
                        /\ ~closed => \E j \in 0..k : ServerTook(j, k)
  BY DEF Exchange
<1>2. ClientAt[k + 1] = ClientAt[i] /\ k + 1 \in 1..6
  BY <1>1 DEF ClientSent
<1>3. \A a, b \in 1..6 : ClientAt[a] = ClientAt[b] => a = b
  <2> TAKE a, b \in 1..6
  <2>1. /\ a = 1 \/ a = 2 \/ a = 3 \/ a = 4 \/ a = 5 \/ a = 6
        /\ b = 1 \/ b = 2 \/ b = 3 \/ b = 4 \/ b = 5 \/ b = 6
    OBVIOUS
  <2> QED
    BY <2>1, Places
<1>4. k = i - 1
  BY <1>2, <1>3
<1> QED
  BY <1>1, <1>4

\* The client sends its next record and goes on, or learns of the refusal.
LEMMA SendOnward ==
  ASSUME IInv, Exchange, NEW i \in 1..5, client.pc = ClientAt[i], ~client.probe,
         NEW c, Send(Sent[i], c), UNCHANGED <<server, closed>>,
         c.pc = ClientAt[i + 1], c.transcript = Transcript[i + 1],
         c.server_random = client.server_random, c.leaf = client.leaf,
         i >= 2 => c.keys = Keys, c.probe => i \in 1..4
  PROVE  /\ Exchange' \/ Ending'
         /\ client' = c \/ ~client'.probe
<1>1. /\ ClientSent(i - 1)
      /\ closed => toClient = <<Alert>> /\ toServer = <<>>
      /\ ~closed => \E j \in 0..i - 1 : ServerTook(j, i - 1)
  <2>1. i \in 1..6
    OBVIOUS
  <2> QED
    BY <2>1, ExchangeAt
<1>2. i \in 0..5
  OBVIOUS
<1>3. CASE client' = c /\ UNCHANGED toClient /\ toServer' = IF closed THEN toServer ELSE Append(toServer, Sent[i])
  <2>1. ClientSent(i)'
    BY <1>1, <1>3 DEF ClientSent
  <2>2. closed' => toClient' = <<Alert>> /\ toServer' = <<>>
    BY <1>1, <1>3
  <2>3. ASSUME ~closed'
        PROVE  \E j \in 0..i : ServerTook(j, i)'
    <3>1. PICK j \in 0..i - 1 : ServerTook(j, i - 1)
      BY <1>1, <2>3
    <3>2. toServer = SubSeq(Sent, j + 1, i - 1) /\ toServer' = Append(toServer, Sent[i])
      BY <1>3, <2>3, <3>1 DEF ServerTook
    <3>3. PICK S : Sent \in Seq(S) /\ Len(Sent) = 5
      BY <1>1, SentRecords
    <3>4. Append(SubSeq(Sent, j + 1, i - 1), Sent[i - 1 + 1]) = SubSeq(Sent, j + 1, i - 1 + 1)
      <4>1. j \in Nat /\ i - 1 \in Nat /\ j <= i - 1 /\ i - 1 <= Len(Sent) /\ i - 1 < Len(Sent)
        BY <3>3
      <4> QED
        BY <3>3, <4>1, Segment
    <3>5. i - 1 + 1 = i /\ j \in 0..i
      OBVIOUS
    <3>6. toServer' = SubSeq(Sent, j + 1, i)
      BY <3>2, <3>4, <3>5
    <3>7. ServerTook(j, i)'
      BY <1>3, <3>1, <3>6 DEF ServerTook
    <3> QED
      BY <3>5, <3>7
  <2>4. Exchange'
    BY <1>2, <2>1, <2>2, <2>3 DEF Exchange
  <2> QED
    BY <1>3, <2>4
<1>4. CASE closed /\ enrich_with_alert /\ UNCHANGED toServer
  <2>1. Head(toClient) = Alert /\ toClient # <<>>
    <3>1. toClient = <<Alert>>
      BY <1>1, <1>4
    <3> QED
      BY <3>1, OneRecord
  <2>2. client' = [client EXCEPT !.pc = "alert"]
    BY <1>4, <2>1 DEF enrich_with_alert, Become, Alert, Record
  <2>3. client'.pc = "alert" /\ client'.probe = client.probe
    BY <2>2 DEF IInv, ClientInv
  <2> QED
    BY <1>4, <2>3 DEF Ending
<1> QED
  BY <1>3, <1>4 DEF Send

\* Each message of the second flight.
LEMMA SecondFlight ==
  ASSUME IInv, Somewhere,
         Certificate \/ ClientKeyExchange \/ (CertificateVerify /\ UNCHANGED faults) \/ ChangeCipherSpecs \/ Finished
  PROVE  Somewhere' /\ (client'.probe => probing) /\ UNCHANGED closed
<1>1. DOMAIN client = {"pc", "transcript", "buf", "leaf", "server_random", "keys", "probe"}
  BY DEF IInv, ClientInv
<1>2. ASSUME NEW pc, NEW transcript
      PROVE  /\ DOMAIN Onward(pc, transcript) = DOMAIN client
             /\ Onward(pc, transcript).pc = pc /\ Onward(pc, transcript).transcript = transcript
             /\ Onward(pc, transcript).leaf = client.leaf
             /\ Onward(pc, transcript).server_random = client.server_random
             /\ Onward(pc, transcript).keys = client.keys
             /\ Onward(pc, transcript).probe = probing
  BY <1>1 DEF Onward
<1>3. ASSUME NEW i \in 1..5, NEW j, j = i + 1, client.pc = ClientAt[i], ~client.probe, Exchange,
             NEW c, Send(Sent[i], c), UNCHANGED <<server, closed>>,
             c.pc = ClientAt[j], c.transcript = Transcript[j],
             c.server_random = client.server_random, c.leaf = client.leaf,
             i >= 2 => c.keys = Keys, c.probe => i \in 1..4 /\ probing
      PROVE  Somewhere' /\ (client'.probe => probing) /\ UNCHANGED closed
  <2>1. c.probe => i \in 1..4
    BY <1>3
  <2>2. (Exchange' \/ Ending') /\ (client' = c \/ ~client'.probe)
    BY <1>3, <2>1, SendOnward
  <2> QED
    BY <1>3, <2>2 DEF Somewhere
<1>4. ASSUME NEW i \in 1..6, client.pc = ClientAt[i], Exchange
      PROVE  /\ client.transcript = Transcript[i] /\ client.server_random = Random("server")
             /\ client.leaf = Leaf("server") /\ (i >= 3 => client.keys = Keys)
  <2>1. ClientSent(i - 1) /\ i - 1 + 1 = i
    BY <1>4, ExchangeAt
  <2> QED
    BY <2>1 DEF ClientSent
<1>5. CASE Certificate
  <2>1. client.pc = "Certificate" /\ ~client.probe /\ UNCHANGED <<server, closed>>
    BY <1>5 DEF Certificate
  <2>2. Exchange
    BY <2>1, Stages DEF ClientPlaces
  <2> DEFINE m == frame_handshake("Certificate", <<Leaf("client")>>)
             c == Onward("ClientKeyExchange", client.transcript \o m)
  <2>3. Send(Record("Handshake", m), c)
    BY <1>5 DEF Certificate, push_message
  <2>4. client.pc = ClientAt[1] /\ client.transcript = Hello
    BY <1>4, <2>1, <2>2, Places, Transcripts
  <2>5. Send(Sent[1], c)
    BY <2>3, SentRecords
  <2>6. /\ c.pc = ClientAt[2] /\ c.transcript = Transcript[2]
        /\ c.server_random = client.server_random /\ c.leaf = client.leaf /\ c.probe = probing
    <3>1. client.transcript \o m = Transcript[2]
      BY <2>4, Transcripts DEF AfterCertificate
    <3> HIDE DEF m
    <3> QED
      BY <1>2, <3>1, Places
  <2> HIDE DEF c, m
  <2>7. 1 \in 1..5 /\ 2 = 1 + 1 /\ 1 \in 1..4 /\ ~(1 >= 2)
    OBVIOUS
  <2> QED
    BY <1>3, <2>1, <2>2, <2>4, <2>5, <2>6, <2>7
<1>6. CASE ClientKeyExchange
  <2>1. client.pc = "ClientKeyExchange" /\ ~client.probe /\ UNCHANGED <<server, closed>>
    BY <1>6 DEF ClientKeyExchange
  <2>2. Exchange
    BY <2>1, Stages DEF ClientPlaces
  <2>3. client.pc = ClientAt[2]
    BY <2>1, Places
  <2>4. /\ client.transcript = AfterCertificate /\ client.leaf = Leaf("server")
        /\ client.server_random = Random("server")
    BY <1>4, <2>2, <2>3, Transcripts
  <2> DEFINE m == frame_handshake("ClientKeyExchange", <<Premaster>>)
             o == Onward("CertificateVerify", client.transcript \o m)
             c == [o EXCEPT !.keys = Keys]
  <2>5. Send(Record("Handshake", m), c)
    BY <1>6, <2>4 DEF ClientKeyExchange, push_message, Premaster, Keys
  <2>6. Send(Sent[2], c)
    BY <2>5, SentRecords
  <2>7. /\ o.pc = ClientAt[3] /\ o.transcript = Transcript[3] /\ DOMAIN o = DOMAIN client
        /\ o.server_random = client.server_random /\ o.leaf = client.leaf /\ o.probe = probing
    <3>1. client.transcript \o m = Transcript[3]
      BY <2>4, Transcripts DEF AfterKeyExchange
    <3> HIDE DEF m
    <3> QED
      BY <1>2, <2>4, <3>1, Places
  <2> HIDE DEF o, m
  <2>8. /\ c.pc = ClientAt[3] /\ c.transcript = Transcript[3] /\ c.keys = Keys
        /\ c.server_random = client.server_random /\ c.leaf = client.leaf /\ c.probe = probing
    BY <1>1, <2>7
  <2> HIDE DEF c
  <2>9. 2 \in 1..5 /\ 3 = 2 + 1 /\ 2 \in 1..4
    OBVIOUS
  <2> QED
    BY <1>3, <2>1, <2>2, <2>3, <2>6, <2>8, <2>9
<1>7. CASE CertificateVerify /\ UNCHANGED faults
  <2>1. client.pc = "CertificateVerify" /\ ~client.probe /\ UNCHANGED <<server, closed>>
    BY <1>7 DEF CertificateVerify
  <2>2. Exchange
    BY <2>1, Stages DEF ClientPlaces
  <2>3. client.pc = ClientAt[3]
    BY <2>1, Places
  <2>4. client.transcript = AfterKeyExchange /\ client.keys = Keys
    BY <1>4, <2>2, <2>3, Transcripts
  <2> DEFINE m == frame_handshake("CertificateVerify", <<Signature(AfterKeyExchange)>>)
             c == Onward("ChangeCipherSpec", client.transcript \o m)
  <2>5. Send(Record("Handshake", m), c)
    <3>1. ~Fault("token")
      <4>1. IsSeq(faults)
        BY DEF IInv, RestInv
      <4>2. Len(Append(faults, "token")) = Len(faults) + 1 /\ Len(faults) \in Nat
        BY <4>1, AppendQueue
      <4> QED
        BY <1>7, <4>2 DEF Fault
    <3> QED
      BY <1>7, <2>4, <3>1 DEF CertificateVerify, push_message
  <2>6. Send(Sent[3], c)
    BY <2>5, SentRecords
  <2>7. /\ c.pc = ClientAt[4] /\ c.transcript = Transcript[4] /\ c.keys = Keys
        /\ c.server_random = client.server_random /\ c.leaf = client.leaf /\ c.probe = probing
    <3>1. client.transcript \o m = Transcript[4]
      BY <2>4, Transcripts DEF AfterVerify
    <3> HIDE DEF m
    <3> QED
      BY <1>2, <2>4, <3>1, Places
  <2> HIDE DEF c, m
  <2>8. 3 \in 1..5 /\ 4 = 3 + 1 /\ 3 \in 1..4
    OBVIOUS
  <2> QED
    BY <1>3, <2>1, <2>2, <2>3, <2>6, <2>7, <2>8
<1>8. CASE ChangeCipherSpecs
  <2>1. client.pc = "ChangeCipherSpec" /\ ~client.probe /\ UNCHANGED <<server, closed>>
    BY <1>8 DEF ChangeCipherSpecs
  <2>2. Exchange
    BY <2>1, Stages DEF ClientPlaces
  <2>3. client.pc = ClientAt[4]
    BY <2>1, Places
  <2>4. client.transcript = AfterVerify /\ client.keys = Keys
    BY <1>4, <2>2, <2>3, Transcripts
  <2> DEFINE c == Onward("Finished", client.transcript)
  <2>5. Send(Sent[4], c)
    BY <1>8, SentRecords DEF ChangeCipherSpecs
  <2>6. /\ c.pc = ClientAt[5] /\ c.transcript = Transcript[5] /\ c.keys = Keys
        /\ c.server_random = client.server_random /\ c.leaf = client.leaf /\ c.probe = probing
    BY <1>2, <2>4, Places, Transcripts
  <2> HIDE DEF c
  <2>7. 4 \in 1..5 /\ 5 = 4 + 1 /\ 4 \in 1..4
    OBVIOUS
  <2> QED
    BY <1>3, <2>1, <2>2, <2>3, <2>5, <2>6, <2>7
<1>9. CASE Finished
  <2>1. client.pc = "Finished" /\ ~client.probe /\ UNCHANGED <<server, closed>>
    BY <1>9 DEF Finished
  <2>2. Exchange
    BY <2>1, Stages DEF ClientPlaces
  <2>3. client.pc = ClientAt[5]
    BY <2>1, Places
  <2>4. client.transcript = AfterVerify /\ client.keys = Keys
    BY <1>4, <2>2, <2>3, Transcripts
  <2> DEFINE m == FinishedMessage(Keys, "client", AfterVerify)
             o == Onward("await_ccs", client.transcript \o m)
             c == [o EXCEPT !.probe = FALSE]
  <2>5. Send(Sealed(Keys, "client", m), c)
    BY <1>9, <2>4 DEF Finished, push_message, FinishedMessage
  <2>6. Send(Sent[5], c)
    BY <2>5, SentRecords
  <2>7. /\ o.pc = ClientAt[6] /\ o.transcript = Transcript[6] /\ DOMAIN o = DOMAIN client /\ o.keys = Keys
        /\ o.server_random = client.server_random /\ o.leaf = client.leaf
    <3>1. client.transcript \o m = Transcript[6]
      BY <2>4, Transcripts DEF AfterFinished
    <3> HIDE DEF m
    <3> QED
      BY <1>2, <2>4, <3>1, Places
  <2> HIDE DEF o, m
  <2>8. /\ c.pc = ClientAt[6] /\ c.transcript = Transcript[6] /\ c.keys = Keys
        /\ c.server_random = client.server_random /\ c.leaf = client.leaf /\ c.probe = FALSE
    BY <1>1, <2>7
  <2> HIDE DEF c
  <2>9. 5 \in 1..5 /\ 6 = 5 + 1
    OBVIOUS
  <2> QED
    BY <1>3, <2>1, <2>2, <2>3, <2>6, <2>8, <2>9
<1> QED
  BY <1>5, <1>6, <1>7, <1>8, <1>9

-----------------------------------------------------------------------------
(* The server's flight                                                     *)

LEMMA HelloSent ==
  ASSUME IInv, Somewhere, ClientHello
  PROVE  Hailed' /\ UNCHANGED closed
<1>1. Opening /\ UNCHANGED <<server, toClient, closed>>
  BY Stages DEF ClientHello
<1> DEFINE m == frame_handshake("ClientHello", <<Random("client")>>)
<1>2. m = Part(0, 3) /\ IsSeq(m)
  <2>1. 0 \in Nat /\ 3 \in Nat /\ 0 <= 3 /\ 3 <= 14
    OBVIOUS
  <2>2. Part(0, 3) \in Seq(HelloPiece)
    BY <2>1, PartType, Zenon
  <2> QED
    BY <2>2, HelloParts, SeqOfElements
<1>3. /\ client' = [client EXCEPT !.pc = "flight", !.transcript = client.transcript \o m]
      /\ toServer' = Append(toServer, Record("Handshake", m))
  BY <1>1 DEF ClientHello, Opening, push_message
<1> HIDE DEF m
<1>4. client.transcript \o m = Part(0, 3)
  BY <1>1, <1>2, ConcatEmptySeq DEF Opening, IsSeq
<1>5. toServer' = <<Record("Handshake", Part(0, 3))>>
  BY <1>1, <1>2, <1>3 DEF Opening
<1>6. /\ client'.pc = "flight" /\ client'.transcript = Part(0, 3)
      /\ client'.buf = client.buf /\ client'.probe = client.probe
  BY <1>3, <1>4 DEF IInv, ClientInv
<1> QED
  BY <1>1, <1>5, <1>6 DEF Hailed, Opening

\* The server answers the ClientHello: nothing of its flight is on its way yet.
LEMMA HelloTaken ==
  ASSUME IInv, Hailed, ServerReads
  PROVE  InFlight' /\ UNCHANGED <<client, closed>>
<1> DEFINE r == Record("Handshake", Part(0, 3))
<1>1. toServer = <<r>> /\ server.pc = "ClientHello" /\ server.transcript = <<>> /\ toClient = <<>> /\ ~closed
  BY DEF Hailed
<1>2. Head(toServer) = r /\ Tail(toServer) = <<>>
  BY <1>1, OneRecord
<1>3. Expected(r)
  BY <1>1, HelloParts DEF Expected
<1>4. Serve(r) /\ UNCHANGED client
  BY <1>2, <1>3 DEF ServerReads
<1>5. r.payload = Part(0, 3) /\ r # ChangeCipherSpec
  BY DEF Record, ChangeCipherSpec
<1>6. Added(r) = Part(0, 3)
  BY <1>1, <1>5 DEF Added
<1>7. /\ server'.pc = "Certificate" /\ server'.client_random = r.payload[3]
      /\ server'.transcript = (server.transcript \o Added(r)) \o Flight
      /\ server'.unsent = Flight
      /\ toServer' = Tail(toServer) /\ toClient' = toClient /\ UNCHANGED closed
  BY <1>1, <1>4 DEF Serve, After
<1> HIDE DEF r
<1>8. 0 \in Nat /\ 3 \in Nat /\ 14 \in Nat /\ 0 <= 3 /\ 3 <= 14 /\ 14 <= 14
  OBVIOUS
<1>9. Part(0, 3) \in Seq(HelloPiece) /\ Part(0, 3) \o Part(3, 14) = Part(0, 14)
  BY <1>8, PartType, PartJoined, Zenon
<1>10. server'.transcript = Hello
  BY <1>1, <1>6, <1>7, <1>9, HelloParts, ConcatEmptySeq
<1>11. server'.client_random = Random("client")
  <2>1. /\ Len(Part(0, 3)) = 3 - 0
        /\ \A i \in 1..3 - 0 : Part(0, 3)[i] = Hello[0 + i] /\ Hello[0 + i] \in HelloPiece
    BY <1>8, PartType, Zenon
  <2>2. Part(0, 3)[3] = Hello[3]
    BY <2>1
  <2> QED
    BY <1>5, <1>7, <2>2, HelloPieces
<1> DEFINE pos == [i \in 0..0 |-> 3]
<1>12. OnItsWay(3, 0, pos)'
  <2>1. /\ client'.transcript = Part(0, 3) /\ client'.buf = <<>>
    BY <1>4 DEF Hailed
  <2>2. Part(3, 3) = <<>>
    <3>1. 3 < 3 + 1 /\ 3 \in Int /\ 3 + 1 \in Int
      OBVIOUS
    <3> QED
      BY <3>1, SubSeqEmpty DEF Part
  <2>3. pos[0] = 3 /\ Len(toClient') = 0 /\ ~closed'
    BY <1>1, <1>7
  <2>4. server'.unsent = Part(pos[0], 14)
    BY <1>7, <2>3, HelloParts
  <2> HIDE DEF pos
  <2> QED
    BY <2>1, <2>2, <2>3, <2>4 DEF OnItsWay
<1>13. pos \in [0..0 -> 3..14]
  OBVIOUS
<1> HIDE DEF pos
<1>14. client'.pc = "flight" /\ ~client'.probe /\ toServer' = <<>>
  BY <1>2, <1>4, <1>7 DEF Hailed
<1>15. \E t \in {3, 6, 9, 12}, m \in Nat : \E p \in [0..m -> 3..14] : OnItsWay(t, m, p)'
  <2>1. 3 \in {3, 6, 9, 12} /\ 0 \in Nat
    OBVIOUS
  <2> QED
    BY <1>12, <1>13, <2>1
<1> QED
  BY <1>4, <1>7, <1>10, <1>11, <1>14, <1>15 DEF InFlight

\* Where the pieces of the flight are can be told from the positions.
LEMMA OnItsWayFacts ==
  ASSUME IInv, NEW t \in {3, 6, 9, 12}, NEW m \in Nat, NEW pos \in [0..m -> 3..14], OnItsWay(t, m, pos)
  PROVE  /\ IsSeq(toClient) /\ Len(toClient) = IF closed THEN m + 1 ELSE m
         /\ \A i \in 0..m : pos[i] \in Nat /\ pos[i] >= t /\ pos[i] <= 14 /\ (i # m => pos[i] < pos[m])
         /\ (closed /\ m = 0) => toClient = <<Alert>>
         /\ (~closed /\ m = 0) => toClient = <<>>
<1>1. IsSeq(toClient)
  BY DEF IInv, ToClientInv
<1>2. Len(toClient) = IF closed THEN m + 1 ELSE m
  BY DEF OnItsWay
<1>3. ASSUME NEW i \in 0..m
      PROVE  pos[i] \in Nat /\ pos[i] >= t /\ pos[i] <= 14 /\ (i # m => pos[i] < pos[m])
  <2>1. 0 \in 0..m /\ m \in 0..m /\ (i # 0 => 0 < i) /\ (i # m => i < m)
    OBVIOUS
  <2>2. pos[i] \in 3..14 /\ pos[0] \in 3..14
    BY <2>1
  <2>3. (0 < i => pos[0] < pos[i]) /\ (i < m => pos[i] < pos[m]) /\ t <= pos[0]
    BY <2>1 DEF OnItsWay
  <2> QED
    BY <2>1, <2>2, <2>3
<1>4. ASSUME closed, m = 0
      PROVE  toClient = <<Alert>>
  <2>1. toClient[1] = Alert /\ Len(toClient) = 1
    BY <1>4 DEF OnItsWay
  <2>2. IsSeq(<<Alert>>) /\ Len(<<Alert>>) = 1 /\ <<Alert>>[1] = Alert
    <3>1. <<Alert>> \in Seq({Alert})
      OBVIOUS
    <3> QED
      BY <3>1, OneRecord, SeqOfElements
  <2> DEFINE S == {toClient[i] : i \in DOMAIN toClient} \cup {Alert}
  <2>3. toClient \in Seq(S) /\ <<Alert>> \in Seq(S)
    <3>1. toClient \in Seq(S)
      BY <1>1, SeqMonotonic DEF IsSeq
    <3> QED
      BY <3>1
  <2> HIDE DEF S
  <2>4. Len(toClient) = Len(<<Alert>>) /\ \A i \in 1..Len(toClient) : toClient[i] = <<Alert>>[i]
    BY <2>1, <2>2
  <2> QED
    BY <2>3, <2>4, SeqEqual
<1>5. ASSUME ~closed, m = 0
      PROVE  toClient = <<>>
  BY <1>1, <1>2, <1>5, EmptySeq DEF IsSeq
<1> QED
  BY <1>1, <1>2, <1>3, <1>4, <1>5

\* The client reads the next record, which is of the flight or the alert.
LEMMA FlightRecordRead ==
  ASSUME IInv, Somewhere, ReadFlight
  PROVE  (InFlight' \/ Ending') /\ UNCHANGED closed
<1>1. /\ client.pc = "flight" /\ ~Complete(client.buf) /\ toClient # <<>> /\ toClient' = Tail(toClient)
      /\ UNCHANGED <<probing, server, toServer, closed, faults>>
  BY DEF ReadFlight
<1>2. InFlight
  BY <1>1, Stages DEF Hailed
<1>3. PICK t \in {3, 6, 9, 12}, m \in Nat : \E pos \in [0..m -> 3..14] : OnItsWay(t, m, pos)
  BY <1>2 DEF InFlight
<1>4. PICK pos \in [0..m -> 3..14] : OnItsWay(t, m, pos)
  BY <1>3
<1>5. /\ IsSeq(toClient) /\ Len(toClient) = IF closed THEN m + 1 ELSE m
      /\ \A i \in 0..m : pos[i] \in Nat /\ pos[i] >= t /\ pos[i] <= 14 /\ (i # m => pos[i] < pos[m])
      /\ (closed /\ m = 0) => toClient = <<Alert>>
      /\ (~closed /\ m = 0) => toClient = <<>>
  BY <1>4, OnItsWayFacts
<1>6. ~client.probe
  BY <1>2 DEF InFlight
<1>7. /\ Head(toClient).type = "Handshake" => client' = [client EXCEPT !.buf = client.buf \o Head(toClient).payload]
      /\ Head(toClient).type = "Alert" => Become("alert")
  BY DEF ReadFlight
<1>8. CASE m = 0
  <2>1. closed /\ toClient = <<Alert>>
    BY <1>1, <1>5, <1>8
  <2>2. Head(toClient) = Alert
    BY <2>1, OneRecord
  <2>3. client' = [client EXCEPT !.pc = "alert"]
    <3>1. Alert.type = "Alert"
      BY DEF Alert, Record
    <3> QED
      BY <1>7, <2>2, <3>1 DEF Become
  <2>4. client'.pc = "alert" /\ ~client'.probe
    BY <1>6, <2>3 DEF IInv, ClientInv
  <2> QED
    BY <1>1, <2>1, <2>4 DEF Ending
<1>9. CASE m > 0
  <2>1. 0 \in 0..m /\ 1 \in 0..m /\ 1 \in 1..m /\ 0 < 1 /\ 1 - 1 = 0
    BY <1>9
  <2>2. pos[0] < pos[1] /\ toClient[1] = Record("Handshake", Part(pos[1 - 1], pos[1]))
    BY <1>4, <2>1 DEF OnItsWay
  <2>3. /\ Head(toClient) = toClient[1] /\ Len(Tail(toClient)) = Len(toClient) - 1
        /\ \A i \in 1..Len(Tail(toClient)) : Tail(toClient)[i] = toClient[i + 1]
    BY <1>1, <1>5, TailQueue
  <2>4. Head(toClient) = Record("Handshake", Part(pos[0], pos[1]))
    BY <2>1, <2>2, <2>3
  <2>5. client' = [client EXCEPT !.buf = client.buf \o Part(pos[0], pos[1])]
    <3>1. Head(toClient).type = "Handshake" /\ Head(toClient).payload = Part(pos[0], pos[1])
      <4>1. \A x : Record("Handshake", x).type = "Handshake" /\ Record("Handshake", x).payload = x
        BY DEF Record
      <4> QED
        BY <2>4, <4>1
    <3> QED
      BY <1>7, <3>1
  <2>6. client.buf = Part(t, pos[0]) /\ t <= pos[0]
    BY <1>4 DEF OnItsWay
  <2>7. client.buf \o Part(pos[0], pos[1]) = Part(t, pos[1])
    <3>1. t \in Nat /\ pos[0] \in Nat /\ pos[1] \in Nat /\ t <= pos[0] /\ pos[0] <= pos[1] /\ pos[1] <= 14
      BY <1>5, <2>1, <2>2, <2>6
    <3>2. Part(t, pos[0]) \o Part(pos[0], pos[1]) = Part(t, pos[1])
      BY <3>1, PartJoined, Zenon
    <3> QED
      BY <2>6, <3>2
  <2>8. /\ client'.buf = Part(t, pos[1]) /\ client'.pc = "flight" /\ ~client'.probe
        /\ client'.transcript = client.transcript /\ client'.leaf = client.leaf
        /\ client'.server_random = client.server_random
    BY <1>1, <1>6, <2>5, <2>7 DEF IInv, ClientInv
  <2>9. PICK n \in Nat : m = n + 1
    <3>1. m - 1 \in Nat /\ m = m - 1 + 1
      BY <1>9
    <3> QED
      BY <3>1
  <2> DEFINE p == [i \in 0..n |-> pos[i + 1]]
  <2>10. /\ p \in [0..n -> 3..14] /\ \A i \in 0..n : p[i] = pos[i + 1]
    <3>1. \A i \in 0..n : i + 1 \in 0..m
      BY <2>9
    <3> QED
      BY <3>1
  <2> HIDE DEF p
  <2>11. OnItsWay(t, n, p)'
    <3>1. p[0] = pos[1] /\ p[n] = pos[m] /\ t <= p[0]
      <4>1. 0 \in 0..n /\ n \in 0..n /\ 0 + 1 = 1
        OBVIOUS
      <4>2. p[0] = pos[0 + 1] /\ p[n] = pos[n + 1]
        BY <2>10, <4>1
      <4>3. pos[1] >= t /\ pos[1] \in Nat
        BY <1>5, <2>1
      <4> QED
        BY <2>9, <4>1, <4>2, <4>3
    <3>2. ASSUME NEW i \in 0..n, NEW j \in 0..n, i < j
          PROVE  p[i] < p[j]
      <4>1. i + 1 \in 0..m /\ j + 1 \in 0..m /\ i + 1 < j + 1
        BY <2>9, <3>2
      <4>2. pos[i + 1] < pos[j + 1]
        BY <1>4, <4>1 DEF OnItsWay
      <4> QED
        BY <2>10, <4>2
    <3>3. Len(toClient') = IF closed' THEN n + 1 ELSE n
      BY <1>1, <1>5, <2>3, <2>9
    <3>4. \A i \in 1..n : toClient'[i] = toClient[i + 1]
      BY <1>1, <1>5, <2>3, <2>9
    <3>5. ASSUME NEW i \in 1..n
          PROVE  toClient'[i] = Record("Handshake", Part(p[i - 1], p[i]))
      <4>1. i + 1 \in 1..m /\ i + 1 - 1 = i /\ i - 1 \in 0..n /\ i \in 0..n /\ i - 1 + 1 = i
        BY <2>9
      <4>2. toClient[i + 1] = Record("Handshake", Part(pos[i + 1 - 1], pos[i + 1]))
        BY <1>4, <4>1 DEF OnItsWay
      <4>3. p[i - 1] = pos[i] /\ p[i] = pos[i + 1]
        BY <2>10, <4>1
      <4> QED
        BY <3>4, <4>1, <4>2, <4>3
    <3>6. closed' => toClient'[n + 1] = Alert
      <4>1. ASSUME closed PROVE toClient'[n + 1] = Alert
        <5>1. n + 1 \in 1..Len(Tail(toClient)) /\ n + 1 + 1 = m + 1
          BY <1>5, <2>3, <2>9, <4>1
        <5>2. toClient'[n + 1] = toClient[m + 1]
          BY <1>1, <2>3, <5>1
        <5> QED
          BY <1>4, <4>1, <5>2 DEF OnItsWay
      <4> QED
        BY <1>1, <4>1
    <3>7. /\ client.transcript = Part(0, t) /\ server.unsent = Part(pos[m], 14)
          /\ t >= 6 => client.server_random = Random("server")
          /\ t >= 9 => client.leaf = Leaf("server")
      BY <1>4 DEF OnItsWay
    <3>8. /\ client'.transcript = Part(0, t) /\ client'.buf = Part(t, p[0]) /\ server'.unsent = Part(p[n], 14)
          /\ t >= 6 => client'.server_random = Random("server")
          /\ t >= 9 => client'.leaf = Leaf("server")
      BY <1>1, <2>8, <3>1, <3>7
    <3> QED
      BY <3>1, <3>2, <3>3, <3>5, <3>6, <3>8 DEF OnItsWay
  <2> QED
    BY <1>1, <1>2, <2>8, <2>10, <2>11 DEF InFlight
<1> QED
  BY <1>8, <1>9

\* The pieces of the message of the flight that begins after piece t.
Size(t) == IF t = 12 THEN 2 ELSE 3

\* What the client takes from its buffer is the next message of the flight.
LEMMA NextMessage ==
  ASSUME NEW t \in {3, 6, 9, 12}, NEW p \in t..14, Complete(Part(t, p))
  PROVE  /\ 2 + LengthOf(Part(t, p)[2]) = Size(t) /\ t + Size(t) <= p
         /\ Part(t, p)[1] = Hello[t + 1]
         /\ SubSeq(Part(t, p), 1, Size(t)) = Part(t, t + Size(t))
         /\ Rest(Part(t, p), Size(t)) = Part(t + Size(t), p)
         /\ Part(0, t) \o Part(t, t + Size(t)) = Part(0, t + Size(t))
         /\ t # 12 => SubSeq(Part(t, p), 3, Size(t)) # <<>> /\ SubSeq(Part(t, p), 3, Size(t))[1] = Hello[t + 3]
<1> DEFINE n == Size(t)
           u == t + n
<1>1. n = (IF t = 12 THEN 2 ELSE 3) /\ t + n <= p /\ n \in Nat /\ u \in Nat
      /\ 2 + LengthOf(Part(t, p)[2]) = n
  BY WholeMessage DEF Size
<1>2. t \in Nat /\ p \in Nat /\ t <= p /\ p <= 14
  OBVIOUS
<1> DEFINE q == Part(t, p)
<1>3. q \in Seq(HelloPiece) /\ Len(q) = p - t /\ \A i \in 1..p - t : q[i] = Hello[t + i] /\ q[i] \in HelloPiece
  BY <1>2, PartType
<1>4. SubSeq(q, 1, n) = Part(t, u) /\ Rest(q, n) = Part(u, p)
  <2>1. n \in Nat /\ t + n <= p
    BY <1>1
  <2>2. SubSeq(Part(t, p), 1, n) = Part(t, t + n) /\ Rest(Part(t, p), n) = Part(t + n, p)
    BY <1>2, <2>1, PartCut, Zenon
  <2> QED
    BY <2>2
<1>5. Part(0, t) \o Part(t, u) = Part(0, u)
  <2>1. 0 \in Nat /\ 0 <= t /\ t <= u /\ u <= 14
    BY <1>1, <1>2
  <2> QED
    BY <1>1, <1>2, <2>1, PartJoined, Zenon
<1> HIDE DEF q
<1>6. q[1] = Hello[t + 1]
  BY <1>1, <1>2, <1>3
<1>7. ASSUME t # 12
      PROVE  SubSeq(q, 3, n) # <<>> /\ SubSeq(q, 3, n)[1] = Hello[t + 3]
  <2> DEFINE w == SubSeq(q, 3, n)
  <2>1. n = 3 /\ n \in Int /\ 3 \in Int /\ \A i \in 3..n : q[i] \in HelloPiece
    BY <1>1, <1>2, <1>3, <1>7
  <2>2. /\ Len(w) = IF 3 <= n THEN n - 3 + 1 ELSE 0
        /\ \A i \in 1..n - 3 + 1 : w[i] = q[3 + i - 1]
    BY <1>3, <2>1, SubSeqProperties
  <2> HIDE DEF w
  <2>3. Len(w) = 1 /\ w[1] = q[3]
    BY <2>1, <2>2
  <2>4. q[3] = Hello[t + 3]
    BY <1>1, <1>2, <1>3, <2>1
  <2>5. w # <<>>
    <3>1. Len(<<>>) = 0 /\ 0 # 1
      OBVIOUS
    <3> QED
      BY <2>3, <3>1, Zenon
  <2> QED
    BY <2>3, <2>4, <2>5 DEF w
<1> QED
  BY <1>1, <1>4, <1>5, <1>6, <1>7 DEF q

\* The client takes a message of the flight, the last of which ends it.
LEMMA FlightMessageTaken ==
  ASSUME IInv, Somewhere, TakeMessage
  PROVE  (InFlight' \/ Exchange') /\ ~client'.probe /\ UNCHANGED closed
<1>1. /\ client.pc = "flight" /\ Complete(client.buf)
      /\ UNCHANGED <<probing, server, toServer, toClient, closed, faults>>
  BY DEF TakeMessage
<1>2. InFlight
  <2>1. ASSUME Hailed PROVE FALSE
    <3>1. client.buf = <<>>
      BY <2>1 DEF Hailed
    <3> QED
      BY <1>1, <3>1, EmptyQueue DEF Complete
  <2> QED
    BY <1>1, <2>1, Stages
<1>3. PICK t \in {3, 6, 9, 12}, m \in Nat : \E pos \in [0..m -> 3..14] : OnItsWay(t, m, pos)
  BY <1>2 DEF InFlight
<1>4. PICK pos \in [0..m -> 3..14] : OnItsWay(t, m, pos)
  BY <1>3
<1>5. /\ \A i \in 0..m : pos[i] \in Nat /\ pos[i] >= t /\ pos[i] <= 14 /\ (i # m => pos[i] < pos[m])
      /\ (closed /\ m = 0) => toClient = <<Alert>>
      /\ (~closed /\ m = 0) => toClient = <<>>
  BY <1>4, OnItsWayFacts
<1> DEFINE p == pos[0]
           n == 2 + LengthOf(client.buf[2])
           u == t + n
           b == SubSeq(client.buf, 3, n)
           c == [client EXCEPT !.buf = Rest(client.buf, n),
                               !.transcript = client.transcript \o SubSeq(client.buf, 1, n)]
<1>6. p \in t..14
  <2>1. 0 \in 0..m
    OBVIOUS
  <2> QED
    BY <1>5, <2>1
<1>7. client.buf = Part(t, p) /\ client.transcript = Part(0, t)
  BY <1>4 DEF OnItsWay
<1>8. /\ n = IF t = 12 THEN 2 ELSE 3
      /\ u \in Nat /\ u <= p
      /\ client.buf[1] = Hello[t + 1]
      /\ SubSeq(client.buf, 1, n) = Part(t, u) /\ Rest(client.buf, n) = Part(u, p)
      /\ client.transcript \o SubSeq(client.buf, 1, n) = Part(0, u)
      /\ t # 12 => b # <<>> /\ b[1] = Hello[t + 3]
  <2>1. Complete(Part(t, p)) /\ n = 2 + LengthOf(Part(t, p)[2]) /\ u = t + n
    BY <1>1, <1>7
  <2>2. /\ 2 + LengthOf(Part(t, p)[2]) = Size(t) /\ t + Size(t) <= p
        /\ Part(t, p)[1] = Hello[t + 1]
        /\ SubSeq(Part(t, p), 1, Size(t)) = Part(t, t + Size(t))
        /\ Rest(Part(t, p), Size(t)) = Part(t + Size(t), p)
        /\ Part(0, t) \o Part(t, t + Size(t)) = Part(0, t + Size(t))
        /\ t # 12 => SubSeq(Part(t, p), 3, Size(t)) # <<>> /\ SubSeq(Part(t, p), 3, Size(t))[1] = Hello[t + 3]
    <3> HIDE DEF p
    <3> QED
      BY <1>6, <2>1, NextMessage
  <2>3. /\ n = Size(t) /\ u = t + Size(t) /\ b = SubSeq(client.buf, 3, Size(t))
        /\ Size(t) = IF t = 12 THEN 2 ELSE 3
    BY <1>7, <2>2 DEF Size
  <2> HIDE DEF p, n, u, b
  <2>4. u \in Nat /\ u <= p
    BY <2>2, <2>3
  <2> QED
    BY <1>7, <2>2, <2>3, <2>4
<1>9. /\ c.buf = Part(u, p) /\ c.transcript = Part(0, u) /\ c.pc = "flight" /\ c.probe = client.probe
      /\ c.leaf = client.leaf /\ c.server_random = client.server_random /\ DOMAIN c = DOMAIN client
  BY <1>1, <1>8 DEF IInv, ClientInv
<1>10. \/ client.buf[1] = Type("ServerHello") /\ b # <<>> /\ client' = [c EXCEPT !.server_random = b[1]]
       \/ client.buf[1] = Type("ServerHello") /\ b = <<>>
       \/ /\ client.buf[1] = Type("Certificate")
          /\ \E leaf \in first_certificate(b) :
               client' = IF leaf = None THEN [c EXCEPT !.pc = "error"] ELSE [c EXCEPT !.leaf = leaf]
       \/ client.buf[1] \in {Type("ServerKeyExchange"), Type("CertificateRequest")} /\ client' = c
       \/ client.buf[1] = Type("ServerHelloDone") /\ FlightRead(c)
       \/ client.buf[1] \notin {Type("ServerHello"), Type("Certificate"), Type("CertificateRequest"),
                                Type("ServerHelloDone")}
  <2> HIDE DEF b, c
  <2> QED
    BY DEF TakeMessage, b, c
<1>11. ~client.probe /\ server.pc = "Certificate" /\ server.client_random = Random("client")
       /\ server.transcript = Hello /\ toServer = <<>>
  BY <1>2 DEF InFlight
<1> HIDE DEF p, n, u, b, c
\* A message before the last leaves the rest of the flight to come.
<1>12. ASSUME NEW v, v = u, v \in {6, 9, 12},
              client'.pc = "flight", client'.buf = Part(v, p), client'.transcript = Part(0, v),
              client'.probe = client.probe,
              v >= 6 => client'.server_random = Random("server"),
              v >= 9 => client'.leaf = Leaf("server")
       PROVE  InFlight'
  <2>1. OnItsWay(v, m, pos)'
    <3>1. v <= pos[0]
      BY <1>8, <1>12 DEF p
    <3> QED
      BY <1>1, <1>4, <1>12, <3>1 DEF OnItsWay, p
  <2>2. v \in {3, 6, 9, 12}
    BY <1>12
  <2> QED
    BY <1>1, <1>11, <1>12, <2>1, <2>2 DEF InFlight
<1>13. CASE t = 3
  <2>1. u = 6 /\ client.buf[1] = Type("ServerHello") /\ b # <<>> /\ b[1] = Random("server")
    BY <1>8, <1>13, HelloPieces DEF u
  <2>2. client' = [c EXCEPT !.server_random = Random("server")]
    <3>1. \A x \in {"Certificate", "ServerKeyExchange", "CertificateRequest", "ServerHelloDone"} :
            Type("ServerHello") # Type(x)
      BY DEF Type
    <3> QED
      BY <1>10, <2>1, <3>1
  <2>3. /\ client'.pc = "flight" /\ client'.buf = Part(u, p) /\ client'.transcript = Part(0, u)
        /\ client'.probe = client.probe /\ client'.server_random = Random("server")
    BY <1>9, <2>2 DEF IInv, ClientInv
  <2>4. ~(u >= 9) /\ u \in {6, 9, 12}
    BY <2>1
  <2> QED
    BY <1>1, <1>11, <1>12, <2>3, <2>4
<1>14. CASE t = 6
  <2>1. u = 9 /\ client.buf[1] = Type("Certificate") /\ b # <<>> /\ b[1] = Leaf("server")
    BY <1>8, <1>14, HelloPieces DEF u
  <2>2. Type("Certificate") \notin {Type("ServerHello"), Type("ServerKeyExchange"), Type("CertificateRequest"),
                                   Type("ServerHelloDone")}
       /\ Leaf("server") # None
    BY DEF Type, Leaf, None
  <2>3. first_certificate(b) = {Leaf("server")}
    BY <2>1 DEF first_certificate
  <2>4. client' = [c EXCEPT !.leaf = Leaf("server")]
    <3>1. \E leaf \in first_certificate(b) :
             client' = IF leaf = None THEN [c EXCEPT !.pc = "error"] ELSE [c EXCEPT !.leaf = leaf]
      BY <1>10, <2>1, <2>2
    <3> QED
      BY <2>2, <2>3, <3>1
  <2>5. client.server_random = Random("server")
    BY <1>4, <1>14 DEF OnItsWay
  <2>6. /\ client'.pc = "flight" /\ client'.buf = Part(u, p) /\ client'.transcript = Part(0, u)
        /\ client'.probe = client.probe /\ client'.server_random = Random("server") /\ client'.leaf = Leaf("server")
    BY <1>9, <2>4, <2>5 DEF IInv, ClientInv
  <2>7. u \in {6, 9, 12}
    BY <2>1
  <2> QED
    BY <1>1, <1>11, <1>12, <2>6, <2>7
<1>15. CASE t = 9
  <2>1. u = 12 /\ client.buf[1] = Type("CertificateRequest")
    BY <1>8, <1>15, HelloPieces DEF u
  <2>2. Type("CertificateRequest") \notin {Type("ServerHello"), Type("Certificate"), Type("ServerHelloDone")}
    BY DEF Type
  <2>3. client' = c
    BY <1>10, <2>1, <2>2
  <2>4. client.server_random = Random("server") /\ client.leaf = Leaf("server")
    BY <1>4, <1>15 DEF OnItsWay
  <2>5. u \in {6, 9, 12}
    BY <2>1
  <2> QED
    BY <1>1, <1>9, <1>11, <1>12, <2>3, <2>4, <2>5
<1>16. CASE t = 12
  <2>1. u = 14 /\ client.buf[1] = Type("ServerHelloDone")
    BY <1>8, <1>16, HelloPieces DEF u
  <2>2. Type("ServerHelloDone") \notin {Type("ServerHello"), Type("Certificate"), Type("ServerKeyExchange"),
                                        Type("CertificateRequest")}
    BY DEF Type
  <2>3. FlightRead(c)
    BY <1>10, <2>1, <2>2
  <2>4. client.server_random = Random("server") /\ client.leaf = Leaf("server")
    BY <1>4, <1>16 DEF OnItsWay
  <2>5. client' = [c EXCEPT !.pc = "Certificate"]
    BY <1>9, <2>3, <2>4 DEF FlightRead, Random, None
  <2>6. /\ client'.pc = "Certificate" /\ client'.transcript = Part(0, 14) /\ ~client'.probe
        /\ client'.server_random = Random("server") /\ client'.leaf = Leaf("server")
    BY <1>9, <1>11, <2>1, <2>4, <2>5 DEF IInv, ClientInv
  <2>7. m = 0 /\ pos[m] = 14
    <3>1. 0 \in 0..m /\ m \in 0..m
      OBVIOUS
    <3>2. pos[0] >= 14 /\ pos[0] \in Nat
      BY <1>5, <1>8, <2>1, <3>1 DEF p
    <3> QED
      BY <1>5, <3>1, <3>2
  <2>8. server.unsent = <<>>
    <3>1. Part(14, 14) = <<>>
      <4>1. 14 < 14 + 1 /\ 14 \in Int /\ 14 + 1 \in Int
        OBVIOUS
      <4> QED
        BY <4>1, SubSeqEmpty DEF Part
    <3> QED
      BY <1>4, <2>7, <3>1 DEF OnItsWay
  <2>9. SubSeq(Sent, 0 + 1, 0) = <<>>
    <3>1. 0 < 0 + 1 /\ 0 \in Int /\ 0 + 1 \in Int
      OBVIOUS
    <3> QED
      BY <3>1, SubSeqEmpty
  <2>10. /\ ClientAt[0 + 1] = "Certificate" /\ ServerAt[0 + 1] = "Certificate" /\ Transcript[0 + 1] = Part(0, 14)
         /\ Part(0, 14) = Hello
    BY Places, Transcripts, HelloParts
  <2>11. ClientSent(0)'
    BY <2>6, <2>10 DEF ClientSent
  <2>12. ~closed => ServerTook(0, 0)'
    BY <1>1, <1>5, <1>11, <2>7, <2>8, <2>9, <2>10 DEF ServerTook
  <2>13. closed => toClient' = <<Alert>> /\ toServer' = <<>>
    BY <1>1, <1>5, <1>11, <2>7
  <2>14. 0 \in 0..5 /\ 0 \in 0..0
    OBVIOUS
  <2> QED
    BY <1>1, <2>6, <2>11, <2>12, <2>13, <2>14 DEF Exchange
<1> QED
  BY <1>13, <1>14, <1>15, <1>16

\* The server sends a record of its flight.
LEMMA FlightRecordSent ==
  ASSUME IInv, Somewhere, ServerSends
  PROVE  Somewhere' /\ UNCHANGED <<client, closed>>
<1>1. ~closed /\ server.unsent # <<>> /\ UNCHANGED <<client, probing, toServer, closed, faults>>
  BY DEF ServerSends
<1>2. CASE Opening \/ Hailed \/ Exchange
  BY <1>1, <1>2 DEF Opening, Hailed, Exchange, ServerTook
<1>3. CASE Ending
  BY <1>1, <1>3 DEF Ending, Somewhere
<1>4. CASE InFlight
  <2>1. PICK t \in {3, 6, 9, 12}, m \in Nat : \E pos \in [0..m -> 3..14] : OnItsWay(t, m, pos)
    BY <1>4 DEF InFlight
  <2>2. PICK pos \in [0..m -> 3..14] : OnItsWay(t, m, pos)
    BY <2>1
  <2>3. /\ IsSeq(toClient) /\ Len(toClient) = m
        /\ \A i \in 0..m : pos[i] \in Nat /\ pos[i] <= 14 /\ (i # m => pos[i] < pos[m])
    BY <1>1, <2>2, OnItsWayFacts
  <2>4. PICK a \in Nat : a = pos[m] /\ a <= 14
    <3>1. m \in 0..m
      OBVIOUS
    <3> QED
      BY <2>3, <3>1
  <2>5. server.unsent = Part(a, 14) /\ Len(Part(a, 14)) = 14 - a /\ Part(a, 14) \in Seq(HelloPiece)
    <3>1. 14 \in Nat /\ 14 <= 14
      OBVIOUS
    <3>2. Len(Part(a, 14)) = 14 - a /\ Part(a, 14) \in Seq(HelloPiece)
      BY <2>4, <3>1, PartType, Zenon
    <3> QED
      BY <2>2, <2>4, <3>2 DEF OnItsWay
  <2>6. a < 14
    <3>1. Len(Part(a, 14)) # 0
      BY <1>1, <2>5, EmptySeq
    <3> QED
      BY <2>4, <2>5, <3>1
  <2>7. PICK n \in (Cut \cap 1..Len(server.unsent)) \cup {Len(server.unsent)} :
          /\ toClient' = Append(toClient, Record("Handshake", SubSeq(server.unsent, 1, n)))
          /\ server' = [server EXCEPT !.unsent = Rest(server.unsent, n)]
    BY DEF ServerSends
  <2>8. n \in Nat /\ n >= 1 /\ a + n <= 14
    BY <2>4, <2>5, <2>6, <2>7
  <2>9. PICK b \in Nat : b = a + n /\ a < b /\ b <= 14
    BY <2>8
  <2>10. SubSeq(server.unsent, 1, n) = Part(a, b) /\ Rest(server.unsent, n) = Part(b, 14)
    <3>1. 14 \in Nat /\ 14 <= 14
      OBVIOUS
    <3>2. SubSeq(Part(a, 14), 1, n) = Part(a, a + n) /\ Rest(Part(a, 14), n) = Part(a + n, 14)
      BY <2>8, <3>1, PartCut, Zenon
    <3> QED
      BY <2>5, <2>9, <3>2
  <2>11. /\ toClient' = Append(toClient, Record("Handshake", Part(a, b)))
         /\ server'.unsent = Part(b, 14) /\ server'.pc = server.pc
         /\ server'.client_random = server.client_random /\ server'.transcript = server.transcript
    BY <2>7, <2>10 DEF IInv, ServerInv
  <2>12. /\ Len(toClient') = m + 1 /\ toClient'[m + 1] = Record("Handshake", Part(a, b))
         /\ \A i \in 1..m : toClient'[i] = toClient[i]
    BY <2>3, <2>11, AppendQueue
  <2>13. PICK k \in Nat : k = m + 1
    OBVIOUS
  <2> DEFINE p == [i \in 0..k |-> IF i = k THEN b ELSE pos[i]]
  <2>14. /\ p \in [0..k -> 3..14] /\ p[k] = b
         /\ \A i \in 0..m : p[i] = pos[i]
    <3>1. b \in 3..14
      <4>1. pos[m] \in 3..14
        <5>1. m \in 0..m
          OBVIOUS
        <5> QED
          BY <5>1
      <4> QED
        BY <2>4, <2>9, <4>1
    <3>2. k \in 0..k /\ \A i \in 0..k : i # k => i \in 0..m
      BY <2>13
    <3>3. \A i \in 0..m : i \in 0..k /\ i # k
      BY <2>13
    <3> QED
      BY <3>1, <3>2, <3>3
  <2> HIDE DEF p
  <2>15. OnItsWay(t, k, p)'
    <3>1. p[0] = pos[0]
      BY <2>14
    <3>2. ASSUME NEW i \in 0..k, NEW j \in 0..k, i < j
          PROVE  p[i] < p[j]
      <4>1. CASE j = k
        <5>1. i \in 0..m
          BY <2>13, <3>2, <4>1
        <5>2. pos[i] <= a /\ pos[i] \in Nat
          BY <2>3, <2>4, <5>1
        <5> QED
          BY <2>9, <2>14, <4>1, <5>1, <5>2
      <4>2. CASE j # k
        <5>1. i \in 0..m /\ j \in 0..m
          BY <2>13, <3>2, <4>2
        <5>2. pos[i] < pos[j]
          BY <2>2, <3>2, <5>1 DEF OnItsWay
        <5> QED
          BY <2>14, <5>1, <5>2
      <4> QED
        BY <4>1, <4>2
    <3>3. ASSUME NEW i \in 1..k
          PROVE  toClient'[i] = Record("Handshake", Part(p[i - 1], p[i]))
      <4>1. CASE i = k
        <5>1. i - 1 = m /\ m \in 0..m
          BY <2>13, <4>1
        <5>2. p[i - 1] = a /\ p[i] = b
          BY <2>4, <2>14, <4>1, <5>1
        <5> QED
          BY <2>12, <2>13, <4>1, <5>2
      <4>2. CASE i # k
        <5>1. i \in 1..m /\ i \in 0..m /\ i - 1 \in 0..m
          BY <2>13, <4>2
        <5>2. toClient[i] = Record("Handshake", Part(pos[i - 1], pos[i]))
          BY <2>2, <5>1 DEF OnItsWay
        <5> QED
          BY <2>12, <2>14, <5>1, <5>2
      <4> QED
        BY <4>1, <4>2
    <3>4. ~closed' /\ Len(toClient') = k
      BY <1>1, <2>12, <2>13
    <3>5. /\ client.transcript = Part(0, t) /\ client.buf = Part(t, pos[0]) /\ t <= pos[0]
          /\ t >= 6 => client.server_random = Random("server")
          /\ t >= 9 => client.leaf = Leaf("server")
      BY <2>2 DEF OnItsWay
    <3>6. /\ client'.transcript = Part(0, t) /\ client'.buf = Part(t, p[0]) /\ t <= p[0]
          /\ t >= 6 => client'.server_random = Random("server")
          /\ t >= 9 => client'.leaf = Leaf("server")
          /\ server'.unsent = Part(p[k], 14)
      BY <1>1, <2>11, <2>14, <3>1, <3>5
    <3> QED
      BY <3>2, <3>3, <3>4, <3>6 DEF OnItsWay
  <2>16. InFlight'
    <3>1. \E s \in {3, 6, 9, 12}, l \in Nat : \E x \in [0..l -> 3..14] : OnItsWay(s, l, x)'
      BY <2>14, <2>15
    <3> QED
      BY <1>1, <1>4, <2>11, <3>1 DEF InFlight
  <2> QED
    BY <1>1, <2>16 DEF Somewhere
<1> QED
  BY <1>2, <1>3, <1>4 DEF Somewhere

\* The server reads nothing that it does not take.
LEMMA NothingRefused ==
  ASSUME IInv, Somewhere, ServerReads
  PROVE  Somewhere' /\ UNCHANGED <<client, closed>>
<1>1. ~closed /\ toServer # <<>> /\ UNCHANGED <<client, probing, faults>>
  BY DEF ServerReads
<1>2. CASE Opening \/ InFlight
  BY <1>1, <1>2 DEF Opening, InFlight
<1>3. CASE Hailed
  BY <1>3, HelloTaken DEF Somewhere
<1>4. CASE Exchange
  <2>1. PICK k \in 0..5 : ClientSent(k) /\ (closed => toClient = <<Alert>> /\ toServer = <<>>)
                          /\ (~closed => \E j \in 0..k : ServerTook(j, k))
    BY <1>4 DEF Exchange
  <2>2. PICK j \in 0..k : ServerTook(j, k)
    BY <1>1, <2>1
  <2>3. j + 1 \in 0..k /\ ServerTook(j + 1, k)' /\ UNCHANGED <<client, closed>>
    BY <2>2, ServerTakes
  <2>4. ClientSent(k)'
    BY <2>1, <2>3 DEF ClientSent
  <2>5. Exchange'
    BY <1>1, <2>3, <2>4 DEF Exchange
  <2> QED
    BY <2>3, <2>5 DEF Somewhere
<1>5. CASE Ending
  <2>1. client.pc # "await_finished"
    BY <1>1, <1>5 DEF Ending
  <2>2. UNCHANGED closed
    <3>1. CASE client.pc = "established"
      <4>1. server.pc = "done"
        BY <3>1 DEF IInv, ClientInv
      <4> QED
        BY <1>1, <4>1 DEF IInv, ServerInv
    <3>2. CASE client.pc = "alert" /\ closed
      BY <1>1, <3>2
    <3> QED
      BY <1>5, <2>1, <3>1, <3>2 DEF Ending
  <2> QED
    BY <1>1, <1>5, <2>1, <2>2 DEF Ending, Somewhere
<1> QED
  BY <1>2, <1>3, <1>4, <1>5 DEF Somewhere

\* The server refuses: its alert is the last thing on its way to the client.
LEMMA RefusalSaid ==
  ASSUME IInv, Somewhere, ServerRefuses
  PROVE  Somewhere' /\ UNCHANGED client /\ closed'
<1>1. /\ ~closed /\ server.pc \notin {"ClientHello", "done"} /\ UNCHANGED <<client, probing, server>>
      /\ toClient' = Append(toClient, Alert) /\ closed' = TRUE /\ toServer' = <<>>
  BY DEF ServerRefuses, Refuse
<1>2. CASE Opening \/ Hailed
  BY <1>1, <1>2 DEF Opening, Hailed
<1>3. CASE Exchange
  <2>1. PICK k \in 0..5 : ClientSent(k) /\ (~closed => \E j \in 0..k : ServerTook(j, k))
    BY <1>3 DEF Exchange
  <2>2. PICK j \in 0..k : ServerTook(j, k)
    BY <1>1, <2>1
  <2>3. toClient = <<>>
    <3>1. j # 5
      <4>1. ASSUME j = 5 PROVE FALSE
        <5>1. 5 + 1 = 6
          OBVIOUS
        <5> QED
          BY <1>1, <2>2, <4>1, <5>1, Places DEF ServerTook
      <4> QED
        BY <4>1
    <3> QED
      BY <2>2, <3>1 DEF ServerTook
  <2>4. toClient' = <<Alert>>
    BY <1>1, <2>3
  <2>5. ClientSent(k)'
    BY <1>1, <2>1 DEF ClientSent
  <2>6. Exchange'
    BY <1>1, <2>4, <2>5 DEF Exchange
  <2> QED
    BY <1>1, <2>6 DEF Somewhere
<1>4. CASE Ending
  BY <1>1, <1>4 DEF Ending, Somewhere
<1>5. CASE InFlight
  <2>1. PICK t \in {3, 6, 9, 12}, m \in Nat : \E pos \in [0..m -> 3..14] : OnItsWay(t, m, pos)
    BY <1>5 DEF InFlight
  <2>2. PICK pos \in [0..m -> 3..14] : OnItsWay(t, m, pos)
    BY <2>1
  <2>3. IsSeq(toClient) /\ Len(toClient) = m
    BY <1>1, <2>2, OnItsWayFacts
  <2>4. /\ Len(toClient') = m + 1 /\ toClient'[m + 1] = Alert
        /\ \A i \in 1..m : toClient'[i] = toClient[i]
    BY <1>1, <2>3, AppendQueue
  <2>5. OnItsWay(t, m, pos)'
    BY <1>1, <2>2, <2>4 DEF OnItsWay
  <2> QED
    BY <1>1, <1>5, <2>5 DEF InFlight, Somewhere
<1> QED
  BY <1>2, <1>3, <1>4, <1>5 DEF Somewhere

-----------------------------------------------------------------------------
(* The end of the handshake                                                *)

\* A probe finds the alert or nothing: the server speaks only when the client
\* has sent all that it sends.
LEMMA ProbeFindsAlert ==
  ASSUME IInv, Somewhere, Probe, ~closed
  PROVE  Somewhere' /\ ~client'.probe /\ UNCHANGED closed
<1>1. /\ client.probe /\ client' = [client EXCEPT !.probe = FALSE]
      /\ \/ toClient # <<>> /\ toClient' = Tail(toClient)
         \/ toClient' = toClient
      /\ UNCHANGED <<probing, server, toServer, closed, faults>>
  BY DEF Probe
<1>2. Exchange
  BY <1>1 DEF Somewhere, Opening, Hailed, InFlight, Ending
<1>3. PICK k \in 0..5 : ClientSent(k) /\ (~closed => \E j \in 0..k : ServerTook(j, k))
  BY <1>2 DEF Exchange
<1>4. PICK j \in 0..k : ServerTook(j, k)
  BY <1>3
<1>5. toClient = <<>>
  BY <1>1, <1>3, <1>4 DEF ClientSent, ServerTook
<1>6. toClient' = toClient
  BY <1>1, <1>5
<1>7. /\ client'.pc = client.pc /\ client'.transcript = client.transcript /\ client'.keys = client.keys
      /\ client'.server_random = client.server_random /\ client'.leaf = client.leaf /\ ~client'.probe
  BY <1>1 DEF IInv, ClientInv
<1>8. ClientSent(k)'
  BY <1>3, <1>7 DEF ClientSent
<1>9. ServerTook(j, k)'
  BY <1>1, <1>4, <1>6 DEF ServerTook
<1>10. Exchange'
  BY <1>1, <1>8, <1>9 DEF Exchange
<1> QED
  BY <1>1, <1>7, <1>10 DEF Somewhere

LEMMA AnswerRead ==
  ASSUME IInv, Somewhere, ReadCcs \/ ReadFinished
  PROVE  Ending' /\ UNCHANGED closed
<1>1. /\ client.pc \in {"await_ccs", "await_finished"} /\ toClient # <<>> /\ toClient' = Tail(toClient)
      /\ UNCHANGED <<probing, server, toServer, closed, faults>>
      /\ client.pc = "await_ccs" => ~client.probe
  BY DEF ReadCcs, ReadFinished
<1>2. \A pc : Become(pc) => /\ client'.pc = pc /\ client'.transcript = client.transcript
                            /\ client'.keys = client.keys /\ client'.probe = client.probe
  BY DEF Become, IInv, ClientInv
<1>3. CASE client.pc = "await_ccs"
  <2>1. Exchange
    BY <1>3, Stages DEF ClientPlaces
  <2>2. PICK i \in 1..6 : i = 6
    OBVIOUS
  <2>3. PICK k : k = i - 1
    OBVIOUS
  <2>4. k = 5 /\ k + 1 = 6
    BY <2>2, <2>3
  <2>5. /\ ClientSent(k)
        /\ closed => toClient = <<Alert>> /\ toServer = <<>>
        /\ ~closed => \E j \in 0..k : ServerTook(j, k)
    <3>1. client.pc = ClientAt[i]
      BY <1>3, <2>2, Places
    <3> QED
      BY <2>1, <2>3, <3>1, ExchangeAt
  <2>6. client.transcript = AfterFinished /\ client.keys = Keys
    BY <2>4, <2>5, Transcripts DEF ClientSent
  <2>7. CASE closed
    <3>1. Head(toClient) = Alert
      BY <2>5, <2>7, OneRecord
    <3>2. Alert.type = "Alert"
      BY DEF Alert, Record
    <3>3. Become("alert")
      BY <1>3, <3>1, <3>2 DEF ReadCcs, ReadFinished
    <3> QED
      BY <1>1, <1>2, <1>3, <2>7, <3>3 DEF Ending
  <2>8. CASE ~closed
    <3>1. PICK j \in 0..k : ServerTook(j, k)
      BY <2>5, <2>8
    <3>2. j = 5
      BY <1>1, <3>1 DEF ServerTook
    <3>3. toClient = <<ChangeCipherSpec, ServerFinished>>
      BY <3>1, <3>2 DEF ServerTook
    <3>4. Head(toClient) = ChangeCipherSpec /\ Tail(toClient) = <<ServerFinished>>
      <4>1. \A x, y : Head(<<x, y>>) = x /\ Tail(<<x, y>>) = <<y>>
        OBVIOUS
      <4> QED
        BY <3>3, <4>1, Zenon
    <3>5. ChangeCipherSpec.type = "ChangeCipherSpec"
      BY DEF ChangeCipherSpec, Record
    <3>6. Become("await_finished")
      BY <1>3, <3>4, <3>5 DEF ReadCcs, ReadFinished
    <3>7. server.pc = "done" /\ server.unsent = <<>>
      <4>1. 5 + 1 = 6
        OBVIOUS
      <4> QED
        BY <3>1, <3>2, <4>1, Places DEF ServerTook
    <3>8. toServer = <<>>
      BY <3>7 DEF IInv, ServerInv
    <3> QED
      BY <1>1, <1>2, <1>3, <2>6, <3>4, <3>6, <3>7, <3>8 DEF Ending
  <2> QED
    BY <2>7, <2>8
<1>4. CASE client.pc = "await_finished"
  <2>1. /\ ~client.probe /\ client.transcript = AfterFinished /\ client.keys = Keys
        /\ toClient = <<ServerFinished>>
    BY <1>4, Stages DEF Ending
  <2>2. Head(toClient) = Sealed(client.keys, "server", frame_handshake("Finished",
                           <<finished_body(client.keys, "server", client.transcript)>>))
    <3>1. Head(toClient) = ServerFinished
      BY <2>1, OneRecord
    <3> QED
      BY <2>1, <3>1 DEF ServerFinished, FinishedMessage
  <2>3. Become("established")
    BY <1>4, <2>2 DEF ReadCcs, ReadFinished
  <2> QED
    BY <1>1, <1>2, <2>1, <2>3 DEF Ending
<1> QED
  BY <1>1, <1>3, <1>4

\* A read fails only by the fault of a server that is slow.
LEMMA NoReadFails ==
  ASSUME IInv, Somewhere, ReadFails
  PROVE  Fault("slow")
<1>1. Reading /\ toClient = <<>>
  BY DEF ReadFails
<1>2. \A r : <<r>> # <<>>
  BY OneRecord
<1>3. ~closed /\ (toServer # <<>> \/ server.unsent # <<>>)
  <2>1. CASE client.pc = "flight"
    <3>1. CASE Hailed
      BY <1>2, <3>1 DEF Hailed
    <3>2. CASE InFlight
      <4>1. PICK t \in {3, 6, 9, 12}, m \in Nat : \E pos \in [0..m -> 3..14] : OnItsWay(t, m, pos)
        BY <3>2 DEF InFlight
      <4>2. PICK pos \in [0..m -> 3..14] : OnItsWay(t, m, pos)
        BY <4>1
      <4>3. /\ Len(toClient) = IF closed THEN m + 1 ELSE m
            /\ \A i \in 0..m : pos[i] \in Nat /\ pos[i] >= t /\ pos[i] <= 14
        BY <4>2, OnItsWayFacts
      <4>4. ~closed /\ m = 0
        BY <1>1, <4>3, EmptyQueue
      <4>5. PICK p \in t..14 : p = pos[0]
        <5>1. 0 \in 0..m
          OBVIOUS
        <5> QED
          BY <4>3, <5>1
      <4>6. client.buf = Part(t, p) /\ server.unsent = Part(p, 14)
        BY <4>2, <4>4, <4>5 DEF OnItsWay
      <4>7. p # 14
        <5>1. ~Complete(client.buf)
          BY <1>1, <2>1 DEF Reading
        <5>2. Complete(Part(t, p)) <=> p >= IF t = 12 THEN 14 ELSE t + 3
          BY WholeMessage
        <5> QED
          BY <4>6, <5>1, <5>2
      <4>8. server.unsent # <<>>
        <5>1. p \in Nat /\ 14 \in Nat /\ p <= 14 /\ 14 <= 14
          OBVIOUS
        <5>2. Len(Part(p, 14)) = 14 - p
          BY <5>1, PartType, Zenon
        <5>3. Len(server.unsent) # 0
          BY <4>6, <4>7, <5>1, <5>2
        <5> QED
          BY <5>3, EmptyQueue
      <4> QED
        BY <4>4, <4>8
    <3> QED
      BY <2>1, <3>1, <3>2, Stages
  <2>2. CASE client.pc = "await_ccs"
    <3>1. Exchange
      BY <2>2, Stages DEF ClientPlaces
    <3>2. PICK i \in 1..6 : i = 6
      OBVIOUS
    <3>3. PICK k : k = i - 1
      OBVIOUS
    <3>4. k = 5
      BY <3>2, <3>3
    <3>5. /\ closed => toClient = <<Alert>> /\ toServer = <<>>
          /\ ~closed => \E j \in 0..k : ServerTook(j, k)
      <4>1. client.pc = ClientAt[i]
        BY <2>2, <3>2, Places
      <4> QED
        BY <3>1, <3>3, <4>1, ExchangeAt
    <3>6. ~closed
      BY <1>1, <1>2, <3>5
    <3>7. PICK j \in 0..k : ServerTook(j, k)
      BY <3>5, <3>6
    <3>8. j # k
      <4>1. \A x, y : <<x, y>> # <<>>
        OBVIOUS
      <4> QED
        BY <1>1, <3>4, <3>7, <4>1 DEF ServerTook
    <3>9. SubSeq(Sent, j + 1, k) # <<>>
      <4>1. /\ Sent \in Seq({Sent[1], Sent[2], Sent[3], Sent[4], Sent[5]}) /\ Len(Sent) = 5
            /\ j \in Nat /\ k \in Nat /\ j <= k /\ k <= Len(Sent)
        BY <3>4, SentRecords
      <4> QED
        BY <3>8, <4>1, Segment
    <3> QED
      BY <3>6, <3>7, <3>9 DEF ServerTook
  <2>3. CASE client.pc = "await_finished"
    BY <1>1, <1>2, <2>3, Stages DEF Ending
  <2> QED
    BY <1>1, <2>1, <2>2, <2>3 DEF Reading
<1> QED
  BY <1>3 DEF ReadFails

-----------------------------------------------------------------------------
(* The course of a login                                                   *)

\* A login that is quiet after a step was quiet before it, and the only fault
\* the step can have been is the refusal.
LEMMA QuietBefore ==
  ASSUME RestInv, Quiet', UNCHANGED probing
  PROVE  /\ UNCHANGED faults => Quiet
         /\ \A kind : Fault(kind) => Quiet /\ faults = <<>> /\ ~probing /\ kind = "refusal" /\ faults' = <<"refusal">>
<1>1. UNCHANGED faults => Quiet
  BY DEF Quiet
<1>2. ASSUME NEW kind, Fault(kind)
      PROVE  faults = <<>> /\ ~probing /\ kind = "refusal" /\ faults' = <<"refusal">>
  <2>1. /\ IsSeq(Append(faults, kind)) /\ Len(faults) \in Nat /\ Len(Append(faults, kind)) = Len(faults) + 1
        /\ Append(faults, kind)[Len(faults) + 1] = kind
    BY AppendQueue DEF RestInv
  <2>2. faults' = Append(faults, kind)
    BY <1>2 DEF Fault
  <2>3. faults' # <<>>
    BY <2>1, <2>2, EmptyQueue
  <2>4. faults' = <<"refusal">> /\ ~probing
    BY <2>3 DEF Quiet
  <2>5. Len(faults') = 1 /\ faults'[1] = "refusal"
    BY <2>4, OneRecord
  <2>6. Len(faults) = 0 /\ kind = "refusal"
    BY <2>1, <2>2, <2>5
  <2>7. faults = <<>>
    BY <2>6, EmptySeq DEF RestInv, IsSeq
  <2> QED
    BY <2>4, <2>6, <2>7
<1>3. \A kind : Fault(kind) => Quiet
  BY <1>2 DEF Quiet
<1> QED
  BY <1>1, <1>2, <1>3

LEMMA CourseBegins == Init => Course
<1> SUFFICES ASSUME Init
             PROVE  ~closed /\ ~client.probe /\ Opening
  BY DEF Course, Somewhere
<1> QED
  BY DEF Init, Opening

LEMMA CourseKept == IInv /\ Course /\ [Next]_vars => Course'
<1> SUFFICES ASSUME IInv, Course, [Next]_vars, Quiet'
             PROVE  (closed' => faults' = <<"refusal">>) /\ (client'.probe => probing') /\ Somewhere'
  BY DEF Course
<1>1. UNCHANGED probing
  BY DEF Next, ClientStep, ClientHello, ReadFlight, TakeMessage, Certificate, ClientKeyExchange, CertificateVerify,
         ChangeCipherSpecs, Finished, Probe, ReadCcs, ReadFinished, ReadFails, ServerReads, ServerSends,
         ServerRefuses, Damage, Reset, vars
<1>2. /\ UNCHANGED faults => Quiet
      /\ \A kind : Fault(kind) => Quiet /\ faults = <<>> /\ ~probing /\ kind = "refusal" /\ faults' = <<"refusal">>
  BY <1>1, QuietBefore DEF IInv
<1>3. Quiet => (closed => faults = <<"refusal">>) /\ (client.probe => probing) /\ Somewhere
  BY DEF Course
<1>4. ~Fault("token") /\ ~Fault("slow") /\ ~Fault("damage") /\ ~Fault("reset")
  BY <1>2
<1>5. ASSUME Quiet, UNCHANGED faults, UNCHANGED closed, client'.probe => probing, Somewhere'
      PROVE  (closed' => faults' = <<"refusal">>) /\ (client'.probe => probing') /\ Somewhere'
  BY <1>1, <1>3, <1>5
<1>6. ASSUME ClientHello
      PROVE  (closed' => faults' = <<"refusal">>) /\ (client'.probe => probing') /\ Somewhere'
  <2>1. UNCHANGED faults
    BY <1>6 DEF ClientHello
  <2>2. Hailed' /\ UNCHANGED closed
    BY <1>2, <1>3, <1>6, <2>1, HelloSent
  <2> QED
    BY <1>2, <1>5, <2>1, <2>2 DEF Hailed, Somewhere
<1>7. ASSUME ReadFlight
      PROVE  (closed' => faults' = <<"refusal">>) /\ (client'.probe => probing') /\ Somewhere'
  <2>1. UNCHANGED faults
    BY <1>7 DEF ReadFlight
  <2>2. (InFlight' \/ Ending') /\ UNCHANGED closed
    BY <1>2, <1>3, <1>7, <2>1, FlightRecordRead
  <2> QED
    BY <1>2, <1>5, <2>1, <2>2 DEF InFlight, Ending, Somewhere
<1>8. ASSUME TakeMessage
      PROVE  (closed' => faults' = <<"refusal">>) /\ (client'.probe => probing') /\ Somewhere'
  <2>1. UNCHANGED faults
    BY <1>8 DEF TakeMessage
  <2>2. (InFlight' \/ Exchange') /\ ~client'.probe /\ UNCHANGED closed
    BY <1>2, <1>3, <1>8, <2>1, FlightMessageTaken
  <2> QED
    BY <1>2, <1>5, <2>1, <2>2 DEF Somewhere
<1>9. ASSUME Certificate \/ ClientKeyExchange \/ CertificateVerify \/ ChangeCipherSpecs \/ Finished
      PROVE  (closed' => faults' = <<"refusal">>) /\ (client'.probe => probing') /\ Somewhere'
  <2>1. UNCHANGED faults
    BY <1>4, <1>9 DEF Certificate, ClientKeyExchange, CertificateVerify, ChangeCipherSpecs, Finished
  <2>2. Somewhere' /\ (client'.probe => probing) /\ UNCHANGED closed
    BY <1>2, <1>3, <1>9, <2>1, SecondFlight
  <2> QED
    BY <1>2, <1>5, <2>1, <2>2
<1>10. ASSUME Probe
       PROVE  (closed' => faults' = <<"refusal">>) /\ (client'.probe => probing') /\ Somewhere'
  <2>1. UNCHANGED faults /\ client.probe
    BY <1>10 DEF Probe
  <2>2. ~closed
    <3>1. \A x : <<x>> # <<>>
      BY OneRecord
    <3> QED
      BY <1>2, <1>3, <2>1, <3>1 DEF Quiet
  <2>3. Somewhere' /\ ~client'.probe /\ UNCHANGED closed
    BY <1>2, <1>3, <1>10, <2>1, <2>2, ProbeFindsAlert
  <2> QED
    BY <1>2, <1>5, <2>1, <2>3
<1>11. ASSUME ReadCcs \/ ReadFinished
       PROVE  (closed' => faults' = <<"refusal">>) /\ (client'.probe => probing') /\ Somewhere'
  <2>1. UNCHANGED faults
    BY <1>11 DEF ReadCcs, ReadFinished
  <2>2. Ending' /\ UNCHANGED closed
    BY <1>2, <1>3, <1>11, <2>1, AnswerRead
  <2> QED
    BY <1>2, <1>5, <2>1, <2>2 DEF Ending, Somewhere
<1>12. ASSUME ReadFails
       PROVE  FALSE
  <2>1. UNCHANGED faults
    BY <1>4, <1>12 DEF ReadFails
  <2> QED
    BY <1>2, <1>3, <1>4, <1>12, <2>1, NoReadFails
<1>13. ASSUME ServerReads \/ ServerSends
       PROVE  (closed' => faults' = <<"refusal">>) /\ (client'.probe => probing') /\ Somewhere'
  <2>1. UNCHANGED faults
    BY <1>13 DEF ServerReads, ServerSends
  <2>2. Somewhere' /\ UNCHANGED <<client, closed>>
    BY <1>2, <1>3, <1>13, <2>1, NothingRefused, FlightRecordSent
  <2> QED
    BY <1>2, <1>3, <1>5, <2>1, <2>2
<1>14. ASSUME ServerRefuses
       PROVE  (closed' => faults' = <<"refusal">>) /\ (client'.probe => probing') /\ Somewhere'
  <2>1. Fault("refusal")
    BY <1>14 DEF ServerRefuses
  <2>2. Quiet /\ faults' = <<"refusal">>
    BY <1>2, <2>1
  <2>3. Somewhere' /\ UNCHANGED client
    BY <1>3, <1>14, <2>2, RefusalSaid
  <2> QED
    BY <1>1, <1>3, <2>2, <2>3
<1>15. ~Damage /\ ~Reset
  BY <1>4 DEF Damage, Reset
<1>16. ASSUME UNCHANGED vars
       PROVE  (closed' => faults' = <<"refusal">>) /\ (client'.probe => probing') /\ Somewhere'
  <2>1. UNCHANGED <<client, probing, server, toServer, toClient, closed, faults>>
    BY <1>16 DEF vars
  <2>2. Somewhere <=> Somewhere'
    BY <2>1 DEF Somewhere, Opening, Hailed, InFlight, OnItsWay, Exchange, ClientSent, ServerTook, Ending
  <2> QED
    BY <1>2, <1>3, <2>1, <2>2
<1>17. Next \/ UNCHANGED vars
  OBVIOUS
<1> QED
  BY <1>6, <1>7, <1>8, <1>9, <1>10, <1>11, <1>12, <1>13, <1>14, <1>15, <1>16, <1>17 DEF Next, ClientStep

LEMMA CourseHolds == Spec => []Course
<1>1. Spec => []IInv
  BY Invariance
<1> QED
  BY <1>1, CourseBegins, CourseKept, PTL DEF Spec

\* If the server refuses and nothing else goes wrong, a login without probes
\* names the server's alert: wherever in its flight the refusal catches it,
\* waiting for a record or writing one that fails, and whatever of the flight is
\* still on its way before the alert (gost_login.rs:462).
THEOREM AlertNamedAlways == Spec => []AlertNamed
<1>1. Course => AlertNamed
  <2> SUFFICES ASSUME Course, client.pc = "error", ~probing, faults = <<"refusal">>
               PROVE  FALSE
    BY DEF AlertNamed
  <2>1. Somewhere
    BY DEF Course, Quiet
  <2> QED
    BY <2>1, Stages
<1> QED
  BY <1>1, CourseHolds, PTL

\* As long as there is no fault, the client does not fail and is not refused:
\* each end takes every message of the other for what it is, wherever its record
\* ends, and no read or write fails of itself (gost_login.rs:205).
THEOREM UntroubledAlways == Spec => []Untroubled
<1>1. Course => Untroubled
  <2> SUFFICES ASSUME Course, faults = <<>>
               PROVE  client.pc \notin {"alert", "error"}
    BY DEF Untroubled
  <2>1. Somewhere /\ ~closed
    <3>1. \A x : <<x>> # <<>>
      BY OneRecord
    <3> QED
      BY <3>1 DEF Course, Quiet
  <2>2. client.pc # "alert"
    BY <2>1, Stages DEF Ending
  <2> QED
    BY <2>1, <2>2, Stages
<1> QED
  BY <1>1, CourseHolds, PTL
===============================================================================
