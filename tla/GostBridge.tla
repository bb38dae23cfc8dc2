------------------------------ MODULE GostBridge ------------------------------
(***************************************************************************)
(* The gost-bridge command (src/src/lib.rs, GostBridgeCommand, with        *)
(* src/src/gost_bridge.rs): one loop that accepts browser connections,     *)
(* reads one request from each and answers it before it accepts the next.  *)
(* It keeps one cookie jar for all upstream hosts, makes a new upstream    *)
(* connection per request, and has the token sign in every handshake with  *)
(* a GOST front and for every document, which presents the PIN each time.  *)
(*                                                                         *)
(* The token is used through sign_digest and is here what TokenSession     *)
(* makes of it: a signature, or an error whose text does or does not       *)
(* mention the PIN.  Upstream hosts and browsers are external.  The hosts  *)
(* are the primary host, a GOST front, and other hosts in plain TLS.       *)
(*                                                                         *)
(* A definition X_Name is a mutant of X; see RecordLayer.                  *)
(***************************************************************************)
EXTENDS Naturals, Sequences, FiniteSets

CONSTANTS
  Client,       \* browser connections
  Kind,         \* what they ask for, a subset of Kinds below
  Host,         \* upstream hosts
  Primary,      \* the one in Host that is a GOST front
  Cookie,       \* Cookie[h]: the name of the session cookie of host h
  None,         \* no client, no session
  MaxFaults     \* bound: failed exchanges with the token or a host

Kinds == [page : {"local", "sign", "login", "challenge", "register", "malformed", "eof", "stall"},
          host : {Primary}]
         \cup [page : {"proxy"}, host : Host]

ASSUME HostAssumption == Primary \in Host /\ Kind \subseteq Kinds
ASSUME NoneAssumption == None \notin Client /\ None \notin Host \X Nat
ASSUME BoundAssumption == MaxFaults \in Nat /\ IsFiniteSet(Client)

VARIABLES
  conn,       \* conn[c]: how far the connection of c has got
  asks,       \* asks[c]: what c asks for
  backlog,    \* the connections the listener has not accepted yet
  at,         \* what the loop is doing, for which client, with which host
  jar,        \* jar[name]: the session the jar holds under a cookie name
  issued,     \* the sessions each host has issued: <<h, 1>>, <<h, 2>>, ...
  auth,       \* the sessions that have been authenticated
  challenge,  \* the session the login in progress has a challenge for
  pinRight,   \* whether the configured PIN is the card's
  refused,    \* how often the card has refused it
  claims,     \* history: the sessions of which a browser was told they are logged in
  faults

browser == <<conn, asks, backlog>>
server  == <<issued, auth, challenge>>
token   == <<pinRight, refused>>
vars    == <<browser, at, jar, server, token, claims, faults>>

Accepting == [step |-> "accept", client |-> None, goal |-> "none", host |-> Primary]
Stopped   == [Accepting EXCEPT !.step = "stopped"]

Fault == faults < MaxFaults /\ faults' = faults + 1

-----------------------------------------------------------------------------
(* Browsers (external)                                                     *)

Connect(c) ==
  /\ conn[c] = "new" /\ at # Stopped
  /\ \E k \in Kind : asks' = [asks EXCEPT ![c] = k]
  /\ conn' = [conn EXCEPT ![c] = "waiting"]
  /\ backlog' = Append(backlog, c)
  /\ UNCHANGED <<at, jar, server, token, claims, faults>>

-----------------------------------------------------------------------------
(* The loop                                                                *)

\* Mutant: the connection stays in the backlog.
Accept_Peeks ==
  /\ at.step = "accept"
  /\ backlog # <<>>
  /\ at' = [Accepting EXCEPT !.step = "read", !.client = Head(backlog)]
  /\ UNCHANGED <<conn, asks, backlog, jar, server, token, claims, faults>>

Accept ==
  /\ at.step = "accept"
  /\ backlog # <<>>
  /\ at' = [Accepting EXCEPT !.step = "read", !.client = Head(backlog)]
  /\ backlog' = Tail(backlog)
  /\ UNCHANGED <<conn, asks, jar, server, token, claims, faults>>

\* The current client is given an answer and the loop goes on.
Answer(what) ==
  /\ conn' = [conn EXCEPT ![at.client] = what]
  /\ at' = Accepting
  /\ UNCHANGED <<asks, backlog>>

Go(step, goal, host) ==
  /\ at' = [at EXCEPT !.step = step, !.goal = goal, !.host = host]
  /\ UNCHANGED browser

\* Mutant: the loop goes on after a PIN error as after any other.
OnError_GoesOn(pin) == Answer("failed")

\* An error whose text mentions the PIN ends the command, and with it every
\* connection; any other error is an answer.
OnError(pin) ==
  IF pin
  THEN /\ conn' = [c \in Client |-> IF conn[c] = "waiting" THEN "dropped" ELSE conn[c]]
       /\ at' = Stopped
       /\ backlog' = <<>>
       /\ UNCHANGED asks
  ELSE Answer("failed")

\* Mutant: after a malformed request the connection is kept for another one.
Read_KeepsMalformed ==
  /\ at.step = "read"
  /\ LET k == asks[at.client]
     IN  \/ k.page = "malformed" /\ UNCHANGED <<at, browser>>
         \/ k.page = "eof" /\ Answer("closed")
         \/ k.page = "local" /\ Answer("answered")
         \/ k.page \in {"login", "challenge"} /\ Go("handshake", "get", Primary)
         \/ k.page \in {"sign", "register"} /\ Go("sign", k.page, Primary)
         \/ k.page = "proxy" /\ k.host = Primary /\ Go("handshake", "proxy", Primary)
         \/ k.page = "proxy" /\ k.host # Primary /\ Go("exchange", "proxy", k.host)
  /\ UNCHANGED <<jar, server, token, claims, faults>>

\* read_request and the choice of the handler.  There is no time-out: a client
\* that stalls is waited for.
Read ==
  /\ at.step = "read"
  /\ LET k == asks[at.client]
     IN  \/ k.page = "malformed" /\ Answer("failed")
         \/ k.page = "eof" /\ Answer("closed")
         \/ k.page = "local" /\ Answer("answered")
         \/ k.page \in {"login", "challenge"} /\ Go("handshake", "get", Primary)
         \/ k.page \in {"sign", "register"} /\ Go("sign", k.page, Primary)
         \/ k.page = "proxy" /\ k.host = Primary /\ Go("handshake", "proxy", Primary)
         \/ k.page = "proxy" /\ k.host # Primary /\ Go("exchange", "proxy", k.host)
  /\ UNCHANGED <<jar, server, token, claims, faults>>

-----------------------------------------------------------------------------
(* The token                                                               *)

SignedOk == pinRight /\ UNCHANGED <<refused, faults>>

\* A wrong PIN that is reported: "VERIFY PIN failed".
Refused == ~pinRight /\ refused' = refused + 1 /\ UNCHANGED faults

\* Any other failure of the token or the link, before or after the card has
\* looked at the PIN.  Its text does not mention the PIN.
Broken ==
  /\ Fault
  /\ IF pinRight THEN UNCHANGED refused ELSE refused' \in {refused, refused + 1}

\* The mutual handshake with a GOST front, in which the token signs
\* CertificateVerify.  It may also fail for reasons of its own.
Handshake ==
  /\ at.step = "handshake"
  /\ \/ SignedOk /\ Go("exchange", at.goal, at.host)
     \/ Refused /\ OnError(TRUE)
     \/ Broken /\ OnError(FALSE)
  /\ UNCHANGED <<jar, server, pinRight, claims>>

\* sign_detached_cms_b64: the document asked for, the agreement or the challenge.
Sign ==
  /\ at.step = "sign"
  /\ \/ /\ SignedOk
        /\ IF at.goal = "sign" THEN Answer("answered") ELSE Go("handshake", at.goal, Primary)
     \/ Refused /\ OnError(TRUE)
     \/ Broken /\ OnError(FALSE)
  /\ UNCHANGED <<jar, server, pinRight, claims>>

-----------------------------------------------------------------------------
(* The hosts (external)                                                    *)

\* The session host h sees in a request, None if it has not issued it.
Sees(h) == IF jar[Cookie[h]] \in issued /\ jar[Cookie[h]][1] = h THEN jar[Cookie[h]] ELSE None

Fresh(h) == <<h, Cardinality({s \in issued : s[1] = h}) + 1>>

\* A response: whether it is a success, the session it sets (None for none).
\* GET: a challenge, bound to the session the request came with or a new one.
GetChallenge(r) ==
  \/ /\ r.ok
     /\ IF Sees(Primary) # None
        THEN r.set = None /\ challenge' = Sees(Primary) /\ UNCHANGED issued
        ELSE r.set = Fresh(Primary) /\ challenge' = r.set /\ issued' = issued \cup {r.set}
     /\ UNCHANGED auth
  \/ ~r.ok /\ r.set = None /\ UNCHANGED server

\* POST: the challenge of this very session, signed, authenticates it, under a
\* new identifier; otherwise it is refused.  Either way it is used up.
PostChallenge(r) ==
  /\ challenge' = None
  /\ \/ /\ r.ok
        /\ challenge # None /\ Sees(Primary) = challenge
        /\ r.set = Fresh(Primary)
        /\ issued' = issued \cup {r.set}
        /\ auth' = auth \cup {r.set}
     \/ ~r.ok /\ r.set = None /\ UNCHANGED <<issued, auth>>

\* Anything else is answered, with a new anonymous session if the host sees
\* none it knows.
Serve(h, r) ==
  /\ r.ok
  /\ IF Sees(h) = None
     THEN r.set = Fresh(h) /\ issued' = issued \cup {r.set}
     ELSE r.set = None /\ UNCHANGED issued
  /\ UNCHANGED <<auth, challenge>>

Handle(r) ==
  CASE at.goal = "get"  -> GetChallenge(r)
    [] at.goal = "post" -> PostChallenge(r)
    [] at.goal \in {"proxy", "register"} -> Serve(at.host, r)

Response == [ok : BOOLEAN, set : {None} \cup {Fresh(h) : h \in Host}]

-----------------------------------------------------------------------------
(* Exchanges with the hosts                                                *)

\* Mutant: the session a response sets is kept only if there is none yet.
Absorbed_FirstOnly(h, r) ==
  IF r.set # None /\ jar[Cookie[h]] = None THEN [jar EXCEPT ![Cookie[h]] = r.set] ELSE jar

\* The jar after a response of host h: cookies have a name and no host.
Absorbed(h, r) == IF r.set # None THEN [jar EXCEPT ![Cookie[h]] = r.set] ELSE jar

\* recv_all_application_data and read_to_end take the end of the stream, however
\* it comes, for the end of the response: what was cut off goes unnoticed.
Deliver(cut) == Answer(IF cut = "no" THEN "answered" ELSE "truncated")

\* An error that quotes what the host has sent, in which there may be a "pin".
UpstreamError == \E pin \in BOOLEAN : OnError(pin)

\* auth_challenge_raw after its first request.
GotChallenge(r, cut) ==
  /\ at.goal = "get"
  /\ IF r.ok /\ cut = "no" THEN Go("sign", "post", Primary) ELSE UpstreamError
  /\ UNCHANGED claims

\* perform_bridge_login: any success is a login.
LoggedIn(r, cut) ==
  /\ at.goal = "post" /\ asks[at.client].page = "login"
  /\ IF r.ok /\ cut # "in header"
     THEN Answer("answered") /\ claims' = claims \cup {jar'[Cookie[Primary]]}
     ELSE UpstreamError /\ UNCHANGED claims

\* Every other response goes to the browser whatever it says.
Relayed(cut) ==
  /\ \/ at.goal \in {"proxy", "register"}
     \/ at.goal = "post" /\ asks[at.client].page = "challenge"
  /\ Deliver(cut)
  /\ UNCHANGED claims

\* The host handles the request and its response comes back, whole or cut off
\* before the end of its header, when no cookie is seen, or after it.
Respond ==
  /\ at.step = "exchange"
  /\ \E r \in Response, cut \in {"no", "in header", "in body"} :
       /\ Handle(r)
       /\ IF cut = "no" THEN UNCHANGED faults ELSE Fault
       /\ jar' = IF cut = "in header" THEN jar ELSE Absorbed(at.host, r)
       /\ GotChallenge(r, cut) \/ LoggedIn(r, cut) \/ Relayed(cut)
  /\ UNCHANGED token

\* The connection fails and the host is not reached.
Unreached ==
  /\ at.step = "exchange"
  /\ Fault
  /\ OnError(FALSE)
  /\ UNCHANGED <<jar, server, token, claims>>

\* A client that stalls may go away.
HangUp ==
  /\ at.step = "read" /\ asks[at.client].page = "stall"
  /\ Answer("closed")
  /\ UNCHANGED <<jar, server, token, claims, faults>>

Init ==
  /\ conn = [c \in Client |-> "new"]
  /\ asks = [c \in Client |-> [page |-> "eof", host |-> Primary]]
  /\ backlog = <<>>
  /\ at = Accepting
  /\ jar = [n \in {Cookie[h] : h \in Host} |-> None]
  /\ issued = {} /\ auth = {} /\ challenge = None
  /\ pinRight \in BOOLEAN
  /\ refused = 0
  /\ claims = {}
  /\ faults = 0

Loop == Accept \/ Read \/ Handshake \/ Sign \/ Respond \/ Unreached

Next == (\E c \in Client : Connect(c)) \/ HangUp \/ Loop

Spec == Init /\ [][Next]_vars

\* The loop runs on; every call of the token and of the hosts has a time-out.
\* Reading a request has none (Served excludes a client that stalls in it), nor
\* has writing the response: a browser is assumed to take what it asked for.
FairSpec == Spec /\ WF_vars(Loop)

-----------------------------------------------------------------------------
(* Properties                                                              *)

\* Every variable has its type, the loop has a client exactly while it serves
\* one, and no two clients are served at once.
TypeOK ==
  /\ conn \in [Client -> {"new", "waiting", "answered", "truncated", "failed", "closed", "dropped"}]
  /\ asks \in [Client -> Kinds]
  /\ at.step \in {"accept", "read", "handshake", "sign", "exchange", "stopped"}
  /\ at.step \in {"accept", "stopped"} <=> at.client = None
  /\ \A c \in Client :
       conn[c] = "waiting" <=> c = at.client \/ \E i \in DOMAIN backlog : backlog[i] = c
  /\ \A h \in Host : jar[Cookie[h]] \in issued \cup {None}
  /\ auth \subseteq issued
  /\ refused <= Cardinality(Client) + faults
  /\ faults \in 0..MaxFaults

\* The card refuses the PIN at most once and the bridge stops, as long as the
\* token reports the refusal: no handler, and no second or third signature of
\* a login, presents a PIN that was refused.
RefusedPinStops == faults = 0 => refused <= 1 /\ (refused = 1 => at = Stopped)

\* A browser that is told it is logged in shares a jar whose session the host
\* has authenticated: both responses of the login have left their cookies.
LoggedInIsAuthenticated == claims \subseteq auth

\* Every client is answered or dropped in the end, unless a client that sends
\* nothing is being waited for.
Served ==
  \A c \in Client :
    conn[c] = "waiting" ~> conn[c] # "waiting"
                           \/ (at.step = "read" /\ asks[at.client].page = "stall")

\* "Stop on the first failure: a bad PIN must not be retried" (lib.rs:5199).
\* Violated: a refusal that the token's answer does not get through is an error
\* without "pin" in its text, and the next request presents the PIN again.
BadPinNotRetried == refused <= 1

\* The jar is there "so the authenticated session (e.g. `PHPSESSID`) persists
\* even though each request is a fresh handshake" (gost_bridge.rs:123): an
\* authenticated session stays in the jar until its own host replaces it.
\* Violated: the jar knows names and no hosts, so when two hosts name their
\* cookies alike, one page of the sibling replaces the session of the primary
\* host, which then sees nobody logged in.
SessionPersists ==
  [][jar[Cookie[Primary]] \in auth /\ jar'[Cookie[Primary]] # jar[Cookie[Primary]]
       => at.host = Primary]_vars
===============================================================================
