--------------------------- MODULE GostBridgeProofs ---------------------------
(***************************************************************************)
(* Theorems about GostBridge: its type invariant, that a PIN the card has  *)
(* refused is not presented again, and that a browser is told of a login   *)
(* only when its session has been authenticated.  They hold for any        *)
(* clients, requests, hosts and cookie names and any number of faults.     *)
(***************************************************************************)
EXTENDS GostBridge, FiniteSetTheorems, SequenceTheorems, TLAPS

\* What the loop may be doing, by the goal it has in mind.
Goals(step) ==
  CASE step \in {"accept", "read", "stopped"} -> {"none"}
    [] step = "handshake" -> {"get", "post", "proxy", "register"}
    [] step = "exchange"  -> {"get", "post", "proxy", "register"}
    [] step = "sign"      -> {"sign", "post", "register"}

Step == {"accept", "read", "handshake", "sign", "exchange", "stopped"}
Goal == {"none", "get", "post", "proxy", "register", "sign"}
Outcome == {"answered", "truncated", "failed", "closed", "dropped"}

\* The loop serves one client, who is not in the backlog, and nobody waits
\* twice.  The two requests of a login go to the primary host.
LoopInv ==
  /\ conn \in [Client -> {"new", "waiting"} \cup Outcome]
  /\ asks \in [Client -> Kinds]
  /\ backlog \in Seq(Client)
  /\ at \in [step : Step, client : Client \cup {None}, goal : Goal, host : Host]
  /\ at.goal \in Goals(at.step)
  /\ at.goal \in {"get", "post"} => at.host = Primary
  /\ at.step \in {"accept", "stopped"} <=> at.client = None
  /\ at.step = "stopped" => at = Stopped
  /\ \A c \in Client :
       conn[c] = "waiting" <=> c = at.client \/ \E i \in 1..Len(backlog) : backlog[i] = c
  /\ \A i \in 1..Len(backlog) : backlog[i] # at.client
  /\ \A i, j \in 1..Len(backlog) : backlog[i] = backlog[j] => i = j

\* The jar holds what hosts have issued, and the logins told of are in order.
SessionInv ==
  /\ IsFiniteSet(issued)
  /\ DOMAIN jar = {Cookie[h] : h \in Host}
  /\ jar \in [{Cookie[h] : h \in Host} -> issued \cup {None}]
  /\ auth \subseteq issued
  /\ claims \subseteq auth

\* Every refusal but the one the bridge stops at is hidden by a fault.
PinInv ==
  /\ refused \in Nat
  /\ faults \in 0..MaxFaults
  /\ refused <= faults + 1
  /\ at.step # "stopped" => refused <= faults
  /\ at.step = "stopped" => Client # {}

IInv == LoopInv /\ SessionInv /\ PinInv

USE HostAssumption, NoneAssumption

-----------------------------------------------------------------------------
(* The loop                                                                *)

Serving == at.step \in {"read", "handshake", "sign", "exchange"}

\* An answer leaves the loop accepting.
LEMMA AnswerKeepsLoop ==
  ASSUME LoopInv, Serving, NEW what \in Outcome, Answer(what)
  PROVE  LoopInv' /\ at'.step = "accept"
<1>1. at.client \in Client
  BY DEF LoopInv, Serving
<1>2. conn' = [conn EXCEPT ![at.client] = what] /\ at' = Accepting /\ UNCHANGED <<asks, backlog>>
  BY DEF Answer
<1>3. \A c \in Client :
        conn'[c] = "waiting" <=> c = at'.client \/ \E i \in 1..Len(backlog') : backlog'[i] = c
  BY <1>1, <1>2 DEF LoopInv, Accepting, Outcome
<1>4. at' \in [step : Step, client : Client \cup {None}, goal : Goal, host : Host]
  BY <1>2 DEF Accepting, Step, Goal
<1>5. /\ at'.goal \in Goals(at'.step)
      /\ at'.goal \in {"get", "post"} => at'.host = Primary
      /\ at'.step \in {"accept", "stopped"} <=> at'.client = None
      /\ at'.step = "stopped" => at' = Stopped
  BY <1>2 DEF Accepting, Goals
<1>6. conn' \in [Client -> {"new", "waiting"} \cup Outcome]
  BY <1>1, <1>2 DEF LoopInv
<1>7. \A i \in 1..Len(backlog') : backlog'[i] # at'.client
  <2>1. backlog \in Seq(Client) /\ backlog' = backlog /\ at'.client = None
    BY <1>2 DEF LoopInv, Accepting
  <2> QED
    BY <2>1, ElementOfSeq
<1> QED
  BY <1>2, <1>3, <1>4, <1>5, <1>6, <1>7 DEF LoopInv, Accepting

\* A step towards an answer.
LEMMA GoKeepsLoop ==
  ASSUME LoopInv, Serving, NEW step \in Step \ {"accept", "stopped"}, NEW goal \in Goals(step),
         NEW host \in Host, goal \in {"get", "post"} => host = Primary,
         Go(step, goal, host)
  PROVE  LoopInv' /\ at'.step = step
<1>1. at' = [at EXCEPT !.step = step, !.goal = goal, !.host = host] /\ UNCHANGED <<conn, asks, backlog>>
  BY DEF Go, browser
<1>2. goal \in Goal
  BY DEF Goals, Goal, Step
<1>3. at' \in [step : Step, client : Client \cup {None}, goal : Goal, host : Host]
  BY <1>1, <1>2 DEF LoopInv
<1>4. at'.step = step /\ at'.goal = goal /\ at'.host = host /\ at'.client = at.client
  BY <1>1 DEF LoopInv
<1> QED
  BY <1>1, <1>3, <1>4 DEF LoopInv, Serving

\* An error is an answer, or the end of the loop and of all who wait.
LEMMA OnErrorKeepsLoop ==
  ASSUME LoopInv, Serving, NEW pin \in BOOLEAN, OnError(pin)
  PROVE  /\ LoopInv'
         /\ pin => at'.step = "stopped"
         /\ ~pin => at'.step = "accept"
<1>1. CASE ~pin
  BY <1>1, AnswerKeepsLoop DEF OnError, Outcome
<1>2. CASE pin
  <2>1. /\ conn' = [c \in Client |-> IF conn[c] = "waiting" THEN "dropped" ELSE conn[c]]
        /\ at' = Stopped /\ backlog' = <<>> /\ asks' = asks
    BY <1>2 DEF OnError
  <2>2. conn' \in [Client -> {"new", "waiting"} \cup Outcome] /\ \A c \in Client : conn'[c] # "waiting"
    BY <2>1 DEF LoopInv, Outcome
  <2>3. backlog' \in Seq(Client) /\ Len(backlog') = 0
    BY <2>1
  <2>4. at' = [step |-> "stopped", client |-> None, goal |-> "none", host |-> Primary]
    BY <2>1 DEF Stopped, Accepting
  <2> QED
    BY <1>2, <2>1, <2>2, <2>3, <2>4 DEF LoopInv, Step, Goal, Goals
<1> QED
  BY <1>1, <1>2

LEMMA ConnectKeepsLoop ==
  ASSUME LoopInv, NEW c \in Client, Connect(c)
  PROVE  LoopInv' /\ at' = at
<1>1. /\ conn[c] = "new" /\ at' = at
      /\ conn' = [conn EXCEPT ![c] = "waiting"]
      /\ backlog' = Append(backlog, c)
  BY DEF Connect
<1>2. asks' \in [Client -> Kinds]
  BY DEF Connect, LoopInv
<1>3. conn' \in [Client -> {"new", "waiting"} \cup Outcome]
  BY <1>1 DEF LoopInv
<1>4. /\ backlog' \in Seq(Client) /\ Len(backlog') = Len(backlog) + 1
      /\ Len(backlog) \in Nat
      /\ backlog'[Len(backlog) + 1] = c
      /\ \A i \in 1..Len(backlog) : backlog'[i] = backlog[i]
  BY <1>1, AppendProperties DEF LoopInv
<1>5. c # at.client /\ \A i \in 1..Len(backlog) : backlog[i] # c
  BY <1>1 DEF LoopInv
<1>6. \A d \in Client :
        conn'[d] = "waiting" <=> d = at'.client \/ \E i \in 1..Len(backlog') : backlog'[i] = d
  <2> TAKE d \in Client
  <2>1. CASE d = c
    BY <1>1, <1>4, <2>1 DEF LoopInv
  <2>2. CASE d # c
    BY <1>1, <1>4, <2>2 DEF LoopInv
  <2> QED
    BY <2>1, <2>2
<1>7. \A i \in 1..Len(backlog') : backlog'[i] # at'.client
  BY <1>1, <1>4, <1>5 DEF LoopInv
<1>8. \A i, j \in 1..Len(backlog') : backlog'[i] = backlog'[j] => i = j
  BY <1>1, <1>4, <1>5 DEF LoopInv
<1> QED
  BY <1>1, <1>2, <1>3, <1>4, <1>6, <1>7, <1>8 DEF LoopInv

LEMMA AcceptKeepsLoop ==
  ASSUME LoopInv, Accept
  PROVE  LoopInv' /\ at'.step = "read"
<1>1. /\ backlog # <<>> /\ at.client = None /\ at.step = "accept"
      /\ at' = [step |-> "read", client |-> Head(backlog), goal |-> "none", host |-> Primary]
      /\ backlog' = Tail(backlog) /\ UNCHANGED <<conn, asks>>
  BY DEF Accept, Accepting, LoopInv
<1>2. /\ backlog \in Seq(Client) /\ Len(backlog) \in Nat \ {0}
      /\ Head(backlog) \in Client /\ Head(backlog) = backlog[1]
      /\ backlog' \in Seq(Client) /\ Len(backlog') = Len(backlog) - 1
      /\ \A i \in 1..Len(backlog') : backlog'[i] = backlog[i + 1]
  BY <1>1, HeadTailProperties, EmptySeq DEF LoopInv
<1>3. \A c \in Client :
        (\E i \in 1..Len(backlog) : backlog[i] = c) <=>
          (c = Head(backlog) \/ \E i \in 1..Len(backlog') : backlog'[i] = c)
  <2> TAKE c \in Client
  <2>1. ASSUME NEW i \in 1..Len(backlog), backlog[i] = c
        PROVE  c = Head(backlog) \/ \E j \in 1..Len(backlog') : backlog'[j] = c
    <3>1. CASE i = 1
      BY <2>1, <3>1, <1>2
    <3>2. CASE i # 1
      <4>1. i - 1 \in 1..Len(backlog') /\ backlog'[i - 1] = backlog[i]
        BY <3>2, <1>2
      <4> QED
        BY <4>1, <2>1
    <3> QED
      BY <3>1, <3>2
  <2>2. (c = Head(backlog) \/ \E i \in 1..Len(backlog') : backlog'[i] = c) =>
          \E i \in 1..Len(backlog) : backlog[i] = c
    BY <1>2
  <2> QED
    BY <2>1, <2>2
<1>4. \A c \in Client :
        conn'[c] = "waiting" <=> c = at'.client \/ \E i \in 1..Len(backlog') : backlog'[i] = c
  BY <1>1, <1>2, <1>3 DEF LoopInv
<1>5. \A i \in 1..Len(backlog') : backlog'[i] # at'.client
  BY <1>1, <1>2 DEF LoopInv
<1>6. \A i, j \in 1..Len(backlog') : backlog'[i] = backlog'[j] => i = j
  BY <1>2 DEF LoopInv
<1> QED
  BY <1>1, <1>2, <1>4, <1>5, <1>6 DEF LoopInv, Step, Goal, Goals

LEMMA ReadKeepsLoop ==
  ASSUME LoopInv, Read
  PROVE  LoopInv' /\ at'.step # "stopped"
<1> DEFINE k == asks[at.client]
<1>1. Serving /\ at.client \in Client
  BY DEF Read, Serving, LoopInv
<1>2. k \in Kinds
  BY <1>1 DEF LoopInv
<1>3. CASE k.page \in {"malformed", "eof", "local"} /\ \E what \in Outcome : Answer(what)
  BY <1>1, <1>3, AnswerKeepsLoop
<1>4. CASE k.page \in {"login", "challenge"} /\ Go("handshake", "get", Primary)
  BY <1>1, <1>4, GoKeepsLoop DEF Step, Goals
<1>5. CASE k.page \in {"sign", "register"} /\ Go("sign", k.page, Primary)
  BY <1>1, <1>5, GoKeepsLoop DEF Step, Goals
<1>6. CASE k.page = "proxy" /\ k.host = Primary /\ Go("handshake", "proxy", Primary)
  BY <1>1, <1>6, GoKeepsLoop DEF Step, Goals
<1>7. CASE k.page = "proxy" /\ Go("exchange", "proxy", k.host)
  <2>1. k.host \in Host
    BY <1>2 DEF Kinds
  <2> QED
    BY <1>1, <1>7, <2>1, GoKeepsLoop DEF Step, Goals
<1> QED
  BY <1>3, <1>4, <1>5, <1>6, <1>7 DEF Read, Outcome

LEMMA HandshakeKeepsLoop ==
  ASSUME LoopInv, Handshake
  PROVE  LoopInv' /\ (at'.step = "stopped" => Refused)
<1>1. Serving
  BY DEF Handshake, Serving
<1>2. ASSUME SignedOk, Go("exchange", at.goal, at.host)
      PROVE  LoopInv' /\ at'.step # "stopped"
  <2>1. at.goal \in Goals("exchange") /\ at.host \in Host /\ (at.goal \in {"get", "post"} => at.host = Primary)
    BY DEF Handshake, LoopInv, Goals
  <2> QED
    BY <1>1, <1>2, <2>1, GoKeepsLoop DEF Step
<1> QED
  BY <1>1, <1>2, OnErrorKeepsLoop DEF Handshake

LEMMA SignKeepsLoop ==
  ASSUME LoopInv, Sign
  PROVE  LoopInv' /\ (at'.step = "stopped" => Refused)
<1>1. Serving
  BY DEF Sign, Serving
<1>2. ASSUME SignedOk, IF at.goal = "sign" THEN Answer("answered") ELSE Go("handshake", at.goal, Primary)
      PROVE  LoopInv' /\ at'.step # "stopped"
  <2>1. at.goal # "sign" => at.goal \in Goals("handshake")
    BY DEF Sign, LoopInv, Goals
  <2> QED
    BY <1>1, <1>2, <2>1, GoKeepsLoop, AnswerKeepsLoop DEF Step, Outcome
<1> QED
  BY <1>1, <1>2, OnErrorKeepsLoop DEF Sign

\* What the bridge makes of a response.
LEMMA ResponseKeepsLoop ==
  ASSUME LoopInv, Serving, NEW r, NEW cut,
         GotChallenge(r, cut) \/ LoggedIn(r, cut) \/ Relayed(cut)
  PROVE  LoopInv'
<1>1. CASE GotChallenge(r, cut)
  <2>1. "post" \in Goals("sign")
    BY DEF Goals
  <2> QED
    BY <1>1, <2>1, GoKeepsLoop, OnErrorKeepsLoop DEF GotChallenge, UpstreamError, Step
<1>2. CASE LoggedIn(r, cut)
  BY <1>2, AnswerKeepsLoop, OnErrorKeepsLoop DEF LoggedIn, UpstreamError, Outcome
<1>3. CASE Relayed(cut)
  BY <1>3, AnswerKeepsLoop DEF Relayed, Deliver, Outcome
<1> QED
  BY <1>1, <1>2, <1>3

LEMMA RespondKeepsLoop ==
  ASSUME LoopInv, Respond
  PROVE  LoopInv'
<1>1. Serving
  BY DEF Respond, Serving
<1> QED
  BY <1>1, ResponseKeepsLoop DEF Respond

LEMMA UnreachedKeepsLoop ==
  ASSUME LoopInv, Unreached
  PROVE  LoopInv' /\ at'.step # "stopped"
BY OnErrorKeepsLoop DEF Unreached, Serving

LEMMA HangUpKeepsLoop ==
  ASSUME LoopInv, HangUp
  PROVE  LoopInv' /\ at'.step # "stopped"
BY AnswerKeepsLoop DEF HangUp, Serving, Outcome

LEMMA NextKeepsLoop ==
  ASSUME LoopInv, [Next]_vars
  PROVE  LoopInv'
<1>1. CASE UNCHANGED vars
  BY <1>1 DEF LoopInv, vars, browser
<1> QED
  BY <1>1, ConnectKeepsLoop, AcceptKeepsLoop, ReadKeepsLoop, HandshakeKeepsLoop, SignKeepsLoop,
     RespondKeepsLoop, UnreachedKeepsLoop, HangUpKeepsLoop DEF Next, Loop

-----------------------------------------------------------------------------
(* Sessions                                                                *)

\* A new session is one that the host has not issued, and is no absence of one.
LEMMA FreshIsNew ==
  ASSUME SessionInv, NEW h \in Host
  PROVE  Fresh(h) # None
<1> DEFINE own == {s \in issued : s[1] = h}
<1>1. IsFiniteSet(own)
  BY FS_Subset DEF SessionInv
<1>2. Cardinality(own) \in Nat
  BY <1>1, FS_CardinalityType
<1> HIDE DEF own
<1>3. Fresh(h) = <<h, Cardinality(own) + 1>>
  BY DEF Fresh, own
<1>4. <<h, Cardinality(own) + 1>> \in Host \X Nat
  BY <1>2
<1> QED
  BY <1>3, <1>4

\* Whatever a host answers, it keeps the sessions there are, and sets only one
\* that it has issued; a login it grants sets one that is authenticated.
LEMMA HandleFacts ==
  ASSUME LoopInv, SessionInv, at.step = "exchange", NEW r \in Response, Handle(r)
  PROVE  /\ issued \subseteq issued' /\ IsFiniteSet(issued')
         /\ auth \subseteq auth' /\ auth' \subseteq issued'
         /\ r.set \in issued' \cup {None}
         /\ at.goal = "post" /\ r.ok => r.set \in auth' /\ r.set # None
<1>1. /\ Primary \in Host /\ at.host \in Host
      /\ Fresh(Primary) # None
      /\ Sees(Primary) \in issued \cup {None}
  BY FreshIsNew DEF LoopInv, Sees
<1>2. \A s : IsFiniteSet(issued \cup {s})
  BY FS_AddElement DEF SessionInv
<1>3. CASE at.goal = "get" /\ GetChallenge(r)
  BY <1>1, <1>2, <1>3 DEF GetChallenge, SessionInv, server
<1>4. CASE at.goal = "post" /\ PostChallenge(r)
  BY <1>1, <1>2, <1>4 DEF PostChallenge, SessionInv
<1>5. CASE at.goal \in {"proxy", "register"} /\ Serve(at.host, r)
  BY <1>1, <1>2, <1>5 DEF Serve, SessionInv
<1>6. at.goal \in {"get", "post", "proxy", "register"}
  BY DEF LoopInv, Goals
<1>7. CASE at.goal = "get"
  BY <1>3, <1>7 DEF Handle
<1>8. CASE at.goal = "post"
  BY <1>4, <1>8 DEF Handle
<1>9. CASE at.goal \in {"proxy", "register"}
  BY <1>5, <1>9 DEF Handle
<1> QED
  BY <1>6, <1>7, <1>8, <1>9

\* The jar takes what a response sets under the name its host uses.
LEMMA AbsorbedFacts ==
  ASSUME LoopInv, SessionInv, NEW r, NEW S, issued \subseteq S, r.set \in S \cup {None}
  PROVE  /\ Absorbed(at.host, r) \in [{Cookie[h] : h \in Host} -> S \cup {None}]
         /\ r.set # None => Absorbed(at.host, r)[Cookie[at.host]] = r.set
<1>1. Cookie[at.host] \in {Cookie[h] : h \in Host}
  BY DEF LoopInv
<1>2. jar \in [{Cookie[h] : h \in Host} -> S \cup {None}]
  BY DEF SessionInv
<1> QED
  BY <1>1, <1>2 DEF Absorbed

LEMMA RespondKeepsSession ==
  ASSUME LoopInv, SessionInv, Respond
  PROVE  SessionInv'
<1>1. PICK r \in Response, cut \in {"no", "in header", "in body"} :
         /\ Handle(r)
         /\ jar' = IF cut = "in header" THEN jar ELSE Absorbed(at.host, r)
         /\ GotChallenge(r, cut) \/ LoggedIn(r, cut) \/ Relayed(cut)
  BY DEF Respond
<1>2. at.step = "exchange"
  BY DEF Respond
<1>3. /\ issued \subseteq issued' /\ IsFiniteSet(issued')
      /\ auth \subseteq auth' /\ auth' \subseteq issued'
      /\ r.set \in issued' \cup {None}
      /\ at.goal = "post" /\ r.ok => r.set \in auth' /\ r.set # None
  BY <1>1, <1>2, HandleFacts
<1>4. /\ Absorbed(at.host, r) \in [{Cookie[h] : h \in Host} -> issued' \cup {None}]
      /\ r.set # None => Absorbed(at.host, r)[Cookie[at.host]] = r.set
  BY <1>3, AbsorbedFacts
<1>5. jar' \in [{Cookie[h] : h \in Host} -> issued' \cup {None}]
  BY <1>1, <1>3, <1>4 DEF SessionInv
<1>6. claims' \subseteq auth'
  <2>1. CASE UNCHANGED claims
    BY <1>3, <2>1 DEF SessionInv
  <2>2. CASE LoggedIn(r, cut) /\ r.ok /\ cut # "in header"
    <3>1. at.goal = "post" /\ at.host = Primary
      BY <2>2 DEF LoggedIn, LoopInv
    <3>2. jar'[Cookie[Primary]] \in auth'
      BY <1>1, <1>3, <1>4, <2>2, <3>1
    <3>3. claims' = claims \cup {jar'[Cookie[Primary]]}
      BY <2>2 DEF LoggedIn
    <3> QED
      BY <1>3, <3>2, <3>3 DEF SessionInv
  <2> QED
    BY <1>1, <2>1, <2>2 DEF GotChallenge, LoggedIn, Relayed
<1> QED
  BY <1>3, <1>5, <1>6 DEF SessionInv

LEMMA NextKeepsSession ==
  ASSUME LoopInv, SessionInv, [Next]_vars
  PROVE  SessionInv'
<1>1. CASE UNCHANGED <<jar, issued, auth, claims>>
  BY <1>1 DEF SessionInv
<1>2. CASE Respond
  BY <1>2, RespondKeepsSession
<1> QED
  BY <1>1, <1>2 DEF Next, Loop, vars, server, Connect, HangUp, Accept, Read, Handshake, Sign, Unreached

-----------------------------------------------------------------------------
(* The PIN                                                                 *)

\* A refusal that gets through ends the loop, any other is a fault.
LEMMA NextKeepsPin ==
  ASSUME LoopInv, PinInv, [Next]_vars
  PROVE  PinInv'
<1> USE DEF PinInv, Fault
<1>1. MaxFaults \in Nat
  BY BoundAssumption
<1>2. ASSUME UNCHANGED <<refused, faults>>,
             at' = at \/ (at.step # "stopped" /\ at'.step # "stopped")
      PROVE  PinInv'
  BY <1>2
<1>3. ASSUME Handshake \/ Sign
      PROVE  PinInv'
  <2>1. at.step # "stopped"
    BY <1>3 DEF Handshake, Sign
  <2>2. CASE SignedOk
    <3>1. ~Refused /\ UNCHANGED <<refused, faults>>
      BY <2>2 DEF SignedOk, Refused
    <3>2. at'.step # "stopped"
      BY <1>3, <3>1, HandshakeKeepsLoop, SignKeepsLoop
    <3> QED
      BY <1>2, <2>1, <3>1, <3>2
  <2>3. CASE Refused /\ OnError(TRUE)
    <3>1. at'.step = "stopped" /\ refused' = refused + 1 /\ UNCHANGED faults
      BY <2>3 DEF Refused, OnError, Stopped, Accepting
    <3>2. Client # {}
      BY <2>1, <1>3 DEF Handshake, Sign, LoopInv
    <3> QED
      BY <2>1, <3>1, <3>2
  <2>4. CASE Broken
    <3>1. Client # {}
      BY <2>1, <1>3 DEF Handshake, Sign, LoopInv
    <3> QED
      BY <1>1, <2>1, <2>4, <3>1 DEF Broken
  <2> QED
    BY <1>3, <2>2, <2>3, <2>4 DEF Handshake, Sign
<1>4. CASE Respond \/ Unreached
  <2>1. at.step = "exchange" /\ UNCHANGED refused
    BY <1>4 DEF Respond, Unreached, token
  <2>2. UNCHANGED faults \/ Fault
    BY <1>4 DEF Respond, Unreached
  <2>3. Client # {}
    BY <2>1 DEF LoopInv
  <2> QED
    BY <1>1, <2>1, <2>2, <2>3
<1>5. CASE UNCHANGED vars
  BY <1>2, <1>5 DEF vars, token
<1>6. CASE Accept \/ Read \/ HangUp \/ \E c \in Client : Connect(c)
  <2>1. UNCHANGED <<refused, faults>>
    BY <1>6 DEF Accept, Read, HangUp, Connect, token
  <2>2. CASE Accept \/ Read \/ HangUp
    BY <1>2, <2>1, <2>2, AcceptKeepsLoop, ReadKeepsLoop, HangUpKeepsLoop DEF Accept, Read, HangUp
  <2>3. CASE \E c \in Client : Connect(c)
    BY <1>2, <2>1, <2>3, ConnectKeepsLoop
  <2> QED
    BY <1>6, <2>2, <2>3
<1> QED
  BY <1>3, <1>4, <1>5, <1>6 DEF Next, Loop

-----------------------------------------------------------------------------
(* The theorems                                                            *)

LEMMA InitIInv == Init => IInv
<1> SUFFICES ASSUME Init PROVE IInv
  OBVIOUS
<1>1. LoopInv
  BY DEF Init, LoopInv, Accepting, Kinds, Step, Goal, Goals, Outcome
<1>2. SessionInv
  BY FS_EmptySet DEF Init, SessionInv
<1>3. PinInv
  BY BoundAssumption DEF Init, PinInv, Accepting
<1> QED
  BY <1>1, <1>2, <1>3 DEF IInv

LEMMA Invariance == Spec => []IInv
<1>1. IInv /\ [Next]_vars => IInv'
  BY NextKeepsLoop, NextKeepsSession, NextKeepsPin DEF IInv
<1> QED
  BY <1>1, InitIInv, PTL DEF Spec

\* Every variable has its type, the loop serves exactly the client that is
\* neither answered nor in the backlog, and the card refuses no more PINs than
\* there are clients and faults.
THEOREM TypeCorrect == Spec => []TypeOK
<1>1. IInv => TypeOK
  <2> SUFFICES ASSUME IInv PROVE TypeOK
    OBVIOUS
  <2>1. DOMAIN backlog = 1..Len(backlog)
    BY DEF IInv, LoopInv
  <2>2. \A h \in Host : jar[Cookie[h]] \in issued \cup {None}
    BY DEF IInv, SessionInv
  <2>3. refused <= Cardinality(Client) + faults
    <3>1. IsFiniteSet(Client) /\ Cardinality(Client) \in Nat
      BY BoundAssumption, FS_CardinalityType
    <3>2. CASE at.step # "stopped"
      BY <3>1, <3>2, BoundAssumption DEF IInv, PinInv
    <3>3. CASE at.step = "stopped"
      <4>1. Cardinality(Client) # 0
        BY <3>1, <3>3, FS_EmptySet DEF IInv, PinInv
      <4> QED
        BY <3>1, <4>1, BoundAssumption DEF IInv, PinInv
    <3> QED
      BY <3>2, <3>3
  <2> QED
    BY <2>1, <2>2, <2>3 DEF IInv, LoopInv, SessionInv, PinInv, TypeOK, Step, Outcome
<1> QED
  BY <1>1, Invariance, PTL

\* Unless a fault hides it, a refused PIN is the last thing that the bridge
\* does with the token: whichever handler it was, the loop has stopped.
THEOREM RefusedPinStopsAlways == Spec => []RefusedPinStops
<1>1. IInv => RefusedPinStops
  BY BoundAssumption DEF IInv, LoopInv, PinInv, RefusedPinStops
<1> QED
  BY <1>1, Invariance, PTL

\* A browser is told that it is logged in only of a session that the host has
\* authenticated, whatever other clients and hosts put into the jar.
THEOREM LoggedInIsAuthenticatedAlways == Spec => []LoggedInIsAuthenticated
<1>1. IInv => LoggedInIsAuthenticated
  BY DEF IInv, SessionInv, LoggedInIsAuthenticated
<1> QED
  BY <1>1, Invariance, PTL
===============================================================================
