--------------------------- MODULE EsiaPluginProofs ---------------------------
(***************************************************************************)
(* Theorems about EsiaPlugin: its type invariant, that the token signs     *)
(* once for a command by each way, and that the page takes the reply to    *)
(* its own command.  They hold for any commands the page asks and any      *)
(* number of failures, injections and reloads.                             *)
(*                                                                         *)
(* The argument: what has been asked for a command is in one place, a      *)
(* message, a fetch or a request, and is handed on from there.             *)
(***************************************************************************)
EXTENDS EsiaPlugin, FiniteSetTheorems, SequenceTheorems, TLAPS

Call    == [load : Nat, closure : Nat, command : Command \cup {None}]
Request == [id : Nat, call : Call]
Message == [type : {"TO_IFC_EXT"}, command : Command]
           \cup [type : {"FROM_IFC_EXT"}, command : Command, code : Nat,
                 of : Command \cup {None, Certificate, Failed}]

\* Call x is of page p, and request r.
CallOf(p, x)    == x \in Call /\ x.load = p.load /\ x.closure \in 1..Len(p.forced)
RequestOf(p, r) == CallOf(p, r.call) /\ r.id < p.nextId

Fields == {"load", "listeners", "forced", "certCache", "nextId", "callbacks", "requests", "fetching"}

PageInv(p) ==
  /\ DOMAIN p = Fields
  /\ p.load \in Nat \ {0} /\ p.nextId \in Nat
  /\ p.forced \in Seq(BOOLEAN) /\ p.certCache \in Seq({Certificate, None})
  /\ Len(p.certCache) = Len(p.forced)
  /\ p.listeners = IF p.forced = <<>> THEN <<>> ELSE <<1>>
  /\ p.requests \in Seq(Request)
  /\ \A x \in p.fetching : CallOf(p, x)
  /\ \A r \in ToSet(p.requests) : RequestOf(p, r)
  /\ \A i \in DOMAIN p.callbacks : CallOf(p, p.callbacks[i])

\* What a pump holds is of this page or an earlier one.
PumpInv(p, P) ==
  /\ P \subseteq Request
  /\ \A r \in P : r.call.load <= p.load /\ (r.call.load = p.load => RequestOf(p, r))

Requests(p, P) == ToSet(p.requests) \cup P

\* A call and a command are in one place, and the token has not signed for what is still to come.
OnceInv(p, P, u) ==
  /\ \A x, y \in p.fetching : x.command = y.command => x.command = None \/ x = y
  /\ \A x \in p.fetching, r \in Requests(p, P) :
       r.call # x /\ (r.call.command = x.command => x.command = None)
  /\ \A r, s \in Requests(p, P) : r.call.command = s.call.command => r.call.command = None \/ r = s
  /\ ToSet(p.requests) \cap P = {}
  /\ \A x \in p.fetching : x.command # None => <<x.command, "fetch">> \notin DOMAIN u
                                              /\ <<x.command, "queue">> \notin DOMAIN u
  /\ \A r \in Requests(p, P) : r.call.command # None => <<r.call.command, "queue">> \notin DOMAIN u
  /\ \A w \in DOMAIN u : u[w] = 1

\* Nothing has been done yet for command c.
Fresh(p, P, u, c) ==
  /\ \A x \in p.fetching : x.command # c
  /\ \A r \in Requests(p, P) : r.call.command # c
  /\ <<c, "fetch">> \notin DOMAIN u /\ <<c, "queue">> \notin DOMAIN u

Asked == DOMAIN taken \cup ({waiting} \ {None})

AskedInv ==
  /\ \E n \in Nat : /\ DOMAIN taken = 1..n
                    /\ waiting \in {None, n + 1}
  /\ DOMAIN taken \subseteq Command /\ waiting \in Command \cup {None}
  /\ \A c \in Command \ Asked : Fresh(page, pump, uses, c)

ToScript(i) == mail[i].type = "TO_IFC_EXT"

MailInv ==
  /\ mail \in Seq(Message)
  /\ mail # <<>> => page.forced # <<>>
  /\ \A i \in 1..Len(mail) : ToScript(i) => mail[i].command \in Asked /\ Fresh(page, pump, uses, mail[i].command)
  /\ \A i, j \in 1..Len(mail) : ToScript(i) /\ ToScript(j) /\ mail[i].command = mail[j].command => i = j

BoundsInv ==
  /\ troubles \in 0..MaxTroubles
  /\ page.load <= troubles + 1 /\ Len(page.forced) <= troubles + 1

\* Reply m is one to command c.
Own(m, c) ==
  /\ m.command = c
  /\ m.of \in {None, Failed, IF Function[c] = "sign" THEN c ELSE Certificate}
  /\ m.of = Failed => c \in failed

\* A call finds its callback; those for a command are for w, and only if there is no message (e).
OwnPlaces(p, P, w, e) ==
  /\ \A x \in p.fetching : x.command # None => x.command = w /\ e
  /\ \A r \in Requests(p, P) : /\ r.call.command # None => r.call.command = w /\ e
                               /\ r.call.load = p.load
                               /\ r.id \in DOMAIN p.callbacks /\ p.callbacks[r.id] = r.call
  /\ \A r, s \in Requests(p, P) : r.id = s.id => r = s

\* There is one message, for the command waited for.
OwnMail ==
  /\ Len(mail) <= 1
  /\ \A i \in 1..Len(mail) : /\ waiting # None /\ mail[i].command = waiting
                             /\ ToScript(i) \/ Own(mail[i], waiting)

OwnTaken == \A c \in DOMAIN taken : taken[c] # None => Own(taken[c], c)

OwnInv ==
  /\ lost \in BOOLEAN
  /\ ~lost => OwnMail /\ OwnPlaces(page, pump, waiting, mail = <<>>) /\ OwnTaken

IInv == /\ PageInv(page) /\ PumpInv(page, pump) /\ OnceInv(page, pump, uses)
        /\ AskedInv /\ MailInv /\ BoundsInv /\ OwnInv

-----------------------------------------------------------------------------
(* What the script does to the page *)

LEMMA ToSetAppend ==
  ASSUME NEW S, NEW q \in Seq(S), NEW e \in S
  PROVE  ToSet(Append(q, e)) = ToSet(q) \cup {e}
<1>1. /\ Append(q, e) \in Seq(S) /\ Len(q) \in Nat /\ Len(Append(q, e)) = Len(q) + 1
      /\ Append(q, e)[Len(q) + 1] = e
      /\ \A i \in 1..Len(q) : Append(q, e)[i] = q[i]
  BY AppendProperties, LenProperties
<1>2. DOMAIN q = 1..Len(q) /\ DOMAIN Append(q, e) = 1..Len(q) + 1
  BY <1>1, LenProperties
<1>3. 1..Len(q) + 1 = 1..Len(q) \cup {Len(q) + 1}
  BY <1>1
<1> QED
  BY <1>1, <1>2, <1>3 DEF ToSet

LEMMA ToSetEmpty == ToSet(<<>>) = {}
BY DEF ToSet

LEMMA CommandFacts == Command \subseteq Nat /\ None \notin Command /\ None # Failed /\ None # Certificate /\ Failed # Certificate
<1>1. Command = 1..Len(Function) /\ Len(Function) \in Nat
  BY FunctionAssumption, LenProperties DEF Command
<1> QED
  BY <1>1, ValueAssumption

\* Page q has what page p has that does not change while the window is the same.
Same(p, q) ==
  /\ q.load = p.load /\ q.forced = p.forced /\ q.certCache = p.certCache /\ q.listeners = p.listeners

\* q is p with request r for call x.
Queued(p, x, r, q) ==
  /\ Same(p, q) /\ q.fetching = p.fetching
  /\ r.id = p.nextId /\ r.call = x /\ q.nextId = p.nextId + 1
  /\ q.callbacks = Put(p.callbacks, p.nextId, x)
  /\ ToSet(q.requests) = ToSet(p.requests) \cup {r}

\* q is p with a fetch for call x.
Fetching(p, x, q) == q = [p EXCEPT !.fetching = @ \cup {x}]

LEMMA QueuePage ==
  ASSUME NEW p, PageInv(p), NEW x, CallOf(p, x), NEW q, q = queueJson(p, x)
  PROVE  PageInv(q) /\ \E r : Queued(p, x, r, q)
<1> DEFINE r == [id |-> p.nextId, call |-> x]
<1>1. r \in Request /\ r.id = p.nextId /\ r.call = x
  BY DEF PageInv, CallOf, Request
<1> HIDE DEF r
<1>2. /\ DOMAIN q = Fields /\ q.load = p.load /\ q.forced = p.forced /\ q.certCache = p.certCache
      /\ q.listeners = p.listeners /\ q.fetching = p.fetching
      /\ q.nextId = p.nextId + 1 /\ q.callbacks = Put(p.callbacks, p.nextId, x)
      /\ q.requests = Append(p.requests, r)
  BY DEF queueJson, PageInv, Fields, r
<1>3. q.requests \in Seq(Request) /\ ToSet(q.requests) = ToSet(p.requests) \cup {r}
  BY <1>1, <1>2, AppendProperties, ToSetAppend DEF PageInv
<1>4. \A y : CallOf(p, y) => CallOf(q, y)
  BY <1>2 DEF CallOf
<1>5. \A s \in ToSet(q.requests) : RequestOf(q, s)
  <2>1. RequestOf(q, r)
    BY <1>1, <1>2, <1>4 DEF RequestOf, PageInv
  <2>2. ASSUME NEW s \in ToSet(p.requests) PROVE RequestOf(q, s)
    <3>1. p.requests \in Seq(Request) /\ RequestOf(p, s) /\ p.nextId \in Nat
      BY DEF PageInv
    <3>2. s \in Request
      BY <3>1, LenProperties, ElementOfSeq DEF ToSet
    <3> QED
      BY <1>2, <1>4, <3>1, <3>2 DEF RequestOf, Request
  <2> QED
    BY <1>3, <2>1, <2>2
<1>6. \A i \in DOMAIN q.callbacks : CallOf(q, q.callbacks[i])
  BY <1>2, <1>4 DEF Put, PageInv
<1>7. \A y \in q.fetching : CallOf(q, y)
  BY <1>2, <1>4 DEF PageInv
<1>8. PageInv(q)
  BY <1>2, <1>3, <1>5, <1>6, <1>7 DEF PageInv
<1> QED
  BY <1>1, <1>2, <1>3, <1>8 DEF Queued, Same

LEMMA FetchPage ==
  ASSUME NEW p, PageInv(p), NEW x, CallOf(p, x), NEW q, Fetching(p, x, q)
  PROVE  PageInv(q)
<1>1. /\ DOMAIN q = Fields /\ q.load = p.load /\ q.forced = p.forced /\ q.certCache = p.certCache
      /\ q.listeners = p.listeners /\ q.fetching = p.fetching \cup {x}
      /\ q.nextId = p.nextId /\ q.callbacks = p.callbacks /\ q.requests = p.requests
  BY DEF Fetching, PageInv, Fields
<1>2. \A y : CallOf(p, y) <=> CallOf(q, y)
  BY <1>1 DEF CallOf
<1> QED
  BY <1>1, <1>2 DEF PageInv, RequestOf

LEMMA PostPage ==
  ASSUME NEW p, PageInv(p), NEW x, CallOf(p, x), NEW q, q = postJson(p, x)
  PROVE  PageInv(q) /\ Same(p, q) /\ (Fetching(p, x, q) \/ \E r : Queued(p, x, r, q))
<1>1. CASE q = queueJson(p, x)
  <2>1. PICK r : PageInv(q) /\ Queued(p, x, r, q)
    BY <1>1, QueuePage
  <2> QED
    BY <2>1 DEF Queued
<1>2. CASE Fetching(p, x, q)
  BY <1>2, FetchPage DEF Fetching, Same, PageInv, Fields
<1> QED
  BY <1>1, <1>2 DEF postJson, Fetching

\* A page from which call x has been taken, or the callback for it.
LEMMA ShrunkPage ==
  ASSUME NEW p, PageInv(p), NEW q, DOMAIN q = Fields, Same(p, q), q.nextId = p.nextId, q.requests = p.requests,
         q.fetching \subseteq p.fetching, DOMAIN q.callbacks \subseteq DOMAIN p.callbacks,
         \A i \in DOMAIN q.callbacks : q.callbacks[i] = p.callbacks[i]
  PROVE  PageInv(q)
<1>1. \A y : CallOf(p, y) <=> CallOf(q, y)
  BY DEF CallOf, Same
<1> QED
  BY <1>1 DEF PageInv, RequestOf, Same

\* An answer settles a call, and what is cached is the certificate.
LEMMA LoadPage ==
  ASSUME NEW p, PageInv(p), NEW x, CallOf(p, x), NEW answer, answer = Failed \/ Signs(x) \/ answer = Certificate,
         NEW q, q = loadCertEntry(p, x, answer)
  PROVE  /\ PageInv(q)
         /\ q.load = p.load /\ q.forced = p.forced /\ q.listeners = p.listeners
         /\ q.fetching = p.fetching /\ q.nextId = p.nextId
         /\ q.callbacks = p.callbacks /\ q.requests = p.requests
<1>1. CASE q = p
  BY <1>1
<1>2. CASE answer = Certificate /\ q = [p EXCEPT !.certCache[x.closure] = Certificate]
  <2>1. /\ DOMAIN q = Fields /\ q.load = p.load /\ q.forced = p.forced
        /\ q.certCache = [p.certCache EXCEPT ![x.closure] = Certificate]
        /\ q.listeners = p.listeners /\ q.fetching = p.fetching
        /\ q.nextId = p.nextId /\ q.callbacks = p.callbacks /\ q.requests = p.requests
    BY <1>2 DEF PageInv, Fields
  <2>2. x.closure \in 1..Len(p.certCache) /\ p.certCache \in Seq({Certificate, None})
    BY DEF CallOf, PageInv
  <2>3. q.certCache \in Seq({Certificate, None}) /\ Len(q.certCache) = Len(p.certCache)
    BY <2>1, <2>2, ExceptSeq
  <2>4. \A y : CallOf(p, y) <=> CallOf(q, y)
    BY <2>1 DEF CallOf
  <2> QED
    BY <2>1, <2>3, <2>4 DEF PageInv, RequestOf
<1> QED
  BY <1>1, <1>2 DEF loadCertEntry

-----------------------------------------------------------------------------
(* Where a call is *)

\* Call x is nowhere, nor is another for its command.
Lone(p, P, x) ==
  /\ x \notin p.fetching
  /\ \A r \in Requests(p, P) : r.call # x
  /\ x.command # None => /\ \A y \in p.fetching : y.command # x.command
                         /\ \A r \in Requests(p, P) : r.call.command # x.command

LEMMA QueuedOnce ==
  ASSUME NEW p, NEW P, NEW u, PageInv(p), PumpInv(p, P), OnceInv(p, P, u), NEW x, CallOf(p, x), Lone(p, P, x),
         x.command # None => <<x.command, "queue">> \notin DOMAIN u,
         NEW r, NEW q, Queued(p, x, r, q)
  PROVE  PumpInv(q, P) /\ OnceInv(q, P, u)
<1>1. r \notin P
  BY DEF Queued, PumpInv, CallOf, RequestOf, PageInv, Request
<1>2. Requests(q, P) = Requests(p, P) \cup {r}
  BY DEF Queued, Requests
<1>3. PumpInv(q, P)
  <2>1. ASSUME NEW s \in P PROVE s.call.load <= q.load /\ (s.call.load = q.load => RequestOf(q, s))
    <3>1. s \in Request /\ p.nextId \in Nat
      BY DEF PumpInv, PageInv
    <3> QED
      BY <3>1 DEF PumpInv, Queued, Same, RequestOf, CallOf, Request
  <2> QED
    BY <2>1 DEF PumpInv
<1>4. ToSet(q.requests) \cap P = {}
  BY <1>1 DEF Queued, OnceInv
<1>5. r.call = x /\ q.fetching = p.fetching
  BY DEF Queued
<1>6. OnceInv(q, P, u)
  BY <1>2, <1>4, <1>5 DEF OnceInv, Lone
<1> QED
  BY <1>3, <1>6

LEMMA FetchingOnce ==
  ASSUME NEW p, NEW P, NEW u, PageInv(p), PumpInv(p, P), OnceInv(p, P, u), NEW x, Lone(p, P, x),
         x.command # None => <<x.command, "fetch">> \notin DOMAIN u /\ <<x.command, "queue">> \notin DOMAIN u,
         NEW q, Fetching(p, x, q)
  PROVE  PumpInv(q, P) /\ OnceInv(q, P, u)
<1>1. /\ q.fetching = p.fetching \cup {x} /\ q.requests = p.requests /\ q.load = p.load /\ q.forced = p.forced
      /\ q.nextId = p.nextId
  BY DEF Fetching, PageInv, Fields
<1>2. PumpInv(q, P)
  BY <1>1 DEF PumpInv, RequestOf, CallOf
<1>3. Requests(q, P) = Requests(p, P)
  BY <1>1 DEF Requests
<1> QED
  BY <1>1, <1>2, <1>3 DEF OnceInv, Lone

\* What is not done for a command stays undone when a call for another is posted.
LEMMA PostFresh ==
  ASSUME NEW p, NEW P, NEW u, PageInv(p), NEW x, NEW q, Fetching(p, x, q) \/ \E r : Queued(p, x, r, q),
         NEW c, Fresh(p, P, u, c), x.command # c
  PROVE  Fresh(q, P, u, c)
<1>1. CASE Fetching(p, x, q)
  <2>1. q.fetching = p.fetching \cup {x} /\ q.requests = p.requests
    BY <1>1 DEF Fetching, PageInv, Fields
  <2> QED
    BY <2>1 DEF Fresh, Requests
<1>2. ASSUME NEW r, Queued(p, x, r, q) PROVE Fresh(q, P, u, c)
  BY <1>2 DEF Fresh, Requests, Queued
<1> QED
  BY <1>1, <1>2

\* The token signs for call x, by a way by which it has not signed for it.
LEMMA UseOnce ==
  ASSUME NEW x, NEW way, Use(x, way), \A w \in DOMAIN uses : uses[w] = 1,
         x.command # None => <<x.command, way>> \notin DOMAIN uses
  PROVE  /\ \A w \in DOMAIN uses' : uses'[w] = 1
         /\ DOMAIN uses \subseteq DOMAIN uses'
         /\ \A w \in DOMAIN uses' : w \in DOMAIN uses \/ (x.command # None /\ w = <<x.command, way>>)
<1>1. CASE Signs(x)
  BY <1>1 DEF Use, Signs, Put
<1>2. CASE ~Signs(x)
  BY <1>2 DEF Use
<1> QED
  BY <1>1, <1>2

\* Where calls are does not depend on what is cached.
LEMMA PlacesSame ==
  ASSUME NEW p, NEW q, q.load = p.load, q.forced = p.forced, q.fetching = p.fetching, q.nextId = p.nextId,
         q.callbacks = p.callbacks, q.requests = p.requests,
         NEW P, NEW u
  PROVE  /\ PumpInv(p, P) => PumpInv(q, P)
         /\ OnceInv(p, P, u) => OnceInv(q, P, u)
         /\ \A c : Fresh(p, P, u, c) => Fresh(q, P, u, c)
         /\ \A w, e : OwnPlaces(p, P, w, e) => OwnPlaces(q, P, w, e)
<1>1. Requests(q, P) = Requests(p, P)
  BY DEF Requests
<1> QED
  BY <1>1 DEF PumpInv, RequestOf, CallOf, OnceInv, Fresh, OwnPlaces

LEMMA PostOwn ==
  ASSUME NEW p, NEW P, PageInv(p), PumpInv(p, P), NEW w, NEW e, OwnPlaces(p, P, w, e), NEW x, CallOf(p, x),
         x.command # None => x.command = w /\ e,
         NEW q, Fetching(p, x, q) \/ \E r : Queued(p, x, r, q)
  PROVE  OwnPlaces(q, P, w, e)
<1>1. CASE Fetching(p, x, q)
  <2>1. /\ q.fetching = p.fetching \cup {x} /\ q.requests = p.requests /\ q.load = p.load
        /\ q.callbacks = p.callbacks
    BY <1>1 DEF Fetching, PageInv, Fields
  <2>2. Requests(q, P) = Requests(p, P)
    BY <2>1 DEF Requests
  <2> QED
    BY <2>1, <2>2 DEF OwnPlaces
<1>2. ASSUME NEW r, Queued(p, x, r, q) PROVE OwnPlaces(q, P, w, e)
  <2>1. /\ q.fetching = p.fetching /\ q.load = p.load
        /\ r.id = p.nextId /\ r.call = x
        /\ q.callbacks = Put(p.callbacks, p.nextId, x)
    BY <1>2 DEF Queued, Same
  <2>2. Requests(q, P) = Requests(p, P) \cup {r}
    BY <1>2 DEF Requests, Queued
  <2>3. ASSUME NEW s \in Requests(p, P) PROVE s.id # r.id
    <3>1. s \in Request /\ s.id < p.nextId
      <4>1. CASE s \in P
        BY <4>1 DEF PumpInv, OwnPlaces, RequestOf
      <4>2. CASE s \in ToSet(p.requests)
        <5>1. p.requests \in Seq(Request) /\ RequestOf(p, s)
          BY <4>2 DEF PageInv
        <5> QED
          BY <4>2, <5>1, LenProperties, ElementOfSeq DEF ToSet, RequestOf
      <4> QED
        BY <4>1, <4>2 DEF Requests
    <3> QED
      BY <2>1, <3>1 DEF Request, PageInv
  <2>4. r.id \in DOMAIN q.callbacks /\ q.callbacks[r.id] = r.call
    BY <2>1 DEF Put
  <2>5. \A s \in Requests(p, P) : s.id \in DOMAIN q.callbacks /\ q.callbacks[s.id] = s.call
    BY <2>1, <2>3 DEF Put, OwnPlaces
  <2>6. r.call.load = q.load
    BY <2>1 DEF CallOf
  <2> QED
    BY <2>1, <2>2, <2>3, <2>4, <2>5, <2>6 DEF OwnPlaces
<1> QED
  BY <1>1, <1>2

\* The messages are the same, or there is a reply more.
LEMMA MailStays ==
  ASSUME MailInv, page'.forced # <<>> \/ page' = page, Asked \subseteq Asked', mail' \in Seq(Message),
         \A c \in Command : Fresh(page, pump, uses, c) => Fresh(page', pump', uses', c),
         mail' = mail \/ \E m \in Message : m.type # "TO_IFC_EXT" /\ page'.forced # <<>> /\ mail' = Append(mail, m)
  PROVE  MailInv'
<1>1. Asked \subseteq Asked' /\ mail \in Seq(Message)
  BY DEF MailInv
<1>2. ASSUME NEW i \in 1..Len(mail), ToScript(i)
      PROVE  mail[i].command \in Asked' /\ Fresh(page', pump', uses', mail[i].command)
  <2>1. mail[i] \in Message
    BY <1>1, ElementOfSeq
  <2>2. mail[i].command \in Command
    BY <2>1 DEF Message
  <2> QED
    BY <1>2, <2>2 DEF MailInv
<1>3. CASE mail' = mail
  <2>1. \A i : ToScript(i)' <=> ToScript(i)
    BY <1>3 DEF ToScript
  <2> QED
    BY <1>2, <1>3, <2>1 DEF MailInv
<1>4. ASSUME NEW m \in Message, m.type # "TO_IFC_EXT", mail' = Append(mail, m), page'.forced # <<>>
      PROVE  MailInv'
  <2>1. /\ Len(mail) \in Nat /\ Len(mail') = Len(mail) + 1
        /\ mail'[Len(mail) + 1] = m
        /\ \A i \in 1..Len(mail) : mail'[i] = mail[i]
    BY <1>1, <1>4, AppendProperties, LenProperties
  <2>2. \A i \in 1..Len(mail') : ToScript(i)' => i \in 1..Len(mail) /\ ToScript(i) /\ mail'[i] = mail[i]
    BY <1>4, <2>1 DEF ToScript
  <2> QED
    BY <1>2, <1>4, <2>2 DEF MailInv
<1> QED
  BY <1>3, <1>4

LEMMA AskedStays ==
  ASSUME AskedInv, UNCHANGED <<taken, waiting>>,
         \A c \in Command : Fresh(page, pump, uses, c) => Fresh(page', pump', uses', c)
  PROVE  AskedInv' /\ Asked' = Asked
BY DEF AskedInv, Asked

\* A reply is one to the command of the call that is settled.
LEMMA ReplyFacts ==
  ASSUME NEW x, x.command \in Command, NEW answer \in Command \cup {Certificate, Failed}
  PROVE  /\ ReplyOf(x, answer) \in Message
         /\ ReplyOf(x, answer).type = "FROM_IFC_EXT"
         /\ ReplyOf(x, answer).command = x.command /\ ReplyOf(x, answer).of = answer
<1> DEFINE code == IF answer = Failed
                   THEN CASE Signs(x) -> 1 [] Function[x.command] = "get_list_keys" -> 0 [] OTHER -> 9
                   ELSE 0
<1>1. code \in Nat
  OBVIOUS
<1>2. ReplyOf(x, answer) = [type |-> "FROM_IFC_EXT", command |-> x.command, code |-> code, of |-> answer]
  BY DEF ReplyOf, Reply
<1> HIDE DEF code
<1> QED
  BY <1>1, <1>2 DEF Message

\* Call x is settled, on page p from which it has been taken.
LEMMA SettleKeeps ==
  ASSUME IInv, NEW p, PageInv(p), Same(page, p), NEW x, CallOf(p, x),
         NEW answer, answer = Failed \/ (Signs(x) /\ answer \in Command) \/ answer = Certificate,
         Settle(p, x, answer), UNCHANGED <<waiting, taken, lost, troubles>>,
         PumpInv(p, pump'), OnceInv(p, pump', uses'),
         \A c \in Command : Fresh(page, pump, uses, c) => Fresh(p, pump', uses', c),
         ~lost => /\ OwnPlaces(p, pump', waiting, mail = <<>>)
                  /\ answer \in {Answer(x), Failed}
                  /\ x.command # None => Lone(p, pump', x) /\ x.command = waiting /\ mail = <<>>
  PROVE  IInv'
<1> USE DEF IInv
<1>1. /\ page' = loadCertEntry(p, x, answer)
      /\ mail' = IF x.command = None THEN mail ELSE Append(mail, ReplyOf(x, answer))
      /\ failed' = IF answer = Failed THEN failed \cup ({x.command} \ {None}) ELSE failed
  BY DEF Settle
<1>2. /\ PageInv(page')
      /\ page'.load = p.load /\ page'.forced = p.forced /\ page'.listeners = p.listeners
      /\ page'.fetching = p.fetching /\ page'.nextId = p.nextId
      /\ page'.callbacks = p.callbacks /\ page'.requests = p.requests
  BY <1>1, LoadPage
<1>3. /\ PumpInv(page', pump') /\ OnceInv(page', pump', uses')
      /\ \A c \in Command : Fresh(page, pump, uses, c) => Fresh(page', pump', uses', c)
      /\ \A w, e : OwnPlaces(p, pump', w, e) => OwnPlaces(page', pump', w, e)
  BY <1>2, PlacesSame
<1>4. AskedInv' /\ Asked' = Asked
  BY <1>3, AskedStays
<1>5. BoundsInv'
  BY <1>2 DEF BoundsInv, Same
<1>6. page'.forced # <<>>
  <2>1. x.closure \in 1..Len(p.forced)
    BY DEF CallOf
  <2> QED
    BY <1>2, <2>1
<1>7. x.command \in Command \cup {None} /\ answer \in Command \cup {Certificate, Failed}
  BY DEF CallOf, Call
<1>8. mail \in Seq(Message)
  BY DEF MailInv
<1>9. CASE x.command = None
  <2>1. mail' = mail
    BY <1>1, <1>9
  <2>2. MailInv'
    BY <1>3, <1>4, <1>6, <1>8, <2>1, MailStays
  <2>3. OwnInv'
    <3>1. failed \subseteq failed' /\ UNCHANGED <<mail, waiting, taken, lost>>
      BY <1>1, <2>1
    <3>2. ASSUME ~lost PROVE OwnMail' /\ OwnTaken' /\ OwnPlaces(page', pump', waiting', mail' = <<>>)
      BY <1>3, <3>1, <3>2 DEF OwnInv, OwnMail, OwnTaken, Own, ToScript
    <3> QED
      BY <3>1, <3>2 DEF OwnInv
  <2> QED
    BY <1>2, <1>3, <1>4, <1>5, <2>2, <2>3
<1>10. CASE x.command # None
  <2> DEFINE m == ReplyOf(x, answer)
  <2>1. m \in Message /\ m.type = "FROM_IFC_EXT" /\ m.command = x.command /\ m.of = answer
    BY <1>7, <1>10, ReplyFacts
  <2>2. mail' = Append(mail, m)
    BY <1>1, <1>10
  <2> HIDE DEF m
  <2>3. mail' \in Seq(Message)
    BY <1>8, <2>1, <2>2, AppendProperties
  <2>4. MailInv'
    BY <1>3, <1>4, <1>6, <2>1, <2>2, <2>3, MailStays
  <2>5. OwnInv'
    <3>1. failed \subseteq failed' /\ UNCHANGED <<waiting, taken, lost>>
      BY <1>1
    <3>2. ASSUME ~lost PROVE OwnMail' /\ OwnTaken' /\ OwnPlaces(page', pump', waiting', mail' = <<>>)
      <4>1. mail = <<>> /\ x.command = waiting /\ Lone(p, pump', x) /\ OwnPlaces(p, pump', waiting, TRUE)
        BY <1>10, <3>2
      <4>2. OwnTaken'
        BY <3>1, <3>2 DEF OwnInv, OwnTaken, Own
      <4>3. mail' = <<m>> /\ Len(mail') = 1 /\ mail'[1] = m
        BY <2>2, <4>1
      <4>4. Own(m, waiting)'
        BY <1>1, <1>10, <2>1, <3>1, <3>2, <4>1 DEF Own, Answer, Signs
      <4>5. OwnMail'
        <5>1. \A i \in 1..1 : i = 1
          OBVIOUS
        <5> QED
          BY <1>10, <2>1, <3>1, <4>1, <4>3, <4>4, <5>1 DEF OwnMail, Own
      <4>6. OwnPlaces(p, pump', waiting, FALSE)
        BY <1>10, <4>1 DEF OwnPlaces, Lone
      <4>7. mail' # <<>>
        BY <4>3
      <4> QED
        BY <1>3, <3>1, <4>2, <4>5, <4>6, <4>7
    <3> QED
      BY <3>1, <3>2 DEF OwnInv
  <2> QED
    BY <1>2, <1>3, <1>4, <1>5, <2>4, <2>5
<1> QED
  BY <1>9, <1>10

-----------------------------------------------------------------------------
(* The steps *)

\* Page p is what is left when call x is taken from what is being fetched.
LEMMA TakenFetch ==
  ASSUME IInv, NEW x \in page.fetching, NEW p, p = [page EXCEPT !.fetching = @ \ {x}],
         UNCHANGED pump, Use(x, "fetch") \/ UNCHANGED uses
  PROVE  /\ PageInv(p) /\ Same(page, p) /\ CallOf(p, x)
         /\ PumpInv(p, pump') /\ OnceInv(p, pump', uses')
         /\ \A c \in Command : Fresh(page, pump, uses, c) => Fresh(p, pump', uses', c)
         /\ ~lost => /\ OwnPlaces(p, pump', waiting, mail = <<>>)
                     /\ x.command # None => x.command = waiting /\ mail = <<>>
         /\ Lone(p, pump', x) /\ (x.command # None => <<x.command, "queue">> \notin DOMAIN uses')
<1> USE DEF IInv
<1>1. /\ DOMAIN p = Fields /\ p.load = page.load /\ p.forced = page.forced /\ p.certCache = page.certCache
      /\ p.listeners = page.listeners /\ p.fetching = page.fetching \ {x}
      /\ p.nextId = page.nextId /\ p.callbacks = page.callbacks /\ p.requests = page.requests
  BY DEF PageInv, Fields
<1>2. PageInv(p) /\ Same(page, p)
  BY <1>1, ShrunkPage DEF Same
<1>3. CallOf(p, x)
  BY <1>1 DEF PageInv, CallOf
<1>4. Requests(p, pump') = Requests(page, pump)
  BY <1>1 DEF Requests
<1>5. PumpInv(p, pump')
  BY <1>1 DEF PumpInv, RequestOf, CallOf
<1>6. /\ \A w \in DOMAIN uses' : uses'[w] = 1
      /\ \A w \in DOMAIN uses' : w \in DOMAIN uses \/ (x.command # None /\ w = <<x.command, "fetch">>)
  <2>1. CASE Use(x, "fetch")
    <3>1. /\ \A w \in DOMAIN uses : uses[w] = 1
          /\ x.command # None => <<x.command, "fetch">> \notin DOMAIN uses
      BY DEF OnceInv
    <3> QED
      BY <2>1, <3>1, UseOnce
  <2>2. CASE UNCHANGED uses
    BY <2>2 DEF OnceInv
  <2> QED
    BY <2>1, <2>2
<1>7. \A c, d : <<c, "queue">> # <<d, "fetch">> /\ (c # d => <<c, "fetch">> # <<d, "fetch">>)
  OBVIOUS
<1>8. Lone(p, pump', x)
  BY <1>1, <1>4 DEF Lone, OnceInv
<1>9. x.command # None => <<x.command, "queue">> \notin DOMAIN uses'
  BY <1>6, <1>7 DEF OnceInv
<1>10. OnceInv(p, pump', uses')
  <2>1. \A y \in p.fetching : y.command # None => <<y.command, "fetch">> \notin DOMAIN uses'
                                                 /\ <<y.command, "queue">> \notin DOMAIN uses'
    BY <1>1, <1>6, <1>7 DEF OnceInv
  <2>2. \A r \in Requests(p, pump') : r.call.command # None => <<r.call.command, "queue">> \notin DOMAIN uses'
    BY <1>4, <1>6, <1>7 DEF OnceInv
  <2>3. ToSet(p.requests) \cap pump' = {}
    BY <1>1 DEF OnceInv
  <2> QED
    BY <1>1, <1>4, <1>6, <2>1, <2>2, <2>3 DEF OnceInv
<1>11. ASSUME NEW c \in Command, Fresh(page, pump, uses, c) PROVE Fresh(p, pump', uses', c)
  <2>1. x.command # c
    BY <1>11 DEF Fresh
  <2> QED
    BY <1>1, <1>4, <1>6, <1>7, <1>11, <2>1 DEF Fresh
<1>12. ~lost => /\ OwnPlaces(p, pump', waiting, mail = <<>>)
                /\ x.command # None => x.command = waiting /\ mail = <<>>
  BY <1>1, <1>4 DEF OwnInv, OwnPlaces
<1> QED
  BY <1>2, <1>3, <1>5, <1>8, <1>9, <1>10, <1>11, <1>12

LEMMA FetchServedKeeps ==
  ASSUME IInv, NEW x \in page.fetching, FetchServed(x)
  PROVE  IInv'
<1> DEFINE p == [page EXCEPT !.fetching = @ \ {x}]
<1>1. Use(x, "fetch") /\ Settle(p, x, Answer(x)) /\ UNCHANGED <<waiting, taken, pump, lost, troubles>>
  BY DEF FetchServed
<1> HIDE DEF p
<1>2. /\ PageInv(p) /\ Same(page, p) /\ CallOf(p, x)
      /\ PumpInv(p, pump') /\ OnceInv(p, pump', uses')
      /\ \A c \in Command : Fresh(page, pump, uses, c) => Fresh(p, pump', uses', c)
      /\ ~lost => /\ OwnPlaces(p, pump', waiting, mail = <<>>)
                  /\ x.command # None => x.command = waiting /\ mail = <<>>
      /\ Lone(p, pump', x)
  BY <1>1, TakenFetch DEF p
<1>3. (Signs(x) /\ Answer(x) \in Command) \/ Answer(x) = Certificate
  BY <1>2 DEF Answer, Signs, CallOf, Call
<1> QED
  BY <1>1, <1>2, <1>3, SettleKeeps

LEMMA FetchFailsKeeps ==
  ASSUME IInv, NEW x \in page.fetching, FetchFails(x)
  PROVE  IInv'
<1> DEFINE p == [page EXCEPT !.fetching = @ \ {x}]
<1>1. /\ UNCHANGED <<mail, waiting, taken, pump, failed, lost>>
      /\ page' = queueJson(p, x)
      /\ UNCHANGED <<uses, troubles>> \/ (Use(x, "fetch") /\ Trouble)
  BY DEF FetchFails
<1> HIDE DEF p
<1>2. /\ PageInv(p) /\ Same(page, p) /\ CallOf(p, x)
      /\ PumpInv(p, pump') /\ OnceInv(p, pump', uses')
      /\ \A c \in Command : Fresh(page, pump, uses, c) => Fresh(p, pump', uses', c)
      /\ ~lost => /\ OwnPlaces(p, pump', waiting, mail = <<>>)
                  /\ x.command # None => x.command = waiting /\ mail = <<>>
      /\ Lone(p, pump', x) /\ (x.command # None => <<x.command, "queue">> \notin DOMAIN uses')
  BY <1>1, TakenFetch DEF p
<1>3. PICK r : PageInv(page') /\ Queued(p, x, r, page')
  BY <1>1, <1>2, QueuePage
<1>4. PumpInv(page', pump') /\ OnceInv(page', pump', uses')
  BY <1>2, <1>3, QueuedOnce
<1>5. ASSUME NEW c \in Command, Fresh(page, pump, uses, c) PROVE Fresh(page', pump', uses', c)
  <2>1. Fresh(p, pump', uses', c) /\ x.command # c
    BY <1>2, <1>5 DEF Fresh
  <2> QED
    BY <1>2, <1>3, <2>1, PostFresh
<1>6. AskedInv' /\ Asked' = Asked
  BY <1>1, <1>5, AskedStays DEF IInv
<1>7. page'.forced # <<>>
  <2>1. x.closure \in 1..Len(p.forced)
    BY <1>2 DEF CallOf
  <2> QED
    BY <1>3, <2>1 DEF Queued, Same
<1>8. MailInv'
  BY <1>1, <1>5, <1>6, <1>7, MailStays DEF IInv, MailInv
<1>9. BoundsInv'
  <2>1. page'.load = page.load /\ page'.forced = page.forced
    BY <1>2, <1>3 DEF Queued, Same
  <2>2. troubles' = troubles \/ (troubles' = troubles + 1 /\ troubles + 1 <= MaxTroubles)
    BY <1>1 DEF Trouble, Troubles
  <2>3. page.load \in Nat /\ Len(page.forced) \in Nat
    BY LenProperties DEF IInv, PageInv
  <2> QED
    BY <2>1, <2>2, <2>3, BoundAssumption DEF IInv, BoundsInv
<1>10. OwnInv'
  <2>1. ASSUME ~lost PROVE OwnMail' /\ OwnTaken' /\ OwnPlaces(page', pump', waiting', mail' = <<>>)
    <3>1. OwnPlaces(page', pump', waiting, mail = <<>>)
      BY <1>2, <1>3, <2>1, PostOwn
    <3> QED
      BY <1>1, <2>1, <3>1 DEF IInv, OwnInv, OwnMail, OwnTaken, Own, ToScript
  <2> QED
    BY <1>1, <2>1 DEF IInv, OwnInv
<1> QED
  BY <1>3, <1>4, <1>6, <1>8, <1>9, <1>10 DEF IInv

LEMMA TakeKeeps ==
  ASSUME IInv, Take
  PROVE  IInv'
<1> USE DEF IInv
<1>1. /\ pump' = pump \cup ToSet(page.requests)
      /\ page' = [page EXCEPT !.requests = <<>>]
      /\ UNCHANGED <<mail, waiting, taken, uses, failed, lost, troubles>>
  BY DEF Take
<1>2. /\ DOMAIN page' = Fields /\ Same(page, page') /\ page'.fetching = page.fetching
      /\ page'.nextId = page.nextId /\ page'.callbacks = page.callbacks /\ page'.requests = <<>>
      /\ ToSet(page'.requests) = {}
  BY <1>1, ToSetEmpty DEF PageInv, Fields, Same
<1>3. \A y : CallOf(page, y) <=> CallOf(page', y)
  BY <1>2 DEF CallOf, Same
<1>4. PageInv(page')
  BY <1>2, <1>3 DEF PageInv, Same
<1>5. Requests(page', pump') = Requests(page, pump)
  BY <1>1, <1>2 DEF Requests
<1>6. PumpInv(page', pump')
  <2>1. ASSUME NEW r \in ToSet(page.requests) PROVE r \in Request /\ RequestOf(page, r)
    <3>1. page.requests \in Seq(Request)
      BY DEF PageInv
    <3> QED
      BY <3>1, LenProperties, ElementOfSeq DEF ToSet, PageInv
  <2>2. \A r \in ToSet(page.requests) : r.call.load = page.load /\ page.load \in Nat
    BY <2>1 DEF RequestOf, CallOf, PageInv
  <2> QED
    BY <1>1, <1>2, <1>3, <2>1, <2>2 DEF PumpInv, RequestOf, Same
<1>7. OnceInv(page', pump', uses')
  BY <1>1, <1>2, <1>5 DEF OnceInv
<1>8. \A c : Fresh(page, pump, uses, c) <=> Fresh(page', pump', uses', c)
  BY <1>1, <1>2, <1>5 DEF Fresh
<1>9. AskedInv' /\ Asked' = Asked
  BY <1>1, <1>8, AskedStays
<1>10. MailInv'
  BY <1>1, <1>2, <1>8, <1>9 DEF MailInv, ToScript, Same
<1>11. BoundsInv'
  BY <1>1, <1>2 DEF BoundsInv, Same
<1>12. OwnInv'
  BY <1>1, <1>2, <1>5 DEF OwnInv, OwnMail, OwnPlaces, OwnTaken, Own, ToScript, Same
<1> QED
  BY <1>4, <1>6, <1>7, <1>9, <1>10, <1>11, <1>12

\* A pump is through with request r, and perhaps with others.
LEMMA HandedOver ==
  ASSUME IInv, NEW r \in pump, pump' \subseteq pump \ {r}, Use(r.call, "queue") \/ UNCHANGED uses
  PROVE  /\ r \in Request /\ r \in Requests(page, pump) /\ r.call \in Call
         /\ Requests(page, pump') \subseteq Requests(page, pump)
         /\ \A s \in Requests(page, pump') : s # r
         /\ PumpInv(page, pump') /\ OnceInv(page, pump', uses')
         /\ \A c \in Command : Fresh(page, pump, uses, c) => Fresh(page, pump', uses', c)
<1> USE DEF IInv
<1>2. r \in Request /\ r \in Requests(page, pump) /\ r.call \in Call
  BY DEF PumpInv, Requests, Request
<1>3. /\ \A w \in DOMAIN uses' : uses'[w] = 1
      /\ \A w \in DOMAIN uses' : w \in DOMAIN uses \/ (r.call.command # None /\ w = <<r.call.command, "queue">>)
  <2>1. CASE Use(r.call, "queue")
    <3>1. /\ \A w \in DOMAIN uses : uses[w] = 1
          /\ r.call.command # None => <<r.call.command, "queue">> \notin DOMAIN uses
      BY <1>2 DEF OnceInv
    <3> QED
      BY <2>1, <3>1, UseOnce
  <2>2. CASE UNCHANGED uses
    BY <2>2 DEF OnceInv
  <2> QED
    BY <2>1, <2>2
<1>4. \A c, d : <<c, "fetch">> # <<d, "queue">> /\ (c # d => <<c, "queue">> # <<d, "queue">>)
  OBVIOUS
<1>5. /\ Requests(page, pump') \subseteq Requests(page, pump)
      /\ \A s \in Requests(page, pump') : s # r
  BY DEF Requests, OnceInv
<1>6. PumpInv(page, pump')
  BY DEF PumpInv
<1>7. OnceInv(page, pump', uses')
  <2>1. \A y \in page.fetching : y.command # None => <<y.command, "fetch">> \notin DOMAIN uses'
                                                    /\ <<y.command, "queue">> \notin DOMAIN uses'
    BY <1>2, <1>3, <1>4 DEF OnceInv
  <2>2. \A s \in Requests(page, pump') : s.call.command # None => <<s.call.command, "queue">> \notin DOMAIN uses'
    BY <1>2, <1>3, <1>4, <1>5 DEF OnceInv
  <2>3. ToSet(page.requests) \cap pump' = {}
    BY DEF OnceInv
  <2> QED
    BY <1>3, <1>5, <2>1, <2>2, <2>3 DEF OnceInv
<1>8. ASSUME NEW c \in Command, Fresh(page, pump, uses, c) PROVE Fresh(page, pump', uses', c)
  <2>1. r.call.command # c
    BY <1>2, <1>8 DEF Fresh
  <2> QED
    BY <1>3, <1>4, <1>5, <1>8, <2>1 DEF Fresh
<1> QED
  BY <1>2, <1>5, <1>6, <1>7, <1>8

LEMMA DeliverKeeps ==
  ASSUME IInv, NEW r \in pump, NEW success \in BOOLEAN, Deliver(r, success)
  PROVE  IInv'
<1> USE DEF IInv
<1>1. /\ pump' = pump \ {r}
      /\ Use(r.call, "queue") \/ UNCHANGED uses
      /\ UNCHANGED <<waiting, taken, lost, troubles>>
  BY DEF Deliver
<1>2. r \in Request /\ r \in Requests(page, pump) /\ r.call \in Call
  BY <1>1, HandedOver
<1>5. /\ Requests(page, pump') \subseteq Requests(page, pump)
      /\ \A s \in Requests(page, pump') : s # r
  BY <1>1, HandedOver
<1>6. PumpInv(page, pump')
  BY <1>1, HandedOver
<1>7. OnceInv(page, pump', uses')
  BY <1>1, HandedOver
<1>8. \A c \in Command : Fresh(page, pump, uses, c) => Fresh(page, pump', uses', c)
  BY <1>1, HandedOver
<1>9. CASE r.id \notin DOMAIN page.callbacks
  <2>1. UNCHANGED <<page, mail, failed>>
    BY <1>9 DEF Deliver
  <2>2. AskedInv' /\ Asked' = Asked
    BY <1>1, <1>8, <2>1, AskedStays
  <2>3. MailInv'
    BY <1>8, <2>1, <2>2, MailStays DEF MailInv
  <2>4. BoundsInv'
    BY <1>1, <2>1 DEF BoundsInv
  <2>5. OwnInv'
    BY <1>2, <1>9, <1>1, <2>1 DEF OwnInv, OwnPlaces
  <2> QED
    BY <1>6, <1>7, <2>1, <2>2, <2>3, <2>4, <2>5
<1>10. CASE r.id \in DOMAIN page.callbacks
  <2> DEFINE x == page.callbacks[r.id]
             p == [page EXCEPT !.callbacks = Drop(@, r.id)]
             answer == IF success /\ Signs(x) = Signs(r.call) THEN Answer(r.call) ELSE Failed
  <2>1. Settle(p, x, answer)
    BY <1>10 DEF Deliver
  <2>2. /\ DOMAIN p = Fields /\ Same(page, p) /\ p.fetching = page.fetching
        /\ p.nextId = page.nextId /\ p.callbacks = Drop(page.callbacks, r.id) /\ p.requests = page.requests
    BY DEF PageInv, Fields, Same
  <2>3. CallOf(p, x)
    BY <1>10, <2>2 DEF PageInv, CallOf, Same
  <2>4. answer = Failed \/ (Signs(x) /\ answer \in Command) \/ answer = Certificate
    BY <1>2 DEF Answer, Signs, Call
  <2>5. ~lost => x = r.call
    BY <1>2 DEF OwnInv, OwnPlaces
  <2>6. ~lost => answer \in {Answer(x), Failed}
    BY <2>5
  <2> HIDE DEF p, x, answer
  <2>7. PageInv(p)
    BY <2>2, ShrunkPage DEF Drop
  <2>8. Requests(p, pump') = Requests(page, pump')
    BY <2>2 DEF Requests
  <2>9. PumpInv(p, pump')
    BY <1>6, <2>2 DEF PumpInv, RequestOf, CallOf, Same
  <2>10. OnceInv(p, pump', uses')
    BY <1>7, <2>2, <2>8 DEF OnceInv
  <2>11. \A c \in Command : Fresh(page, pump, uses, c) => Fresh(p, pump', uses', c)
    BY <1>8, <2>2, <2>8 DEF Fresh
  <2>12. ASSUME ~lost
         PROVE  /\ OwnPlaces(p, pump', waiting, mail = <<>>)
                /\ x.command # None => Lone(p, pump', x) /\ x.command = waiting /\ mail = <<>>
    <3>1. OwnPlaces(page, pump, waiting, mail = <<>>) /\ x = r.call
      BY <2>5, <2>12 DEF OwnInv
    <3>2. \A s \in Requests(p, pump') : s \in Requests(page, pump) /\ s # r /\ s.id # r.id
      BY <1>2, <1>5, <2>8, <3>1 DEF OwnPlaces
    <3>3. OwnPlaces(p, pump', waiting, mail = <<>>)
      BY <2>2, <3>1, <3>2 DEF OwnPlaces, Drop, Same
    <3>4. x.command # None => Lone(p, pump', x)
      BY <1>2, <2>2, <3>1, <3>2 DEF OnceInv, Lone
    <3>5. x.command # None => x.command = waiting /\ mail = <<>>
      BY <1>2, <3>1 DEF OwnPlaces
    <3> QED
      BY <3>3, <3>4, <3>5
  <2> QED
    BY <1>1, <2>1, <2>2, <2>3, <2>4, <2>6, <2>7, <2>9, <2>10, <2>11, <2>12, SettleKeeps
<1> QED
  BY <1>9, <1>10

LEMMA PumpEndsKeeps ==
  ASSUME IInv, NEW r \in pump, PumpEnds(r)
  PROVE  IInv'
<1> USE DEF IInv
<1>1. /\ pump' \subseteq pump \ {r} /\ Trouble
      /\ Use(r.call, "queue") \/ UNCHANGED uses
      /\ UNCHANGED <<page, mail, waiting, taken, failed, lost>>
  BY DEF PumpEnds
<1>2. /\ Requests(page, pump') \subseteq Requests(page, pump)
      /\ PumpInv(page, pump') /\ OnceInv(page, pump', uses')
      /\ \A c \in Command : Fresh(page, pump, uses, c) => Fresh(page, pump', uses', c)
  BY <1>1, HandedOver
<1>3. AskedInv' /\ Asked' = Asked
  BY <1>1, <1>2, AskedStays
<1>4. MailInv'
  BY <1>1, <1>2, <1>3, MailStays DEF MailInv
<1>5. BoundsInv'
  BY <1>1, BoundAssumption DEF BoundsInv, Trouble, Troubles, PageInv
<1>6. OwnInv'
  BY <1>1, <1>2 DEF OwnInv, OwnMail, OwnPlaces, OwnTaken, Own, ToScript
<1> QED
  BY <1>1, <1>2, <1>3, <1>4, <1>5, <1>6

LEMMA InjectKeeps ==
  ASSUME IInv, Inject
  PROVE  IInv'
<1> USE DEF IInv
<1>1. /\ IF page.listeners = <<>> THEN UNCHANGED troubles ELSE Trouble
      /\ UNCHANGED <<mail, waiting, taken, pump, uses, failed, lost, stranded>>
  BY DEF Inject
<1>2. PICK force \in BOOLEAN : page' = Injected(force, <<1>>)
  BY DEF Inject
<1> DEFINE c == Len(page.forced) + 1
           p == [page EXCEPT !.forced = Append(@, force), !.certCache = Append(@, None), !.listeners = <<1>>]
           x == [load |-> page.load, closure |-> c, command |-> None]
<1>3. page' = postJson(p, x)
  BY <1>2 DEF Injected
<1>4. /\ DOMAIN p = Fields /\ p.load = page.load /\ p.forced = Append(page.forced, force)
      /\ p.certCache = Append(page.certCache, None) /\ p.listeners = <<1>> /\ p.fetching = page.fetching
      /\ p.nextId = page.nextId /\ p.callbacks = page.callbacks /\ p.requests = page.requests
  BY DEF PageInv, Fields
<1>5. /\ x \in Call /\ x.load = page.load /\ x.closure = c /\ x.command = None
      /\ c \in Nat /\ Len(page.forced) \in Nat
  BY LenProperties DEF Call, PageInv
<1> HIDE DEF p, x
<1>6. /\ p.forced \in Seq(BOOLEAN) /\ p.certCache \in Seq({Certificate, None})
      /\ Len(p.forced) = c /\ Len(p.certCache) = Len(p.forced) /\ p.forced # <<>>
  BY <1>4, AppendProperties, LenProperties DEF PageInv
<1>7. \A y : CallOf(page, y) => CallOf(p, y)
  BY <1>4, <1>5, <1>6 DEF CallOf
<1>8. PageInv(p)
  BY <1>4, <1>6, <1>7 DEF PageInv, RequestOf
<1>9. CallOf(p, x)
  BY <1>4, <1>5, <1>6 DEF CallOf
<1>10. Requests(p, pump) = Requests(page, pump)
  BY <1>4 DEF Requests
<1>11. PumpInv(p, pump) /\ OnceInv(p, pump, uses)
  BY <1>4, <1>7, <1>10 DEF PumpInv, RequestOf, OnceInv
<1>12. Lone(p, pump, x)
  <2>1. x \notin p.fetching
    BY <1>4, <1>5 DEF PageInv, CallOf
  <2>2. ASSUME NEW r \in Requests(p, pump) PROVE r.call # x
    BY <1>5, <1>10 DEF Requests, PageInv, PumpInv, RequestOf, CallOf
  <2> QED
    BY <1>5, <2>1, <2>2 DEF Lone
<1>13. PageInv(page') /\ Same(p, page') /\ (Fetching(p, x, page') \/ \E r : Queued(p, x, r, page'))
  BY <1>3, <1>8, <1>9, PostPage
<1>14. PumpInv(page', pump) /\ OnceInv(page', pump, uses)
  BY <1>5, <1>8, <1>9, <1>11, <1>12, <1>13, QueuedOnce, FetchingOnce
<1>15. ASSUME NEW d \in Command, Fresh(page, pump, uses, d) PROVE Fresh(page', pump, uses, d)
  <2>1. Fresh(p, pump, uses, d) /\ x.command # d
    BY <1>4, <1>5, <1>10, <1>15, CommandFacts DEF Fresh
  <2> QED
    BY <1>8, <1>13, <2>1, PostFresh
<1>16. AskedInv' /\ Asked' = Asked
  BY <1>1, <1>15, AskedStays
<1>17. MailInv'
  BY <1>1, <1>6, <1>13, <1>15, <1>16, MailStays DEF MailInv, Same
<1>18. BoundsInv'
  <2>1. page'.load = page.load /\ Len(page'.forced) = Len(page.forced) + 1
    BY <1>4, <1>6, <1>13 DEF Same
  <2>2. CASE page.listeners = <<>>
    <3>0. <<1>> # <<>> /\ Len(<<>>) = 0
      OBVIOUS
    <3>1. page.forced = <<>> /\ Len(page.forced) = 0
      <4>1. page.listeners = IF page.forced = <<>> THEN <<>> ELSE <<1>>
        BY DEF PageInv
      <4> QED
        BY <2>2, <3>0, <4>1
    <3> QED
      BY <1>1, <2>1, <2>2, <3>1 DEF BoundsInv
  <2>3. CASE page.listeners # <<>>
    <3>1. troubles' = troubles + 1 /\ troubles + 1 <= MaxTroubles
      BY <1>1, <2>3 DEF Trouble, Troubles
    <3>2. page.load \in Nat
      BY DEF PageInv
    <3> QED
      BY <1>5, <2>1, <3>1, <3>2, BoundAssumption DEF BoundsInv
  <2> QED
    BY <2>2, <2>3
<1>19. OwnInv'
  <2>1. ASSUME ~lost PROVE OwnMail' /\ OwnTaken' /\ OwnPlaces(page', pump', waiting', mail' = <<>>)
    <3>1. OwnPlaces(p, pump, waiting, mail = <<>>)
      BY <1>4, <1>10, <2>1 DEF OwnInv, OwnPlaces
    <3>2. OwnPlaces(page', pump, waiting, mail = <<>>)
      BY <1>5, <1>8, <1>9, <1>11, <1>13, <3>1, PostOwn
    <3> QED
      BY <1>1, <2>1, <3>2 DEF OwnInv, OwnMail, OwnTaken, Own, ToScript
  <2> QED
    BY <1>1, <2>1 DEF OwnInv
<1> QED
  BY <1>1, <1>13, <1>14, <1>16, <1>17, <1>18, <1>19

LEMMA AskKeeps ==
  ASSUME IInv, Ask
  PROVE  IInv'
<1> USE DEF IInv
<1>1. PICK n \in Nat : DOMAIN taken = 1..n /\ waiting \in {None, n + 1}
  BY DEF AskedInv
<1>2. Cardinality(DOMAIN taken) = n
  BY <1>1, FS_Interval
<1> DEFINE m == [type |-> "TO_IFC_EXT", command |-> n + 1]
<1>3. /\ waiting = None /\ page.listeners # <<>> /\ n + 1 \in Command
      /\ waiting' = n + 1 /\ mail' = Append(mail, m)
      /\ UNCHANGED <<page, taken, pump, uses, failed, lost, troubles>>
  BY <1>2 DEF Ask
<1>4. n + 1 # None /\ n + 1 \notin DOMAIN taken
  BY <1>1, <1>3, CommandFacts
<1>5. Asked = 1..n /\ Asked' = 1..n \cup {n + 1} /\ n + 1 \in Command \ Asked
  BY <1>1, <1>3, <1>4 DEF Asked
<1>6. Fresh(page, pump, uses, n + 1)
  BY <1>5 DEF AskedInv
<1>7. AskedInv'
  BY <1>1, <1>3, <1>5 DEF AskedInv
<1>8. m \in Message /\ m.type = "TO_IFC_EXT" /\ m.command = n + 1
  BY <1>3 DEF Message
<1> HIDE DEF m
<1>9. /\ mail' \in Seq(Message) /\ Len(mail) \in Nat /\ Len(mail') = Len(mail) + 1
      /\ mail'[Len(mail) + 1] = m
      /\ \A i \in 1..Len(mail) : mail'[i] = mail[i]
  BY <1>3, <1>8, AppendProperties, LenProperties DEF MailInv
<1>10. MailInv'
  <2>1. page.forced # <<>>
    BY <1>3 DEF PageInv
  <2>2. \A i \in 1..Len(mail') : i \in 1..Len(mail) \/ i = Len(mail) + 1
    BY <1>9
  <2>3. \A i \in 1..Len(mail) : /\ ToScript(i)' = ToScript(i)
                                /\ ToScript(i) => mail[i].command \in Asked /\ mail[i].command # n + 1
    BY <1>5, <1>9 DEF MailInv, ToScript
  <2>4. ASSUME NEW i \in 1..Len(mail'), ToScript(i)'
        PROVE  mail'[i].command \in Asked' /\ Fresh(page, pump, uses, mail'[i].command)
    BY <1>5, <1>6, <1>8, <1>9, <2>2, <2>3, <2>4 DEF MailInv
  <2>5. ASSUME NEW i \in 1..Len(mail'), NEW j \in 1..Len(mail'), ToScript(i)', ToScript(j)',
               mail'[i].command = mail'[j].command
        PROVE  i = j
    <3>1. CASE i \in 1..Len(mail) /\ j \in 1..Len(mail)
      BY <1>9, <2>3, <2>5, <3>1 DEF MailInv
    <3> QED
      BY <1>8, <1>9, <2>2, <2>3, <2>5, <3>1
  <2> QED
    BY <1>3, <1>9, <2>1, <2>4, <2>5 DEF MailInv
<1>11. OwnInv'
  <2>1. ASSUME ~lost PROVE OwnMail' /\ OwnTaken' /\ OwnPlaces(page', pump', waiting', mail' = <<>>)
    <3>1. OwnPlaces(page, pump, None, mail = <<>>) /\ OwnMail
      BY <1>3, <2>1 DEF OwnInv
    <3>2. Len(mail) = 0
      BY <1>3, <1>9, <3>1 DEF OwnMail
    <3>3. Len(mail') = 1 /\ mail'[1] = m /\ mail' # <<>>
      BY <1>9, <3>2
    <3>4. OwnMail'
      BY <1>3, <1>4, <1>8, <3>3 DEF OwnMail, ToScript
    <3>5. OwnPlaces(page, pump, n + 1, FALSE)
      BY <3>1 DEF OwnPlaces
    <3>6. OwnTaken'
      BY <1>3, <2>1 DEF OwnInv, OwnTaken, Own
    <3> QED
      BY <1>3, <3>3, <3>4, <3>5, <3>6
  <2> QED
    BY <1>3, <2>1 DEF OwnInv
<1>12. BoundsInv'
  BY <1>3 DEF BoundsInv
<1> QED
  BY <1>3, <1>7, <1>10, <1>11, <1>12

\* What the page waited for it has, or does without.
LEMMA NoLongerWaits ==
  ASSUME AskedInv, waiting' = None, NEW m, taken' = IF waiting = None THEN taken ELSE Put(taken, waiting, m),
         \A c \in Command : Fresh(page, pump, uses, c) => Fresh(page', pump', uses', c)
  PROVE  AskedInv' /\ Asked' = Asked
<1>1. PICK n \in Nat : DOMAIN taken = 1..n /\ waiting \in {None, n + 1}
  BY DEF AskedInv
<1>2. Asked' = Asked /\ DOMAIN taken' = Asked
  BY DEF Asked, Put
<1>3. Asked = 1..n \/ Asked = 1..n + 1
  BY <1>1, CommandFacts DEF Asked
<1>4. Asked \subseteq Command
  BY DEF AskedInv, Asked
<1> QED
  BY <1>2, <1>3, <1>4 DEF AskedInv

\* The first message has been delivered, and there may be a reply to it.
LEMMA MailMoves ==
  ASSUME MailInv, mail # <<>>, page'.forced # <<>>, Asked \subseteq Asked',
         \/ mail' = Tail(mail)
         \/ \E m \in Message : m.type # "TO_IFC_EXT" /\ mail' = Append(Tail(mail), m),
         \A c \in Command : Fresh(page, pump, uses, c) /\ ~(ToScript(1) /\ c = mail[1].command) =>
                              Fresh(page', pump', uses', c)
  PROVE  MailInv'
<1>1. PICK k \in Nat : /\ Len(mail) = k + 1 /\ Tail(mail) \in Seq(Message) /\ Len(Tail(mail)) = k
                       /\ \A i \in 1..k : Tail(mail)[i] = mail[i + 1]
  <2>1. mail \in Seq(Message) /\ mail # <<>>
    BY DEF MailInv
  <2>2. Len(mail) - 1 \in Nat /\ Len(mail) = (Len(mail) - 1) + 1
    BY <2>1, LenProperties, EmptySeq
  <2>3. /\ Tail(mail) \in Seq(Message) /\ Len(Tail(mail)) = Len(mail) - 1
        /\ \A i \in 1..Len(mail) - 1 : Tail(mail)[i] = mail[i + 1]
    BY <2>1, <2>2, HeadTailProperties
  <2> QED
    BY <2>2, <2>3
<1>2. /\ mail' \in Seq(Message)
      /\ \A i \in 1..Len(mail') : ToScript(i)' => i \in 1..k /\ mail'[i] = mail[i + 1]
  <2>1. CASE mail' = Tail(mail)
    BY <1>1, <2>1
  <2>2. ASSUME NEW m \in Message, m.type # "TO_IFC_EXT", mail' = Append(Tail(mail), m)
        PROVE  /\ mail' \in Seq(Message)
               /\ \A i \in 1..Len(mail') : ToScript(i)' => i \in 1..k /\ mail'[i] = mail[i + 1]
    <3>1. /\ mail' \in Seq(Message) /\ Len(mail') = k + 1 /\ mail'[k + 1] = m
          /\ \A i \in 1..k : mail'[i] = Tail(mail)[i]
      BY <1>1, <2>2, AppendProperties
    <3>2. \A i \in 1..Len(mail') : i \in 1..k \/ i = k + 1
      BY <3>1
    <3> QED
      BY <1>1, <2>2, <3>1, <3>2 DEF ToScript
  <2> QED
    BY <2>1, <2>2
<1>3. \A i \in 1..k : i + 1 \in 1..Len(mail) /\ i + 1 # 1
  BY <1>1
<1>4. \A i \in 1..Len(mail') : ToScript(i)' => ToScript(i + 1)
  BY <1>2 DEF ToScript
<1>5. 1 \in 1..Len(mail)
  BY <1>1
<1>6. ASSUME NEW i \in 1..Len(mail'), ToScript(i)'
      PROVE  mail'[i].command \in Asked' /\ Fresh(page', pump', uses', mail'[i].command)
  <2>1. i \in 1..k /\ i + 1 \in 1..Len(mail) /\ i + 1 # 1 /\ ToScript(i + 1) /\ mail'[i] = mail[i + 1]
    BY <1>2, <1>3, <1>4, <1>6
  <2>2. mail[i + 1].command \in Asked /\ Fresh(page, pump, uses, mail[i + 1].command)
    BY <2>1 DEF MailInv
  <2>3. ~(ToScript(1) /\ mail[i + 1].command = mail[1].command)
    BY <1>5, <2>1 DEF MailInv
  <2>4. mail[i + 1].command \in Command
    <3>1. mail[i + 1] \in Message
      BY <2>1, ElementOfSeq DEF MailInv
    <3> QED
      BY <3>1 DEF Message
  <2> QED
    BY <2>1, <2>2, <2>3, <2>4
<1>7. ASSUME NEW i \in 1..Len(mail'), NEW j \in 1..Len(mail'), ToScript(i)', ToScript(j)',
             mail'[i].command = mail'[j].command
      PROVE  i = j
  <2>1. /\ i + 1 \in 1..Len(mail) /\ ToScript(i + 1) /\ mail'[i] = mail[i + 1]
        /\ j + 1 \in 1..Len(mail) /\ ToScript(j + 1) /\ mail'[j] = mail[j + 1]
        /\ i \in Nat /\ j \in Nat
    BY <1>2, <1>3, <1>4, <1>7
  <2>2. i + 1 = j + 1
    BY <1>7, <2>1 DEF MailInv
  <2> QED
    BY <2>1, <2>2
<1> QED
  BY <1>2, <1>6, <1>7 DEF MailInv

\* What the one closure that listens does with a command.
LEMMA HandleFacts ==
  ASSUME NEW p, PageInv(p), p.forced # <<>>, NEW c \in Command,
         NEW h, h = handleCommand(p, 1, c),
         NEW x, x = [load |-> p.load, closure |-> 1, command |-> c]
  PROVE  /\ CallOf(p, x) /\ x.command = c
         /\ \/ /\ h.page = p
               /\ \E m \in Message : /\ h.replies = <<m>> /\ m.type = "FROM_IFC_EXT" /\ m.command = c
                                     /\ m.of \in {None, IF Function[c] = "sign" THEN c ELSE Certificate}
            \/ h.page = postJson(p, x) /\ h.replies = <<>>
<1>1. 1 \in 1..Len(p.forced)
  BY LenProperties, EmptySeq DEF PageInv
<1>2. CallOf(p, x) /\ x.command = c
  BY <1>1 DEF CallOf, Call, PageInv
<1>3. ASSUME NEW code \in Nat, NEW of \in {None, Certificate}
      PROVE  Reply(c, code, of) \in Message /\ Reply(c, code, of).type = "FROM_IFC_EXT"
             /\ Reply(c, code, of).command = c /\ Reply(c, code, of).of = of
  BY DEF Reply, Message
<1>4. CASE Function[c] \in Local
  <2>1. h = [page |-> p, replies |-> <<Reply(c, 0, None)>>]
    BY <1>4 DEF handleCommand, Local, Unsupported
  <2> QED
    BY <1>2, <1>3, <2>1
<1>5. CASE Function[c] \in Unsupported
  <2>1. h = [page |-> p, replies |-> <<Reply(c, 17, None)>>]
    BY <1>5 DEF handleCommand, Local, Unsupported
  <2> QED
    BY <1>2, <1>3, <2>1
<1>6. CASE Function[c] \notin Local \cup Unsupported
  <2>1. CASE ~Signs(x) /\ p.certCache[1] # None
    <3>1. h = [page |-> p, replies |-> <<ReplyOf(x, p.certCache[1])>>]
      BY <1>6, <2>1 DEF handleCommand
    <3>2. p.certCache[1] \in {Certificate, None}
      BY <1>1, ElementOfSeq DEF PageInv
    <3>3. p.certCache[1] = Certificate
      BY <2>1, <3>2
    <3>4. /\ ReplyOf(x, Certificate) \in Message
          /\ ReplyOf(x, Certificate).type = "FROM_IFC_EXT"
          /\ ReplyOf(x, Certificate).command = c /\ ReplyOf(x, Certificate).of = Certificate
      BY <1>2, ReplyFacts
    <3>5. Function[c] # "sign"
      BY <1>2, <2>1, CommandFacts DEF Signs
    <3> QED
      BY <1>2, <3>1, <3>3, <3>4, <3>5
  <2>2. CASE ~(~Signs(x) /\ p.certCache[1] # None)
    <3>1. h = [page |-> postJson(p, x), replies |-> <<>>]
      BY <1>6, <2>2 DEF handleCommand
    <3> QED
      BY <1>2, <3>1
  <2> QED
    BY <2>1, <2>2
<1> QED
  BY <1>4, <1>5, <1>6

\* A fold over a single listener is one step.
LEMMA HearOne ==
  ASSUME NEW base, NEW command, NEW order, order = << 1 >>
  PROVE  LET Hear(done, k) == LET g == handleCommand(done.page, k, command)
                              IN  [page |-> g.page, replies |-> done.replies \o g.replies]
         IN  FoldLeft(Hear, base, order) = Hear(base, 1)
<1> DEFINE Hear(done, k) == LET g == handleCommand(done.page, k, command)
                            IN  [page |-> g.page, replies |-> done.replies \o g.replies]
<1>1. DOMAIN order = {1} /\ order[1] = 1
  OBVIOUS
<1>2. Max({1}) = 1
  BY DEF Max
<1>3. 1 \in {1} /\ {1} \ {1} = {} /\ {1} # {} /\ {1} \in SUBSET {1} /\ {} \in SUBSET {1}
  OBVIOUS
<1> HIDE DEF Hear
<1> DEFINE iter  == CHOOSE f : f = [S \in SUBSET {1} |-> IF S = {} THEN base
                                                         ELSE Hear(f[S \ {Max(S)}], order[Max(S)])]
           steps == [S \in SUBSET {1} |-> IF S = {} THEN base ELSE Hear(base, 1)]
<1>4. \A S \in SUBSET {1} : S = {} \/ S = {1}
  OBVIOUS
<1>5. steps[{}] = base
  OBVIOUS
<1>6. steps = [S \in SUBSET {1} |-> IF S = {} THEN base ELSE Hear(steps[S \ {Max(S)}], order[Max(S)])]
  BY <1>1, <1>2, <1>3, <1>4, <1>5
<1> HIDE DEF steps
<1>7. iter = [S \in SUBSET {1} |-> IF S = {} THEN base ELSE Hear(iter[S \ {Max(S)}], order[Max(S)])]
  BY <1>6
<1>8. iter[{1}] = Hear(base, 1)
  <2> HIDE DEF iter
  <2> QED
    BY <1>1, <1>2, <1>3, <1>7
<1>9. FoldLeft(Hear, base, order) = iter[{1}]
  BY <1>1 DEF FoldLeft, MapThenFoldSet
<1> QED
  BY <1>8, <1>9 DEF Hear

\* A message is heard once: there is one listener.
LEMMA HeardOnce ==
  ASSUME Receive, Head(mail).type = "TO_IFC_EXT", page.listeners = << 1 >>,
         NEW h, h = handleCommand(page, 1, Head(mail).command)
  PROVE  /\ page' = h.page /\ mail' = Tail(mail) \o (<<>> \o h.replies)
         /\ UNCHANGED <<waiting, taken>>
<1> DEFINE Hear(done, k) == LET g == handleCommand(done.page, k, Head(mail).command)
                            IN  [page |-> g.page, replies |-> done.replies \o g.replies]
           heard == FoldLeft(Hear, [page |-> page, replies |-> <<>>], page.listeners)
<1>1. page' = heard.page /\ mail' = Tail(mail) \o heard.replies /\ UNCHANGED <<waiting, taken>>
  BY DEF Receive
<1>2. heard = Hear([page |-> page, replies |-> <<>>], 1)
  BY HearOne
<1>3. Hear([page |-> page, replies |-> <<>>], 1) = [page |-> h.page, replies |-> <<>> \o h.replies]
  OBVIOUS
<1> HIDE DEF heard
<1> QED
  BY <1>1, <1>2, <1>3

LEMMA ReceiveCommandKeeps ==
  ASSUME IInv, Receive, ToScript(1)
  PROVE  IInv'
<1> USE DEF IInv
<1> DEFINE c == mail[1].command
           h == handleCommand(page, 1, c)
           x == [load |-> page.load, closure |-> 1, command |-> c]
<1>1. /\ mail # <<>> /\ mail \in Seq(Message) /\ Head(mail) = mail[1] /\ Len(mail) \in Nat /\ 1 \in 1..Len(mail)
      /\ page.forced # <<>> /\ page.listeners = <<1>>
      /\ UNCHANGED <<pump, uses, failed, lost, troubles>>
  <2>1. mail # <<>> /\ mail \in Seq(Message) /\ UNCHANGED <<pump, uses, failed, lost, troubles>>
    BY DEF Receive, MailInv
  <2>2. page.forced # <<>> /\ page.listeners = <<1>>
    BY <2>1 DEF MailInv, PageInv
  <2>3. Head(mail) = mail[1] /\ Len(mail) \in Nat /\ 1 \in 1..Len(mail)
    BY <2>1, HeadTailProperties, LenProperties, EmptySeq
  <2> QED
    BY <2>1, <2>2, <2>3
<1>2. mail[1] \in Message
  BY <1>1, ElementOfSeq
<1>3. c \in Command /\ c \in Asked /\ Fresh(page, pump, uses, c)
  BY <1>1, <1>2 DEF Message, MailInv
<1>4. page' = h.page /\ mail' = Tail(mail) \o (<<>> \o h.replies) /\ UNCHANGED <<waiting, taken>>
  BY <1>1, HeardOnce DEF ToScript
<1>5. /\ CallOf(page, x) /\ x.command = c
      /\ \/ /\ h.page = page
            /\ \E m \in Message : /\ h.replies = <<m>> /\ m.type = "FROM_IFC_EXT" /\ m.command = c
                                  /\ m.of \in {None, IF Function[c] = "sign" THEN c ELSE Certificate}
         \/ h.page = postJson(page, x) /\ h.replies = <<>>
  BY <1>1, <1>3, HandleFacts
<1>6. Tail(mail) \in Seq(Message) /\ Len(Tail(mail)) = Len(mail) - 1
  BY <1>1, HeadTailProperties
<1>7. UNCHANGED Asked
  BY <1>4 DEF Asked
<1>8. ~lost => /\ mail # <<>> /\ waiting = c /\ waiting # None /\ OwnPlaces(page, pump, waiting, FALSE)
               /\ Tail(mail) = <<>> /\ OwnTaken
  <2>1. ASSUME ~lost
        PROVE  waiting = c /\ waiting # None /\ OwnPlaces(page, pump, waiting, FALSE) /\ OwnTaken /\ Len(mail) <= 1
    BY <1>1, <2>1 DEF OwnInv, OwnMail
  <2>2. Len(mail) <= 1 => Tail(mail) = <<>>
    BY <1>1, <1>6, EmptySeq
  <2> QED
    BY <1>1, <2>1, <2>2
<1> HIDE DEF c, h, x
<1>9. ASSUME NEW m \in Message, page' = page, h.replies = <<m>>, m.type = "FROM_IFC_EXT", m.command = c,
             m.of \in {None, IF Function[c] = "sign" THEN c ELSE Certificate}
      PROVE  IInv'
  <2>1. mail' = Append(Tail(mail), m)
    <3>1. <<>> \o <<m>> = <<m>>
      <4>1. <<m>> \in Seq({m})
        OBVIOUS
      <4> QED
        BY <4>1, ConcatEmptySeq
    <3> QED
      BY <1>4, <1>6, <1>9, <3>1, AppendIsConcat
  <2>2. MailInv'
    BY <1>1, <1>7, <1>9, <2>1, MailMoves
  <2>3. AskedInv'
    BY <1>1, <1>4, <1>9, AskedStays
  <2>4. OwnInv'
    <3>1. ASSUME ~lost PROVE OwnMail' /\ OwnTaken' /\ OwnPlaces(page', pump', waiting', mail' = <<>>)
      <4>1. mail' = <<m>> /\ Len(mail') = 1 /\ mail'[1] = m /\ mail' # <<>>
        <5>1. Append(<<>>, m) = <<m>> /\ Len(<<m>>) = 1 /\ <<m>>[1] = m /\ <<m>> # <<>>
          OBVIOUS
        <5> QED
          BY <1>8, <2>1, <3>1, <5>1
      <4>2. Function[c] # "sign" => Certificate # Failed
        BY CommandFacts
      <4>3. m.of # Failed
        <5>1. c # Failed /\ None # Failed /\ Certificate # Failed
          BY <1>3, ValueAssumption
        <5> QED
          BY <1>9, <5>1
      <4>4. Own(m, waiting)'
        BY <1>4, <1>8, <1>9, <3>1, <4>3 DEF Own
      <4>5. OwnMail'
        <5>1. Len(mail') <= 1 /\ \A i \in 1..Len(mail') : mail'[i] = m
          BY <4>1
        <5>2. waiting' # None /\ m.command = waiting'
          BY <1>4, <1>8, <1>9, <3>1
        <5> QED
          BY <4>4, <5>1, <5>2 DEF OwnMail, Own
      <4> QED
        BY <1>1, <1>4, <1>8, <1>9, <3>1, <4>1, <4>5 DEF OwnTaken, Own
    <3> QED
      BY <1>1, <3>1 DEF OwnInv
  <2> QED
    BY <1>1, <1>9, <2>2, <2>3, <2>4 DEF BoundsInv
<1>10. ASSUME page' = postJson(page, x), h.replies = <<>> PROVE IInv'
  <2>1. mail' = Tail(mail)
    <3>1. <<>> \o <<>> = <<>>
      OBVIOUS
    <3> QED
      BY <1>4, <1>6, <1>10, <3>1, ConcatEmptySeq
  <2>2. PageInv(page') /\ Same(page, page') /\ (Fetching(page, x, page') \/ \E r : Queued(page, x, r, page'))
    BY <1>5, <1>10, PostPage
  <2>3. Lone(page, pump, x)
    BY <1>3, <1>5 DEF Fresh, Lone
  <2>4. <<x.command, "fetch">> \notin DOMAIN uses /\ <<x.command, "queue">> \notin DOMAIN uses
    BY <1>3, <1>5 DEF Fresh
  <2>5. PumpInv(page', pump') /\ OnceInv(page', pump', uses')
    BY <1>1, <1>5, <2>2, <2>3, <2>4, QueuedOnce, FetchingOnce
  <2>6. ASSUME NEW d \in Command, Fresh(page, pump, uses, d), d # c PROVE Fresh(page', pump', uses', d)
    BY <1>1, <1>5, <2>2, <2>6, PostFresh
  <2>7. MailInv'
    <3>1. page'.forced # <<>>
      BY <1>1, <2>2 DEF Same
    <3>2. \A d \in Command : ~(ToScript(1) /\ d = mail[1].command) => d # c
      BY DEF c
    <3> QED
      BY <1>1, <1>7, <2>1, <2>6, <3>1, <3>2, MailMoves
  <2>8. AskedInv'
    BY <1>3, <1>4, <1>7, <2>6 DEF AskedInv
  <2>9. BoundsInv'
    BY <1>1, <2>2 DEF BoundsInv, Same
  <2>10. OwnInv'
    <3>1. ASSUME ~lost PROVE OwnMail' /\ OwnTaken' /\ OwnPlaces(page', pump', waiting', mail' = <<>>)
      <4>1. mail' = <<>> /\ Len(mail') = 0
        BY <1>8, <2>1, <3>1
      <4>2. OwnPlaces(page, pump, waiting, TRUE) /\ x.command = waiting
        BY <1>5, <1>8, <3>1 DEF OwnPlaces
      <4>3. OwnPlaces(page', pump, waiting, TRUE)
        BY <1>5, <2>2, <4>2, PostOwn
      <4>4. OwnMail'
        BY <4>1 DEF OwnMail
      <4> QED
        BY <1>1, <1>4, <1>8, <3>1, <4>1, <4>3, <4>4 DEF OwnTaken, Own
    <3> QED
      BY <1>1, <3>1 DEF OwnInv
  <2> QED
    BY <2>2, <2>5, <2>7, <2>8, <2>9, <2>10
<1> QED
  BY <1>4, <1>5, <1>9, <1>10

LEMMA ReceiveReplyKeeps ==
  ASSUME IInv, Receive, ~ToScript(1)
  PROVE  IInv'
<1> USE DEF IInv
<1> DEFINE m == mail[1]
<1>1. /\ mail # <<>> /\ mail \in Seq(Message) /\ Head(mail) = m /\ Len(mail) \in Nat /\ 1 \in 1..Len(mail)
      /\ page.forced # <<>> /\ UNCHANGED <<pump, uses, failed, lost, troubles>>
  <2>1. mail # <<>> /\ mail \in Seq(Message) /\ UNCHANGED <<pump, uses, failed, lost, troubles>>
    BY DEF Receive, MailInv
  <2>2. Head(mail) = m /\ Len(mail) \in Nat /\ 1 \in 1..Len(mail)
    BY <2>1, HeadTailProperties, LenProperties, EmptySeq
  <2> QED
    BY <2>1, <2>2 DEF MailInv
<1>2. /\ mail' = Tail(mail) /\ waiting' = None /\ UNCHANGED page
      /\ taken' = IF waiting = None THEN taken ELSE Put(taken, waiting, m)
  BY <1>1 DEF Receive, ToScript
<1>3. AskedInv' /\ Asked' = Asked
  BY <1>1, <1>2, NoLongerWaits
<1>4. MailInv'
  BY <1>1, <1>2, <1>3, MailMoves
<1>5. OwnInv'
  <2>1. ASSUME ~lost PROVE OwnMail' /\ OwnTaken' /\ OwnPlaces(page', pump', waiting', mail' = <<>>)
    <3>1. /\ waiting # None /\ Own(m, waiting) /\ OwnPlaces(page, pump, waiting, FALSE) /\ OwnTaken
          /\ Len(mail) <= 1
      BY <1>1, <2>1 DEF OwnInv, OwnMail
    <3>2. Tail(mail) = <<>> /\ Len(mail') = 0
      <4>1. Tail(mail) \in Seq(Message) /\ Len(Tail(mail)) = Len(mail) - 1
        BY <1>1, HeadTailProperties
      <4> QED
        BY <1>1, <1>2, <3>1, <4>1, EmptySeq
    <3>3. OwnMail'
      BY <3>2 DEF OwnMail
    <3>4. OwnTaken'
      <4> HIDE DEF m
      <4> QED
        BY <1>1, <1>2, <3>1 DEF OwnTaken, Own, Put
    <3>5. OwnPlaces(page, pump, None, TRUE)
      BY <3>1 DEF OwnPlaces
    <3> QED
      BY <1>1, <1>2, <3>2, <3>3, <3>4, <3>5
  <2> QED
    BY <1>1, <2>1 DEF OwnInv
<1> QED
  BY <1>1, <1>2, <1>3, <1>4, <1>5 DEF BoundsInv

LEMMA GiveUpKeeps ==
  ASSUME IInv, GiveUp
  PROVE  IInv'
<1> USE DEF IInv
<1>1. /\ waiting' = None /\ taken' = (IF waiting = None THEN taken ELSE Put(taken, waiting, None))
      /\ lost' = TRUE /\ UNCHANGED <<page, mail, pump, uses, failed>>
      /\ troubles' = troubles + 1 /\ troubles + 1 <= MaxTroubles
  BY DEF GiveUp, Unanswered, Trouble, Troubles
<1>2. AskedInv' /\ Asked' = Asked
  BY <1>1, NoLongerWaits
<1>3. MailInv'
  BY <1>1, <1>2, MailStays DEF MailInv
<1>4. BoundsInv'
  <2>1. page.load \in Nat /\ Len(page.forced) \in Nat
    BY LenProperties DEF PageInv
  <2> QED
    BY <1>1, <2>1, BoundAssumption DEF BoundsInv
<1>5. OwnInv'
  BY <1>1 DEF OwnInv
<1> QED
  BY <1>1, <1>2, <1>3, <1>4, <1>5

LEMMA FreshPageFacts ==
  ASSUME NEW load \in Nat \ {0}, NEW p, p = FreshPage(load)
  PROVE  /\ PageInv(p) /\ p.load = load /\ p.forced = <<>> /\ Len(p.forced) = 0
         /\ p.fetching = {} /\ ToSet(p.requests) = {}
<1>1. /\ DOMAIN p = Fields /\ p.load = load /\ p.listeners = <<>> /\ p.forced = <<>> /\ p.certCache = <<>>
      /\ p.nextId = 1 /\ p.callbacks = <<>> /\ p.requests = <<>> /\ p.fetching = {}
  BY DEF FreshPage, Fields
<1>2. DOMAIN p.callbacks = {} /\ ToSet(p.requests) = {} /\ Len(p.forced) = 0
  BY <1>1, ToSetEmpty
<1> QED
  BY <1>1, <1>2 DEF PageInv

LEMMA ReloadKeeps ==
  ASSUME IInv, Reload
  PROVE  IInv'
<1> USE DEF IInv
<1>1. /\ page' = FreshPage(page.load + 1) /\ mail' = <<>>
      /\ waiting' = None /\ taken' = (IF waiting = None THEN taken ELSE Put(taken, waiting, None))
      /\ lost' = (lost \/ pump # {})
      /\ UNCHANGED <<pump, uses, failed>>
      /\ troubles' = troubles + 2 /\ troubles + 2 <= MaxTroubles
  BY DEF Reload, Unanswered, Troubles
<1>2. page.load \in Nat /\ page.load + 1 \in Nat \ {0}
  BY DEF PageInv
<1>3. /\ PageInv(page') /\ page'.load = page.load + 1 /\ page'.forced = <<>> /\ Len(page'.forced) = 0
      /\ page'.fetching = {} /\ ToSet(page'.requests) = {}
  BY <1>1, <1>2, FreshPageFacts
<1>4. Requests(page', pump') = pump /\ pump \subseteq Requests(page, pump)
  BY <1>1, <1>3 DEF Requests
<1>5. PumpInv(page', pump')
  <2>1. ASSUME NEW r \in pump PROVE r.call.load \in Nat /\ r.call.load <= page.load
    BY DEF PumpInv, Request, Call
  <2>2. \A r \in pump : r.call.load <= page.load + 1 /\ r.call.load # page.load + 1
    BY <1>2, <2>1
  <2> QED
    BY <1>1, <1>3, <2>2 DEF PumpInv
<1>6. OnceInv(page', pump', uses')
  BY <1>1, <1>3, <1>4 DEF OnceInv
<1>7. \A c : Fresh(page, pump, uses, c) => Fresh(page', pump', uses', c)
  BY <1>1, <1>3, <1>4 DEF Fresh
<1>8. AskedInv' /\ Asked' = Asked
  BY <1>1, <1>7, NoLongerWaits
<1>9. MailInv'
  <2>1. <<>> \in Seq(Message) /\ Len(<<>>) = 0
    OBVIOUS
  <2> QED
    BY <1>1, <2>1 DEF MailInv
<1>10. BoundsInv'
  BY <1>1, <1>2, <1>3, BoundAssumption DEF BoundsInv
<1>11. OwnInv'
  <2>1. lost' \in BOOLEAN
    BY <1>1
  <2>2. ASSUME ~lost' PROVE OwnMail' /\ OwnTaken' /\ OwnPlaces(page', pump', waiting', mail' = <<>>)
    <3>1. ~lost /\ pump = {}
      BY <1>1, <2>2
    <3>2. OwnTaken
      BY <3>1 DEF OwnInv
    <3>3. OwnTaken'
      BY <1>1, <3>2 DEF OwnTaken, Own, Put
    <3>4. OwnMail'
      <4>1. Len(mail') = 0
        BY <1>1
      <4> QED
        BY <4>1 DEF OwnMail
    <3>5. Requests(page', pump') = {}
      BY <1>4, <3>1
    <3> QED
      BY <1>3, <3>3, <3>4, <3>5 DEF OwnPlaces
  <2> QED
    BY <2>1, <2>2 DEF OwnInv
<1> QED
  BY <1>3, <1>5, <1>6, <1>8, <1>9, <1>10, <1>11

-----------------------------------------------------------------------------

LEMMA InitIInv == Init => IInv
<1> SUFFICES ASSUME Init PROVE IInv
  OBVIOUS
<1> USE DEF Init
<1>1. /\ PageInv(page) /\ page.load = 1 /\ page.forced = <<>> /\ Len(page.forced) = 0
      /\ page.fetching = {} /\ ToSet(page.requests) = {}
  BY FreshPageFacts
<1>2. Requests(page, pump) = {} /\ DOMAIN uses = {} /\ DOMAIN taken = {} /\ Len(mail) = 0
  BY <1>1 DEF Requests
<1>3. PumpInv(page, pump) /\ OnceInv(page, pump, uses)
  BY <1>1, <1>2 DEF PumpInv, OnceInv
<1>4. AskedInv
  <2>1. DOMAIN taken = 1..0
    BY <1>2
  <2>2. \A c : Fresh(page, pump, uses, c)
    BY <1>1, <1>2 DEF Fresh
  <2> QED
    BY <2>1, <2>2 DEF AskedInv
<1>5. MailInv
  BY <1>2 DEF MailInv
<1>6. BoundsInv
  BY <1>1, BoundAssumption DEF BoundsInv
<1>7. OwnInv
  <2>1. OwnMail /\ OwnTaken
    BY <1>2 DEF OwnMail, OwnTaken
  <2>2. OwnPlaces(page, pump, waiting, mail = <<>>)
    BY <1>1, <1>2 DEF OwnPlaces
  <2> QED
    BY <2>1, <2>2 DEF OwnInv
<1> QED
  BY <1>1, <1>3, <1>4, <1>5, <1>6, <1>7 DEF IInv

LEMMA NextKeeps == IInv /\ [Next]_vars => IInv'
<1> SUFFICES ASSUME IInv, [Next]_vars PROVE IInv'
  OBVIOUS
<1>1. CASE Inject \/ Ask \/ GiveUp \/ Reload
  BY <1>1, InjectKeeps, AskKeeps, GiveUpKeeps, ReloadKeeps
<1>2. CASE Receive
  BY <1>2, ReceiveCommandKeeps, ReceiveReplyKeeps
<1>3. CASE BridgeStep
  BY <1>3, TakeKeeps, FetchServedKeeps, FetchFailsKeeps, DeliverKeeps DEF BridgeStep
<1>4. CASE \E r \in pump : PumpEnds(r)
  BY <1>4, PumpEndsKeeps
<1>5. CASE UNCHANGED vars
  BY <1>5 DEF vars, IInv, AskedInv, Asked, MailInv, ToScript, BoundsInv, OwnInv, OwnMail, OwnTaken, Own
<1> QED
  BY <1>1, <1>2, <1>3, <1>4, <1>5 DEF Next

LEMMA Invariance == Spec => []IInv
BY InitIInv, NextKeeps, PTL DEF Spec

\* The window, the queue and the pump hold what they should, and no call is out
\* by two ways at once, whatever is injected, reloaded or fails.
THEOREM TypeCorrect == Spec => []TypeOK
<1>1. IInv => TypeOK
  <2> SUFFICES ASSUME IInv PROVE TypeOK
    OBVIOUS
  <2> USE DEF IInv
  <2>1. page.listeners \in {<<>>, <<1>>} /\ Len(page.certCache) = Len(page.forced)
    BY DEF PageInv
  <2>2. \A c \in DOMAIN page.certCache : page.certCache[c] \in {Certificate, None}
    BY LenProperties, ElementOfSeq DEF PageInv
  <2>3. page.fetching \subseteq Calls
    <3> SUFFICES ASSUME NEW x \in page.fetching PROVE x \in Calls
      OBVIOUS
    <3>1. /\ x \in Call /\ x.load = page.load /\ x.closure \in 1..Len(page.forced)
          /\ page.load \in Nat \ {0} /\ Len(page.forced) \in Nat
      BY LenProperties DEF PageInv, CallOf
    <3>2. /\ page.load <= troubles + 1 /\ Len(page.forced) <= troubles + 1
          /\ troubles \in Nat /\ troubles <= MaxTroubles
      BY DEF BoundsInv
    <3>3. x.load \in 1..MaxTroubles + 1 /\ x.closure \in 1..MaxTroubles + 1
      BY <3>1, <3>2, BoundAssumption
    <3> QED
      BY <3>1, <3>3 DEF Call, Calls
  <2>4. \A r \in ToSet(page.requests) : r.call \notin page.fetching /\ r \notin pump
    BY DEF OnceInv, Requests
  <2>5. waiting \in Command \cup {None} /\ waiting \notin DOMAIN taken
    BY CommandFacts DEF AskedInv
  <2> QED
    BY <2>1, <2>2, <2>3, <2>4, <2>5 DEF TypeOK, BoundsInv
<1> QED
  BY <1>1, Invariance, PTL

\* The reply the page takes is the one to its command, as long as it waits for
\* each and no pump carries an answer over a reload.
THEOREM OwnReplyAlways == Spec => []OwnReply
<1>1. IInv => OwnReply
  BY DEF IInv, OwnInv, OwnTaken, Own, OwnReply
<1> QED
  BY <1>1, Invariance, PTL

\* The token signs for a command once at most by each way, whatever is injected,
\* reloaded, given up, delivered late or lost with a pump that ended.
THEOREM SignsOnceAlways == Spec => []SignsOnce
<1>1. IInv => SignsOnce
  BY DEF IInv, OnceInv, SignsOnce
<1> QED
  BY <1>1, Invariance, PTL
===============================================================================
