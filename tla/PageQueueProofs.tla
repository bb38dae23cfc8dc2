--------------------------- MODULE PageQueueProofs ---------------------------
(***************************************************************************)
(* Theorems about PageQueue: its type invariant, how often the token is    *)
(* used for a call, and that page, queue, pumps and bridge implement       *)
(* RequestReply.  They hold for any messages, parts, pumps, chunks and any *)
(* number of failures, reloads and injections.                             *)
(*                                                                         *)
(* The argument: a call waits for its reply in one place, among the        *)
(* fetches or the callbacks, and what is still to use the token for it is  *)
(* in one place as well, in the queue, with a pump or at the bridge, or on *)
(* the way there by fetch.                                                 *)
(***************************************************************************)
EXTENDS PageQueue, FiniteSetTheorems, SequenceTheorems, TLAPS

Text       == Seq(Message \X Nat)
Request    == [id : Nat, call : Calls]
Chunk      == [of : Calls, ok : BOOLEAN, i : Nat]
Connection == [from : Pump \cup {"page"}, call : Calls]
Part       == [message : Message, part : Nat, load : Nat]
States     == {"idle", "post", "wait", "clear", "push", "deliver"}
Fields     == {"load", "forced", "partial", "requests", "callbacks", "nextId", "fetching", "chunks"}

\* Call c is of page p.
CallOf(p, c) == c \in Calls /\ c.load = p.load

PageInv(p) ==
  /\ DOMAIN p = Fields
  /\ p.load \in Nat \ {0} /\ p.nextId \in Nat \ {0} /\ p.forced \in BOOLEAN
  /\ p.partial \in Seq([Methods -> Text])
  /\ p.requests \in Seq(Request)
  /\ \A c \in p.fetching : CallOf(p, c)
  /\ \A r \in ToSet(p.requests) : CallOf(p, r.call) /\ r.id < p.nextId
  /\ DOMAIN p.callbacks \subseteq 1..(p.nextId - 1)
  /\ \A id \in DOMAIN p.callbacks : CallOf(p, p.callbacks[id])
  /\ \A id \in DOMAIN p.chunks : id \in Nat /\ p.chunks[id] \in Seq(Chunk)

\* A pump holds a batch until it has delivered all of it, each answer in chunks.
PumpType == [pc : States, batch : Seq(Request), ok : BOOLEAN, pushed : Nat]

PumpInv(q) ==
  /\ q.pc = "idle" <=> q.batch = <<>>
  /\ q.pc = "push" => q.pushed < IF q.ok THEN Chunks ELSE 1

TypeInv ==
  /\ PageInv(page)
  /\ pumps \in [Pump -> PumpType] /\ \A p \in Pump : PumpInv(pumps[p])
  /\ posted \in Seq(Part)
  /\ backlog \in Seq(Connection)
  /\ DOMAIN uses \subseteq Calls /\ \A c \in DOMAIN uses : uses[c] \in Nat
  /\ faults \in Nat /\ Trouble <= MaxTrouble

\* What has identifier id and is about call c is about the call that waits
\* under that identifier, unless it is of an earlier load.
Own(p, id, c) ==
  /\ c.load <= p.load
  /\ c.load = p.load => id < p.nextId /\ (id \in DOMAIN p.callbacks => p.callbacks[id] = c)

QueueOwn(p) ==
  \A r \in ToSet(p.requests) : Own(p, r.id, r.call) /\ (p.load = 1 => r.id \in DOMAIN p.callbacks)

BatchOwn(p, batch) ==
  \A r \in ToSet(batch) :
    /\ Own(p, r.id, r.call)
    /\ r.call.load = p.load => \A s \in ToSet(p.requests) : s.id # r.id

ChunksOwn(p) == \A id \in DOMAIN p.chunks : \A x \in ToSet(p.chunks[id]) : Own(p, id, x.of)

OwnInv == QueueOwn(page) /\ ChunksOwn(page) /\ \A p \in Pump : BatchOwn(page, pumps[p].batch)

\* The calls whose request is in the queue, or with a pump that has yet to post
\* it; those that wait at the bridge, from the page or from a pump; and those
\* whose promise waits under an identifier.
Queued(p)   == {r.call : r \in ToSet(p.requests)}
Unposted(q) == {q.batch[i].call : i \in {j \in DOMAIN q.batch : j > 1 \/ q.pc = "post"}}
Fetched     == {c.call : c \in {d \in ToSet(backlog) : d.from = "page"}}
Sent        == {c.call : c \in {d \in ToSet(backlog) : d.from # "page"}}
Called(p)   == {p.callbacks[id] : id \in DOMAIN p.callbacks}

Held     == UNION {Unposted(pumps[p]) : p \in Pump}
OnItsWay == Queued(page) \cup Sent \cup Held
Live     == page.fetching \cup OnItsWay \cup Fetched \cup Called(page) \cup DOMAIN uses \cup DOMAIN replies

\* Calls are about messages that have been posted in full.
AskedInv ==
  /\ \A m \in Asked : Progress(m) >= Parts[m]
  /\ \A c \in Live : c.message \in Asked

\* A call waits for its reply in one place, and has none yet.
OnceInv ==
  /\ Called(page) \cap (page.fetching \cup DOMAIN replies) = {}
  /\ page.fetching \cap DOMAIN replies = {}
  /\ \A i, j \in DOMAIN page.callbacks : page.callbacks[i] = page.callbacks[j] => i = j

Distinct(q) == \A i, j \in DOMAIN q : q[i].call = q[j].call => i = j

OneEach(conns) ==
  \A i, j \in DOMAIN conns :
    conns[i].call = conns[j].call /\ (conns[i].from = "page" <=> conns[j].from = "page") => i = j

\* What is still to use the token for a call, other than by fetch, is in one place.
PlaceInv ==
  /\ page.fetching \cap (Queued(page) \cup Sent) = {} /\ Queued(page) \cap Sent = {}
  /\ \A p \in Pump : Unposted(pumps[p]) \cap (page.fetching \cup Queued(page) \cup Sent) = {}
  /\ \A p, q \in Pump : p # q => Unposted(pumps[p]) \cap Unposted(pumps[q]) = {}
  /\ Distinct(page.requests) /\ \A p \in Pump : Distinct(pumps[p].batch)
  /\ OneEach(backlog)

\* How often the token has been used for call c, and will be by its fetch.
Ways(c) == Count(uses, c) + (IF c \in Fetched THEN 1 ELSE 0)

UseInv ==
  \A c \in Calls :
    /\ Ways(c) <= IF c \in page.fetching \cup OnItsWay THEN 1 ELSE 2
    /\ blocked => /\ c \notin Fetched
                  /\ Count(uses, c) <= IF c \in page.fetching \cup OnItsWay THEN 0 ELSE 1
    /\ ~blocked /\ faults = 0 =>
         /\ c \in page.fetching => c \in Fetched
         /\ Ways(c) <= IF c \in OnItsWay THEN 0 ELSE 1

IInv == TypeInv /\ OwnInv /\ AskedInv /\ OnceInv /\ PlaceInv /\ UseInv

-----------------------------------------------------------------------------
(* Sequences *)

LEMMA ToSetAppend ==
  ASSUME NEW S, NEW q \in Seq(S), NEW e \in S
  PROVE  ToSet(Append(q, e)) = ToSet(q) \cup {e}
<1>1. /\ Append(q, e) \in Seq(S) /\ Len(q) \in Nat /\ Len(Append(q, e)) = Len(q) + 1
      /\ \A i \in 1..Len(q) : Append(q, e)[i] = q[i]
      /\ Append(q, e)[Len(q) + 1] = e
      /\ DOMAIN q = 1..Len(q) /\ DOMAIN Append(q, e) = 1..(Len(q) + 1)
  OBVIOUS
<1> QED
  BY <1>1 DEF ToSet

LEMMA Concat ==
  ASSUME NEW S, NEW q \in Seq(S), NEW r \in Seq(S)
  PROVE  /\ q \o r \in Seq(S) /\ Len(q) \in Nat /\ Len(r) \in Nat /\ Len(q \o r) = Len(q) + Len(r)
         /\ \A i \in 1..Len(q) : (q \o r)[i] = q[i]
         /\ \A i \in 1..Len(r) : (q \o r)[Len(q) + i] = r[i]
         /\ DOMAIN q = 1..Len(q) /\ DOMAIN r = 1..Len(r) /\ DOMAIN (q \o r) = 1..(Len(q) + Len(r))
OBVIOUS

LEMMA ToSetConcat ==
  ASSUME NEW S, NEW q \in Seq(S), NEW r \in Seq(S)
  PROVE  ToSet(q \o r) = ToSet(q) \cup ToSet(r)
<1>1. /\ q \o r \in Seq(S) /\ Len(q) \in Nat /\ Len(r) \in Nat /\ Len(q \o r) = Len(q) + Len(r)
      /\ \A i \in 1..Len(q) : (q \o r)[i] = q[i]
      /\ \A i \in 1..Len(r) : (q \o r)[Len(q) + i] = r[i]
      /\ DOMAIN q = 1..Len(q) /\ DOMAIN r = 1..Len(r) /\ DOMAIN (q \o r) = 1..(Len(q) + Len(r))
  BY Concat
<1>2. ASSUME NEW i \in DOMAIN (q \o r) PROVE (q \o r)[i] \in ToSet(q) \cup ToSet(r)
  <2>1. CASE i <= Len(q)
    BY <1>1, <2>1 DEF ToSet
  <2>2. CASE i > Len(q)
    <3>1. PICK k : k = i - Len(q)
      OBVIOUS
    <3>2. k \in 1..Len(r) /\ i = Len(q) + k
      BY <1>1, <2>2, <3>1
    <3> QED
      BY <1>1, <3>2 DEF ToSet
  <2> QED
    BY <1>1, <2>1, <2>2
<1>3. ASSUME NEW i \in 1..Len(q) PROVE q[i] \in ToSet(q \o r)
  BY <1>1 DEF ToSet
<1>4. ASSUME NEW i \in 1..Len(r) PROVE r[i] \in ToSet(q \o r)
  <2>1. PICK k : k = Len(q) + i
    OBVIOUS
  <2>2. k \in DOMAIN (q \o r) /\ (q \o r)[k] = r[i]
    BY <1>1, <2>1
  <2> QED
    BY <2>2 DEF ToSet
<1> QED
  BY <1>1, <1>2, <1>3, <1>4 DEF ToSet

LEMMA HeadTail ==
  ASSUME NEW S, NEW q \in Seq(S), q # <<>>
  PROVE  /\ q[1] = Head(q) /\ Head(q) \in S /\ Tail(q) \in Seq(S) /\ Len(q) \in Nat \ {0}
         /\ DOMAIN q = 1..Len(q) /\ DOMAIN Tail(q) = 1..(Len(q) - 1)
         /\ \A i \in DOMAIN Tail(q) : i + 1 \in DOMAIN q /\ Tail(q)[i] = q[i + 1]
         /\ Head(q) \in ToSet(q)
         /\ ToSet(q) = {Head(q)} \cup ToSet(Tail(q))
<1>1. /\ q[1] = Head(q) /\ Head(q) \in S /\ Tail(q) \in Seq(S) /\ Len(q) \in Nat \ {0}
      /\ DOMAIN q = 1..Len(q) /\ DOMAIN Tail(q) = 1..(Len(q) - 1)
      /\ \A i \in 1..(Len(q) - 1) : Tail(q)[i] = q[i + 1]
  OBVIOUS
<1>2. \A i \in 1..(Len(q) - 1) : i + 1 \in 1..Len(q)
  BY <1>1
<1>3. ASSUME NEW i \in DOMAIN q, i # 1 PROVE q[i] \in ToSet(Tail(q))
  <2>1. PICK k : k = i - 1
    OBVIOUS
  <2>2. k \in DOMAIN Tail(q) /\ i = k + 1
    BY <1>1, <1>3, <2>1
  <2> QED
    BY <1>1, <2>2 DEF ToSet
<1>4. Head(q) \in ToSet(q)
  BY <1>1 DEF ToSet
<1>5. ToSet(q) \subseteq {Head(q)} \cup ToSet(Tail(q))
  BY <1>1, <1>3 DEF ToSet
<1>6. ToSet(Tail(q)) \subseteq ToSet(q)
  BY <1>1, <1>2 DEF ToSet
<1> QED
  BY <1>1, <1>2, <1>4, <1>5, <1>6

LEMMA MoreThanOne ==
  ASSUME NEW S, NEW q \in Seq(S), q # <<>>, Len(q) # 1
  PROVE  Tail(q) # <<>>
<1>1. Tail(q) \in Seq(S) /\ Len(Tail(q)) = Len(q) - 1 /\ Len(q) \in Nat
  OBVIOUS
<1>2. Len(<<>>) = 0
  OBVIOUS
<1>3. Len(q) - 1 # 0
  BY <1>1
<1> QED
  BY <1>1, <1>2, <1>3

LEMMA ToSetIn ==
  ASSUME NEW S, NEW q \in Seq(S)
  PROVE  ToSet(q) \subseteq S
BY DEF ToSet

LEMMA CallLoad ==
  ASSUME NEW c \in Calls
  PROVE  c.load \in Nat \ {0}
BY BoundAssumption DEF Calls

LEMMA SetOfNone ==
  ToSet(<<>>) = {}
BY DEF ToSet

LEMMA DistinctTail ==
  ASSUME NEW S, NEW q \in Seq(S), q # <<>>, Distinct(q)
  PROVE  Distinct(Tail(q)) /\ \A i \in DOMAIN Tail(q) : Tail(q)[i].call # Head(q).call
<1>1. /\ q[1] = Head(q) /\ Len(q) \in Nat \ {0}
      /\ DOMAIN q = 1..Len(q) /\ DOMAIN Tail(q) = 1..(Len(q) - 1)
      /\ \A i \in DOMAIN Tail(q) : i + 1 \in DOMAIN q /\ Tail(q)[i] = q[i + 1]
  BY HeadTail
<1>2. 1 \in DOMAIN q
  BY <1>1
<1>3. ASSUME NEW i \in DOMAIN Tail(q) PROVE Tail(q)[i].call # Head(q).call
  <2>1. i \in Nat \ {0}
    BY <1>1
  <2>2. i + 1 # 1
    BY <2>1
  <2> QED
    BY <1>1, <1>2, <2>2 DEF Distinct
<1>4. ASSUME NEW i \in DOMAIN Tail(q), NEW j \in DOMAIN Tail(q), Tail(q)[i].call = Tail(q)[j].call PROVE i = j
  <2>1. i \in Nat /\ j \in Nat
    BY <1>1
  <2>2. i + 1 = j + 1
    BY <1>1, <1>4 DEF Distinct
  <2> QED
    BY <2>1, <2>2
<1> QED
  BY <1>3, <1>4 DEF Distinct

-----------------------------------------------------------------------------
(* What queueJson does to a page *)

Enqueues(p, calls, q) ==
  /\ DOMAIN q = Fields
  /\ q.load = p.load /\ q.forced = p.forced /\ q.partial = p.partial
  /\ q.fetching = p.fetching /\ q.chunks = p.chunks
  /\ q.nextId = p.nextId + Len(calls)
  /\ q.requests \in Seq(Request) /\ Len(q.requests) = Len(p.requests) + Len(calls)
  /\ \A i \in 1..Len(p.requests) : q.requests[i] = p.requests[i]
  /\ \A i \in 1..Len(calls) : q.requests[Len(p.requests) + i] = [id |-> p.nextId + i - 1, call |-> calls[i]]
  /\ DOMAIN q.callbacks = DOMAIN p.callbacks \cup p.nextId..(p.nextId + Len(calls) - 1)
  /\ \A id \in DOMAIN p.callbacks : q.callbacks[id] = p.callbacks[id]
  /\ \A i \in 1..Len(calls) : q.callbacks[p.nextId + i - 1] = calls[i]

LEMMA QueueJsonEnqueues ==
  ASSUME NEW p, PageInv(p), NEW calls \in Seq(Calls), NEW q, q = queueJson(p, calls)
  PROVE  Enqueues(p, calls, q)
<1> DEFINE id(i) == p.nextId + i - 1
           ids   == {id(i) : i \in DOMAIN calls}
           back  == [j \in DOMAIN p.callbacks \cup ids |->
                       IF j \in ids THEN calls[j - p.nextId + 1] ELSE p.callbacks[j]]
           asks  == [i \in DOMAIN calls |-> [id |-> id(i), call |-> calls[i]]]
<1>1. /\ p.nextId \in Nat \ {0} /\ p.requests \in Seq(Request) /\ DOMAIN p = Fields
      /\ DOMAIN p.callbacks \subseteq 1..(p.nextId - 1)
  BY DEF PageInv
<1>2. Len(calls) \in Nat /\ DOMAIN calls = 1..Len(calls) /\ \A i \in 1..Len(calls) : calls[i] \in Calls
  OBVIOUS
<1>3. \A i \in 1..Len(calls) : id(i) \in Nat
  BY <1>1, <1>2
<1>4. asks \in Seq(Request) /\ Len(asks) = Len(calls)
  <2>1. \A i \in 1..Len(calls) : asks[i] \in Request
    BY <1>2, <1>3 DEF Request
  <2>2. asks \in [1..Len(calls) -> Request]
    BY <1>2, <2>1
  <2> QED
    BY <1>2, <2>2, IsASeq
<1>5. /\ DOMAIN q = Fields
      /\ q.load = p.load /\ q.forced = p.forced /\ q.partial = p.partial
      /\ q.fetching = p.fetching /\ q.chunks = p.chunks
      /\ q.nextId = p.nextId + Len(calls)
      /\ q.requests = p.requests \o asks
      /\ q.callbacks = back
  BY <1>1 DEF queueJson, Enqueued, Fields
<1> HIDE DEF asks, back
<1>6. /\ q.requests \in Seq(Request) /\ Len(q.requests) = Len(p.requests) + Len(calls)
      /\ \A i \in 1..Len(p.requests) : q.requests[i] = p.requests[i]
      /\ \A i \in 1..Len(calls) : q.requests[Len(p.requests) + i] = asks[i]
  <2>1. p.requests \in Seq(Request) /\ asks \in Seq(Request)
    BY <1>1, <1>4
  <2>2. /\ p.requests \o asks \in Seq(Request)
        /\ Len(p.requests \o asks) = Len(p.requests) + Len(asks)
        /\ \A i \in 1..Len(p.requests) : (p.requests \o asks)[i] = p.requests[i]
        /\ \A i \in 1..Len(asks) : (p.requests \o asks)[Len(p.requests) + i] = asks[i]
    BY <2>1, Concat
  <2> QED
    BY <1>4, <1>5, <2>2
<1>7. \A i \in 1..Len(calls) : asks[i] = [id |-> p.nextId + i - 1, call |-> calls[i]]
  BY <1>2 DEF asks
<1>8. ids = p.nextId..(p.nextId + Len(calls) - 1)
  <2>1. \A i \in 1..Len(calls) : id(i) \in p.nextId..(p.nextId + Len(calls) - 1)
    BY <1>1, <1>2
  <2>2. ASSUME NEW j \in p.nextId..(p.nextId + Len(calls) - 1) PROVE j \in ids
    <3>1. PICK i : i = j - p.nextId + 1
      OBVIOUS
    <3>2. i \in 1..Len(calls) /\ j = id(i)
      BY <1>1, <1>2, <3>1
    <3> QED
      BY <1>2, <3>2
  <2> QED
    BY <1>2, <2>1, <2>2
<1> HIDE DEF ids
<1>9. DOMAIN q.callbacks = DOMAIN p.callbacks \cup p.nextId..(p.nextId + Len(calls) - 1)
  BY <1>5, <1>8 DEF back
<1>10. \A j \in DOMAIN p.callbacks : q.callbacks[j] = p.callbacks[j]
  <2>1. \A j \in DOMAIN p.callbacks : j \notin ids
    BY <1>1, <1>2, <1>8
  <2> QED
    BY <1>5, <2>1 DEF back
<1>11. ASSUME NEW i \in 1..Len(calls) PROVE q.callbacks[p.nextId + i - 1] = calls[i]
  <2>1. PICK j : j = p.nextId + i - 1
    OBVIOUS
  <2>2. j \in ids /\ j - p.nextId + 1 = i
    BY <1>1, <1>2, <1>8, <2>1
  <2>3. q.callbacks[j] = calls[j - p.nextId + 1]
    BY <1>5, <2>2 DEF back
  <2> QED
    BY <2>1, <2>2, <2>3
<1> QED
  BY <1>5, <1>6, <1>7, <1>9, <1>10, <1>11 DEF Enqueues

\* What is new in the queue and among the callbacks.
Ticket(p, calls, i) == [id |-> p.nextId + i - 1, call |-> calls[i]]

LEMMA EnqueuedSets ==
  ASSUME NEW p, PageInv(p), NEW calls \in Seq(Calls), NEW q, Enqueues(p, calls, q)
  PROVE  /\ ToSet(q.requests) = ToSet(p.requests) \cup {Ticket(p, calls, i) : i \in 1..Len(calls)}
         /\ Queued(q) = Queued(p) \cup ToSet(calls)
         /\ Called(q) = Called(p) \cup ToSet(calls)
<1>1. /\ p.nextId \in Nat \ {0} /\ Len(p.requests) \in Nat /\ Len(calls) \in Nat
      /\ DOMAIN p.requests = 1..Len(p.requests) /\ DOMAIN calls = 1..Len(calls)
      /\ DOMAIN q.requests = 1..(Len(p.requests) + Len(calls))
      /\ DOMAIN p.callbacks \subseteq 1..(p.nextId - 1)
  BY DEF PageInv, Enqueues
<1>2. /\ \A i \in 1..Len(p.requests) : q.requests[i] = p.requests[i]
      /\ \A i \in 1..Len(calls) : q.requests[Len(p.requests) + i] = Ticket(p, calls, i)
  BY DEF Enqueues, Ticket
<1>3. \A i \in 1..Len(p.requests) : i \in DOMAIN q.requests
  BY <1>1
<1>4. \A i \in 1..Len(calls) : Len(p.requests) + i \in DOMAIN q.requests
  BY <1>1
<1>5. ASSUME NEW i \in DOMAIN q.requests
      PROVE  i \in 1..Len(p.requests) \/ \E k \in 1..Len(calls) : i = Len(p.requests) + k
  <2>1. PICK k : k = i - Len(p.requests)
    OBVIOUS
  <2> QED
    BY <1>1, <2>1
<1>6. ToSet(q.requests) = ToSet(p.requests) \cup {Ticket(p, calls, i) : i \in 1..Len(calls)}
  <2>1. ASSUME NEW i \in DOMAIN q.requests
        PROVE  q.requests[i] \in ToSet(p.requests) \cup {Ticket(p, calls, k) : k \in 1..Len(calls)}
    BY <1>1, <1>2, <1>5 DEF ToSet
  <2>2. ASSUME NEW i \in DOMAIN p.requests PROVE p.requests[i] \in ToSet(q.requests)
    BY <1>1, <1>2, <1>3 DEF ToSet
  <2>3. ASSUME NEW i \in 1..Len(calls) PROVE Ticket(p, calls, i) \in ToSet(q.requests)
    <3>1. PICK k : k = Len(p.requests) + i
      OBVIOUS
    <3>2. k \in DOMAIN q.requests /\ q.requests[k] = Ticket(p, calls, i)
      BY <1>2, <1>4, <3>1
    <3> QED
      BY <3>2 DEF ToSet
  <2> QED
    BY <2>1, <2>2, <2>3 DEF ToSet
<1>7. Queued(q) = Queued(p) \cup ToSet(calls)
  <2>1. \A i \in 1..Len(calls) : Ticket(p, calls, i).call = calls[i]
    BY DEF Ticket
  <2>2. {r.call : r \in {Ticket(p, calls, i) : i \in 1..Len(calls)}} = ToSet(calls)
    BY <1>1, <2>1 DEF ToSet
  <2> QED
    BY <1>6, <2>2 DEF Queued
<1>8. /\ \A id \in DOMAIN p.callbacks : id \in DOMAIN q.callbacks /\ q.callbacks[id] = p.callbacks[id]
      /\ \A i \in 1..Len(calls) : q.callbacks[p.nextId + i - 1] = calls[i]
      /\ DOMAIN q.callbacks = DOMAIN p.callbacks \cup p.nextId..(p.nextId + Len(calls) - 1)
  BY DEF Enqueues
<1>9. ASSUME NEW id \in p.nextId..(p.nextId + Len(calls) - 1) PROVE q.callbacks[id] \in ToSet(calls)
  <2>1. PICK i : i = id - p.nextId + 1
    OBVIOUS
  <2>2. i \in 1..Len(calls) /\ id = p.nextId + i - 1
    BY <1>1, <2>1
  <2> QED
    BY <1>1, <1>8, <2>2 DEF ToSet
<1>10. ASSUME NEW i \in 1..Len(calls) PROVE calls[i] \in Called(q)
  <2>1. PICK id : id = p.nextId + i - 1
    OBVIOUS
  <2>2. id \in DOMAIN q.callbacks
    BY <1>1, <1>8, <2>1
  <2> QED
    BY <1>8, <2>1, <2>2 DEF Called
<1>11. Called(q) = Called(p) \cup ToSet(calls)
  <2>1. Called(p) \subseteq Called(q)
    BY <1>8 DEF Called
  <2>2. ToSet(calls) \subseteq Called(q)
    BY <1>1, <1>10 DEF ToSet
  <2>3. Called(q) \subseteq Called(p) \cup ToSet(calls)
    BY <1>8, <1>9 DEF Called
  <2> QED
    BY <2>1, <2>2, <2>3
<1> QED
  BY <1>6, <1>7, <1>11

LEMMA EnqueuedOwn ==
  ASSUME NEW p, PageInv(p), NEW calls \in Seq(Calls), \A c \in ToSet(calls) : c.load = p.load,
         NEW q, Enqueues(p, calls, q)
  PROVE  /\ PageInv(q)
         /\ QueueOwn(p) => QueueOwn(q)
         /\ ChunksOwn(p) => ChunksOwn(q)
         /\ \A batch : BatchOwn(p, batch) /\ (\A r \in ToSet(batch) : r.id \in Nat) => BatchOwn(q, batch)
<1>1. /\ p.nextId \in Nat \ {0} /\ Len(calls) \in Nat /\ DOMAIN calls = 1..Len(calls)
      /\ DOMAIN p.callbacks \subseteq 1..(p.nextId - 1)
      /\ p.load \in Nat \ {0}
      /\ \A r \in ToSet(p.requests) : CallOf(p, r.call) /\ r.id < p.nextId
  BY DEF PageInv
<1>2. /\ q.load = p.load /\ q.fetching = p.fetching /\ q.chunks = p.chunks
      /\ q.nextId = p.nextId + Len(calls) /\ q.requests \in Seq(Request)
      /\ DOMAIN q.callbacks = DOMAIN p.callbacks \cup p.nextId..(p.nextId + Len(calls) - 1)
      /\ \A id \in DOMAIN p.callbacks : q.callbacks[id] = p.callbacks[id]
      /\ \A i \in 1..Len(calls) : q.callbacks[p.nextId + i - 1] = calls[i]
      /\ DOMAIN q = Fields /\ q.forced = p.forced /\ q.partial = p.partial
  BY DEF Enqueues
<1>3. /\ ToSet(q.requests) = ToSet(p.requests) \cup {Ticket(p, calls, i) : i \in 1..Len(calls)}
      /\ Called(q) = Called(p) \cup ToSet(calls)
  BY EnqueuedSets
<1>4. \A i \in 1..Len(calls) : /\ Ticket(p, calls, i).id = p.nextId + i - 1
                              /\ Ticket(p, calls, i).call = calls[i]
                              /\ calls[i] \in ToSet(calls) /\ calls[i] \in Calls /\ calls[i].load = p.load
                              /\ p.nextId + i - 1 \in p.nextId..(p.nextId + Len(calls) - 1)
  BY <1>1 DEF Ticket, ToSet
<1>5. ToSet(p.requests) \subseteq Request
  BY DEF PageInv, ToSet
<1>6. \A c \in Called(q) : CallOf(p, c)
  <2>1. \A c \in Called(p) : CallOf(p, c)
    BY DEF PageInv, Called
  <2>2. \A c \in ToSet(calls) : CallOf(p, c)
    BY <1>1 DEF ToSet, CallOf
  <2> QED
    BY <1>3, <2>1, <2>2
<1>7. \A c : CallOf(p, c) <=> CallOf(q, c)
  BY <1>2 DEF CallOf
<1>8. PageInv(q)
  <2>1. \A r \in ToSet(q.requests) : CallOf(q, r.call) /\ r.id < q.nextId
    <3>1. ASSUME NEW r \in ToSet(p.requests) PROVE CallOf(q, r.call) /\ r.id < q.nextId
      BY <1>1, <1>2, <1>5, <1>7 DEF Request
    <3>2. ASSUME NEW i \in 1..Len(calls)
          PROVE  CallOf(q, Ticket(p, calls, i).call) /\ Ticket(p, calls, i).id < q.nextId
      BY <1>1, <1>2, <1>4 DEF CallOf
    <3> QED
      BY <1>3, <3>1, <3>2
  <2>2. DOMAIN q.callbacks \subseteq 1..(q.nextId - 1)
    BY <1>1, <1>2
  <2>3. \A id \in DOMAIN q.callbacks : CallOf(q, q.callbacks[id])
    BY <1>6, <1>7 DEF Called
  <2>4. q.nextId \in Nat \ {0}
    BY <1>1, <1>2
  <2> QED
    BY <1>2, <1>7, <2>1, <2>2, <2>3, <2>4 DEF PageInv
<1>9. ASSUME NEW id \in Nat, NEW c, Own(p, id, c) PROVE Own(q, id, c)
  <2>1. c.load = p.load => id < q.nextId
    BY <1>1, <1>2, <1>9 DEF Own
  <2>2. ASSUME c.load = p.load, id \in DOMAIN q.callbacks PROVE id \in DOMAIN p.callbacks
    <3>1. id < p.nextId
      BY <1>9, <2>2 DEF Own
    <3>2. id \notin p.nextId..(p.nextId + Len(calls) - 1)
      BY <1>1, <3>1
    <3> QED
      BY <1>2, <2>2, <3>2
  <2> QED
    BY <1>2, <1>9, <2>1, <2>2 DEF Own
<1>10. QueueOwn(p) => QueueOwn(q)
  <2> SUFFICES ASSUME QueueOwn(p) PROVE QueueOwn(q)
    OBVIOUS
  <2>1. ASSUME NEW r \in ToSet(p.requests) PROVE Own(q, r.id, r.call) /\ (q.load = 1 => r.id \in DOMAIN q.callbacks)
    BY <1>2, <1>5, <1>9 DEF QueueOwn, Request
  <2>2. ASSUME NEW i \in 1..Len(calls)
        PROVE  LET r == Ticket(p, calls, i) IN Own(q, r.id, r.call) /\ r.id \in DOMAIN q.callbacks
    BY <1>1, <1>2, <1>4 DEF Own
  <2> QED
    BY <1>3, <2>1, <2>2 DEF QueueOwn
<1>11. ChunksOwn(p) => ChunksOwn(q)
  <2> SUFFICES ASSUME ChunksOwn(p), NEW id \in DOMAIN p.chunks, NEW x \in ToSet(p.chunks[id]) PROVE Own(q, id, x.of)
    BY <1>2 DEF ChunksOwn
  <2>1. Own(p, id, x.of)
    BY DEF ChunksOwn
  <2>2. id \in Nat
    BY DEF PageInv
  <2> QED
    BY <1>9, <2>1, <2>2
<1>12. ASSUME NEW batch, BatchOwn(p, batch), \A r \in ToSet(batch) : r.id \in Nat PROVE BatchOwn(q, batch)
  <2>1. ASSUME NEW r \in ToSet(batch), r.call.load = p.load, NEW s \in ToSet(q.requests) PROVE s.id # r.id
    <3>1. r.id < p.nextId /\ r.id \in Nat
      BY <1>12, <2>1 DEF BatchOwn, Own
    <3>2. r.id \notin p.nextId..(p.nextId + Len(calls) - 1)
      BY <1>1, <3>1
    <3>3. \A i \in 1..Len(calls) : Ticket(p, calls, i).id # r.id
      BY <1>4, <3>2
    <3>4. \A t \in ToSet(p.requests) : t.id # r.id
      BY <1>12, <2>1 DEF BatchOwn
    <3> QED
      BY <1>3, <3>3, <3>4
  <2> QED
    BY <1>2, <1>9, <1>12, <2>1 DEF BatchOwn
<1> QED
  BY <1>8, <1>10, <1>11, <1>12

LEMMA EnqueuedOnce ==
  ASSUME NEW p, PageInv(p), NEW calls \in Seq(Calls), \A i, j \in 1..Len(calls) : calls[i] = calls[j] => i = j,
         NEW q, Enqueues(p, calls, q)
  PROVE  /\ Distinct(p.requests) /\ Queued(p) \cap ToSet(calls) = {} => Distinct(q.requests)
         /\ (\A i, j \in DOMAIN p.callbacks : p.callbacks[i] = p.callbacks[j] => i = j)
              /\ Called(p) \cap ToSet(calls) = {}
            => \A i, j \in DOMAIN q.callbacks : q.callbacks[i] = q.callbacks[j] => i = j
<1>1. /\ p.nextId \in Nat \ {0} /\ Len(p.requests) \in Nat /\ Len(calls) \in Nat
      /\ DOMAIN p.requests = 1..Len(p.requests) /\ DOMAIN calls = 1..Len(calls)
      /\ DOMAIN q.requests = 1..(Len(p.requests) + Len(calls))
      /\ DOMAIN p.callbacks \subseteq 1..(p.nextId - 1)
  BY DEF PageInv, Enqueues
<1>2. \A i \in 1..Len(calls) : calls[i] \in ToSet(calls)
  BY <1>1 DEF ToSet
<1>3. ASSUME Distinct(p.requests), Queued(p) \cap ToSet(calls) = {} PROVE Distinct(q.requests)
  <2>1. \A i \in 1..Len(p.requests) : q.requests[i].call = p.requests[i].call /\ p.requests[i].call \in Queued(p)
    BY <1>1 DEF Enqueues, Queued, ToSet
  <2>2. ASSUME NEW i \in 1..Len(calls) PROVE q.requests[Len(p.requests) + i].call = calls[i]
    <3>1. q.requests[Len(p.requests) + i] = [id |-> p.nextId + i - 1, call |-> calls[i]]
      BY DEF Enqueues
    <3> QED
      BY <3>1
  <2>3. ASSUME NEW i \in DOMAIN q.requests
        PROVE  \/ i \in 1..Len(p.requests)
               \/ \E k \in 1..Len(calls) : i = Len(p.requests) + k
    <3>1. PICK k : k = i - Len(p.requests)
      OBVIOUS
    <3> QED
      BY <1>1, <3>1
  <2>4. ASSUME NEW i \in DOMAIN q.requests, NEW j \in DOMAIN q.requests, q.requests[i].call = q.requests[j].call
        PROVE  i = j
    <3>1. CASE i \in 1..Len(p.requests) /\ j \in 1..Len(p.requests)
      BY <1>1, <1>3, <2>1, <2>4, <3>1 DEF Distinct
    <3>2. CASE i \notin 1..Len(p.requests) /\ j \notin 1..Len(p.requests)
      <4>1. PICK k \in 1..Len(calls) : i = Len(p.requests) + k
        BY <2>3, <3>2
      <4>2. PICK l \in 1..Len(calls) : j = Len(p.requests) + l
        BY <2>3, <3>2
      <4>3. calls[k] = calls[l]
        BY <2>2, <2>4, <4>1, <4>2
      <4> QED
        BY <4>1, <4>2, <4>3
    <3>3. CASE i \in 1..Len(p.requests) /\ j \notin 1..Len(p.requests)
      <4>1. PICK l \in 1..Len(calls) : j = Len(p.requests) + l
        BY <2>3, <3>3
      <4>2. calls[l] \in Queued(p)
        BY <2>1, <2>2, <2>4, <3>3, <4>1
      <4> QED
        BY <1>2, <1>3, <4>2
    <3>4. CASE i \notin 1..Len(p.requests) /\ j \in 1..Len(p.requests)
      <4>1. PICK k \in 1..Len(calls) : i = Len(p.requests) + k
        BY <2>3, <3>4
      <4>2. calls[k] \in Queued(p)
        BY <2>1, <2>2, <2>4, <3>4, <4>1
      <4> QED
        BY <1>2, <1>3, <4>2
    <3> QED
      BY <3>1, <3>2, <3>3, <3>4
  <2> QED
    BY <2>4 DEF Distinct
<1>4. ASSUME \A i, j \in DOMAIN p.callbacks : p.callbacks[i] = p.callbacks[j] => i = j,
             Called(p) \cap ToSet(calls) = {},
             NEW i \in DOMAIN q.callbacks, NEW j \in DOMAIN q.callbacks, q.callbacks[i] = q.callbacks[j]
      PROVE  i = j
  <2>1. /\ DOMAIN q.callbacks = DOMAIN p.callbacks \cup p.nextId..(p.nextId + Len(calls) - 1)
        /\ \A id \in DOMAIN p.callbacks : q.callbacks[id] = p.callbacks[id] /\ p.callbacks[id] \in Called(p)
        /\ \A k \in 1..Len(calls) : q.callbacks[p.nextId + k - 1] = calls[k]
    BY DEF Enqueues, Called
  <2>2. ASSUME NEW id \in p.nextId..(p.nextId + Len(calls) - 1)
        PROVE  \E k \in 1..Len(calls) : id = p.nextId + k - 1
    <3>1. PICK k : k = id - p.nextId + 1
      OBVIOUS
    <3>2. k \in 1..Len(calls) /\ id = p.nextId + k - 1
      BY <1>1, <3>1
    <3> QED
      BY <3>2
  <2>3. CASE i \in DOMAIN p.callbacks /\ j \in DOMAIN p.callbacks
    BY <1>4, <2>1, <2>3
  <2>4. CASE i \notin DOMAIN p.callbacks /\ j \notin DOMAIN p.callbacks
    BY <1>4, <2>1, <2>2, <2>4
  <2>5. CASE i \in DOMAIN p.callbacks /\ j \notin DOMAIN p.callbacks
    BY <1>2, <1>4, <2>1, <2>2, <2>5
  <2>6. CASE i \notin DOMAIN p.callbacks /\ j \in DOMAIN p.callbacks
    BY <1>2, <1>4, <2>1, <2>2, <2>6
  <2> QED
    BY <2>3, <2>4, <2>5, <2>6
<1> QED
  BY <1>3, <1>4

-----------------------------------------------------------------------------
(* Steps that only take away *)

LEMMA CountIsNat ==
  ASSUME TypeInv, NEW c
  PROVE  Count(uses, c) \in Nat
BY DEF TypeInv, Count

LEMMA UseKept ==
  ASSUME TypeInv, UseInv, UNCHANGED <<uses, blocked>>, Fetched' = Fetched, page'.fetching \subseteq page.fetching,
         OnItsWay' \subseteq OnItsWay, faults' = 0 => faults = 0
  PROVE  UseInv'
<1> SUFFICES ASSUME NEW c \in Calls
             PROVE  /\ Ways(c)' <= IF c \in page'.fetching \cup OnItsWay' THEN 1 ELSE 2
                    /\ blocked' => /\ c \notin Fetched'
                                   /\ Count(uses', c) <= IF c \in page'.fetching \cup OnItsWay' THEN 0 ELSE 1
                    /\ ~blocked' /\ faults' = 0 =>
                         /\ c \in page'.fetching => c \in Fetched'
                         /\ Ways(c)' <= IF c \in OnItsWay' THEN 0 ELSE 1
  BY DEF UseInv
<1>1. Count(uses, c) \in Nat /\ Count(uses', c) = Count(uses, c)
  BY CountIsNat
<1>2. Ways(c) \in Nat /\ Ways(c)' = Ways(c)
  BY <1>1 DEF Ways
<1>3. /\ Ways(c) <= IF c \in page.fetching \cup OnItsWay THEN 1 ELSE 2
      /\ blocked => /\ c \notin Fetched
                    /\ Count(uses, c) <= IF c \in page.fetching \cup OnItsWay THEN 0 ELSE 1
      /\ ~blocked /\ faults = 0 =>
           /\ c \in page.fetching => c \in Fetched
           /\ Ways(c) <= IF c \in OnItsWay THEN 0 ELSE 1
  BY DEF UseInv
<1>4. /\ c \in page'.fetching => c \in page.fetching
      /\ c \in OnItsWay' => c \in OnItsWay
  OBVIOUS
<1> QED
  BY <1>1, <1>2, <1>3, <1>4

LEMMA OwnKept ==
  ASSUME NEW p, NEW q, q.load = p.load, q.nextId = p.nextId,
         DOMAIN q.callbacks \subseteq DOMAIN p.callbacks,
         \A id \in DOMAIN q.callbacks : q.callbacks[id] = p.callbacks[id]
  PROVE  /\ \A id, c : Own(p, id, c) => Own(q, id, c)
         /\ ToSet(q.requests) \subseteq ToSet(p.requests) => \A b : BatchOwn(p, b) => BatchOwn(q, b)
<1>1. \A id, c : Own(p, id, c) => Own(q, id, c)
  BY DEF Own
<1> QED
  BY <1>1 DEF BatchOwn

\* A step that hands nothing on: pumps go on with what they have or less of it,
\* and callbacks may be replied to.
LEMMA QuietStep ==
  ASSUME IInv, PageInv(page'),
         page'.load = page.load, page'.nextId = page.nextId,
         page'.requests = page.requests, page'.fetching = page.fetching,
         DOMAIN page'.callbacks \subseteq DOMAIN page.callbacks,
         \A id \in DOMAIN page'.callbacks : page'.callbacks[id] = page.callbacks[id],
         page.load = 1 => \A r \in ToSet(page.requests) : r.id \in DOMAIN page.callbacks => r.id \in DOMAIN page'.callbacks,
         ChunksOwn(page'),
         pumps' \in [Pump -> PumpType],
         \A p \in Pump : /\ PumpInv(pumps'[p]) /\ Distinct(pumps'[p].batch)
                         /\ ToSet(pumps'[p].batch) \subseteq ToSet(pumps[p].batch)
                         /\ Unposted(pumps'[p]) \subseteq Unposted(pumps[p]),
         DOMAIN replies' \subseteq DOMAIN replies \cup (Called(page) \ Called(page')),
         UNCHANGED <<posted, backlog, uses, blocked>>,
         faults' \in Nat, faults' = 0 => faults = 0, Trouble' <= MaxTrouble
  PROVE  IInv'
<1>1. TypeInv'
  BY DEF IInv, TypeInv
<1>2. \A id, c : Own(page, id, c) => Own(page', id, c)
  BY OwnKept
<1>3. \A b : BatchOwn(page, b) => BatchOwn(page', b)
  BY OwnKept
<1>4. OwnInv'
  <2>1. QueueOwn(page')
    BY <1>2 DEF IInv, OwnInv, QueueOwn
  <2>2. ASSUME NEW p \in Pump PROVE BatchOwn(page', pumps'[p].batch)
    <3>1. BatchOwn(page', pumps[p].batch)
      BY <1>3 DEF IInv, OwnInv
    <3> QED
      BY <3>1 DEF BatchOwn
  <2> QED
    BY <2>1, <2>2 DEF OwnInv
<1>5. /\ Queued(page') = Queued(page) /\ Sent' = Sent /\ Fetched' = Fetched
      /\ Called(page') \subseteq Called(page)
  BY DEF Queued, Sent, Fetched, Called
<1>6. Held' \subseteq Held
  BY DEF Held
<1>7. OnItsWay' \subseteq OnItsWay
  BY <1>5, <1>6 DEF OnItsWay
<1>8. Live' \subseteq Live
  BY <1>5, <1>7 DEF Live
<1>9. AskedInv'
  BY <1>8 DEF IInv, AskedInv, Asked, Progress
<1>10. OnceInv'
  <2>1. Called(page') \cap (page'.fetching \cup DOMAIN replies') = {}
    BY <1>5 DEF IInv, OnceInv
  <2>2. page'.fetching \cap DOMAIN replies' = {}
    BY DEF IInv, OnceInv
  <2>3. ASSUME NEW i \in DOMAIN page'.callbacks, NEW j \in DOMAIN page'.callbacks,
               page'.callbacks[i] = page'.callbacks[j]
        PROVE  i = j
    BY <2>3 DEF IInv, OnceInv
  <2> QED
    BY <2>1, <2>2, <2>3 DEF OnceInv
<1>11. PlaceInv'
  BY <1>5 DEF IInv, PlaceInv
<1>12. UseInv'
  BY <1>5, <1>7, UseKept DEF IInv
<1> QED
  BY <1>1, <1>4, <1>9, <1>10, <1>11, <1>12 DEF IInv

LEMMA TroubleIs ==
  ASSUME TypeInv
  PROVE  /\ page.load \in Nat \ {0} /\ faults \in Nat /\ Len(page.partial) \in Nat
         /\ (page.partial = <<>>) <=> (Len(page.partial) = 0)
         /\ page.load + faults <= MaxTrouble + 1
BY BoundAssumption DEF TypeInv, PageInv, Trouble

LEMMA FaultStays ==
  ASSUME TypeInv, Fault \/ UNCHANGED faults, page'.load = page.load, page'.partial = page.partial
  PROVE  faults' \in Nat /\ (faults' = 0 => faults = 0) /\ Trouble' <= MaxTrouble
<1>1. /\ page.load \in Nat \ {0} /\ faults \in Nat /\ Len(page.partial) \in Nat
  BY TroubleIs
<1>2. Trouble \in Int /\ Trouble <= MaxTrouble /\ MaxTrouble \in Nat
  BY <1>1, BoundAssumption DEF Trouble, TypeInv
<1>3. CASE Fault
  <2>1. Trouble < MaxTrouble /\ faults' = faults + 1
    BY <1>3 DEF Fault
  <2>2. Trouble' = Trouble + 1
    BY <1>1, <2>1 DEF Trouble
  <2> QED
    BY <1>1, <1>2, <2>1, <2>2
<1>4. CASE UNCHANGED faults
  BY <1>1, <1>2, <1>4 DEF Trouble
<1> QED
  BY <1>3, <1>4

LEMMA SamePumps ==
  ASSUME IInv, UNCHANGED pumps
  PROVE  /\ pumps' \in [Pump -> PumpType]
         /\ \A p \in Pump : /\ PumpInv(pumps'[p]) /\ Distinct(pumps'[p].batch)
                            /\ ToSet(pumps'[p].batch) \subseteq ToSet(pumps[p].batch)
                            /\ Unposted(pumps'[p]) \subseteq Unposted(pumps[p])
BY DEF IInv, TypeInv, PlaceInv

LEMMA NoPartialsType ==
  NoPartials \in [Methods -> Text]
<1>1. <<>> \in Text
  BY DEF Text
<1> QED
  BY <1>1 DEF NoPartials

LEMMA InjectKeeps ==
  ASSUME IInv, Inject
  PROVE  IInv'
<1> DEFINE q == page.partial
<1>1. PICK force \in BOOLEAN :
        page' = [page EXCEPT !.partial = Append(@, NoPartials), !.forced = @ \/ force]
  BY DEF Inject
<1>2. /\ UNCHANGED <<posted, pumps, backlog, uses, replies, blocked, faults>>
      /\ q # <<>> => Trouble + 2 <= MaxTrouble
  BY DEF Inject
<1>3. TypeInv /\ PageInv(page)
  BY DEF IInv, TypeInv
<1>4. /\ DOMAIN page' = Fields /\ page'.forced \in BOOLEAN
      /\ page'.partial = Append(q, NoPartials)
      /\ page'.load = page.load /\ page'.nextId = page.nextId
      /\ page'.requests = page.requests /\ page'.fetching = page.fetching
      /\ page'.callbacks = page.callbacks /\ page'.chunks = page.chunks
  BY <1>1, <1>3 DEF PageInv, Fields
<1>5. q \in Seq([Methods -> Text])
  BY <1>3 DEF PageInv
<1>6. /\ Append(q, NoPartials) \in Seq([Methods -> Text])
      /\ Len(Append(q, NoPartials)) = Len(q) + 1 /\ Append(q, NoPartials) # <<>>
  BY <1>5, NoPartialsType, AppendProperties
<1>7. PageInv(page')
  BY <1>3, <1>4, <1>6 DEF PageInv, CallOf
<1>8. Trouble' <= MaxTrouble
  <2>1. /\ page.load \in Nat \ {0} /\ faults \in Nat /\ Len(q) \in Nat
        /\ (q = <<>>) <=> (Len(q) = 0)
        /\ page.load + faults <= MaxTrouble + 1
    BY <1>3, TroubleIs
  <2>2. Trouble' = faults + (page.load - 1) + 2 * Len(q)
    BY <1>2, <1>4, <1>6, <2>1 DEF Trouble
  <2>3. CASE q = <<>>
    BY <2>1, <2>2, <2>3, BoundAssumption
  <2>4. CASE q # <<>>
    BY <1>2, <2>1, <2>2, <2>4, BoundAssumption DEF Trouble
  <2> QED
    BY <2>3, <2>4
<1>9. ChunksOwn(page')
  <2>1. ChunksOwn(page)
    BY DEF IInv, OwnInv
  <2> QED
    BY <1>4, <2>1 DEF ChunksOwn, Own
<1>10. faults \in Nat
  BY <1>3 DEF TypeInv
<1> QED
  BY <1>2, <1>4, <1>7, <1>8, <1>9, <1>10, SamePumps, QuietStep

\* A pump goes on as q: the others are as they were.
LEMMA PumpGoes ==
  ASSUME IInv, NEW p \in Pump, NEW q \in PumpType, PumpInv(q), Distinct(q.batch),
         ToSet(q.batch) \subseteq ToSet(pumps[p].batch), Unposted(q) \subseteq Unposted(pumps[p]),
         pumps' = [pumps EXCEPT ![p] = q]
  PROVE  /\ pumps' \in [Pump -> PumpType]
         /\ \A r \in Pump : /\ PumpInv(pumps'[r]) /\ Distinct(pumps'[r].batch)
                            /\ ToSet(pumps'[r].batch) \subseteq ToSet(pumps[r].batch)
                            /\ Unposted(pumps'[r]) \subseteq Unposted(pumps[r])
<1>1. pumps \in [Pump -> PumpType]
  BY DEF IInv, TypeInv
<1>2. \A r \in Pump : PumpInv(pumps[r]) /\ Distinct(pumps[r].batch)
  BY DEF IInv, TypeInv, PlaceInv
<1>3. pumps' \in [Pump -> PumpType]
  BY <1>1
<1>4. \A r \in Pump : pumps'[r] = IF r = p THEN q ELSE pumps[r]
  BY <1>1
<1> QED
  BY <1>2, <1>3, <1>4

LEMMA IdleType ==
  /\ Idle \in PumpType /\ PumpInv(Idle) /\ Distinct(Idle.batch)
  /\ ToSet(Idle.batch) = {} /\ Unposted(Idle) = {}
<1>1. <<>> \in Seq(Request) /\ DOMAIN <<>> = {}
  OBVIOUS
<1> QED
  BY <1>1 DEF Idle, PumpType, PumpInv, Distinct, ToSet, Unposted, States

\* The page is as it was.
LEMMA SamePage ==
  ASSUME IInv, UNCHANGED page
  PROVE  /\ PageInv(page') /\ ChunksOwn(page')
         /\ page'.load = page.load /\ page'.nextId = page.nextId /\ page'.partial = page.partial
         /\ page'.requests = page.requests /\ page'.fetching = page.fetching
         /\ DOMAIN page'.callbacks \subseteq DOMAIN page.callbacks
         /\ \A id \in DOMAIN page'.callbacks : page'.callbacks[id] = page.callbacks[id]
         /\ page.load = 1 => \A r \in ToSet(page.requests) : r.id \in DOMAIN page.callbacks => r.id \in DOMAIN page'.callbacks
BY DEF IInv, TypeInv, OwnInv

\* The chunks are another thing of the page.
LEMMA OtherChunks ==
  ASSUME IInv, NEW chunks, page' = [page EXCEPT !.chunks = chunks],
         \A id \in DOMAIN chunks : id \in Nat /\ chunks[id] \in Seq(Chunk)
                                  /\ \A x \in ToSet(chunks[id]) : Own(page, id, x.of)
  PROVE  /\ PageInv(page') /\ ChunksOwn(page')
         /\ page'.load = page.load /\ page'.nextId = page.nextId /\ page'.partial = page.partial
         /\ page'.requests = page.requests /\ page'.fetching = page.fetching
         /\ DOMAIN page'.callbacks \subseteq DOMAIN page.callbacks
         /\ \A id \in DOMAIN page'.callbacks : page'.callbacks[id] = page.callbacks[id]
         /\ page.load = 1 => \A r \in ToSet(page.requests) : r.id \in DOMAIN page.callbacks => r.id \in DOMAIN page'.callbacks
<1>1. PageInv(page)
  BY DEF IInv, TypeInv
<1>2. /\ DOMAIN page' = Fields /\ page'.forced = page.forced
      /\ page'.load = page.load /\ page'.nextId = page.nextId /\ page'.partial = page.partial
      /\ page'.requests = page.requests /\ page'.fetching = page.fetching
      /\ page'.callbacks = page.callbacks /\ page'.chunks = chunks
  BY <1>1 DEF PageInv, Fields
<1>3. PageInv(page')
  BY <1>1, <1>2 DEF PageInv, CallOf
<1>4. ChunksOwn(page')
  BY <1>2 DEF ChunksOwn, Own
<1> QED
  BY <1>2, <1>3, <1>4

LEMMA PumpEndsKeeps ==
  ASSUME IInv, NEW p \in Pump, PumpEnds(p)
  PROVE  IInv'
<1>1. /\ Fault /\ pumps' = [pumps EXCEPT ![p] = Idle]
      /\ UNCHANGED <<page, posted, backlog, uses, replies, blocked>>
  BY DEF PumpEnds
<1>2. TypeInv
  BY DEF IInv
<1>3. faults' \in Nat /\ (faults' = 0 => faults = 0) /\ Trouble' <= MaxTrouble
  BY <1>1, <1>2, FaultStays
<1>4. /\ pumps' \in [Pump -> PumpType]
      /\ \A r \in Pump : /\ PumpInv(pumps'[r]) /\ Distinct(pumps'[r].batch)
                         /\ ToSet(pumps'[r].batch) \subseteq ToSet(pumps[r].batch)
                         /\ Unposted(pumps'[r]) \subseteq Unposted(pumps[r])
  BY <1>1, IdleType, PumpGoes
<1> QED
  BY <1>1, <1>3, <1>4, SamePage, QuietStep

LEMMA PumpHolds ==
  ASSUME IInv, NEW p \in Pump
  PROVE  /\ pumps[p] \in PumpType /\ PumpInv(pumps[p]) /\ Distinct(pumps[p].batch)
         /\ pumps[p].pc # "idle" =>
              /\ pumps[p].batch # <<>> /\ Current(p) \in Request /\ Current(p) \in ToSet(pumps[p].batch)
              /\ Own(page, Current(p).id, Current(p).call)
              /\ Current(p).call.load = page.load => \A s \in ToSet(page.requests) : s.id # Current(p).id
<1>1. pumps[p] \in PumpType /\ PumpInv(pumps[p]) /\ Distinct(pumps[p].batch) /\ BatchOwn(page, pumps[p].batch)
  BY DEF IInv, TypeInv, PlaceInv, OwnInv
<1>2. pumps[p].batch \in Seq(Request)
  BY <1>1 DEF PumpType
<1>3. ASSUME pumps[p].pc # "idle"
      PROVE  pumps[p].batch # <<>> /\ Current(p) \in Request /\ Current(p) \in ToSet(pumps[p].batch)
  <2>1. pumps[p].batch # <<>>
    BY <1>1, <1>3 DEF PumpInv
  <2> QED
    BY <1>2, <2>1, HeadTail DEF Current
<1> QED
  BY <1>1, <1>3 DEF BatchOwn

LEMMA PostFailsKeeps ==
  ASSUME IInv, NEW p \in Pump, PostFails(p)
  PROVE  IInv'
<1> DEFINE q == [pumps[p] EXCEPT !.pc = "clear", !.ok = FALSE]
<1>1. /\ Fault \/ UNCHANGED faults
      /\ pumps[p].pc = "wait"
      /\ pumps' = [pumps EXCEPT ![p].pc = "clear", ![p].ok = FALSE]
      /\ UNCHANGED <<page, posted, backlog, uses, replies, blocked>>
  BY DEF PostFails
<1>2. pumps[p] \in PumpType /\ PumpInv(pumps[p]) /\ Distinct(pumps[p].batch) /\ pumps \in [Pump -> PumpType]
  BY PumpHolds DEF IInv, TypeInv
<1>3. /\ q \in PumpType /\ q.pc = "clear" /\ q.batch = pumps[p].batch
      /\ pumps' = [pumps EXCEPT ![p] = q]
  BY <1>1, <1>2 DEF PumpType, States
<1> HIDE DEF q
<1>4. PumpInv(q) /\ Unposted(q) \subseteq Unposted(pumps[p])
  BY <1>1, <1>2, <1>3 DEF PumpInv, Unposted
<1>5. TypeInv
  BY DEF IInv
<1>6. faults' \in Nat /\ (faults' = 0 => faults = 0) /\ Trouble' <= MaxTrouble
  BY <1>1, <1>5, FaultStays
<1>7. /\ pumps' \in [Pump -> PumpType]
      /\ \A r \in Pump : /\ PumpInv(pumps'[r]) /\ Distinct(pumps'[r].batch)
                         /\ ToSet(pumps'[r].batch) \subseteq ToSet(pumps[r].batch)
                         /\ Unposted(pumps'[r]) \subseteq Unposted(pumps[r])
  BY <1>2, <1>3, <1>4, PumpGoes
<1> QED
  BY <1>1, <1>6, <1>7, SamePage, QuietStep

LEMMA ClearChunksKeeps ==
  ASSUME IInv, NEW p \in Pump, ClearChunks(p)
  PROVE  IInv'
<1> DEFINE q == [pumps[p] EXCEPT !.pc = "push", !.pushed = 0]
           chunks == Put(page.chunks, Current(p).id, <<>>)
<1>1. /\ pumps[p].pc = "clear"
      /\ pumps' = [pumps EXCEPT ![p].pc = "push", ![p].pushed = 0]
      /\ UNCHANGED <<posted, backlog, uses, replies, blocked, faults>>
      /\ PageInv(page) /\ ChunksOwn(page)
      /\ TypeInv
  BY DEF ClearChunks, IInv, TypeInv, OwnInv
<1>2. page' = [page EXCEPT !.chunks = chunks]
  BY <1>1 DEF ClearChunks, PageInv, Fields
<1>3. /\ pumps[p] \in PumpType /\ PumpInv(pumps[p]) /\ Distinct(pumps[p].batch) /\ pumps \in [Pump -> PumpType]
      /\ Current(p).id \in Nat
  BY <1>1, PumpHolds DEF IInv, TypeInv, Request
<1>4. /\ q \in PumpType /\ q.pc = "push" /\ q.pushed = 0 /\ q.batch = pumps[p].batch
      /\ pumps' = [pumps EXCEPT ![p] = q]
  BY <1>1, <1>3 DEF PumpType, States
<1> HIDE DEF q
<1>5. PumpInv(q) /\ Unposted(q) \subseteq Unposted(pumps[p])
  BY <1>1, <1>3, <1>4, ChunksAssumption DEF PumpInv, Unposted
<1>6. /\ pumps' \in [Pump -> PumpType]
      /\ \A r \in Pump : /\ PumpInv(pumps'[r]) /\ Distinct(pumps'[r].batch)
                         /\ ToSet(pumps'[r].batch) \subseteq ToSet(pumps[r].batch)
                         /\ Unposted(pumps'[r]) \subseteq Unposted(pumps[r])
  BY <1>3, <1>4, <1>5, PumpGoes
<1>7. \A id \in DOMAIN chunks : /\ id \in Nat /\ chunks[id] \in Seq(Chunk)
                               /\ \A x \in ToSet(chunks[id]) : Own(page, id, x.of)
  <2>1. /\ DOMAIN chunks = DOMAIN page.chunks \cup {Current(p).id}
        /\ chunks[Current(p).id] = <<>>
        /\ \A id \in DOMAIN page.chunks : id # Current(p).id => chunks[id] = page.chunks[id]
    BY DEF Put
  <2>2. <<>> \in Seq(Chunk) /\ ToSet(<<>>) = {}
    BY SetOfNone
  <2> HIDE DEF chunks
  <2>3. ASSUME NEW id \in DOMAIN page.chunks, id # Current(p).id
        PROVE  /\ id \in Nat /\ chunks[id] \in Seq(Chunk)
               /\ \A x \in ToSet(chunks[id]) : Own(page, id, x.of)
    BY <1>1, <2>1, <2>3 DEF PageInv, ChunksOwn
  <2> QED
    BY <1>3, <2>1, <2>2, <2>3
<1> HIDE DEF chunks
<1>8. faults' \in Nat /\ (faults' = 0 => faults = 0)
  BY <1>1 DEF TypeInv
<1>9. page'.load = page.load /\ page'.partial = page.partial
  BY <1>2, <1>7, OtherChunks
<1>10. Trouble' <= MaxTrouble
  BY <1>1, <1>9, FaultStays
<1> QED
  BY <1>1, <1>2, <1>6, <1>7, <1>8, <1>10, OtherChunks, QuietStep

LEMMA GoesOnKeeps ==
  ASSUME IInv, NEW p \in Pump, NEW q \in PumpType, PumpInv(q), Distinct(q.batch),
         ToSet(q.batch) \subseteq ToSet(pumps[p].batch), Unposted(q) \subseteq Unposted(pumps[p]),
         NEW exception, GoesOn(p, q, exception)
  PROVE  /\ pumps' \in [Pump -> PumpType]
         /\ \A r \in Pump : /\ PumpInv(pumps'[r]) /\ Distinct(pumps'[r].batch)
                            /\ ToSet(pumps'[r].batch) \subseteq ToSet(pumps[r].batch)
                            /\ Unposted(pumps'[r]) \subseteq Unposted(pumps[r])
<1>1. CASE pumps' = [pumps EXCEPT ![p] = q]
  BY <1>1, PumpGoes
<1>2. CASE pumps' = [pumps EXCEPT ![p] = Idle]
  BY <1>2, IdleType, PumpGoes
<1> QED
  BY <1>1, <1>2 DEF GoesOn

LEMMA BodyIs ==
  ASSUME IInv, NEW p \in Pump, pumps[p].pc = "push"
  PROVE  /\ Len(Body(p)) = (IF pumps[p].ok THEN Chunks ELSE 1)
         /\ pumps[p].pushed \in Nat /\ pumps[p].pushed < Len(Body(p))
         /\ Body(p)[pumps[p].pushed + 1] \in Chunk
         /\ Body(p)[pumps[p].pushed + 1].of = Current(p).call
<1> DEFINE n == IF pumps[p].ok THEN Chunks ELSE 1
           k == pumps[p].pushed + 1
<1>1. /\ pumps[p] \in PumpType /\ PumpInv(pumps[p]) /\ Current(p).call \in Calls
  BY PumpHolds DEF Request
<1>2. /\ n \in Nat /\ pumps[p].pushed \in Nat /\ pumps[p].pushed < n /\ pumps[p].ok \in BOOLEAN
  BY <1>1, ChunksAssumption DEF PumpType, PumpInv
<1>3. k \in 1..n /\ k \in Nat
  BY <1>2
<1>4. Body(p) = [i \in 1..n |-> [of |-> Current(p).call, ok |-> pumps[p].ok, i |-> i]]
  BY DEF Body
<1> HIDE DEF n, k
<1>5. Body(p)[k] = [of |-> Current(p).call, ok |-> pumps[p].ok, i |-> k]
  BY <1>3, <1>4
<1>6. Len(Body(p)) = n
  BY <1>2, <1>4
<1> QED
  BY <1>1, <1>2, <1>3, <1>5, <1>6 DEF n, k, Chunk

LEMMA PushChunkKeeps ==
  ASSUME IInv, NEW p \in Pump, PushChunk(p)
  PROVE  IInv'
<1> DEFINE id   == Current(p).id
           n    == pumps[p].pushed + 1
           x    == Body(p)[n]
           next == IF n = Len(Body(p)) THEN "deliver" ELSE "push"
           q    == [pumps[p] EXCEPT !.pushed = n, !.pc = next]
           here == id \in DOMAIN page.chunks
<1>1. /\ pumps[p].pc = "push"
      /\ page' = IF here THEN [page EXCEPT !.chunks[id] = Append(@, x)] ELSE page
      /\ GoesOn(p, q, ~here)
      /\ UNCHANGED <<posted, backlog, uses, replies, blocked, faults>>
      /\ PageInv(page) /\ ChunksOwn(page) /\ TypeInv
  BY DEF PushChunk, IInv, TypeInv, OwnInv
<1>2. /\ Len(Body(p)) = (IF pumps[p].ok THEN Chunks ELSE 1)
      /\ pumps[p].pushed \in Nat /\ pumps[p].pushed < Len(Body(p))
      /\ x \in Chunk /\ x.of = Current(p).call
  BY <1>1, BodyIs
<1>3. /\ pumps[p] \in PumpType /\ PumpInv(pumps[p]) /\ Distinct(pumps[p].batch)
      /\ id \in Nat /\ Own(page, id, x.of)
  BY <1>1, <1>2, PumpHolds DEF Request
<1> HIDE DEF x
<1>4. next \in {"push", "deliver"} /\ (next = "push" => n # Len(Body(p)))
  OBVIOUS
<1>5. n \in Nat /\ (next = "push" => n < IF pumps[p].ok THEN Chunks ELSE 1)
  BY <1>2, <1>4, ChunksAssumption
<1> HIDE DEF next
<1>6. /\ q \in PumpType /\ q.pc = next /\ q.pushed = n /\ q.batch = pumps[p].batch /\ q.ok = pumps[p].ok
  BY <1>3, <1>4, <1>5 DEF PumpType, States
<1> HIDE DEF q
<1>7. PumpInv(q) /\ Unposted(q) \subseteq Unposted(pumps[p])
  BY <1>1, <1>3, <1>4, <1>5, <1>6 DEF PumpInv, Unposted
<1>8. /\ pumps' \in [Pump -> PumpType]
      /\ \A r \in Pump : /\ PumpInv(pumps'[r]) /\ Distinct(pumps'[r].batch)
                         /\ ToSet(pumps'[r].batch) \subseteq ToSet(pumps[r].batch)
                         /\ Unposted(pumps'[r]) \subseteq Unposted(pumps[r])
  <2>1. ToSet(q.batch) \subseteq ToSet(pumps[p].batch) /\ Distinct(q.batch)
    BY <1>3, <1>6
  <2> QED
    BY <1>1, <1>6, <1>7, <2>1, GoesOnKeeps
<1>9. faults' \in Nat /\ (faults' = 0 => faults = 0)
  BY <1>1 DEF TypeInv
<1>10. CASE here
  <2> DEFINE chunks == [page.chunks EXCEPT ![id] = Append(@, x)]
  <2>1. page' = [page EXCEPT !.chunks = chunks]
    BY <1>1, <1>10 DEF PageInv, Fields
  <2>2. page.chunks[id] \in Seq(Chunk)
    BY <1>1, <1>10 DEF PageInv
  <2>3. Append(page.chunks[id], x) \in Seq(Chunk) /\ ToSet(Append(page.chunks[id], x)) = ToSet(page.chunks[id]) \cup {x}
    BY <1>2, <2>2, ToSetAppend, AppendProperties
  <2>4. ASSUME NEW k \in DOMAIN chunks
        PROVE  k \in Nat /\ chunks[k] \in Seq(Chunk) /\ \A y \in ToSet(chunks[k]) : Own(page, k, y.of)
    <3>1. k \in DOMAIN page.chunks /\ chunks[k] = IF k = id THEN Append(page.chunks[id], x) ELSE page.chunks[k]
      OBVIOUS
    <3>2. k \in Nat /\ page.chunks[k] \in Seq(Chunk) /\ \A y \in ToSet(page.chunks[k]) : Own(page, k, y.of)
      BY <1>1, <3>1 DEF PageInv, ChunksOwn
    <3> HIDE DEF chunks, here
    <3>3. CASE k = id
      BY <1>3, <2>3, <3>1, <3>2, <3>3
    <3>4. CASE k # id
      BY <3>1, <3>2, <3>4
    <3> QED
      BY <3>3, <3>4
  <2> HIDE DEF chunks
  <2>5. page'.load = page.load /\ page'.partial = page.partial
    BY <2>1, <2>4, OtherChunks
  <2>6. Trouble' <= MaxTrouble
    BY <1>1, <2>5, FaultStays
  <2> QED
    BY <1>1, <1>8, <1>9, <2>1, <2>4, <2>6, OtherChunks, QuietStep
<1>11. CASE ~here
  <2>1. UNCHANGED page
    BY <1>1, <1>11
  <2>2. Trouble' <= MaxTrouble
    BY <1>1, <2>1, FaultStays
  <2> QED
    BY <1>1, <1>8, <1>9, <2>1, <2>2, SamePage, QuietStep
<1> QED
  BY <1>10, <1>11

LEMMA DoneIs ==
  ASSUME IInv, NEW p \in Pump, pumps[p].pc = "deliver"
  PROVE  /\ Done(p) \in PumpType /\ PumpInv(Done(p)) /\ Distinct(Done(p).batch)
         /\ ToSet(Done(p).batch) \subseteq ToSet(pumps[p].batch)
         /\ Unposted(Done(p)) \subseteq Unposted(pumps[p])
<1> DEFINE batch == pumps[p].batch
<1>1. /\ pumps[p] \in PumpType /\ PumpInv(pumps[p]) /\ Distinct(batch) /\ batch # <<>>
  BY PumpHolds
<1>2. batch \in Seq(Request)
  BY <1>1 DEF PumpType
<1>3. CASE Len(batch) = 1
  BY <1>3, IdleType DEF Done
<1>4. CASE Len(batch) # 1
  <2> DEFINE q == [Idle EXCEPT !.pc = "post", !.batch = Tail(batch)]
  <2>1. Done(p) = q
    BY <1>4 DEF Done
  <2>2. /\ Tail(batch) \in Seq(Request) /\ Len(batch) \in Nat \ {0}
        /\ DOMAIN batch = 1..Len(batch) /\ DOMAIN Tail(batch) = 1..(Len(batch) - 1)
        /\ \A i \in DOMAIN Tail(batch) : i + 1 \in DOMAIN batch /\ Tail(batch)[i] = batch[i + 1]
        /\ ToSet(batch) = {Head(batch)} \cup ToSet(Tail(batch))
    BY <1>1, <1>2, HeadTail
  <2>3. Tail(batch) # <<>>
    BY <1>1, <1>2, <1>4, MoreThanOne
  <2>4. q \in PumpType /\ q.pc = "post" /\ q.batch = Tail(batch)
    BY <2>2 DEF Idle, PumpType, States
  <2>5. PumpInv(q)
    BY <2>3, <2>4 DEF PumpInv
  <2>6. Distinct(Tail(batch))
    BY <1>1, <1>2, DistinctTail
  <2> HIDE DEF q
  <2>7. ASSUME NEW i \in DOMAIN Tail(batch) PROVE Tail(batch)[i].call \in Unposted(pumps[p])
    <3>1. i + 1 \in DOMAIN batch /\ Tail(batch)[i] = batch[i + 1] /\ i + 1 > 1
      BY <2>2
    <3> QED
      BY <3>1 DEF Unposted
  <2>8. Unposted(q) \subseteq Unposted(pumps[p])
    BY <2>4, <2>7 DEF Unposted
  <2> QED
    BY <2>1, <2>2, <2>4, <2>5, <2>6, <2>8
<1> QED
  BY <1>3, <1>4

LEMMA DeliverKeeps ==
  ASSUME IInv, NEW p \in Pump, Deliver(p)
  PROVE  IInv'
<1> DEFINE id     == Current(p).id
           here   == id \in DOMAIN page.chunks
           joined == page.chunks[id]
           parses == here /\ joined # <<>> /\
                     joined = [i \in 1..(IF joined[1].ok THEN Chunks ELSE 1) |->
                                 [of |-> joined[1].of, ok |-> joined[1].ok, i |-> i]]
           called == parses /\ page.partial # <<>> /\ id \in DOMAIN page.callbacks
           chunks == Drop(page.chunks, id)
           callbacks == IF called THEN Drop(page.callbacks, id) ELSE page.callbacks
           reply  == [of |-> joined[1].of, ok |-> pumps[p].ok /\ joined[1].ok]
<1>1. /\ pumps[p].pc = "deliver"
      /\ page' = [page EXCEPT !.chunks = chunks, !.callbacks = callbacks]
      /\ replies' = IF called THEN Replied(page.callbacks[id], joined[1].of, pumps[p].ok /\ joined[1].ok)
                    ELSE replies
      /\ GoesOn(p, Done(p), ~parses \/ page.partial = <<>>)
      /\ UNCHANGED <<posted, backlog, uses, blocked, faults>>
  BY DEF Deliver
<1>2. PageInv(page) /\ ChunksOwn(page) /\ TypeInv /\ OnceInv
  BY DEF IInv, TypeInv, OwnInv
<1>3. called => id \in DOMAIN page.callbacks
  OBVIOUS
<1> HIDE DEF called, parses, joined, here
<1>4. /\ DOMAIN page' = Fields /\ page'.forced = page.forced
      /\ page'.load = page.load /\ page'.nextId = page.nextId /\ page'.partial = page.partial
      /\ page'.requests = page.requests /\ page'.fetching = page.fetching
      /\ page'.callbacks = callbacks /\ page'.chunks = chunks
  BY <1>1, <1>2 DEF PageInv, Fields
<1>5. /\ DOMAIN chunks \subseteq DOMAIN page.chunks
      /\ \A k \in DOMAIN chunks : chunks[k] = page.chunks[k]
  BY DEF Drop
<1>6. /\ DOMAIN callbacks = IF called THEN DOMAIN page.callbacks \ {id} ELSE DOMAIN page.callbacks
      /\ \A k \in DOMAIN callbacks : callbacks[k] = page.callbacks[k]
  BY DEF Drop
<1> HIDE DEF chunks, callbacks
<1>7. /\ DOMAIN page'.callbacks \subseteq DOMAIN page.callbacks
      /\ \A k \in DOMAIN page'.callbacks : page'.callbacks[k] = page.callbacks[k]
  BY <1>4, <1>6
<1>8. \A k, c : Own(page, k, c) => Own(page', k, c)
  BY <1>4, <1>7, OwnKept
<1>9. PageInv(page')
  <2>1. DOMAIN page'.callbacks \subseteq 1..(page'.nextId - 1)
    BY <1>2, <1>4, <1>7 DEF PageInv
  <2>2. \A k \in DOMAIN page'.callbacks : CallOf(page', page'.callbacks[k])
    BY <1>2, <1>4, <1>7 DEF PageInv, CallOf
  <2>3. \A k \in DOMAIN page'.chunks : k \in Nat /\ page'.chunks[k] \in Seq(Chunk)
    BY <1>2, <1>4, <1>5 DEF PageInv
  <2> QED
    BY <1>2, <1>4, <2>1, <2>2, <2>3 DEF PageInv, CallOf
<1>10. ChunksOwn(page')
  BY <1>2, <1>4, <1>5, <1>8 DEF ChunksOwn
<1>11. page.load = 1 => \A r \in ToSet(page.requests) : r.id \in DOMAIN page.callbacks => r.id \in DOMAIN page'.callbacks
  <2> SUFFICES ASSUME page.load = 1, NEW r \in ToSet(page.requests) PROVE r.id # id
    BY <1>4, <1>6
  <2>1. /\ Own(page, id, Current(p).call) /\ Current(p).call \in Calls
        /\ Current(p).call.load = page.load => \A s \in ToSet(page.requests) : s.id # id
    BY <1>1, PumpHolds DEF Request
  <2>2. Current(p).call.load \in Nat /\ Current(p).call.load >= 1 /\ Current(p).call.load <= 1
    BY <2>1, BoundAssumption DEF Own, Calls
  <2>3. Current(p).call.load = page.load
    BY <2>2
  <2> QED
    BY <2>1, <2>3
<1>12. DOMAIN replies' \subseteq DOMAIN replies \cup (Called(page) \ Called(page'))
  <2>1. CASE called
    <3> DEFINE call == page.callbacks[id]
    <3>1. DOMAIN replies' = DOMAIN replies \cup {call}
      BY <1>1, <2>1 DEF Replied, Put
    <3>2. call \in Called(page)
      BY <1>3, <2>1 DEF Called
    <3>3. call \notin Called(page')
      <4>1. ASSUME NEW k \in DOMAIN page'.callbacks PROVE page'.callbacks[k] # call
        <5>1. k \in DOMAIN page.callbacks /\ k # id /\ page'.callbacks[k] = page.callbacks[k]
          BY <1>4, <1>6, <2>1
        <5> QED
          BY <1>2, <1>3, <2>1, <5>1 DEF OnceInv
      <4> QED
        BY <4>1 DEF Called
    <3> QED
      BY <3>1, <3>2, <3>3
  <2>2. CASE ~called
    BY <1>1, <2>2
  <2> QED
    BY <2>1, <2>2
<1>13. /\ Done(p) \in PumpType /\ PumpInv(Done(p)) /\ Distinct(Done(p).batch)
       /\ ToSet(Done(p).batch) \subseteq ToSet(pumps[p].batch)
       /\ Unposted(Done(p)) \subseteq Unposted(pumps[p])
  BY <1>1, DoneIs
<1>14. /\ pumps' \in [Pump -> PumpType]
       /\ \A r \in Pump : /\ PumpInv(pumps'[r]) /\ Distinct(pumps'[r].batch)
                          /\ ToSet(pumps'[r].batch) \subseteq ToSet(pumps[r].batch)
                          /\ Unposted(pumps'[r]) \subseteq Unposted(pumps[r])
  BY <1>1, <1>13, GoesOnKeeps
<1>15. faults' \in Nat /\ (faults' = 0 => faults = 0) /\ Trouble' <= MaxTrouble
  BY <1>1, <1>2, <1>4, FaultStays DEF TypeInv
<1> QED
  BY <1>1, <1>4, <1>7, <1>9, <1>10, <1>11, <1>12, <1>14, <1>15, QuietStep

LEMMA ReloadKeeps ==
  ASSUME IInv, Reload
  PROVE  IInv'
<1>1. /\ Trouble < MaxTrouble /\ page' = FreshPage(page.load + 1)
      /\ UNCHANGED <<posted, pumps, backlog, uses, replies, blocked, faults>>
  BY DEF Reload
<1>2. /\ TypeInv /\ PageInv(page) /\ page.load \in Nat \ {0}
  BY DEF IInv, TypeInv, PageInv
<1>3. /\ DOMAIN page' = Fields /\ page'.load = page.load + 1 /\ page'.forced = FALSE /\ page'.partial = <<>>
      /\ page'.requests = <<>> /\ page'.callbacks = <<>> /\ page'.nextId = 1
      /\ page'.fetching = {} /\ page'.chunks = <<>>
  BY <1>1 DEF FreshPage, Fields
<1>4. ToSet(<<>>) = {} /\ DOMAIN <<>> = {} /\ <<>> \in Seq(Request) /\ <<>> \in Seq([Methods -> Text])
  BY SetOfNone
<1>5. PageInv(page')
  <2>1. /\ DOMAIN page'.callbacks = {} /\ DOMAIN page'.chunks = {} /\ ToSet(page'.requests) = {}
        /\ page'.requests \in Seq(Request) /\ page'.partial \in Seq([Methods -> Text])
    BY <1>3, <1>4
  <2>2. page'.load \in Nat \ {0} /\ page'.nextId \in Nat \ {0} /\ page'.forced \in BOOLEAN /\ page'.fetching = {}
    <3>1. page'.load \in Nat \ {0} /\ page'.nextId \in Nat \ {0}
      BY <1>2, <1>3
    <3>2. page'.forced \in BOOLEAN /\ page'.fetching = {}
      BY <1>3, Zenon
    <3> QED
      BY <3>1, <3>2
  <2>3. DOMAIN page' = Fields
    BY <1>3
  <2> QED
    BY <2>1, <2>2, <2>3 DEF PageInv
<1>6. Trouble' <= MaxTrouble
  <2>1. /\ faults \in Nat /\ Len(page.partial) \in Nat
        /\ (page.partial = <<>>) <=> (Len(page.partial) = 0)
    BY <1>2, TroubleIs
  <2>2. Trouble' = faults + page.load
    BY <1>1, <1>2, <1>3, <2>1 DEF Trouble
  <2> QED
    BY <1>1, <1>2, <2>1, <2>2, BoundAssumption DEF Trouble
<1>7. TypeInv'
  BY <1>1, <1>2, <1>5, <1>6 DEF TypeInv
<1>8. OwnInv'
  <2>1. ASSUME NEW p \in Pump PROVE BatchOwn(page', pumps[p].batch)
    <3>1. BatchOwn(page, pumps[p].batch) /\ pumps[p].batch \in Seq(Request)
      BY <1>2 DEF IInv, OwnInv, TypeInv, PumpType
    <3>2. \A r \in ToSet(pumps[p].batch) : r.call.load \in Nat
      BY <3>1, ToSetIn, CallLoad DEF Request
    <3> QED
      BY <1>2, <1>3, <1>4, <3>1, <3>2 DEF BatchOwn, Own
  <2> QED
    BY <1>1, <1>3, <1>4, <2>1 DEF OwnInv, QueueOwn, ChunksOwn
<1>9. /\ Queued(page') = {} /\ Called(page') = {} /\ Sent' = Sent /\ Fetched' = Fetched /\ Held' = Held
  BY <1>1, <1>3, <1>4 DEF Queued, Called, Sent, Fetched, Held
<1>10. OnItsWay' \subseteq OnItsWay /\ page'.fetching \subseteq page.fetching
  BY <1>3, <1>9 DEF OnItsWay
<1>11. Live' \subseteq Live
  BY <1>1, <1>9, <1>10 DEF Live
<1>12. AskedInv'
  BY <1>1, <1>11 DEF IInv, AskedInv, Asked, Progress
<1>13. OnceInv'
  BY <1>1, <1>3, <1>4, <1>9 DEF IInv, OnceInv
<1>14. PlaceInv'
  BY <1>1, <1>3, <1>4, <1>9 DEF IInv, PlaceInv, Distinct
<1>15. UseInv'
  BY <1>1, <1>9, <1>10, UseKept DEF IInv
<1> QED
  BY <1>7, <1>8, <1>12, <1>13, <1>14, <1>15 DEF IInv

-----------------------------------------------------------------------------
(* Steps that hand a request on *)

LEMMA TakeKeeps ==
  ASSUME IInv, NEW p \in Pump, Take(p)
  PROVE  IInv'
<1> DEFINE q == [pumps[p] EXCEPT !.pc = "post", !.batch = page.requests]
<1>1. /\ pumps[p].pc = "idle" /\ page.requests # <<>>
      /\ pumps' = [pumps EXCEPT ![p].pc = "post", ![p].batch = page.requests]
      /\ page' = [page EXCEPT !.requests = <<>>]
      /\ UNCHANGED <<posted, backlog, uses, replies, blocked, faults>>
  BY DEF Take
<1>2. TypeInv /\ PageInv(page) /\ OwnInv /\ AskedInv /\ OnceInv /\ PlaceInv /\ UseInv
  BY DEF IInv, TypeInv
<1>3. /\ DOMAIN page' = Fields /\ page'.forced = page.forced
      /\ page'.load = page.load /\ page'.nextId = page.nextId /\ page'.partial = page.partial
      /\ page'.requests = <<>> /\ page'.fetching = page.fetching
      /\ page'.callbacks = page.callbacks /\ page'.chunks = page.chunks
  BY <1>1, <1>2 DEF PageInv, Fields
<1>4. ToSet(<<>>) = {} /\ DOMAIN <<>> = {} /\ <<>> \in Seq(Request)
  BY SetOfNone
<1>5. PageInv(page')
  BY <1>2, <1>3, <1>4 DEF PageInv, CallOf
<1>6. pumps \in [Pump -> PumpType] /\ page.requests \in Seq(Request)
  BY <1>2 DEF TypeInv, PageInv
<1>7. /\ q \in PumpType /\ q.pc = "post" /\ q.batch = page.requests
      /\ pumps' = [pumps EXCEPT ![p] = q]
  BY <1>1, <1>6 DEF PumpType, States
<1> HIDE DEF q
<1>8. PumpInv(q)
  BY <1>1, <1>7 DEF PumpInv
<1>9. pumps' \in [Pump -> PumpType] /\ \A r \in Pump : pumps'[r] = IF r = p THEN q ELSE pumps[r]
  BY <1>6, <1>7
<1>10. TypeInv'
  <2>1. Trouble' <= MaxTrouble
    BY <1>1, <1>2, <1>3, FaultStays
  <2> QED
    BY <1>1, <1>2, <1>5, <1>8, <1>9, <2>1 DEF TypeInv
<1>11. \A id, c : Own(page, id, c) => Own(page', id, c)
  BY <1>3, OwnKept
<1>12. \A b : BatchOwn(page, b) => BatchOwn(page', b)
  BY <1>3, <1>4, OwnKept
<1>13. OwnInv'
  <2>1. BatchOwn(page', page.requests)
    BY <1>2, <1>3, <1>4, <1>11 DEF OwnInv, QueueOwn, BatchOwn
  <2>2. \A r \in Pump : BatchOwn(page', pumps'[r].batch)
    BY <1>2, <1>7, <1>9, <1>12, <2>1 DEF OwnInv
  <2>3. QueueOwn(page')
    BY <1>3, <1>4 DEF QueueOwn
  <2>4. ChunksOwn(page')
    BY <1>2, <1>3, <1>11 DEF OwnInv, ChunksOwn
  <2> QED
    BY <2>2, <2>3, <2>4 DEF OwnInv
<1>14. Unposted(pumps[p]) = {}
  <2>1. pumps[p].batch = <<>>
    BY <1>1, <1>2 DEF TypeInv, PumpInv
  <2> QED
    BY <1>4, <2>1 DEF Unposted
<1>15. Unposted(q) = Queued(page)
  BY <1>7 DEF Unposted, Queued, ToSet
<1>16. /\ Queued(page') = {} /\ Called(page') = Called(page) /\ Sent' = Sent /\ Fetched' = Fetched
  BY <1>1, <1>3, <1>4 DEF Queued, Called, Sent, Fetched
<1>17. Held' \subseteq Held \cup Queued(page)
  BY <1>9, <1>15 DEF Held
<1>18. OnItsWay' \subseteq OnItsWay
  BY <1>16, <1>17 DEF OnItsWay
<1>19. Live' \subseteq Live
  BY <1>1, <1>3, <1>16, <1>18 DEF Live
<1>20. AskedInv'
  BY <1>1, <1>2, <1>19 DEF AskedInv, Asked, Progress
<1>21. OnceInv'
  BY <1>1, <1>2, <1>3, <1>16 DEF OnceInv
<1>22. PlaceInv'
  <2>1. /\ page'.fetching \cap (Queued(page') \cup Sent') = {} /\ Queued(page') \cap Sent' = {}
        /\ Distinct(page'.requests) /\ OneEach(backlog')
    BY <1>1, <1>2, <1>3, <1>4, <1>16 DEF PlaceInv, Distinct
  <2>2. \A r \in Pump : Unposted(pumps'[r]) \cap (page'.fetching \cup Queued(page') \cup Sent') = {}
    BY <1>2, <1>3, <1>9, <1>15, <1>16 DEF PlaceInv
  <2>3. \A r, s \in Pump : r # s => Unposted(pumps'[r]) \cap Unposted(pumps'[s]) = {}
    BY <1>2, <1>9, <1>15 DEF PlaceInv
  <2>4. \A r \in Pump : Distinct(pumps'[r].batch)
    BY <1>2, <1>7, <1>9 DEF PlaceInv
  <2> QED
    BY <2>1, <2>2, <2>3, <2>4 DEF PlaceInv
<1>23. UseInv'
  BY <1>1, <1>2, <1>3, <1>16, <1>18, UseKept
<1> QED
  BY <1>10, <1>13, <1>20, <1>21, <1>22, <1>23 DEF IInv

\* What a longer backlog holds.
LEMMA BacklogGrows ==
  ASSUME backlog \in Seq(Connection), NEW conns \in Seq(Connection), backlog' = backlog \o conns
  PROVE  /\ backlog' \in Seq(Connection)
         /\ Fetched' = Fetched \cup {c.call : c \in {d \in ToSet(conns) : d.from = "page"}}
         /\ Sent' = Sent \cup {c.call : c \in {d \in ToSet(conns) : d.from # "page"}}
<1>1. backlog' \in Seq(Connection) /\ ToSet(backlog') = ToSet(backlog) \cup ToSet(conns)
  BY Concat, ToSetConcat
<1> QED
  BY <1>1 DEF Fetched, Sent

LEMMA OneEachConcat ==
  ASSUME NEW q \in Seq(Connection), NEW r \in Seq(Connection), OneEach(q), OneEach(r),
         \A x \in ToSet(q), y \in ToSet(r) : ~(x.call = y.call /\ (x.from = "page" <=> y.from = "page"))
  PROVE  OneEach(q \o r)
<1> DEFINE s == q \o r
<1>1. /\ Len(q) \in Nat /\ Len(r) \in Nat
      /\ \A i \in 1..Len(q) : s[i] = q[i] /\ q[i] \in ToSet(q)
      /\ \A i \in 1..Len(r) : s[Len(q) + i] = r[i] /\ r[i] \in ToSet(r)
      /\ DOMAIN q = 1..Len(q) /\ DOMAIN r = 1..Len(r) /\ DOMAIN s = 1..(Len(q) + Len(r))
  BY Concat DEF ToSet
<1>2. ASSUME NEW i \in DOMAIN s PROVE i \in 1..Len(q) \/ \E k \in 1..Len(r) : i = Len(q) + k
  <2>1. PICK k : k = i - Len(q)
    OBVIOUS
  <2>2. i \in 1..Len(q) \/ (k \in 1..Len(r) /\ i = Len(q) + k)
    BY <1>1, <2>1
  <2> QED
    BY <2>2
<1> HIDE DEF s
<1>3. ASSUME NEW i \in DOMAIN s, NEW j \in DOMAIN s, s[i].call = s[j].call, s[i].from = "page" <=> s[j].from = "page"
      PROVE  i = j
  <2>1. CASE i \in 1..Len(q) /\ j \in 1..Len(q)
    BY <1>1, <1>3, <2>1 DEF OneEach
  <2>2. CASE i \notin 1..Len(q) /\ j \notin 1..Len(q)
    <3>1. PICK k \in 1..Len(r) : i = Len(q) + k
      BY <1>2, <2>2
    <3>2. PICK l \in 1..Len(r) : j = Len(q) + l
      BY <1>2, <2>2
    <3>3. s[i] = r[k] /\ s[j] = r[l]
      BY <1>1, <3>1, <3>2
    <3>4. r[k].call = r[l].call /\ (r[k].from = "page" <=> r[l].from = "page")
      BY <1>3, <3>3
    <3>5. k = l
      BY <1>1, <3>4 DEF OneEach
    <3> QED
      BY <3>1, <3>2, <3>5
  <2>3. CASE i \in 1..Len(q) /\ j \notin 1..Len(q)
    <3>1. PICK l \in 1..Len(r) : j = Len(q) + l
      BY <1>2, <2>3
    <3>2. s[i] = q[i] /\ s[j] = r[l] /\ q[i] \in ToSet(q) /\ r[l] \in ToSet(r)
      BY <1>1, <2>3, <3>1
    <3> QED
      BY <1>3, <3>2
  <2>4. CASE i \notin 1..Len(q) /\ j \in 1..Len(q)
    <3>1. PICK k \in 1..Len(r) : i = Len(q) + k
      BY <1>2, <2>4
    <3>2. s[i] = r[k] /\ s[j] = q[j] /\ q[j] \in ToSet(q) /\ r[k] \in ToSet(r)
      BY <1>1, <2>4, <3>1
    <3> QED
      BY <1>3, <3>2
  <2> QED
    BY <2>1, <2>2, <2>3, <2>4
<1> QED
  BY <1>3 DEF OneEach, s

LEMMA OneEachTail ==
  ASSUME NEW q \in Seq(Connection), q # <<>>, OneEach(q)
  PROVE  /\ OneEach(Tail(q))
         /\ \A x \in ToSet(Tail(q)) : ~(x.call = Head(q).call /\ (x.from = "page" <=> Head(q).from = "page"))
<1>1. /\ q[1] = Head(q) /\ Len(q) \in Nat \ {0}
      /\ DOMAIN q = 1..Len(q) /\ DOMAIN Tail(q) = 1..(Len(q) - 1)
      /\ \A i \in DOMAIN Tail(q) : i + 1 \in DOMAIN q /\ Tail(q)[i] = q[i + 1]
  BY HeadTail
<1>2. 1 \in DOMAIN q
  BY <1>1
<1>3. ASSUME NEW i \in DOMAIN Tail(q), Tail(q)[i].call = Head(q).call,
             Tail(q)[i].from = "page" <=> Head(q).from = "page"
      PROVE  FALSE
  <2>1. PICK k : k = i + 1
    OBVIOUS
  <2>2. k # 1 /\ k \in DOMAIN q /\ q[k] = Tail(q)[i]
    BY <1>1, <2>1
  <2> QED
    BY <1>1, <1>2, <1>3, <2>2 DEF OneEach
<1>4. ASSUME NEW i \in DOMAIN Tail(q), NEW j \in DOMAIN Tail(q), Tail(q)[i].call = Tail(q)[j].call,
             Tail(q)[i].from = "page" <=> Tail(q)[j].from = "page"
      PROVE  i = j
  <2>1. i \in Nat /\ j \in Nat
    BY <1>1
  <2>2. i + 1 = j + 1
    BY <1>1, <1>4 DEF OneEach
  <2> QED
    BY <2>1, <2>2
<1> QED
  BY <1>3, <1>4 DEF OneEach, ToSet

LEMMA OneMore ==
  ASSUME NEW S, NEW q \in Seq(S), NEW e \in S
  PROVE  /\ Append(q, e) = q \o << e >> /\ << e >> \in Seq(S)
         /\ ToSet(<< e >>) = {e} /\ DOMAIN << e >> = {1} /\ << e >>[1] = e /\ Len(<< e >>) = 1
<1>1. << e >> \in Seq(S) /\ DOMAIN << e >> = 1..1 /\ << e >>[1] = e /\ Len(<< e >>) = 1
  OBVIOUS
<1>2. 1..1 = {1}
  OBVIOUS
<1>3. Append(q, e) = q \o << e >>
  BY AppendIsConcat
<1> QED
  BY <1>1, <1>2, <1>3 DEF ToSet

LEMMA PumpPostsKeeps ==
  ASSUME IInv, NEW p \in Pump, PumpPosts(p)
  PROVE  IInv'
<1> DEFINE q    == [pumps[p] EXCEPT !.pc = "wait"]
           call == Current(p).call
           conn == [from |-> p, call |-> call]
<1>1. /\ pumps[p].pc = "post"
      /\ pumps' = [pumps EXCEPT ![p].pc = "wait"]
      /\ backlog' = Append(backlog, conn)
      /\ UNCHANGED <<page, posted, uses, replies, blocked, faults>>
  BY DEF PumpPosts
<1>2. TypeInv /\ OwnInv /\ AskedInv /\ OnceInv /\ PlaceInv /\ UseInv /\ pumps \in [Pump -> PumpType]
  BY DEF IInv, TypeInv
<1>3. /\ pumps[p] \in PumpType /\ PumpInv(pumps[p]) /\ Distinct(pumps[p].batch)
      /\ pumps[p].batch # <<>> /\ call \in Calls
  BY <1>1, PumpHolds DEF Request
<1>4. /\ q \in PumpType /\ q.pc = "wait" /\ q.batch = pumps[p].batch
      /\ pumps' = [pumps EXCEPT ![p] = q]
  BY <1>1, <1>2, <1>3 DEF PumpType, States
<1> HIDE DEF q
<1>5. PumpInv(q)
  BY <1>3, <1>4 DEF PumpInv
<1>6. /\ Unposted(pumps[p]) = Unposted(q) \cup {call} /\ call \notin Unposted(q)
  <2> DEFINE batch == pumps[p].batch
  <2>1. batch \in Seq(Request)
    BY <1>3 DEF PumpType
  <2>2. DOMAIN batch = 1..Len(batch) /\ Len(batch) \in Nat \ {0} /\ batch[1].call = call
    BY <1>3, <2>1, HeadTail DEF Current
  <2>3. 1 \in DOMAIN batch /\ \A i \in DOMAIN batch : i > 1 \/ i = 1
    BY <2>2
  <2>4. Unposted(pumps[p]) = {batch[i].call : i \in DOMAIN batch}
    BY <1>1 DEF Unposted
  <2>5. Unposted(q) = {batch[i].call : i \in {j \in DOMAIN batch : j > 1}}
    BY <1>4 DEF Unposted
  <2>6. ASSUME NEW i \in DOMAIN batch, i > 1 PROVE batch[i].call # call
    <3>1. i # 1
      BY <2>2, <2>6
    <3> QED
      BY <1>3, <2>2, <2>3, <3>1 DEF Distinct
  <2> QED
    BY <2>2, <2>3, <2>4, <2>5, <2>6
<1>7. pumps' \in [Pump -> PumpType] /\ \A r \in Pump : pumps'[r] = IF r = p THEN q ELSE pumps[r]
  BY <1>2, <1>4
<1>8. backlog \in Seq(Connection) /\ conn \in Connection /\ conn.from # "page" /\ conn.call = call
  BY <1>2, <1>3, PumpAssumption DEF TypeInv, Connection
<1> HIDE DEF conn, call
<1>9. /\ backlog' = backlog \o << conn >> /\ << conn >> \in Seq(Connection)
      /\ ToSet(<< conn >>) = {conn} /\ DOMAIN << conn >> = {1}
  BY <1>1, <1>8, OneMore
<1>10. backlog' \in Seq(Connection) /\ Fetched' = Fetched /\ Sent' = Sent \cup {call}
  <2>1. /\ backlog' \in Seq(Connection)
        /\ Fetched' = Fetched \cup {c.call : c \in {d \in ToSet(<< conn >>) : d.from = "page"}}
        /\ Sent' = Sent \cup {c.call : c \in {d \in ToSet(<< conn >>) : d.from # "page"}}
    BY <1>8, <1>9, BacklogGrows
  <2> QED
    BY <1>8, <1>9, <2>1
<1>11. TypeInv'
  BY <1>1, <1>2, <1>5, <1>7, <1>10 DEF TypeInv, Trouble
<1>12. OwnInv'
  <2>1. \A r \in Pump : pumps'[r].batch = pumps[r].batch
    BY <1>4, <1>7
  <2> QED
    BY <1>1, <1>2, <2>1 DEF OwnInv
<1>13. Held' \cup Sent' \subseteq Held \cup Sent
  <2>1. Held' \subseteq Held
    BY <1>6, <1>7 DEF Held
  <2>2. call \in Held
    BY <1>6 DEF Held
  <2> QED
    BY <1>10, <2>1, <2>2
<1>14. OnItsWay' \subseteq OnItsWay
  BY <1>1, <1>13 DEF OnItsWay
<1>15. AskedInv'
  <2>1. Live' \subseteq Live
    BY <1>1, <1>10, <1>14 DEF Live
  <2> QED
    BY <1>1, <1>2, <2>1 DEF AskedInv, Asked, Progress
<1>16. OnceInv'
  BY <1>1, <1>2 DEF OnceInv
<1>17. PlaceInv'
  <2>1. call \in Unposted(pumps[p])
    BY <1>6
  <2>2. /\ page'.fetching \cap (Queued(page') \cup Sent') = {} /\ Queued(page') \cap Sent' = {}
        /\ Distinct(page'.requests)
    BY <1>1, <1>2, <1>10, <2>1 DEF PlaceInv
  <2>3. OneEach(backlog')
    <3>1. OneEach(<< conn >>)
      BY <1>9 DEF OneEach
    <3>2. ASSUME NEW x \in ToSet(backlog), NEW y \in ToSet(<< conn >>),
                 x.call = y.call, x.from = "page" <=> y.from = "page"
          PROVE  FALSE
      <4>1. x.call = call /\ x.from # "page"
        BY <1>8, <1>9, <3>2
      <4>2. call \in Sent
        BY <4>1 DEF Sent
      <4> QED
        BY <1>2, <2>1, <4>2 DEF PlaceInv
    <3>3. OneEach(backlog)
      BY <1>2 DEF PlaceInv
    <3> QED
      BY <1>8, <1>9, <3>1, <3>2, <3>3, OneEachConcat
  <2>4. \A r \in Pump : Unposted(pumps'[r]) \cap (page'.fetching \cup Queued(page') \cup Sent') = {}
    <3>1. ASSUME NEW r \in Pump PROVE call \notin Unposted(pumps'[r])
      BY <1>2, <1>6, <1>7, <2>1 DEF PlaceInv
    <3>2. ASSUME NEW r \in Pump PROVE Unposted(pumps'[r]) \subseteq Unposted(pumps[r])
      BY <1>6, <1>7
    <3>3. \A r \in Pump : Unposted(pumps[r]) \cap (page.fetching \cup Queued(page) \cup Sent) = {}
      BY <1>2 DEF PlaceInv
    <3> QED
      BY <1>1, <1>10, <3>1, <3>2, <3>3
  <2>5. \A r, s \in Pump : r # s => Unposted(pumps'[r]) \cap Unposted(pumps'[s]) = {}
    <3>1. \A r \in Pump : Unposted(pumps'[r]) \subseteq Unposted(pumps[r])
      BY <1>6, <1>7
    <3> QED
      BY <1>2, <3>1 DEF PlaceInv
  <2>6. \A r \in Pump : Distinct(pumps'[r].batch)
    BY <1>2, <1>4, <1>7 DEF PlaceInv
  <2> QED
    BY <2>2, <2>3, <2>4, <2>5, <2>6 DEF PlaceInv
<1>18. UseInv'
  BY <1>1, <1>2, <1>10, <1>14, UseKept
<1> QED
  BY <1>11, <1>12, <1>15, <1>16, <1>17, <1>18 DEF IInv

\* Whom the first connection of the backlog concerns once it is handled.
LEMMA TailOfBacklog ==
  ASSUME TypeInv, PlaceInv, backlog # <<>>, backlog' = Tail(backlog), NEW conn, conn = Head(backlog)
  PROVE  /\ conn \in Connection /\ backlog' \in Seq(Connection) /\ OneEach(backlog')
         /\ conn.from = "page" => conn.call \in Fetched /\ Fetched' = Fetched \ {conn.call} /\ Sent' = Sent
         /\ conn.from # "page" => conn.call \in Sent /\ Sent' = Sent \ {conn.call} /\ Fetched' = Fetched
<1>1. backlog \in Seq(Connection) /\ OneEach(backlog)
  BY DEF TypeInv, PlaceInv
<1>2. conn \in Connection /\ backlog' \in Seq(Connection) /\ ToSet(backlog) = {conn} \cup ToSet(backlog')
  BY <1>1, HeadTail
<1>3. /\ OneEach(backlog')
      /\ \A x \in ToSet(backlog') : ~(x.call = conn.call /\ (x.from = "page" <=> conn.from = "page"))
  BY <1>1, OneEachTail
<1> DEFINE old == ToSet(backlog)
           new == ToSet(backlog')
<1>4. /\ Fetched = {c.call : c \in {d \in old : d.from = "page"}} /\ Sent = {c.call : c \in {d \in old : d.from # "page"}}
      /\ Fetched' = {c.call : c \in {d \in new : d.from = "page"}} /\ Sent' = {c.call : c \in {d \in new : d.from # "page"}}
  BY DEF Fetched, Sent
<1>5. old = {conn} \cup new /\ \A x \in new : ~(x.call = conn.call /\ (x.from = "page" <=> conn.from = "page"))
  BY <1>2, <1>3
<1> HIDE DEF old, new
<1>6. ASSUME conn.from = "page"
      PROVE  conn.call \in Fetched /\ Fetched' = Fetched \ {conn.call} /\ Sent' = Sent
  BY <1>4, <1>5, <1>6
<1>7. ASSUME conn.from # "page"
      PROVE  conn.call \in Sent /\ Sent' = Sent \ {conn.call} /\ Fetched' = Fetched
  BY <1>4, <1>5, <1>7
<1> QED
  BY <1>2, <1>3, <1>6, <1>7

\* Page q is page p but for its fetches.
SameButFetches(p, q) ==
  /\ DOMAIN q = Fields /\ q.forced = p.forced
  /\ q.load = p.load /\ q.nextId = p.nextId /\ q.partial = p.partial
  /\ q.requests = p.requests /\ q.callbacks = p.callbacks /\ q.chunks = p.chunks

\* What the answer on a connection may change.
LEMMA AnswerDoes ==
  ASSUME IInv, NEW conn \in Connection, NEW ok \in BOOLEAN, Answer(conn, ok)
  PROVE  /\ SameButFetches(page, page')
         /\ IF conn.from = "page" THEN page'.fetching = page.fetching \ {conn.call}
            ELSE page'.fetching = page.fetching
         /\ DOMAIN replies' \subseteq DOMAIN replies \cup (page.fetching \ page'.fetching)
         /\ pumps' \in [Pump -> PumpType]
         /\ \A p \in Pump : /\ PumpInv(pumps'[p]) /\ pumps'[p].batch = pumps[p].batch
                            /\ Unposted(pumps'[p]) = Unposted(pumps[p])
<1> DEFINE call    == conn.call
           fetched == conn.from = "page" /\ call \in page.fetching
           waits   == \E p \in Pump : /\ conn.from = p /\ pumps[p].pc = "wait"
                                      /\ Head(pumps[p].batch).call = call
<1>1. /\ page' = IF fetched THEN [page EXCEPT !.fetching = @ \ {call}] ELSE page
      /\ replies' = IF fetched THEN Replied(call, call, ok) ELSE replies
      /\ pumps' = IF waits THEN [pumps EXCEPT ![conn.from].pc = "clear", ![conn.from].ok = ok] ELSE pumps
  BY DEF Answer
<1>2. pumps \in [Pump -> PumpType] /\ (\A p \in Pump : PumpInv(pumps[p])) /\ DOMAIN page = Fields
  BY DEF IInv, TypeInv, PageInv
<1>3. /\ pumps' \in [Pump -> PumpType]
      /\ \A p \in Pump : /\ PumpInv(pumps'[p]) /\ pumps'[p].batch = pumps[p].batch
                         /\ Unposted(pumps'[p]) = Unposted(pumps[p])
  <2>1. CASE waits
    <3>1. PICK p \in Pump : conn.from = p /\ pumps[p].pc = "wait"
      BY <2>1
    <3> DEFINE q == [pumps[p] EXCEPT !.pc = "clear", !.ok = ok]
    <3>2. q \in PumpType /\ q.pc = "clear" /\ q.batch = pumps[p].batch
      BY <1>2 DEF PumpType, States
    <3>3. pumps' = [pumps EXCEPT ![p] = q]
      BY <1>1, <1>2, <2>1, <3>1
    <3> HIDE DEF q
    <3>4. PumpInv(q) /\ Unposted(q) = Unposted(pumps[p])
      BY <1>2, <3>1, <3>2 DEF PumpInv, Unposted
    <3> QED
      BY <1>2, <3>2, <3>3, <3>4
  <2>2. CASE ~waits
    BY <1>1, <1>2, <2>2
  <2> QED
    BY <2>1, <2>2
<1> HIDE DEF waits
<1>4. CASE fetched
  <2>1. SameButFetches(page, page') /\ page'.fetching = page.fetching \ {call}
    BY <1>1, <1>2, <1>4 DEF SameButFetches, Fields
  <2>2. DOMAIN replies' = DOMAIN replies \cup {call}
    BY <1>1, <1>4 DEF Replied, Put
  <2> QED
    BY <1>3, <1>4, <2>1, <2>2
<1>5. CASE ~fetched
  <2>1. page' = page /\ replies' = replies
    BY <1>1, <1>5
  <2>2. SameButFetches(page, page)
    BY <1>2 DEF SameButFetches
  <2> QED
    BY <1>3, <1>5, <2>1, <2>2
<1> QED
  BY <1>4, <1>5

LEMMA ServeKeeps ==
  ASSUME IInv, Serve
  PROVE  IInv'
<1> DEFINE conn == Head(backlog)
           call == conn.call
<1>1. /\ backlog # <<>> /\ backlog' = Tail(backlog)
      /\ uses' = IF Signs(call) THEN Put(uses, call, Count(uses, call) + 1) ELSE uses
      /\ \/ Answer(conn, TRUE) /\ UNCHANGED faults
         \/ Answer(conn, FALSE) /\ Fault
         \/ Fault /\ UNCHANGED <<page, pumps, replies>>
      /\ UNCHANGED <<posted, blocked>>
  BY DEF Serve
<1>2. TypeInv /\ PageInv(page) /\ OwnInv /\ AskedInv /\ OnceInv /\ PlaceInv /\ UseInv /\ DOMAIN page = Fields
  BY DEF IInv, TypeInv, PageInv
<1>3. /\ conn \in Connection /\ backlog' \in Seq(Connection) /\ OneEach(backlog')
      /\ IF conn.from = "page"
         THEN call \in Fetched /\ Fetched' = Fetched \ {call} /\ Sent' = Sent
         ELSE call \in Sent /\ Sent' = Sent \ {call} /\ Fetched' = Fetched
  BY <1>1, <1>2, TailOfBacklog
<1>4. call \in Calls
  BY <1>3 DEF Connection
<1> HIDE DEF conn, call
<1>5. /\ SameButFetches(page, page')
      /\ page'.fetching \subseteq page.fetching
      /\ \A c \in page.fetching : c # call \/ conn.from # "page" => c \in page'.fetching
      /\ UNCHANGED faults /\ conn.from = "page" => call \notin page'.fetching
      /\ DOMAIN replies' \subseteq DOMAIN replies \cup (page.fetching \ page'.fetching)
      /\ pumps' \in [Pump -> PumpType]
      /\ \A p \in Pump : /\ PumpInv(pumps'[p]) /\ pumps'[p].batch = pumps[p].batch
                         /\ Unposted(pumps'[p]) = Unposted(pumps[p])
  <2>1. ASSUME NEW ok \in BOOLEAN, Answer(conn, ok) PROVE <1>5
    BY <1>3, <2>1, AnswerDoes DEF call
  <2>2. CASE Fault /\ UNCHANGED <<page, pumps, replies>>
    <3>1. SameButFetches(page, page)
      BY <1>2 DEF SameButFetches
    <3>2. faults' # faults
      BY <1>2, <2>2 DEF Fault, TypeInv
    <3> QED
      BY <1>2, <2>2, <3>1, <3>2 DEF TypeInv
  <2> QED
    BY <1>1, <2>1, <2>2
<1>6. /\ DOMAIN page' = Fields /\ page'.forced = page.forced
      /\ page'.load = page.load /\ page'.nextId = page.nextId /\ page'.partial = page.partial
      /\ page'.requests = page.requests
      /\ page'.callbacks = page.callbacks /\ page'.chunks = page.chunks
  BY <1>5 DEF SameButFetches
<1>7. /\ DOMAIN uses' \subseteq DOMAIN uses \cup {call}
      /\ \A c : Count(uses', c) = Count(uses, c) \/ (c = call /\ Count(uses', c) = Count(uses, c) + 1)
      /\ \A c \in DOMAIN uses' : uses'[c] \in Nat
  <2>1. CASE Signs(call)
    <3>1. DOMAIN uses' = DOMAIN uses \cup {call}
      BY <1>1, <2>1 DEF Put
    <3>2. \A c \in DOMAIN uses' : uses'[c] = IF c = call THEN Count(uses, call) + 1 ELSE uses[c]
      BY <1>1, <2>1 DEF Put
    <3>3. Count(uses, call) \in Nat
      BY <1>2, CountIsNat
    <3>4. \A c \in DOMAIN uses : uses[c] \in Nat
      BY <1>2 DEF TypeInv
    <3>5. \A c \in DOMAIN uses' : uses'[c] \in Nat
      BY <3>1, <3>2, <3>3, <3>4
    <3>6. Count(uses', call) = Count(uses, call) + 1 /\ \A c : c # call => Count(uses', c) = Count(uses, c)
      BY <3>1, <3>2 DEF Count
    <3> QED
      BY <3>1, <3>5, <3>6
  <2>2. CASE ~Signs(call)
    <3>1. uses' = uses
      BY <1>1, <2>2
    <3> QED
      BY <1>2, <3>1 DEF TypeInv
  <2> QED
    BY <2>1, <2>2
<1>8. PageInv(page')
  <2>1. \A c \in page'.fetching : CallOf(page', c)
    BY <1>2, <1>5, <1>6 DEF PageInv, CallOf
  <2> QED
    BY <1>2, <1>6, <2>1 DEF PageInv, CallOf
<1>9. faults' \in Nat /\ (faults' = 0 => faults = 0) /\ Trouble' <= MaxTrouble
  BY <1>1, <1>2, <1>6, FaultStays
<1>10. TypeInv'
  <2>1. DOMAIN uses' \subseteq Calls
    BY <1>2, <1>4, <1>7 DEF TypeInv
  <2> QED
    BY <1>1, <1>2, <1>3, <1>5, <1>7, <1>8, <1>9, <2>1 DEF TypeInv
<1>11. \A id, c : Own(page, id, c) => Own(page', id, c)
  BY <1>6, OwnKept
<1>12. \A b : BatchOwn(page, b) => BatchOwn(page', b)
  BY <1>6, OwnKept
<1>13. OwnInv'
  BY <1>2, <1>5, <1>6, <1>11, <1>12 DEF OwnInv, QueueOwn, ChunksOwn
<1>14. Queued(page') = Queued(page) /\ Called(page') = Called(page) /\ Held' = Held
  BY <1>5, <1>6 DEF Queued, Called, Held
<1>15. OnItsWay' \subseteq OnItsWay
  BY <1>3, <1>14 DEF OnItsWay
<1>16. AskedInv'
  <2>1. call \in Live
    BY <1>3 DEF Live, OnItsWay
  <2>2. Live' \subseteq Live
    BY <1>3, <1>5, <1>7, <1>14, <1>15, <2>1 DEF Live
  <2> QED
    BY <1>1, <1>2, <2>2 DEF AskedInv, Asked, Progress
<1>17. OnceInv'
  BY <1>2, <1>5, <1>6, <1>14 DEF OnceInv
<1>18. PlaceInv'
  <2>1. Sent' \subseteq Sent
    BY <1>3
  <2> QED
    BY <1>2, <1>3, <1>5, <1>6, <1>14, <2>1 DEF PlaceInv
<1>19. UseInv'
  <2> SUFFICES ASSUME NEW c \in Calls
               PROVE  /\ Ways(c)' <= IF c \in page'.fetching \cup OnItsWay' THEN 1 ELSE 2
                      /\ blocked' => /\ c \notin Fetched'
                                     /\ Count(uses', c) <= IF c \in page'.fetching \cup OnItsWay' THEN 0 ELSE 1
                      /\ ~blocked' /\ faults' = 0 =>
                           /\ c \in page'.fetching => c \in Fetched'
                           /\ Ways(c)' <= IF c \in OnItsWay' THEN 0 ELSE 1
    BY DEF UseInv
  <2>1. /\ Count(uses, c) \in Nat
        /\ Count(uses', c) = Count(uses, c) \/ (c = call /\ Count(uses', c) = Count(uses, c) + 1)
    BY <1>2, <1>7, CountIsNat
  <2>2. /\ Ways(c) = Count(uses, c) + (IF c \in Fetched THEN 1 ELSE 0)
        /\ Ways(c)' = Count(uses', c) + (IF c \in Fetched' THEN 1 ELSE 0)
    BY DEF Ways
  <2>3. /\ Ways(c) <= IF c \in page.fetching \cup OnItsWay THEN 1 ELSE 2
        /\ blocked => /\ c \notin Fetched
                      /\ Count(uses, c) <= IF c \in page.fetching \cup OnItsWay THEN 0 ELSE 1
        /\ ~blocked /\ faults = 0 =>
             /\ c \in page.fetching => c \in Fetched
             /\ Ways(c) <= IF c \in OnItsWay THEN 0 ELSE 1
    BY <1>2 DEF UseInv
  <2>4. CASE c # call
    <3>1. (c \in Fetched' <=> c \in Fetched) /\ (c \in page'.fetching <=> c \in page.fetching)
      BY <1>3, <1>5, <2>4
    <3> QED
      BY <1>1, <1>9, <1>15, <2>1, <2>2, <2>3, <2>4, <3>1
  <2>5. CASE c = call /\ conn.from = "page"
    <3>1. c \in Fetched /\ c \notin Fetched' /\ (c \in page'.fetching => c \in page.fetching)
      BY <1>3, <1>5, <2>5
    <3>2. c \in page'.fetching => faults' # 0
      <4>1. faults' # faults /\ Fault => faults' # 0
        BY <1>2 DEF TypeInv, Fault
      <4>2. c \in page'.fetching => ~UNCHANGED faults
        BY <1>5, <2>5
      <4> QED
        BY <1>1, <4>1, <4>2
    <3> QED
      BY <1>1, <1>9, <1>15, <2>1, <2>2, <2>3, <3>1, <3>2
  <2>6. CASE c = call /\ conn.from # "page"
    <3>1. c \in Sent /\ c \notin Sent' /\ (c \in Fetched' <=> c \in Fetched)
      BY <1>3, <2>6
    <3>2. c \in OnItsWay
      BY <3>1 DEF OnItsWay
    <3>3. c \notin page.fetching /\ c \notin Queued(page)
      BY <1>2, <3>1 DEF PlaceInv
    <3>4. c \notin Held
      BY <1>2, <3>1 DEF PlaceInv, Held
    <3>5. c \notin OnItsWay' /\ c \notin page'.fetching
      BY <1>5, <1>14, <3>1, <3>3, <3>4 DEF OnItsWay
    <3> QED
      BY <1>1, <1>9, <2>1, <2>2, <2>3, <3>1, <3>2, <3>5
  <2> QED
    BY <2>4, <2>5, <2>6
<1> QED
  BY <1>10, <1>13, <1>16, <1>17, <1>18, <1>19 DEF IInv

-----------------------------------------------------------------------------
(* Steps that begin a call or queue it *)

LEMMA EnqueueStep ==
  ASSUME IInv, NEW p, PageInv(p),
         p.load = page.load, p.nextId = page.nextId, p.requests = page.requests,
         p.callbacks = page.callbacks, p.chunks = page.chunks, p.fetching \subseteq page.fetching,
         NEW calls \in Seq(Calls), \A c \in ToSet(calls) : c.load = p.load,
         \A i, j \in 1..Len(calls) : calls[i] = calls[j] => i = j,
         ToSet(calls) \cap (p.fetching \cup OnItsWay \cup Called(page) \cup DOMAIN replies) = {},
         page' = queueJson(p, calls), UNCHANGED <<pumps, backlog, replies>>
  PROVE  /\ PageInv(page') /\ page'.load = p.load /\ page'.partial = p.partial /\ page'.fetching = p.fetching
         /\ OwnInv' /\ OnceInv' /\ PlaceInv'
         /\ OnItsWay' = OnItsWay \cup ToSet(calls)
         /\ Called(page') = Called(page) \cup ToSet(calls)
<1>1. Enqueues(p, calls, page')
  BY QueueJsonEnqueues
<1>2. page'.load = p.load /\ page'.partial = p.partial /\ page'.fetching = p.fetching
  BY <1>1 DEF Enqueues
<1>3. TypeInv /\ OwnInv /\ OnceInv /\ PlaceInv
  BY DEF IInv
<1>4. QueueOwn(p) /\ ChunksOwn(p) /\ \A b : BatchOwn(page, b) => BatchOwn(p, b)
  BY <1>3 DEF OwnInv, QueueOwn, ChunksOwn, BatchOwn, Own
<1>5. /\ PageInv(page') /\ QueueOwn(page') /\ ChunksOwn(page')
      /\ \A batch : BatchOwn(p, batch) /\ (\A r \in ToSet(batch) : r.id \in Nat) => BatchOwn(page', batch)
  BY <1>1, <1>4, EnqueuedOwn
<1>6. OwnInv'
  <2>1. ASSUME NEW r \in Pump PROVE BatchOwn(page', pumps'[r].batch)
    <3>1. BatchOwn(p, pumps[r].batch)
      BY <1>3, <1>4 DEF OwnInv
    <3>2. pumps[r].batch \in Seq(Request)
      BY <1>3 DEF TypeInv, PumpType
    <3>3. ToSet(pumps[r].batch) \subseteq Request
      BY <3>2, ToSetIn
    <3>4. \A x \in ToSet(pumps[r].batch) : x.id \in Nat
      BY <3>3 DEF Request
    <3> QED
      BY <1>5, <3>1, <3>4
  <2> QED
    BY <1>5, <2>1 DEF OwnInv
<1>7. Queued(p) = Queued(page) /\ Called(p) = Called(page)
  BY DEF Queued, Called
<1>8. Queued(page') = Queued(page) \cup ToSet(calls) /\ Called(page') = Called(page) \cup ToSet(calls)
  BY <1>1, <1>7, EnqueuedSets
<1>9. Sent' = Sent /\ Held' = Held
  BY DEF Sent, Held
<1>10. OnItsWay' = OnItsWay \cup ToSet(calls)
  BY <1>8, <1>9 DEF OnItsWay
<1>11. Queued(p) \cap ToSet(calls) = {} /\ Called(p) \cap ToSet(calls) = {}
  BY <1>7 DEF OnItsWay
<1>12. /\ Distinct(page'.requests)
       /\ \A i, j \in DOMAIN page'.callbacks : page'.callbacks[i] = page'.callbacks[j] => i = j
  <2>1. Distinct(p.requests)
    BY <1>3 DEF PlaceInv
  <2>2. \A i, j \in DOMAIN p.callbacks : p.callbacks[i] = p.callbacks[j] => i = j
    BY <1>3 DEF OnceInv
  <2> QED
    BY <1>1, <1>11, <2>1, <2>2, EnqueuedOnce
<1>13. OnceInv'
  BY <1>2, <1>3, <1>8, <1>12 DEF OnceInv
<1>14. PlaceInv'
  <2>1. \A r \in Pump : Unposted(pumps[r]) \cap ToSet(calls) = {}
    BY DEF OnItsWay, Held
  <2>2. Sent \cap ToSet(calls) = {}
    BY DEF OnItsWay
  <2> QED
    BY <1>2, <1>3, <1>8, <1>9, <1>12, <2>1, <2>2 DEF PlaceInv
<1> QED
  BY <1>2, <1>5, <1>6, <1>8, <1>10, <1>13, <1>14

LEMMA FetchFailsKeeps ==
  ASSUME IInv, NEW call \in page.fetching, FetchFails(call)
  PROVE  IInv'
<1> DEFINE p     == [page EXCEPT !.fetching = @ \ {call}]
           calls == << call >>
<1>1. /\ IF FromPage(call) \in ToSet(backlog) THEN Fault ELSE UNCHANGED faults
      /\ page' = queueJson(p, calls)
      /\ UNCHANGED <<posted, pumps, backlog, uses, replies, blocked>>
  BY DEF FetchFails
<1>2. TypeInv /\ PageInv(page) /\ AskedInv /\ OnceInv /\ PlaceInv /\ UseInv /\ DOMAIN page = Fields
  BY DEF IInv, TypeInv, PageInv
<1>3. SameButFetches(page, p) /\ p.fetching = page.fetching \ {call}
  BY <1>2 DEF SameButFetches, Fields
<1> HIDE DEF p
<1>4. /\ DOMAIN p = Fields /\ p.forced = page.forced
      /\ p.load = page.load /\ p.nextId = page.nextId /\ p.partial = page.partial
      /\ p.requests = page.requests /\ p.callbacks = page.callbacks /\ p.chunks = page.chunks
      /\ p.fetching \subseteq page.fetching
  BY <1>3 DEF SameButFetches
<1>5. PageInv(p)
  BY <1>2, <1>4 DEF PageInv, CallOf
<1>6. call \in Calls /\ call.load = page.load
  BY <1>2 DEF PageInv, CallOf
<1>7. calls \in Seq(Calls) /\ ToSet(calls) = {call} /\ Len(calls) = 1
  <2>1. <<>> \in Seq(Calls)
    OBVIOUS
  <2> QED
    BY <1>6, <2>1, OneMore
<1> HIDE DEF calls
<1>8. \A i, j \in 1..Len(calls) : calls[i] = calls[j] => i = j
  BY <1>7
<1>9. call \notin OnItsWay
  BY <1>2 DEF OnItsWay, PlaceInv, Held
<1>10. call \notin Called(page) /\ call \notin DOMAIN replies
  BY <1>2 DEF OnceInv
<1>11. /\ PageInv(page') /\ page'.load = p.load /\ page'.partial = p.partial /\ page'.fetching = p.fetching
       /\ OwnInv' /\ OnceInv' /\ PlaceInv'
       /\ OnItsWay' = OnItsWay \cup ToSet(calls)
       /\ Called(page') = Called(page) \cup ToSet(calls)
  BY <1>1, <1>3, <1>4, <1>5, <1>6, <1>7, <1>8, <1>9, <1>10, EnqueueStep
<1>12. faults' \in Nat /\ (faults' = 0 => faults = 0) /\ Trouble' <= MaxTrouble
  BY <1>1, <1>2, <1>4, <1>11, FaultStays
<1>13. TypeInv'
  BY <1>1, <1>2, <1>11, <1>12 DEF TypeInv
<1>14. Fetched' = Fetched
  BY <1>1 DEF Fetched
<1>15. AskedInv'
  <2>1. Live' \subseteq Live
    BY <1>1, <1>3, <1>7, <1>11, <1>14 DEF Live
  <2> QED
    BY <1>1, <1>2, <2>1 DEF AskedInv, Asked, Progress
<1>16. call \in Fetched => faults' # 0
  <2>1. ASSUME call \in Fetched PROVE FromPage(call) \in ToSet(backlog)
    <3>1. PICK d \in ToSet(backlog) : d.from = "page" /\ d.call = call
      BY <2>1 DEF Fetched
    <3>2. d \in Connection
      BY <1>2, <3>1, ToSetIn DEF TypeInv
    <3>3. d = [from |-> d.from, call |-> d.call]
      BY <3>2 DEF Connection
    <3>4. d = FromPage(call)
      BY <3>1, <3>3 DEF FromPage
    <3> QED
      BY <3>1, <3>4
  <2> QED
    BY <1>1, <1>2, <2>1 DEF Fault, TypeInv
<1>17. UseInv'
  <2> SUFFICES ASSUME NEW c \in Calls
               PROVE  /\ Ways(c)' <= IF c \in page'.fetching \cup OnItsWay' THEN 1 ELSE 2
                      /\ blocked' => /\ c \notin Fetched'
                                     /\ Count(uses', c) <= IF c \in page'.fetching \cup OnItsWay' THEN 0 ELSE 1
                      /\ ~blocked' /\ faults' = 0 =>
                           /\ c \in page'.fetching => c \in Fetched'
                           /\ Ways(c)' <= IF c \in OnItsWay' THEN 0 ELSE 1
    BY DEF UseInv
  <2>1. Count(uses, c) \in Nat /\ Count(uses', c) = Count(uses, c)
    BY <1>1, <1>2, CountIsNat
  <2>2. /\ Ways(c) = Count(uses, c) + (IF c \in Fetched THEN 1 ELSE 0)
        /\ Ways(c)' = Ways(c)
    BY <1>14, <2>1 DEF Ways
  <2>3. /\ Ways(c) <= IF c \in page.fetching \cup OnItsWay THEN 1 ELSE 2
        /\ blocked => /\ c \notin Fetched
                      /\ Count(uses, c) <= IF c \in page.fetching \cup OnItsWay THEN 0 ELSE 1
        /\ ~blocked /\ faults = 0 =>
             /\ c \in page.fetching => c \in Fetched
             /\ Ways(c) <= IF c \in OnItsWay THEN 0 ELSE 1
    BY <1>2 DEF UseInv
  <2>4. /\ c \in page'.fetching => c \in page.fetching /\ c # call
        /\ c # call => (c \in page'.fetching <=> c \in page.fetching) /\ (c \in OnItsWay' <=> c \in OnItsWay)
        /\ c = call => c \in page.fetching /\ c \in OnItsWay'
    BY <1>3, <1>7, <1>11
  <2>5. /\ UNCHANGED blocked /\ Fetched' = Fetched /\ (faults' = 0 => faults = 0)
        /\ c \in Fetched /\ c = call => faults' # 0
    BY <1>1, <1>12, <1>14, <1>16
  <2> DEFINE w == Ways(c)
             n == Count(uses, c)
  <2>6. w \in Nat /\ n \in Nat /\ n <= w
    BY <2>1, <2>2
  <2> HIDE DEF w, n
  <2>7. CASE c = call
    BY <2>1, <2>2, <2>3, <2>4, <2>5, <2>6, <2>7 DEF w, n
  <2>8. CASE c # call
    BY <2>1, <2>2, <2>3, <2>4, <2>5, <2>6, <2>8 DEF w, n
  <2> QED
    BY <2>7, <2>8
<1> QED
  BY <1>11, <1>13, <1>15, <1>17 DEF IInv

\* Calls that nobody knows of yet are posted or queued.
LEMMA Launch ==
  ASSUME IInv, NEW p, PageInv(p),
         p.load = page.load, p.nextId = page.nextId, p.requests = page.requests,
         p.callbacks = page.callbacks, p.chunks = page.chunks, p.fetching = page.fetching,
         NEW calls \in Seq(Calls), \A c \in ToSet(calls) : c.load = p.load,
         \A i, j \in 1..Len(calls) : calls[i] = calls[j] => i = j,
         ToSet(calls) \cap Live = {},
         postJson(p, calls), UNCHANGED <<pumps, uses, replies, blocked, faults>>
  PROVE  /\ PageInv(page') /\ page'.load = p.load /\ page'.partial = p.partial
         /\ backlog' \in Seq(Connection)
         /\ OwnInv' /\ OnceInv' /\ PlaceInv' /\ UseInv'
         /\ Live' \subseteq Live \cup ToSet(calls)
<1> DEFINE new == ToSet(calls)
<1>1. TypeInv /\ OwnInv /\ OnceInv /\ PlaceInv /\ UseInv
  BY DEF IInv
<1>2. /\ new \cap (page.fetching \cup OnItsWay \cup Called(page) \cup DOMAIN replies) = {}
      /\ new \cap (Fetched \cup DOMAIN uses) = {}
  BY DEF Live
<1>3. ASSUME NEW c \in new PROVE Ways(c) = 0 /\ Count(uses, c) = 0
  <2>1. c \notin DOMAIN uses /\ c \notin Fetched
    BY <1>2
  <2> QED
    BY <2>1 DEF Ways, Count
<1>4. CASE p.forced
  <2>1. page' = queueJson(p, calls) /\ UNCHANGED backlog
    BY <1>4 DEF postJson
  <2>2. /\ PageInv(page') /\ page'.load = p.load /\ page'.partial = p.partial /\ page'.fetching = p.fetching
        /\ OwnInv' /\ OnceInv' /\ PlaceInv'
        /\ OnItsWay' = OnItsWay \cup new
        /\ Called(page') = Called(page) \cup new
    BY <1>2, <2>1, EnqueueStep
  <2>3. Fetched' = Fetched
    BY <2>1 DEF Fetched
  <2>4. Live' \subseteq Live \cup new
    BY <2>2, <2>3 DEF Live
  <2>5. ASSUME NEW c \in Calls
        PROVE  /\ Ways(c)' <= IF c \in page'.fetching \cup OnItsWay' THEN 1 ELSE 2
               /\ blocked' => /\ c \notin Fetched'
                              /\ Count(uses', c) <= IF c \in page'.fetching \cup OnItsWay' THEN 0 ELSE 1
               /\ ~blocked' /\ faults' = 0 =>
                    /\ c \in page'.fetching => c \in Fetched'
                    /\ Ways(c)' <= IF c \in OnItsWay' THEN 0 ELSE 1
    <3>1. Ways(c)' = Ways(c) /\ Count(uses', c) = Count(uses, c)
      BY <2>3 DEF Ways, Count
    <3>2. /\ Ways(c) <= IF c \in page.fetching \cup OnItsWay THEN 1 ELSE 2
          /\ blocked => /\ c \notin Fetched
                        /\ Count(uses, c) <= IF c \in page.fetching \cup OnItsWay THEN 0 ELSE 1
          /\ ~blocked /\ faults = 0 =>
               /\ c \in page.fetching => c \in Fetched
               /\ Ways(c) <= IF c \in OnItsWay THEN 0 ELSE 1
      BY <1>1 DEF UseInv
    <3>3. CASE c \in new
      <4>1. c \notin page'.fetching /\ c \notin Fetched' /\ c \in OnItsWay'
        BY <1>2, <2>2, <2>3, <3>3
      <4> QED
        BY <1>3, <3>1, <3>3, <4>1
    <3>4. CASE c \notin new
      <4>1. (c \in page'.fetching <=> c \in page.fetching) /\ (c \in OnItsWay' <=> c \in OnItsWay)
        BY <2>2, <3>4
      <4> QED
        BY <2>3, <3>1, <3>2, <4>1
    <3> QED
      BY <3>3, <3>4
  <2>6. UseInv'
    BY <2>5 DEF UseInv
  <2> QED
    BY <1>1, <2>1, <2>2, <2>4, <2>6 DEF TypeInv
<1>5. CASE ~p.forced
  <2> DEFINE conns == [i \in DOMAIN calls |-> FromPage(calls[i])]
  <2>1. /\ page' = [p EXCEPT !.fetching = @ \cup new]
        /\ backlog' = IF blocked THEN backlog ELSE backlog \o conns
    BY <1>5 DEF postJson
  <2>2. DOMAIN p = Fields
    BY DEF PageInv
  <2>3. /\ DOMAIN page' = Fields /\ page'.forced = p.forced
        /\ page'.load = p.load /\ page'.nextId = p.nextId /\ page'.partial = p.partial
        /\ page'.requests = p.requests /\ page'.callbacks = p.callbacks /\ page'.chunks = p.chunks
        /\ page'.fetching = page.fetching \cup new
    BY <2>1, <2>2 DEF Fields
  <2>4. PageInv(page')
    <3>1. new \subseteq Calls
      BY ToSetIn
    <3>2. \A c \in page'.fetching : CallOf(page', c)
      BY <2>3, <3>1 DEF PageInv, CallOf
    <3> QED
      BY <2>3, <3>2 DEF PageInv, CallOf
  <2>5. /\ conns \in Seq(Connection) /\ Len(conns) = Len(calls) /\ DOMAIN conns = 1..Len(calls)
        /\ \A i \in 1..Len(calls) : conns[i] = FromPage(calls[i])
        /\ \A d \in ToSet(conns) : d.from = "page" /\ d.call \in new
        /\ {d.call : d \in ToSet(conns)} = new
    <3>1. Len(calls) \in Nat /\ DOMAIN calls = 1..Len(calls) /\ \A i \in 1..Len(calls) : calls[i] \in Calls
      OBVIOUS
    <3>2. \A i \in 1..Len(calls) : conns[i] = FromPage(calls[i]) /\ conns[i] \in Connection
      BY <3>1 DEF FromPage, Connection
    <3>3. conns \in [1..Len(calls) -> Connection]
      BY <3>1, <3>2
    <3>4. conns \in Seq(Connection) /\ Len(conns) = Len(calls) /\ DOMAIN conns = 1..Len(calls)
      BY <3>1, <3>3, IsASeq
    <3> HIDE DEF conns
    <3>5. \A c : FromPage(c).from = "page" /\ FromPage(c).call = c
      BY DEF FromPage
    <3>6. \A i \in 1..Len(calls) : conns[i].from = "page" /\ conns[i].call = calls[i]
      BY <3>2, <3>5
    <3> QED
      BY <3>1, <3>2, <3>4, <3>6 DEF ToSet
  <2> HIDE DEF conns
  <2>6. /\ backlog' \in Seq(Connection) /\ Sent' = Sent
        /\ Fetched' = IF blocked THEN Fetched ELSE Fetched \cup new
    <3>1. backlog \in Seq(Connection)
      BY <1>1 DEF TypeInv
    <3>2. CASE blocked
      BY <2>1, <3>1, <3>2 DEF Fetched, Sent
    <3>3. CASE ~blocked
      <4>1. /\ backlog' \in Seq(Connection)
            /\ Fetched' = Fetched \cup {c.call : c \in {d \in ToSet(conns) : d.from = "page"}}
            /\ Sent' = Sent \cup {c.call : c \in {d \in ToSet(conns) : d.from # "page"}}
        BY <2>1, <2>5, <3>1, <3>3, BacklogGrows
      <4>2. {d \in ToSet(conns) : d.from = "page"} = ToSet(conns) /\ {d \in ToSet(conns) : d.from # "page"} = {}
        BY <2>5
      <4> QED
        BY <2>5, <3>3, <4>1, <4>2
    <3> QED
      BY <3>2, <3>3
  <2>7. OwnInv'
    <3>1. \A id, c : Own(page, id, c) => Own(page', id, c)
      BY <2>3, OwnKept
    <3>2. \A b : BatchOwn(page, b) => BatchOwn(page', b)
      BY <2>3, OwnKept
    <3> QED
      BY <1>1, <2>3, <3>1, <3>2 DEF OwnInv, QueueOwn, ChunksOwn
  <2>8. Queued(page') = Queued(page) /\ Called(page') = Called(page) /\ Held' = Held
    BY <2>3 DEF Queued, Called, Held
  <2>9. OnItsWay' = OnItsWay
    BY <2>6, <2>8 DEF OnItsWay
  <2>10. Live' \subseteq Live \cup new
    BY <2>3, <2>6, <2>8, <2>9 DEF Live
  <2>11. OnceInv'
    BY <1>1, <1>2, <2>3, <2>8 DEF OnceInv
  <2>12. PlaceInv'
    <3>1. new \cap (Queued(page) \cup Sent) = {} /\ \A r \in Pump : Unposted(pumps[r]) \cap new = {}
      BY <1>2 DEF OnItsWay, Held
    <3>2. OneEach(backlog')
      <4>1. CASE blocked
        BY <1>1, <2>1, <4>1 DEF PlaceInv
      <4>2. CASE ~blocked
        <5>1. OneEach(conns)
          <6>1. \A i \in DOMAIN conns : conns[i].call = calls[i]
            BY <2>5 DEF FromPage
          <6> QED
            BY <2>5, <6>1 DEF OneEach
        <5>2. ASSUME NEW x \in ToSet(backlog), NEW y \in ToSet(conns),
                     x.call = y.call, x.from = "page" <=> y.from = "page"
              PROVE  FALSE
          <6>1. x.from = "page" /\ x.call \in new
            BY <2>5, <5>2
          <6>2. x.call \in Fetched
            BY <6>1 DEF Fetched
          <6> QED
            BY <1>2, <6>1, <6>2
        <5>3. OneEach(backlog) /\ backlog \in Seq(Connection)
          BY <1>1 DEF PlaceInv, TypeInv
        <5> QED
          BY <2>1, <2>5, <4>2, <5>1, <5>2, <5>3, OneEachConcat
      <4> QED
        BY <4>1, <4>2
    <3> QED
      BY <1>1, <2>3, <2>6, <2>8, <3>1, <3>2 DEF PlaceInv
  <2>13. ASSUME NEW c \in Calls
         PROVE  /\ Ways(c)' <= IF c \in page'.fetching \cup OnItsWay' THEN 1 ELSE 2
                /\ blocked' => /\ c \notin Fetched'
                               /\ Count(uses', c) <= IF c \in page'.fetching \cup OnItsWay' THEN 0 ELSE 1
                /\ ~blocked' /\ faults' = 0 =>
                     /\ c \in page'.fetching => c \in Fetched'
                     /\ Ways(c)' <= IF c \in OnItsWay' THEN 0 ELSE 1
    <3>1. /\ Count(uses', c) = Count(uses, c)
          /\ Ways(c)' = Count(uses, c) + (IF c \in Fetched' THEN 1 ELSE 0)
          /\ Ways(c) = Count(uses, c) + (IF c \in Fetched THEN 1 ELSE 0)
      BY DEF Ways, Count
    <3>2. /\ Ways(c) <= IF c \in page.fetching \cup OnItsWay THEN 1 ELSE 2
          /\ blocked => /\ c \notin Fetched
                        /\ Count(uses, c) <= IF c \in page.fetching \cup OnItsWay THEN 0 ELSE 1
          /\ ~blocked /\ faults = 0 =>
               /\ c \in page.fetching => c \in Fetched
               /\ Ways(c) <= IF c \in OnItsWay THEN 0 ELSE 1
      BY <1>1 DEF UseInv
    <3>3. CASE c \in new
      <4>1. c \in page'.fetching /\ c \notin Fetched /\ c \notin OnItsWay' /\ (c \in Fetched' <=> ~blocked)
        BY <1>2, <2>3, <2>6, <2>9, <3>3
      <4> QED
        BY <1>3, <3>1, <3>3, <4>1
    <3>4. CASE c \notin new
      <4>1. /\ (c \in page'.fetching <=> c \in page.fetching) /\ (c \in OnItsWay' <=> c \in OnItsWay)
            /\ (c \in Fetched' <=> c \in Fetched)
        BY <2>3, <2>6, <2>9, <3>4
      <4> QED
        BY <3>1, <3>2, <4>1
    <3> QED
      BY <3>3, <3>4
  <2>14. UseInv'
    BY <2>13 DEF UseInv
  <2> QED
    BY <2>3, <2>4, <2>6, <2>7, <2>10, <2>11, <2>12, <2>14
<1> QED
  BY <1>4, <1>5

LEMMA FinitelyMany ==
  ASSUME NEW S, NEW q \in Seq(S), NEW T, T \subseteq DOMAIN q
  PROVE  IsFiniteSet(T) /\ Cardinality(T) \in Nat
<1>1. DOMAIN q = 1..Len(q) /\ Len(q) \in Nat
  OBVIOUS
<1>2. IsFiniteSet(1..Len(q))
  BY <1>1, FS_Interval
<1> QED
  BY <1>1, <1>2, FS_Subset, FS_CardinalityType

LEMMA ProgressIsNat ==
  ASSUME TypeInv, NEW m
  PROVE  Progress(m) \in Nat
<1>1. posted \in Seq(Part) /\ {i \in DOMAIN posted : posted[i].message = m} \subseteq DOMAIN posted
  BY DEF TypeInv
<1> QED
  BY <1>1, FinitelyMany DEF Progress

\* The parts posted of a message, when the next one is posted.
LEMMA ProgressGrows ==
  ASSUME TypeInv, NEW e \in Part, posted' = Append(posted, e)
  PROVE  /\ posted' \in Seq(Part)
         /\ \A m : Progress(m) \in Nat
         /\ \A m : Progress(m)' = IF m = e.message THEN Progress(m) + 1 ELSE Progress(m)
<1>1. /\ posted' \in Seq(Part) /\ Len(posted) \in Nat
      /\ DOMAIN posted = 1..Len(posted) /\ DOMAIN posted' = 1..(Len(posted) + 1)
      /\ \A i \in 1..Len(posted) : posted'[i] = posted[i]
      /\ posted'[Len(posted) + 1] = e
  BY DEF TypeInv
<1> DEFINE of(m)    == {i \in DOMAIN posted : posted[i].message = m}
           newOf(m) == {i \in DOMAIN posted' : posted'[i].message = m}
           n        == Len(posted) + 1
<1>2. ASSUME NEW m PROVE /\ IsFiniteSet(of(m)) /\ Cardinality(of(m)) \in Nat /\ n \notin of(m)
  <2>1. posted \in Seq(Part) /\ of(m) \subseteq DOMAIN posted /\ n \notin DOMAIN posted
    BY <1>1 DEF TypeInv
  <2> HIDE DEF of, n
  <2> QED
    BY <2>1, FinitelyMany
<1>3. ASSUME NEW m PROVE newOf(m) = IF m = e.message THEN of(m) \cup {n} ELSE of(m)
  <2>1. DOMAIN posted' = DOMAIN posted \cup {n} /\ n \notin DOMAIN posted
    BY <1>1
  <2> HIDE DEF n
  <2>2. posted'[n] = e /\ \A i \in DOMAIN posted : posted'[i] = posted[i]
    BY <1>1 DEF n
  <2> QED
    BY <2>1, <2>2
<1>4. \A m : Progress(m) = Cardinality(of(m)) /\ Progress(m)' = Cardinality(newOf(m))
  BY DEF Progress
<1> HIDE DEF of, newOf, n
<1>5. ASSUME NEW m PROVE Cardinality(of(m) \cup {n}) = Cardinality(of(m)) + 1
  BY <1>2, FS_AddElement
<1> QED
  BY <1>1, <1>2, <1>3, <1>4, <1>5

\* After a part of message m, the last one or not, about which calls begin if it
\* is the last one.
LEMMA PartPosted ==
  ASSUME IInv, NEW e \in Part, posted' = Append(posted, e), NEW S,
         Progress(e.message) < Parts[e.message], e.part \in {0, Parts[e.message]} => Progress(e.message) + 1 >= Parts[e.message],
         Live' \subseteq Live \cup S, S # {} => e.part \in {0, Parts[e.message]}, \A c \in S : c.message = e.message
  PROVE  AskedInv'
<1>1. /\ posted' \in Seq(Part)
      /\ \A m : Progress(m) \in Nat
      /\ \A m : Progress(m)' = IF m = e.message THEN Progress(m) + 1 ELSE Progress(m)
  BY ProgressGrows DEF IInv
<1>2. Asked' = IF e.part \in {0, Parts[e.message]} THEN Asked \cup {e.message} ELSE Asked
  <2>1. ToSet(posted') = ToSet(posted) \cup {e}
    BY ToSetAppend DEF IInv, TypeInv
  <2>2. /\ Asked = {m \in Message : \E x \in ToSet(posted) : x.message = m /\ x.part \in {0, Parts[m]}}
        /\ Asked' = {m \in Message : \E x \in ToSet(posted') : x.message = m /\ x.part \in {0, Parts[m]}}
    BY DEF Asked, ToSet
  <2>3. e.message \in Message
    BY DEF Part
  <2> QED
    BY <2>1, <2>2, <2>3
<1>3. \A m \in Message : Parts[m] \in Nat
  BY MessageAssumption
<1>4. \A m \in Asked : Progress(m) >= Parts[m] /\ m \in Message
  BY DEF IInv, AskedInv, Asked
<1>5. e.message \in Message
  BY DEF Part
<1>6. \A m \in Asked' : Progress(m)' >= Parts[m]
  <2>1. ASSUME NEW m \in Asked PROVE Progress(m)' >= Parts[m]
    BY <1>1, <1>3, <1>4
  <2>2. ASSUME e.part \in {0, Parts[e.message]} PROVE Progress(e.message)' >= Parts[e.message]
    BY <1>1, <2>2
  <2> QED
    BY <1>2, <2>1, <2>2
<1>7. \A c \in Live' : c.message \in Asked'
  BY <1>2 DEF IInv, AskedInv
<1> QED
  BY <1>6, <1>7 DEF AskedInv

\* Nobody knows of a call about message m before it has been posted in full.
LEMMA NotAsked ==
  ASSUME IInv, NEW m \in Message, Progress(m) < Parts[m]
  PROVE  \A c \in Live : c.message # m
<1>1. Parts[m] \in Nat /\ Progress(m) \in Nat
  BY ProgressIsNat, MessageAssumption DEF IInv
<1>2. m \notin Asked
  BY <1>1 DEF IInv, AskedInv
<1> QED
  BY <1>2 DEF IInv, AskedInv

\* Who may wait for a reply: as many listeners as there are, and load.
LEMMA LoadAndListeners ==
  ASSUME TypeInv
  PROVE  page.load \in 1..(MaxTrouble + 1) /\ Len(page.partial) \in 0..(MaxTrouble + 1)
<1>1. /\ page.load \in Nat \ {0} /\ faults \in Nat /\ Len(page.partial) \in Nat
      /\ (page.partial = <<>>) <=> (Len(page.partial) = 0)
      /\ page.load + faults <= MaxTrouble + 1
  BY TroubleIs
<1>2. MaxTrouble \in Nat /\ Trouble <= MaxTrouble
  BY BoundAssumption DEF TypeInv
<1> DEFINE load == page.load
           n    == Len(page.partial)
<1>3. Trouble = faults + (load - 1) + (IF n = 0 THEN 0 ELSE 2 * (n - 1))
  BY <1>1 DEF Trouble
<1> HIDE DEF load, n
<1>4. load \in Nat \ {0} /\ faults \in Nat /\ n \in Nat
  BY <1>1 DEF load, n
<1>5. load \in 1..(MaxTrouble + 1) /\ n \in 0..(MaxTrouble + 1)
  BY <1>2, <1>3, <1>4
<1> QED
  BY <1>5 DEF load, n

LEMMA CallDirectKeeps ==
  ASSUME IInv, NEW m \in Message, CallDirect(m)
  PROVE  IInv'
<1> DEFINE call  == [load |-> page.load, message |-> m, listener |-> 0]
           calls == << call >>
           e     == [message |-> m, part |-> 0, load |-> page.load]
<1>1. /\ Parts[m] = 1 /\ Progress(m) = 0
      /\ posted' = Append(posted, e) /\ postJson(page, calls)
      /\ UNCHANGED <<pumps, uses, replies, blocked, faults>>
  BY DEF CallDirect
<1>2. TypeInv /\ PageInv(page)
  BY DEF IInv, TypeInv
<1>3. page.load \in 1..(MaxTrouble + 1) /\ 0 \in 0..(MaxTrouble + 1)
  BY <1>2, LoadAndListeners, BoundAssumption
<1>4. call \in Calls /\ call.load = page.load /\ call.message = m
  BY <1>3 DEF Calls
<1>5. e \in Part /\ e.message = m /\ e.part = 0
  BY <1>3, BoundAssumption DEF Part
<1> HIDE DEF call, e
<1>6. calls \in Seq(Calls) /\ ToSet(calls) = {call} /\ Len(calls) = 1
  <2>1. <<>> \in Seq(Calls)
    OBVIOUS
  <2> QED
    BY <1>4, <2>1, OneMore
<1> HIDE DEF calls
<1>7. \A i, j \in 1..Len(calls) : calls[i] = calls[j] => i = j
  BY <1>6
<1>8. Progress(m) < Parts[m]
  BY <1>1
<1>9. ToSet(calls) \cap Live = {}
  BY <1>4, <1>6, <1>8, NotAsked
<1>10. /\ PageInv(page') /\ page'.load = page.load /\ page'.partial = page.partial
       /\ backlog' \in Seq(Connection)
       /\ OwnInv' /\ OnceInv' /\ PlaceInv' /\ UseInv'
       /\ Live' \subseteq Live \cup ToSet(calls)
  BY <1>1, <1>2, <1>4, <1>6, <1>7, <1>9, Launch
<1>11. posted' \in Seq(Part)
  BY <1>1, <1>2, <1>5, ProgressGrows
<1>12. TypeInv'
  <2>1. Trouble' = Trouble
    BY <1>1, <1>10 DEF Trouble
  <2> QED
    BY <1>1, <1>2, <1>10, <1>11, <2>1 DEF TypeInv
<1>13. AskedInv'
  <2>1. Progress(m) + 1 >= Parts[m]
    BY <1>1
  <2>2. \A c \in ToSet(calls) : c.message = e.message
    BY <1>4, <1>5, <1>6
  <2> QED
    BY <1>1, <1>5, <1>8, <1>10, <2>1, <2>2, PartPosted
<1> QED
  BY <1>10, <1>12, <1>13 DEF IInv

\* A text that is a payload and ends with a part of message m is all of m.
LEMMA PayloadIsWhole ==
  ASSUME NEW text \in Text, NEW m \in Message, NEW part \in Nat, IsPayload(Append(text, << m, part >>))
  PROVE  Append(text, << m, part >>)[1][1] = m /\ part = Parts[m]
<1> DEFINE t == Append(text, << m, part >>)
           k == t[1][1]
<1>1. << m, part >> \in Message \X Nat
  OBVIOUS
<1>2. /\ t \in Seq(Message \X Nat) /\ Len(text) \in Nat /\ Len(t) = Len(text) + 1 /\ t[Len(t)] = << m, part >>
  BY <1>1 DEF Text
<1>3. t = AllParts(k)
  BY DEF IsPayload
<1> HIDE DEF t
<1>4. t[1] \in Message \X Nat
  BY <1>2
<1>5. k \in Message
  BY <1>4
<1>6. Parts[k] \in Nat \ {0}
  BY <1>5, MessageAssumption
<1> HIDE DEF k
<1>7. Len(t) = Parts[k] /\ t[Parts[k]] = << k, Parts[k] >>
  BY <1>3, <1>6 DEF AllParts
<1>8. << m, part >> = << k, Parts[k] >>
  BY <1>2, <1>7
<1>9. m = k /\ part = Parts[k]
  BY <1>8
<1> QED
  BY <1>9 DEF t, k

LEMMA PostKeeps ==
  ASSUME IInv, NEW m \in Message, Post(m)
  PROVE  IInv'
<1> DEFINE part    == Progress(m) + 1
           k       == Method[m]
           text(l) == Append(page.partial[l][k], << m, part >>)
           ready   == {l \in DOMAIN page.partial : IsPayload(text(l))}
           e       == [message |-> m, part |-> part, load |-> page.load]
           rest    == [l \in DOMAIN page.partial |-> [page.partial[l] EXCEPT ![k] = LeftPartial(text(l))]]
           p       == [page EXCEPT !.partial = rest]
<1>1. /\ page.partial # <<>> /\ part <= Parts[m]
      /\ posted' = Append(posted, e)
      /\ UNCHANGED <<pumps, uses, replies, blocked, faults>>
  BY DEF Post
<1>2. PICK order \in [1..Cardinality(ready) -> ready] :
        /\ \A i, j \in DOMAIN order : i < j => order[i] < order[j]
        /\ postJson(p, [i \in DOMAIN order |-> [load |-> page.load, message |-> text(order[i])[1][1],
                                                listener |-> order[i]]])
  BY DEF Post
<1> DEFINE calls == [i \in DOMAIN order |-> [load |-> page.load, message |-> text(order[i])[1][1],
                                             listener |-> order[i]]]
<1>3. TypeInv /\ PageInv(page) /\ DOMAIN page = Fields
  BY DEF IInv, TypeInv, PageInv
<1>4. page.partial \in Seq([Methods -> Text]) /\ k \in Methods /\ Parts[m] \in Nat \ {0}
  BY <1>3, MessageAssumption DEF PageInv
<1>5. Progress(m) \in Nat /\ part \in Nat \ {0}
  BY <1>3, ProgressIsNat
<1> HIDE DEF part, k
<1>6. ASSUME NEW l \in DOMAIN page.partial
      PROVE  /\ page.partial[l] \in [Methods -> Text] /\ page.partial[l][k] \in Text
             /\ text(l) \in Text /\ LeftPartial(text(l)) \in Text
  <2>1. page.partial[l] \in [Methods -> Text]
    BY <1>4
  <2>2. page.partial[l][k] \in Text
    BY <1>4, <2>1
  <2>3. << m, part >> \in Message \X Nat
    BY <1>5
  <2>4. text(l) \in Text /\ <<>> \in Text
    BY <2>2, <2>3 DEF Text
  <2> QED
    BY <2>1, <2>2, <2>4 DEF LeftPartial
<1>7. rest \in Seq([Methods -> Text]) /\ Len(rest) = Len(page.partial)
  <2>1. Len(page.partial) \in Nat /\ DOMAIN page.partial = 1..Len(page.partial)
    BY <1>4
  <2>2. ASSUME NEW l \in DOMAIN page.partial
        PROVE  [page.partial[l] EXCEPT ![k] = LeftPartial(text(l))] \in [Methods -> Text]
    BY <1>6
  <2>3. rest \in [1..Len(page.partial) -> [Methods -> Text]]
    BY <2>1, <2>2
  <2> QED
    BY <2>1, <2>3, IsASeq
<1> HIDE DEF rest
<1>8. /\ DOMAIN p = Fields /\ p.load = page.load /\ p.forced = page.forced /\ p.nextId = page.nextId
      /\ p.requests = page.requests /\ p.callbacks = page.callbacks /\ p.chunks = page.chunks
      /\ p.fetching = page.fetching /\ p.partial = rest
  BY <1>3 DEF Fields
<1> HIDE DEF p
<1>9. PageInv(p)
  BY <1>3, <1>7, <1>8 DEF PageInv, CallOf
<1>10. \A l \in ready : text(l)[1][1] = m /\ part = Parts[m]
  BY <1>5, <1>6, PayloadIsWhole
<1>11. page.load \in 1..(MaxTrouble + 1) /\ Len(page.partial) \in 0..(MaxTrouble + 1)
  BY <1>3, LoadAndListeners
<1>12. \A l \in ready : l \in Nat /\ l \in 0..(MaxTrouble + 1)
  BY <1>4, <1>11, BoundAssumption
<1>13. Cardinality(ready) \in Nat
  <2>1. ready \subseteq DOMAIN page.partial
    OBVIOUS
  <2> HIDE DEF ready
  <2> QED
    BY <1>4, <2>1, FinitelyMany
<1> DEFINE n == Cardinality(ready)
<1>14. DOMAIN order = 1..n /\ DOMAIN calls = 1..n /\ \A i \in 1..n : order[i] \in ready
  OBVIOUS
<1>15. \A i \in 1..n : calls[i] = [load |-> page.load, message |-> m, listener |-> order[i]]
  BY <1>10, <1>14
<1> HIDE DEF ready, text, calls, n
<1>16. \A i \in 1..n : calls[i] \in Calls /\ calls[i].load = page.load /\ calls[i].message = m /\ calls[i].listener = order[i]
  BY <1>11, <1>12, <1>14, <1>15 DEF Calls
<1>17. calls \in Seq(Calls) /\ Len(calls) = n
  <2>1. calls \in [1..n -> Calls]
    BY <1>14, <1>16 DEF calls
  <2>2. n \in Nat
    BY <1>13 DEF n
  <2> QED
    BY <2>1, <2>2, IsASeq
<1>18. \A c \in ToSet(calls) : c.load = p.load /\ c.message = m
  BY <1>8, <1>14, <1>16 DEF ToSet
<1>19. \A i, j \in 1..Len(calls) : calls[i] = calls[j] => i = j
  <2>1. n \in Nat
    BY <1>13 DEF n
  <2>2. ASSUME NEW i \in 1..n, NEW j \in 1..n, i < j PROVE calls[i] # calls[j]
    <3>1. order[i] < order[j] /\ order[i] \in Nat /\ order[j] \in Nat
      BY <1>2, <1>12, <1>14, <2>2
    <3>2. order[i] # order[j]
      BY <3>1
    <3> QED
      BY <1>16, <3>2
  <2>3. \A i, j \in 1..n : i < j \/ j < i \/ i = j
    BY <2>1
  <2> QED
    BY <1>17, <2>2, <2>3
<1>20. Progress(m) < Parts[m]
  BY <1>1, <1>4, <1>5 DEF part
<1>21. ToSet(calls) \cap Live = {}
  BY <1>18, <1>20, NotAsked
<1>22. postJson(p, calls)
  BY <1>2 DEF calls, text, ready
<1>23. /\ PageInv(page') /\ page'.load = page.load /\ page'.partial = p.partial
       /\ backlog' \in Seq(Connection)
       /\ OwnInv' /\ OnceInv' /\ PlaceInv' /\ UseInv'
       /\ Live' \subseteq Live \cup ToSet(calls)
  BY <1>1, <1>8, <1>9, <1>17, <1>18, <1>19, <1>21, <1>22, Launch
<1>24. e \in Part /\ e.message = m /\ e.part = part
  BY <1>5, <1>11, BoundAssumption DEF Part
<1> HIDE DEF e
<1>25. posted' \in Seq(Part)
  BY <1>1, <1>3, <1>24, ProgressGrows
<1>26. TypeInv'
  <2>1. Len(page'.partial) = Len(page.partial) /\ (page'.partial = <<>> <=> page.partial = <<>>)
    <3>1. page'.partial \in Seq([Methods -> Text]) /\ Len(page'.partial) = Len(page.partial)
      BY <1>7, <1>8, <1>23
    <3>2. \A q \in Seq([Methods -> Text]) : q = <<>> <=> Len(q) = 0
      OBVIOUS
    <3> QED
      BY <1>4, <3>1, <3>2
  <2>2. Trouble' = Trouble
    BY <1>1, <1>23, <2>1 DEF Trouble
  <2> QED
    BY <1>1, <1>3, <1>23, <1>25, <2>2 DEF TypeInv
<1>27. AskedInv'
  <2>1. e.part \in {0, Parts[e.message]} => Progress(e.message) + 1 >= Parts[e.message]
    BY <1>4, <1>5, <1>24 DEF part
  <2>2. ToSet(calls) # {} => e.part \in {0, Parts[e.message]}
    <3>1. ASSUME ToSet(calls) # {} PROVE part = Parts[m]
      <4>1. PICK i \in 1..n : TRUE
        BY <1>14, <3>1 DEF ToSet
      <4> QED
        BY <1>10, <1>14, <4>1 DEF ready
    <3> QED
      BY <1>24, <3>1
  <2>3. \A c \in ToSet(calls) : c.message = e.message
    BY <1>18, <1>24
  <2> QED
    BY <1>1, <1>20, <1>23, <1>24, <2>1, <2>2, <2>3, PartPosted
<1> QED
  BY <1>23, <1>26, <1>27 DEF IInv

-----------------------------------------------------------------------------
(* The invariant of every run *)

LEMMA FreshPageType ==
  PageInv(FreshPage(1)) /\ QueueOwn(FreshPage(1)) /\ ChunksOwn(FreshPage(1))
<1> DEFINE p == FreshPage(1)
<1>1. /\ DOMAIN p = Fields /\ p.load = 1 /\ p.forced = FALSE /\ p.partial = <<>>
      /\ p.requests = <<>> /\ p.callbacks = <<>> /\ p.nextId = 1 /\ p.fetching = {} /\ p.chunks = <<>>
  BY DEF FreshPage, Fields
<1> HIDE DEF p
<1>2. ToSet(<<>>) = {} /\ DOMAIN <<>> = {} /\ <<>> \in Seq(Request) /\ <<>> \in Seq([Methods -> Text])
  BY SetOfNone
<1>3. p.load \in Nat \ {0} /\ p.nextId \in Nat \ {0}
  BY <1>1
<1>4. p.forced \in BOOLEAN
  BY <1>1, Zenon
<1>5. /\ p.partial \in Seq([Methods -> Text]) /\ p.requests \in Seq(Request) /\ ToSet(p.requests) = {}
      /\ DOMAIN p.callbacks = {} /\ DOMAIN p.chunks = {} /\ p.fetching = {} /\ DOMAIN p = Fields
  BY <1>1, <1>2
<1> QED
  BY <1>3, <1>4, <1>5 DEF PageInv, QueueOwn, ChunksOwn, p

LEMMA InitIInv == Init => IInv
<1> SUFFICES ASSUME Init PROVE IInv
  OBVIOUS
<1>1. /\ page = FreshPage(1) /\ posted = <<>> /\ pumps = [p \in Pump |-> Idle]
      /\ backlog = <<>> /\ uses = <<>> /\ replies = <<>> /\ faults = 0
  BY DEF Init
<1>2. ToSet(<<>>) = {} /\ DOMAIN <<>> = {} /\ <<>> \in Seq(Part) /\ <<>> \in Seq(Connection)
  BY SetOfNone
<1>3. PageInv(page) /\ QueueOwn(page) /\ ChunksOwn(page)
  BY <1>1, FreshPageType
<1>4. page.load = 1 /\ page.partial = <<>> /\ page.requests = <<>> /\ page.callbacks = <<>> /\ page.fetching = {}
  BY <1>1 DEF FreshPage
<1>5. /\ pumps \in [Pump -> PumpType]
      /\ \A p \in Pump : /\ PumpInv(pumps[p]) /\ Distinct(pumps[p].batch)
                         /\ ToSet(pumps[p].batch) = {} /\ Unposted(pumps[p]) = {}
  BY <1>1, IdleType
<1>6. TypeInv
  <2>1. Trouble = 0
    BY <1>1, <1>4 DEF Trouble
  <2> QED
    BY <1>1, <1>2, <1>3, <1>5, <2>1, BoundAssumption DEF TypeInv
<1>7. OwnInv
  BY <1>3, <1>5 DEF OwnInv, BatchOwn
<1>8. /\ Queued(page) = {} /\ Called(page) = {} /\ Sent = {} /\ Fetched = {} /\ Held = {}
  BY <1>1, <1>2, <1>4, <1>5 DEF Queued, Called, Sent, Fetched, Held
<1>9. OnItsWay = {}
  BY <1>8 DEF OnItsWay
<1>10. Live = {} /\ Asked = {}
  BY <1>1, <1>2, <1>4, <1>8, <1>9 DEF Live, Asked
<1>11. AskedInv
  BY <1>10 DEF AskedInv
<1>12. OnceInv
  BY <1>1, <1>2, <1>4, <1>8 DEF OnceInv
<1>13. PlaceInv
  BY <1>1, <1>2, <1>4, <1>5, <1>8 DEF PlaceInv, Distinct, OneEach
<1>14. UseInv
  <2>1. \A c \in Calls : Count(uses, c) = 0 /\ Ways(c) = 0
    BY <1>1, <1>2, <1>8 DEF Count, Ways
  <2> QED
    BY <1>4, <1>8, <1>9, <2>1 DEF UseInv
<1> QED
  BY <1>6, <1>7, <1>11, <1>12, <1>13, <1>14 DEF IInv

LEMMA StutterKeeps ==
  ASSUME IInv, UNCHANGED vars
  PROVE  IInv'
<1>1. UNCHANGED <<page, posted, pumps, backlog, uses, replies, blocked, faults>>
  BY DEF vars
<1>2. TypeInv
  BY DEF IInv
<1>3. faults' \in Nat /\ (faults' = 0 => faults = 0) /\ Trouble' <= MaxTrouble
  BY <1>1, <1>2, FaultStays
<1> QED
  BY <1>1, <1>3, SamePage, SamePumps, QuietStep

LEMMA NextKeeps == IInv /\ [Next]_vars => IInv'
<1> SUFFICES ASSUME IInv, [Next]_vars PROVE IInv'
  OBVIOUS
<1>1. CASE Inject
  BY <1>1, InjectKeeps
<1>2. CASE Reload
  BY <1>2, ReloadKeeps
<1>3. CASE Serve
  BY <1>3, ServeKeeps
<1>4. ASSUME NEW m \in Message, Post(m) PROVE IInv'
  BY <1>4, PostKeeps
<1>5. ASSUME NEW m \in Message, CallDirect(m) PROVE IInv'
  BY <1>5, CallDirectKeeps
<1>6. ASSUME NEW call \in page.fetching, FetchFails(call) PROVE IInv'
  BY <1>6, FetchFailsKeeps
<1>7. ASSUME NEW p \in Pump, PumpStep(p) PROVE IInv'
  BY <1>7, TakeKeeps, PumpPostsKeeps, PostFailsKeeps, ClearChunksKeeps, PushChunkKeeps, DeliverKeeps DEF PumpStep
<1>8. ASSUME NEW p \in Pump, PumpEnds(p) PROVE IInv'
  BY <1>8, PumpEndsKeeps
<1>9. CASE UNCHANGED vars
  BY <1>9, StutterKeeps
<1> QED
  BY <1>1, <1>2, <1>3, <1>4, <1>5, <1>6, <1>7, <1>8, <1>9 DEF Next

LEMMA Invariance == Spec => []IInv
BY InitIInv, NextKeeps, PTL DEF Spec

-----------------------------------------------------------------------------
(* The theorems *)

\* A request in the queue has the callback of its own call, unless the page has
\* been loaded anew, and a call is never fetched and queued at once.
THEOREM TypeCorrect == Spec => []TypeOK
<1>1. IInv => TypeOK
  <2> SUFFICES ASSUME IInv PROVE TypeOK
    OBVIOUS
  <2>1. TypeInv /\ PageInv(page) /\ QueueOwn(page) /\ OnceInv
    BY DEF IInv, TypeInv, OwnInv
  <2>2. page.load \in 1..(MaxTrouble + 1) /\ page.load \in Nat \ {0}
    BY <2>1, LoadAndListeners DEF PageInv
  <2>3. faults \in 0..MaxTrouble
    <3>1. page.load + faults <= MaxTrouble + 1 /\ faults \in Nat
      BY <2>1, TroubleIs
    <3> QED
      BY <2>2, <3>1, BoundAssumption
  <2>4. /\ page.forced \in BOOLEAN /\ page.partial \in Seq([Methods -> Seq(Message \X Nat)])
        /\ page.fetching \subseteq {c \in Calls : c.load = page.load}
        /\ DOMAIN page.callbacks \subseteq 1..(page.nextId - 1)
    BY <2>1 DEF PageInv, CallOf, Text
  <2>5. ASSUME NEW r \in ToSet(page.requests)
        PROVE  IF r.id \in DOMAIN page.callbacks THEN page.callbacks[r.id] = r.call ELSE page.load > 1
    <3>1. r.call.load = page.load /\ Own(page, r.id, r.call) /\ (page.load = 1 => r.id \in DOMAIN page.callbacks)
      BY <2>1 DEF PageInv, CallOf, QueueOwn
    <3> QED
      BY <2>2, <3>1 DEF Own
  <2>6. \A id \in DOMAIN page.callbacks : page.callbacks[id] \in Calls \ page.fetching
    BY <2>1 DEF PageInv, CallOf, OnceInv, Called
  <2>7. \A p \in Pump : pumps[p].pc = "idle" <=> pumps[p].batch = <<>>
    BY <2>1 DEF TypeInv, PumpInv
  <2> QED
    BY <2>2, <2>3, <2>4, <2>5, <2>6, <2>7 DEF TypeOK
<1> QED
  BY <1>1, Invariance, PTL

\* The token is used for a call twice at most, and twice only after a fetch has
\* failed behind the bridge's back: whatever is injected, reloaded, queued and
\* pumped, and in whatever order.
THEOREM TokenUseAlways == Spec => []TokenUse
<1>1. IInv => TokenUse
  <2> SUFFICES ASSUME IInv, NEW c \in DOMAIN uses
               PROVE  uses[c] <= 2 /\ (uses[c] = 2 => ~blocked /\ faults > 0)
    BY DEF TokenUse
  <2>1. TypeInv /\ UseInv /\ c \in Calls /\ faults \in Nat /\ uses[c] \in Nat
    BY DEF IInv, TypeInv
  <2>2. Count(uses, c) = uses[c]
    BY DEF Count
  <2>3. Ways(c) \in Nat /\ uses[c] <= Ways(c)
    BY <2>1, <2>2 DEF Ways
  <2>4. Ways(c) <= 2
    BY <2>1, <2>3 DEF UseInv
  <2>5. blocked => uses[c] <= 1
    BY <2>1, <2>2 DEF UseInv
  <2>6. ~blocked /\ faults = 0 => Ways(c) <= 1
    BY <2>1, <2>3 DEF UseInv
  <2> QED
    BY <2>1, <2>3, <2>4, <2>5, <2>6
<1> QED
  BY <1>1, Invariance, PTL

\* The first reply to a call that has been asked about.
LEMMA ReplyRefines ==
  ASSUME IInv, NEW call \in page.fetching \cup Called(page), NEW of, NEW ok \in BOOLEAN,
         of = call \/ of.load < call.load,
         replies' = Replied(call, of, ok), UNCHANGED posted
  PROVE  Abstract!Next
<1>1. call \notin DOMAIN replies /\ call.message \in Asked
  BY DEF IInv, OnceInv, AskedInv, Live
<1> DEFINE reply == [of |-> of, ok |-> ok]
<1>2. Append(<<>>, reply) = << reply >> /\ << reply >>[1] = reply
  OBVIOUS
<1>3. /\ DOMAIN replies' = DOMAIN replies \cup {call}
      /\ replies' = [c \in DOMAIN replies \cup {call} |-> IF c = call THEN << reply >> ELSE replies[c]]
  BY <1>1, <1>2 DEF Replied, Put
<1>4. replies'[call][1].of = of
  BY <1>2, <1>3
<1>5. call \in DOMAIN replies' \ DOMAIN replies
  BY <1>1, <1>3
<1>6. UNCHANGED Asked
  BY DEF Asked
<1>7. Abstract!Reply
  BY <1>1, <1>3, <1>4, <1>5, <1>6 DEF Abstract!Reply
<1> QED
  BY <1>7 DEF Abstract!Next

LEMMA AskRefines ==
  ASSUME IInv, NEW e \in Part, posted' = Append(posted, e), UNCHANGED replies
  PROVE  Abstract!Next
<1>1. ToSet(posted') = ToSet(posted) \cup {e}
  BY ToSetAppend DEF IInv, TypeInv
<1>2. /\ Asked = {m \in Message : \E x \in ToSet(posted) : x.message = m /\ x.part \in {0, Parts[m]}}
      /\ Asked' = {m \in Message : \E x \in ToSet(posted') : x.message = m /\ x.part \in {0, Parts[m]}}
  BY DEF Asked, ToSet
<1>3. Asked' \in SUBSET Message /\ Asked \subseteq Asked'
  BY <1>1, <1>2
<1> QED
  BY <1>3 DEF Abstract!Next, Abstract!Ask

LEMMA DeliverRefines ==
  ASSUME IInv, NEW p \in Pump, Deliver(p)
  PROVE  Abstract!Next \/ UNCHANGED <<Asked, replies>>
<1> DEFINE id     == Current(p).id
           joined == page.chunks[id]
           call   == page.callbacks[id]
<1>1. UNCHANGED posted
  BY DEF Deliver
<1>2. CASE UNCHANGED replies
  BY <1>1, <1>2 DEF Asked
<1>3. CASE ~UNCHANGED replies
  <2>1. /\ id \in DOMAIN page.chunks /\ joined # <<>> /\ id \in DOMAIN page.callbacks
        /\ replies' = Replied(call, joined[1].of, pumps[p].ok /\ joined[1].ok)
    BY <1>3 DEF Deliver
  <2>2. PageInv(page) /\ ChunksOwn(page) /\ pumps[p].ok \in BOOLEAN
    BY DEF IInv, TypeInv, OwnInv, PumpType
  <2>3. joined \in Seq(Chunk)
    BY <2>1, <2>2 DEF PageInv
  <2>4. joined[1] = Head(joined) /\ Head(joined) \in Chunk /\ Head(joined) \in ToSet(joined)
    BY <2>1, <2>3, HeadTail
  <2> HIDE DEF joined
  <2>5. joined[1].of \in Calls /\ joined[1].ok \in BOOLEAN /\ Own(page, id, joined[1].of)
    <3>1. joined[1] \in Chunk /\ joined[1] \in ToSet(joined)
      BY <2>4
    <3>2. joined[1].of \in Calls /\ joined[1].ok \in BOOLEAN
      BY <3>1 DEF Chunk
    <3>3. \A x \in ToSet(page.chunks[id]) : Own(page, id, x.of)
      BY <2>1, <2>2 DEF ChunksOwn
    <3> QED
      BY <3>1, <3>2, <3>3 DEF joined
  <2>6. call \in Called(page) /\ call.load = page.load
    BY <2>1, <2>2 DEF Called, PageInv, CallOf
  <2>7. joined[1].of = call \/ joined[1].of.load < call.load
    <3>1. joined[1].of.load \in Nat /\ page.load \in Nat
      BY <2>2, <2>5, CallLoad DEF PageInv
    <3>2. joined[1].of.load = page.load => joined[1].of = call
      BY <2>1, <2>5 DEF Own
    <3>3. joined[1].of.load <= page.load
      BY <2>5 DEF Own
    <3> QED
      BY <2>6, <3>1, <3>2, <3>3
  <2>8. (pumps[p].ok /\ joined[1].ok) \in BOOLEAN
    OBVIOUS
  <2> QED
    BY <1>1, <2>1, <2>6, <2>7, <2>8, ReplyRefines
<1> QED
  BY <1>2, <1>3

LEMMA NextRefines == IInv /\ [Next]_vars => [Abstract!Next]_<<Asked, replies>>
<1> SUFFICES ASSUME IInv, [Next]_vars PROVE Abstract!Next \/ UNCHANGED <<Asked, replies>>
  OBVIOUS
<1>1. ASSUME UNCHANGED <<posted, replies>> PROVE UNCHANGED <<Asked, replies>>
  BY <1>1 DEF Asked
<1>2. CASE Inject \/ Reload
  BY <1>1, <1>2 DEF Inject, Reload
<1>3. CASE Serve
  <2> DEFINE conn == Head(backlog)
  <2>1. UNCHANGED posted /\ \/ UNCHANGED replies
                            \/ \E ok \in BOOLEAN : Answer(conn, ok)
    BY <1>3 DEF Serve
  <2>2. ASSUME NEW ok \in BOOLEAN, Answer(conn, ok), ~UNCHANGED replies PROVE Abstract!Next
    <3>1. conn.call \in page.fetching /\ replies' = Replied(conn.call, conn.call, ok)
      BY <2>2 DEF Answer
    <3> QED
      BY <2>1, <3>1, ReplyRefines
  <2> QED
    BY <1>1, <2>1, <2>2
<1>4. CASE \E call \in page.fetching : FetchFails(call)
  BY <1>1, <1>4 DEF FetchFails
<1>5. ASSUME NEW m \in Message, Post(m) \/ CallDirect(m) PROVE Abstract!Next
  <2>1. UNCHANGED replies /\ \E part \in Nat : posted' = Append(posted, [message |-> m, part |-> part, load |-> page.load])
    <3>1. TypeInv
      BY DEF IInv
    <3>2. Progress(m) + 1 \in Nat /\ 0 \in Nat
      BY <3>1, ProgressIsNat
    <3>3. CASE Post(m)
      BY <3>2, <3>3 DEF Post
    <3>4. CASE CallDirect(m)
      BY <3>2, <3>4 DEF CallDirect
    <3> QED
      BY <1>5, <3>3, <3>4
  <2>2. page.load \in Nat
    BY DEF IInv, TypeInv, PageInv
  <2>3. \A part \in Nat : [message |-> m, part |-> part, load |-> page.load] \in Part
    BY <2>2 DEF Part
  <2> QED
    BY <2>1, <2>3, AskRefines
<1>6. ASSUME NEW p \in Pump, PumpStep(p) \/ PumpEnds(p) PROVE Abstract!Next \/ UNCHANGED <<Asked, replies>>
  <2>1. CASE Deliver(p)
    BY <2>1, DeliverRefines
  <2>2. CASE Take(p) \/ PumpPosts(p) \/ PostFails(p) \/ ClearChunks(p) \/ PushChunk(p) \/ PumpEnds(p)
    BY <1>1, <2>2 DEF Take, PumpPosts, PostFails, ClearChunks, PushChunk, PumpEnds
  <2> QED
    BY <1>6, <2>1, <2>2 DEF PumpStep
<1>7. CASE UNCHANGED vars
  BY <1>1, <1>7 DEF vars
<1> QED
  BY <1>2, <1>3, <1>4, <1>5, <1>6, <1>7 DEF Next

\* The page gets at most one reply to each call, only when its message has been
\* posted in full, and the answer is its own unless a page before this one asked
\* for it: what page, queue, pumps and bridge do, seen through the messages asked
\* and the replies, is a run of RequestReply.
THEOREM RefinesRequestReply == Spec => RepliesOnce
<1>1. Init => Abstract!Init
  <2>1. Init => posted = <<>> /\ replies = <<>>
    BY DEF Init
  <2>2. DOMAIN <<>> = {}
    OBVIOUS
  <2>3. posted = <<>> => Asked = {}
    BY <2>2 DEF Asked
  <2> QED
    BY <2>1, <2>3 DEF Abstract!Init
<1> QED
  BY <1>1, Invariance, NextRefines, PTL DEF Spec, RepliesOnce, Abstract!Spec
=============================================================================
