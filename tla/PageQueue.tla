------------------------------ MODULE PageQueue ------------------------------
(***************************************************************************)
(* Plugin calls of a portal's page: browser/gosuslugi-inject.js in the     *)
(* page, browser/gosuslugi-safari-pump-once.rb (run in a loop by           *)
(* browser/esia-pump-loop.sh) outside it, and the bridge that both post to *)
(* (gosuslugi_bridge::serve in src/src/lib.rs).                            *)
(*                                                                         *)
(* The page posts messages, whose payload may come in several parts.  Each *)
(* injection adds one listener, which puts the parts together, and posts   *)
(* the whole to the bridge, by fetch or, if that fails or the page forces  *)
(* it, through a queue.  A pump takes all that is in the queue, posts one  *)
(* request after the other and pushes each answer into the page in chunks. *)
(* The page may be loaded anew at any moment.                              *)
(*                                                                         *)
(* A call, the promise one listener waits for, is [load, message,          *)
(* listener]; listener 0 is gosuslugiPluginCrypto, called directly.  An    *)
(* answer is named by the call it is the answer to.  A text is the parts   *)
(* or chunks it is joined from, and is JSON exactly when these are all of  *)
(* one payload or body, in order.                                          *)
(*                                                                         *)
(* A definition X_Name is a mutant of X; see RecordLayer.                  *)
(***************************************************************************)
EXTENDS Naturals, Sequences, FiniteSets, SequencesExt

CONSTANTS
  Message,        \* what the page asks, each at most once
  Method,         \* the method of each message
  Parts,          \* the number of parts its payload comes in
  Pump,           \* the pumps
  Chunks,         \* the number of chunks of an answer of the bridge
  MaxTrouble      \* bound: failures, reloads and, counting twice, injections
                  \* into a page that has been injected

Methods == {"certificates", "signature", "signatureV2"}

ASSUME MessageAssumption == Method \in [Message -> Methods] /\ Parts \in [Message -> Nat \ {0}]
ASSUME PumpAssumption == "page" \notin Pump
ASSUME ChunksAssumption  == Chunks \in Nat \ {0}
ASSUME BoundAssumption   == MaxTrouble \in Nat

VARIABLES
  page,       \* the state of the page's window
  posted,     \* the parts the page has posted: message, part, load
  pumps,      \* the pumps
  backlog,    \* the connections the bridge has not handled
  uses,       \* how often the token was used for each call
  replies,    \* for each call, the replies of its listener to the page
  blocked,    \* the browser keeps the page from the bridge
  faults      \* the number of failures so far

vars == <<page, posted, pumps, backlog, uses, replies, blocked, faults>>

Signs(call) == Method[call.message] # "certificates"

Trouble ==
  faults + (page.load - 1) + (IF page.partial = <<>> THEN 0 ELSE 2 * (Len(page.partial) - 1))

Fault == Trouble < MaxTrouble /\ faults' = faults + 1

-----------------------------------------------------------------------------
(* The page                                                                *)

FreshPage(load) ==
  [load |-> load, forced |-> FALSE, partial |-> <<>>, requests |-> <<>>,
   callbacks |-> <<>>, nextId |-> 1, fetching |-> {}, chunks |-> <<>>]

\* f with k mapped to v, and f without k.
Put(f, k, v) == [j \in DOMAIN f \cup {k} |-> IF j = k THEN v ELSE f[j]]
Drop(f, k)   == [j \in DOMAIN f \ {k} |-> f[j]]

Count(f, k) == IF k \in DOMAIN f THEN f[k] ELSE 0

\* The replies when that to a call is added: of which call it is, resolved or not.
Replied(call, of, ok) ==
  Put(replies, call, Append(IF call \in DOMAIN replies THEN replies[call] ELSE <<>>,
                            [of |-> of, ok |-> ok]))

NoPartials == [k \in Methods |-> <<>>]

\* The script is read into the page once more, in queue mode or not.
Inject ==
  /\ page.partial # <<>> => Trouble + 2 <= MaxTrouble
  /\ \E force \in BOOLEAN :
       page' = [page EXCEPT !.partial = Append(@, NoPartials), !.forced = @ \/ force]
  /\ UNCHANGED <<posted, pumps, backlog, uses, replies, blocked, faults>>

\* Mutant: the queue survives, the promises do not.
Reload_KeepsQueue ==
  /\ Trouble < MaxTrouble
  /\ page' = [FreshPage(page.load + 1) EXCEPT !.requests = page.requests]
  /\ UNCHANGED <<posted, pumps, backlog, uses, replies, blocked, faults>>

\* The window is a new one: what was injected and all promises are gone.
Reload ==
  /\ Trouble < MaxTrouble
  /\ page' = FreshPage(page.load + 1)
  /\ UNCHANGED <<posted, pumps, backlog, uses, replies, blocked, faults>>

\* Each call gets an identifier, a callback and an entry in the queue.
Enqueued(p, calls) ==
  LET id(i) == p.nextId + i - 1
      ids   == {id(i) : i \in DOMAIN calls}
  IN  [p EXCEPT !.callbacks = [j \in DOMAIN p.callbacks \cup ids |->
                                 IF j \in ids THEN calls[j - p.nextId + 1] ELSE p.callbacks[j]],
                !.requests = @ \o [i \in DOMAIN calls |-> [id |-> id(i), call |-> calls[i]]]]

\* Mutant: identifiers are not counted.
queueJson_SameId(p, calls) == Enqueued(p, calls)

\* queueJson for one call after the other.
queueJson(p, calls) == [Enqueued(p, calls) EXCEPT !.nextId = @ + Len(calls)]

FromPage(call) == [from |-> "page", call |-> call]

\* Calls are posted, in this order, up to the await of each.
postJson(p, calls) ==
  /\ page' = IF p.forced THEN queueJson(p, calls)
             ELSE [p EXCEPT !.fetching = @ \cup ToSet(calls)]
  /\ backlog' = IF p.forced \/ blocked THEN backlog
                ELSE backlog \o [i \in DOMAIN calls |-> FromPage(calls[i])]

PostedIn(m) == {posted[i].load : i \in {j \in DOMAIN posted : posted[j].message = m}}
Progress(m) == Cardinality({i \in DOMAIN posted : posted[i].message = m})

AllParts(m) == [i \in 1..Parts[m] |-> <<m, i>>]

IsPayload(text) == text = AllParts(text[1][1])

\* Mutant: what has been put together is not taken out.
LeftPartial_Kept(text) == text

\* The text a listener keeps: none once it could be parsed.
LeftPartial(text) == IF IsPayload(text) THEN <<>> ELSE text

\* handleCryptoMessage of every listener, in the order they were added, with the
\* next part of message m.
Post(m) ==
  LET part    == Progress(m) + 1
      k       == Method[m]
      text(l) == Append(page.partial[l][k], <<m, part>>)
      ready   == {l \in DOMAIN page.partial : IsPayload(text(l))}
  IN  /\ page.partial # <<>>
      /\ part <= Parts[m] /\ PostedIn(m) \subseteq {page.load}
      /\ posted' = Append(posted, [message |-> m, part |-> part, load |-> page.load])
      /\ \E order \in [1..Cardinality(ready) -> ready] :
           /\ \A i, j \in DOMAIN order : i < j => order[i] < order[j]
           /\ postJson([page EXCEPT !.partial = [l \in DOMAIN @ |-> [@[l] EXCEPT ![k] = LeftPartial(text(l))]]],
                       [i \in DOMAIN order |-> [load |-> page.load, message |-> text(order[i])[1][1],
                                                listener |-> order[i]]])
      /\ UNCHANGED <<pumps, uses, replies, blocked, faults>>

\* gosuslugiPluginCrypto: no listener and no parts.
CallDirect(m) ==
  /\ page.partial # <<>>
  /\ Parts[m] = 1 /\ Progress(m) = 0
  /\ posted' = Append(posted, [message |-> m, part |-> 0, load |-> page.load])
  /\ postJson(page, << [load |-> page.load, message |-> m, listener |-> 0] >>)
  /\ UNCHANGED <<pumps, uses, replies, blocked, faults>>

\* fetch rejects: it was blocked, there was no answer, or the connection broke
\* while the bridge has yet to handle it.
FetchFails(call) ==
  /\ call \in page.fetching
  /\ IF FromPage(call) \in ToSet(backlog) THEN Fault ELSE UNCHANGED faults
  /\ page' = queueJson([page EXCEPT !.fetching = @ \ {call}], << call >>)
  /\ UNCHANGED <<posted, pumps, backlog, uses, replies, blocked>>

-----------------------------------------------------------------------------
(* The bridge                                                              *)

\* The answer, whole or not, gets to whoever still waits for it.
Answer(conn, ok) ==
  LET call    == conn.call
      fetched == conn.from = "page" /\ call \in page.fetching
      waits   == \E p \in Pump : /\ conn.from = p /\ pumps[p].pc = "wait"
                                 /\ Head(pumps[p].batch).call = call
  IN  /\ page' = IF fetched THEN [page EXCEPT !.fetching = @ \ {call}] ELSE page
      /\ replies' = IF fetched THEN Replied(call, call, ok) ELSE replies
      /\ pumps' = IF waits THEN [pumps EXCEPT ![conn.from].pc = "clear", ![conn.from].ok = ok]
                  ELSE pumps

\* handle_connection: an error, of the token for instance, closes the
\* connection without a response.  A response may also break off: a fetch then
\* fails for good, as response.json() is not awaited where it could be caught.
Serve ==
  /\ backlog # <<>>
  /\ backlog' = Tail(backlog)
  /\ LET conn == Head(backlog)
     IN  /\ uses' = IF Signs(conn.call) THEN Put(uses, conn.call, Count(uses, conn.call) + 1) ELSE uses
         /\ \/ Answer(conn, TRUE) /\ UNCHANGED faults
            \/ Answer(conn, FALSE) /\ Fault
            \/ Fault /\ UNCHANGED <<page, pumps, replies>>
  /\ UNCHANGED <<posted, blocked>>

-----------------------------------------------------------------------------
(* A pump                                                                  *)

Idle == [pc |-> "idle", batch |-> <<>>, ok |-> FALSE, pushed |-> 0]

Current(p) == Head(pumps[p].batch)

\* The chunks of the answer that pump p holds.
Body(p) ==
  [i \in 1..(IF pumps[p].ok THEN Chunks ELSE 1) |->
     [of |-> Current(p).call, ok |-> pumps[p].ok, i |-> i]]

\* Mutant: the requests are copied, not taken.
Take_Copies(p) ==
  /\ pumps[p].pc = "idle" /\ page.requests # <<>>
  /\ pumps' = [pumps EXCEPT ![p].pc = "post", ![p].batch = page.requests]
  /\ UNCHANGED <<page, posted, backlog, uses, replies, blocked, faults>>

\* requests.splice(0): all there are.
Take(p) ==
  /\ pumps[p].pc = "idle" /\ page.requests # <<>>
  /\ pumps' = [pumps EXCEPT ![p].pc = "post", ![p].batch = page.requests]
  /\ page' = [page EXCEPT !.requests = <<>>]
  /\ UNCHANGED <<posted, backlog, uses, replies, blocked, faults>>

PumpPosts(p) ==
  /\ pumps[p].pc = "post"
  /\ pumps' = [pumps EXCEPT ![p].pc = "wait"]
  /\ backlog' = Append(backlog, [from |-> p, call |-> Current(p).call])
  /\ UNCHANGED <<page, posted, uses, replies, blocked, faults>>

\* The connection ends without a response, or the read times out.
PostFails(p) ==
  /\ pumps[p].pc = "wait"
  /\ IF [from |-> p, call |-> Current(p).call] \in ToSet(backlog) THEN Fault ELSE UNCHANGED faults
  /\ pumps' = [pumps EXCEPT ![p].pc = "clear", ![p].ok = FALSE]
  /\ UNCHANGED <<page, posted, backlog, uses, replies, blocked>>

\* Chunks[id] = [].
ClearChunks(p) ==
  /\ pumps[p].pc = "clear"
  /\ page' = [page EXCEPT !.chunks = Put(@, Current(p).id, <<>>)]
  /\ pumps' = [pumps EXCEPT ![p].pc = "push", ![p].pushed = 0]
  /\ UNCHANGED <<posted, backlog, uses, replies, blocked, faults>>

\* Pump p goes on as q; after an exception in the page it may end instead.
GoesOn(p, q, exception) ==
  \/ pumps' = [pumps EXCEPT ![p] = q]
  \/ exception /\ pumps' = [pumps EXCEPT ![p] = Idle]

PushChunk(p) ==
  LET id   == Current(p).id
      n    == pumps[p].pushed + 1
      here == id \in DOMAIN page.chunks
  IN  /\ pumps[p].pc = "push"
      /\ page' = IF here THEN [page EXCEPT !.chunks[id] = Append(@, Body(p)[n])] ELSE page
      /\ GoesOn(p, [pumps[p] EXCEPT !.pushed = n,
                                    !.pc = IF n = Len(Body(p)) THEN "deliver" ELSE "push"], ~here)
      /\ UNCHANGED <<posted, backlog, uses, replies, blocked, faults>>

\* The pump after its current request.
Done(p) ==
  IF Len(pumps[p].batch) = 1 THEN Idle
  ELSE [Idle EXCEPT !.pc = "post", !.batch = Tail(pumps[p].batch)]

\* The chunks are joined and parsed, and the callback is called and removed.
\* There is an exception if there are no chunks of this identifier, if they
\* are not one body, or if the script has not been injected.
Deliver(p) ==
  LET id     == Current(p).id
      here   == id \in DOMAIN page.chunks
      joined == page.chunks[id]
      parses == here /\ joined # <<>> /\
                joined = [i \in 1..(IF joined[1].ok THEN Chunks ELSE 1) |->
                            [of |-> joined[1].of, ok |-> joined[1].ok, i |-> i]]
      called == parses /\ page.partial # <<>> /\ id \in DOMAIN page.callbacks
  IN  /\ pumps[p].pc = "deliver"
      /\ page' = [page EXCEPT !.chunks = Drop(@, id),
                              !.callbacks = IF called THEN Drop(@, id) ELSE @]
      /\ replies' = IF called
                    THEN Replied(page.callbacks[id], joined[1].of, pumps[p].ok /\ joined[1].ok)
                    ELSE replies
      /\ GoesOn(p, Done(p), ~parses \/ page.partial = <<>>)
      /\ UNCHANGED <<posted, backlog, uses, blocked, faults>>

\* The pump is stopped, or osascript fails.
PumpEnds(p) ==
  /\ pumps[p].pc # "idle"
  /\ Fault
  /\ pumps' = [pumps EXCEPT ![p] = Idle]
  /\ UNCHANGED <<page, posted, backlog, uses, replies, blocked>>

-----------------------------------------------------------------------------

Init ==
  /\ page = FreshPage(1)
  /\ posted = <<>>
  /\ pumps = [p \in Pump |-> Idle]
  /\ backlog = <<>> /\ uses = <<>> /\ replies = <<>>
  /\ blocked \in BOOLEAN
  /\ faults = 0

PumpStep(p) ==
  Take(p) \/ PumpPosts(p) \/ PostFails(p) \/ ClearChunks(p) \/ PushChunk(p) \/ Deliver(p)

Next ==
  \/ Inject \/ Reload \/ Serve
  \/ \E m \in Message : Post(m) \/ CallDirect(m)
  \/ \E call \in page.fetching : FetchFails(call)
  \/ \E p \in Pump : PumpStep(p) \/ PumpEnds(p)

Spec == Init /\ [][Next]_vars

\* The bridge serves, a fetch without an answer rejects, and the pumps run in
\* a loop.
FairSpec ==
  /\ Spec
  /\ WF_vars(Serve)
  /\ WF_vars(\E call \in page.fetching : FetchFails(call) /\ faults' = faults)
  /\ \A p \in Pump : WF_vars(PumpStep(p) /\ faults' = faults)

-----------------------------------------------------------------------------
(* Properties                                                              *)

Calls == [load : 1..(MaxTrouble + 1), message : Message, listener : 0..(MaxTrouble + 1)]

\* Every variable has its type.  A request in the queue has the callback of its
\* own call, which only the answer to a request of an earlier load can have
\* taken, and a call is not fetched and queued at once.
TypeOK ==
  /\ page.load \in 1..(MaxTrouble + 1) /\ page.forced \in BOOLEAN
  /\ page.partial \in Seq([Methods -> Seq(Message \X Nat)])
  /\ page.fetching \subseteq {c \in Calls : c.load = page.load}
  /\ DOMAIN page.callbacks \subseteq 1..(page.nextId - 1)
  /\ \A r \in ToSet(page.requests) :
       IF r.id \in DOMAIN page.callbacks THEN page.callbacks[r.id] = r.call ELSE page.load > 1
  /\ \A id \in DOMAIN page.callbacks : page.callbacks[id] \in Calls \ page.fetching
  /\ \A p \in Pump : pumps[p].pc = "idle" <=> pumps[p].batch = <<>>
  /\ faults \in 0..MaxTrouble

\* A call is never given to the token more than twice, and twice only when its
\* fetch had failed after it reached the bridge: never in queue mode, and never
\* if nothing, the token included, failed.  This is what a user's PIN tries depend on.
TokenUse ==
  \A c \in DOMAIN uses :
    /\ uses[c] <= 2
    /\ uses[c] = 2 => ~blocked /\ faults > 0

\* The messages posted in full.
Asked == {m \in Message : \E i \in DOMAIN posted : posted[i].message = m /\ posted[i].part \in {0, Parts[m]}}

Abstract == INSTANCE RequestReply WITH asked <- Asked

\* Each listener replies to a message at most once, when it has been posted in
\* full, and with its own answer unless the page has been loaded anew: with
\* several pumps, chunks of several answers in the page, lost answers, and a
\* fetch that fails late.
RepliesOnce == Abstract!Spec

\* The parts of messages of one method have come one message after the other.
Unmixed(k) ==
  LET of == SelectSeq(posted, LAMBDA x : Method[x.message] = k /\ x.part # 0)
  IN  \A i \in 2..Len(of) : IF of[i].part = 1 THEN of[i-1].part = Parts[of[i-1].message]
                            ELSE of[i-1].message = of[i].message

Undisturbed(m) == faults = 0 /\ page.load = 1 /\ Unmixed(Method[m])

\* The page gets a reply to every message, however its parts fall around
\* injections and whatever the way the call goes, unless something fails, the
\* page is loaded anew, or messages of one method are posted part by part at
\* the same time.
Answered ==
  \A m \in Message :
    (m \in Asked /\ Undisturbed(m)) ~>
      (~Undisturbed(m) \/ \E c \in DOMAIN replies : c.message = m)

\* "posts them to the local bridge, delivering responses back into the page"
\* (browser/esia-pump-loop.sh:3): a response is delivered to the request it
\* responds to.  Violated: after a reload the same identifier is another's.
OwnAnswer ==
  \A c \in DOMAIN replies : \A i \in DOMAIN replies[c] : replies[c][i].of = c
=============================================================================
