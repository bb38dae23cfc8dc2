------------------------------ MODULE EsiaPlugin ------------------------------
(***************************************************************************)
(* The login page of ESIA and browser/esia-ifcplugin-inject.js in it. The  *)
(* page posts a command to its own window and waits for a reply, which     *)
(* does not say what it replies to. The script answers each command, some  *)
(* at once, some from the certificate it has cached, some by a request to  *)
(* the bridge: by fetch or, if that fails or by default, through a queue   *)
(* that a pump empties (PageQueue shows the pump and the bridge in         *)
(* detail; here a request is served in one step, or ends with its pump).   *)
(*                                                                         *)
(* Each injection is a closure with a cache of its own, and only the first *)
(* in a window listens. A call, the promise a closure waits for, is        *)
(* [load, closure, command]; the command None is the certificate that is   *)
(* fetched when the script is injected.                                    *)
(***************************************************************************)
EXTENDS Naturals, Sequences, FiniteSets, SequencesExt

CONSTANTS
  Function,    \* the func_name of each command that the page asks, in this order
  None,        \* no command, no reply
  Certificate, \* that of the bridge
  Failed,      \* an error in place of an answer
  MaxTroubles  \* bound: failures, commands given up, further injections and, counting twice, reloads

Functions == {"version", "create", "get_guid", "get_list_info", "free_x509", "hash", "get_list_keys",
              "get_list_certs_by_cryptoid_array", "get_list_certs", "load_x509_from_container",
              "load_x509_from_data", "get_x509_info", "sign", "unknown"}

Command == DOMAIN Function

ASSUME FunctionAssumption == Function \in Seq(Functions)
ASSUME ValueAssumption == None \notin Command \cup {Certificate, Failed} /\ Failed \notin Command \cup {Certificate}
ASSUME BoundAssumption == MaxTroubles \in Nat

VARIABLES
  page,      \* the window: the closures injected, the queue, the fetches that are out
  mail,      \* the messages of the window, in order
  waiting,   \* the command the page waits for, or None
  taken,     \* the reply the page took for each command
  pump,      \* the requests a pump has taken
  uses,      \* history: how often the token signed for each command, by either way
  failed,    \* history: the commands whose call failed
  lost,      \* history: a reply may be for another: the page did not wait, or was loaded anew
  stranded,  \* history: the commands whose request ended with a pump
  troubles

vars == <<page, mail, waiting, taken, pump, uses, failed, lost, stranded, troubles>>

Troubles(n) == troubles + n <= MaxTroubles /\ troubles' = troubles + n
Trouble == Troubles(1)

\* f with k mapped to v, and f without k.
Put(f, k, v) == [j \in DOMAIN f \cup {k} |-> IF j = k THEN v ELSE f[j]]
Drop(f, k)   == [j \in DOMAIN f \ {k} |-> f[j]]

-----------------------------------------------------------------------------
(* The script *)

FreshPage(load) == [load |-> load, listeners |-> <<>>, forced |-> <<>>, certCache |-> <<>>,
                    nextId |-> 1, callbacks |-> <<>>, requests |-> <<>>, fetching |-> {}]

queueJson(p, call) == [p EXCEPT !.nextId = @ + 1,
                                !.callbacks = Put(@, p.nextId, call),
                                !.requests = Append(@, [id |-> p.nextId, call |-> call])]

postJson(p, call) == IF p.forced[call.closure] THEN queueJson(p, call)
                     ELSE [p EXCEPT !.fetching = @ \cup {call}]

Signs(call) == call.command # None /\ Function[call.command] = "sign"

Local == {"version", "create", "get_guid", "get_list_info", "free_x509"}
Unsupported == {"hash", "unknown"}

\* The reply to a command, with what it is made of. A code 1 stands for -1.
Reply(command, code, of) == [type |-> "FROM_IFC_EXT", command |-> command, code |-> code, of |-> of]

\* A command whose call fails is answered all the same; a list of keys is just empty then.
ReplyOf(call, answer) ==
  LET fails == CASE Signs(call) -> 1 [] Function[call.command] = "get_list_keys" -> 0 [] OTHER -> 9
  IN  Reply(call.command, IF answer = Failed THEN fails ELSE 0, answer)

\* What closure c does with a command: the page and the replies then.
handleCommand(p, c, command) ==
  LET call == [load |-> p.load, closure |-> c, command |-> command]
      cached == Function[command] \notin Local \cup Unsupported /\ ~Signs(call) /\ p.certCache[c] # None
  IN  CASE Function[command] \in Local       -> [page |-> p, replies |-> <<Reply(command, 0, None)>>]
        [] Function[command] \in Unsupported -> [page |-> p, replies |-> <<Reply(command, 17, None)>>]
        [] cached                            -> [page |-> p, replies |-> <<ReplyOf(call, p.certCache[c])>>]
        [] OTHER                             -> [page |-> postJson(p, call), replies |-> <<>>]

\* Mutant: The promise is cached, even when it is rejected.
loadCertEntry_CachesFailure(p, call, answer) ==
  IF Signs(call) THEN p ELSE [p EXCEPT !.certCache[call.closure] = answer]

\* The certificate is cached in the closure that asked.
loadCertEntry(p, call, answer) ==
  IF Signs(call) \/ answer = Failed THEN p ELSE [p EXCEPT !.certCache[call.closure] = answer]

\* Mutant: An error is thrown and nobody catches it.
Settle_Uncaught(p, call, answer) ==
  /\ page' = loadCertEntry(p, call, answer)
  /\ mail' = IF call.command = None \/ answer = Failed THEN mail ELSE Append(mail, ReplyOf(call, answer))
  /\ failed' = IF answer = Failed THEN failed \cup ({call.command} \ {None}) ELSE failed

\* The promise of a call is settled, with an answer or Failed.
Settle(p, call, answer) ==
  /\ page' = loadCertEntry(p, call, answer)
  /\ mail' = IF call.command = None THEN mail ELSE Append(mail, ReplyOf(call, answer))
  /\ failed' = IF answer = Failed THEN failed \cup ({call.command} \ {None}) ELSE failed

Injected(force, listeners) ==
  LET c == Len(page.forced) + 1
      p == [page EXCEPT !.forced = Append(@, force), !.certCache = Append(@, None), !.listeners = listeners]
  IN  postJson(p, [load |-> page.load, closure |-> c, command |-> None])

\* Mutant: Every injection listens.
Inject_Listens ==
  /\ IF page.listeners = <<>> THEN UNCHANGED troubles ELSE Trouble
  /\ \E force \in BOOLEAN : page' = Injected(force, Append(page.listeners, Len(page.forced) + 1))
  /\ UNCHANGED <<mail, waiting, taken, pump, uses, failed, lost, stranded>>

\* The script is read into the page, once more perhaps: a closure, a listener if there is none, and the
\* request for the certificate. The queue is that of the window.
Inject ==
  /\ IF page.listeners = <<>> THEN UNCHANGED troubles ELSE Trouble
  /\ \E force \in BOOLEAN : page' = Injected(force, <<1>>)
  /\ UNCHANGED <<mail, waiting, taken, pump, uses, failed, lost, stranded>>

-----------------------------------------------------------------------------
(* The page *)

\* One command at a time.
Ask ==
  LET command == Cardinality(DOMAIN taken) + 1
  IN  /\ waiting = None /\ page.listeners # <<>>
      /\ command \in Command
      /\ waiting' = command
      /\ mail' = Append(mail, [type |-> "TO_IFC_EXT", command |-> command])
      /\ UNCHANGED <<page, taken, pump, uses, failed, lost, stranded, troubles>>

\* A message comes to every listener of the window, the page's own and those of the script.
Receive ==
  LET m == Head(mail)
      Hear(done, c) == LET h == handleCommand(done.page, c, m.command)
                       IN  [page |-> h.page, replies |-> done.replies \o h.replies]
      heard == FoldLeft(Hear, [page |-> page, replies |-> <<>>], page.listeners)
  IN  /\ mail # <<>>
      /\ IF m.type = "TO_IFC_EXT"
         THEN /\ page' = heard.page /\ mail' = Tail(mail) \o heard.replies
              /\ UNCHANGED <<waiting, taken>>
         ELSE /\ mail' = Tail(mail)
              /\ waiting' = None
              /\ taken' = IF waiting = None THEN taken ELSE Put(taken, waiting, m)
              /\ UNCHANGED page
      /\ UNCHANGED <<pump, uses, failed, lost, stranded, troubles>>

Unanswered == IF waiting = None THEN taken ELSE Put(taken, waiting, None)

\* The page waits no longer. A reply that comes late is taken for that to the next command.
GiveUp ==
  /\ waiting # None /\ Trouble
  /\ waiting' = None /\ taken' = Unanswered
  /\ lost' = TRUE
  /\ UNCHANGED <<page, mail, pump, uses, failed, stranded>>

\* The window is a new one, and what a pump holds is for identifiers of the old.
Reload ==
  /\ Troubles(2)
  /\ page' = FreshPage(page.load + 1) /\ mail' = <<>>
  /\ waiting' = None /\ taken' = Unanswered
  /\ lost' = (lost \/ pump # {})
  /\ UNCHANGED <<pump, uses, failed, stranded>>

-----------------------------------------------------------------------------
(* The bridge *)

\* What the bridge answers: the signature for a command, or its certificate.
Answer(call) == IF Signs(call) THEN call.command ELSE Certificate

\* The bridge handles a call that came one way or the other, and signs for it.
Use(call, way) ==
  uses' = IF Signs(call) THEN Put(uses, <<call.command, way>>, IF <<call.command, way>> \in DOMAIN uses
                                                               THEN uses[<<call.command, way>>] + 1 ELSE 1)
          ELSE uses

FetchServed(call) ==
  /\ call \in page.fetching
  /\ Use(call, "fetch")
  /\ Settle([page EXCEPT !.fetching = @ \ {call}], call, Answer(call))
  /\ UNCHANGED <<waiting, taken, pump, lost, stranded, troubles>>

\* Blocked, or an error status, or an answer that is no JSON: the request is queued, whether or not
\* the bridge has handled it.
FetchFails(call) ==
  /\ call \in page.fetching
  /\ UNCHANGED <<uses, troubles>> \/ (Use(call, "fetch") /\ Trouble)
  /\ page' = queueJson([page EXCEPT !.fetching = @ \ {call}], call)
  /\ UNCHANGED <<mail, waiting, taken, pump, failed, lost, stranded>>

\* Mutant: The requests are copied, not taken.
Take_Copies ==
  /\ page.requests # <<>> /\ ~(ToSet(page.requests) \subseteq pump)
  /\ pump' = pump \cup ToSet(page.requests)
  /\ UNCHANGED <<page, mail, waiting, taken, uses, failed, lost, stranded, troubles>>

\* A pump takes all requests there are.
Take ==
  /\ page.requests # <<>>
  /\ pump' = pump \cup ToSet(page.requests)
  /\ page' = [page EXCEPT !.requests = <<>>]
  /\ UNCHANGED <<mail, waiting, taken, uses, failed, lost, stranded, troubles>>

\* The pump posts request r, and __cryptokiddieBridgeDeliver gets the answer or an error. The callback is
\* found by its identifier, which after a reload is another's: a signature does not pass for a certificate.
Deliver(r, success) ==
  /\ r \in pump
  /\ pump' = pump \ {r}
  /\ Use(r.call, "queue") \/ (~success /\ UNCHANGED uses)
  /\ IF r.id \in DOMAIN page.callbacks
     THEN LET call == page.callbacks[r.id]
          IN  Settle([page EXCEPT !.callbacks = Drop(@, r.id)], call,
                     IF success /\ Signs(call) = Signs(r.call) THEN Answer(r.call) ELSE Failed)
     ELSE UNCHANGED <<page, mail, failed>>
  /\ UNCHANGED <<waiting, taken, lost, stranded, troubles>>

\* A script fails, or the pump is stopped: it ends with request r, which the bridge may have handled, and
\* with the others it has taken. Nobody posts them again, and their callbacks stay in the page.
PumpEnds(r) ==
  /\ r \in pump /\ Trouble
  /\ Use(r.call, "queue") \/ UNCHANGED uses
  /\ \E gone \in SUBSET pump : /\ r \in gone
                              /\ pump' = pump \ gone
                              /\ stranded' = stranded \cup ({g.call.command : g \in gone} \ {None})
  /\ UNCHANGED <<page, mail, waiting, taken, failed, lost>>

-----------------------------------------------------------------------------
Init ==
  /\ page = FreshPage(1)
  /\ mail = <<>> /\ waiting = None /\ taken = <<>>
  /\ pump = {} /\ uses = <<>> /\ failed = {} /\ lost = FALSE /\ stranded = {} /\ troubles = 0

BridgeStep == \/ Take
              \/ \E call \in page.fetching : FetchServed(call) \/ FetchFails(call)
              \/ \E r \in pump, success \in BOOLEAN : Deliver(r, success)

Next == \/ Inject \/ Ask \/ Receive \/ GiveUp \/ Reload
        \/ BridgeStep \/ \E r \in pump : PumpEnds(r)

Spec == Init /\ [][Next]_vars

\* The window delivers its messages; a fetch is answered or rejected; a pump runs in a loop, and one
\* that does not end brings each request it has taken back, with an answer or a time-out.
FairSpec == Spec /\ WF_vars(Receive) /\ WF_vars(BridgeStep)

-----------------------------------------------------------------------------
(* Properties *)

Calls == [load : 1 .. MaxTroubles + 1, closure : 1 .. MaxTroubles + 1, command : Command \cup {None}]

\* The types. A call is out by one way at most: fetched, in the queue, or with the pump.
TypeOK ==
  /\ page.listeners \in {<<>>, <<1>>}
  /\ Len(page.certCache) = Len(page.forced)
  /\ \A c \in DOMAIN page.certCache : page.certCache[c] \in {Certificate, None}
  /\ page.fetching \subseteq Calls
  /\ \A r \in ToSet(page.requests) : r.call \notin page.fetching /\ r \notin pump
  /\ waiting \in Command \cup {None} /\ waiting \notin DOMAIN taken
  /\ troubles \in 0 .. MaxTroubles

\* The single slot of the page: as long as it waits for each reply and no pump carries answers over a
\* reload, the reply it takes is the one to its command, a signature is of that command's own data,
\* and there is no error but that of the command's own call: a
\* certificate that could not be had before is asked for anew.
OwnReply ==
  ~lost => \A c \in DOMAIN taken : taken[c] # None =>
    LET m == taken[c]
    IN  /\ m.command = c
        /\ m.of \in {None, Failed, IF Function[c] = "sign" THEN c ELSE Certificate}
        /\ m.of = Failed => c \in failed

\* The token signs for a command once at most by each way, whatever is injected, reloaded, delivered late
\* or lost with a pump that ended.
SignsOnce == \A u \in DOMAIN uses : uses[u] = 1

\* Only a pump that ends leaves the page waiting: every command is answered, by an error if need be, or
\* given up, unless its request was one of those that ended with a pump.
Answered == \A c \in Command : waiting = c ~> (waiting # c \/ c \in stranded)

===============================================================================
