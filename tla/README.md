# Verification of CryptoKiddie in TLA+

CryptoKiddie signs documents and opens GOST TLS connections with a Rutoken. This
project holds TLA+ models of the parts of it in which order, failure and shared
state matter, the TLC runs that check them, and proofs of what matters most.
Paths are relative to the repository, `lib.rs` is `src/src/lib.rs`.

## The system

| Part | State | Operations | Talks to |
|---|---|---|---|
| Record layer (`gost_record.rs`) | per direction: keystream position, running IMIT, sequence number | `protect`, `unprotect` | the peer's record layer, over a TCP stream |
| Keystream and IMIT (`gost28147.rs`) | partial block, feedback registers, bytes since the last key meshing | `apply`, `update`, `finalize` | the record layer |
| Handshake (`gost_client.rs`, `gost_login.rs`, `gost_handshake.rs`, `tls.rs`) | transcript, randoms, master secret, the record layer once it is active, the reassembly buffer | the flights of `run_login`, `probe_stage` | the server; the token for CertificateVerify |
| Token transport and operations (`lib.rs`: `ccid`, `rutoken`, `token`) | device handle, CCID sequence number; in the card: selected file, PIN state, security environment, tries | `sign_digest`, `derive_vko`, `read_certificate_der` | the reader, one bulk write and one bulk read per command |
| GOST bridge (`lib.rs`: `GostBridgeCommand`; `gost_bridge.rs`) | the listener's backlog, one cookie jar, the certificate chain | one request at a time: proxy, sign, login, challenge, register | browsers; upstream hosts; the token in every handshake |
| Gosuslugi bridge and page queue (`lib.rs`: `gosuslugi_bridge`; `browser/`) | the page's queue, callbacks and identifiers, partial payloads; the pump's batch | `postJson`, `queueJson`, deliver, the pump, `serve` | the page, a pump that polls it, the bridge, the token |
| ESIA plugin (`browser/esia-ifcplugin-inject.js`) | per injection: the cached certificate; the window's queue and listener | `handleCommand`, `loadCertEntry`, `signViaBridge`, deliver | the login page, by messages without identifiers; the bridge, by fetch or the pump |
| Command line and CMS (`lib.rs`: `run_cli`, the `...Command` types, `cms_envelope`, the PKCS#11 signer; `main.rs`) | the options, the values read so far, the output file, a PKCS#11 session | parse, validate, read, sign, build, write | files, PKCS#11 modules, the token calls, the bridges it starts |
| HTTP messages (`gost_bridge.rs`, `lib.rs`: `HttpRequest`) | a buffer per message | read, rewrite, send on, decode | browsers and upstream hosts |
| Key exchange (`gost_ec.rs`, `gost_vko.rs`, `gost_keywrap.rs`, `gost_keytransport.rs`, `gost_prf.rs`) | none | curve arithmetic, key agreement, wrapping, PRF | the handshake |
| Probe (`bin/rutoken_probe.rs`), other in-page plugins | none of interest | diagnosis, emulation of single portals' plugins | |

What is hard here. The record layer has no per-record nonce and no per-record
MAC, so the two ends must have processed the very same bytes forever. The token
transport matches answers to commands by order alone. The bridge runs one loop
over many connections with one jar and a PIN that the card blocks after a few
wrong tries. The page queue is shared by a page that may be reloaded and pumps
that may end at any moment. A command looks at its files twice, first to refuse
what cannot work and later to use them, and only the second look counts. The
ESIA page takes the next reply for the one it waits for, whatever it answers.
Messages arrive in pieces and may stop anywhere. `PROJECT.json` lists each hazard at its line with
the properties that cover it, and those that none covers yet.

What makes each part correct: the record layer delivers a prefix of what was
sent and stays in step; a handshake ends with both sides agreeing on transcript
and keys; a token call returns the card's answer to that very call, never costs
more than one PIN try and always returns; the bridge stops at a refused PIN,
says "logged in" only of an authenticated session and serves everyone (that it
keeps sessions holds only of hosts with different cookie names); the queue answers every request once, with its own answer; keystream
and MAC do not depend on how the data is cut; a command that is refused has
touched nothing, and one that ends with 0 has left a whole output whose envelope
verifies; a message is read as what was sent, or as what is left of it where it
breaks off; both sides of a
key agreement come to one secret.

## Modules

| Module | Models |
|---|---|
| `PrefixChannel` | the abstract promise of a protected connection |
| `RecordLayer`, `MCRecordLayer` | `gost_record.rs` and a faulty wire; implements `PrefixChannel` |
| `RecordLayerProofs` | the theorems about `RecordLayer` |
| `Gost28147`, `MCAlgorithms` | buffering and key meshing of `CntKeystream` and `ImitContext` |
| `Gost28147Proofs` | the theorems about `Gost28147` |
| `TokenSession`, `MCTokenSession` | the token calls over raw CCID, the reader and the card |
| `TokenSessionProofs` | the theorems about `TokenSession` |
| `GostLogin`, `MCGostLogin` | `run_login`, the `ClientHandshake` and `TlsTransport` under it, a server and a wire |
| `GostLoginProofs` | the theorems about `GostLogin` |
| `GostBridge`, `MCGostBridge` | the loop of `gost-bridge`, its clients and hosts |
| `GostBridgeProofs` | the theorems about `GostBridge` |
| `RequestReply` | the abstract promise of the injected plugin |
| `PageQueue`, `MCPageQueue` | page, queue, pumps and Gosuslugi bridge; implements `RequestReply` |
| `PageQueueProofs` | the theorems about `PageQueue` |
| `EsiaPlugin`, `MCEsiaPlugin` | the ESIA login page, the plugin injected into it, the pump |
| `EsiaPluginProofs` | the theorems about `EsiaPlugin` |
| `CommandLine`, `MCCommandLine` | an invocation of the program, from its options to its exit code, with the signers and the CMS envelope |
| `CommandLineProofs` | the theorems about `CommandLine` |
| `HttpMessages`, `MCAlgorithms` | the readers and writers of HTTP messages in both bridges |
| `GostEc`, `MCAlgorithms` | curves and key agreement over small fields |

A definition named `X_Name` is a mutant of `X`: a plausible bug that the property
listed beside it in `PROJECT.json` must notice. No definition uses one.

### RecordLayer

`crypto[e].write` and `.read` are the two `DirectionState`s of an end. `Send` is
`protect`, `unprotect` is the disjunction of its three outcomes, which differ in
what they leave behind: `Short` nothing, `BadMac` an advanced keystream and MAC
but the old sequence number, `Accepted` all three. `Receive` takes the next
record; `ReceiveFaulty` is the wire's: any record ever sent, again, early, late,
damaged or cut, after which the stream goes on there or where it was.

The cryptography is symbolic. A tag is the sequence of everything the running
IMIT has absorbed, so tags are equal exactly when histories are; a ciphertext
carries the keystream offset it was made at and decrypts to `Noise` at another.
What this assumes is that the 32-bit tag does not collide and that a damaged
record does not decrypt to something meaningful; nothing is claimed about an
adversary who can make either happen. The sequence number is unbounded in the
model (64 bits in the code).

### Gost28147

`cnt` is the `CntKeystream`, `imit` the `ImitContext`. `apply` is one byte of a
call, since a call does nothing between bytes and keeps nothing but the state;
`Update` begins a call with `n` bytes, and `TopUp`, `Whole` and `Stash` are the
three parts of `update`. `finalize` changes nothing and is an operator. The
cipher is symbolic: a key is the number of meshings before it, a byte of gamma
the key, number and position it comes from, a MAC the blocks mixed in, each with
its key. So the arithmetic of the counters (`N2` wraps modulo 2^32 - 1 in the way
of the reference implementation) is outside the model, and covered by the known
answers in the tests.

`RecordLayer` counts the keystream in bytes and takes the MAC to be a function of
the bytes absorbed; `KeystreamByOffset` and `MacInOnePass` are what justifies it.

### GostLogin

`client` is `run_login`: where it is, its transcript, `handshake_buf`, what the
server's flight has given it (`leaf`, `server_random`), the keys once
`on_key_exchange_sent` has made them, and whether a `probe_stage` is due.
`ClientHello`, `Certificate`, `ClientKeyExchange`, `CertificateVerify`,
`ChangeCipherSpecs` and `Finished` are its writes; a write to a server that is
gone succeeds or fails, and one that fails reads a record in search of an alert
(`enrich_with_alert`). `ReadFlight` and `TakeMessage` are the two halves of the
loop in `recv_handshake_message`: read a record when the buffer holds no whole
message, otherwise take one, in whatever order the messages come. `ReadCcs` and
`ReadFinished` are the server's answer, `ReadFails` a read that ends or times
out. `toServer` and `toClient` are the records on the wire.

A message is a sequence of pieces: its type, its length, its body (one piece or
none), so a record boundary can fall inside a header, between header and body or
between messages, and a damaged length makes the client take a message apart in
the wrong places. A piece that is read as a length but is none stands for more
than will come. Hashes, signatures and keys are the values they are made of.
The server is external and follows the protocol; it may cut its flight as it
likes and refuse at any point. `Damage` changes one piece or the type of a
record, `Reset` loses all that is under way, `ReadFails` may be early, and the
token may fail to sign. Each direction has one protected record, which
`RecordLayer` shows to be opened exactly when it is the one that was sealed.

### TokenSession

`at` is the exchange a call waits for: the step, the alternative `n` and the
command `i` within it. `Transmit` is `CcidDevice::transmit` up to the read: the
command is appended to `outbox` (or, if the reader takes no more, the write
fails). The card executes the head of `outbox` and appends an answer to `inbox`.
`Receive` reads the head of `inbox`, whatever it answers, as `read_response`
does, and continues with the handler of the step (`OnVerify`, `OnSelect`, ...).
Each handler includes the write of the next command, so a step of the model is
the code between two reads. A failed exchange is one of

- `TimedOut`: nothing has come in. If a command is still being executed its
  answer will come later, to the wrong exchange;
- `BadBlock`: a malformed block or a CCID failure status;
- `WriteFails`: the command is not sent;

and `FailedExchange` is where the `?` of that `transmit` leads: the end of the
call, except that reading a certificate goes on to the scan or the next file.
`Begin` opens the device anew, which resets the sequence number and may or may
not drop unread answers, and powers the card on, which may or may not reset it.

Abstractions: the scan has one of the nine bases of file identifiers and
`LastSuffix` instead of 0x20 suffixes; a file is read in blocks, of which only
the last may be short; `der_sequence_total_len` is "all blocks of the
certificate are there"; the secret, signature and digest are symbols. The
PC/SC transport (an optional feature) and the exchange log are left out.

### GostBridge

`at` is what the loop does, for which client, to what end and with which host.
`Accept` and `Read` are `listener.incoming()` and `read_request` with the choice
of the arm; `Handshake` is `gost_mtls_request` up to the request, in which the
token signs; `Sign` is `sign_detached_cms_b64`; `Respond` an exchange with a
host, cut off or not, with what `absorb_response` and `rewrite_response` do to
the jar; `OnError` the error branch every arm has. The token is a signature, a
refused PIN or another failure. A host's session is `<<h, n>>`; the primary host
binds a challenge to a session and, when it is answered in that session, issues
an authenticated one.

Abstractions: bodies, URLs, origin checks and forms. Requests differ by the arm
they take and by host.

### PageQueue

`page` is the window: the queue with its `callbacks` and `nextId`, the `partial`
payloads of each injected listener, the fetches under way and the table of
chunks. `Post` is the event of one part of a message, handled by every listener
up to its `await`; `CallDirect` is `gosuslugiPluginCrypto`; `FetchFails` is the
`catch` that turns to the queue. A pump takes the whole queue (`Take`), posts one
request after the other and hands each answer over with one script per chunk
(`ClearChunks`, `PushChunk`, `Deliver`); a script that throws may or may not end
it. `Serve` is the bridge handling one connection. `Reload` makes the window
anew, `Inject` adds a listener: `README.md` has the script injected a second time
to turn on queue mode, and nothing removes the first listener.

An answer is named by the call it answers and a text by the parts it is joined
from, so that any mixture of answers or payloads would be seen. The abstract
`RequestReply` lets each listener reply once to what has been posted in full,
with its own answer, or after a reload with that of a call of an earlier load.
The refinement mapping computes what has been asked from what has been posted.

Abstractions: the content of requests and answers, the tab that is looked up by
its address (there is one), the answer of the bridge to requests it does not
know.

### EsiaPlugin

The page asks one command after the other (`Ask`) and takes the next reply that
comes to its window (`Receive`). `page` is that window: each injection adds a
closure with its own mode (`forced`, whether fetch is tried) and certificate
cache, but only the first one listens; the queue belongs to the window and is
shared. `handleCommand` answers at once, from the cache, or by `postJson`, and
`Settle` is a promise that is resolved or rejected, with the `then` and `catch`
behind it. `FetchFails` may come before or after the bridge has handled the
request, and queues it either way. `Deliver` is the pump handing back an answer
by its identifier, which after `Reload` may be another request's. `GiveUp` is a
page that has waited long enough. What the pump and the bridge do in detail is
`PageQueue`'s; here a request is served in one step, or is lost: `PumpEnds` is the
`abort` of a pump whose script fails, or a pump that is stopped, after it has taken
the queue. It takes with it the request it has in hand, which the bridge may have
handled, and any number of others; nothing asks for them again and the promises that
wait for them never settle (`stranded`). `Answered` leaves out their commands, and no
others.

Abstractions: the fields of replies, the conversion of what is to be signed, the
markers in the document. A reply carries the command it was made for and what it
is made of, neither of which the page looks at.

### CommandLine

`cmd` is the command line, `todo` the steps that are left, `held` the local
variables, `exit` how it ended. The first step parses and validates; then `steps`
lists what the command's `run` does, in its order, and each step is an action
that goes on or stops with an exit code (a check is `Ensure`, its condition and the
code if it fails, and `FirstFailure` the first that does): `ReadInput`, `ReadCert`, `Attributes`
(which ends a dry run), `Load`, `Select`, `Open`, `Login` and `Pkcs11Sign` or
`CcidSign`, `Build`, `Write`. Files are checked by `validate` and read again by the steps;
`Edit` changes or removes them in between, `Replug` takes tokens out and puts
others in, `Killed` ends the process, in `Write` with a part of the output.
`sign_file` is the Gosuslugi bridge at one file of a request, after
`steps_gosuslugi_bridge` has started it with a certificate from a file, a record or
the token. `sign_digest` is a signature that `gost-login` makes in its handshake, or
`gost-bridge` for a request. `served` counts the signatures the other side has asked
for.

`Select` reads the labels of the tokens and settles on a slot, `Open` opens whatever
is in that slot by then. The two are apart in the code (`lib.rs:1548`, `1549`), so
`Replug` may come between them: the token that is put in then gets the session and
the PIN, whatever its label. `swapped` remembers it. `PinToNamedToken` says that this
is the only way for the PIN to come to a token of another name, and that the PIN is
shown no more often than there are signatures, and once more for a certificate that
comes from the token.

A hash is its algorithm and what it was taken of, a signature the key and what it
signs, so `SignedAsAsked` says that an envelope would verify: the digest is of the
embedded content, the signature over the attributes in the form the signature
identifier stands for, by a key of that kind. A call over CCID succeeds or fails
and may cost a try (`CcidCall`); `TokenSession` is its inside. The PKCS#11 module
refuses a mechanism the key is not for.

Abstractions: option values are those of a few kinds, a file is one content, the
output directory is there or not, the environment with `.env` is one mapping, which
does not change while a command runs. DER is not encoded. `tls-probe` and
`ccid-probe` are one step, `Elsewhere`, and so is what `gost-login` and `gost-bridge`
do besides using the token.

### HttpMessages

A message is a sequence of tokens, and may be cut between any two. What the code
looks for, and what a cut can spoil, is taken apart as far as a cut makes a
difference: a header line into name, colon and value, a length into its digits, a
character of two bytes into both, an address into scheme and labels of the host, a
boundary into halves, a tag into its name and its bracket. The operators follow the
functions they are named after: the two request readers (`read_from` of the Gosuslugi
bridge, which works on pieces as they come, and `read_request` of the GOST bridge,
which reads lines), `build_upstream_request`, `rewrite_response` with `decode_chunked`,
`from_utf8_lossy` and `rewrite_nalog_abs_urls` under it, and the two halves of a
multipart form. The only actions are pieces arriving, and the properties compare what
is read after every piece with what the sender put in.

What is cut is not read as a prefix of what was sent in every respect, and the
properties say where it is not. `read_request` takes a header line that the end of
the stream cuts in its value for a header (`gost_bridge.rs:96-99`), but refuses one
that is cut inside a character. A text that is cut inside a character ends in U+FFFD
(`gost_bridge.rs:408`); one that is cut inside an address of the service keeps the
half it has, and one that is cut where the name of a longer host looks like one of the
service's is rewritten where the whole one is not. A form that is cut inside a
boundary has the half of it in its last value (`gost_bridge.rs:608-620`). A text that
is not UTF-8 has U+FFFD in it even when it is whole.

Abstractions: case, folding and content types other than four; the length of a
response and the size of a chunk are one token, the shim is one; origin headers,
cookies and addresses relative to the root pass as they are.

### GostEc

The arithmetic of `gost_ec.rs` on curves whose fields have 13, 11 and 7 elements,
written as the code writes it: subtraction that must not go below zero, the
inverse by Fermat, doubling and adding as separate cases, double-and-add from the
top bit. A walk adds the generator once per step, around the order and beyond, and
at each point the group laws, multiplication and both sides of `gost_vko.rs`'s key
agreement are compared with it. The hash of a shared point is the point itself.

## Runs

| Run | Checks | Shows |
|---|---|---|
| `record_wire` | `TypeOK`, `AcceptedInOrder`, `InStep`, `Delivered`, `ImplementsChannel` | over a wire with two faults the record layer is the channel it should be; without faults everything arrives |
| `token_session` | `TypeOK`, `OwnOutcome`, `WholeCertificate`, `WrongPinRefused`, `OneTryPerCall`, `FaultlessCallSucceeds` | three calls in a row with three failed exchanges do not mix up answers, certificates or PINs, and none costs more than one try; a call that should succeed does if nothing fails |
| `token_returns` | `CallEnds` | every call returns |
| `login` | `TypeOK`, `Agreement`, `AlertNamed`, `Untroubled`, `LoginReturns` | the handshake under two faults: it ends with both sides agreeing or with an error, which names the server's alert if there was one; without faults nothing fails on the way, and as it returns it has succeeded |
| `gost_bridge` | `TypeOK`, `RefusedPinStops`, `LoggedInIsAuthenticated`, `Served` | the loop with three clients of any kind, two hosts, one failure |
| `page_queue` | `TypeOK`, `TokenUse`, `RepliesOnce`, `Answered` | page, two pumps and bridge: no reply is mixed up or given twice within a load, the token is not used more often than fetch and queue make it, undisturbed messages are answered |
| `command_line` | `TypeOK`, `RefusedUntouched`, `OutputWhole`, `SignedAsAsked`, `PinToNamedToken` | every command, with files edited, tokens exchanged and the process killed at any step |
| `esia_plugin` | `TypeOK`, `OwnReply`, `SignsOnce`, `Answered` | a login page with a second injection, late failures, a reload pumps that end or commands it gives up: replies are its own, signatures are made once each way, no command stays open but one that ended with a pump |
| `algorithms` | `TypeOK`, `KeystreamByOffset`, `MacInOnePass`, `HttpReadsBack`, `KeysAgree` | keystream and MAC do not depend on how bytes are cut into calls, key changes included; messages cut anywhere are read as what was sent, or a part of it with what the code makes of its end; curves are groups and both sides agree on a key |
| `page_reload` | `OwnAnswer` | violated: after a reload an answer goes to the request that has its identifier now |
| `bridge_pin` | `BadPinNotRetried` | violated: a refusal that is not reported as one is followed by another try |
| `bridge_cookies` | `SessionPersists` | violated: with two hosts that name their cookie alike, a page of the one replaces the session of the other |

The violations are explained, with the lines that say otherwise, under
"findings" in `PROJECT.json`. Three more disagreements show in the models and have
no run of their own, being plain once one knows where to look: an exchange takes
a late answer for its own (`lib.rs:553`, `Receive` of `TokenSession` compares
nothing; what does hold in spite of it is `OwnOutcome`); `probe_stage` is called
"purely observational" (`gost_login.rs:424`) and takes the record it shows off the
stream, alert or not (`Probe` of `GostLogin`; `AlertNamed` is about logins without
probes); and a response that breaks off is given to the browser with a
`Content-Length` of its own, as a whole one (`gost_login.rs:170`, `Deliver` of
`GostBridge`).

Bounds. `record_wire`: two messages one way and one the other, two content
types, an empty and a one-byte fragment, a two-byte tag and two faults; two
faults are what it takes to come back into step by accident, for example by
repeating a record and skipping another, and the proofs remove the bound.
`token_session`: three calls, as an answer can be late for one call and matter
in the next but one; the PIN has three tries; a reader holds at most two
commands it has not executed (`ReaderDepth`), a late one and the current one.
The bound on `ReaderDepth` is not one of the model checker's: with a reader that
takes three and four faults, a call with a wrong PIN can succeed and a certificate
can be put together from two files, and with four `OwnOutcome` fails too:
`derive_vko` does not look at the length of what it is given and returns the empty
answer to an earlier command. With two, any number of faults is harmless, as the
proofs show, as long as a certificate fits into what is read of a file: of a
longer one, a DER sequence inside it is returned. `login`: the server's flight of four
messages, eleven pieces, is cut into records of two pieces or ends in one of any
size, which puts boundaries inside headers, between header and body and between
messages; two faults, so that a refusal meets a lost connection, or two
damaged pieces might cancel out. `gost_bridge`: three clients let one
login, one sibling request and one more request follow each other in any order
and arm; one failure is enough for each kind of error branch; each host has a
cookie name of its own there, and both have one in `bridge_cookies`, where no
failure is needed. `page_queue`: two messages of one
method, of which one comes in parts, can overlap in the page, in the queue and
between two loads; two pumps, answers of two chunks, and two troubles, among which
a second injection counts for two.
`command_line`: two contents of the input, a token with keys of four kinds and one
with another PIN, in three arrangements of slots; every option once missing, wrong
or unusual; two troubles, so that a file can change and change back, or a token be
exchanged before the process is killed, or between two steps of the signer; two
signatures asked of a bridge or a login; PINs blocked after two tries. `esia_plugin`: a command for the certificate, one answered at
once and a signature; two troubles, among which a reload counts for two and the end
of a pump for one.
`algorithms`: requests in up to four pieces, which puts cuts before, in and after
the end of the headers; responses and forms cut off at every token, chunks of
every division of the body into up to three; a limit of 20 tokens on headers, which
two requests exceed; blocks of three bytes, a new key after two of them and twenty
bytes, which crosses three key changes with every tail, zero-length calls included.
The proofs remove the bounds on the bytes. Three prime-order curves with `a = -3`, all their points and scalars,
keying material to beyond the largest order.

Fairness. `RecordLayer!FairSpec`: the stream delivers. `TokenSession!FairSpec`:
the reader executes what it has, a read returns when there is a block and times
out otherwise (`TRANSFER_TIMEOUT` of 10 s on each transfer). `GostLogin!FairSpec`:
the client goes on, since `TlsTransport::connect` gives the socket time-outs for
reading and writing (`tls.rs`), and a server that is there handles and sends; no
fault is fair. `GostBridge!FairSpec`: the loop goes on, since connecting, token and host exchanges all have
time-outs; reading the browser's request has none, so no fairness is assumed for
a client that stalls, and `Served` excludes it. Writing the response has none
either: that a browser takes the response it has asked for is assumed. `PageQueue!FairSpec`: the bridge
serves, a fetch without an answer rejects, pumps run in a loop
(`esia-pump-loop.sh`); neither the page nor any trouble is fair.
`EsiaPlugin!FairSpec`: the window delivers its messages, and the bridge side goes
on: fetches end, a pump runs in a loop and what it posts is answered or times out,
unless it ends (`PumpEnds`), which may happen to any request it has taken.
`CommandLine` and the algorithms need none. Deadlock is not checked in any run:
each system may come to rest when its bounded work is done or the bridge stopped.

## Proofs

`Gost28147Proofs` proves for every block length, every number of blocks between
two meshings and any number of bytes that `Gost28147!Spec` implies `[]TypeOK`
(`TypeCorrect`), `[]KeystreamByOffset` (`KeystreamByOffsetAlways`) and
`[]MacInOnePass` (`MacInOnePassAlways`), assuming that block length and distance
are positive. The properties speak of bytes that have been processed; whether the
next one is right depends on the counters. The inductive invariant adds `Counted`:
the bytes since the last meshing are `u` whole blocks, `u` no more than the
distance, and key and `u` together give the number of the next block. It is why
the test for equality in the code (`since_mesh == 1024`) never misses its moment.
For the MAC it adds that tail and unread rest are the bytes that come next
(`Follows`), and that one of them is empty while whole blocks are absorbed, so
that no block overtakes the tail.

`RecordLayerProofs` proves for every set of fragments and content types, every
tag length and any number of records and faults that `RecordLayer!Spec` implies
`[]TypeOK` (`TypeCorrect`), `[]AcceptedInOrder` (`AcceptedInOrderAlways`),
`[]InStep` (`InStepAlways`) and the specification of `PrefixChannel`
(`RefinesChannel`).

The assumptions are those of `RecordLayer`: two ends, sizes are naturals, the
bounds are naturals, noise is neither a fragment nor a tag. `AcceptedInOrder` is
not inductive: whether a record is accepted depends on the state of the reader,
not on what was accepted. The inductive invariant adds, for each end,

- `WritesWhatIsSent`: entry `i` of the writing MAC is message `i` under number
  `i - 1`, and the tag of record `i` is the first `i` entries;
- `OffsetsFollow`: each record begins at the keystream offset at which the one
  before it ended;
- `ReadsWhatIsGot`: the reading MAC begins with the messages accepted; it holds
  exactly them, and the reader is at the offset of the next record, unless a MAC
  has failed, after which it has one entry more than its sequence number accounts
  for and no tag will ever agree again.

From these, agreement of a tag means that the record is the next one and
undamaged (`AgreementMeansNext`), which is both the step of the invariant and the
step of the refinement.

`TokenSessionProofs` proves `TokenSession!Spec` implies `[]TypeOK` (`TypeCorrect`)
for every card, every sequence of calls and any number of failed exchanges, and
`[]OwnOutcome`, `[]WrongPinRefused`, `[]OneTryPerCall` and `[]WholeCertificate`
under `Shallow`: the reader holds at most two commands it has not executed. The
last one also needs `Readable`, that the certificates of the card fit into what is
read of a file. Both are tight (see the bounds above); that a CCID reader has one
command under way is what the protocol says of it, and one more is the late one.
Answers are matched to commands by order alone, so a call that has fallen behind
reads, in place of each answer, the answer to the command before it. The
inductive invariant says how far it can be behind (`LinkInv`), what the card must
have been asked for each answer on its way (`SessionInv`, `ReadInv`), and that a
call that is behind has seen, in place of the answer to its PIN, one to a command
that can have no such success: it never gets as far as the operation it is for.
`OneTryPerCall` counts for each call the tries its own commands have cost, when the
card executes them, be it after the call was given up. For it the invariant bounds,
for each call, what it has cost, what its commands on their way to the card may cost
and what it may still send by one try in all (`TriesInv`): a second VERIFY follows
only an answer (`6f86`) with which the card looked at no PIN.
Around it are the plain ranges (`BasicInv`) and the promises (`Promises`).

`[]FaultlessCallSucceeds` (`FaultlessCallSucceedsAlways`) needs neither `Shallow` nor
`Readable`, only `BasicInv` and an invariant of its own, `FaultlessInv`. Without faults one answer at
a time is on its way (`InTurn`): a time-out or a bad block would be a fault. So a
call for a key is a conversation, and each state has a place in it (`OnTrack`): the
command that is asked (`Asks`), what the card must have done before it (`Ready`) and
what it has done and answered (`Told`). The state earlier calls have left the card
in, logged in or not, any file selected, any environment, is taken care of by the
steps themselves: `6f86` leads through LOGOUT, every alternative starts from the
master file (`Chosen`), the environment is set again. That one of the five ways of
selecting the key works and lies ahead (`Ahead`) carries the call past those that
fail. `TokenSession` assumes for it what the code takes for granted: an absent PIN is
no PIN (`PinAssumption`), a file of the card is in a directory of the card
(`TreeAssumption`) and the reader takes a command (`BoundAssumption`). All hold of
the instance TLC checks.

`GostLoginProofs` proves `[]TypeOK` (`TypeCorrect`) and `[]Agreement`
(`AgreementAlways`) for any way of cutting the server's flight and any number of
damaged records, resets and refusals. `Agreement` speaks of the end only. What
carries it is where things can come from: a sealed message and the premaster come
from one end each, and damage makes neither (`ToServerInv`, `ToClientInv`); so a
server that has the premaster talks to a client that has settled on the server's
own certificate and random, and one that opens the client's Finished has that
client's transcript and keys (`ServerInv`). In between, transcripts may differ in
any way.

`[]AlertNamed` (`AlertNamedAlways`) and `[]Untroubled` (`UntroubledAlways`), that
nothing fails on the way when nothing fails on the wire, rest on the opposite: where
there is no fault but perhaps a refusal (`Quiet`), nothing may differ. What the two
ends say to each other is then one fixed conversation, and the invariant `Course`
gives each state its place in it: how far the client is, how far the server, and what
is on its way between them, down to the positions at which the flight is cut into
records (`Opening`, `Hailed`, `InFlight`, `Exchange`, `Ending`). Two things follow.
Each message an end reads is the one it expects, with the transcript and keys it has
itself (`NothingRefused`), and while the client waits one is on its way
(`NoReadFails`). And an alert is the last thing on its way:
a client that fails finds it, in what it reads or in what is left when a write fails
(`RefusalSaid`, `AnswerRead`). `Untroubled` includes logins with probes; a probe may
take the alert off the stream, which is why `AlertNamed` is about logins without.

`GostBridgeProofs` proves, for any clients, hosts and number of faults,
`[]TypeOK` (`TypeCorrect`), `[]RefusedPinStops` (`RefusedPinStopsAlways`) and
`[]LoggedInIsAuthenticated` (`LoggedInIsAuthenticatedAlways`), whatever names
the hosts give their cookies. The invariant: every refusal of the card but the one the
bridge stops at has been hidden by a fault (`PinInv`); the jar and the answers hold
sessions a host has issued, and what is called authenticated is (`SessionInv`); the
client that is served is not in the backlog, and the two requests of a login go to
the primary host (`LoopInv`).

`PageQueueProofs` proves, for any messages in any number of parts, any pumps,
chunks, injections, reloads and failures, `[]TypeOK` (`TypeCorrect`), `[]TokenUse`
(`TokenUseAlways`) and that `PageQueue` implements `RequestReply`
(`RefinesRequestReply`, the property `RepliesOnce`): initial states map to initial
states, and each step to a reply or to a step that the abstract specification
does not see. The invariant: a call that has no reply waits in one place, a fetch
or a callback (`AskedInv`, `OnceInv`); what is still to use the token for it is in
one place, queue, pump, bridge or its own fetch (`PlaceInv`, `UseInv`); and what
goes about with an identifier is about the call that waits under it, unless the
page has been loaded anew since (`OwnInv`), which is the exception `page_reload`
is about. It assumes that each message has a method and at least one part, that no
pump is called as the page is, and that an answer has at least one chunk.

`EsiaPluginProofs` proves `[]TypeOK` (`TypeCorrect`), `[]OwnReply`
(`OwnReplyAlways`) and `[]SignsOnce` (`SignsOnceAlways`) for any commands and any
number of injections, reloads, failures and pumps that end. What was asked for a command is in one
place, a message, a fetch or a request (`OnceInv`, `AskedInv`, `MailInv`), and no
older command has anything under way as long as the page has given nothing up and
no pump has carried anything over a reload (`OwnInv`).

`CommandLineProofs` proves `[]TypeOK` (`TypeCorrect`), `[]RefusedUntouched`
(`RefusedUntouchedAlways`), `[]OutputWhole` (`OutputWholeAlways`),
`[]SignedAsAsked` (`SignedAsAskedAlways`) and `[]PinToNamedToken`
(`PinToNamedTokenAlways`) for any command lines, files, environment, tokens and
arrangements of slots, however often files are edited and tokens exchanged. All of
them depend on how far the command is. So the invariant says first that what is
left to do is the rest of the command's own sequence, and that the command line has
passed parse and validate (`PlaceInv`); then, by the step it is before, what the
local variables hold (`HeldInv`), which slot has been selected while its
session is yet to be opened (`SlotInv`), that a token has looked at the PIN as often
as it may by then (`TokenInv`) and that nothing has been written before the last step
(`OutputInv`). Files are read once by the steps, and nothing from before an edit
is mixed with what comes after: that is all that `SignedAsAsked` needs of them. The
assumptions are about the form of the data, but for one the code gives: a
`rutoken:` URI names neither a token nor an object (`lib.rs:799`), so that over CCID
the identifier alone decides.

Attempting these proofs has changed the models where they could be read in two
ways: guards of a `CASE` that overlapped (`handleCommand` of `EsiaPlugin`, the
sequences of `TokenSession`) and, in `Apdus` of `CommandLine`, a step that had
slipped into the scope of a quantifier. `TokenSession` had left unsaid that a card's
files are in directories, without which a file that is there cannot be reached
identifier by identifier.

What stays with TLC. Liveness, which needs fairness and `ENABLED`: `Delivered`,
`CallEnds`, `LoginReturns`, `Served`, `Answered`. And what recursive
functions compute of data: `HttpReadsBack` and `KeysAgree`.

## Plan

Done: the record layer and the page queue with their abstract specifications,
keystream and MAC, the token calls, the handshake, the bridge, the ESIA plugin and
the command line, all with proofs; HTTP messages, curves and key agreement.
To come, in this order:

1. Composition of `GostLogin` with `RecordLayer`: what follows the handshake on
   the same connection, application data and a late alert included, as a
   `PrefixChannel` between ends that agree. Abstract specification of the
   handshake: both ends agree or the client fails.
2. Route and host choice and registration in the GOST bridge; `tls-probe` with
   `opening_handshake` and its parsers.

## Not modelled

Key wrapping, PRF and hashes: functions on fixed blocks, covered by published test
vectors. DER encoding, which a library does. What is printed. The probe binary,
which is explored by hand. `tls-probe`, a diagnostic command, with the parsers in
`tls.rs` only it uses. The single-portal plugin emulations in `browser/` other than
the ESIA one, which ask the bridge and remember what it said of the certificate.
