------------------------------ MODULE CommandLine ------------------------------
(***************************************************************************)
(* One invocation of the program: the options are parsed and checked, then *)
(* the command runs, a sequence of steps each of which may end it. Files   *)
(* are edited and tokens exchanged while it runs. The signers, the CMS     *)
(* envelope and the start of the bridges are here; what happens inside a   *)
(* call to the token over CCID is TokenSession, what the bridges do later  *)
(* is GostBridge and PageQueue.                                            *)
(*                                                                         *)
(* A hash is the pair of its algorithm and its argument, a signature the   *)
(* key and what it signs, a certificate the key it is for.                 *)
(***************************************************************************)
EXTENDS Naturals, Sequences, FiniteSetsExt

CONSTANTS
  Invocation,    \* the command lines: [name, given], given maps options to values
  Document,      \* what a file to sign can hold
  Certificate,   \* what a certificate file can hold, [form, of]
  Environment,   \* the variables that are set: name -> value
  DotEnv,        \* those that stand in .env
  Token,         \* the tokens: token -> [label, pin, keys], keys a sequence
  Ports,         \* the possible slots at the start: sequences of tokens or Empty
  Free,          \* an attribute that a key URI leaves out
  Empty,         \* a slot without a token
  Missing,       \* a file that is not there, in place of its content
  Nothing,       \* a local variable that has no value yet, a certificate that is not known
  MaxTries,      \* wrong PINs until a token is blocked
  MaxRequests,   \* bound on the signatures a bridge is asked for
  MaxTroubles    \* bound on what happens around the command

Digest == {"gost256", "gost512", "sha256", "sha384", "sha512"}
KeyAlgorithm == {"gost256", "gost512", "ecdsa", "rsa"}

ASSUME CommandAssumption == \A c \in Invocation : DOMAIN c = {"name", "given"}

ASSUME TokenAssumption ==
  /\ \A t \in DOMAIN Token : /\ DOMAIN Token[t] = {"label", "pin", "keys"}
                             /\ DOMAIN Token[t].keys = 1 .. Len(Token[t].keys)
  /\ Ports \subseteq Seq(DOMAIN Token \cup {Empty})

\* The parser of rutoken: URIs takes nothing from them but the identifier, and a slot nobody asks for.
ASSUME UriAssumption ==
  \A c \in Invocation : ("key-uri" \in DOMAIN c.given /\ c.given["key-uri"].scheme = "rutoken") =>
                         c.given["key-uri"].token = Free /\ c.given["key-uri"].object = Free

ASSUME FileAssumption == Nothing \notin Document /\ \A c \in Certificate : DOMAIN c = {"form", "of"}

ASSUME BoundAssumption == MaxTries \in Nat \ {0} /\ MaxRequests \in Nat \ {0} /\ MaxTroubles \in Nat

VARIABLES
  cmd,        \* the invocation
  todo,       \* the steps before it
  exit,       \* "running", or how it ended
  held,       \* its local variables
  files,      \* the input, the certificate and the PKCS#11 module
  output,     \* the output file, or the last reply of the bridge
  ports,      \* the token in each slot
  session,    \* the token of the open PKCS#11 session, or Empty
  tries,      \* the tries each token has left
  seen,       \* history: what the input has held since the start
  presented,  \* history: the tokens that were shown a PIN, one for each call that showed it
  served,     \* history: the signatures the other side of a bridge, or of gost-login, has asked for
  swapped,    \* history: the selected slot has changed before it was opened
  troubles

vars == <<cmd, todo, exit, held, files, output, ports, session, tries, seen, presented, served, swapped, troubles>>

token == <<session, tries, presented>>
around == <<files, ports, seen, swapped, troubles>>
world == <<around, served>>

\* The output before, an output that was not written to its end, a connection closed without a signature.
Old == [kind |-> "old"]
Cut == [kind |-> "cut"]
Refusal == [kind |-> "error"]

-----------------------------------------------------------------------------
(* Algorithms *)

default_for_digest(d) == IF d \in {"gost256", "gost512"} THEN d ELSE "ecdsa"

\* The pairs signature_oid has an identifier for.
Compatible(k, d) == IF k \in {"gost256", "gost512"} THEN d = k
                    ELSE d \in {"sha256", "sha384", "sha512"}

signature_oid(k, d) == <<"oid", k, d>>

output_len(d) == CASE d \in {"gost256", "sha256"} -> 32
                   [] d = "sha384" -> 48
                   [] d \in {"gost512", "sha512"} -> 64

compute_digest(d, data) == [alg |-> d, len |-> output_len(d), of |-> data]

MatchingGost(k, d) == d = k /\ d \in {"gost256", "gost512"}

-----------------------------------------------------------------------------
(* Options *)

given == cmd.given
Option(o, default) == IF o \in DOMAIN given THEN given[o] ELSE default
Has(o) == o \in DOMAIN given

digest == Option("digest", "gost256")
key_algorithm == Option("key-algorithm", default_for_digest(digest))
dry_run == Has("dry-run")
ccid == Option("transport", "pkcs11") = "ccid"
NoUri == [scheme |-> "", slot |-> Free, token |-> Free, id |-> <<>>, object |-> Free]
key_uri == Option("key-uri", NoUri)

RutokenUri == key_uri.scheme = "rutoken" /\ Len(key_uri.id) = 1
KeyUriSelector == key_uri.scheme = "pkcs11" /\ (key_uri.id # <<>> \/ key_uri.object # Free)

\* A condition, and the exit code if it does not hold.
Ensure(condition, code) == IF condition THEN "none" ELSE code

\* The error of the first check that fails.
FirstFailure(checks) ==
  LET failed == {i \in DOMAIN checks : checks[i] # "none"}
  IN  IF failed = {} THEN "none" ELSE checks[Min(failed)]

ensure_file_exists(f) == Ensure(files[f] # Missing, "failed")
ensure_parent_exists == Ensure(Option("output", "dir") = "dir", "failed")

TokenOptions == {"key-uri", "pin-env", "ccid-reader", "exchange-log"}
GostOptions == TokenOptions \cup {"digest", "key-algorithm"}

SignCommand == [takes |-> GostOptions \cup {"input", "output", "cert", "transport", "pkcs11-module",
                                            "embed-content", "dry-run"},
                needs |-> {"input", "output", "cert", "key-uri"}]

CcidRawSignCommand == [takes |-> GostOptions \cup {"input", "output"},
                       needs |-> {"input", "output", "key-uri", "pin-env"}]

CcidReadCertCommand == [takes |-> TokenOptions \cup {"output"}, needs |-> {"output", "key-uri"}]

CcidProbeCommand == [takes |-> {"ccid-reader", "exchange-log"}, needs |-> {}]

CcidApduCommand == [takes |-> {"ccid-reader", "exchange-log", "pin-env", "apdu"}, needs |-> {}]

GosuslugiBridgeCommand == [takes |-> GostOptions \cup {"bind", "cert", "cert-record"},
                           needs |-> {"key-uri", "pin-env"}]

GostLoginCommand == [takes |-> TokenOptions \cup {"host", "port", "timeout", "vko-algo", "peer-key-le",
                                                  "request-path", "client-cert"},
                     needs |-> {"host", "key-uri", "pin-env"}]

GostBridgeCommand == [takes |-> TokenOptions \cup {"bind", "host", "port", "timeout", "client-cert"},
                      needs |-> {"host", "key-uri", "pin-env"}]

TlsProbeCommand == [takes |-> {"host", "port", "timeout"}, needs |-> {"host"}]

Command == CASE cmd.name = "sign" -> SignCommand
             [] cmd.name = "ccid-sign-raw" -> CcidRawSignCommand
             [] cmd.name = "ccid-read-cert" -> CcidReadCertCommand
             [] cmd.name = "ccid-probe" -> CcidProbeCommand
             [] cmd.name = "ccid-apdu" -> CcidApduCommand
             [] cmd.name = "gosuslugi-bridge" -> GosuslugiBridgeCommand
             [] cmd.name = "gost-login" -> GostLoginCommand
             [] cmd.name = "gost-bridge" -> GostBridgeCommand
             [] cmd.name = "tls-probe" -> TlsProbeCommand

\* What parse refuses: an option it does not know or lacks, a value it cannot read.
parse == <<Ensure(DOMAIN given \subseteq Command.takes, "usage"),
           Ensure(digest \in Digest, "usage"),
           Ensure(key_algorithm \in KeyAlgorithm, "usage"),
           Ensure(Option("transport", "pkcs11") \in {"pkcs11", "ccid"}, "usage"),
           Ensure(Command.needs \subseteq DOMAIN given, "usage")>>

validate_pkcs11 == <<Ensure(Has("pkcs11-module"), "usage"),
                     Ensure(files.module # Missing, "failed"),
                     Ensure(dry_run \/ Has("pin-env"), "usage")>>

validate_ccid == <<Ensure(RutokenUri, "usage"), Ensure(MatchingGost(key_algorithm, digest), "usage")>>

\* Mutant: Whether the algorithms fit is left to the one who builds the envelope.
validate_sign_Late == <<ensure_file_exists("input"), ensure_parent_exists, ensure_file_exists("cert"),
                        Ensure(key_uri.scheme # "", "usage")>>
                      \o (IF ccid THEN validate_ccid ELSE validate_pkcs11)

validate_sign == <<ensure_file_exists("input"), ensure_parent_exists, ensure_file_exists("cert"),
                   Ensure(key_uri.scheme # "", "usage"), Ensure(Compatible(key_algorithm, digest), "usage")>>
                 \o (IF ccid THEN validate_ccid ELSE validate_pkcs11)

validate_raw_sign == <<ensure_file_exists("input"), ensure_parent_exists>> \o validate_ccid

validate_read_cert == <<ensure_parent_exists, Ensure(RutokenUri, "usage")>>

\* --cert and --cert-record name the same file here.
validate_gosuslugi_bridge == <<Ensure(Has("cert") \/ Has("cert-record") => files.cert # Missing, "failed"),
                               Ensure(~(Has("cert") /\ Has("cert-record")), "usage")>> \o validate_ccid

validate == CASE cmd.name = "sign" -> validate_sign
              [] cmd.name = "ccid-sign-raw" -> validate_raw_sign
              [] cmd.name = "ccid-read-cert" -> validate_read_cert
              [] cmd.name = "gosuslugi-bridge" -> validate_gosuslugi_bridge
              [] cmd.name \in {"gost-login", "gost-bridge"} -> <<Ensure(RutokenUri, "usage")>>
              [] OTHER -> <<>>

steps_sign ==
  IF ccid THEN <<"read_input", "read_cert", "attributes", "ccid_sign", "build", "write">>
  ELSE <<"read_input", "read_cert", "attributes", "load", "select", "open", "login", "c_sign", "build", "write">>

\* Mutant: The certificate is written first and then parsed.
steps_read_cert_WritesFirst == <<"token_cert", "write", "parse_cert">>

steps_read_cert == <<"token_cert", "parse_cert", "write">>

steps_gosuslugi_bridge == IF Has("cert") THEN <<"read_cert", "parse_cert", "serve">>
                          ELSE IF Has("cert-record") THEN <<"read_record", "serve">>
                          ELSE <<"token_cert", "parse_cert", "serve">>

steps == CASE cmd.name = "sign" -> steps_sign
           [] cmd.name = "ccid-sign-raw" -> <<"read_input", "ccid_sign", "write">>
           [] cmd.name = "ccid-read-cert" -> steps_read_cert
           [] cmd.name = "ccid-apdu" -> <<"apdu_pin", "apdus">>
           [] cmd.name = "gosuslugi-bridge" -> steps_gosuslugi_bridge
           [] cmd.name \in {"gost-login", "gost-bridge"} ->
                IF Has("client-cert") THEN <<"chain", "elsewhere">> ELSE <<"token_cert", "elsewhere">>
           [] OTHER -> <<"elsewhere">>

-----------------------------------------------------------------------------
(* The run of a command *)

Doing(s) == todo # <<>> /\ Head(todo) = s
Go == todo' = Tail(todo) /\ exit' = (IF Tail(todo) = <<>> THEN "ok" ELSE exit)
Stop(code) == todo' = <<>> /\ exit' = code

\* The step s, which ends the command when a check fails and otherwise takes value as the local l.
Takes(s, checks, l, value) ==
  LET error == FirstFailure(checks)
  IN  /\ Doing(s)
      /\ IF error = "none" THEN Go /\ held' = [held EXCEPT ![l] = value]
         ELSE Stop(error) /\ UNCHANGED held

run_cli == /\ Doing("parse")
           /\ LET first == FirstFailure(parse)
                  error == IF first = "none" THEN FirstFailure(validate) ELSE first
              IN  IF error = "none" THEN todo' = steps /\ UNCHANGED exit ELSE Stop(error)
           /\ UNCHANGED <<held, output, token, world, cmd>>

ReadInput == /\ Takes("read_input", <<Ensure(files.input # Missing, "failed")>>, "document", files.input)
             /\ UNCHANGED <<output, token, world, cmd>>

ReadCert == /\ Takes("read_cert", <<Ensure(files.cert # Missing, "failed")>>, "certificate", files.cert)
            /\ UNCHANGED <<output, token, world, cmd>>

\* A file that is not PEM is the one certificate of the chain, whatever it holds.
load_client_cert_chain ==
  /\ Takes("chain", <<Ensure(files.cert # Missing /\ files.cert.form # "badpem", "failed")>>,
           "certificate", files.cert)
  /\ UNCHANGED <<output, token, world, cmd>>

ParseCert == /\ Takes("parse_cert", <<Ensure(held.certificate.form = "der", "failed")>>,
                      "certificate", held.certificate)
             /\ UNCHANGED <<output, token, world, cmd>>

\* A record with an empty raw is accepted, and leaves the bridge without a certificate.
ReadRecord == /\ Takes("read_record",
                       <<Ensure(files.cert # Missing /\ files.cert.form \in {"record", "bare"}, "failed")>>,
                       "certificate",
                       IF files.cert.form = "bare" THEN Nothing ELSE [files.cert EXCEPT !.form = "der"])
              /\ UNCHANGED <<output, token, world, cmd>>

prepare_signed_attributes(document) == [messageDigest |-> compute_digest(digest, document)]

\* Mutant: The plan is printed, and the command goes on.
Attributes_GoesOn ==
  /\ Doing("attributes")
  /\ IF held.certificate.form = "empty" THEN Stop("failed") /\ UNCHANGED held
     ELSE /\ held' = [held EXCEPT !.attributes = prepare_signed_attributes(held.document)]
          /\ todo' = Tail(todo) /\ exit' = (IF dry_run THEN "ok" ELSE exit)
  /\ UNCHANGED <<output, token, world, cmd>>

Attributes ==
  /\ Doing("attributes")
  /\ IF held.certificate.form = "empty" THEN Stop("failed") /\ UNCHANGED held
     ELSE /\ held' = [held EXCEPT !.attributes = prepare_signed_attributes(held.document)]
          /\ IF dry_run THEN Stop("ok") ELSE Go
  /\ UNCHANGED <<output, token, world, cmd>>

build_signed_data(document, certificate, attributes, signature, detached) ==
  [kind |-> "cms", content |-> IF detached THEN Nothing ELSE document, attributes |-> attributes,
   digest |-> digest, oid |-> signature_oid(key_algorithm, digest), certificate |-> certificate,
   signature |-> signature]

\* Mutant: The content is read again to be embedded.
Build_Rereads == /\ Takes("build", <<Ensure(held.certificate.form = "der", "failed"),
                                     Ensure(Compatible(key_algorithm, digest), "usage")>>, "result",
                          build_signed_data(files.input, held.certificate, held.attributes, held.signature,
                                            ~Has("embed-content")))
                 /\ UNCHANGED <<output, token, world, cmd>>

\* The certificate is looked into only now, after the token has signed.
Build == /\ Takes("build", <<Ensure(held.certificate.form = "der", "failed"),
                             Ensure(Compatible(key_algorithm, digest), "usage")>>, "result",
                  build_signed_data(held.document, held.certificate, held.attributes, held.signature,
                                    ~Has("embed-content")))
         /\ UNCHANGED <<output, token, world, cmd>>

Result == CASE cmd.name = "sign" -> held.result
            [] cmd.name = "ccid-sign-raw" -> [kind |-> "raw", signature |-> held.signature]
            [] cmd.name = "ccid-read-cert" -> [kind |-> "certificate", certificate |-> held.certificate]

Write == /\ Doing("write")
         /\ \/ output' = Result /\ Go
            \/ output' \in {output, Cut} /\ Stop("failed")
         /\ UNCHANGED <<held, token, world, cmd>>

-----------------------------------------------------------------------------
(* The tokens *)

load_env_value(name) == IF name \in DOMAIN Environment THEN Environment[name] ELSE DotEnv[name]
PinKnown == Has("pin-env") => given["pin-env"] \in DOMAIN Environment \cup DOMAIN DotEnv
Pin == load_env_value(given["pin-env"])

\* The slots with a token, and the token of the first.
Plugged == {i \in DOMAIN ports : ports[i] # Empty}
FirstToken == ports[Min(Plugged)]

Names(t) == {<<t, i>> : i \in DOMAIN Token[t].keys}
Key(k) == Token[k[1]].keys[k[2]]

\* The first of some keys of a token.
FirstKey(keys) == CHOOSE k \in keys : k[2] = Min({other[2] : other \in keys})

Unblocked(t) == Pin = Token[t].pin /\ tries[t] > 0

\* Token t looks at the PIN.
Checks(t) == /\ presented' = Append(presented, t)
             /\ tries' = [tries EXCEPT ![t] = IF Unblocked(t) THEN MaxTries ELSE IF @ = 0 THEN 0 ELSE @ - 1]

\* Mutant: If no token has the name, the first one does.
select_slot_OrFirst ==
  LET named == {i \in Plugged : Token[ports[i]].label = key_uri.token}
  IN  IF key_uri.slot # Free THEN {key_uri.slot}
      ELSE IF key_uri.token # Free /\ named # {} THEN named ELSE Plugged

\* The slots that will do, of which the first is taken. A slot that is given by its number is not looked at.
select_slot ==
  IF key_uri.slot # Free THEN {key_uri.slot}
  ELSE IF key_uri.token # Free THEN {i \in Plugged : Token[ports[i]].label = key_uri.token}
  ELSE Plugged

Load == /\ Takes("load", <<Ensure(files.module # Missing, "failed"), Ensure(KeyUriSelector, "usage")>>,
                 "signature", Nothing)
        /\ UNCHANGED <<output, token, world, cmd>>

Select == /\ Takes("select", <<Ensure(select_slot # {}, "failed")>>, "slot", Min(select_slot))
          /\ UNCHANGED <<output, token, world, cmd>>

TokenIn(slots, i) == IF i \in DOMAIN slots THEN slots[i] ELSE Empty

\* The session is with whatever token is in the slot by now.
Open == /\ Doing("open")
        /\ IF TokenIn(ports, held.slot) # Empty
           THEN session' = TokenIn(ports, held.slot) /\ Go ELSE Stop("failed") /\ UNCHANGED session
        /\ UNCHANGED <<held, output, tries, presented, world, cmd>>

Login == /\ Doing("login")
         /\ \/ ~PinKnown /\ Stop("usage") /\ UNCHANGED <<tries, presented>>
            \/ PinKnown /\ session = Empty /\ Stop("failed") /\ UNCHANGED <<tries, presented>>
            \/ /\ PinKnown /\ session # Empty
               /\ Checks(session)
               /\ IF Unblocked(session) THEN Go ELSE Stop("failed")
         /\ UNCHANGED <<held, output, session, world, cmd>>

private_key_template(k) == /\ key_uri.id # <<>> => Key(k).id = key_uri.id
                           /\ key_uri.object # Free => Key(k).object = key_uri.object

signing_mechanism == IF key_algorithm \in {"gost256", "gost512"} THEN "gost" ELSE key_algorithm

wrap_digest_info(hash) == [info |-> hash.alg, hash |-> hash]

Wrappable(hash) == key_algorithm = "rsa" => hash.alg \in {"sha256", "sha384", "sha512"}

prepare_sign_input(hash) == IF key_algorithm = "rsa" THEN wrap_digest_info(hash)
                            ELSE [info |-> Nothing, hash |-> hash]

\* The token signs with a key that the mechanism is for; GOST keys take hashes of their own length.
C_Sign(k, input) == /\ signing_mechanism = "gost" => Key(k).alg \in {"gost256", "gost512"}
                    /\ signing_mechanism # "gost" => Key(k).alg = signing_mechanism
                    /\ Key(k).alg \in {"gost256", "gost512"} => input.hash.len = output_len(Key(k).alg)

Pkcs11Sign ==
  LET keys == {k \in Names(session) : private_key_template(k)}
      input == prepare_sign_input(compute_digest(digest, held.attributes))
  IN  /\ Doing("c_sign")
      /\ IF session # Empty /\ keys # {} /\ Wrappable(input.hash) /\ C_Sign(FirstKey(keys), input)
         THEN Go /\ held' = [held EXCEPT !.signature = [key |-> FirstKey(keys), over |-> input]]
         ELSE Stop("failed") /\ UNCHANGED held
      /\ UNCHANGED <<output, token, world, cmd>>

\* A call over CCID, which succeeds or not; TokenSession models it.
CcidCall(ok) ==
  /\ UNCHANGED session
  /\ \/ ~ok /\ UNCHANGED <<tries, presented>>
     \/ ~Has("pin-env") /\ Plugged # {} /\ UNCHANGED <<tries, presented>>
     \/ /\ Has("pin-env") /\ PinKnown /\ Plugged # {}
        /\ Checks(FirstToken)
        /\ ok => Unblocked(FirstToken)

CcidKeys(hash) == {k \in Names(FirstToken) : Key(k).id = key_uri.id /\ Key(k).alg = hash.alg}

CcidSignature(hash) == [key |-> FirstKey(CcidKeys(hash)), over |-> [info |-> Nothing, hash |-> hash]]

CcidSign ==
  LET hash == compute_digest(digest, IF cmd.name = "sign" THEN held.attributes ELSE held.document)
  IN  /\ Doing("ccid_sign")
      /\ IF ~PinKnown THEN Stop("usage") /\ UNCHANGED <<held, token>>
         ELSE \E ok \in BOOLEAN :
                /\ CcidCall(ok)
                /\ ok => CcidKeys(hash) # {}
                /\ IF ok THEN Go /\ held' = [held EXCEPT !.signature = CcidSignature(hash)]
                   ELSE Stop("failed") /\ UNCHANGED held
      /\ UNCHANGED <<output, world, cmd>>

\* The scan returns a certificate of the token, or some other DER (WholeCertificate of TokenSession).
Found(t) == {[form |-> "der", of |-> k] : k \in Names(t)}
            \cup {[form |-> "garbage", of |-> Nothing]}

TokenCert ==
  /\ Doing("token_cert")
  /\ IF ~PinKnown THEN Stop("usage") /\ UNCHANGED <<held, token>>
     ELSE \E ok \in BOOLEAN :
            /\ CcidCall(ok)
            /\ IF ok THEN /\ Go
                          /\ \E c \in Found(FirstToken) : held' = [held EXCEPT !.certificate = c]
               ELSE Stop("failed") /\ UNCHANGED held
  /\ UNCHANGED <<output, world, cmd>>

\* ccid-apdu reads its variable from the environment only, and goes on whatever the card says of the PIN.
ApduPin == /\ Doing("apdu_pin")
           /\ \/ Plugged = {} /\ Stop("failed") /\ UNCHANGED token
              \/ Plugged # {} /\ ~Has("pin-env") /\ (Go \/ Stop("failed")) /\ UNCHANGED token
              \/ /\ Plugged # {} /\ Has("pin-env")
                 /\ IF given["pin-env"] \notin DOMAIN Environment THEN Stop("failed") /\ UNCHANGED token
                    ELSE \/ Stop("failed") /\ UNCHANGED token
                         \/ Checks(FirstToken) /\ UNCHANGED session /\ (Go \/ Stop("failed"))
           /\ UNCHANGED <<held, output, world, cmd>>

\* One APDU after the other; one that is no APDU is noticed when its turn comes.
Apdus == /\ Doing("apdus")
         /\ \/ (\A i \in DOMAIN Option("apdu", <<>>) : given["apdu"][i] = "good") /\ Go
            \/ Option("apdu", <<>>) # <<>> /\ Stop("failed")
         /\ UNCHANGED <<held, output, token, world, cmd>>

\* One file of a request to the Gosuslugi bridge: a document, to be signed with its content or without. The
\* files of a request are signed in turn, each with the PIN, up to the first that fails.
sign_file(document, detached) ==
  LET attributes == prepare_signed_attributes(document)
      hash == compute_digest(digest, attributes)
  IN  /\ Doing("serve")
      /\ served < MaxRequests /\ served' = served + 1
      /\ held' = [held EXCEPT !.document = document]
      /\ IF held.certificate = Nothing THEN output' = Refusal /\ UNCHANGED token
         ELSE \E ok \in BOOLEAN :
                /\ CcidCall(ok)
                /\ ok => CcidKeys(hash) # {}
                /\ output' = IF ok THEN build_signed_data(document, held.certificate, attributes,
                                                          CcidSignature(hash), detached)
                             ELSE Refusal
      /\ UNCHANGED <<todo, exit, around, cmd>>

\* The signature of a handshake or of a document, for gost-login or for a request to gost-bridge (which asks
\* for one to three: GostBridge). gost-login ends with it; gost-bridge goes on, except after some errors,
\* among them that the PIN is not set, which is a usage error unless it comes out of a handshake.
sign_digest ==
  /\ Doing("elsewhere") /\ cmd.name \in {"gost-login", "gost-bridge"}
  /\ served < MaxRequests /\ served' = served + 1
  /\ \/ ~PinKnown /\ UNCHANGED token
        /\ \E code \in {"failed", "usage"} : (code = "usage" => cmd.name = "gost-bridge") /\ Stop(code)
     \/ PinKnown
        /\ \E ok \in BOOLEAN :
             /\ CcidCall(ok)
             /\ \/ cmd.name = "gost-login" /\ ok /\ Go
                \/ cmd.name = "gost-bridge" /\ UNCHANGED <<todo, exit>>
                \/ ~ok /\ Stop("failed")
  /\ UNCHANGED <<held, output, around, cmd>>

\* The rest is in other modules: a connection that fails, a probe. The loop of gost-bridge has no end.
Elsewhere == /\ Doing("elsewhere")
             /\ \/ (cmd.name = "gost-bridge" => served = 0) /\ Stop("failed")
                \/ cmd.name \notin {"gost-login", "gost-bridge"} /\ Go
             /\ UNCHANGED <<held, output, token, world, cmd>>

\* Any call to the system or to the PKCS#11 module may fail.
CallFails == /\ todo # <<>>
             /\ Head(todo) \in {"read_input", "read_cert", "chain", "read_record",
                                "load", "select", "open", "login", "c_sign"}
             /\ Stop("failed")
             /\ UNCHANGED <<held, output, token, world, cmd>>

-----------------------------------------------------------------------------
(* What happens around the command *)

Trouble == troubles < MaxTroubles /\ troubles' = troubles + 1 /\ todo # <<>> /\ UNCHANGED cmd

Edit == /\ Trouble
        /\ \/ \E d \in Document \cup {Missing} : files' = [files EXCEPT !.input = d] /\ seen' = seen \cup {d}
           \/ \E c \in Certificate \cup {Missing} : files' = [files EXCEPT !.cert = c] /\ UNCHANGED seen
           \/ files' = [files EXCEPT !.module = Missing] /\ UNCHANGED seen
        /\ UNCHANGED <<todo, exit, held, output, ports, token, served, swapped>>

\* A token is taken out or put in. It loses its session.
Replug == /\ Trouble
          /\ \E p \in Ports :
               /\ ports' = p
               /\ swapped' = (swapped \/ (Doing("open") /\ TokenIn(p, held.slot) # TokenIn(ports, held.slot)))
               /\ session' = IF \E i \in DOMAIN p : p[i] = session /\ ports[i] = session THEN session ELSE Empty
          /\ UNCHANGED <<todo, exit, held, files, output, tries, seen, presented, served>>

Killed == /\ Trouble
          /\ Stop("killed")
          /\ output' \in IF Doing("write") THEN {output, Cut} ELSE {output}
          /\ UNCHANGED <<held, files, ports, token, seen, served, swapped>>

-----------------------------------------------------------------------------
Init ==
  /\ cmd \in Invocation
  /\ todo = <<"parse">>
  /\ exit = "running"
  /\ held = [document |-> Nothing, certificate |-> Nothing, attributes |-> Nothing, signature |-> Nothing,
             result |-> Nothing, slot |-> Nothing]
  /\ files \in [input : Document \cup {Missing}, cert : Certificate \cup {Missing},
                module : {"module", Missing}]
  /\ output = Old
  /\ ports \in Ports
  /\ session = Empty
  /\ tries = [t \in DOMAIN Token |-> MaxTries]
  /\ seen = {files.input}
  /\ presented = <<>>
  /\ served = 0
  /\ swapped = FALSE
  /\ troubles = 0

Step == \/ run_cli \/ ReadInput \/ ReadCert \/ load_client_cert_chain \/ ParseCert \/ ReadRecord
        \/ Attributes \/ Build \/ Write
        \/ Load \/ Select \/ Open \/ Login \/ Pkcs11Sign
        \/ CcidSign \/ TokenCert \/ ApduPin \/ Apdus \/ sign_digest \/ Elsewhere \/ CallFails

Next == \/ Step
        \/ \E d \in Document, detached \in BOOLEAN : sign_file(d, detached)
        \/ Edit \/ Replug \/ Killed

Spec == Init /\ [][Next]_vars

-----------------------------------------------------------------------------
(* Properties *)

\* The types. A command runs exactly as long as it has a step before it, and its session is with a
\* token that is plugged in.
TypeOK ==
  /\ cmd \in Invocation
  /\ exit \in {"running", "ok", "usage", "failed", "killed"}
  /\ exit = "running" <=> todo # <<>>
  /\ session # Empty => \E i \in DOMAIN ports : ports[i] = session
  /\ tries \in [DOMAIN Token -> 0 .. MaxTries]
  /\ served \in 0 .. MaxRequests
  /\ troubles \in 0 .. MaxTroubles

\* A usage error, exit code 2, comes before anything has happened, even one that is noticed late: no token
\* has looked at a PIN, and the output is what it was. A dry run leaves both alone as well.
RefusedUntouched ==
  exit = "usage" \/ (cmd.name = "sign" /\ dry_run) => presented = <<>> /\ output = Old

\* The exit code tells what the output holds: after 0 the whole result of this run (unless it was a dry
\* one), after anything else what it held before, unless the write itself broke off.
Writes == cmd.name \in {"sign", "ccid-sign-raw", "ccid-read-cert"}

OutputWhole ==
  Writes => /\ exit = "ok" => (dry_run /\ output = Old) \/ (~dry_run /\ output = Result)
            /\ output \notin {Old, Cut} => exit = "ok"
            /\ output = Cut => exit \in {"failed", "killed"}

\* A CMS envelope verifies, whatever happened to files and tokens meanwhile: the digest in it is that of
\* one content the input had, the one embedded if any; the signature is over the attributes in the form
\* its identifier stands for, by a key of that algorithm that the key URI names.
Required(key, hash) == IF Key(key).alg = "rsa" THEN wrap_digest_info(hash)
                       ELSE [info |-> Nothing, hash |-> hash]

SignedAsAsked ==
  output.kind = "cms" =>
    LET key == output.signature.key
    IN  /\ \E d \in IF cmd.name = "sign" THEN seen ELSE {held.document} :
             /\ output.attributes.messageDigest = compute_digest(output.digest, d)
             /\ output.content \in {d, Nothing}
        /\ cmd.name = "sign" => (output.content # Nothing <=> Has("embed-content"))
        /\ output.oid = signature_oid(Key(key).alg, output.digest)
        /\ output.signature.over = Required(key, compute_digest(output.digest, output.attributes))
        /\ private_key_template(key)
        /\ output.certificate.form = "der"

\* A run shows the PIN once, to one token; gost-login and the bridges show it once for every signature they are
\* asked for and once more if they read their certificate from the token. When sign over PKCS#11 is given a
\* token by name, a token of another name is shown the PIN only if it was put into the slot after the label had
\* been read and before the session was opened: at no other time does an exchange of tokens lead to that.
CertificateFromToken == DOMAIN given \cap {"cert", "cert-record", "client-cert"} = {}

PinsDue == IF cmd.name \in {"gost-login", "gost-bridge", "gosuslugi-bridge"}
           THEN served + (IF CertificateFromToken THEN 1 ELSE 0)
           ELSE 1

NamedByLabel == cmd.name = "sign" /\ key_uri.token # Free /\ key_uri.slot = Free

PinToNamedToken ==
  /\ Len(presented) <= PinsDue
  /\ NamedByLabel /\ ~swapped => \A i \in DOMAIN presented : Token[presented[i]].label = key_uri.token

===============================================================================
