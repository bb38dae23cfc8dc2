--------------------------- MODULE CommandLineProofs ---------------------------
(***************************************************************************)
(* The theorems about CommandLine: its five invariants, for any command    *)
(* lines, files, environment, tokens and slots, and any number of troubles.*)
(*                                                                         *)
(* A command is a sequence of steps, and what must hold depends on which   *)
(* of them have been taken: the invariant says, for each step a command    *)
(* can be before, what the local variables hold by then, whether a PIN has *)
(* been shown, and that nothing has been written.                          *)
(***************************************************************************)
EXTENDS CommandLine, WellFoundedInduction, SequenceTheorems, TLAPS

-----------------------------------------------------------------------------
(* The inductive invariant *)

HeldNames == {"document", "certificate", "attributes", "signature", "result", "slot"}

\* What the variables range over.
TypeInv ==
  /\ cmd \in Invocation
  /\ exit \in {"running", "ok", "usage", "failed", "killed"}
  /\ DOMAIN held = HeldNames
  /\ DOMAIN files = {"input", "cert", "module"}
  /\ files.input \in Document \cup {Missing} /\ files.cert \in Certificate \cup {Missing}
  /\ ports \in Ports
  /\ session # Empty => \E i \in DOMAIN ports : ports[i] = session
  /\ tries \in [DOMAIN Token -> 0 .. MaxTries]
  /\ presented \in Seq(DOMAIN Token \cup {Empty})
  /\ served \in 0 .. MaxRequests
  /\ swapped \in BOOLEAN
  /\ troubles \in 0 .. MaxTroubles

\* What parse and validate let pass and nothing changes afterwards.
Accepted ==
  /\ DOMAIN given \subseteq Command.takes
  /\ key_algorithm \in KeyAlgorithm
  /\ cmd.name = "sign" => Compatible(key_algorithm, digest)
  /\ (cmd.name = "sign" /\ ccid) \/ cmd.name \in {"ccid-sign-raw", "gosuslugi-bridge"} =>
       RutokenUri /\ MatchingGost(key_algorithm, digest)

\* A command that runs is before one of its steps, and has been accepted.
PlaceInv ==
  /\ exit = "running" <=> todo # <<>>
  /\ todo # <<>> /\ todo # <<"parse">> =>
       Accepted /\ \E n \in 1 .. Len(steps) : todo = SubSeq(steps, n, Len(steps))

Before(S) == todo # <<>> /\ Head(todo) \in S

\* A signature over these attributes that the identifier in the envelope fits.
Fits(signature, attributes) ==
  /\ private_key_template(signature.key)
  /\ Key(signature.key).alg = key_algorithm
  /\ signature.over = Required(signature.key, compute_digest(digest, attributes))

\* The local variables, by what the command is about to do.
HeldInv ==
  /\ files.input \in seen
  /\ cmd.name = "sign" =>
       /\ Before({"read_cert", "attributes", "ccid_sign", "load", "select", "open", "login", "c_sign", "build", "write"}) =>
            held.document \in seen \cap Document
       /\ Before({"ccid_sign", "load", "select", "open", "login", "c_sign", "build", "write"}) =>
            held.attributes = prepare_signed_attributes(held.document)
       /\ Before({"build", "write"}) => Fits(held.signature, held.attributes)
       /\ Before({"write"}) =>
            /\ held.certificate.form = "der"
            /\ held.result = build_signed_data(held.document, held.certificate, held.attributes, held.signature,
                                               ~Has("embed-content"))
  /\ Before({"serve"}) => held.certificate = Nothing \/ held.certificate.form = "der"

\* The steps that come before the token is asked anything.
Early == {"parse", "read_input", "read_cert", "read_record", "attributes", "load", "select", "open", "login", "ccid_sign",
          "token_cert", "apdu_pin", "chain"}

\* The token in the slot that was selected by its label, and the one of the session, have that label, unless the
\* slot has changed in between.
SlotInv ==
  NamedByLabel /\ ~swapped =>
    /\ Before({"open"}) /\ TokenIn(ports, held.slot) # Empty => Token[TokenIn(ports, held.slot)].label = key_uri.token
    /\ session # Empty => Token[session].label = key_uri.token

\* PINs: none is shown too early, or without being set.
TokenInv ==
  /\ Before(Early) => presented = <<>>
  /\ Before({"elsewhere"}) /\ ~PinKnown => presented = <<>>
  /\ cmd.name = "sign" /\ dry_run => presented = <<>>
  /\ SlotInv
  /\ PinToNamedToken

\* The output: untouched until the last step.
OutputInv ==
  /\ todo # <<>> /\ Head(todo) # "serve" => output = Old
  /\ cmd.name = "sign" /\ dry_run =>
       output = Old /\ (todo # <<>> => Head(todo) \in {"parse", "read_input", "read_cert", "attributes"})
  /\ RefusedUntouched
  /\ OutputWhole
  /\ SignedAsAsked

IInv == TypeInv /\ PlaceInv /\ HeldInv /\ TokenInv /\ OutputInv

-----------------------------------------------------------------------------
(* The first of several *)

\* A set of numbers has a least element.
LEMMA LeastExists ==
  ASSUME NEW S \in SUBSET Nat, S # {}
  PROVE  Min(S) \in S /\ \A i \in S : Min(S) <= i
<1> DEFINE below == {ss \in Nat \X Nat : ss[1] < ss[2]}
<1>1. IsWellFoundedOn(below, Nat)
  BY NatLessThanWellFounded DEF OpToRel
<1>2. \A i, j \in Nat : <<i, j>> \in below <=> i < j
  OBVIOUS
<1> HIDE DEF below
<1>3. PICK x \in S : \A y \in S : ~(<<y, x>> \in below)
  BY <1>1, WFMin
<1>4. \A y \in S : ~(y < x)
  BY <1>2, <1>3
<1>5. \A y \in S : x <= y
  BY <1>4
<1> QED
  BY <1>5 DEF Min

\* FirstFailure says none exactly if nothing fails, and otherwise the code of a check that does.
Checklist == Seq({"none", "usage", "failed"})

LEMMA FirstFailureOf ==
  ASSUME NEW checks \in Checklist
  PROVE  /\ FirstFailure(checks) = "none" => \A i \in 1 .. Len(checks) : checks[i] = "none"
         /\ FirstFailure(checks) # "none" => \E i \in 1 .. Len(checks) : FirstFailure(checks) = checks[i]
         /\ FirstFailure(checks) \in {"none", "usage", "failed"}
<1> DEFINE failed == {i \in DOMAIN checks : checks[i] # "none"}
<1>0. DOMAIN checks = 1 .. Len(checks) /\ DOMAIN checks \subseteq Nat
      /\ \A i \in DOMAIN checks : checks[i] \in {"none", "usage", "failed"}
  BY DEF Checklist
<1>1. CASE failed = {}
  BY <1>0, <1>1 DEF FirstFailure
<1>2. CASE failed # {}
  <2>1. failed \in SUBSET Nat
    BY <1>0
  <2>2. Min(failed) \in failed
    BY <2>1, <1>2, LeastExists
  <2>3. FirstFailure(checks) = checks[Min(failed)]
    BY <1>2 DEF FirstFailure
  <2> QED
    BY <1>0, <2>2, <2>3
<1> QED
  BY <1>1, <1>2

\* The first of some keys of a token is one of them.
LEMMA FirstKeyIn ==
  ASSUME NEW t \in DOMAIN Token, NEW keys \in SUBSET Names(t), keys # {}
  PROVE  FirstKey(keys) \in keys
<1> DEFINE positions == {other[2] : other \in keys}
<1>1. DOMAIN Token[t].keys \subseteq Nat
  BY TokenAssumption
<1>2. positions \in SUBSET Nat /\ positions # {}
  BY <1>1 DEF Names
<1>3. Min(positions) \in positions
  BY <1>2, LeastExists
<1>4. PICK k \in keys : k[2] = Min(positions)
  BY <1>3
<1> QED
  BY <1>4 DEF FirstKey

\* The first token is in its slot.
LEMMA FirstTokenIn ==
  ASSUME NEW S \in SUBSET DOMAIN ports, ports \in Ports, S # {}
  PROVE  Min(S) \in S /\ ports[Min(S)] \in DOMAIN Token \cup {Empty}
<1>1. ports \in Seq(DOMAIN Token \cup {Empty})
  BY TokenAssumption
<1>2. S \in SUBSET Nat
  BY <1>1
<1>3. Min(S) \in S
  BY <1>2, LeastExists
<1> QED
  BY <1>1, <1>3

-----------------------------------------------------------------------------
(* Options *)

\* Two lists of checks pass together only if each passes.
LEMMA FirstFailureConcat ==
  ASSUME NEW c \in Checklist, NEW d \in Checklist
  PROVE  /\ c \o d \in Checklist
         /\ FirstFailure(c \o d) = "none" =>
              (\A i \in 1 .. Len(c) : c[i] = "none") /\ (\A i \in 1 .. Len(d) : d[i] = "none")
<1>1. /\ c \o d \in Checklist
      /\ Len(c \o d) = Len(c) + Len(d) /\ Len(c) \in Nat /\ Len(d) \in Nat
  BY DEF Checklist
<1> SUFFICES ASSUME FirstFailure(c \o d) = "none"
             PROVE  (\A i \in 1 .. Len(c) : c[i] = "none") /\ (\A i \in 1 .. Len(d) : d[i] = "none")
  BY <1>1
<1>2. \A i \in 1 .. Len(c) + Len(d) : (c \o d)[i] = "none"
  BY <1>1, FirstFailureOf
<1>3. ASSUME NEW i \in 1 .. Len(c)
      PROVE  c[i] = "none"
  <2>1. (c \o d)[i] = c[i] /\ i \in 1 .. Len(c) + Len(d)
    BY <1>1 DEF Checklist
  <2> QED
    BY <2>1, <1>2
<1>4. ASSUME NEW i \in 1 .. Len(d)
      PROVE  d[i] = "none"
  <2> DEFINE k == Len(c) + i
  <2>1. k \in 1 .. Len(c) + Len(d) /\ k > Len(c) /\ k - Len(c) = i
    BY <1>1
  <2> HIDE DEF k
  <2>2. (c \o d)[k] = d[k - Len(c)]
    BY <2>1, <1>1, ConcatProperties DEF Checklist
  <2> QED
    BY <2>1, <2>2, <1>2
<1> QED
  BY <1>3, <1>4

LEMMA ChecklistPkcs11 == validate_pkcs11 \in Checklist
BY DEF Ensure, Checklist, validate_pkcs11

LEMMA ChecklistCcid ==
  /\ validate_ccid \in Checklist
  /\ (\A i \in 1 .. Len(validate_ccid) : validate_ccid[i] = "none") =>
       RutokenUri /\ MatchingGost(key_algorithm, digest)
<1>1. /\ validate_ccid \in Checklist /\ Len(validate_ccid) = 2
      /\ validate_ccid[1] = "none" => RutokenUri
      /\ validate_ccid[2] = "none" => MatchingGost(key_algorithm, digest)
  BY DEF Ensure, Checklist, validate_ccid
<1>2. 1 \in 1 .. 2 /\ 2 \in 1 .. 2
  OBVIOUS
<1> QED
  BY <1>1, <1>2

LEMMA ChecklistParse ==
  /\ parse \in Checklist
  /\ (\A i \in 1 .. Len(parse) : parse[i] = "none") =>
       DOMAIN given \subseteq Command.takes /\ key_algorithm \in KeyAlgorithm
<1>1. /\ parse \in Checklist /\ Len(parse) = 5
      /\ parse[1] = "none" => DOMAIN given \subseteq Command.takes
      /\ parse[3] = "none" => key_algorithm \in KeyAlgorithm
  BY DEF Ensure, Checklist, parse
<1>2. 1 \in 1 .. 5 /\ 3 \in 1 .. 5
  OBVIOUS
<1> QED
  BY <1>1, <1>2

LEMMA ChecklistSign ==
  ASSUME cmd.name = "sign"
  PROVE  /\ validate \in Checklist
         /\ FirstFailure(validate) = "none" =>
              Compatible(key_algorithm, digest) /\ (ccid => RutokenUri /\ MatchingGost(key_algorithm, digest))
<1> DEFINE first == <<ensure_file_exists("input"), ensure_parent_exists, ensure_file_exists("cert"),
                      Ensure(key_uri.scheme # "", "usage"), Ensure(Compatible(key_algorithm, digest), "usage")>>
           last == IF ccid THEN validate_ccid ELSE validate_pkcs11
<1>1. first \in Checklist /\ Len(first) = 5
  BY DEF Checklist, ensure_file_exists, ensure_parent_exists, Ensure
<1>2. first[5] = "none" => Compatible(key_algorithm, digest)
  BY DEF Ensure
<1>3. last \in Checklist /\ (ccid => last = validate_ccid)
  BY ChecklistPkcs11, ChecklistCcid
<1>4. validate = first \o last
  BY DEF validate, validate_sign
<1> HIDE DEF first, last
<1>5. FirstFailure(validate) = "none" =>
        (\A i \in 1 .. 5 : first[i] = "none") /\ (\A i \in 1 .. Len(last) : last[i] = "none")
  BY <1>1, <1>3, <1>4, FirstFailureConcat
<1>6. 5 \in 1 .. 5
  OBVIOUS
<1>7. validate \in Checklist
  BY <1>1, <1>3, <1>4, FirstFailureConcat
<1> QED
  BY <1>2, <1>3, <1>5, <1>6, <1>7, ChecklistCcid

LEMMA ChecklistRawSign ==
  ASSUME cmd.name = "ccid-sign-raw"
  PROVE  /\ validate \in Checklist
         /\ FirstFailure(validate) = "none" => RutokenUri /\ MatchingGost(key_algorithm, digest)
<1> DEFINE first == <<ensure_file_exists("input"), ensure_parent_exists>>
<1>1. first \in Checklist
  BY DEF Checklist, ensure_file_exists, ensure_parent_exists, Ensure
<1>2. validate = first \o validate_ccid
  BY DEF validate, validate_raw_sign
<1> HIDE DEF first
<1>3. /\ validate \in Checklist
      /\ FirstFailure(validate) = "none" => \A i \in 1 .. Len(validate_ccid) : validate_ccid[i] = "none"
  BY <1>1, <1>2, ChecklistCcid, FirstFailureConcat
<1> QED
  BY <1>3, ChecklistCcid

LEMMA ChecklistBridge ==
  ASSUME cmd.name = "gosuslugi-bridge"
  PROVE  /\ validate \in Checklist
         /\ FirstFailure(validate) = "none" => RutokenUri /\ MatchingGost(key_algorithm, digest)
<1> DEFINE first == <<Ensure(Has("cert") \/ Has("cert-record") => files.cert # Missing, "failed"),
                      Ensure(~(Has("cert") /\ Has("cert-record")), "usage")>>
<1>1. first \in Checklist
  BY DEF Checklist, Ensure
<1>2. validate = first \o validate_ccid
  BY DEF validate, validate_gosuslugi_bridge
<1> HIDE DEF first
<1>3. /\ validate \in Checklist
      /\ FirstFailure(validate) = "none" => \A i \in 1 .. Len(validate_ccid) : validate_ccid[i] = "none"
  BY <1>1, <1>2, ChecklistCcid, FirstFailureConcat
<1> QED
  BY <1>3, ChecklistCcid

\* What is left of the options after parse and validate have passed.
LEMMA AcceptedOptions ==
  /\ FirstFailure(parse) \in {"none", "usage", "failed"}
  /\ FirstFailure(validate) \in {"none", "usage", "failed"}
  /\ FirstFailure(parse) = "none" /\ FirstFailure(validate) = "none" => Accepted
<1>1. /\ FirstFailure(parse) \in {"none", "usage", "failed"}
      /\ FirstFailure(parse) = "none" => DOMAIN given \subseteq Command.takes /\ key_algorithm \in KeyAlgorithm
  BY ChecklistParse, FirstFailureOf
<1>2. CASE cmd.name = "sign"
  BY <1>1, <1>2, ChecklistSign, FirstFailureOf DEF Accepted
<1>3. CASE cmd.name = "ccid-sign-raw"
  BY <1>1, <1>3, ChecklistRawSign, FirstFailureOf DEF Accepted
<1>4. CASE cmd.name = "gosuslugi-bridge"
  BY <1>1, <1>4, ChecklistBridge, FirstFailureOf DEF Accepted
<1>5. CASE cmd.name \notin {"sign", "ccid-sign-raw", "gosuslugi-bridge"}
  <2>1. validate \in {validate_read_cert, <<Ensure(RutokenUri, "usage")>>, <<>>}
    BY <1>5 DEF validate
  <2>2. validate_read_cert \in Checklist /\ <<Ensure(RutokenUri, "usage")>> \in Checklist /\ <<>> \in Checklist
    BY DEF validate_read_cert, ensure_parent_exists, Checklist, Ensure
  <2> QED
    BY <1>1, <1>5, <2>1, <2>2, FirstFailureOf DEF Accepted
<1> QED
  BY <1>2, <1>3, <1>4, <1>5

-----------------------------------------------------------------------------
(* Steps *)

StepNames == {"read_input", "read_cert", "read_record", "chain", "parse_cert", "attributes", "ccid_sign", "load",
              "select", "open", "login", "c_sign", "build", "write", "token_cert", "apdu_pin", "apdus", "serve", "elsewhere"}

LEMMA EmptyByLength ==
  ASSUME NEW r \in Seq(StepNames)
  PROVE  (r = <<>> <=> Len(r) = 0) /\ Len(r) \in Nat /\ (Len(r) # 0 => Head(r) = r[1])
OBVIOUS

\* The part of a sequence from n on: what it begins with, and what is left of it after that.
LEMMA RestOfSteps ==
  ASSUME NEW s \in Seq(StepNames), NEW n \in 1 .. Len(s), NEW rest, rest = SubSeq(s, n, Len(s))
  PROVE  /\ rest # <<>> /\ Head(rest) = s[n]
         /\ Tail(rest) = <<>> <=> n = Len(s)
         /\ n < Len(s) => n + 1 \in 1 .. Len(s) /\ Tail(rest) = SubSeq(s, n + 1, Len(s)) /\ Head(Tail(rest)) = s[n + 1]
<1>0. Len(s) \in Nat /\ n \in 1 .. Len(s) /\ \A i \in n .. Len(s) : s[i] \in StepNames
  BY LenProperties
<1>1. rest \in Seq(StepNames) /\ Len(rest) = Len(s) - n + 1 /\ \A i \in 1 .. Len(rest) : rest[i] = s[n + i - 1]
  BY <1>0, SubSeqProperties
<1>2. rest # <<>> /\ Head(rest) = s[n]
  <2>1. Len(rest) # 0 /\ 1 \in 1 .. Len(rest) /\ n + 1 - 1 = n
    BY <1>0, <1>1
  <2>2. rest # <<>> /\ Head(rest) = rest[1]
    BY <2>1, <1>1, EmptyByLength, Zenon
  <2> QED
    BY <1>1, <2>1, <2>2
<1>3. Tail(rest) \in Seq(StepNames) /\ Len(Tail(rest)) = Len(s) - n
      /\ \A i \in 1 .. Len(Tail(rest)) : Tail(rest)[i] = rest[i + 1]
  BY <1>1, <1>2, HeadTailProperties
<1>4. Tail(rest) = <<>> <=> n = Len(s)
  <2>1. Tail(rest) = <<>> <=> Len(Tail(rest)) = 0
    BY <1>3, EmptyByLength, Zenon
  <2> QED
    BY <1>0, <1>3, <2>1, Len(s) - n = 0 <=> n = Len(s)
<1>5. ASSUME n < Len(s)
      PROVE  n + 1 \in 1 .. Len(s) /\ Tail(rest) = SubSeq(s, n + 1, Len(s)) /\ Head(Tail(rest)) = s[n + 1]
  <2> DEFINE after == SubSeq(s, n + 1, Len(s))
  <2>1. n + 1 \in 1 .. Len(s)
    BY <1>5
  <2>2. /\ after \in Seq(StepNames) /\ Len(after) = Len(s) - n
        /\ \A i \in 1 .. Len(after) : after[i] = s[n + i]
    BY <2>1, SubSeqProperties
  <2>3. \A i \in 1 .. Len(s) - n : Tail(rest)[i] = s[n + i]
    BY <1>1, <1>3
  <2>4. Tail(rest) = after
    BY <1>3, <2>2, <2>3, SeqEqual
  <2>5. Head(Tail(rest)) = Tail(rest)[1] /\ 1 \in 1 .. Len(s) - n
    BY <1>3, <1>5
  <2>6. Tail(rest)[1] = s[n + 1]
    BY <2>3, <2>5
  <2> QED
    BY <2>1, <2>4, <2>5, <2>6
<1> QED
  BY <1>2, <1>4, <1>5

\* The steps of each command.
LEMMA StepsOfSign ==
  ASSUME cmd.name = "sign"
  PROVE  steps = IF ccid
                 THEN <<"read_input", "read_cert", "attributes", "ccid_sign", "build", "write">>
                 ELSE <<"read_input", "read_cert", "attributes", "load", "select", "open", "login", "c_sign", "build", "write">>
BY DEF steps, steps_sign

LEMMA StepsOfReading ==
  /\ cmd.name = "ccid-sign-raw" => steps = <<"read_input", "ccid_sign", "write">>
  /\ cmd.name = "ccid-read-cert" => steps = <<"token_cert", "parse_cert", "write">>
  /\ cmd.name = "ccid-apdu" => steps = <<"apdu_pin", "apdus">>
BY DEF steps, steps_read_cert

LEMMA StepsOfBridges ==
  /\ cmd.name = "gosuslugi-bridge" =>
       steps = IF Has("cert") THEN <<"read_cert", "parse_cert", "serve">>
               ELSE IF Has("cert-record") THEN <<"read_record", "serve">>
               ELSE <<"token_cert", "parse_cert", "serve">>
  /\ cmd.name \in {"gost-login", "gost-bridge"} =>
       steps = IF Has("client-cert") THEN <<"chain", "elsewhere">> ELSE <<"token_cert", "elsewhere">>
  /\ cmd.name \notin {"sign", "ccid-sign-raw", "ccid-read-cert", "ccid-apdu", "gosuslugi-bridge", "gost-login",
                      "gost-bridge"} => steps = <<"elsewhere">>
<1>1. CASE cmd.name = "gosuslugi-bridge"
  BY <1>1 DEF steps, steps_gosuslugi_bridge
<1>2. CASE cmd.name \in {"gost-login", "gost-bridge"}
  BY <1>2 DEF steps
<1>3. CASE cmd.name \notin {"sign", "ccid-sign-raw", "ccid-read-cert", "ccid-apdu", "gosuslugi-bridge", "gost-login",
                            "gost-bridge"}
  BY <1>3 DEF steps
<1> QED
  BY <1>1, <1>2, <1>3

LEMMA StepsAreSteps == steps \in Seq(StepNames) /\ Len(steps) \in Nat \ {0}
<1> DEFINE Fine(s) == s \in Seq(StepNames) /\ Len(s) \in Nat \ {0}
<1>1. CASE cmd.name = "sign"
  <2>1. Fine(<<"read_input", "read_cert", "attributes", "ccid_sign", "build", "write">>)
    BY DEF StepNames
  <2>2. Fine(<<"read_input", "read_cert", "attributes", "load", "select", "open", "login", "c_sign", "build", "write">>)
    BY DEF StepNames
  <2> QED
    BY <1>1, <2>1, <2>2, StepsOfSign
<1>2. CASE cmd.name \in {"ccid-sign-raw", "ccid-read-cert", "ccid-apdu"}
  <2>1. Fine(<<"read_input", "ccid_sign", "write">>) /\ Fine(<<"token_cert", "parse_cert", "write">>)
        /\ Fine(<<"apdu_pin", "apdus">>)
    BY DEF StepNames
  <2> QED
    BY <1>2, <2>1, StepsOfReading
<1>3. CASE cmd.name \notin {"sign", "ccid-sign-raw", "ccid-read-cert", "ccid-apdu"}
  <2>1. steps \in {<<"read_cert", "parse_cert", "serve">>, <<"read_record", "serve">>,
                   <<"token_cert", "parse_cert", "serve">>, <<"chain", "elsewhere">>,
                   <<"token_cert", "elsewhere">>, <<"elsewhere">>}
    BY <1>3, StepsOfBridges
  <2>2. Fine(<<"read_cert", "parse_cert", "serve">>) /\ Fine(<<"read_record", "serve">>)
        /\ Fine(<<"token_cert", "parse_cert", "serve">>)
    BY DEF StepNames
  <2>3. Fine(<<"chain", "elsewhere">>) /\ Fine(<<"token_cert", "elsewhere">>) /\ Fine(<<"elsewhere">>)
    BY DEF StepNames
  <2> HIDE DEF Fine
  <2>4. Fine(steps)
    BY <2>1, <2>2, <2>3
  <2> QED
    BY <2>4 DEF Fine
<1> QED
  BY <1>1, <1>2, <1>3

Started == todo # <<>> /\ todo # <<"parse">>

\* A command that has started is at one of its steps, and the one after that is next.
LEMMA PlaceInSteps ==
  ASSUME PlaceInv, Started
  PROVE  \E n \in 1 .. Len(steps) :
           /\ todo = SubSeq(steps, n, Len(steps))
           /\ Head(todo) = steps[n]
           /\ Tail(todo) = <<>> <=> n = Len(steps)
           /\ n < Len(steps) => /\ n + 1 \in 1 .. Len(steps) /\ Tail(todo) = SubSeq(steps, n + 1, Len(steps))
                                /\ Head(Tail(todo)) = steps[n + 1]
<1>1. PICK n \in 1 .. Len(steps) : todo = SubSeq(steps, n, Len(steps))
  BY DEF PlaceInv, Started
<1>2. /\ Head(todo) = steps[n]
      /\ Tail(todo) = <<>> <=> n = Len(steps)
      /\ n < Len(steps) => /\ n + 1 \in 1 .. Len(steps) /\ Tail(todo) = SubSeq(steps, n + 1, Len(steps))
                           /\ Head(Tail(todo)) = steps[n + 1]
  BY <1>1, StepsAreSteps, RestOfSteps
<1> QED
  BY <1>1, <1>2

\* What comes after each step, command by command.
LEMMA SignPlace ==
  ASSUME PlaceInv, Started, cmd.name = "sign"
  PROVE  /\ Head(todo) \in {"read_input", "read_cert", "attributes", "ccid_sign", "load", "select", "open", "login",
                            "c_sign", "build", "write"}
         /\ Head(todo) = "ccid_sign" => ccid
         /\ Head(todo) \in {"load", "select", "open", "login", "c_sign"} => ~ccid
         /\ Head(todo) = "write" <=> Tail(todo) = <<>>
         /\ Head(todo) = "read_input" => Head(Tail(todo)) = "read_cert"
         /\ Head(todo) = "read_cert" => Head(Tail(todo)) = "attributes"
         /\ Head(todo) = "attributes" => Head(Tail(todo)) \in {"ccid_sign", "load"}
         /\ Head(todo) = "load" => Head(Tail(todo)) = "select"
         /\ Head(todo) = "select" => Head(Tail(todo)) = "open"
         /\ Head(todo) = "open" => Head(Tail(todo)) = "login"
         /\ Head(todo) = "login" => Head(Tail(todo)) = "c_sign"
         /\ Head(todo) \in {"c_sign", "ccid_sign"} => Head(Tail(todo)) = "build"
         /\ Head(todo) = "build" => Head(Tail(todo)) = "write"
<1>1. PICK n \in 1 .. Len(steps) : /\ Head(todo) = steps[n]
                                   /\ Tail(todo) = <<>> <=> n = Len(steps)
                                   /\ n < Len(steps) => Head(Tail(todo)) = steps[n + 1]
  BY PlaceInSteps
<1>2. CASE ccid
  <2>1. /\ Len(steps) = 6 /\ steps[1] = "read_input" /\ steps[2] = "read_cert" /\ steps[3] = "attributes"
        /\ steps[4] = "ccid_sign" /\ steps[5] = "build" /\ steps[6] = "write"
    BY <1>2, StepsOfSign
  <2>2. n \in {1, 2, 3, 4, 5, 6}
    BY <2>1
  <2> QED
    BY <1>1, <1>2, <2>1, <2>2
<1>3. CASE ~ccid
  <2>1. /\ Len(steps) = 10 /\ steps[1] = "read_input" /\ steps[2] = "read_cert" /\ steps[3] = "attributes"
        /\ steps[4] = "load" /\ steps[5] = "select" /\ steps[6] = "open" /\ steps[7] = "login"
        /\ steps[8] = "c_sign" /\ steps[9] = "build" /\ steps[10] = "write"
    BY <1>3, StepsOfSign
  <2>2. n \in {1, 2, 3, 4, 5, 6, 7, 8, 9, 10}
    BY <2>1
  <2>3. CASE n \in {1, 2, 3, 4, 5}
    BY <1>1, <1>3, <2>1, <2>3
  <2>4. CASE n \in {6, 7, 8, 9, 10}
    BY <1>1, <1>3, <2>1, <2>4
  <2> QED
    BY <2>2, <2>3, <2>4
<1> QED
  BY <1>2, <1>3

LEMMA ReadingPlace ==
  ASSUME PlaceInv, Started
  PROVE  /\ cmd.name = "ccid-sign-raw" =>
              /\ Head(todo) \in {"read_input", "ccid_sign", "write"}
              /\ Head(todo) = "read_input" => Head(Tail(todo)) = "ccid_sign"
              /\ Head(todo) = "ccid_sign" => Head(Tail(todo)) = "write"
              /\ Head(todo) = "write" <=> Tail(todo) = <<>>
         /\ cmd.name = "ccid-read-cert" =>
              /\ Head(todo) \in {"token_cert", "parse_cert", "write"}
              /\ Head(todo) = "token_cert" => Head(Tail(todo)) = "parse_cert"
              /\ Head(todo) = "parse_cert" => Head(Tail(todo)) = "write"
              /\ Head(todo) = "write" <=> Tail(todo) = <<>>
         /\ cmd.name = "ccid-apdu" =>
              /\ Head(todo) \in {"apdu_pin", "apdus"}
              /\ Head(todo) = "apdu_pin" => Head(Tail(todo)) = "apdus"
              /\ Head(todo) = "apdus" <=> Tail(todo) = <<>>
<1>1. PICK n \in 1 .. Len(steps) : /\ Head(todo) = steps[n]
                                   /\ Tail(todo) = <<>> <=> n = Len(steps)
                                   /\ n < Len(steps) => Head(Tail(todo)) = steps[n + 1]
  BY PlaceInSteps
<1>2. CASE cmd.name = "ccid-sign-raw"
  <2>1. Len(steps) = 3 /\ steps[1] = "read_input" /\ steps[2] = "ccid_sign" /\ steps[3] = "write"
    BY <1>2, StepsOfReading
  <2>2. n \in {1, 2, 3}
    BY <2>1
  <2> QED
    BY <1>1, <1>2, <2>1, <2>2
<1>3. CASE cmd.name = "ccid-read-cert"
  <2>1. Len(steps) = 3 /\ steps[1] = "token_cert" /\ steps[2] = "parse_cert" /\ steps[3] = "write"
    BY <1>3, StepsOfReading
  <2>2. n \in {1, 2, 3}
    BY <2>1
  <2> QED
    BY <1>1, <1>3, <2>1, <2>2
<1>4. CASE cmd.name = "ccid-apdu"
  <2>1. Len(steps) = 2 /\ steps[1] = "apdu_pin" /\ steps[2] = "apdus"
    BY <1>4, StepsOfReading
  <2>2. n \in {1, 2}
    BY <2>1
  <2> QED
    BY <1>1, <1>4, <2>1, <2>2
<1> QED
  BY <1>2, <1>3, <1>4

LEMMA BridgePlace ==
  ASSUME PlaceInv, Started
  PROVE  /\ cmd.name = "gosuslugi-bridge" =>
              /\ Head(todo) \in {"read_cert", "read_record", "token_cert", "parse_cert", "serve"}
              /\ Head(todo) \in {"read_cert", "token_cert"} => Head(Tail(todo)) = "parse_cert"
              /\ Head(todo) \in {"read_record", "parse_cert"} => Head(Tail(todo)) = "serve"
              /\ Head(todo) = "serve" <=> Tail(todo) = <<>>
         /\ cmd.name \in {"gost-login", "gost-bridge"} =>
              /\ Head(todo) \in {"chain", "token_cert", "elsewhere"}
              /\ Head(todo) \in {"chain", "token_cert"} => Head(Tail(todo)) = "elsewhere"
              /\ Head(todo) = "elsewhere" <=> Tail(todo) = <<>>
         /\ cmd.name \notin {"sign", "ccid-sign-raw", "ccid-read-cert", "ccid-apdu", "gosuslugi-bridge",
                             "gost-login", "gost-bridge"} =>
              Head(todo) = "elsewhere" /\ Tail(todo) = <<>>
<1>1. PICK n \in 1 .. Len(steps) : /\ Head(todo) = steps[n]
                                   /\ Tail(todo) = <<>> <=> n = Len(steps)
                                   /\ n < Len(steps) => Head(Tail(todo)) = steps[n + 1]
  BY PlaceInSteps
<1>2. CASE cmd.name = "gosuslugi-bridge"
  <2>1. CASE Has("cert-record") /\ ~Has("cert")
    <3>1. Len(steps) = 2 /\ steps[1] = "read_record" /\ steps[2] = "serve"
      BY <1>2, <2>1, StepsOfBridges
    <3>2. n \in {1, 2}
      BY <3>1
    <3> QED
      BY <1>1, <1>2, <3>1, <3>2
  <2>2. CASE ~(Has("cert-record") /\ ~Has("cert"))
    <3>1. Len(steps) = 3 /\ steps[1] \in {"read_cert", "token_cert"} /\ steps[2] = "parse_cert" /\ steps[3] = "serve"
      <4>1. CASE Has("cert")
        BY <1>2, <4>1, StepsOfBridges
      <4>2. CASE ~Has("cert")
        BY <1>2, <2>2, <4>2, StepsOfBridges
      <4> QED
        BY <4>1, <4>2
    <3>2. n \in {1, 2, 3}
      BY <3>1
    <3> QED
      BY <1>1, <1>2, <3>1, <3>2
  <2> QED
    BY <2>1, <2>2
<1>3. CASE cmd.name \in {"gost-login", "gost-bridge"}
  <2>1. Len(steps) = 2 /\ steps[1] \in {"chain", "token_cert"} /\ steps[2] = "elsewhere"
    BY <1>3, StepsOfBridges
  <2>2. n \in {1, 2}
    BY <2>1
  <2> QED
    BY <1>1, <1>3, <2>1, <2>2
<1>4. CASE cmd.name \notin {"sign", "ccid-sign-raw", "ccid-read-cert", "ccid-apdu", "gosuslugi-bridge", "gost-login",
                            "gost-bridge"}
  <2>1. Len(steps) = 1 /\ steps[1] = "elsewhere"
    BY <1>4, StepsOfBridges
  <2>2. n = 1
    BY <2>1
  <2> QED
    BY <1>1, <1>4, <2>1, <2>2
<1> QED
  BY <1>2, <1>3, <1>4

\* A command that reads a certificate from the token has been given none.
LEMMA TokenCertPlace ==
  ASSUME PlaceInv, Started, Head(todo) = "token_cert"
  PROVE  /\ cmd.name = "gosuslugi-bridge" => ~Has("cert") /\ ~Has("cert-record")
         /\ cmd.name \in {"gost-login", "gost-bridge"} => ~Has("client-cert")
<1>1. PICK n \in 1 .. Len(steps) : steps[n] = "token_cert"
  BY PlaceInSteps
<1>2. ASSUME cmd.name = "gosuslugi-bridge"
      PROVE  ~Has("cert") /\ ~Has("cert-record")
  <2>1. steps # <<"read_cert", "parse_cert", "serve">> /\ steps # <<"read_record", "serve">>
    BY <1>1
  <2> QED
    BY <1>2, <2>1, StepsOfBridges
<1>3. ASSUME cmd.name \in {"gost-login", "gost-bridge"}
      PROVE  ~Has("client-cert")
  <2>1. steps # <<"chain", "elsewhere">>
    BY <1>1
  <2> QED
    BY <1>3, <2>1, StepsOfBridges
<1> QED
  BY <1>2, <1>3

\* In whatever command: a step that comes early comes after early ones only.
LEMMA StepOrder ==
  ASSUME PlaceInv, Started
  PROVE  /\ Head(todo) \in StepNames
         /\ Tail(todo) # <<>> =>
              /\ Head(Tail(todo)) \in StepNames
              /\ Head(Tail(todo)) \in Early => Head(todo) \in Early
              /\ Head(Tail(todo)) = "open" => Head(todo) = "select"
              /\ Head(Tail(todo)) = "elsewhere" => Head(todo) \in {"chain", "token_cert"}
              /\ Head(Tail(todo)) = "serve" => Head(todo) \in {"read_record", "parse_cert"}
         /\ Head(todo) = "serve" => cmd.name = "gosuslugi-bridge"
         /\ Tail(todo) = <<>> => Head(todo) \in {"write", "apdus", "serve", "elsewhere"}
         /\ Head(todo) = "write" => Tail(todo) = <<>> /\ Writes
         /\ Writes /\ Tail(todo) = <<>> => Head(todo) = "write"
<1>1. CASE cmd.name = "sign"
  BY <1>1, SignPlace DEF Early, StepNames, Writes
<1>2. CASE cmd.name \in {"ccid-sign-raw", "ccid-read-cert", "ccid-apdu"}
  BY <1>2, ReadingPlace DEF Early, StepNames, Writes
<1>3. CASE cmd.name \notin {"sign", "ccid-sign-raw", "ccid-read-cert", "ccid-apdu"}
  BY <1>3, BridgePlace DEF Early, StepNames, Writes
<1> QED
  BY <1>1, <1>2, <1>3

\* What depends on the command line alone stays as it is.
LEMMA SameCommand ==
  ASSUME cmd' = cmd
  PROVE  /\ given' = given /\ digest' = digest /\ key_algorithm' = key_algorithm /\ key_uri' = key_uri
         /\ dry_run' = dry_run /\ ccid' = ccid /\ steps' = steps /\ Accepted' = Accepted
         /\ PinKnown' = PinKnown /\ Writes' = Writes
         /\ NamedByLabel' = NamedByLabel /\ CertificateFromToken' = CertificateFromToken
<1>1. given' = given /\ Command' = Command
  BY DEF given, Command
<1>2. digest' = digest /\ key_algorithm' = key_algorithm /\ key_uri' = key_uri /\ dry_run' = dry_run /\ ccid' = ccid
  BY <1>1 DEF digest, key_algorithm, key_uri, dry_run, ccid, Option, Has
<1>3. steps' = steps
  BY <1>1, <1>2 DEF steps, steps_sign, steps_read_cert, steps_gosuslugi_bridge, Has
<1>4. Accepted' = Accepted
  BY <1>1, <1>2 DEF Accepted, RutokenUri
<1>5. NamedByLabel' = NamedByLabel /\ CertificateFromToken' = CertificateFromToken
  BY <1>1, <1>2 DEF NamedByLabel, CertificateFromToken
<1> QED
  BY <1>1, <1>2, <1>3, <1>4, <1>5 DEF PinKnown, Has, Writes

\* After a step that succeeds the command is before the next one, or has ended well.
LEMMA GoPlace ==
  ASSUME PlaceInv, Started, Go, cmd' = cmd
  PROVE  /\ PlaceInv'
         /\ exit' \in {"running", "ok"} /\ (exit' = "ok" <=> Tail(todo) = <<>>)
         /\ todo' = Tail(todo)
         /\ todo' # <<>> => Started' /\ Head(todo') = Head(Tail(todo))
<1>1. PICK n \in 1 .. Len(steps) :
           /\ todo = SubSeq(steps, n, Len(steps))
           /\ Tail(todo) = <<>> <=> n = Len(steps)
           /\ n < Len(steps) => n + 1 \in 1 .. Len(steps) /\ Tail(todo) = SubSeq(steps, n + 1, Len(steps))
  BY PlaceInSteps
<1>2. todo' = Tail(todo) /\ exit' = (IF Tail(todo) = <<>> THEN "ok" ELSE exit)
  BY DEF Go
<1>3. exit = "running" /\ Accepted
  BY DEF PlaceInv, Started
<1>4. steps' = steps /\ Accepted' = Accepted
  BY SameCommand
<1>5. todo' # <<>> => n < Len(steps)
  BY <1>1, <1>2, StepsAreSteps
<1>6. todo' # <<>> => todo' # <<"parse">>
  <2>1. Head(<<"parse">>) = "parse"
    OBVIOUS
  <2>2. todo' # <<>> => Head(todo') \in StepNames
    BY <1>2, StepOrder
  <2> QED
    BY <2>1, <2>2 DEF StepNames
<1>7. PlaceInv'
  BY <1>1, <1>2, <1>3, <1>4, <1>5 DEF PlaceInv
<1> QED
  BY <1>2, <1>3, <1>6, <1>7 DEF Started

\* Where the parse step is, and what cannot be before it.
LEMMA ParsePlace ==
  ASSUME PlaceInv, todo # <<>>
  PROVE  Started <=> Head(todo) # "parse"
<1>1. todo = <<"parse">> => Head(todo) = "parse"
  OBVIOUS
<1>2. Started => Head(todo) # "parse"
  BY StepOrder DEF StepNames
<1> QED
  BY <1>1, <1>2 DEF Started

-----------------------------------------------------------------------------
(* Steps that end the command, steps that go on *)

\* Where no token is asked, only a slot that has just been selected is new.
LEMMA TokensSame ==
  ASSUME IInv, UNCHANGED <<cmd, session, presented, served, swapped>>,
         Before({"open"})' => Before({"open"}) /\ UNCHANGED <<ports, held>>
  PROVE  SlotInv' /\ PinToNamedToken'
<1>1. key_uri' = key_uri /\ NamedByLabel' = NamedByLabel /\ CertificateFromToken' = CertificateFromToken
  BY SameCommand
<1>2. SlotInv'
  BY <1>1 DEF IInv, TokenInv, SlotInv, TokenIn
<1>3. PinToNamedToken'
  BY <1>1 DEF IInv, TokenInv, PinToNamedToken, PinsDue
<1> QED
  BY <1>2, <1>3

\* A command that stops with an error, and has done nothing with a token in this step, keeps the invariant.
LEMMA StopKeeps ==
  ASSUME IInv, todo # <<>>, NEW code \in {"usage", "failed"}, Stop(code),
         UNCHANGED <<held, output, token, world, cmd>>,
         code = "usage" => presented = <<>> /\ output = Old
  PROVE  IInv'
<1>1. todo' = <<>> /\ exit' = code /\ cmd' = cmd /\ held' = held /\ output' = output /\ files' = files /\ ports' = ports
      /\ seen' = seen /\ troubles' = troubles /\ session' = session /\ tries' = tries /\ presented' = presented
      /\ served' = served /\ swapped' = swapped
  BY DEF Stop, token, world, around
<1>2. /\ given' = given /\ digest' = digest /\ key_algorithm' = key_algorithm /\ key_uri' = key_uri
      /\ dry_run' = dry_run /\ Writes' = Writes
  BY <1>1, SameCommand
<1>3. TypeInv'
  BY <1>1 DEF IInv, TypeInv
<1>4. PlaceInv'
  BY <1>1 DEF PlaceInv
<1>5. HeldInv'
  BY <1>1 DEF IInv, HeldInv, Before
<1>6. TokenInv'
  BY <1>1, <1>2, TokensSame DEF IInv, TokenInv, Before
<1>7. exit = "running"
  BY DEF IInv, PlaceInv
<1>8. SignedAsAsked'
  BY <1>1, <1>2 DEF IInv, OutputInv, SignedAsAsked, Has, private_key_template
<1>9. OutputWhole'
  BY <1>1, <1>2, <1>7 DEF IInv, OutputInv, OutputWhole
<1>10. RefusedUntouched'
  BY <1>1, <1>2 DEF IInv, OutputInv, TokenInv, RefusedUntouched
<1> QED
  BY <1>1, <1>2, <1>3, <1>4, <1>5, <1>6, <1>8, <1>9, <1>10 DEF IInv, OutputInv

\* A step that goes on and keeps tokens and output has only the local variables to account for.
LEMMA GoKeeps ==
  ASSUME IInv, Started, Go, UNCHANGED <<output, token, world, cmd>>,
         Head(todo) \notin {"write", "serve", "token_cert"},
         Head(todo) \in {"attributes", "ccid_sign", "load", "select", "open", "login", "c_sign", "build"} =>
           ~(cmd.name = "sign" /\ dry_run),
         DOMAIN held' = HeldNames, HeldInv', Head(todo) = "select" => SlotInv'
  PROVE  IInv'
<1>1. cmd' = cmd /\ output' = output /\ files' = files /\ ports' = ports /\ seen' = seen /\ troubles' = troubles
      /\ session' = session /\ tries' = tries /\ presented' = presented /\ served' = served /\ swapped' = swapped
  BY DEF token, world, around
<1>2. /\ given' = given /\ digest' = digest /\ key_algorithm' = key_algorithm /\ key_uri' = key_uri
      /\ dry_run' = dry_run /\ Writes' = Writes /\ PinKnown' = PinKnown
  BY <1>1, SameCommand
<1>3. PlaceInv /\ todo # <<>>
  BY DEF IInv, Started
<1>4. /\ PlaceInv' /\ exit' \in {"running", "ok"} /\ (exit' = "ok" <=> todo' = <<>>)
      /\ todo' # <<>> => Head(todo') = Head(Tail(todo))
      /\ todo' = Tail(todo)
  BY <1>1, <1>3, GoPlace
<1>5. TypeInv'
  BY <1>1, <1>4 DEF IInv, TypeInv
<1>6. TokenInv'
  <2>1. SlotInv' /\ PinToNamedToken'
    <3>1. CASE Head(todo) # "select"
      <4>1. ~Before({"open"})'
        BY <1>1, <1>3, <1>4, <3>1, StepOrder DEF Before
      <4> QED
        BY <1>1, <4>1, TokensSame
    <3>2. CASE Head(todo) = "select"
      <4>1. PinToNamedToken'
        BY <1>1, SameCommand DEF IInv, TokenInv, PinToNamedToken, PinsDue
      <4> QED
        BY <3>2, <4>1
    <3> QED
      BY <3>1, <3>2
  <2>2. Before(Early)' => presented' = <<>>
    BY <1>1, <1>3, <1>4, StepOrder DEF IInv, TokenInv, Before
  <2>3. Before({"elsewhere"})' /\ ~PinKnown' => presented' = <<>>
    <3>1. Head(todo) = "chain" => presented = <<>>
      BY <1>3 DEF IInv, TokenInv, Before, Early
    <3> QED
      BY <1>1, <1>3, <1>4, <3>1, StepOrder DEF Before
  <2> QED
    BY <1>1, <1>2, <2>1, <2>2, <2>3 DEF IInv, TokenInv
<1>7. output' = Old
  BY <1>1, <1>3 DEF IInv, OutputInv
<1>8. todo' = <<>> => ~Writes'
  BY <1>2, <1>3, <1>4, StepOrder
<1>9. SignedAsAsked' /\ OutputWhole'
  BY <1>4, <1>7, <1>8 DEF Old, Cut, SignedAsAsked, OutputWhole
<1>10. RefusedUntouched'
  BY <1>1, <1>2, <1>4, <1>7 DEF IInv, TokenInv, RefusedUntouched
<1>11. ASSUME cmd'.name = "sign", dry_run', todo' # <<>>
       PROVE  Head(todo') \in {"parse", "read_input", "read_cert", "attributes"}
  <2>1. Head(todo) \in {"read_input", "read_cert"}
    BY <1>1, <1>2, <1>3, <1>11, SignPlace, StepOrder
  <2> QED
    BY <1>1, <1>3, <1>4, <1>11, <2>1, SignPlace
<1> QED
  BY <1>4, <1>5, <1>6, <1>7, <1>9, <1>10, <1>11, HeldInv' DEF IInv, OutputInv

-----------------------------------------------------------------------------
(* Steps that read or compute a value *)

LEMMA TakesKeeps ==
  ASSUME IInv, NEW s \in StepNames \ {"write", "serve", "token_cert", "attributes"},
         NEW checks \in Checklist, NEW l \in HeldNames, NEW value,
         Takes(s, checks, l, value), UNCHANGED <<output, token, world, cmd>>,
         FirstFailure(checks) = "usage" => presented = <<>>,
         FirstFailure(checks) = "none" /\ Go /\ held' = [held EXCEPT ![l] = value] =>
           HeldInv' /\ (s = "select" => SlotInv')
  PROVE  IInv'
<1>1. todo # <<>> /\ Head(todo) = s /\ Started
  <2>1. todo # <<>> /\ Head(todo) = s
    BY DEF Takes, Doing
  <2> QED
    BY <2>1, ParsePlace DEF IInv, StepNames
<1>2. output = Old
  BY <1>1 DEF IInv, OutputInv
<1>3. CASE FirstFailure(checks) = "none"
  <2>1. Go /\ held' = [held EXCEPT ![l] = value]
    BY <1>3 DEF Takes
  <2>2. DOMAIN held' = HeldNames
    BY <2>1 DEF IInv, TypeInv
  <2>3. Head(todo) \in {"attributes", "ccid_sign", "load", "select", "open", "login", "c_sign", "build"} =>
          ~(cmd.name = "sign" /\ dry_run)
    BY <1>1 DEF IInv, OutputInv
  <2> QED
    BY <1>1, <1>3, <2>1, <2>2, <2>3, GoKeeps
<1>4. CASE FirstFailure(checks) # "none"
  <2>1. FirstFailure(checks) \in {"usage", "failed"}
    BY <1>4, FirstFailureOf
  <2>2. Stop(FirstFailure(checks)) /\ UNCHANGED held
    BY <1>4 DEF Takes
  <2> QED
    BY <1>1, <1>2, <2>1, <2>2, StopKeeps
<1> QED
  BY <1>3, <1>4

\* A single check, as most steps have it.
LEMMA SingleCheck ==
  ASSUME NEW condition
  PROVE  /\ <<Ensure(condition, "failed")>> \in Checklist
         /\ FirstFailure(<<Ensure(condition, "failed")>>) # "usage"
         /\ FirstFailure(<<Ensure(condition, "failed")>>) = "none" => condition
<1> DEFINE checks == <<Ensure(condition, "failed")>>
<1>1. checks \in Checklist /\ Len(checks) = 1 /\ checks[1] = Ensure(condition, "failed")
  BY DEF Ensure, Checklist
<1>2. checks[1] # "usage" /\ (checks[1] = "none" => condition)
  BY <1>1 DEF Ensure
<1> HIDE DEF checks
<1>3. /\ FirstFailure(checks) = "none" => checks[1] = "none"
      /\ FirstFailure(checks) # "none" => FirstFailure(checks) = checks[1]
  BY <1>1, FirstFailureOf
<1>4. checks \in Checklist /\ FirstFailure(checks) # "usage" /\ (FirstFailure(checks) = "none" => condition)
  BY <1>1, <1>2, <1>3
<1> QED
  BY <1>4 DEF checks

\* Where a step leads that goes on, in terms of the next state.
LEMMA NextPlace ==
  ASSUME IInv, Started, Go, cmd' = cmd
  PROVE  todo' = Tail(todo) /\ (todo' # <<>> => Head(todo') = Head(Tail(todo)))
BY GoPlace DEF IInv

LEMMA ReadInputKeeps ==
  ASSUME IInv, ReadInput
  PROVE  IInv'
<1> DEFINE checks == <<Ensure(files.input # Missing, "failed")>>
<1>1. Takes("read_input", checks, "document", files.input) /\ UNCHANGED <<output, token, world, cmd>>
  BY DEF ReadInput
<1>2. checks \in Checklist /\ FirstFailure(checks) # "usage"
      /\ (FirstFailure(checks) = "none" => files.input # Missing)
  BY SingleCheck
<1> HIDE DEF checks
<1>3. ASSUME FirstFailure(checks) = "none", Go, held' = [held EXCEPT !["document"] = files.input]
      PROVE  HeldInv'
  <2>1. todo # <<>> /\ Head(todo) = "read_input" /\ Started /\ PlaceInv
    BY <1>1, ParsePlace DEF Takes, Doing, IInv
  <2>2. cmd' = cmd /\ files' = files /\ seen' = seen
    BY <1>1 DEF world, around
  <2>3. todo' # <<>> => Head(todo') \in {"read_cert", "ccid_sign"} /\ (cmd.name = "sign" => Head(todo') = "read_cert")
    <3>1. cmd.name \in {"sign", "ccid-sign-raw"}
      BY <2>1, ReadingPlace, BridgePlace
    <3> QED
      BY <1>3, <2>1, <2>2, <3>1, NextPlace, SignPlace, ReadingPlace
  <2>4. held'.document = files.input /\ files.input \in seen \cap Document
    BY <1>2, <1>3 DEF IInv, TypeInv, HeldInv, HeldNames
  <2> QED
    BY <2>2, <2>3, <2>4 DEF IInv, HeldInv, Before
<1> QED
  BY <1>1, <1>2, <1>3, TakesKeeps DEF StepNames, HeldNames

LEMMA ReadCertKeeps ==
  ASSUME IInv, ReadCert
  PROVE  IInv'
<1> DEFINE checks == <<Ensure(files.cert # Missing, "failed")>>
<1>1. Takes("read_cert", checks, "certificate", files.cert) /\ UNCHANGED <<output, token, world, cmd>>
  BY DEF ReadCert
<1>2. checks \in Checklist /\ FirstFailure(checks) # "usage"
  BY SingleCheck
<1> HIDE DEF checks
<1>3. ASSUME Go, held' = [held EXCEPT !["certificate"] = files.cert]
      PROVE  HeldInv'
  <2>1. todo # <<>> /\ Head(todo) = "read_cert" /\ Started /\ PlaceInv
    BY <1>1, ParsePlace DEF Takes, Doing, IInv
  <2>2. cmd' = cmd /\ files' = files /\ seen' = seen
    BY <1>1 DEF world, around
  <2>3. todo' # <<>> => Head(todo') \in {"attributes", "parse_cert"}
    <3>1. cmd.name \in {"sign", "gosuslugi-bridge"}
      BY <2>1, ReadingPlace, BridgePlace
    <3> QED
      BY <1>3, <2>1, <2>2, <3>1, NextPlace, SignPlace, BridgePlace
  <2>4. held'.document = held.document
    BY <1>3 DEF IInv, TypeInv, HeldNames
  <2> QED
    BY <2>1, <2>2, <2>3, <2>4 DEF IInv, HeldInv, Before
<1> QED
  BY <1>1, <1>2, <1>3, TakesKeeps DEF StepNames, HeldNames

LEMMA ChainKeeps ==
  ASSUME IInv, load_client_cert_chain
  PROVE  IInv'
<1> DEFINE checks == <<Ensure(files.cert # Missing /\ files.cert.form # "badpem", "failed")>>
<1>1. Takes("chain", checks, "certificate", files.cert) /\ UNCHANGED <<output, token, world, cmd>>
  BY DEF load_client_cert_chain
<1>2. checks \in Checklist /\ FirstFailure(checks) # "usage"
  BY SingleCheck
<1> HIDE DEF checks
<1>3. ASSUME Go
      PROVE  HeldInv'
  <2>1. todo # <<>> /\ Head(todo) = "chain" /\ Started /\ PlaceInv
    BY <1>1, ParsePlace DEF Takes, Doing, IInv
  <2>2. cmd' = cmd /\ files' = files /\ seen' = seen
    BY <1>1 DEF world, around
  <2>3. cmd.name \in {"gost-login", "gost-bridge"}
    BY <2>1, SignPlace, ReadingPlace, BridgePlace
  <2>4. todo' # <<>> => Head(todo') = "elsewhere"
    BY <1>3, <2>1, <2>2, <2>3, NextPlace, BridgePlace
  <2> QED
    BY <2>2, <2>3, <2>4 DEF IInv, HeldInv, Before
<1> QED
  BY <1>1, <1>2, <1>3, TakesKeeps DEF StepNames, HeldNames

LEMMA ParseCertKeeps ==
  ASSUME IInv, ParseCert
  PROVE  IInv'
<1> DEFINE checks == <<Ensure(held.certificate.form = "der", "failed")>>
<1>1. Takes("parse_cert", checks, "certificate", held.certificate) /\ UNCHANGED <<output, token, world, cmd>>
  BY DEF ParseCert
<1>2. checks \in Checklist /\ FirstFailure(checks) # "usage"
      /\ (FirstFailure(checks) = "none" => held.certificate.form = "der")
  BY SingleCheck
<1> HIDE DEF checks
<1>3. ASSUME FirstFailure(checks) = "none", Go, held' = [held EXCEPT !["certificate"] = held.certificate]
      PROVE  HeldInv'
  <2>1. todo # <<>> /\ Head(todo) = "parse_cert" /\ Started /\ PlaceInv
    BY <1>1, ParsePlace DEF Takes, Doing, IInv
  <2>2. cmd' = cmd /\ files' = files /\ seen' = seen
    BY <1>1 DEF world, around
  <2>3. cmd.name # "sign"
    BY <2>1, SignPlace
  <2>4. held'.certificate.form = "der"
    BY <1>2, <1>3 DEF IInv, TypeInv, HeldNames
  <2> QED
    BY <2>2, <2>3, <2>4 DEF IInv, HeldInv, Before
<1> QED
  BY <1>1, <1>2, <1>3, TakesKeeps DEF StepNames, HeldNames

LEMMA ReadRecordKeeps ==
  ASSUME IInv, ReadRecord
  PROVE  IInv'
<1> DEFINE checks == <<Ensure(files.cert # Missing /\ files.cert.form \in {"record", "bare"}, "failed")>>
           value == IF files.cert.form = "bare" THEN Nothing ELSE [files.cert EXCEPT !.form = "der"]
<1>1. Takes("read_record", checks, "certificate", value) /\ UNCHANGED <<output, token, world, cmd>>
  BY DEF ReadRecord
<1>2. checks \in Checklist /\ FirstFailure(checks) # "usage"
      /\ (FirstFailure(checks) = "none" => files.cert # Missing)
  BY SingleCheck
<1>3. files.cert # Missing => value = Nothing \/ value.form = "der"
  BY FileAssumption DEF IInv, TypeInv
<1> HIDE DEF checks, value
<1>4. ASSUME FirstFailure(checks) = "none", Go, held' = [held EXCEPT !["certificate"] = value]
      PROVE  HeldInv'
  <2>1. todo # <<>> /\ Head(todo) = "read_record" /\ Started /\ PlaceInv
    BY <1>1, ParsePlace DEF Takes, Doing, IInv
  <2>2. cmd' = cmd /\ files' = files /\ seen' = seen
    BY <1>1 DEF world, around
  <2>3. cmd.name # "sign"
    BY <2>1, SignPlace
  <2>4. held'.certificate = Nothing \/ held'.certificate.form = "der"
    BY <1>2, <1>3, <1>4 DEF IInv, TypeInv, HeldNames
  <2> QED
    BY <2>2, <2>3, <2>4 DEF IInv, HeldInv, Before
<1> QED
  BY <1>1, <1>2, <1>4, TakesKeeps DEF StepNames, HeldNames

\* The next step of a command that signs: only the local variable of this one has changed.
LEMMA LoadKeeps ==
  ASSUME IInv, Load
  PROVE  IInv'
<1> DEFINE checks == <<Ensure(files.module # Missing, "failed"), Ensure(KeyUriSelector, "usage")>>
<1>1. Takes("load", checks, "signature", Nothing) /\ UNCHANGED <<output, token, world, cmd>>
  BY DEF Load
<1>2. checks \in Checklist
  BY DEF Checklist, Ensure
<1> HIDE DEF checks
<1>3. todo # <<>> /\ Head(todo) = "load" /\ Started /\ PlaceInv
  BY <1>1, ParsePlace DEF Takes, Doing, IInv
<1>4. presented = <<>>
  BY <1>3 DEF IInv, TokenInv, Before, Early
<1>5. ASSUME Go, held' = [held EXCEPT !["signature"] = Nothing]
      PROVE  HeldInv'
  <2>1. cmd' = cmd /\ files' = files /\ seen' = seen
    BY <1>1 DEF world, around
  <2>2. cmd.name = "sign"
    BY <1>3, ReadingPlace, BridgePlace
  <2>3. todo' # <<>> => Head(todo') = "select"
    BY <1>3, <1>5, <2>1, <2>2, NextPlace, SignPlace
  <2>4. held'.document = held.document /\ held'.attributes = held.attributes
    BY <1>5 DEF IInv, TypeInv, HeldNames
  <2>5. held.document \in seen \cap Document /\ held.attributes = prepare_signed_attributes(held.document)
    BY <1>3, <2>2 DEF IInv, HeldInv, Before
  <2>6. digest' = digest
    BY <2>1, SameCommand
  <2> QED
    BY <2>1, <2>3, <2>4, <2>5, <2>6 DEF IInv, HeldInv, Before, prepare_signed_attributes
<1> QED
  BY <1>1, <1>2, <1>4, <1>5, TakesKeeps DEF StepNames, HeldNames

\* The second check of Build is one validate has made.
LEMMA BuildKeeps ==
  ASSUME IInv, Build
  PROVE  IInv'
<1> DEFINE checks == <<Ensure(held.certificate.form = "der", "failed"),
                       Ensure(Compatible(key_algorithm, digest), "usage")>>
           value == build_signed_data(held.document, held.certificate, held.attributes, held.signature,
                                      ~Has("embed-content"))
<1>1. Takes("build", checks, "result", value) /\ UNCHANGED <<output, token, world, cmd>>
  BY DEF Build
<1>2. todo # <<>> /\ Head(todo) = "build" /\ Started /\ PlaceInv
  BY <1>1, ParsePlace DEF Takes, Doing, IInv
<1>3. cmd.name = "sign"
  BY <1>2, ReadingPlace, BridgePlace
<1>4. Compatible(key_algorithm, digest)
  BY <1>2, <1>3 DEF PlaceInv, Accepted, Started
<1>5. /\ checks \in Checklist /\ Len(checks) = 2
      /\ checks[1] # "usage" /\ (checks[1] = "none" => held.certificate.form = "der")
      /\ checks[2] = "none"
  BY <1>4 DEF Checklist, Ensure
<1> HIDE DEF checks
<1>6. 1 \in 1 .. 2
  OBVIOUS
<1>7. FirstFailure(checks) = "none" => held.certificate.form = "der"
  BY <1>5, <1>6, FirstFailureOf
<1>8. FirstFailure(checks) # "usage"
  <2>1. \A i \in 1 .. 2 : checks[i] # "usage"
    BY <1>5
  <2> QED
    BY <1>5, <2>1, FirstFailureOf
<1>9. cmd' = cmd /\ files' = files /\ seen' = seen
  BY <1>1 DEF world, around
<1>10. digest' = digest /\ key_algorithm' = key_algorithm /\ key_uri' = key_uri /\ given' = given
  BY <1>9, SameCommand
<1>11. /\ held.document \in seen \cap Document /\ held.attributes = prepare_signed_attributes(held.document)
       /\ Fits(held.signature, held.attributes)
  BY <1>2, <1>3 DEF IInv, HeldInv, Before
<1>12. ASSUME FirstFailure(checks) = "none", Go, held' = [held EXCEPT !["result"] = value]
       PROVE  HeldInv'
  <2>1. todo' # <<>> => Head(todo') = "write"
    BY <1>2, <1>3, <1>9, <1>12, NextPlace, SignPlace
  <2>2. /\ held'.document = held.document /\ held'.attributes = held.attributes /\ held'.signature = held.signature
        /\ held'.certificate = held.certificate /\ held'.result = value
    BY <1>12 DEF IInv, TypeInv, HeldNames
  <2>3. Fits(held.signature, held.attributes)' /\ held'.attributes = prepare_signed_attributes(held.document)'
    BY <1>10, <1>11, <2>2 DEF Fits, private_key_template, Required, prepare_signed_attributes
  <2>4. held'.result = build_signed_data(held.document, held.certificate, held.attributes, held.signature,
                                         ~Has("embed-content"))'
    BY <1>10, <2>2 DEF build_signed_data, Has
  <2> QED
    BY <1>7, <1>9, <1>11, <1>12, <2>1, <2>2, <2>3, <2>4 DEF IInv, HeldInv, Before
<1> HIDE DEF value
<1> QED
  BY <1>1, <1>5, <1>8, <1>12, TakesKeeps DEF StepNames, HeldNames

\* The first step: an invocation that is refused has done nothing, one that is accepted is before its first step.
LEMMA ParseKeeps ==
  ASSUME IInv, run_cli
  PROVE  IInv'
<1> DEFINE error == IF FirstFailure(parse) = "none" THEN FirstFailure(validate) ELSE FirstFailure(parse)
<1>1. /\ todo # <<>> /\ Head(todo) = "parse"
      /\ IF error = "none" THEN todo' = steps /\ UNCHANGED exit ELSE Stop(error)
      /\ UNCHANGED <<held, output, token, world, cmd>>
  BY DEF run_cli, Doing
<1>2. presented = <<>> /\ output = Old
  BY <1>1 DEF IInv, TokenInv, OutputInv, Before, Early
<1>3. error \in {"none", "usage", "failed"} /\ (error = "none" => Accepted)
  BY AcceptedOptions
<1> HIDE DEF error
<1>4. CASE error # "none"
  BY <1>1, <1>2, <1>3, <1>4, StopKeeps
<1>5. CASE error = "none"
  <2>1. /\ cmd' = cmd /\ held' = held /\ output' = output /\ files' = files /\ ports' = ports /\ seen' = seen
        /\ troubles' = troubles /\ session' = session /\ tries' = tries /\ presented' = presented
        /\ served' = served /\ swapped' = swapped /\ todo' = steps /\ exit' = exit
    BY <1>1, <1>5 DEF token, world, around
  <2>2. /\ given' = given /\ digest' = digest /\ key_algorithm' = key_algorithm /\ key_uri' = key_uri
        /\ dry_run' = dry_run /\ Writes' = Writes /\ PinKnown' = PinKnown /\ steps' = steps /\ Accepted' = Accepted
    BY <2>1, SameCommand
  <2>3. exit = "running"
    BY <1>1 DEF IInv, PlaceInv
  <2>4. steps = SubSeq(steps, 1, Len(steps)) /\ 1 \in 1 .. Len(steps) /\ steps # <<>> /\ Head(steps) = steps[1]
    <3>1. steps \in Seq(StepNames) /\ Len(steps) \in Nat /\ Len(steps) # 0
      BY StepsAreSteps
    <3>2. steps = SubSeq(steps, 1, Len(steps))
      BY <3>1, SubSeqFull
    <3>3. steps # <<>> /\ Head(steps) = steps[1]
      BY <3>1, EmptyByLength, Zenon
    <3> QED
      BY <3>1, <3>2, <3>3
  <2>5. PlaceInv'
    BY <1>3, <1>5, <2>1, <2>2, <2>3, <2>4 DEF PlaceInv
  <2>6. cmd.name = "sign" => Head(todo') = "read_input"
    <3>1. cmd.name = "sign" => steps[1] = "read_input"
      BY StepsOfSign
    <3> QED
      BY <2>1, <2>4, <3>1
  <2>7. Head(todo') \notin {"serve", "open"}
    <3>1. CASE cmd.name = "gosuslugi-bridge"
      <4>1. steps[1] \in {"read_cert", "read_record", "token_cert"}
        BY <3>1, StepsOfBridges
      <4> QED
        BY <2>1, <2>4, <4>1
    <3>2. CASE cmd.name \in {"sign", "ccid-sign-raw", "ccid-read-cert", "ccid-apdu"}
      <4>1. steps[1] \in {"read_input", "token_cert", "apdu_pin"}
        BY <3>2, StepsOfSign, StepsOfReading
      <4> QED
        BY <2>1, <2>4, <4>1
    <3>3. CASE cmd.name \notin {"sign", "ccid-sign-raw", "ccid-read-cert", "ccid-apdu", "gosuslugi-bridge"}
      <4>1. steps[1] \in {"chain", "token_cert", "elsewhere"}
        BY <3>3, StepsOfBridges
      <4> QED
        BY <2>1, <2>4, <4>1
    <3> QED
      BY <3>1, <3>2, <3>3
  <2>8. TypeInv'
    BY <2>1 DEF IInv, TypeInv
  <2>9. HeldInv'
    BY <2>1, <2>6, <2>7 DEF IInv, HeldInv, Before
  <2>10. TokenInv'
    <3>1. presented' = <<>> /\ ~Before({"open"})'
      BY <1>2, <2>1, <2>7 DEF Before
    <3>2. SlotInv' /\ PinToNamedToken'
      BY <2>1, <3>1, TokensSame
    <3> QED
      BY <2>1, <2>2, <3>1, <3>2 DEF IInv, TokenInv
  <2>11. SignedAsAsked' /\ OutputWhole'
    BY <1>2, <2>1, <2>3 DEF Old, Cut, SignedAsAsked, OutputWhole
  <2>12. RefusedUntouched'
    BY <1>2, <2>1 DEF RefusedUntouched
  <2> QED
    BY <1>2, <2>1, <2>5, <2>6, <2>8, <2>9, <2>10, <2>11, <2>12 DEF IInv, OutputInv
<1> QED
  BY <1>4, <1>5

\* Before the token is asked, a dry run ends.
LEMMA AttributesKeeps ==
  ASSUME IInv, Attributes
  PROVE  IInv'
<1>1. /\ todo # <<>> /\ Head(todo) = "attributes"
      /\ IF held.certificate.form = "empty" THEN Stop("failed") /\ UNCHANGED held
         ELSE /\ held' = [held EXCEPT !.attributes = prepare_signed_attributes(held.document)]
              /\ IF dry_run THEN Stop("ok") ELSE Go
      /\ UNCHANGED <<output, token, world, cmd>>
  BY DEF Attributes, Doing
<1>2. Started /\ PlaceInv /\ output = Old /\ presented = <<>>
  BY <1>1, ParsePlace DEF IInv, OutputInv, TokenInv, Before, Early
<1>3. cmd.name = "sign"
  BY <1>1, <1>2, ReadingPlace, BridgePlace
<1>4. CASE held.certificate.form = "empty"
  BY <1>1, <1>4, StopKeeps
<1>5. CASE held.certificate.form # "empty"
  <2>1. /\ cmd' = cmd /\ output' = output /\ files' = files /\ ports' = ports /\ seen' = seen
        /\ troubles' = troubles /\ session' = session /\ tries' = tries /\ presented' = presented
        /\ served' = served /\ swapped' = swapped
    BY <1>1 DEF token, world, around
  <2>2. /\ given' = given /\ digest' = digest /\ key_algorithm' = key_algorithm /\ key_uri' = key_uri
        /\ dry_run' = dry_run /\ Writes' = Writes
    BY <2>1, SameCommand
  <2>3. /\ DOMAIN held' = HeldNames /\ held'.document = held.document
        /\ held'.attributes = prepare_signed_attributes(held.document)
    BY <1>1, <1>5 DEF IInv, TypeInv, HeldNames
  <2>4. CASE ~dry_run
    <3>1. Go
      BY <1>1, <1>5, <2>4
    <3>2. todo' # <<>> => Head(todo') \in {"ccid_sign", "load"}
      BY <1>1, <1>2, <1>3, <2>1, <3>1, NextPlace, SignPlace
    <3>3. held.document \in seen \cap Document
      BY <1>1, <1>3 DEF IInv, HeldInv, Before
    <3>4. HeldInv'
      BY <2>1, <2>2, <2>3, <3>2, <3>3 DEF IInv, HeldInv, Before, prepare_signed_attributes
    <3> QED
      BY <1>1, <1>2, <2>3, <2>4, <3>1, <3>4, GoKeeps
  <2>5. CASE dry_run
    <3>1. todo' = <<>> /\ exit' = "ok"
      BY <1>1, <1>5, <2>5 DEF Stop
    <3>2. TypeInv' /\ PlaceInv' /\ HeldInv'
      BY <2>1, <2>3, <3>1 DEF IInv, TypeInv, PlaceInv, HeldInv, Before
    <3>3. TokenInv'
      BY <2>1, <2>2, <3>1, TokensSame DEF IInv, TokenInv, Before
    <3>4. SignedAsAsked' /\ OutputWhole'
      BY <1>2, <2>1, <2>2, <2>5, <3>1 DEF Old, Cut, SignedAsAsked, OutputWhole
    <3> QED
      BY <1>2, <2>1, <3>1, <3>2, <3>3, <3>4 DEF IInv, OutputInv, RefusedUntouched
  <2> QED
    BY <2>4, <2>5
<1> QED
  BY <1>4, <1>5

\* The last step: the output is the result, or what it was, or cut.
LEMMA WriteKeeps ==
  ASSUME IInv, Write
  PROVE  IInv'
<1>1. /\ todo # <<>> /\ Head(todo) = "write"
      /\ \/ output' = Result /\ Go
         \/ output' \in {output, Cut} /\ Stop("failed")
      /\ UNCHANGED <<held, token, world, cmd>>
  BY DEF Write, Doing
<1>2. /\ cmd' = cmd /\ held' = held /\ files' = files /\ ports' = ports /\ seen' = seen
      /\ troubles' = troubles /\ session' = session /\ tries' = tries /\ presented' = presented
      /\ served' = served /\ swapped' = swapped
  BY <1>1 DEF token, world, around
<1>3. /\ given' = given /\ digest' = digest /\ key_algorithm' = key_algorithm /\ key_uri' = key_uri
      /\ dry_run' = dry_run /\ Writes' = Writes
  BY <1>2, SameCommand
<1>4. Started /\ PlaceInv
  BY <1>1, ParsePlace DEF IInv
<1>5. Writes /\ Tail(todo) = <<>>
  BY <1>1, <1>4, StepOrder
<1>6. output = Old
  BY <1>1 DEF IInv, OutputInv
<1>7. ~(cmd.name = "sign" /\ dry_run)
  BY <1>1 DEF IInv, OutputInv
<1>8. todo' = <<>> /\ exit' \in {"ok", "failed"} /\ PlaceInv'
  BY <1>1, <1>4, <1>5 DEF Go, Stop, PlaceInv
<1>9. TypeInv' /\ HeldInv'
  BY <1>2, <1>8 DEF IInv, TypeInv, HeldInv, Before
<1>10. TokenInv'
  BY <1>2, <1>3, <1>8, TokensSame DEF IInv, TokenInv, Before
<1>11. RefusedUntouched'
  BY <1>2, <1>3, <1>7, <1>8 DEF RefusedUntouched
<1>12. SignedAsAsked' /\ OutputWhole'
  <2>1. CASE output' \in {output, Cut} /\ Stop("failed")
    <3>1. exit' = "failed"
      BY <2>1 DEF Stop
    <3> QED
      BY <1>6, <2>1, <3>1 DEF Old, Cut, SignedAsAsked, OutputWhole
  <2>2. CASE output' = Result /\ Go
    <3>1. exit' = "ok"
      BY <1>5, <2>2 DEF Go
    <3>2. ~dry_run
      <4>1. DOMAIN given \subseteq Command.takes
        BY <1>4 DEF PlaceInv, Started, Accepted
      <4>2. CASE cmd.name = "ccid-sign-raw"
        <5>1. Command = CcidRawSignCommand
          BY <4>2 DEF Command
        <5>2. "dry-run" \notin CcidRawSignCommand.takes
          BY DEF CcidRawSignCommand, GostOptions, TokenOptions
        <5> QED
          BY <4>1, <5>1, <5>2 DEF dry_run, Has
      <4>3. CASE cmd.name = "ccid-read-cert"
        <5>1. Command = CcidReadCertCommand
          BY <4>3 DEF Command
        <5>2. "dry-run" \notin CcidReadCertCommand.takes
          BY DEF CcidReadCertCommand, TokenOptions
        <5> QED
          BY <4>1, <5>1, <5>2 DEF dry_run, Has
      <4> QED
        BY <1>5, <1>7, <4>2, <4>3 DEF Writes
    <3>3. Result' = Result
      BY <1>2 DEF Result
    <3>4. CASE cmd.name = "sign"
      <4>1. /\ held.certificate.form = "der" /\ Fits(held.signature, held.attributes)
            /\ held.document \in seen \cap Document
            /\ held.attributes = prepare_signed_attributes(held.document)
            /\ held.result = build_signed_data(held.document, held.certificate, held.attributes, held.signature,
                                               ~Has("embed-content"))
        BY <1>1, <3>4 DEF IInv, HeldInv, Before
      <4>2. output' = held.result
        BY <2>2, <3>4 DEF Result
      <4>3. output'.kind = "cms"
        BY <4>1, <4>2 DEF build_signed_data
      <4>4. OutputWhole'
        BY <1>3, <2>2, <3>1, <3>2, <3>3, <4>3 DEF OutputWhole, Old, Cut
      <4>5. /\ output'.signature = held.signature /\ output'.attributes = held.attributes /\ output'.digest = digest
            /\ output'.oid = signature_oid(key_algorithm, digest) /\ output'.certificate = held.certificate
            /\ output'.content = IF Has("embed-content") THEN held.document ELSE Nothing
        BY <4>1, <4>2 DEF build_signed_data
      <4>6. held.attributes.messageDigest = compute_digest(digest, held.document) /\ held.document # Nothing
        BY <4>1, FileAssumption DEF prepare_signed_attributes
      <4>7. SignedAsAsked'
        BY <1>2, <1>3, <3>4, <4>1, <4>5, <4>6 DEF SignedAsAsked, Fits, Has, private_key_template
      <4> QED
        BY <4>4, <4>7
    <3>5. CASE cmd.name # "sign"
      <4>1. output'.kind \in {"raw", "certificate"}
        BY <1>5, <2>2, <3>5 DEF Result, Writes
      <4> QED
        BY <1>3, <2>2, <3>1, <3>2, <3>3, <4>1 DEF OutputWhole, SignedAsAsked, Old, Cut
    <3> QED
      BY <3>4, <3>5
  <2> QED
    BY <1>1, <2>1, <2>2
<1> QED
  BY <1>2, <1>3, <1>7, <1>8, <1>9, <1>10, <1>11, <1>12 DEF IInv, OutputInv

LEMMA ApdusKeeps ==
  ASSUME IInv, Apdus
  PROVE  IInv'
<1>1. /\ todo # <<>> /\ Head(todo) = "apdus" /\ (Go \/ Stop("failed"))
      /\ UNCHANGED <<held, output, token, world, cmd>>
  BY DEF Apdus, Doing
<1>2. Started /\ PlaceInv
  BY <1>1, ParsePlace DEF IInv
<1>3. CASE Go
  <2>1. cmd' = cmd /\ files' = files /\ seen' = seen /\ held' = held
    BY <1>1 DEF world, around
  <2>2. cmd.name = "ccid-apdu"
    BY <1>1, <1>2, SignPlace, ReadingPlace, BridgePlace
  <2>3. todo' = <<>>
    BY <1>1, <1>2, <1>3, <2>2, ReadingPlace DEF Go
  <2>4. HeldInv'
    BY <2>1, <2>3 DEF IInv, HeldInv, Before
  <2>5. DOMAIN held' = HeldNames
    BY <2>1 DEF IInv, TypeInv
  <2> QED
    BY <1>1, <1>2, <1>3, <2>4, <2>5, GoKeeps
<1>4. CASE Stop("failed")
  BY <1>1, <1>4, StopKeeps
<1> QED
  BY <1>1, <1>3, <1>4

LEMMA CallFailsKeeps ==
  ASSUME IInv, CallFails
  PROVE  IInv'
BY StopKeeps DEF CallFails

-----------------------------------------------------------------------------
(* Tokens *)

\* A token that looks at the PIN is one more in presented; its tries stay within bounds.
LEMMA ChecksCounts ==
  ASSUME TypeInv, NEW t \in DOMAIN Token \cup {Empty}, Checks(t)
  PROVE  /\ tries' \in [DOMAIN Token -> 0 .. MaxTries]
         /\ presented' \in Seq(DOMAIN Token \cup {Empty})
         /\ Len(presented') = Len(presented) + 1
         /\ \A i \in DOMAIN presented' : (i \in DOMAIN presented /\ presented'[i] = presented[i]) \/ presented'[i] = t
<1>1. /\ tries \in [DOMAIN Token -> 0 .. MaxTries] /\ MaxTries \in Nat
      /\ presented \in Seq(DOMAIN Token \cup {Empty})
  BY BoundAssumption DEF TypeInv
<1>2. presented' = Append(presented, t)
      /\ tries' = [tries EXCEPT ![t] = IF Unblocked(t) THEN MaxTries ELSE IF tries[t] = 0 THEN 0 ELSE tries[t] - 1]
  BY DEF Checks
<1>3. t \in DOMAIN Token =>
        (IF Unblocked(t) THEN MaxTries ELSE IF tries[t] = 0 THEN 0 ELSE tries[t] - 1) \in 0 .. MaxTries
  BY <1>1
<1>4. tries' \in [DOMAIN Token -> 0 .. MaxTries]
  BY <1>1, <1>2, <1>3
<1>5. /\ presented' \in Seq(DOMAIN Token \cup {Empty})
      /\ Len(presented') = Len(presented) + 1
      /\ \A i \in DOMAIN presented' : (i \in DOMAIN presented /\ presented'[i] = presented[i]) \/ presented'[i] = t
  BY <1>1, <1>2, AppendProperties
<1> QED
  BY <1>4, <1>5

\* The first token that is plugged in is a token.
LEMMA FirstTokenIs ==
  ASSUME TypeInv, Plugged # {}
  PROVE  FirstToken \in DOMAIN Token
<1>1. Plugged \in SUBSET DOMAIN ports /\ ports \in Ports
  BY DEF Plugged, TypeInv
<1>2. Min(Plugged) \in Plugged /\ ports[Min(Plugged)] \in DOMAIN Token \cup {Empty}
  BY <1>1, FirstTokenIn
<1> QED
  BY <1>2 DEF FirstToken, Plugged

\* A call over CCID shows the PIN once at most, and only if there is one to show.
LEMMA CcidCallCounts ==
  ASSUME TypeInv, NEW ok \in BOOLEAN, CcidCall(ok)
  PROVE  /\ session' = session
         /\ tries' \in [DOMAIN Token -> 0 .. MaxTries]
         /\ presented' \in Seq(DOMAIN Token \cup {Empty})
         /\ Len(presented') <= Len(presented) + 1
         /\ ok => Plugged # {} /\ FirstToken \in DOMAIN Token
<1>1. CASE UNCHANGED <<tries, presented>>
  <2>1. tries' = tries /\ presented' = presented /\ Len(presented) \in Nat
    BY <1>1 DEF TypeInv
  <2> QED
    BY <2>1, FirstTokenIs DEF TypeInv, CcidCall
<1>2. CASE Plugged # {} /\ Checks(FirstToken)
  BY <1>2, FirstTokenIs, ChecksCounts DEF CcidCall
<1> QED
  BY <1>1, <1>2 DEF CcidCall

\* A step of the token that the invariant of the tokens survives keeps the rest: nothing is written.
LEMMA TokenStepKeeps ==
  ASSUME IInv, Started, Go \/ Stop("failed"), UNCHANGED <<output, world, cmd>>,
         Head(todo) \in {"open", "login", "ccid_sign", "token_cert", "apdu_pin"},
         session' # Empty => \E i \in DOMAIN ports : ports[i] = session',
         tries' \in [DOMAIN Token -> 0 .. MaxTries], presented' \in Seq(DOMAIN Token \cup {Empty}),
         DOMAIN held' = HeldNames, HeldInv', TokenInv'
  PROVE  IInv'
<1>1. cmd' = cmd /\ output' = output /\ files' = files /\ ports' = ports /\ seen' = seen /\ troubles' = troubles
      /\ served' = served /\ swapped' = swapped
  BY DEF world, around
<1>2. dry_run' = dry_run /\ Writes' = Writes
  BY <1>1, SameCommand
<1>3. PlaceInv /\ todo # <<>>
  BY DEF IInv, Started
<1>4. PlaceInv' /\ exit' \in {"running", "ok", "failed"} /\ (exit' = "ok" => ~Writes)
  <2>1. CASE Go
    BY <1>1, <1>3, <2>1, GoPlace, StepOrder
  <2>2. CASE Stop("failed")
    BY <2>2 DEF Stop, PlaceInv
  <2> QED
    BY <2>1, <2>2
<1>5. TypeInv'
  BY <1>1, <1>4 DEF IInv, TypeInv
<1>6. output' = Old /\ ~(cmd.name = "sign" /\ dry_run)
  BY <1>1, <1>3 DEF IInv, OutputInv
<1>7. SignedAsAsked' /\ OutputWhole' /\ RefusedUntouched'
  BY <1>1, <1>2, <1>4, <1>6 DEF Old, Cut, SignedAsAsked, OutputWhole, RefusedUntouched
<1> QED
  BY <1>1, <1>2, <1>4, <1>5, <1>6, <1>7 DEF IInv, OutputInv

\* A command that asks a token before it serves may show it the PIN once: it has no other certificate.
LEMMA OneIsDue ==
  ASSUME TypeInv, PlaceInv, Started, Head(todo) \in {"login", "ccid_sign", "token_cert", "apdu_pin"}
  PROVE  1 <= PinsDue
<1>1. DOMAIN given \subseteq Command.takes /\ served \in Nat
  BY BoundAssumption DEF TypeInv, PlaceInv, Started, Accepted
<1>2. CASE cmd.name = "gosuslugi-bridge"
  <2>1. Head(todo) = "token_cert"
    BY <1>2, BridgePlace
  <2>2. ~Has("cert") /\ ~Has("cert-record")
    BY <1>2, <2>1, TokenCertPlace
  <2>3. "client-cert" \notin Command.takes
    BY <1>2 DEF Command, GosuslugiBridgeCommand, GostOptions, TokenOptions
  <2> QED
    BY <1>1, <2>2, <2>3 DEF PinsDue, CertificateFromToken, Has
<1>3. CASE cmd.name \in {"gost-login", "gost-bridge"}
  <2>1. Head(todo) = "token_cert"
    BY <1>3, BridgePlace
  <2>2. ~Has("client-cert")
    BY <1>3, <2>1, TokenCertPlace
  <2>3. "cert" \notin Command.takes /\ "cert-record" \notin Command.takes
    BY <1>3 DEF Command, GostLoginCommand, GostBridgeCommand, TokenOptions
  <2> QED
    BY <1>1, <2>2, <2>3 DEF PinsDue, CertificateFromToken, Has
<1>4. CASE cmd.name \notin {"gosuslugi-bridge", "gost-login", "gost-bridge"}
  BY <1>4 DEF PinsDue
<1> QED
  BY <1>2, <1>3, <1>4

\* Before it serves, a command shows the PIN in one step only.
LEMMA OnceShown ==
  ASSUME IInv, Started, Go \/ Stop("failed"), UNCHANGED <<cmd, session, served, swapped>>,
         Head(todo) \in {"login", "ccid_sign", "token_cert", "apdu_pin"}, Head(todo) = "token_cert" => PinKnown,
         presented' \in Seq(DOMAIN Token \cup {Empty}), Len(presented') <= Len(presented) + 1,
         NamedByLabel /\ ~swapped => \A i \in DOMAIN presented' : Token[presented'[i]].label = key_uri.token
  PROVE  TokenInv'
<1>1. dry_run' = dry_run /\ key_uri' = key_uri /\ PinKnown' = PinKnown /\ NamedByLabel' = NamedByLabel
      /\ CertificateFromToken' = CertificateFromToken
  BY SameCommand
<1>2. PlaceInv /\ TypeInv /\ todo # <<>> /\ presented = <<>>
  BY DEF IInv, Started, TokenInv, Before, Early
<1>3. Len(presented') <= PinsDue'
  <2>1. Len(presented) = 0 /\ Len(presented') \in Nat
    BY <1>2
  <2>2. PinsDue' = PinsDue
    BY <1>1 DEF PinsDue
  <2>3. PinsDue \in Nat
    BY <1>2, BoundAssumption DEF PinsDue, TypeInv
  <2> QED
    BY <1>2, <2>1, <2>2, <2>3, OneIsDue
<1>4. todo' # <<>> => /\ Head(todo') \in {"c_sign", "build", "write", "parse_cert", "elsewhere", "apdus"}
                      /\ Head(todo') = "elsewhere" => Head(todo) = "token_cert"
  <2>1. CASE Stop("failed")
    BY <2>1 DEF Stop
  <2>2. CASE Go
    <3>1. todo' # <<>> => Head(todo') = Head(Tail(todo))
      BY <2>2, NextPlace
    <3>2. CASE cmd.name = "sign"
      BY <1>2, <3>1, <3>2, SignPlace
    <3>3. CASE cmd.name \in {"ccid-sign-raw", "ccid-read-cert", "ccid-apdu"}
      BY <1>2, <3>1, <3>3, ReadingPlace
    <3>4. CASE cmd.name \notin {"sign", "ccid-sign-raw", "ccid-read-cert", "ccid-apdu"}
      BY <1>2, <3>1, <3>4, BridgePlace
    <3> QED
      BY <3>2, <3>3, <3>4
  <2> QED
    BY <2>1, <2>2
<1>5. ~(cmd.name = "sign" /\ dry_run)
  BY <1>2 DEF IInv, OutputInv
<1>6. ~Before(Early)' /\ ~Before({"open"})'
  BY <1>4 DEF Before, Early
<1>7. Before({"elsewhere"})' /\ ~PinKnown' => presented' = <<>>
  BY <1>1, <1>4 DEF Before
<1>8. SlotInv'
  BY <1>1, <1>6 DEF IInv, TokenInv, SlotInv
<1>9. PinToNamedToken'
  BY <1>1, <1>3 DEF PinToNamedToken
<1> QED
  BY <1>1, <1>5, <1>6, <1>7, <1>8, <1>9 DEF TokenInv

\* The slot that is selected by its label holds a token of that label.
LEMMA SelectKeeps ==
  ASSUME IInv, Select
  PROVE  IInv'
<1> DEFINE checks == <<Ensure(select_slot # {}, "failed")>>
           slot == Min(select_slot)
<1>1. Takes("select", checks, "slot", slot) /\ UNCHANGED <<output, token, world, cmd>>
  BY DEF Select
<1>2. checks \in Checklist /\ FirstFailure(checks) # "usage"
      /\ (FirstFailure(checks) = "none" => select_slot # {})
  BY SingleCheck
<1>3. todo # <<>> /\ Head(todo) = "select" /\ Started /\ PlaceInv
  BY <1>1, ParsePlace DEF Takes, Doing, IInv
<1>4. cmd' = cmd /\ files' = files /\ seen' = seen /\ ports' = ports /\ session' = session /\ swapped' = swapped
  BY <1>1 DEF world, around, token
<1>5. digest' = digest /\ key_uri' = key_uri /\ NamedByLabel' = NamedByLabel
  BY <1>4, SameCommand
<1>6. ASSUME select_slot # {}, NamedByLabel
      PROVE  slot \in DOMAIN ports /\ Token[ports[slot]].label = key_uri.token
  <2>1. select_slot = {i \in Plugged : Token[ports[i]].label = key_uri.token}
    BY <1>6 DEF select_slot, NamedByLabel
  <2>2. select_slot \in SUBSET DOMAIN ports /\ ports \in Ports
    BY <2>1 DEF Plugged, IInv, TypeInv
  <2>3. slot \in select_slot
    BY <1>6, <2>2, FirstTokenIn
  <2> QED
    BY <2>1, <2>2, <2>3
<1> HIDE DEF checks, slot
<1>7. ASSUME FirstFailure(checks) = "none", Go, held' = [held EXCEPT !["slot"] = slot]
      PROVE  HeldInv' /\ SlotInv'
  <2>1. cmd.name = "sign"
    BY <1>3, ReadingPlace, BridgePlace
  <2>2. todo' # <<>> => Head(todo') = "open"
    BY <1>3, <1>4, <1>7, <2>1, NextPlace, SignPlace
  <2>3. held'.slot = slot /\ held'.document = held.document /\ held'.attributes = held.attributes
    BY <1>7 DEF IInv, TypeInv, HeldNames
  <2>4. HeldInv'
    BY <1>3, <1>4, <1>5, <2>2, <2>3 DEF IInv, HeldInv, Before, prepare_signed_attributes
  <2>5. NamedByLabel => TokenIn(ports', held'.slot) = ports[slot] /\ Token[ports[slot]].label = key_uri.token
    BY <1>2, <1>4, <1>6, <1>7, <2>3 DEF TokenIn
  <2>6. SlotInv'
    BY <1>4, <1>5, <2>5 DEF IInv, TokenInv, SlotInv
  <2> QED
    BY <2>4, <2>6
<1> QED
  BY <1>1, <1>2, <1>7, TakesKeeps DEF StepNames, HeldNames

LEMMA OpenKeeps ==
  ASSUME IInv, Open
  PROVE  IInv'
<1> DEFINE inside == TokenIn(ports, held.slot)
<1>1. /\ todo # <<>> /\ Head(todo) = "open"
      /\ IF inside # Empty THEN session' = inside /\ Go ELSE Stop("failed") /\ UNCHANGED session
      /\ UNCHANGED <<held, output, tries, presented, world, cmd>>
  BY DEF Open, Doing
<1>2. Started /\ PlaceInv /\ presented = <<>>
  BY <1>1, ParsePlace DEF IInv, TokenInv, Before, Early
<1>3. CASE inside # Empty
  <2>1. \E i \in DOMAIN ports : ports[i] = inside
    BY <1>3 DEF TokenIn
  <2>2. NamedByLabel /\ ~swapped => Token[inside].label = key_uri.token
    BY <1>1, <1>3 DEF IInv, TokenInv, SlotInv, Before
  <2> HIDE DEF inside
  <2>3. /\ session' = inside /\ Go /\ cmd' = cmd /\ held' = held /\ files' = files /\ seen' = seen
        /\ presented' = presented /\ tries' = tries /\ ports' = ports /\ served' = served /\ swapped' = swapped
    BY <1>1, <1>3 DEF world, around
  <2>4. /\ dry_run' = dry_run /\ key_uri' = key_uri /\ PinKnown' = PinKnown /\ digest' = digest
        /\ NamedByLabel' = NamedByLabel /\ CertificateFromToken' = CertificateFromToken
    BY <2>3, SameCommand
  <2>5. cmd.name = "sign"
    BY <1>1, <1>2, ReadingPlace, BridgePlace
  <2>6. todo' # <<>> => Head(todo') = "login"
    BY <1>1, <1>2, <2>3, <2>5, NextPlace, SignPlace
  <2>7. HeldInv'
    BY <1>1, <2>3, <2>4, <2>6 DEF IInv, HeldInv, Before, prepare_signed_attributes
  <2>8. SlotInv'
    BY <2>2, <2>3, <2>4, <2>6 DEF SlotInv, Before
  <2>9. PinToNamedToken'
    BY <2>3, <2>4 DEF IInv, TokenInv, PinToNamedToken, PinsDue
  <2>10. TokenInv'
    BY <1>2, <2>3, <2>4, <2>6, <2>8, <2>9 DEF IInv, TokenInv, Before
  <2> QED
    BY <1>1, <1>2, <2>1, <2>3, <2>7, <2>10, TokenStepKeeps DEF IInv, TypeInv
<1>4. CASE inside = Empty
  <2>1. Stop("failed") /\ UNCHANGED <<held, output, token, world, cmd>>
    BY <1>1, <1>4 DEF token
  <2> QED
    BY <1>1, <2>1, StopKeeps
<1> QED
  BY <1>3, <1>4

LEMMA LoginKeeps ==
  ASSUME IInv, Login
  PROVE  IInv'
<1>1. /\ todo # <<>> /\ Head(todo) = "login" /\ UNCHANGED <<held, output, session, world, cmd>>
      /\ \/ Stop("usage") /\ UNCHANGED <<tries, presented>>
         \/ Stop("failed") /\ UNCHANGED <<tries, presented>>
         \/ session # Empty /\ Checks(session) /\ (Go \/ Stop("failed"))
  BY DEF Login, Doing
<1>2. Started /\ PlaceInv /\ presented = <<>> /\ output = Old
  BY <1>1, ParsePlace DEF IInv, TokenInv, OutputInv, Before, Early
<1>3. CASE (Stop("usage") \/ Stop("failed")) /\ UNCHANGED <<tries, presented>>
  <2>1. UNCHANGED <<held, output, token, world, cmd>>
    BY <1>1, <1>3 DEF token
  <2> QED
    BY <1>1, <1>2, <1>3, <2>1, StopKeeps
<1>4. CASE session # Empty /\ Checks(session) /\ (Go \/ Stop("failed"))
  <2>1. cmd' = cmd /\ held' = held /\ files' = files /\ seen' = seen /\ session' = session /\ ports' = ports
        /\ served' = served /\ swapped' = swapped
    BY <1>1 DEF world, around
  <2>2. ports \in Seq(DOMAIN Token \cup {Empty}) /\ \E i \in DOMAIN ports : ports[i] = session
    BY <1>4, TokenAssumption DEF IInv, TypeInv
  <2>3. session \in DOMAIN Token \cup {Empty}
    BY <2>2
  <2>4. /\ tries' \in [DOMAIN Token -> 0 .. MaxTries] /\ presented' \in Seq(DOMAIN Token \cup {Empty})
        /\ Len(presented') = Len(presented) + 1
        /\ \A i \in DOMAIN presented' :
             (i \in DOMAIN presented /\ presented'[i] = presented[i]) \/ presented'[i] = session
    BY <1>4, <2>3, ChecksCounts DEF IInv
  <2>5. Len(presented') <= Len(presented) + 1 /\ \A i \in DOMAIN presented' : presented'[i] = session
    <3>1. DOMAIN presented = {} /\ Len(presented) = 0
      BY <1>2
    <3> QED
      BY <2>4, <3>1
  <2>6. NamedByLabel /\ ~swapped => \A i \in DOMAIN presented' : Token[presented'[i]].label = key_uri.token
    BY <1>4, <2>5 DEF IInv, TokenInv, SlotInv
  <2>7. cmd.name = "sign"
    BY <1>1, <1>2, ReadingPlace, BridgePlace
  <2>8. todo' # <<>> => Head(todo') = "c_sign"
    BY <1>1, <1>2, <1>4, <2>1, <2>7, NextPlace, SignPlace DEF Stop
  <2>9. digest' = digest
    BY <2>1, SameCommand
  <2>10. HeldInv'
    BY <1>1, <2>1, <2>8, <2>9 DEF IInv, HeldInv, Before, prepare_signed_attributes
  <2>11. TokenInv'
    BY <1>1, <1>2, <1>4, <2>1, <2>4, <2>5, <2>6, OnceShown
  <2> QED
    BY <1>1, <1>2, <1>4, <2>1, <2>4, <2>10, <2>11, TokenStepKeeps DEF IInv, TypeInv
<1> QED
  BY <1>1, <1>3, <1>4

\* What C_Sign accepts fits the identifier in the envelope.
LEMMA Pkcs11SignFits ==
  ASSUME Compatible(key_algorithm, digest), key_algorithm \in KeyAlgorithm, NEW k, NEW attributes,
         private_key_template(k), C_Sign(k, prepare_sign_input(compute_digest(digest, attributes)))
  PROVE  Fits([key |-> k, over |-> prepare_sign_input(compute_digest(digest, attributes))], attributes)
<1> DEFINE hash == compute_digest(digest, attributes)
<1>1. prepare_sign_input(hash).hash = hash
  BY DEF prepare_sign_input, wrap_digest_info
<1>2. Key(k).alg = key_algorithm
  <2>1. CASE key_algorithm \in {"gost256", "gost512"}
    <3>1. digest = key_algorithm /\ hash.len = output_len(digest)
      BY <2>1 DEF Compatible, compute_digest
    <3>2. Key(k).alg \in {"gost256", "gost512"} /\ output_len(Key(k).alg) = output_len(key_algorithm)
      BY <1>1, <2>1, <3>1 DEF C_Sign, signing_mechanism
    <3>3. output_len("gost256") = 32 /\ output_len("gost512") = 64
      BY DEF output_len
    <3> QED
      BY <2>1, <3>2, <3>3
  <2>2. CASE key_algorithm \notin {"gost256", "gost512"}
    BY <2>2 DEF C_Sign, signing_mechanism, KeyAlgorithm
  <2> QED
    BY <2>1, <2>2
<1> QED
  BY <1>2 DEF Fits, Required, prepare_sign_input

LEMMA Pkcs11SignKeeps ==
  ASSUME IInv, Pkcs11Sign
  PROVE  IInv'
<1> DEFINE keys == {k \in Names(session) : private_key_template(k)}
           input == prepare_sign_input(compute_digest(digest, held.attributes))
<1>1. /\ todo # <<>> /\ Head(todo) = "c_sign" /\ UNCHANGED <<output, token, world, cmd>>
      /\ IF session # Empty /\ keys # {} /\ Wrappable(input.hash) /\ C_Sign(FirstKey(keys), input)
         THEN Go /\ held' = [held EXCEPT !.signature = [key |-> FirstKey(keys), over |-> input]]
         ELSE Stop("failed") /\ UNCHANGED held
  BY DEF Pkcs11Sign, Doing
<1>2. Started /\ PlaceInv
  BY <1>1, ParsePlace DEF IInv
<1>3. CASE session # Empty /\ keys # {} /\ Wrappable(input.hash) /\ C_Sign(FirstKey(keys), input)
  <2>1. /\ Go /\ held' = [held EXCEPT !.signature = [key |-> FirstKey(keys), over |-> input]]
        /\ cmd' = cmd /\ files' = files /\ seen' = seen
    BY <1>1, <1>3 DEF world, around
  <2>2. cmd.name = "sign"
    BY <1>1, <1>2, ReadingPlace, BridgePlace
  <2>3. Compatible(key_algorithm, digest) /\ key_algorithm \in KeyAlgorithm
    BY <1>2, <2>2 DEF PlaceInv, Started, Accepted
  <2>4. session \in DOMAIN Token
    <3>1. ports \in Seq(DOMAIN Token \cup {Empty}) /\ \E i \in DOMAIN ports : ports[i] = session
      BY <1>3, TokenAssumption DEF IInv, TypeInv
    <3> QED
      BY <1>3, <3>1
  <2>5. keys \in SUBSET Names(session)
    OBVIOUS
  <2>6. FirstKey(keys) \in keys
    BY <1>3, <2>4, <2>5, FirstKeyIn
  <2>7. private_key_template(FirstKey(keys))
    BY <2>6
  <2>8. Fits([key |-> FirstKey(keys), over |-> input], held.attributes)
    BY <1>3, <2>3, <2>7, Pkcs11SignFits
  <2> HIDE DEF keys, input
  <2>9. /\ DOMAIN held' = HeldNames /\ held'.document = held.document /\ held'.attributes = held.attributes
        /\ held'.signature = [key |-> FirstKey(keys), over |-> input]
    BY <2>1 DEF IInv, TypeInv, HeldNames
  <2>10. todo' # <<>> => Head(todo') = "build"
    BY <1>1, <1>2, <2>1, <2>2, NextPlace, SignPlace
  <2>11. digest' = digest /\ key_algorithm' = key_algorithm /\ key_uri' = key_uri
    BY <2>1, SameCommand
  <2>12. Fits(held.signature, held.attributes)'
    BY <2>8, <2>9, <2>11 DEF Fits, Required, private_key_template
  <2>13. held.document \in seen \cap Document /\ held.attributes = prepare_signed_attributes(held.document)
    BY <1>1, <2>2 DEF IInv, HeldInv, Before
  <2>14. HeldInv'
    BY <2>1, <2>9, <2>10, <2>11, <2>12, <2>13 DEF IInv, HeldInv, Before, prepare_signed_attributes
  <2>15. ~(cmd.name = "sign" /\ dry_run)
    BY <1>1 DEF IInv, OutputInv
  <2> QED
    BY <1>1, <1>2, <2>1, <2>9, <2>14, <2>15, GoKeeps
<1>4. CASE ~(session # Empty /\ keys # {} /\ Wrappable(input.hash) /\ C_Sign(FirstKey(keys), input))
  <2>1. Stop("failed") /\ UNCHANGED <<held, output, token, world, cmd>>
    BY <1>1, <1>4
  <2> QED
    BY <1>1, <2>1, StopKeeps
<1> QED
  BY <1>3, <1>4

\* The key URI that goes with the transport over CCID names neither a token nor an object.
LEMMA RutokenUriFree ==
  ASSUME cmd \in Invocation, RutokenUri
  PROVE  key_uri.token = Free /\ key_uri.object = Free
<1>1. key_uri.scheme = "rutoken"
  BY DEF RutokenUri
<1>2. Has("key-uri") /\ key_uri = given["key-uri"]
  BY <1>1 DEF key_uri, Option, NoUri, Has
<1> QED
  BY <1>1, <1>2, UriAssumption DEF Has, given

\* What the token signs over CCID fits the identifier in the envelope.
LEMMA CcidSignatureFits ==
  ASSUME cmd \in Invocation, RutokenUri, MatchingGost(key_algorithm, digest), FirstToken \in DOMAIN Token,
         NEW attributes, CcidKeys(compute_digest(digest, attributes)) # {}
  PROVE  Fits(CcidSignature(compute_digest(digest, attributes)), attributes)
<1> DEFINE hash == compute_digest(digest, attributes)
           key == FirstKey(CcidKeys(hash))
<1>1. CcidKeys(hash) \in SUBSET Names(FirstToken)
  BY DEF CcidKeys
<1>2. key \in CcidKeys(hash)
  BY <1>1, FirstKeyIn
<1>3. Key(key).id = key_uri.id /\ Key(key).alg = hash.alg
  BY <1>2 DEF CcidKeys
<1>4. hash.alg = digest /\ digest = key_algorithm /\ digest \in {"gost256", "gost512"}
  BY DEF compute_digest, MatchingGost
<1>5. private_key_template(key)
  BY <1>3, RutokenUriFree DEF private_key_template
<1>6. CcidSignature(hash).key = key /\ CcidSignature(hash).over = [info |-> Nothing, hash |-> hash]
  BY DEF CcidSignature
<1> HIDE DEF key, hash
<1>7. Required(key, hash) = [info |-> Nothing, hash |-> hash]
  BY <1>3, <1>4 DEF Required
<1>8. Fits(CcidSignature(hash), attributes)
  BY <1>3, <1>4, <1>5, <1>6, <1>7 DEF Fits, hash
<1> QED
  BY <1>8 DEF hash

LEMMA CcidSignKeeps ==
  ASSUME IInv, CcidSign
  PROVE  IInv'
<1> DEFINE hash == compute_digest(digest, IF cmd.name = "sign" THEN held.attributes ELSE held.document)
<1>1. /\ todo # <<>> /\ Head(todo) = "ccid_sign" /\ UNCHANGED <<output, world, cmd>>
      /\ IF ~PinKnown THEN Stop("usage") /\ UNCHANGED <<held, token>>
         ELSE \E ok \in BOOLEAN :
                /\ CcidCall(ok)
                /\ ok => CcidKeys(hash) # {}
                /\ IF ok THEN Go /\ held' = [held EXCEPT !.signature = CcidSignature(hash)]
                   ELSE Stop("failed") /\ UNCHANGED held
  BY DEF CcidSign, Doing
<1> HIDE DEF hash
<1>2. Started /\ PlaceInv /\ presented = <<>> /\ output = Old
  BY <1>1, ParsePlace DEF IInv, TokenInv, OutputInv, Before, Early
<1>3. CASE ~PinKnown
  <2>1. Stop("usage") /\ UNCHANGED <<held, output, token, world, cmd>>
    BY <1>1, <1>3
  <2> QED
    BY <1>1, <1>2, <2>1, StopKeeps
<1>4. CASE PinKnown
  <2>1. PICK ok \in BOOLEAN :
           /\ CcidCall(ok)
           /\ ok => CcidKeys(hash) # {}
           /\ IF ok THEN Go /\ held' = [held EXCEPT !.signature = CcidSignature(hash)]
              ELSE Stop("failed") /\ UNCHANGED held
    BY <1>1, <1>4
  <2>2. TypeInv /\ cmd \in Invocation
    BY DEF IInv, TypeInv
  <2>3. /\ session' = session /\ tries' \in [DOMAIN Token -> 0 .. MaxTries]
        /\ presented' \in Seq(DOMAIN Token \cup {Empty}) /\ Len(presented') <= Len(presented) + 1
        /\ ok => FirstToken \in DOMAIN Token
    BY <2>1, <2>2, CcidCallCounts
  <2>4. cmd.name \in {"sign", "ccid-sign-raw"} /\ (cmd.name = "sign" => ccid)
    BY <1>1, <1>2, SignPlace, ReadingPlace, BridgePlace
  <2>5. RutokenUri /\ MatchingGost(key_algorithm, digest)
    BY <1>2, <2>4 DEF PlaceInv, Started, Accepted
  <2>6. key_uri.token = Free
    BY <2>2, <2>5, RutokenUriFree
  <2>7. cmd' = cmd /\ files' = files /\ seen' = seen /\ ports' = ports /\ served' = served /\ swapped' = swapped
    BY <1>1 DEF world, around
  <2>8. TokenInv'
    BY <1>1, <1>2, <2>1, <2>3, <2>6, <2>7, OnceShown DEF NamedByLabel
  <2>9. DOMAIN held' = HeldNames /\ HeldInv'
    <3>1. CASE ~ok
      <4>1. held' = held /\ todo' = <<>>
        BY <2>1, <3>1 DEF Stop
      <4> QED
        BY <2>7, <4>1 DEF IInv, TypeInv, HeldInv, Before
    <3>2. CASE ok
      <4>1. Go /\ held' = [held EXCEPT !.signature = CcidSignature(hash)] /\ CcidKeys(hash) # {}
        BY <2>1, <3>2
      <4>2. /\ DOMAIN held' = HeldNames /\ held'.document = held.document /\ held'.attributes = held.attributes
            /\ held'.signature = CcidSignature(hash)
        BY <4>1 DEF IInv, TypeInv, HeldNames
      <4>3. todo' # <<>> => Head(todo') = IF cmd.name = "sign" THEN "build" ELSE "write"
        BY <1>1, <1>2, <2>4, <2>7, <4>1, NextPlace, SignPlace, ReadingPlace
      <4>4. CASE cmd.name = "sign"
        <5>1. CcidSignature(hash) = CcidSignature(compute_digest(digest, held.attributes))
              /\ CcidKeys(compute_digest(digest, held.attributes)) # {}
          BY <4>1, <4>4 DEF hash
        <5>2. Fits(CcidSignature(hash), held.attributes)
          BY <2>2, <2>3, <2>5, <3>2, <5>1, CcidSignatureFits
        <5>3. digest' = digest /\ key_algorithm' = key_algorithm /\ key_uri' = key_uri
          BY <2>7, SameCommand
        <5>4. Fits(held.signature, held.attributes)'
          BY <4>2, <5>2, <5>3 DEF Fits, Required, private_key_template
        <5>5. held.document \in seen \cap Document /\ held.attributes = prepare_signed_attributes(held.document)
          BY <1>1, <4>4 DEF IInv, HeldInv, Before
        <5> QED
          BY <2>7, <4>2, <4>3, <4>4, <5>3, <5>4, <5>5 DEF IInv, HeldInv, Before, prepare_signed_attributes
      <4>5. CASE cmd.name # "sign"
        BY <2>7, <4>2, <4>3, <4>5 DEF IInv, HeldInv, Before
      <4> QED
        BY <4>4, <4>5
    <3> QED
      BY <3>1, <3>2
  <2> QED
    BY <1>1, <1>2, <2>1, <2>3, <2>7, <2>8, <2>9, TokenStepKeeps DEF IInv, TypeInv
<1> QED
  BY <1>3, <1>4

LEMMA TokenCertKeeps ==
  ASSUME IInv, TokenCert
  PROVE  IInv'
<1>1. /\ todo # <<>> /\ Head(todo) = "token_cert" /\ UNCHANGED <<output, world, cmd>>
      /\ IF ~PinKnown THEN Stop("usage") /\ UNCHANGED <<held, token>>
         ELSE \E ok \in BOOLEAN :
                /\ CcidCall(ok)
                /\ IF ok THEN Go /\ \E c \in Found(FirstToken) : held' = [held EXCEPT !.certificate = c]
                   ELSE Stop("failed") /\ UNCHANGED held
  BY DEF TokenCert, Doing
<1>2. Started /\ PlaceInv /\ presented = <<>> /\ output = Old
  BY <1>1, ParsePlace DEF IInv, TokenInv, OutputInv, Before, Early
<1>3. CASE ~PinKnown
  <2>1. Stop("usage") /\ UNCHANGED <<held, output, token, world, cmd>>
    BY <1>1, <1>3
  <2> QED
    BY <1>1, <1>2, <2>1, StopKeeps
<1>4. CASE PinKnown
  <2>1. PICK ok \in BOOLEAN :
           /\ CcidCall(ok)
           /\ IF ok THEN Go /\ \E c \in Found(FirstToken) : held' = [held EXCEPT !.certificate = c]
              ELSE Stop("failed") /\ UNCHANGED held
    BY <1>1, <1>4
  <2>2. TypeInv
    BY DEF IInv
  <2>3. /\ session' = session /\ tries' \in [DOMAIN Token -> 0 .. MaxTries]
        /\ presented' \in Seq(DOMAIN Token \cup {Empty}) /\ Len(presented') <= Len(presented) + 1
    BY <2>1, <2>2, CcidCallCounts
  <2>4. cmd' = cmd /\ files' = files /\ seen' = seen /\ ports' = ports /\ served' = served /\ swapped' = swapped
    BY <1>1 DEF world, around
  <2>5. cmd.name # "sign"
    BY <1>1, <1>2, SignPlace
  <2>6. Go \/ Stop("failed")
    BY <2>1
  <2>7. TokenInv'
    BY <1>1, <1>2, <1>4, <2>3, <2>4, <2>5, <2>6, OnceShown DEF NamedByLabel
  <2>8. DOMAIN held' = HeldNames
    BY <2>1 DEF IInv, TypeInv
  <2>9. todo' # <<>> => Head(todo') \in {"parse_cert", "elsewhere"}
    <3>1. CASE Stop("failed")
      BY <3>1 DEF Stop
    <3>2. CASE Go
      BY <1>1, <1>2, <2>4, <2>5, <3>2, NextPlace, ReadingPlace, BridgePlace
    <3> QED
      BY <2>6, <3>1, <3>2
  <2>10. HeldInv'
    BY <2>4, <2>5, <2>9 DEF IInv, HeldInv, Before
  <2> QED
    BY <1>1, <1>2, <2>3, <2>4, <2>6, <2>7, <2>8, <2>10, TokenStepKeeps DEF IInv, TypeInv
<1> QED
  BY <1>3, <1>4

LEMMA ApduPinKeeps ==
  ASSUME IInv, ApduPin
  PROVE  IInv'
<1>1. /\ todo # <<>> /\ Head(todo) = "apdu_pin" /\ UNCHANGED <<held, output, world, cmd>>
      /\ \/ Stop("failed") /\ UNCHANGED token
         \/ Go /\ UNCHANGED token
         \/ Plugged # {} /\ Checks(FirstToken) /\ UNCHANGED session /\ (Go \/ Stop("failed"))
  BY DEF ApduPin, Doing
<1>2. Started /\ PlaceInv /\ presented = <<>> /\ output = Old
  BY <1>1, ParsePlace DEF IInv, TokenInv, OutputInv, Before, Early
<1>3. cmd.name # "sign" /\ cmd' = cmd /\ held' = held /\ files' = files /\ seen' = seen /\ ports' = ports
      /\ served' = served /\ swapped' = swapped
  BY <1>1, <1>2, SignPlace DEF world, around
<1>4. todo' # <<>> /\ (Go \/ Stop("failed")) => Head(todo') = "apdus"
  <2>1. cmd.name = "ccid-apdu"
    BY <1>1, <1>2, SignPlace, ReadingPlace, BridgePlace
  <2> QED
    BY <1>1, <1>2, <1>3, <2>1, NextPlace, ReadingPlace DEF Stop
<1>5. ASSUME Go \/ Stop("failed")
      PROVE  HeldInv'
  BY <1>3, <1>4, <1>5 DEF IInv, HeldInv, Before
<1>6. DOMAIN held' = HeldNames
  BY <1>3 DEF IInv, TypeInv
<1>7. CASE Stop("failed") /\ UNCHANGED token
  <2>1. UNCHANGED <<held, output, token, world, cmd>>
    BY <1>1, <1>7
  <2> QED
    BY <1>1, <1>7, <2>1, StopKeeps
<1>8. CASE Go /\ UNCHANGED token
  <2>1. UNCHANGED <<output, token, world, cmd>>
    BY <1>1, <1>8
  <2> QED
    BY <1>1, <1>2, <1>5, <1>6, <1>8, <2>1, GoKeeps
<1>9. CASE Plugged # {} /\ Checks(FirstToken) /\ UNCHANGED session /\ (Go \/ Stop("failed"))
  <2>1. TypeInv
    BY DEF IInv
  <2>2. FirstToken \in DOMAIN Token
    BY <1>9, <2>1, FirstTokenIs
  <2>3. /\ session' = session /\ tries' \in [DOMAIN Token -> 0 .. MaxTries]
        /\ presented' \in Seq(DOMAIN Token \cup {Empty}) /\ Len(presented') <= Len(presented) + 1
    BY <1>9, <2>1, <2>2, ChecksCounts DEF TypeInv
  <2>4. TokenInv'
    BY <1>1, <1>2, <1>3, <1>9, <2>3, OnceShown DEF NamedByLabel
  <2> QED
    BY <1>1, <1>2, <1>3, <1>5, <1>6, <1>9, <2>3, <2>4, TokenStepKeeps DEF IInv, TypeInv
<1> QED
  BY <1>1, <1>7, <1>8, <1>9

LEMMA ElsewhereKeeps ==
  ASSUME IInv, Elsewhere
  PROVE  IInv'
<1>1. /\ todo # <<>> /\ Head(todo) = "elsewhere" /\ UNCHANGED <<held, output, token, world, cmd>>
      /\ Stop("failed") \/ Go
  BY DEF Elsewhere, Doing
<1>2. Started /\ PlaceInv
  BY <1>1, ParsePlace DEF IInv
<1>3. CASE Stop("failed")
  BY <1>1, <1>3, StopKeeps
<1>4. CASE Go
  <2>1. cmd' = cmd /\ held' = held /\ files' = files /\ seen' = seen
    BY <1>1 DEF world, around
  <2>2. todo' = <<>>
    BY <1>1, <1>2, <1>4, SignPlace, ReadingPlace, BridgePlace DEF Go
  <2>3. HeldInv' /\ DOMAIN held' = HeldNames
    BY <2>1, <2>2 DEF IInv, TypeInv, HeldInv, Before
  <2> QED
    BY <1>1, <1>2, <1>4, <2>3, GoKeeps
<1> QED
  BY <1>1, <1>3, <1>4

-----------------------------------------------------------------------------
(* Commands that serve *)

\* A signature the other side has asked for is due the PIN once.
LEMMA ServedTokens ==
  ASSUME IInv, cmd.name \in {"gost-login", "gost-bridge", "gosuslugi-bridge"}, cmd' = cmd, served' = served + 1,
         presented' \in Seq(DOMAIN Token \cup {Empty}), Len(presented') <= Len(presented) + 1
  PROVE  SlotInv' /\ PinToNamedToken'
<1>1. CertificateFromToken' = CertificateFromToken /\ ~NamedByLabel'
  BY SameCommand DEF NamedByLabel
<1>2. served \in Nat /\ Len(presented) \in Nat /\ Len(presented') \in Nat /\ Len(presented) <= PinsDue
  BY BoundAssumption DEF IInv, TypeInv, TokenInv, PinToNamedToken
<1>3. PinsDue' = PinsDue + 1 /\ PinsDue \in Nat
  BY <1>1, <1>2 DEF PinsDue
<1>4. Len(presented') <= PinsDue'
  BY <1>2, <1>3
<1> QED
  BY <1>1, <1>4 DEF SlotInv, PinToNamedToken

LEMMA SignDigestKeeps ==
  ASSUME IInv, sign_digest
  PROVE  IInv'
<1>1. /\ todo # <<>> /\ Head(todo) = "elsewhere" /\ cmd.name \in {"gost-login", "gost-bridge"}
      /\ served < MaxRequests /\ served' = served + 1 /\ UNCHANGED <<held, output, around, cmd>>
  BY DEF sign_digest, Doing
<1>2. /\ cmd' = cmd /\ held' = held /\ output' = output /\ files' = files /\ ports' = ports /\ seen' = seen
      /\ swapped' = swapped /\ troubles' = troubles
  BY <1>1 DEF around
<1>3. Started /\ PlaceInv /\ TypeInv /\ output = Old /\ exit = "running"
  BY <1>1, ParsePlace DEF IInv, OutputInv, PlaceInv
<1>4. ~PinKnown => presented = <<>>
  BY <1>1 DEF IInv, TokenInv, Before
<1>5. /\ given' = given /\ PinKnown' = PinKnown /\ steps' = steps /\ Accepted' = Accepted /\ dry_run' = dry_run
      /\ Writes' = Writes
  BY <1>2, SameCommand
<1>6. Tail(todo) = <<>>
  BY <1>1, <1>3, BridgePlace
<1>7. /\ session' = session /\ tries' \in [DOMAIN Token -> 0 .. MaxTries]
      /\ presented' \in Seq(DOMAIN Token \cup {Empty}) /\ Len(presented') <= Len(presented) + 1
      /\ ~PinKnown => presented' = presented
      /\ \/ todo' = todo /\ exit' = exit
         \/ todo' = <<>> /\ exit' \in {"ok", "failed"}
         \/ todo' = <<>> /\ exit' = "usage" /\ ~PinKnown
  <2>1. CASE PinKnown
    <3>1. PICK ok \in BOOLEAN : /\ CcidCall(ok)
                                /\ \/ cmd.name = "gost-login" /\ ok /\ Go
                                   \/ cmd.name = "gost-bridge" /\ UNCHANGED <<todo, exit>>
                                   \/ ~ok /\ Stop("failed")
      BY <2>1 DEF sign_digest
    <3>2. /\ session' = session /\ tries' \in [DOMAIN Token -> 0 .. MaxTries]
          /\ presented' \in Seq(DOMAIN Token \cup {Empty}) /\ Len(presented') <= Len(presented) + 1
      BY <1>3, <3>1, CcidCallCounts
    <3>3. \/ todo' = todo /\ exit' = exit
          \/ todo' = <<>> /\ exit' \in {"ok", "failed"}
      BY <1>6, <3>1 DEF Go, Stop
    <3> QED
      BY <2>1, <3>2, <3>3
  <2>2. CASE ~PinKnown
    <3>1. UNCHANGED token /\ \E code \in {"failed", "usage"} : Stop(code)
      BY <2>2 DEF sign_digest
    <3>2. session' = session /\ tries' = tries /\ presented' = presented /\ Len(presented) \in Nat
      BY <1>3, <3>1 DEF token, TypeInv
    <3>3. todo' = <<>> /\ exit' \in {"failed", "usage"}
      BY <3>1 DEF Stop
    <3> QED
      BY <1>3, <2>2, <3>2, <3>3 DEF TypeInv
  <2> QED
    BY <2>1, <2>2
<1>8. served' \in 0 .. MaxRequests
  BY <1>1, <1>3, BoundAssumption DEF TypeInv
<1>9. TypeInv' /\ PlaceInv'
  <2>1. TypeInv'
    BY <1>2, <1>3, <1>7, <1>8 DEF TypeInv
  <2>2. PlaceInv'
    BY <1>3, <1>5, <1>7 DEF PlaceInv, Started
  <2> QED
    BY <2>1, <2>2
<1>10. ~Before(Early)' /\ ~Before({"serve"})'
  BY <1>1, <1>7 DEF Before, Early
<1>11. HeldInv'
  BY <1>1, <1>2, <1>10 DEF IInv, HeldInv
<1>12. TokenInv'
  <2>1. SlotInv' /\ PinToNamedToken'
    BY <1>1, <1>2, <1>7, ServedTokens
  <2> QED
    BY <1>1, <1>2, <1>4, <1>5, <1>7, <1>10, <2>1 DEF TokenInv
<1>13. ~Writes /\ cmd.name # "sign"
  BY <1>1 DEF Writes
<1>14. SignedAsAsked' /\ OutputWhole' /\ RefusedUntouched'
  BY <1>2, <1>3, <1>4, <1>5, <1>7, <1>13 DEF Old, SignedAsAsked, OutputWhole, RefusedUntouched
<1> QED
  BY <1>2, <1>3, <1>9, <1>11, <1>12, <1>13, <1>14 DEF IInv, OutputInv

LEMMA SignFileKeeps ==
  ASSUME IInv, NEW document \in Document, NEW detached \in BOOLEAN, sign_file(document, detached)
  PROVE  IInv'
<1> DEFINE attributes == prepare_signed_attributes(document)
           hash == compute_digest(digest, attributes)
           envelope == build_signed_data(document, held.certificate, attributes, CcidSignature(hash), detached)
<1>1. /\ todo # <<>> /\ Head(todo) = "serve" /\ served < MaxRequests /\ served' = served + 1
      /\ held' = [held EXCEPT !.document = document]
      /\ IF held.certificate = Nothing THEN output' = Refusal /\ UNCHANGED token
         ELSE \E ok \in BOOLEAN : /\ CcidCall(ok)
                                  /\ ok => CcidKeys(hash) # {}
                                  /\ output' = IF ok THEN envelope ELSE Refusal
      /\ UNCHANGED <<todo, exit, around, cmd>>
  BY DEF sign_file, Doing
<1>2. TypeInv /\ PlaceInv /\ Started /\ cmd \in Invocation
  BY <1>1, ParsePlace DEF IInv, TypeInv
<1>3. /\ todo' = todo /\ exit' = exit /\ cmd' = cmd /\ files' = files /\ ports' = ports /\ seen' = seen
      /\ swapped' = swapped /\ troubles' = troubles
  BY <1>1 DEF around
<1>4. cmd.name = "gosuslugi-bridge"
  BY <1>1, <1>2, StepOrder
<1>5. RutokenUri /\ MatchingGost(key_algorithm, digest)
  BY <1>2, <1>4 DEF PlaceInv, Started, Accepted
<1>6. /\ DOMAIN held' = HeldNames /\ held'.document = document /\ held'.certificate = held.certificate
  BY <1>1, <1>2 DEF TypeInv, HeldNames
<1>7. /\ given' = given /\ digest' = digest /\ key_algorithm' = key_algorithm /\ key_uri' = key_uri
      /\ dry_run' = dry_run /\ Writes' = Writes /\ PinKnown' = PinKnown /\ steps' = steps /\ Accepted' = Accepted
  BY <1>3, SameCommand
<1>8. held.certificate = Nothing \/ held.certificate.form = "der"
  BY <1>1 DEF IInv, HeldInv, Before
<1> HIDE DEF envelope, hash, attributes
<1>9. /\ session' = session /\ tries' \in [DOMAIN Token -> 0 .. MaxTries]
      /\ presented' \in Seq(DOMAIN Token \cup {Empty}) /\ Len(presented') <= Len(presented) + 1
  <2>1. CASE held.certificate = Nothing
    <3>1. session' = session /\ tries' = tries /\ presented' = presented /\ Len(presented) \in Nat
      BY <1>1, <1>2, <2>1 DEF token, TypeInv
    <3> QED
      BY <1>2, <3>1 DEF TypeInv
  <2>2. CASE held.certificate # Nothing
    <3>1. PICK ok \in BOOLEAN : CcidCall(ok)
      BY <1>1, <2>2
    <3> QED
      BY <1>2, <3>1, CcidCallCounts
  <2> QED
    BY <2>1, <2>2
<1>10. exit = "running" /\ exit' = "running"
  BY <1>1, <1>2, <1>3 DEF PlaceInv
<1>11. TypeInv' /\ PlaceInv'
  <2>1. TypeInv'
    BY <1>1, <1>2, <1>3, <1>6, <1>9, BoundAssumption DEF TypeInv
  <2>2. PlaceInv'
    BY <1>2, <1>3, <1>7 DEF PlaceInv
  <2> QED
    BY <2>1, <2>2
<1>12. HeldInv'
  BY <1>1, <1>3, <1>4, <1>6, <1>8 DEF IInv, HeldInv, Before
<1>13. TokenInv'
  <2>1. SlotInv' /\ PinToNamedToken'
    BY <1>1, <1>3, <1>4, <1>9, ServedTokens
  <2>2. ~Before(Early)' /\ ~Before({"elsewhere"})'
    BY <1>1, <1>3 DEF Before, Early
  <2> QED
    BY <1>3, <1>4, <2>1, <2>2 DEF TokenInv
<1>14. SignedAsAsked'
  <2>1. CASE output' = Refusal
    BY <2>1 DEF Refusal, SignedAsAsked
  <2>2. CASE output' # Refusal
    <3>1. held.certificate # Nothing /\ CcidKeys(hash) # {} /\ output' = envelope
          /\ \E ok \in BOOLEAN : ok /\ CcidCall(ok)
      BY <1>1, <2>2
    <3>2. FirstToken \in DOMAIN Token
      BY <1>2, <3>1, CcidCallCounts
    <3>3. Fits(CcidSignature(hash), attributes)
      BY <1>2, <1>5, <3>1, <3>2, CcidSignatureFits DEF hash
    <3>4. /\ output'.signature = CcidSignature(hash) /\ output'.attributes = attributes /\ output'.digest = digest
          /\ output'.oid = signature_oid(key_algorithm, digest) /\ output'.certificate = held.certificate
          /\ output'.content \in {document, Nothing}
      BY <3>1 DEF envelope, build_signed_data
    <3>5. attributes.messageDigest = compute_digest(digest, document)
      BY DEF attributes, prepare_signed_attributes
    <3> QED
      BY <1>3, <1>4, <1>6, <1>7, <1>8, <3>1, <3>3, <3>4, <3>5 DEF SignedAsAsked, Fits, private_key_template
  <2> QED
    BY <2>1, <2>2
<1>15. OutputWhole' /\ RefusedUntouched'
  BY <1>3, <1>4, <1>10 DEF OutputWhole, RefusedUntouched, Writes
<1> QED
  BY <1>1, <1>3, <1>4, <1>11, <1>12, <1>13, <1>14, <1>15 DEF IInv, OutputInv

-----------------------------------------------------------------------------
(* What happens around the command *)

LEMMA EditKeeps ==
  ASSUME IInv, Edit
  PROVE  IInv'
<1>1. /\ cmd' = cmd /\ todo' = todo /\ exit' = exit /\ held' = held /\ output' = output /\ ports' = ports
      /\ session' = session /\ tries' = tries /\ presented' = presented /\ served' = served /\ swapped' = swapped
      /\ troubles < MaxTroubles /\ troubles' = troubles + 1
  BY DEF Edit, Trouble, token
<1>2. /\ DOMAIN files' = DOMAIN files /\ seen \subseteq seen'
      /\ files'.input \in Document \cup {Missing} /\ files'.cert \in Certificate \cup {Missing}
      /\ files'.input \in seen'
  BY DEF Edit, IInv, TypeInv, HeldInv
<1>3. /\ given' = given /\ digest' = digest /\ key_algorithm' = key_algorithm /\ key_uri' = key_uri
      /\ dry_run' = dry_run /\ Writes' = Writes /\ PinKnown' = PinKnown /\ steps' = steps /\ Accepted' = Accepted
  BY <1>1, SameCommand
<1>4. TypeInv'
  BY <1>1, <1>2, BoundAssumption DEF IInv, TypeInv
<1>5. PlaceInv'
  BY <1>1, <1>3 DEF IInv, PlaceInv
<1>6. HeldInv'
  BY <1>1, <1>2, <1>3 DEF IInv, HeldInv, Before, prepare_signed_attributes, Fits, private_key_template, Required,
                          build_signed_data, Has
<1>7. TokenInv'
  BY <1>1, <1>3, TokensSame DEF IInv, TokenInv, Before
<1>8. SignedAsAsked'
  <2>1. (IF cmd.name = "sign" THEN seen ELSE {held.document})
          \subseteq (IF cmd.name = "sign" THEN seen ELSE {held.document})'
    BY <1>1, <1>2
  <2> QED
    BY <1>1, <1>3, <2>1 DEF IInv, OutputInv, SignedAsAsked, Has, private_key_template, Required
<1>9. OutputWhole'
  <2>1. Result' = Result
    BY <1>1 DEF Result
  <2> QED
    BY <1>1, <1>3, <2>1 DEF IInv, OutputInv, OutputWhole
<1> QED
  BY <1>1, <1>3, <1>4, <1>5, <1>6, <1>7, <1>8, <1>9 DEF IInv, OutputInv, RefusedUntouched

\* Where neither the files nor the output, nor what is left to do, changes, only the tokens are to be accounted for.
LEMMA OtherwiseSame ==
  ASSUME IInv, UNCHANGED << cmd, todo, exit, held, files, output, seen >>
  PROVE  PlaceInv' /\ HeldInv' /\ SignedAsAsked' /\ OutputWhole' /\ Accepted' = Accepted /\ key_uri' = key_uri
         /\ dry_run' = dry_run /\ PinKnown' = PinKnown
<1>1. /\ given' = given /\ digest' = digest /\ key_algorithm' = key_algorithm /\ key_uri' = key_uri
      /\ dry_run' = dry_run /\ Writes' = Writes /\ PinKnown' = PinKnown /\ steps' = steps /\ Accepted' = Accepted
  BY SameCommand
<1>2. PlaceInv'
  BY <1>1 DEF IInv, PlaceInv
<1>3. HeldInv'
  BY <1>1 DEF IInv, HeldInv, Before, prepare_signed_attributes, Fits, private_key_template, Required,
              build_signed_data, Has
<1>4. SignedAsAsked'
  BY <1>1 DEF IInv, OutputInv, SignedAsAsked, Has, private_key_template, Required
<1>5. OutputWhole'
  BY <1>1 DEF IInv, OutputInv, OutputWhole, Result
<1> QED
  BY <1>1, <1>2, <1>3, <1>4, <1>5

LEMMA ReplugKeeps ==
  ASSUME IInv, Replug
  PROVE  IInv'
<1>1. PICK p \in Ports :
         /\ ports' = p
         /\ swapped' = (swapped \/ (Doing("open") /\ TokenIn(p, held.slot) # TokenIn(ports, held.slot)))
         /\ session' = IF \E i \in DOMAIN p : p[i] = session /\ ports[i] = session THEN session ELSE Empty
  BY DEF Replug
<1>2. /\ cmd' = cmd /\ todo' = todo /\ exit' = exit /\ held' = held /\ files' = files /\ output' = output
      /\ tries' = tries /\ seen' = seen /\ presented' = presented /\ served' = served
      /\ troubles < MaxTroubles /\ troubles' = troubles + 1
  BY DEF Replug, Trouble
<1>3. PlaceInv' /\ HeldInv' /\ SignedAsAsked' /\ OutputWhole' /\ key_uri' = key_uri /\ dry_run' = dry_run
      /\ PinKnown' = PinKnown
  BY <1>2, OtherwiseSame
<1>4. session' # Empty => session' = session /\ \E i \in DOMAIN ports' : ports'[i] = session'
  BY <1>1
<1>5. TypeInv'
  <2>1. swapped' \in BOOLEAN
    BY <1>1
  <2> QED
    BY <1>1, <1>2, <1>4, <2>1, BoundAssumption DEF IInv, TypeInv
<1>6. TokenInv'
  <2>1. NamedByLabel' = NamedByLabel /\ CertificateFromToken' = CertificateFromToken
    BY <1>2, SameCommand
  <2>2. ~swapped' => ~swapped /\ (Before({"open"}) => TokenIn(ports', held'.slot) = TokenIn(ports, held.slot))
    BY <1>1, <1>2 DEF Before, Doing
  <2>3. SlotInv'
    BY <1>2, <1>3, <1>4, <2>1, <2>2 DEF IInv, TokenInv, SlotInv, Before
  <2>4. PinToNamedToken'
    BY <1>2, <1>3, <2>1, <2>2 DEF IInv, TokenInv, PinToNamedToken, PinsDue
  <2> QED
    BY <1>2, <1>3, <2>3, <2>4 DEF IInv, TokenInv, Before
<1> QED
  BY <1>2, <1>3, <1>5, <1>6 DEF IInv, OutputInv, RefusedUntouched

LEMMA KilledKeeps ==
  ASSUME IInv, Killed
  PROVE  IInv'
<1>1. /\ todo # <<>> /\ todo' = <<>> /\ exit' = "killed" /\ cmd' = cmd /\ held' = held /\ files' = files
      /\ ports' = ports /\ session' = session /\ tries' = tries /\ presented' = presented /\ seen' = seen
      /\ served' = served /\ swapped' = swapped /\ troubles < MaxTroubles /\ troubles' = troubles + 1
      /\ output' = output \/ (Head(todo) = "write" /\ output' = Cut)
  BY DEF Killed, Trouble, Stop, token, Doing
<1>2. /\ given' = given /\ digest' = digest /\ key_algorithm' = key_algorithm /\ key_uri' = key_uri
      /\ dry_run' = dry_run /\ Writes' = Writes
  BY <1>1, SameCommand
<1>3. exit = "running"
  BY <1>1 DEF IInv, PlaceInv
<1>4. TypeInv'
  BY <1>1, BoundAssumption DEF IInv, TypeInv
<1>5. PlaceInv' /\ HeldInv'
  BY <1>1 DEF IInv, PlaceInv, HeldInv, Before
<1>6. TokenInv'
  BY <1>1, <1>2, TokensSame DEF IInv, TokenInv, Before
<1>7. Writes => output \in {Old, Cut}
  BY <1>3 DEF IInv, OutputInv, OutputWhole
<1>8. SignedAsAsked'
  BY <1>1, <1>2 DEF IInv, OutputInv, SignedAsAsked, Has, private_key_template, Cut
<1>9. OutputWhole'
  <2>1. output' \in {output, Cut}
    BY <1>1
  <2>2. Old # Cut
    BY DEF Old, Cut
  <2> QED
    BY <1>1, <1>2, <1>7, <2>1, <2>2 DEF OutputWhole
<1>10. RefusedUntouched'
  BY <1>1, <1>2 DEF IInv, OutputInv, TokenInv, RefusedUntouched
<1>11. cmd.name = "sign" /\ dry_run => output' = Old
  BY <1>1 DEF IInv, OutputInv
<1> QED
  BY <1>1, <1>2, <1>4, <1>5, <1>6, <1>8, <1>9, <1>10, <1>11 DEF IInv, OutputInv

-----------------------------------------------------------------------------
(* The invariant is inductive *)

LEMMA InitIInv == Init => IInv
<1> SUFFICES ASSUME Init PROVE IInv
  OBVIOUS
<1>1. /\ cmd \in Invocation /\ todo = <<"parse">> /\ exit = "running" /\ output = Old /\ ports \in Ports
      /\ session = Empty /\ tries = [t \in DOMAIN Token |-> MaxTries] /\ presented = <<>> /\ troubles = 0
      /\ served = 0 /\ swapped = FALSE /\ DOMAIN held = HeldNames /\ seen = {files.input}
      /\ DOMAIN files = {"input", "cert", "module"}
      /\ files.input \in Document \cup {Missing} /\ files.cert \in Certificate \cup {Missing}
  BY DEF Init, HeldNames
<1>2. todo # <<>> /\ Head(todo) = "parse"
  BY <1>1
<1>3. Len(presented) = 0 /\ presented \in Seq(DOMAIN Token \cup {Empty})
  BY <1>1
<1>4. MaxTries \in 0 .. MaxTries /\ 0 \in 0 .. MaxTroubles /\ 0 \in 0 .. MaxRequests
  BY BoundAssumption
<1>5. TypeInv
  BY <1>1, <1>3, <1>4 DEF TypeInv
<1>6. PlaceInv /\ HeldInv
  BY <1>1, <1>2 DEF PlaceInv, HeldInv, Before
<1>7. TokenInv
  <2>1. SlotInv
    BY <1>1, <1>2 DEF SlotInv, Before
  <2>2. 0 <= PinsDue /\ DOMAIN presented = {}
    BY <1>1 DEF PinsDue
  <2>3. PinToNamedToken
    BY <1>3, <2>2 DEF PinToNamedToken
  <2> QED
    BY <1>1, <2>1, <2>3 DEF TokenInv
<1>8. RefusedUntouched /\ OutputWhole /\ SignedAsAsked
  BY <1>1 DEF RefusedUntouched, OutputWhole, SignedAsAsked, Old, Cut
<1> QED
  BY <1>1, <1>2, <1>5, <1>6, <1>7, <1>8 DEF IInv, OutputInv

\* Where nothing changes, nothing can go wrong.
LEMMA StutterKeeps ==
  ASSUME IInv, UNCHANGED vars
  PROVE  IInv'
<1>1. /\ cmd' = cmd /\ todo' = todo /\ exit' = exit /\ held' = held /\ files' = files /\ output' = output
      /\ ports' = ports /\ session' = session /\ tries' = tries /\ seen' = seen /\ presented' = presented
      /\ served' = served /\ swapped' = swapped /\ troubles' = troubles
  BY DEF vars
<1>2. PlaceInv' /\ HeldInv' /\ SignedAsAsked' /\ OutputWhole' /\ key_uri' = key_uri /\ dry_run' = dry_run
      /\ PinKnown' = PinKnown
  BY <1>1, OtherwiseSame
<1>3. SlotInv' /\ PinToNamedToken'
  BY <1>1, TokensSame DEF Before
<1>4. TypeInv'
  BY <1>1 DEF IInv, TypeInv
<1>5. TokenInv'
  BY <1>1, <1>2, <1>3 DEF IInv, TokenInv, Before
<1> QED
  BY <1>1, <1>2, <1>4, <1>5 DEF IInv, OutputInv, RefusedUntouched

LEMMA NextIInv ==
  ASSUME IInv, [Next]_vars
  PROVE  IInv'
<1>1. CASE run_cli
  BY <1>1, ParseKeeps
<1>2. CASE ReadInput
  BY <1>2, ReadInputKeeps
<1>3. CASE ReadCert
  BY <1>3, ReadCertKeeps
<1>4. CASE load_client_cert_chain
  BY <1>4, ChainKeeps
<1>5. CASE ParseCert
  BY <1>5, ParseCertKeeps
<1>6. CASE ReadRecord
  BY <1>6, ReadRecordKeeps
<1>7. CASE Attributes
  BY <1>7, AttributesKeeps
<1>8. CASE Build
  BY <1>8, BuildKeeps
<1>9. CASE Write
  BY <1>9, WriteKeeps
<1>10. CASE Load
  BY <1>10, LoadKeeps
<1>11. CASE Open
  BY <1>11, OpenKeeps
<1>12. CASE Login
  BY <1>12, LoginKeeps
<1>13. CASE Pkcs11Sign
  BY <1>13, Pkcs11SignKeeps
<1>14. CASE CcidSign
  BY <1>14, CcidSignKeeps
<1>15. CASE TokenCert
  BY <1>15, TokenCertKeeps
<1>16. CASE ApduPin
  BY <1>16, ApduPinKeeps
<1>17. CASE Apdus
  BY <1>17, ApdusKeeps
<1>18. CASE Elsewhere
  BY <1>18, ElsewhereKeeps
<1>19. CASE CallFails
  BY <1>19, CallFailsKeeps
<1>20. CASE \E d \in Document, detached \in BOOLEAN : sign_file(d, detached)
  BY <1>20, SignFileKeeps
<1>21. CASE Edit
  BY <1>21, EditKeeps
<1>22. CASE Replug
  BY <1>22, ReplugKeeps
<1>23. CASE Killed
  BY <1>23, KilledKeeps
<1>24. CASE UNCHANGED vars
  BY <1>24, StutterKeeps
<1>25. CASE Select
  BY <1>25, SelectKeeps
<1>26. CASE sign_digest
  BY <1>26, SignDigestKeeps
<1> QED
  BY <1>1, <1>2, <1>3, <1>4, <1>5, <1>6, <1>7, <1>8, <1>9, <1>10, <1>11, <1>12, <1>13, <1>14, <1>15, <1>16, <1>17,
     <1>18, <1>19, <1>20, <1>21, <1>22, <1>23, <1>24, <1>25, <1>26 DEF Next, Step

LEMMA IInvAlways == Spec => []IInv
BY InitIInv, NextIInv, PTL DEF Spec

-----------------------------------------------------------------------------
(* The theorems *)

\* The types: a command has a step before it exactly as long as it runs, its session is with a token that is
\* plugged in, and the tries of a token stay within their bounds.
THEOREM TypeCorrect == Spec => []TypeOK
<1>1. IInv => TypeOK
  BY DEF IInv, TypeInv, PlaceInv, TypeOK
<1> QED
  BY <1>1, IInvAlways, PTL

\* run_cli checks the command line before anything happens; so whatever ends with exit code 2, and a dry run, has
\* shown no PIN and written nothing.
THEOREM RefusedUntouchedAlways == Spec => []RefusedUntouched
<1>1. IInv => RefusedUntouched
  BY DEF IInv, OutputInv
<1> QED
  BY <1>1, IInvAlways, PTL

\* The output is written last: after exit code 0 it is the whole result, after any other what it was, unless the
\* write itself broke off.
THEOREM OutputWholeAlways == Spec => []OutputWhole
<1>1. IInv => OutputWhole
  BY DEF IInv, OutputInv
<1> QED
  BY <1>1, IInvAlways, PTL

\* The envelope that sign writes or the bridge returns verifies, whatever happened to files and tokens meanwhile: its
\* digest is that of one content the input had, and its signature is over its attributes, by a key that the URI
\* names and of the algorithm that the envelope names.
THEOREM SignedAsAskedAlways == Spec => []SignedAsAsked
<1>1. IInv => SignedAsAsked
  BY DEF IInv, OutputInv
<1> QED
  BY <1>1, IInvAlways, PTL

\* A run shows the PIN once; gost-login and the bridges show it once for every signature they are asked for and once
\* more if they read their certificate from the token. sign over PKCS#11 with a token's name in its URI shows it to a
\* token of another name only if the slot has changed between the reading of the label and the opening of the session.
THEOREM PinToNamedTokenAlways == Spec => []PinToNamedToken
<1>1. IInv => PinToNamedToken
  BY DEF IInv, TokenInv
<1> QED
  BY <1>1, IInvAlways, PTL
===============================================================================
