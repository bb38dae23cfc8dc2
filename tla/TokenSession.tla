----------------------------- MODULE TokenSession -----------------------------
(***************************************************************************)
(* A Rutoken on a CCID reader (src/src/lib.rs: modules ccid, rutoken and   *)
(* token): sign_digest_direct, derive_vko_direct and                       *)
(* read_certificate_direct, command by command, over a link on which       *)
(* commands and answers are in flight.                                     *)
(*                                                                         *)
(* Every call opens the device, powers the card on and exchanges APDUs one *)
(* at a time.  An exchange writes one block and reads one block, whatever  *)
(* block comes: the sequence number of the answer is parsed and never      *)
(* compared.  An answer that comes after its exchange has been given up is *)
(* therefore the answer of the next exchange, which may belong to another  *)
(* call.  The card keeps its own state: selected file, PIN, security       *)
(* environment, PIN tries.                                                 *)
(*                                                                         *)
(* The card, the reader and the USB link are external and modelled from    *)
(* the answers the code provides for.  The PC/SC transport, an optional    *)
(* feature that is off by default, is left out: without it a failed power  *)
(* on is an error.                                                         *)
(*                                                                         *)
(* A definition X_Name is a mutant of X; see RecordLayer.                  *)
(***************************************************************************)
EXTENDS Integers, Sequences, FiniteSets, SequencesExt

CONSTANTS
  Call,          \* the calls made: records [op, key, pin, input]
  Supported,     \* the inputs whose digest algorithm the token transport knows
  Files,         \* the files of the card, as paths of file identifiers
  Certificate,   \* the files that hold a DER certificate -> [key, chunks, exact]
  Understood,    \* the forms of SELECT by path the card understands
  RightPin,      \* the card's user PIN
  NoPin,         \* the absence of a PIN
  LastSuffix,    \* the scan tries the file suffixes 1..LastSuffix (0x20)
  MaxChunks,     \* the 256-byte blocks read of one file at most (16 * 1024 / 256)
  MaxTries,      \* the wrong PINs the card accepts in a row
  ReaderDepth,   \* the commands the reader takes before it has executed any (external)
  MaxCalls,      \* bound: calls
  MaxFaults      \* bound: failed exchanges

ASSUME CallAssumption ==
  \A c \in Call : DOMAIN c = {"op", "key", "pin", "input"}
                  /\ c.op \in {"sign", "vko", "certificate"} /\ c.key \in 0..255
ASSUME FileAssumption == <<>> \in Files /\ DOMAIN Certificate \subseteq Files
\* Every file is in a directory, which is a file too.
ASSUME TreeAssumption == \A f \in Files : f # <<>> => Front(f) \in Files
ASSUME PinAssumption == RightPin # NoPin
ASSUME CertificateAssumption ==
  \A f \in DOMAIN Certificate : Certificate[f].chunks \in Nat \ {0} /\ Certificate[f].exact \in BOOLEAN
ASSUME BoundAssumption == {LastSuffix, MaxTries, ReaderDepth, MaxCalls, MaxFaults} \subseteq Nat
                          /\ MaxChunks \in Nat \ {0} /\ ReaderDepth >= 1

VARIABLES
  call,      \* the call being made, or the last one
  at,        \* the exchange it waits for: step, alternative, command within it
  data,      \* what read_selected_certificate has collected
  result,    \* what the last call returned, or Pending
  sequence,  \* CcidDevice::sequence
  outbox,    \* the commands the card has yet to execute
  inbox,     \* the answers the host has yet to read
  card,      \* the card's selected file, PIN state, environment and tries
  calls,     \* how many calls have been made
  faults,    \* how many exchanges have failed
  cost       \* history: the PIN tries the commands of each call have cost

host == <<call, at, data, result, sequence>>
link == <<outbox, inbox>>
vars == <<host, link, card, calls, faults, cost>>

Idle    == [step |-> "idle", n |-> 0, i |-> 0, written |-> TRUE]
Pending == [ok |-> FALSE, value |-> <<"pending">>]
Failed  == [ok |-> FALSE, value |-> <<"error">>]

\* The data of an answer: nothing, block i of a certificate file, or the
\* outcome of a private-key operation.
Empty              == <<>>
Block(file, i)     == <<"block", file, i>>
Outcome(op, k, in) == <<op, k, in>>

\* A block of 256 bytes, after which there may be another one.
Full(d) == d[1] = "block" /\ (d[3] < Certificate[d[2]].chunks \/ Certificate[d[2]].exact)

-----------------------------------------------------------------------------
(* Commands (module rutoken)                                               *)

select_master_file      == [ins |-> "SELECT", form |-> "mf", path |-> <<>>]
select_file_by_id(id)   == [ins |-> "SELECT", form |-> "id", path |-> <<id>>]
select_by_path(form, p) == [ins |-> "SELECT", form |-> form, path |-> p]
verify_pin(pin)         == [ins |-> "VERIFY", pin |-> pin]
verify_pin_status       == [ins |-> "VERIFY_STATUS"]
logout                  == [ins |-> "LOGOUT"]
read_binary(i)          == [ins |-> "READ_BINARY", i |-> i]
manage_security_environment(op, k)     == [ins |-> "MSE", op |-> op, key |-> k]
perform_security_operation(op, input) == [ins |-> "PSO", op |-> op, input |-> input]

\* Names of files.  Identifiers are numbers, those of the code in hexadecimal.
X1000 == 4096
X5000 == 20480
X6002 == 24578
X6004 == 24580
certificate_file_id(k) == 768 + k
pkcs15_private_key_id(k) == 256 + k

\* The five ways of selecting file id of the directory 1000/1000/dir or file
\* id15 of the directory 5000, in the order they are tried.
select_sequences(dir, id, id15) ==
  LET path == <<X1000, X1000, dir, id>>
      path15 == <<X5000, id15>>
  IN  << <<select_by_path("relative", path)>>,
         <<select_by_path("absolute", path)>>,
         [i \in 1..4 |-> select_file_by_id(path[i])],
         <<select_by_path("relative", path15)>>,
         [i \in 1..2 |-> select_file_by_id(path15[i])] >>

private_key_file_select_sequences(k) ==
  select_sequences(X6002, k, pkcs15_private_key_id(k))

certificate_file_select_sequences(k) ==
  select_sequences(X6004, certificate_file_id(k), certificate_file_id(k))

\* The identifiers the scan tries, of the one base 0300 here: that of the key
\* and those of all small suffixes, in ascending order.
certificate_candidate_file_ids(k) ==
  LET all == {certificate_file_id(j) : j \in {k} \cup 1..LastSuffix}
  IN  [n \in 1..Cardinality(all) |-> CHOOSE id \in all : Cardinality({x \in all : x <= id}) = n]

\* The scan: every candidate in every directory, each as a sequence of SELECTs.
scan_sequences(k) ==
  LET dirs == << <<X1000, X1000, X6004>>, <<X1000, X1000>>, <<X5000>>, <<>> >>
      ids  == certificate_candidate_file_ids(k)
      path(n) == Append(dirs[((n - 1) \div Len(ids)) + 1], ids[((n - 1) % Len(ids)) + 1])
  IN  [n \in 1..4 * Len(ids) |-> [i \in DOMAIN path(n) |-> select_file_by_id(path(n)[i])]]

\* The selections the call has before it, in the phase it is in.
Sequences(step) ==
  IF step \in {"scan_reset", "scan_select", "scan_read"} THEN scan_sequences(call.key)
  ELSE IF call.op = "certificate" THEN certificate_file_select_sequences(call.key)
  ELSE private_key_file_select_sequences(call.key)

-----------------------------------------------------------------------------
(* The card (external)                                                     *)

Answer(sw, d) == inbox' = Append(inbox, [sw |-> sw, data |-> d, to |-> Head(outbox).to])

\* Powering on a card that is on already may or may not reset it.  An ATR is
\* no APDU answer: read as one, its last bytes are no success.
PowerOn(c) ==
  /\ c.ins = "POWER_ON"
  /\ card' \in {card, [selected |-> <<>>, verified |-> FALSE, env |-> <<>>, tries |-> card.tries]}
  /\ Answer("atr", Empty)

\* The file a SELECT names, whether or not there is one.
Selects(c) ==
  CASE c.form = "mf" -> <<>>
    [] c.form = "id" -> card.selected \o c.path
    [] OTHER -> c.path

SelectFile(c) ==
  /\ c.ins = "SELECT"
  /\ IF Selects(c) \in Files /\ c.form \in {"mf", "id"} \cup Understood
     THEN card' = [card EXCEPT !.selected = Selects(c)] /\ Answer("9000", Empty)
     ELSE UNCHANGED card /\ Answer("6a82", Empty)

\* A user who is logged in must log out before the PIN is looked at again.
VerifyPin(c) ==
  /\ c.ins = "VERIFY"
  /\ CASE card.verified -> UNCHANGED card /\ Answer("6f86", Empty)
       [] ~card.verified /\ card.tries = 0 -> UNCHANGED card /\ Answer("6983", Empty)
       [] ~card.verified /\ card.tries > 0 /\ c.pin = RightPin ->
            /\ card' = [card EXCEPT !.verified = TRUE, !.tries = MaxTries]
            /\ Answer("9000", Empty)
       [] OTHER -> card' = [card EXCEPT !.tries = @ - 1] /\ Answer("6300", Empty)

VerifyStatus(c) ==
  /\ c.ins = "VERIFY_STATUS"
  /\ Answer(IF card.verified THEN "9000" ELSE "63cx", Empty)
  /\ UNCHANGED card

Logout(c) ==
  /\ c.ins = "LOGOUT"
  /\ card' = [card EXCEPT !.verified = FALSE]
  /\ Answer("9000", Empty)

\* The environment takes the key of the private-key file that is selected.
ManageEnvironment(c) ==
  /\ c.ins = "MSE"
  /\ IF card.selected \in {<<X1000, X1000, X6002, c.key>>,
                           <<X5000, pkcs15_private_key_id(c.key)>>}
     THEN card' = [card EXCEPT !.env = <<c.op, c.key>>] /\ Answer("9000", Empty)
     ELSE UNCHANGED card /\ Answer("6a88", Empty)

PerformOperation(c) ==
  /\ c.ins = "PSO"
  /\ UNCHANGED card
  /\ IF card.verified /\ card.env # <<>> /\ card.env[1] = c.op
     THEN Answer("9000", Outcome(c.op, card.env[2], c.input))
     ELSE Answer("6982", Empty)

\* A block is short when the file ends within it; the card may say so.
ReadBinary(c) ==
  LET file == card.selected
  IN  /\ c.ins = "READ_BINARY"
      /\ UNCHANGED card
      /\ \/ file \notin DOMAIN Certificate /\ Answer("6986", Empty)
         \/ file \in DOMAIN Certificate /\ c.i > Certificate[file].chunks /\ Answer("6b00", Empty)
         \/ /\ file \in DOMAIN Certificate /\ c.i <= Certificate[file].chunks
            /\ \/ Answer("9000", Block(file, c.i))
               \/ ~Full(Block(file, c.i)) /\ Answer("6282", Block(file, c.i))

\* The reader has the card execute the next command, which may be one that a
\* call has given up or that an earlier call has sent.
Execute ==
  /\ outbox # <<>>
  /\ LET c == Head(outbox).command
     IN  \/ PowerOn(c) \/ SelectFile(c) \/ VerifyPin(c) \/ VerifyStatus(c) \/ Logout(c)
         \/ ManageEnvironment(c) \/ PerformOperation(c) \/ ReadBinary(c)
  /\ outbox' = Tail(outbox)
  /\ cost' = IF card'.tries < card.tries THEN [cost EXCEPT ![Head(outbox).to[1]] = @ + 1] ELSE cost
  /\ UNCHANGED <<host, calls, faults>>

-----------------------------------------------------------------------------
(* The host: one exchange after another                                    *)

\* transmit up to the read: the command goes out, unless the reader is full and
\* the write fails, and the call waits in step, at command i of alternative n.
Write(step, n, i, command, to) ==
  LET taken == Len(outbox) < ReaderDepth
  IN  /\ at' = [step |-> step, n |-> n, i |-> i, written |-> taken]
      /\ outbox' = IF taken THEN Append(outbox, [command |-> command, to |-> to]) ELSE outbox

Transmit(step, n, i, command) ==
  /\ Write(step, n, i, command, <<calls, sequence>>)
  /\ sequence' = (sequence + 1) % 256
  /\ UNCHANGED result

\* The call returns, which closes the device.
Return(r) ==
  /\ at' = Idle
  /\ result' = r
  /\ UNCHANGED <<outbox, sequence>>

Reset(step, n) == Transmit(step, n, 1, select_master_file)
Select(step, n, i) == Transmit(step, n, i, Sequences(step)[n][i])

Succeeds(r) == r.sw = "9000"

\* A call opens the device and powers the card on.  Whether the reader has
\* dropped the answers nobody read when the device was closed is its own affair.
Begin ==
  /\ at = Idle
  /\ calls < MaxCalls
  /\ calls' = calls + 1
  /\ call' \in Call
  /\ Write("power_on", 0, 0, [ins |-> "POWER_ON"], <<calls + 1, 0>>)
  /\ sequence' = 1
  /\ inbox' \in {inbox, <<>>}
  /\ result' = Pending
  /\ data' = <<>>
  /\ UNCHANGED <<card, faults, cost>>

OnPowerOn(r) ==
  /\ at.step = "power_on"
  /\ Transmit("select_mf", 0, 0, select_master_file)
  /\ UNCHANGED data

\* Mutant: the status of the first command is not looked at.
OnSelectMf_AnyStatus(r) ==
  /\ at.step = "select_mf"
  /\ IF call.pin = NoPin THEN Reset("reset", 1)
     ELSE Transmit("verify", 0, 0, verify_pin(call.pin))
  /\ UNCHANGED data

OnSelectMf(r) ==
  /\ at.step = "select_mf"
  /\ CASE ~Succeeds(r) -> Return(Failed)
       [] Succeeds(r) /\ call.pin = NoPin -> Reset("reset", 1)
       [] Succeeds(r) /\ call.pin # NoPin -> Transmit("verify", 0, 0, verify_pin(call.pin))
  /\ UNCHANGED data

\* Mutant: a PIN that is refused is presented again.
Verified_Retries(r) ==
  CASE Succeeds(r) -> Reset("reset", 1)
    [] r.sw = "6300" -> Transmit("verify_again", 0, 0, verify_pin(call.pin))
    [] OTHER -> Return(Failed)

\* The end of verify_pin_if_present.
Verified(r) ==
  CASE Succeeds(r) -> Reset("reset", 1)
    [] r.sw = "6300" -> Transmit("status", 0, 0, verify_pin_status)
    [] OTHER -> Return(Failed)

\* Mutant: a card that is logged in already will do.
OnVerify_LoggedIn(r) ==
  /\ at.step = "verify"
  /\ IF r.sw = "6f86" THEN Reset("reset", 1) ELSE Verified(r)
  /\ UNCHANGED data

OnVerify(r) ==
  /\ at.step = "verify"
  /\ IF r.sw = "6f86" THEN Transmit("logout", 0, 0, logout) ELSE Verified(r)
  /\ UNCHANGED data

OnLogout(r) ==
  /\ at.step = "logout"
  /\ IF Succeeds(r) THEN Transmit("verify_again", 0, 0, verify_pin(call.pin)) ELSE Return(Failed)
  /\ UNCHANGED data

OnVerifyAgain(r) == at.step = "verify_again" /\ Verified(r) /\ UNCHANGED data

OnStatus(r) == at.step = "status" /\ Return(Failed) /\ UNCHANGED data

-----------------------------------------------------------------------------
(* Selecting the file of the key or of the certificate                     *)

\* select_private_key_file and select_certificate_file have failed.
SelectFailed == IF call.op = "certificate" THEN Reset("scan_reset", 1) ELSE Return(Failed)

OnReset(r) ==
  /\ at.step = "reset"
  /\ IF Succeeds(r) THEN Select("select", at.n, 1) ELSE SelectFailed
  /\ UNCHANGED data

Selected ==
  IF call.op = "certificate"
  THEN Transmit("read", at.n, 1, read_binary(1))
  ELSE Transmit("mse", 0, 0, manage_security_environment(call.op, call.key))

\* Mutant: the first way of selecting the file is the only one.
OnSelect_FirstOnly(r) ==
  /\ at.step = "select"
  /\ CASE Succeeds(r) /\ at.i < Len(Sequences("select")[at.n]) -> Select("select", at.n, at.i + 1)
       [] Succeeds(r) /\ at.i = Len(Sequences("select")[at.n]) -> Selected
       [] ~Succeeds(r) -> SelectFailed
  /\ UNCHANGED data

OnSelect(r) ==
  /\ at.step = "select"
  /\ CASE Succeeds(r) /\ at.i < Len(Sequences("select")[at.n]) -> Select("select", at.n, at.i + 1)
       [] Succeeds(r) /\ at.i = Len(Sequences("select")[at.n]) -> Selected
       [] ~Succeeds(r) /\ at.n < Len(Sequences("select")) -> Reset("reset", at.n + 1)
       [] ~Succeeds(r) /\ at.n = Len(Sequences("select")) -> SelectFailed
  /\ UNCHANGED data

-----------------------------------------------------------------------------
(* The private-key operation                                               *)

\* The digest algorithm is looked at only here.
OnMse(r) ==
  /\ at.step = "mse"
  /\ IF Succeeds(r) /\ (call.op = "sign" => call.input \in Supported)
     THEN Transmit("pso", 0, 0, perform_security_operation(call.op, call.input))
     ELSE Return(Failed)
  /\ UNCHANGED data

\* All signatures have one length and nothing else has it.
HasSignatureLength(d) == d # Empty /\ d[1] = "sign"

OnPso(r) ==
  /\ at.step = "pso"
  /\ IF Succeeds(r) /\ (call.op = "sign" => HasSignatureLength(r.data))
     THEN Return([ok |-> TRUE, value |-> r.data])
     ELSE Return(Failed)
  /\ UNCHANGED data

-----------------------------------------------------------------------------
(* read_selected_certificate and scan_certificate_files                    *)

\* Mutant: the scan does not move on.
NextFile_Same ==
  IF at.n < Len(Sequences("scan_reset")) THEN Reset("scan_reset", at.n) ELSE Return(Failed)

\* The scan goes on with its next file.
NextFile ==
  IF at.n < Len(Sequences("scan_reset")) THEN Reset("scan_reset", at.n + 1) ELSE Return(Failed)

\* Mutant: what has been read of one file is kept when another one is read.
ReadFailed_Keeps ==
  /\ IF at.step = "read" THEN Reset("scan_reset", 1) ELSE NextFile
  /\ UNCHANGED data

ReadFailed ==
  /\ IF at.step = "read" THEN Reset("scan_reset", 1) ELSE NextFile
  /\ data' = <<>>

\* d begins with the first block of a certificate.
Starts(d) == d # <<>> /\ d[1][1] = "block" /\ d[1][3] = 1

\* A DER sequence that is no certificate.
Piece == << <<"piece">> >>

\* What extract_first_der_certificate may find in d, <<>> for nothing.  It takes
\* the first DER sequence that is complete: the certificate that d starts with,
\* if all of it is there, or else a piece of it, for a certificate is made of
\* sequences, the first of them within its first block.
extract_first_der_certificate(d) ==
  CASE d = <<>> -> {<<>>}
    [] Starts(d) /\ Len(d) >= Certificate[d[1][2]].chunks ->
         {SubSeq(d, 1, Certificate[d[1][2]].chunks)}
    [] Starts(d) /\ Len(d) < Certificate[d[1][2]].chunks -> {Piece}
    [] d # <<>> /\ ~Starts(d) -> {<<>>, Piece}

ReadDone(d) ==
  \E found \in extract_first_der_certificate(d) :
    IF found = <<>> THEN ReadFailed ELSE Return([ok |-> TRUE, value |-> found]) /\ data' = <<>>

\* Mutant: a file is read however long it is.
OnRead_NoLimit(r) ==
  LET some == Succeeds(r) /\ r.data # Empty
  IN  /\ at.step \in {"read", "scan_read"}
      /\ \/ /\ some /\ Full(r.data)
            /\ Transmit(at.step, at.n, at.i + 1, read_binary(at.i + 1))
            /\ data' = Append(data, r.data)
         \/ /\ (some /\ ~Full(r.data)) \/ r.sw = "6282"
            /\ ReadDone(Append(data, r.data))
         \/ /\ (Succeeds(r) /\ r.data = Empty) \/ r.sw \in {"6b00", "6a82", "6a88"}
            /\ ReadDone(data)
         \/ /\ r.sw \in {"atr", "6300", "63cx", "6982", "6983", "6986", "6f86"}
            /\ ReadFailed

OnRead(r) ==
  LET some == Succeeds(r) /\ r.data # Empty
  IN  /\ at.step \in {"read", "scan_read"}
      /\ \/ /\ some /\ Full(r.data) /\ at.i < MaxChunks
            /\ Transmit(at.step, at.n, at.i + 1, read_binary(at.i + 1))
            /\ data' = Append(data, r.data)
         \/ /\ (some /\ ~(Full(r.data) /\ at.i < MaxChunks)) \/ r.sw = "6282"
            /\ ReadDone(Append(data, r.data))
         \/ /\ (Succeeds(r) /\ r.data = Empty) \/ r.sw \in {"6b00", "6a82", "6a88"}
            /\ ReadDone(data)
         \/ /\ r.sw \in {"atr", "6300", "63cx", "6982", "6983", "6986", "6f86"}
            /\ ReadFailed

OnScanReset(r) ==
  /\ at.step = "scan_reset"
  /\ IF Succeeds(r) THEN Select("scan_select", at.n, 1) ELSE NextFile
  /\ UNCHANGED data

OnScanSelect(r) ==
  /\ at.step = "scan_select"
  /\ CASE Succeeds(r) /\ at.i < Len(Sequences("scan_select")[at.n]) ->
            Select("scan_select", at.n, at.i + 1)
       [] Succeeds(r) /\ at.i = Len(Sequences("scan_select")[at.n]) ->
            Transmit("scan_read", at.n, 1, read_binary(1))
       [] ~Succeeds(r) -> NextFile
  /\ UNCHANGED data

-----------------------------------------------------------------------------
(* Exchanges that end and exchanges that fail                              *)

\* The host reads the next block, whichever exchange it answers.
Receive ==
  /\ at # Idle /\ at.written
  /\ inbox # <<>>
  /\ LET r == Head(inbox)
     IN  \/ OnPowerOn(r) \/ OnSelectMf(r) \/ OnVerify(r) \/ OnLogout(r)
         \/ OnVerifyAgain(r) \/ OnStatus(r) \/ OnReset(r) \/ OnSelect(r)
         \/ OnMse(r) \/ OnPso(r) \/ OnRead(r) \/ OnScanReset(r) \/ OnScanSelect(r)
  /\ inbox' = Tail(inbox)
  /\ UNCHANGED <<call, card, calls, faults, cost>>

\* What an exchange that fails leads to: the end of the call, except that
\* reading a certificate goes on with the next way of finding one.
FailedExchange ==
  CASE at.step \in {"reset", "select"} -> SelectFailed /\ UNCHANGED data
    [] at.step \in {"read", "scan_read"} -> ReadFailed
    [] OTHER -> Return(Failed) /\ UNCHANGED data

Fault == faults < MaxFaults /\ faults' = faults + 1

\* The read times out, or there is none because the write has failed.  After a
\* time-out the answer may still come; if nothing is on its way the time-out is
\* certain and no fault of its own.
TimedOut ==
  /\ at # Idle
  /\ at.written => inbox = <<>>
  /\ IF at.written /\ outbox # <<>> THEN Fault ELSE UNCHANGED faults
  /\ FailedExchange
  /\ UNCHANGED <<call, inbox, card, calls, cost>>

\* The block that is read is malformed or carries a failure.
BadBlock ==
  /\ at # Idle /\ at.written
  /\ inbox # <<>>
  /\ Fault
  /\ FailedExchange
  /\ inbox' = Tail(inbox)
  /\ UNCHANGED <<call, card, calls, cost>>

\* The write fails: the command never reaches the reader.
WriteFails ==
  /\ at # Idle /\ at.written
  /\ outbox # <<>> /\ Last(outbox).to = <<calls, (sequence + 255) % 256>>
  /\ Fault
  /\ at' = [at EXCEPT !.written = FALSE]
  /\ outbox' = Front(outbox)
  /\ UNCHANGED <<call, data, result, sequence, inbox, card, calls, cost>>

Init ==
  /\ call \in Call
  /\ at = Idle
  /\ data = <<>>
  /\ result = Pending
  /\ sequence = 0
  /\ outbox = <<>>
  /\ inbox = <<>>
  /\ card = [selected |-> <<>>, verified |-> FALSE, env |-> <<>>, tries |-> MaxTries]
  /\ calls = 0
  /\ faults = 0
  /\ cost = [n \in 1..MaxCalls |-> 0]

Next == Begin \/ Execute \/ Receive \/ TimedOut \/ BadBlock \/ WriteFails

Spec == Init /\ [][Next]_vars

\* The reader executes what it is sent, and a read returns or times out.
FairSpec == Spec /\ WF_vars(Execute) /\ WF_vars(Receive) /\ WF_vars(TimedOut /\ faults' = faults)

-----------------------------------------------------------------------------
(* Properties                                                              *)

Steps == {"idle", "power_on", "select_mf", "verify", "logout", "verify_again", "status",
          "reset", "select", "mse", "pso", "read", "scan_reset", "scan_select", "scan_read"}

\* Every variable has its type; the card is never asked to go below no tries
\* and no file is selected that does not exist.
TypeOK ==
  /\ call \in Call
  /\ at.step \in Steps /\ at.n \in Nat /\ at.i \in Nat /\ at.written \in BOOLEAN
  /\ Len(data) < MaxChunks
  /\ result.ok \in BOOLEAN
  /\ sequence \in 0..255
  /\ card.selected \in Files /\ card.verified \in BOOLEAN /\ card.tries \in 0..MaxTries
  /\ calls \in 0..MaxCalls /\ faults \in 0..MaxFaults
  /\ cost \in [1..MaxCalls -> Nat]

\* What a call returns is the card's answer to that very call: the signature
\* or secret over its input under its key, although answers of earlier
\* exchanges may still be coming in and nothing in an answer names its command.
OwnOutcome ==
  result.ok /\ call.op # "certificate" => result.value = Outcome(call.op, call.key, call.input)

\* A certificate that is returned is whole and all of one file, although its
\* blocks are read one by one by position in whatever file is selected and the
\* answer to any of them may be late: a failure otherwise, "certificate file did
\* not contain a DER certificate" (lib.rs:1942).  It is so as long as no
\* certificate is longer than what is read of a file; of a longer one the first
\* DER sequence that is complete is returned, which is a piece of it.
WholeCertificate ==
  result.ok /\ call.op = "certificate" =>
    \E file \in DOMAIN Certificate :
      result.value = [i \in 1..Certificate[file].chunks |-> Block(file, i)]

\* A call that was given a wrong PIN returns nothing, even when the card is
\* still logged in from an earlier call and does not look at the PIN.
WrongPinRefused == call.pin \notin {RightPin, NoPin} => ~result.ok

\* No call costs the card more than one PIN try, also when the call before it
\* cost none or put the counter back: a call presents its PIN a second time only
\* when the first time the card has not looked at it, and a VERIFY that is
\* executed after its call was given up is still that call's.
OneTryPerCall == \A n \in 1..calls : cost[n] <= 1

\* Without faults a call with the right PIN succeeds as long as the PIN is not
\* blocked, if the token has a file for it in any of the places that are tried.
Selectable(paths) ==
  \E n \in DOMAIN paths :
    LET p == paths[n]
    IN  IF p[1].form = "id" THEN [i \in DOMAIN p |-> p[i].path[1]] \in Files
        ELSE p[1].form \in Understood /\ p[1].path \in Files

FaultlessCallSucceeds ==
  (/\ faults = 0 /\ at = Idle /\ calls > 0
   /\ call.pin = RightPin /\ card.tries > 0
   /\ call.op # "certificate"
   /\ Selectable(private_key_file_select_sequences(call.key))
   /\ call.op = "sign" => call.input \in Supported) => result.ok

\* Every call returns, whatever the card answers: no alternative is tried
\* forever and the scan ends.
CallEnds == \A n \in 1..MaxCalls : calls = n ~> (calls = n /\ at = Idle) \/ calls > n
===============================================================================
