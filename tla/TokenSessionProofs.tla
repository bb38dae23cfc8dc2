-------------------------- MODULE TokenSessionProofs --------------------------
(***************************************************************************)
(* Theorems about TokenSession: its type invariant, that a call returns    *)
(* the card's answer to that very call, that a certificate is whole, that  *)
(* a wrong PIN is refused, that a call costs one PIN try at most, and that *)
(* a call with the right PIN succeeds if nothing fails. They hold for any  *)
(* calls, files, PINs and bounds; all but the first and the last need a    *)
(* reader that takes two commands at most before it has executed any.      *)
(*                                                                         *)
(* The argument: an answer nobody has waited for stays in front of those   *)
(* to come, so a call is behind by as many answers as it has found.  A     *)
(* call that is behind reads the answer to its POWER ON, which is no       *)
(* success, in place of one it needs, and two commands at most come before *)
(* that.  Only a certificate is looked for further, and what it then reads *)
(* in place of a block is the answer to a SELECT, which has no data.       *)
(*                                                                         *)
(* Without faults, one answer at a time is on its way. The last part says  *)
(* for each step of a call for a key what is asked of the card, what the   *)
(* card has to have done before, and what it answers: a conversation with  *)
(* five ways through.                                                      *)
(***************************************************************************)
EXTENDS TokenSession, FiniteSetTheorems, SequenceTheorems, TLAPS

IsSeq(q) == Len(q) \in Nat /\ DOMAIN q = 1..Len(q) /\ q = [i \in DOMAIN q |-> q[i]]

-----------------------------------------------------------------------------
(* The inductive invariant *)

ReadSteps == {"read", "scan_read"}
PinSteps  == {"select_mf", "verify", "logout", "verify_again", "status"}
KeySteps  == {"mse", "pso"}
ScanSteps == {"scan_reset", "scan_select", "scan_read"}

CardOK(c) ==
  /\ c = [selected |-> c.selected, verified |-> c.verified, env |-> c.env, tries |-> c.tries]
  /\ c.selected \in Files /\ c.verified \in BOOLEAN /\ c.tries \in 0..MaxTries

TypeInv ==
  /\ call \in Call
  /\ at \in [step : Steps, n : Nat, i : Nat, written : BOOLEAN]
  /\ at.step = "idle" <=> at = Idle
  /\ IsSeq(data)
  /\ result.ok \in BOOLEAN
  /\ sequence \in 0..255
  /\ CardOK(card)
  /\ calls \in 0..MaxCalls /\ faults \in 0..MaxFaults
  /\ cost \in [1..MaxCalls -> Nat]

\* A call may be at this place of what it is to send, with these blocks read.
PlaceOf(step, n, i, blocks) ==
  /\ step \in {"reset", "select"} \cup ScanSteps => n \in 1..Len(Sequences(step))
  /\ step \in {"select", "scan_select"} => i \in 1..Len(Sequences(step)[n])
  /\ step \in ReadSteps \cup ScanSteps => call.op = "certificate"
  /\ step \in KeySteps => call.op # "certificate"
  /\ IF step \in ReadSteps THEN i \in 1..MaxChunks /\ Len(blocks) = i - 1 ELSE blocks = <<>>

PlaceInv == PlaceOf(at.step, at.n, at.i, data)

\* What is on its way, in the order in which it is read: answers, then commands to be answered.
Length == Len(inbox) + Len(outbox)

Item(k) == IF k <= Len(inbox) THEN inbox[k] ELSE outbox[k - Len(inbox)]

LinkInv ==
  /\ IsSeq(outbox) /\ IsSeq(inbox)
  /\ Len(outbox) <= ReaderDepth
  /\ Length <= IF at.written /\ at # Idle THEN ReaderDepth + 1 ELSE ReaderDepth
  /\ at.written /\ at # Idle => Length >= 1

\* Item k is the answer to a POWER ON, or that to a SELECT, or will be.
IsAtr(k) == IF k <= Len(inbox) THEN inbox[k].sw = "atr"
            ELSE outbox[k - Len(inbox)].command.ins = "POWER_ON"

IsPlain(k) == IF k <= Len(inbox) THEN inbox[k].sw \in {"9000", "6a82"} /\ inbox[k].data = Empty
              ELSE outbox[k - Len(inbox)].command.ins = "SELECT"

\* The one item on its way is the answer to the command that was sent last, or will be.
InStep ==
  /\ Length = 1
  /\ at.step \in {"verify", "verify_again"} =>
       IF inbox = <<>> THEN outbox[1].command = verify_pin(call.pin) /\ outbox[1].to[1] = calls
       ELSE inbox[1].sw = "9000" => call.pin = RightPin
  /\ at.step = "mse" =>
       IF inbox = <<>> THEN outbox[1].command = manage_security_environment(call.op, call.key)
       ELSE inbox[1].sw = "9000" => card.env = <<call.op, call.key>>
  /\ at.step = "pso" =>
       IF inbox = <<>> THEN /\ outbox[1].command = perform_security_operation(call.op, call.input)
                            /\ card.env = <<call.op, call.key>>
       ELSE inbox[1].sw = "9000" => inbox[1].data = Outcome(call.op, call.key, call.input)

\* A call is in step with the card, or its ATR is still to come and comes in time.
SessionInv ==
  at.written =>
    /\ at.step = "power_on" => IsAtr(Length)
    /\ at.step = "select_mf" => InStep \/ IsAtr(1) \/ (Length >= 2 /\ IsAtr(2))
    /\ at.step = "verify" => InStep \/ IsAtr(1)
    /\ at.step \in {"logout", "verify_again"} \cup KeySteps => InStep
    /\ call.op # "certificate" =>
         /\ at.step = "reset" => InStep \/ IsAtr(1)
         /\ at.step = "select" => InStep

\* What the card says to READ BINARY of block i.
ReadFits(r, i) ==
  LET file == card.selected
  IN  /\ r.sw \in {"9000", "6282", "6b00", "6986"}
      /\ r.sw # "6986" => file \in DOMAIN Certificate
      /\ r.sw \in {"9000", "6282"} => i <= Certificate[file].chunks /\ r.data = Block(file, i)
      /\ r.sw = "6282" => ~Full(Block(file, i))
      /\ r.sw = "6b00" => i > Certificate[file].chunks

\* Only a block that was asked for is taken for one.
ReadInv ==
  at.written =>
    /\ at.step \in {"reset", "scan_reset", "select", "scan_select"} => IsPlain(Length)
    /\ at.step \in {"select", "scan_select"} /\ Length >= 2 => IsPlain(Length - 1)
    /\ at.step \in ReadSteps =>
         /\ at.i > 1 => Length = 1 /\ card.selected \in DOMAIN Certificate
         /\ \A j \in 1..at.i - 1 : /\ data[j] = Block(card.selected, j)
                                   /\ j <= Certificate[card.selected].chunks
         /\ \A k \in 1..Length - 1 : IsPlain(k)
         /\ Length = 1 => IF inbox = <<>> THEN outbox[1].command = read_binary(at.i)
                          ELSE ReadFits(inbox[1], at.i)

\* A call whose PIN is wrong gets no further than that.
PinInv ==
  call.pin \notin {RightPin, NoPin} =>
    ~result.ok /\ at.step \in {"idle", "power_on"} \cup PinSteps

\* What a command in the outbox may cost call n, and what call n may still send.
Costs(n, k) ==
  IF k <= Len(outbox) /\ outbox[k].command.ins = "VERIFY" /\ outbox[k].to[1] = n THEN 1 ELSE 0

\* The call may still present its PIN.
MayPresent ==
  \/ at.step \in {"power_on", "select_mf", "logout"}
  \/ at.step = "verify" /\ at.written /\ Length = 1 /\ inbox # <<>> /\ inbox[1].sw = "6f86"

MayCost(n) == IF n = calls /\ MayPresent THEN 1 ELSE 0

\* A call has one try to spend from when it begins; one that is yet to be made has sent nothing.
Allowed(n) == IF n <= calls THEN 1 ELSE 0

TriesInv ==
  \A n \in 1..MaxCalls : cost[n] + Costs(n, 1) + Costs(n, 2) + MayCost(n) <= Allowed(n)

BasicInv == TypeInv /\ PlaceInv /\ LinkInv

\* The reader takes no more than two commands ahead.
Shallow == ReaderDepth <= 2

\* No certificate is longer than what is read of a file.
Readable == \A file \in DOMAIN Certificate : Certificate[file].chunks <= MaxChunks

Promises == PinInv /\ TriesInv /\ OwnOutcome /\ (Readable => WholeCertificate)

IInv == BasicInv /\ SessionInv /\ ReadInv /\ Promises

-----------------------------------------------------------------------------
(* Sequences *)

LEMMA SeqOfItems ==
  ASSUME NEW q, IsSeq(q)
  PROVE  \E S : q \in Seq(S)
<1> DEFINE S == {q[i] : i \in DOMAIN q}
<1>1. q \in [1..Len(q) -> S]
  BY DEF IsSeq
<1>2. q \in Seq(S)
  BY <1>1, SeqDef DEF IsSeq
<1> QED
  BY <1>2

LEMMA SeqIsSeq ==
  ASSUME NEW S, NEW q \in Seq(S)
  PROVE  IsSeq(q)
BY LenProperties DEF IsSeq

LEMMA EmptyFacts ==
  /\ IsSeq(<<>>) /\ Len(<<>>) = 0
  /\ \A q : IsSeq(q) => (q = <<>> <=> Len(q) = 0)
<1>1. IsSeq(<<>>) /\ Len(<<>>) = 0
  BY EmptySeq, SeqIsSeq
<1>2. ASSUME NEW q, IsSeq(q), Len(q) = 0 PROVE q = <<>>
  BY <1>2, SeqOfItems, EmptySeq
<1> QED
  BY <1>1, <1>2

LEMMA AppendFacts ==
  ASSUME NEW q, IsSeq(q), NEW e
  PROVE  /\ IsSeq(Append(q, e)) /\ Len(Append(q, e)) = Len(q) + 1
         /\ \A i \in 1..Len(q) : Append(q, e)[i] = q[i]
         /\ Append(q, e)[Len(q) + 1] = e
<1>1. PICK S : q \in Seq(S)
  BY SeqOfItems
<1>2. q \in Seq(S \cup {e}) /\ e \in S \cup {e}
  BY <1>1, SeqMonotonic
<1>3. /\ Append(q, e) \in Seq(S \cup {e}) /\ Len(Append(q, e)) = Len(q) + 1
      /\ \A i \in 1..Len(q) : Append(q, e)[i] = q[i]
      /\ Append(q, e)[Len(q) + 1] = e
  BY <1>2, AppendProperties
<1>4. IsSeq(Append(q, e))
  BY <1>3, SeqIsSeq
<1> QED
  BY <1>3, <1>4

LEMMA TailFacts ==
  ASSUME NEW q, IsSeq(q), q # <<>>
  PROVE  /\ Len(q) >= 1 /\ Head(q) = q[1]
         /\ IsSeq(Tail(q)) /\ Len(Tail(q)) = Len(q) - 1
         /\ \A i \in 1..Len(q) - 1 : Tail(q)[i] = q[i + 1]
<1>1. PICK S : q \in Seq(S)
  BY SeqOfItems
<1>2. Tail(q) \in Seq(S) /\ Len(Tail(q)) = Len(q) - 1 /\ \A i \in 1..Len(Tail(q)) : Tail(q)[i] = q[i + 1]
  BY <1>1, HeadTailProperties
<1>3. Len(q) >= 1
  BY EmptyFacts DEF IsSeq
<1>4. IsSeq(Tail(q))
  BY <1>2, SeqIsSeq
<1>5. Head(q) = q[1]
  BY <1>1
<1>6. Len(q) - 1 \in Nat /\ Len(Tail(q)) = Len(q) - 1
  BY <1>2, <1>3 DEF IsSeq
<1> QED
  BY <1>2, <1>3, <1>4, <1>5, <1>6

LEMMA FrontFacts ==
  ASSUME NEW q, IsSeq(q), q # <<>>
  PROVE  /\ IsSeq(Front(q)) /\ Len(Front(q)) = Len(q) - 1
         /\ \A i \in 1..Len(q) - 1 : Front(q)[i] = q[i]
<1>1. PICK S : q \in Seq(S)
  BY SeqOfItems
<1>2. Len(q) \in Nat \ {0}
  BY EmptyFacts DEF IsSeq
<1>3. \A i \in 1..Len(q) - 1 : q[i] \in S
  BY <1>1, <1>2, ElementOfSeq
<1> DEFINE f == SubSeq(q, 1, Len(q) - 1)
<1>4. /\ f \in Seq(S) /\ Len(f) = IF 1 <= Len(q) - 1 THEN (Len(q) - 1) - 1 + 1 ELSE 0
      /\ \A i \in 1..(Len(q) - 1) - 1 + 1 : f[i] = q[1 + i - 1]
  BY <1>2, <1>3, SubSeqProperties
<1>5. Front(q) = f
  BY DEF Front
<1> HIDE DEF f
<1>6. IsSeq(f)
  BY <1>4, SeqIsSeq
<1>7. Len(f) = Len(q) - 1
  <2>1. CASE 1 <= Len(q) - 1
    BY <1>2, <1>4, <2>1
  <2>2. CASE ~(1 <= Len(q) - 1)
    <3>1. \A n \in Nat \ {0} : ~(1 <= n - 1) => n - 1 = 0
      OBVIOUS
    <3>2. Len(f) = 0
      BY <1>4, <2>2
    <3> QED
      BY <1>2, <2>2, <3>1, <3>2
  <2> QED
    BY <2>1, <2>2
<1>8. ASSUME NEW i \in 1..Len(q) - 1 PROVE f[i] = q[i]
  <2>1. i \in 1..(Len(q) - 1) - 1 + 1 /\ 1 + i - 1 = i
    BY <1>2
  <2> QED
    BY <1>4, <2>1
<1> QED
  BY <1>5, <1>6, <1>7, <1>8

-----------------------------------------------------------------------------
(* What a call sends *)

LEMMA CandidateFacts ==
  ASSUME NEW k \in Nat
  PROVE  \E n \in Nat \ {0} : /\ Len(certificate_candidate_file_ids(k)) = n
                              /\ DOMAIN certificate_candidate_file_ids(k) = 1..n
<1> DEFINE all == {certificate_file_id(j) : j \in {k} \cup 1..LastSuffix}
<1>1. 0 \in Int /\ 768 + k + LastSuffix \in Int /\ all \subseteq 0..768 + k + LastSuffix
  BY BoundAssumption DEF certificate_file_id
<1>2. IsFiniteSet(all)
  <2>1. IsFiniteSet(0..768 + k + LastSuffix)
    BY <1>1, FS_Interval
  <2>2. all \in SUBSET (0..768 + k + LastSuffix)
    BY <1>1
  <2> HIDE DEF all
  <2>3. \A S : \A T \in SUBSET S : IsFiniteSet(S) => IsFiniteSet(T)
    BY FS_Subset
  <2> QED
    BY <2>1, <2>2, <2>3
<1>3. all # {}
  OBVIOUS
<1>4. Cardinality(all) \in Nat \ {0}
  BY <1>2, <1>3, FS_CardinalityType, FS_EmptySet
<1>5. certificate_candidate_file_ids(k) = [n \in 1..Cardinality(all) |->
                                             CHOOSE id \in all : Cardinality({x \in all : x <= id}) = n]
  BY DEF certificate_candidate_file_ids
<1> HIDE DEF all
<1> QED
  BY <1>4, <1>5

\* A scan tries each candidate in four directories, and selects it by one command at least.
LEMMA ScanFacts ==
  ASSUME NEW k \in Nat
  PROVE  /\ Len(scan_sequences(k)) \in Nat \ {0}
         /\ \A n \in 1..Len(scan_sequences(k)) :
              /\ Len(scan_sequences(k)[n]) \in Nat \ {0}
              /\ \A i \in 1..Len(scan_sequences(k)[n]) : scan_sequences(k)[n][i].ins = "SELECT"
<1> DEFINE ids  == certificate_candidate_file_ids(k)
           dirs == << <<X1000, X1000, X6004>>, <<X1000, X1000>>, <<X5000>>, <<>> >>
           path(n) == Append(dirs[((n - 1) \div Len(ids)) + 1], ids[((n - 1) % Len(ids)) + 1])
<1>1. Len(ids) \in Nat \ {0}
  BY CandidateFacts
<1> HIDE DEF ids
<1>2. \A j \in 1..4 : IsSeq(dirs[j])
  <2>1. dirs[1] \in Seq(Nat) /\ dirs[2] \in Seq(Nat) /\ dirs[3] \in Seq(Nat) /\ dirs[4] \in Seq(Nat)
    BY EmptySeq DEF X1000, X5000, X6004
  <2>2. IsSeq(dirs[1]) /\ IsSeq(dirs[2]) /\ IsSeq(dirs[3]) /\ IsSeq(dirs[4])
    <3> HIDE DEF dirs
    <3> QED
      BY <2>1, SeqIsSeq
  <2>3. \A j \in 1..4 : j = 1 \/ j = 2 \/ j = 3 \/ j = 4
    OBVIOUS
  <2> HIDE DEF dirs
  <2> QED
    BY <2>2, <2>3
<1>3. \A n \in 1..4 * Len(ids) : ((n - 1) \div Len(ids)) + 1 \in 1..4
  BY <1>1
<1>4. \A n \in 1..4 * Len(ids) : IsSeq(path(n)) /\ Len(path(n)) \in Nat \ {0}
  <2> HIDE DEF dirs
  <2>1. ASSUME NEW n \in 1..4 * Len(ids)
        PROVE  IsSeq(path(n)) /\ Len(path(n)) \in Nat \ {0}
    <3>1. IsSeq(dirs[((n - 1) \div Len(ids)) + 1])
      BY <1>2, <1>3
    <3> QED
      BY <3>1, AppendFacts DEF IsSeq
  <2> QED
    BY <2>1
<1>5. scan_sequences(k) = [n \in 1..4 * Len(ids) |-> [i \in DOMAIN path(n) |-> select_file_by_id(path(n)[i])]]
  BY DEF scan_sequences, ids
<1> HIDE DEF path
<1>6. 4 * Len(ids) \in Nat \ {0}
  BY <1>1
<1>7. Len(scan_sequences(k)) = 4 * Len(ids)
  BY <1>5, <1>6
<1>8. ASSUME NEW n \in 1..4 * Len(ids)
      PROVE  /\ Len(scan_sequences(k)[n]) \in Nat \ {0}
             /\ \A i \in 1..Len(scan_sequences(k)[n]) : scan_sequences(k)[n][i].ins = "SELECT"
  <2>1. scan_sequences(k)[n] = [i \in 1..Len(path(n)) |-> select_file_by_id(path(n)[i])]
    BY <1>4, <1>5 DEF IsSeq
  <2>2. Len(path(n)) \in Nat \ {0}
    BY <1>4
  <2>3. Len(scan_sequences(k)[n]) = Len(path(n))
    BY <2>1, <2>2
  <2> QED
    BY <2>1, <2>2, <2>3 DEF select_file_by_id
<1> QED
  BY <1>6, <1>7, <1>8

LEMMA SelectFacts ==
  ASSUME NEW dir, NEW id, NEW id15
  PROVE  /\ Len(select_sequences(dir, id, id15)) = 5
         /\ \A n \in 1..5 :
              /\ Len(select_sequences(dir, id, id15)[n]) \in Nat \ {0}
              /\ \A i \in 1..Len(select_sequences(dir, id, id15)[n]) :
                   select_sequences(dir, id, id15)[n][i].ins = "SELECT"
<1> DEFINE s == select_sequences(dir, id, id15)
<1>1. \E p, q, path, path15 :
        s = << <<select_by_path("relative", path)>>, <<select_by_path("absolute", path)>>,
               [i \in 1..4 |-> select_file_by_id(p[i])],
               <<select_by_path("relative", path15)>>, [i \in 1..2 |-> select_file_by_id(q[i])] >>
  BY DEF select_sequences
<1>2. PICK p, q, path, path15 :
        s = << <<select_by_path("relative", path)>>, <<select_by_path("absolute", path)>>,
               [i \in 1..4 |-> select_file_by_id(p[i])],
               <<select_by_path("relative", path15)>>, [i \in 1..2 |-> select_file_by_id(q[i])] >>
  BY <1>1
<1> HIDE DEF s
<1>3. /\ Len(s) = 5
      /\ s[1] = <<select_by_path("relative", path)>> /\ s[2] = <<select_by_path("absolute", path)>>
      /\ s[3] = [i \in 1..4 |-> select_file_by_id(p[i])]
      /\ s[4] = <<select_by_path("relative", path15)>>
      /\ s[5] = [i \in 1..2 |-> select_file_by_id(q[i])]
  BY <1>2
<1>4. \A x : Len(<<x>>) = 1 /\ <<x>>[1] = x
  OBVIOUS
<1>5. /\ Len(s[1]) = 1 /\ s[1][1].ins = "SELECT"
      /\ Len(s[2]) = 1 /\ s[2][1].ins = "SELECT"
      /\ Len(s[4]) = 1 /\ s[4][1].ins = "SELECT"
  BY <1>3, <1>4 DEF select_by_path
<1>6. Len(s[3]) = 4 /\ \A i \in 1..4 : s[3][i].ins = "SELECT"
  BY <1>3 DEF select_file_by_id
<1>7. Len(s[5]) = 2 /\ \A i \in 1..2 : s[5][i].ins = "SELECT"
  BY <1>3 DEF select_file_by_id
<1>8. /\ Len(s) = 5
      /\ \A n \in 1..5 : /\ Len(s[n]) \in Nat \ {0}
                         /\ \A i \in 1..Len(s[n]) : s[n][i].ins = "SELECT"
  <2>1. \A i \in 1..1 : i = 1
    OBVIOUS
  <2>2. ASSUME NEW n \in 1..5
        PROVE  /\ Len(s[n]) \in Nat \ {0}
               /\ \A i \in 1..Len(s[n]) : s[n][i].ins = "SELECT"
    <3>1. n = 1 \/ n = 2 \/ n = 3 \/ n = 4 \/ n = 5
      OBVIOUS
    <3> QED
      BY <1>5, <1>6, <1>7, <2>1, <3>1
  <2> QED
    BY <1>3, <2>2
<1> QED
  BY <1>8 DEF s

\* Every way of selecting a file is a series of SELECTs.
LEMMA SequencesFacts ==
  ASSUME call \in Call, NEW step
  PROVE  /\ Len(Sequences(step)) \in Nat \ {0}
         /\ \A n \in 1..Len(Sequences(step)) :
              /\ Len(Sequences(step)[n]) \in Nat \ {0}
              /\ \A i \in 1..Len(Sequences(step)[n]) : Sequences(step)[n][i].ins = "SELECT"
<1>1. call.key \in Nat
  BY CallAssumption
<1>2. CASE step \in ScanSteps
  <2>1. Sequences(step) = scan_sequences(call.key)
    BY <1>2 DEF Sequences, ScanSteps
  <2> QED
    BY <1>1, <2>1, ScanFacts
<1>3. CASE step \notin ScanSteps
  <2>1. \E dir, id, id15 : Sequences(step) = select_sequences(dir, id, id15)
    BY <1>3 DEF Sequences, ScanSteps, private_key_file_select_sequences, certificate_file_select_sequences
  <2>2. PICK dir, id, id15 : Sequences(step) = select_sequences(dir, id, id15)
    BY <2>1
  <2>3. /\ Len(select_sequences(dir, id, id15)) = 5
        /\ \A n \in 1..5 :
             /\ Len(select_sequences(dir, id, id15)[n]) \in Nat \ {0}
             /\ \A i \in 1..Len(select_sequences(dir, id, id15)[n]) :
                  select_sequences(dir, id, id15)[n][i].ins = "SELECT"
    BY SelectFacts
  <2> QED
    BY <2>2, <2>3
<1> QED
  BY <1>2, <1>3

LEMMA SameSequences ==
  /\ Sequences("reset") = Sequences("select")
  /\ Sequences("scan_select") = Sequences("scan_reset") /\ Sequences("scan_read") = Sequences("scan_reset")
BY DEF Sequences

-----------------------------------------------------------------------------
(* The link after a step of the host *)

\* The host has read what it could, and nothing is left to be waited for.
Room == IsSeq(inbox') /\ Len(inbox') + Len(outbox) <= ReaderDepth

Kept == UNCHANGED <<call, card, calls, cost>> /\ faults' \in 0..MaxFaults

LEMMA ReadRoom ==
  ASSUME LinkInv, at # Idle, at.written, inbox # <<>>, inbox' = Tail(inbox)
  PROVE  Room
BY TailFacts, BoundAssumption DEF LinkInv, Length, Room, IsSeq

LEMMA UnreadRoom ==
  ASSUME TypeInv, LinkInv, at.written => inbox = <<>>, inbox' = inbox
  PROVE  Room
BY EmptyFacts, BoundAssumption DEF TypeInv, LinkInv, Length, Room, IsSeq

\* The command is the last in the outbox, if the reader has taken it.
LEMMA WriteFacts ==
  ASSUME LinkInv, Room, NEW step \in Steps \ {"idle"}, NEW n \in Nat, NEW i \in Nat, NEW command, NEW to,
         Write(step, n, i, command, to)
  PROVE  /\ LinkInv' /\ at' \in [step : Steps, n : Nat, i : Nat, written : BOOLEAN]
         /\ at' # Idle /\ at'.step = step /\ at'.n = n /\ at'.i = i
         /\ \A k \in 1..Len(outbox) : outbox'[k] = outbox[k]
         /\ at'.written => /\ Len(outbox') = Len(outbox) + 1 /\ outbox'[Len(outbox) + 1].command = command
                           /\ outbox'[Len(outbox) + 1].to = to
         /\ ~at'.written => outbox' = outbox
<1> DEFINE e == [command |-> command, to |-> to]
<1>1. /\ IsSeq(outbox) /\ Len(outbox) \in Nat /\ Len(outbox) <= ReaderDepth /\ ReaderDepth \in Nat
      /\ IsSeq(inbox') /\ Len(inbox') \in Nat /\ Len(inbox') + Len(outbox) <= ReaderDepth
  BY BoundAssumption DEF LinkInv, Room, IsSeq
<1>2. /\ IsSeq(Append(outbox, e)) /\ Len(Append(outbox, e)) = Len(outbox) + 1
      /\ \A k \in 1..Len(outbox) : Append(outbox, e)[k] = outbox[k]
      /\ Append(outbox, e)[Len(outbox) + 1] = e
  BY <1>1, AppendFacts
<1>3. e.command = command /\ e.to = to
  OBVIOUS
<1> HIDE DEF e
<1>4. /\ at' = [step |-> step, n |-> n, i |-> i, written |-> Len(outbox) < ReaderDepth]
      /\ outbox' = IF Len(outbox) < ReaderDepth THEN Append(outbox, e) ELSE outbox
  BY DEF Write, e
<1>5. at' \in [step : Steps, n : Nat, i : Nat, written : BOOLEAN] /\ at' # Idle
      /\ at'.step = step /\ at'.n = n /\ at'.i = i /\ at'.written = (Len(outbox) < ReaderDepth)
  BY <1>4 DEF Idle
<1>6. /\ IsSeq(outbox') /\ \A k \in 1..Len(outbox) : outbox'[k] = outbox[k]
      /\ at'.written => /\ Len(outbox') = Len(outbox) + 1 /\ outbox'[Len(outbox) + 1].command = command
                        /\ outbox'[Len(outbox) + 1].to = to
      /\ ~at'.written => outbox' = outbox
  BY <1>1, <1>2, <1>3, <1>4, <1>5
<1>7. LinkInv'
  BY <1>1, <1>5, <1>6 DEF LinkInv, Length
<1> QED
  BY <1>5, <1>6, <1>7

LEMMA TransmitFacts ==
  ASSUME TypeInv, LinkInv, Room, Kept, NEW step \in Steps \ {"idle"}, NEW n \in Nat, NEW i \in Nat, NEW command,
         Transmit(step, n, i, command), IsSeq(data')
  PROVE  /\ TypeInv' /\ LinkInv' /\ UNCHANGED result
         /\ at' # Idle /\ at'.step = step /\ at'.n = n /\ at'.i = i
         /\ \A k \in 1..Len(outbox) : outbox'[k] = outbox[k]
         /\ at'.written => /\ Len(outbox') = Len(outbox) + 1 /\ outbox'[Len(outbox) + 1].command = command
                           /\ outbox'[Len(outbox) + 1].to[1] = calls
         /\ ~at'.written => outbox' = outbox
<1>1. Write(step, n, i, command, <<calls, sequence>>) /\ sequence' = (sequence + 1) % 256 /\ UNCHANGED result
  BY DEF Transmit
<1>2. sequence' \in 0..255
  BY <1>1 DEF TypeInv
<1>3. at' # Idle /\ at'.step = step /\ at' \in [step : Steps, n : Nat, i : Nat, written : BOOLEAN]
  BY <1>1, WriteFacts
<1>4. TypeInv'
  BY <1>1, <1>2, <1>3 DEF TypeInv, Kept
<1>5. \A to : to = <<calls, sequence>> => to[1] = calls
  OBVIOUS
<1>6. /\ LinkInv' /\ at'.n = n /\ at'.i = i
      /\ \A k \in 1..Len(outbox) : outbox'[k] = outbox[k]
      /\ at'.written => /\ Len(outbox') = Len(outbox) + 1 /\ outbox'[Len(outbox) + 1].command = command
                        /\ outbox'[Len(outbox) + 1].to = <<calls, sequence>>
      /\ ~at'.written => outbox' = outbox
  BY <1>1, WriteFacts
<1> QED
  BY <1>1, <1>3, <1>4, <1>5, <1>6

LEMMA ReturnFacts ==
  ASSUME TypeInv, LinkInv, Room, Kept, NEW r, r.ok \in BOOLEAN, Return(r), IsSeq(data')
  PROVE  TypeInv' /\ LinkInv' /\ at' = Idle /\ at'.step = "idle" /\ at'.written
         /\ result' = r /\ UNCHANGED <<outbox, sequence>>
<1>1. at' = Idle /\ result' = r /\ UNCHANGED <<outbox, sequence>>
  BY DEF Return
<1>2. Idle \in [step : Steps, n : Nat, i : Nat, written : BOOLEAN] /\ Idle.step = "idle" /\ Idle.written
  BY DEF Idle, Steps
<1>3. TypeInv'
  BY <1>1, <1>2 DEF TypeInv, Kept
<1>4. LinkInv'
  BY <1>1, <1>2 DEF LinkInv, Room, Length
<1> QED
  BY <1>1, <1>2, <1>3, <1>4

-----------------------------------------------------------------------------
(* Types and places *)

LEMMA TransmitBasic ==
  ASSUME BasicInv, Room, Kept, NEW step \in Steps \ {"idle"}, NEW n \in Nat, NEW i \in Nat, NEW command,
         Transmit(step, n, i, command), IsSeq(data'), PlaceOf(step, n, i, data')
  PROVE  BasicInv'
<1>1. TypeInv' /\ LinkInv' /\ at'.step = step /\ at'.n = n /\ at'.i = i
  BY TransmitFacts DEF BasicInv
<1>2. call' = call
  BY DEF Kept
<1> QED
  BY <1>1, <1>2 DEF BasicInv, PlaceInv, PlaceOf, Sequences

LEMMA ReturnBasic ==
  ASSUME BasicInv, Room, Kept, NEW r, r.ok \in BOOLEAN, Return(r), data' = <<>>
  PROVE  BasicInv'
<1>1. TypeInv' /\ LinkInv' /\ at'.step = "idle"
  BY ReturnFacts, EmptyFacts DEF BasicInv
<1> QED
  BY <1>1 DEF BasicInv, PlaceInv, PlaceOf, ReadSteps, ScanSteps, KeySteps

LEMMA FailedBasic ==
  ASSUME BasicInv, Room, Kept, Return(Failed), data' = <<>>
  PROVE  BasicInv'
<1>1. Failed.ok \in BOOLEAN
  BY DEF Failed
<1> QED
  BY <1>1, ReturnBasic

\* The host goes on with select_master_file before alternative n of step.
LEMMA ResetBasic ==
  ASSUME BasicInv, Room, Kept, NEW step \in {"reset", "scan_reset"}, NEW n \in 1..Len(Sequences(step)),
         Reset(step, n), data' = <<>>, step = "scan_reset" => call.op = "certificate"
  PROVE  BasicInv'
<1>1. step \in Steps \ {"idle"} /\ n \in Nat /\ 1 \in Nat
  BY SequencesFacts DEF Steps, BasicInv, TypeInv
<1>2. PlaceOf(step, n, 1, data')
  BY DEF PlaceOf, ReadSteps, ScanSteps, KeySteps
<1> QED
  BY <1>1, <1>2, TransmitBasic, EmptyFacts DEF Reset

LEMMA NextFileBasic ==
  ASSUME BasicInv, Room, Kept, NextFile, at.step \in ScanSteps, data' = <<>>
  PROVE  BasicInv'
<1>1. at.n \in 1..Len(Sequences("scan_reset")) /\ call.op = "certificate"
  BY SameSequences DEF BasicInv, PlaceInv, PlaceOf, ScanSteps
<1>2. at.n < Len(Sequences("scan_reset")) => at.n + 1 \in 1..Len(Sequences("scan_reset"))
  BY <1>1, SequencesFacts DEF BasicInv, TypeInv
<1> QED
  BY <1>1, <1>2, ResetBasic, FailedBasic DEF NextFile

LEMMA FirstFile ==
  ASSUME BasicInv
  PROVE  \A step : 1 \in 1..Len(Sequences(step))
BY SequencesFacts DEF BasicInv, TypeInv

LEMMA SelectFailedBasic ==
  ASSUME BasicInv, Room, Kept, SelectFailed, data' = <<>>
  PROVE  BasicInv'
BY FirstFile, ResetBasic, FailedBasic DEF SelectFailed

LEMMA ReadFailedBasic ==
  ASSUME BasicInv, Room, Kept, ReadFailed, at.step \in ReadSteps
  PROVE  BasicInv'
<1>1. data' = <<>> /\ call.op = "certificate"
  BY DEF ReadFailed, BasicInv, PlaceInv, PlaceOf
<1>2. CASE at.step = "read"
  BY <1>1, <1>2, FirstFile, ResetBasic DEF ReadFailed
<1>3. CASE at.step = "scan_read"
  BY <1>1, <1>3, NextFileBasic DEF ReadFailed, ScanSteps
<1> QED
  BY <1>2, <1>3 DEF ReadSteps

LEMMA FailedExchangeBasic ==
  ASSUME BasicInv, Room, Kept, FailedExchange
  PROVE  BasicInv'
<1>1. CASE at.step \in {"reset", "select"}
  <2>1. SelectFailed /\ data' = data /\ data = <<>>
    BY <1>1 DEF FailedExchange, BasicInv, PlaceInv, PlaceOf, ReadSteps
  <2> QED
    BY <2>1, SelectFailedBasic
<1>2. CASE at.step \in ReadSteps
  <2>1. ReadFailed
    BY <1>2 DEF FailedExchange, ReadSteps
  <2> QED
    BY <1>2, <2>1, ReadFailedBasic
<1>3. CASE at.step \notin {"reset", "select"} \cup ReadSteps
  <2>1. Return(Failed) /\ data' = data /\ data = <<>>
    BY <1>3 DEF FailedExchange, BasicInv, PlaceInv, PlaceOf, ReadSteps
  <2> QED
    BY <2>1, FailedBasic
<1> QED
  BY <1>1, <1>2, <1>3

\* The steps that send one command, apart from those that select and read.
LEMMA PlainBasic ==
  ASSUME BasicInv, Room, Kept, NEW step \in {"select_mf", "verify", "logout", "verify_again", "status"} \cup KeySteps,
         step \in KeySteps => call.op # "certificate",
         NEW command, Transmit(step, 0, 0, command), data' = <<>>
  PROVE  BasicInv'
<1>1. step \in Steps \ {"idle"} /\ 0 \in Nat
  BY DEF Steps, KeySteps
<1>2. PlaceOf(step, 0, 0, data')
  BY DEF PlaceOf, ReadSteps, ScanSteps, KeySteps
<1> QED
  BY <1>1, <1>2, TransmitBasic, EmptyFacts

LEMMA VerifiedBasic ==
  ASSUME BasicInv, Room, Kept, NEW r, Verified(r), data' = <<>>
  PROVE  BasicInv'
<1>1. CASE Succeeds(r)
  <2>1. Reset("reset", 1)
    BY <1>1 DEF Verified, Succeeds
  <2> QED
    BY <2>1, FirstFile, ResetBasic
<1>2. CASE r.sw = "6300"
  <2>1. Transmit("status", 0, 0, verify_pin_status)
    BY <1>2 DEF Verified, Succeeds
  <2> QED
    BY <2>1, PlainBasic DEF KeySteps
<1>3. CASE ~Succeeds(r) /\ r.sw # "6300"
  <2>1. Return(Failed)
    BY <1>3 DEF Verified
  <2> QED
    BY <2>1, FailedBasic
<1> QED
  BY <1>1, <1>2, <1>3

LEMMA ReadDoneBasic ==
  ASSUME BasicInv, Room, Kept, NEW d, ReadDone(d), at.step \in ReadSteps
  PROVE  BasicInv'
<1>1. PICK found : IF found = <<>> THEN ReadFailed
                   ELSE Return([ok |-> TRUE, value |-> found]) /\ data' = <<>>
  BY DEF ReadDone
<1>2. CASE found = <<>>
  BY <1>1, <1>2, ReadFailedBasic
<1>3. CASE found # <<>>
  <2> DEFINE r == [ok |-> TRUE, value |-> found]
  <2>1. Return(r) /\ data' = <<>>
    BY <1>1, <1>3
  <2>2. r.ok \in BOOLEAN
    OBVIOUS
  <2> HIDE DEF r
  <2> QED
    BY <2>1, <2>2, ReturnBasic
<1> QED
  BY <1>2, <1>3

\* The handlers outside of reading.
LEMMA HandlerBasic ==
  ASSUME BasicInv, Room, Kept, NEW r,
         \/ OnPowerOn(r) \/ OnSelectMf(r) \/ OnVerify(r) \/ OnLogout(r) \/ OnVerifyAgain(r) \/ OnStatus(r)
         \/ OnReset(r) \/ OnSelect(r) \/ OnMse(r) \/ OnPso(r) \/ OnScanReset(r) \/ OnScanSelect(r)
  PROVE  BasicInv'
<1>1. data' = <<>>
  BY DEF OnPowerOn, OnSelectMf, OnVerify, OnLogout, OnVerifyAgain, OnStatus, OnReset, OnSelect, OnMse, OnPso,
         OnScanReset, OnScanSelect, BasicInv, PlaceInv, PlaceOf, ReadSteps
<1>2. CASE OnPowerOn(r)
  BY <1>1, <1>2, PlainBasic DEF OnPowerOn, KeySteps
<1>3. CASE OnSelectMf(r)
  <2>1. \/ Return(Failed) \/ Reset("reset", 1)
        \/ Transmit("verify", 0, 0, verify_pin(call.pin))
    BY <1>3 DEF OnSelectMf
  <2> QED
    BY <1>1, <2>1, FirstFile, ResetBasic, FailedBasic, PlainBasic DEF KeySteps
<1>4. CASE OnVerify(r)
  BY <1>1, <1>4, PlainBasic, VerifiedBasic DEF OnVerify, KeySteps
<1>5. CASE OnLogout(r)
  BY <1>1, <1>5, PlainBasic, FailedBasic DEF OnLogout, KeySteps
<1>6. CASE OnVerifyAgain(r)
  BY <1>1, <1>6, VerifiedBasic DEF OnVerifyAgain
<1>7. CASE OnStatus(r)
  BY <1>1, <1>7, FailedBasic DEF OnStatus
<1>8. ASSUME NEW step \in {"select", "scan_select"}, NEW n \in 1..Len(Sequences(step)),
             NEW i \in 1..Len(Sequences(step)[n]), Select(step, n, i),
             step = "scan_select" => call.op = "certificate"
      PROVE  BasicInv'
  <2>1. step \in Steps \ {"idle"} /\ n \in Nat /\ i \in Nat
    BY SequencesFacts DEF Steps, BasicInv, TypeInv
  <2>2. PlaceOf(step, n, i, data')
    BY <1>1, <1>8 DEF PlaceOf, ReadSteps, ScanSteps, KeySteps
  <2> QED
    BY <1>1, <1>8, <2>1, <2>2, TransmitBasic, EmptyFacts DEF Select
<1>9. ASSUME NEW step \in ReadSteps, NEW n \in Nat, Transmit(step, n, 1, read_binary(1)),
             call.op = "certificate", step = "scan_read" => n \in 1..Len(Sequences(step))
      PROVE  BasicInv'
  <2>1. step \in Steps \ {"idle"} /\ 1 \in Nat
    BY DEF Steps, ReadSteps
  <2>2. PlaceOf(step, n, 1, data')
    BY <1>1, <1>9, BoundAssumption, EmptyFacts DEF PlaceOf, ReadSteps, ScanSteps, KeySteps
  <2> QED
    BY <1>1, <1>9, <2>1, <2>2, TransmitBasic, EmptyFacts
<1>10. at.step \in {"reset", "select"} \cup ScanSteps =>
         /\ at.n \in 1..Len(Sequences(at.step)) /\ at.n \in Nat
         /\ 1 \in 1..Len(Sequences(at.step)[at.n])
  <2>1. at.step \in {"reset", "select"} \cup ScanSteps => at.n \in 1..Len(Sequences(at.step))
    BY DEF BasicInv, PlaceInv, PlaceOf
  <2>2. at.n \in Nat /\ call \in Call
    BY DEF BasicInv, TypeInv
  <2> DEFINE all(step) == \A n \in 1..Len(Sequences(step)) : 1 \in 1..Len(Sequences(step)[n])
  <2>3. ASSUME NEW step PROVE all(step)
    <3>1. SUFFICES ASSUME NEW n \in 1..Len(Sequences(step)) PROVE 1 \in 1..Len(Sequences(step)[n])
      OBVIOUS
    <3>2. Len(Sequences(step)[n]) \in Nat \ {0}
      BY <2>2, <3>1, SequencesFacts
    <3> QED
      BY <3>2
  <2>4. all(at.step)
    BY <2>3
  <2> QED
    BY <2>1, <2>2, <2>4
<1>11. CASE OnReset(r)
  <2>1. at.n \in 1..Len(Sequences("select")) /\ 1 \in 1..Len(Sequences("select")[at.n])
    BY <1>10, <1>11, SameSequences DEF OnReset
  <2> QED
    BY <1>1, <1>8, <1>11, <2>1, SelectFailedBasic DEF OnReset
<1>12. CASE OnSelect(r)
  <2>1. at.step = "select" /\ at.n \in 1..Len(Sequences("select")) /\ at.i \in 1..Len(Sequences("select")[at.n])
    BY <1>12 DEF OnSelect, BasicInv, PlaceInv, PlaceOf
  <2>2. /\ Len(Sequences("select")) \in Nat /\ Len(Sequences("select")[at.n]) \in Nat
    BY <2>1, SequencesFacts DEF BasicInv, TypeInv
  <2>3. \/ at.i < Len(Sequences("select")[at.n]) /\ Select("select", at.n, at.i + 1)
        \/ Selected \/ SelectFailed
        \/ at.n < Len(Sequences("select")) /\ Reset("reset", at.n + 1)
    <3> DEFINE all  == Len(Sequences("select"))
               here == Len(Sequences("select")[at.n])
    <3>1. \/ at.i < here /\ ~(at.i = here)
          \/ at.i = here /\ ~(at.i < here)
      BY <2>1, <2>2
    <3>2. \/ at.n < all /\ ~(at.n = all)
          \/ at.n = all /\ ~(at.n < all)
      BY <2>1, <2>2
    <3>3. CASE ~Succeeds(r) /\ at.n < all
      BY <1>12, <3>2, <3>3 DEF OnSelect
    <3>4. CASE ~Succeeds(r) /\ at.n = all
      BY <1>12, <3>2, <3>4 DEF OnSelect
    <3>5. CASE Succeeds(r) /\ at.i < here
      BY <1>12, <3>1, <3>5 DEF OnSelect
    <3>6. CASE Succeeds(r) /\ at.i = here
      BY <1>12, <3>1, <3>6 DEF OnSelect
    <3> QED
      BY <3>1, <3>2, <3>3, <3>4, <3>5, <3>6
  <2>4. CASE at.i < Len(Sequences("select")[at.n]) /\ Select("select", at.n, at.i + 1)
    <3>1. at.i + 1 \in 1..Len(Sequences("select")[at.n])
      BY <2>1, <2>2, <2>4
    <3> QED
      BY <1>8, <2>1, <2>4, <3>1
  <2>5. CASE Selected
    BY <1>1, <1>9, <1>10, <2>1, <2>5, PlainBasic DEF Selected, ReadSteps, KeySteps
  <2>6. CASE SelectFailed
    BY <1>1, <2>6, SelectFailedBasic
  <2>7. CASE at.n < Len(Sequences("select")) /\ Reset("reset", at.n + 1)
    <3>1. at.n + 1 \in 1..Len(Sequences("reset"))
      BY <2>1, <2>2, <2>7, SameSequences
    <3> QED
      BY <1>1, <2>7, <3>1, ResetBasic
  <2> QED
    BY <2>3, <2>4, <2>5, <2>6, <2>7
<1>13. CASE OnMse(r)
  <2>1. call.op # "certificate"
    BY <1>13 DEF OnMse, BasicInv, PlaceInv, PlaceOf, KeySteps
  <2> QED
    BY <1>1, <1>13, <2>1, PlainBasic, FailedBasic DEF OnMse, KeySteps
<1>14. CASE OnPso(r)
  <2> DEFINE s == [ok |-> TRUE, value |-> r.data]
  <2>1. s.ok \in BOOLEAN
    OBVIOUS
  <2>2. Return(s) \/ Return(Failed)
    BY <1>14 DEF OnPso
  <2> HIDE DEF s
  <2> QED
    BY <1>1, <2>1, <2>2, ReturnBasic, FailedBasic
<1>15. CASE OnScanReset(r)
  <2>1. /\ at.n \in 1..Len(Sequences("scan_select")) /\ 1 \in 1..Len(Sequences("scan_select")[at.n])
        /\ call.op = "certificate" /\ at.step \in ScanSteps
    BY <1>10, <1>15, SameSequences DEF OnScanReset, ScanSteps, BasicInv, PlaceInv, PlaceOf
  <2> QED
    BY <1>1, <1>8, <1>15, <2>1, NextFileBasic DEF OnScanReset
<1>16. CASE OnScanSelect(r)
  <2>1. /\ at.step = "scan_select" /\ at.step \in ScanSteps /\ call.op = "certificate"
        /\ at.n \in 1..Len(Sequences("scan_select")) /\ at.i \in 1..Len(Sequences("scan_select")[at.n])
    BY <1>16 DEF OnScanSelect, BasicInv, PlaceInv, PlaceOf, ScanSteps
  <2>2. Len(Sequences("scan_select")[at.n]) \in Nat
    BY <2>1, SequencesFacts DEF BasicInv, TypeInv
  <2>3. \/ at.i < Len(Sequences("scan_select")[at.n]) /\ Select("scan_select", at.n, at.i + 1)
        \/ Transmit("scan_read", at.n, 1, read_binary(1))
        \/ NextFile
    <3> DEFINE here == Len(Sequences("scan_select")[at.n])
    <3>1. \/ at.i < here /\ ~(at.i = here)
          \/ at.i = here /\ ~(at.i < here)
      BY <2>1, <2>2
    <3>2. CASE ~Succeeds(r)
      BY <1>16, <3>2 DEF OnScanSelect
    <3>3. CASE Succeeds(r) /\ at.i < here
      BY <1>16, <3>1, <3>3 DEF OnScanSelect
    <3>4. CASE Succeeds(r) /\ at.i = here
      BY <1>16, <3>1, <3>4 DEF OnScanSelect
    <3> QED
      BY <3>1, <3>2, <3>3, <3>4
  <2>4. CASE at.i < Len(Sequences("scan_select")[at.n]) /\ Select("scan_select", at.n, at.i + 1)
    <3>1. at.i + 1 \in 1..Len(Sequences("scan_select")[at.n])
      BY <2>1, <2>2, <2>4
    <3> QED
      BY <1>8, <2>1, <2>4, <3>1
  <2>5. CASE Transmit("scan_read", at.n, 1, read_binary(1))
    BY <1>9, <1>10, <2>1, <2>5, SameSequences DEF ReadSteps
  <2>6. CASE NextFile
    BY <1>1, <2>1, <2>6, NextFileBasic
  <2> QED
    BY <2>3, <2>4, <2>5, <2>6
<1> QED
  BY <1>2, <1>3, <1>4, <1>5, <1>6, <1>7, <1>11, <1>12, <1>13, <1>14, <1>15, <1>16

LEMMA OnReadBasic ==
  ASSUME BasicInv, Room, Kept, NEW r, OnRead(r)
  PROVE  BasicInv'
<1>1. /\ at.step \in ReadSteps /\ call.op = "certificate" /\ at.i \in 1..MaxChunks /\ Len(data) = at.i - 1
      /\ IsSeq(data) /\ at.n \in Nat /\ at.i \in Nat
      /\ at.step = "scan_read" => at.n \in 1..Len(Sequences("scan_read"))
  BY DEF OnRead, BasicInv, TypeInv, PlaceInv, PlaceOf, ReadSteps, ScanSteps
<1>2. \/ /\ at.i < MaxChunks
         /\ Transmit(at.step, at.n, at.i + 1, read_binary(at.i + 1)) /\ data' = Append(data, r.data)
      \/ \E d : ReadDone(d)
      \/ ReadFailed
  BY DEF OnRead
<1>3. CASE /\ at.i < MaxChunks
           /\ Transmit(at.step, at.n, at.i + 1, read_binary(at.i + 1)) /\ data' = Append(data, r.data)
  <2>1. IsSeq(data') /\ Len(data') = at.i /\ at.i + 1 \in 1..MaxChunks /\ (at.i + 1) - 1 = at.i
    <3>1. IsSeq(Append(data, r.data)) /\ Len(Append(data, r.data)) = Len(data) + 1
      BY <1>1, AppendFacts
    <3>2. \A i \in Nat, n \in Nat : i - 1 + 1 = i /\ (i + 1) - 1 = i /\ (i < n => i + 1 \in 1..n)
      OBVIOUS
    <3>3. IsSeq(data') /\ Len(data') = at.i - 1 + 1
      BY <1>1, <1>3, <3>1
    <3> QED
      BY <1>1, <1>3, <3>2, <3>3, BoundAssumption
  <2>2. at.step \in Steps \ {"idle"} /\ at.i + 1 \in Nat
    BY <1>1 DEF Steps, ReadSteps
  <2>3. PlaceOf(at.step, at.n, at.i + 1, data')
    BY <1>1, <2>1 DEF PlaceOf, ReadSteps, ScanSteps, KeySteps
  <2> QED
    BY <1>1, <1>3, <2>1, <2>2, <2>3, TransmitBasic
<1> QED
  BY <1>1, <1>2, <1>3, ReadDoneBasic, ReadFailedBasic

LEMMA ReceiveBasic ==
  ASSUME BasicInv, Receive
  PROVE  BasicInv'
<1>1. Room /\ Kept
  BY ReadRoom DEF Receive, BasicInv, TypeInv, Kept
<1> QED
  BY <1>1, HandlerBasic, OnReadBasic DEF Receive

LEMMA TimedOutBasic ==
  ASSUME BasicInv, TimedOut
  PROVE  BasicInv'
<1>1. faults' \in 0..MaxFaults
  BY BoundAssumption DEF TimedOut, Fault, BasicInv, TypeInv
<1>2. Room /\ Kept
  BY <1>1, UnreadRoom DEF TimedOut, BasicInv, Kept
<1> QED
  BY <1>2, FailedExchangeBasic DEF TimedOut

LEMMA BadBlockBasic ==
  ASSUME BasicInv, BadBlock
  PROVE  BasicInv'
<1>1. faults' \in 0..MaxFaults
  BY BoundAssumption DEF BadBlock, Fault, BasicInv, TypeInv
<1>2. Room /\ Kept
  BY <1>1, ReadRoom DEF BadBlock, BasicInv, Kept
<1> QED
  BY <1>2, FailedExchangeBasic DEF BadBlock

LEMMA BeginFacts ==
  ASSUME BasicInv, Begin
  PROVE  /\ Room /\ TypeInv' /\ LinkInv'
         /\ at' # Idle /\ at'.step = "power_on" /\ call' \in Call /\ data' = <<>>
         /\ \A k \in 1..Len(outbox) : outbox'[k] = outbox[k]
         /\ at'.written => Len(outbox') = Len(outbox) + 1 /\ outbox'[Len(outbox) + 1].command.ins = "POWER_ON"
         /\ ~at'.written => outbox' = outbox
<1>1. Room
  <2>1. /\ IsSeq(inbox) /\ IsSeq(outbox) /\ Len(outbox) <= ReaderDepth
        /\ Len(inbox) + Len(outbox) <= ReaderDepth
    BY DEF Begin, BasicInv, LinkInv, Length
  <2>2. inbox' = inbox \/ inbox' = <<>>
    BY DEF Begin
  <2>3. IsSeq(inbox') /\ (Len(inbox') = Len(inbox) \/ Len(inbox') = 0)
    BY <2>1, <2>2, EmptyFacts
  <2>4. Len(outbox) \in Nat /\ 0 + Len(outbox) = Len(outbox)
    BY <2>1 DEF IsSeq
  <2>5. Len(inbox') + Len(outbox) <= ReaderDepth
    BY <2>1, <2>3, <2>4
  <2> QED
    BY <2>3, <2>5 DEF Room
<1>2. LinkInv /\ "power_on" \in Steps \ {"idle"} /\ 0 \in Nat
      /\ Write("power_on", 0, 0, [ins |-> "POWER_ON"], <<calls + 1, 0>>)
  BY DEF Begin, Steps, BasicInv
<1>3. /\ LinkInv' /\ at' \in [step : Steps, n : Nat, i : Nat, written : BOOLEAN]
      /\ at' # Idle /\ at'.step = "power_on"
      /\ \A k \in 1..Len(outbox) : outbox'[k] = outbox[k]
      /\ at'.written => Len(outbox') = Len(outbox) + 1
                        /\ outbox'[Len(outbox) + 1].command = [ins |-> "POWER_ON"]
      /\ ~at'.written => outbox' = outbox
  BY <1>1, <1>2, WriteFacts
<1>4. /\ call' \in Call /\ data' = <<>> /\ result' = Pending /\ sequence' = 1
      /\ calls' = calls + 1 /\ calls < MaxCalls /\ UNCHANGED <<card, faults, cost>>
  BY DEF Begin
<1>5. calls' \in 0..MaxCalls
  BY <1>4, BoundAssumption DEF BasicInv, TypeInv
<1>6. TypeInv'
  <2>1. IsSeq(data')
    BY <1>4, EmptyFacts
  <2>2. result'.ok \in BOOLEAN
    BY <1>4 DEF Pending
  <2>3. sequence' \in 0..255
    BY <1>4
  <2>4. at'.step # "idle" /\ at' # Idle /\ at' \in [step : Steps, n : Nat, i : Nat, written : BOOLEAN]
    BY <1>3
  <2>5. CardOK(card') /\ faults' \in 0..MaxFaults /\ call' \in Call /\ cost' \in [1..MaxCalls -> Nat]
    BY <1>4 DEF BasicInv, TypeInv
  <2> QED
    BY <1>5, <2>1, <2>2, <2>3, <2>4, <2>5 DEF TypeInv
<1>7. [ins |-> "POWER_ON"].ins = "POWER_ON"
  OBVIOUS
<1>8. at'.written => outbox'[Len(outbox) + 1].command.ins = "POWER_ON"
  BY <1>3, <1>7
<1> QED
  BY <1>1, <1>3, <1>4, <1>6, <1>8

LEMMA BeginBasic ==
  ASSUME BasicInv, Begin
  PROVE  BasicInv'
BY BeginFacts DEF BasicInv, PlaceInv, PlaceOf, ReadSteps, ScanSteps, KeySteps

LEMMA WriteFailsFacts ==
  ASSUME BasicInv, WriteFails
  PROVE  /\ BasicInv' /\ ~at'.written /\ at'.step = at.step /\ at'.i = at.i /\ at'.n = at.n
         /\ outbox # <<>> /\ Len(outbox') = Len(outbox) - 1
         /\ \A k \in 1..Len(outbox) - 1 : outbox'[k] = outbox[k]
         /\ UNCHANGED <<call, data, result, sequence, inbox, card, calls, cost>>
<1>1. /\ at # Idle /\ at.written /\ outbox # <<>> /\ outbox' = Front(outbox)
      /\ at' = [at EXCEPT !.written = FALSE]
      /\ UNCHANGED <<call, data, result, sequence, inbox, card, calls, cost>>
  BY DEF WriteFails
<1>2. faults' \in 0..MaxFaults
  BY BoundAssumption DEF WriteFails, Fault, BasicInv, TypeInv
<1>3. /\ at' \in [step : Steps, n : Nat, i : Nat, written : BOOLEAN] /\ ~at'.written
      /\ at'.step = at.step /\ at'.n = at.n /\ at'.i = at.i /\ at' # Idle /\ at.step # "idle"
  BY <1>1 DEF BasicInv, TypeInv, Idle
<1>4. TypeInv'
  BY <1>1, <1>2, <1>3 DEF BasicInv, TypeInv
<1>5. PlaceInv'
  BY <1>1, <1>3 DEF BasicInv, PlaceInv, PlaceOf, Sequences
<1>6. /\ IsSeq(outbox) /\ IsSeq(outbox') /\ Len(outbox') = Len(outbox) - 1
      /\ \A k \in 1..Len(outbox) - 1 : outbox'[k] = outbox[k]
  BY <1>1, FrontFacts DEF BasicInv, LinkInv
<1>7. LinkInv'
  <2>1. /\ IsSeq(inbox) /\ Len(outbox) <= ReaderDepth /\ Len(inbox) + Len(outbox) <= ReaderDepth + 1
    BY <1>1 DEF BasicInv, LinkInv, Length
  <2>2. /\ Len(outbox') <= ReaderDepth /\ Len(inbox) + Len(outbox') <= ReaderDepth
    BY <1>6, <2>1, BoundAssumption DEF IsSeq
  <2> QED
    BY <1>1, <1>3, <1>6, <2>1, <2>2 DEF LinkInv, Length
<1> QED
  BY <1>1, <1>3, <1>4, <1>5, <1>6, <1>7 DEF BasicInv

\* What the card makes of a command c, and what it answers.
Effect(c, r) ==
  /\ c.ins = "POWER_ON" => r.sw = "atr"
  /\ c.ins = "SELECT" => r.sw \in {"9000", "6a82"} /\ r.data = Empty
  /\ c.ins = "VERIFY" => /\ r.sw = "9000" => c.pin = RightPin
                         /\ card'.tries >= card.tries - 1
                         /\ r.sw = "6f86" => card'.tries = card.tries
  /\ c.ins # "VERIFY" => card'.tries = card.tries
  /\ c.ins = "MSE" => (r.sw = "9000" => card'.env = <<c.op, c.key>>)
  /\ c.ins = "PSO" => card' = card /\ (r.sw = "9000" => r.data = Outcome(c.op, card.env[2], c.input))
  /\ c.ins = "READ_BINARY" => card' = card /\ ReadFits(r, c.i)

LEMMA ExecuteFacts ==
  ASSUME BasicInv, Execute
  PROVE  /\ BasicInv' /\ outbox # <<>> /\ UNCHANGED host /\ UNCHANGED calls
         /\ Length' = Length /\ Len(inbox') = Len(inbox) + 1 /\ Len(outbox') = Len(outbox) - 1
         /\ \A k \in 1..Len(inbox) : inbox'[k] = inbox[k]
         /\ \A k \in 1..Len(outbox) - 1 : outbox'[k] = outbox[k + 1]
         /\ Effect(outbox[1].command, inbox'[Len(inbox) + 1])
         /\ cost' = IF card'.tries < card.tries THEN [cost EXCEPT ![outbox[1].to[1]] = @ + 1] ELSE cost
<1> DEFINE c == outbox[1].command
<1>1. /\ outbox # <<>> /\ outbox' = Tail(outbox) /\ UNCHANGED <<host, calls, faults>>
      /\ cost' = IF card'.tries < card.tries THEN [cost EXCEPT ![outbox[1].to[1]] = @ + 1] ELSE cost
      /\ IsSeq(outbox) /\ IsSeq(inbox) /\ Len(outbox) >= 1 /\ Head(outbox) = outbox[1]
  BY TailFacts DEF Execute, BasicInv, LinkInv
<1>2. /\ IsSeq(outbox') /\ Len(outbox') = Len(outbox) - 1
      /\ \A k \in 1..Len(outbox) - 1 : outbox'[k] = outbox[k + 1]
  BY <1>1, TailFacts
<1>3. \/ PowerOn(c) \/ SelectFile(c) \/ VerifyPin(c) \/ VerifyStatus(c) \/ Logout(c)
      \/ ManageEnvironment(c) \/ PerformOperation(c) \/ ReadBinary(c)
  BY <1>1 DEF Execute
<1> HIDE DEF c
<1>4. \A sw, d : Answer(sw, d) => \E r : inbox' = Append(inbox, r) /\ r.sw = sw /\ r.data = d
  BY DEF Answer
<1> DEFINE OneMore == \E r : inbox' = Append(inbox, r) /\ Effect(c, r)
<1>5. OneMore /\ CardOK(card')
  <2>1. CardOK(card)
    BY DEF BasicInv, TypeInv
  <2>2. /\ card.tries \in Nat /\ MaxTries \in Nat /\ card.tries >= card.tries - 1 /\ MaxTries >= card.tries - 1
        /\ MaxTries \in 0..MaxTries /\ <<>> \in Files
        /\ card.tries > 0 => card.tries - 1 \in 0..MaxTries
    BY <2>1, BoundAssumption, FileAssumption DEF CardOK
  <2>3. card' = card => CardOK(card')
    BY <2>1
  <2>4. CASE PowerOn(c)
    <3>1. c.ins = "POWER_ON" /\ Answer("atr", Empty)
          /\ (card' = card \/ card' = [selected |-> <<>>, verified |-> FALSE, env |-> <<>>, tries |-> card.tries])
      BY <2>4 DEF PowerOn
    <3>2. CardOK(card') /\ card'.tries = card.tries
      <4>1. \A e : \A s \in Files : CardOK([selected |-> s, verified |-> FALSE, env |-> e, tries |-> card.tries])
        BY <2>1 DEF CardOK
      <4>2. \A s, e : [selected |-> s, verified |-> FALSE, env |-> e, tries |-> card.tries].tries = card.tries
        OBVIOUS
      <4>3. CASE card' = card
        BY <2>1, <4>3
      <4>4. CASE card' = [selected |-> <<>>, verified |-> FALSE, env |-> <<>>, tries |-> card.tries]
        BY <2>2, <4>1, <4>2, <4>4
      <4> QED
        BY <3>1, <4>3, <4>4
    <3>3. PICK r : inbox' = Append(inbox, r) /\ r.sw = "atr"
      BY <1>4, <3>1
    <3>4. Effect(c, r)
      BY <3>1, <3>2, <3>3 DEF Effect
    <3> QED
      BY <3>2, <3>3, <3>4
  <2>5. CASE SelectFile(c)
    <3>1. c.ins = "SELECT"
      BY <2>5 DEF SelectFile
    <3>2. \/ card' = [card EXCEPT !.selected = Selects(c)] /\ Selects(c) \in Files /\ Answer("9000", Empty)
          \/ card' = card /\ Answer("6a82", Empty)
      BY <2>5 DEF SelectFile
    <3>3. CardOK(card') /\ card'.tries = card.tries
      BY <2>1, <3>2 DEF CardOK
    <3>4. PICK r : inbox' = Append(inbox, r) /\ r.sw \in {"9000", "6a82"} /\ r.data = Empty
      BY <1>4, <3>2
    <3>5. Effect(c, r)
      BY <3>1, <3>3, <3>4 DEF Effect
    <3> QED
      BY <3>3, <3>4, <3>5
  <2>6. CASE VerifyPin(c)
    <3>1. c.ins = "VERIFY"
      BY <2>6 DEF VerifyPin
    <3>2. \/ card' = card /\ (Answer("6f86", Empty) \/ Answer("6983", Empty))
          \/ /\ c.pin = RightPin /\ card' = [card EXCEPT !.verified = TRUE, !.tries = MaxTries]
             /\ Answer("9000", Empty)
          \/ card.tries > 0 /\ card' = [card EXCEPT !.tries = @ - 1] /\ Answer("6300", Empty)
      <4>1. card.verified \in BOOLEAN /\ (card.tries = 0 \/ card.tries > 0) /\ ~(card.tries = 0 /\ card.tries > 0)
        BY <2>1, <2>2 DEF CardOK
      <4>2. CASE card.verified
        BY <2>6, <4>1, <4>2 DEF VerifyPin
      <4>3. CASE ~card.verified /\ card.tries = 0
        BY <2>6, <4>1, <4>3 DEF VerifyPin
      <4>4. CASE ~card.verified /\ card.tries > 0
        BY <2>6, <4>1, <4>4 DEF VerifyPin
      <4> QED
        BY <4>1, <4>2, <4>3, <4>4
    <3>3. CASE card' = card /\ (Answer("6f86", Empty) \/ Answer("6983", Empty))
      <4>1. PICK r : inbox' = Append(inbox, r) /\ r.sw \in {"6f86", "6983"}
        BY <1>4, <3>3
      <4>2. Effect(c, r)
        BY <2>2, <3>1, <3>3, <4>1 DEF Effect
      <4> QED
        BY <2>3, <3>3, <4>1, <4>2
    <3>4. CASE /\ c.pin = RightPin /\ card' = [card EXCEPT !.verified = TRUE, !.tries = MaxTries]
               /\ Answer("9000", Empty)
      <4>1. PICK r : inbox' = Append(inbox, r) /\ r.sw = "9000"
        BY <1>4, <3>4
      <4>2. card'.tries = MaxTries /\ CardOK(card')
        BY <2>1, <2>2, <3>4 DEF CardOK
      <4>3. Effect(c, r)
        BY <2>2, <3>1, <3>4, <4>1, <4>2 DEF Effect
      <4> QED
        BY <4>1, <4>2, <4>3
    <3>5. CASE card.tries > 0 /\ card' = [card EXCEPT !.tries = @ - 1] /\ Answer("6300", Empty)
      <4>1. PICK r : inbox' = Append(inbox, r) /\ r.sw = "6300"
        BY <1>4, <3>5
      <4>2. card'.tries = card.tries - 1 /\ card.tries - 1 >= card.tries - 1 /\ CardOK(card')
        BY <2>1, <2>2, <3>5 DEF CardOK
      <4>3. Effect(c, r)
        BY <3>1, <4>1, <4>2 DEF Effect
      <4> QED
        BY <4>1, <4>2, <4>3
    <3> QED
      BY <3>2, <3>3, <3>4, <3>5
  <2>7. CASE VerifyStatus(c)
    <3>1. card' = card /\ c.ins = "VERIFY_STATUS" /\ \E sw : Answer(sw, Empty)
      BY <2>7 DEF VerifyStatus
    <3>2. PICK r : inbox' = Append(inbox, r)
      BY <1>4, <3>1
    <3>3. Effect(c, r)
      BY <3>1 DEF Effect
    <3> QED
      BY <2>3, <3>1, <3>2, <3>3
  <2>8. CASE Logout(c)
    <3>1. c.ins = "LOGOUT" /\ card' = [card EXCEPT !.verified = FALSE] /\ Answer("9000", Empty)
      BY <2>8 DEF Logout
    <3>2. CardOK(card') /\ card'.tries = card.tries
      BY <2>1, <3>1 DEF CardOK
    <3>3. PICK r : inbox' = Append(inbox, r)
      BY <1>4, <3>1
    <3>4. Effect(c, r)
      BY <3>1, <3>2 DEF Effect
    <3> QED
      BY <3>2, <3>3, <3>4
  <2>9. CASE ManageEnvironment(c)
    <3>1. c.ins = "MSE"
      BY <2>9 DEF ManageEnvironment
    <3>2. \/ card' = [card EXCEPT !.env = <<c.op, c.key>>] /\ Answer("9000", Empty)
          \/ card' = card /\ Answer("6a88", Empty)
      BY <2>9 DEF ManageEnvironment
    <3>3. CardOK(card') /\ card'.tries = card.tries
      BY <2>1, <3>2 DEF CardOK
    <3>4. \/ card'.env = <<c.op, c.key>> /\ Answer("9000", Empty)
          \/ Answer("6a88", Empty)
      BY <2>1, <3>2 DEF CardOK
    <3>5. PICK r : inbox' = Append(inbox, r) /\ (r.sw = "9000" => card'.env = <<c.op, c.key>>)
      BY <1>4, <3>4
    <3>6. Effect(c, r)
      BY <3>1, <3>3, <3>5 DEF Effect
    <3> QED
      BY <3>3, <3>5, <3>6
  <2>10. CASE PerformOperation(c)
    <3>1. card' = card /\ c.ins = "PSO" /\ (Answer("9000", Outcome(c.op, card.env[2], c.input)) \/ Answer("6982", Empty))
      BY <2>10 DEF PerformOperation
    <3>2. PICK r : inbox' = Append(inbox, r) /\ (r.sw = "9000" => r.data = Outcome(c.op, card.env[2], c.input))
      BY <1>4, <3>1
    <3>3. Effect(c, r)
      BY <3>1, <3>2 DEF Effect
    <3> QED
      BY <2>3, <3>1, <3>2, <3>3
  <2>11. CASE ReadBinary(c)
    <3> DEFINE file == card.selected
    <3>1. c.ins = "READ_BINARY" /\ card' = card
      BY <2>11 DEF ReadBinary
    <3>2. \/ file \notin DOMAIN Certificate /\ Answer("6986", Empty)
          \/ file \in DOMAIN Certificate /\ c.i > Certificate[file].chunks /\ Answer("6b00", Empty)
          \/ /\ file \in DOMAIN Certificate /\ c.i <= Certificate[file].chunks
             /\ \/ Answer("9000", Block(file, c.i))
                \/ ~Full(Block(file, c.i)) /\ Answer("6282", Block(file, c.i))
      BY <2>11 DEF ReadBinary
    <3>3. PICK sw, d :
            /\ Answer(sw, d)
            /\ \/ file \notin DOMAIN Certificate /\ sw = "6986"
               \/ file \in DOMAIN Certificate /\ c.i > Certificate[file].chunks /\ sw = "6b00"
               \/ /\ file \in DOMAIN Certificate /\ c.i <= Certificate[file].chunks /\ d = Block(file, c.i)
                  /\ sw = "9000" \/ (~Full(Block(file, c.i)) /\ sw = "6282")
      BY <3>2
    <3>4. PICK r : inbox' = Append(inbox, r) /\ r.sw = sw /\ r.data = d
      BY <1>4, <3>3
    <3>5. ReadFits(r, c.i)
      BY <3>3, <3>4 DEF ReadFits
    <3>6. Effect(c, r)
      BY <3>1, <3>5 DEF Effect
    <3> QED
      BY <2>3, <3>1, <3>4, <3>6
  <2> QED
    BY <1>3, <2>4, <2>5, <2>6, <2>7, <2>8, <2>9, <2>10, <2>11
<1>6. PICK r : inbox' = Append(inbox, r) /\ Effect(c, r)
  BY <1>5
<1>7. /\ IsSeq(inbox') /\ Len(inbox') = Len(inbox) + 1 /\ inbox'[Len(inbox) + 1] = r
      /\ \A k \in 1..Len(inbox) : inbox'[k] = inbox[k]
  BY <1>1, <1>6, AppendFacts
<1>8. Length' = Length
  BY <1>1, <1>2, <1>7 DEF Length, IsSeq
<1>9. UNCHANGED <<call, at, data, result, sequence, calls, faults>>
  BY <1>1 DEF host
<1>10. TypeInv' /\ PlaceInv'
  <2>1. cost \in [1..MaxCalls -> Nat]
    BY DEF BasicInv, TypeInv
  <2>2. ASSUME NEW m PROVE [cost EXCEPT ![m] = @ + 1] \in [1..MaxCalls -> Nat]
    <3>1. CASE m \in 1..MaxCalls
      <4>1. cost[m] + 1 \in Nat
        BY <2>1, <3>1
      <4> QED
        BY <2>1, <4>1
    <3>2. CASE m \notin 1..MaxCalls
      BY <2>1, <3>2
    <3> QED
      BY <3>1, <3>2
  <2>3. cost' \in [1..MaxCalls -> Nat]
    BY <1>1, <2>1, <2>2
  <2> QED
    BY <1>5, <1>9, <2>3 DEF BasicInv, TypeInv, PlaceInv, PlaceOf, Sequences
<1>11. LinkInv'
  <2>1. Len(outbox) \in Nat /\ Len(outbox) <= ReaderDepth
    BY <1>1 DEF BasicInv, LinkInv, IsSeq
  <2>2. Len(outbox') <= ReaderDepth
    BY <1>2, <2>1, BoundAssumption
  <2> QED
    BY <1>2, <1>7, <1>8, <1>9, <2>2 DEF BasicInv, LinkInv
<1> QED
  BY <1>1, <1>2, <1>6, <1>7, <1>8, <1>9, <1>10, <1>11 DEF BasicInv, c, host

LEMMA InitBasic == Init => BasicInv
<1> SUFFICES ASSUME Init PROVE BasicInv
  OBVIOUS
<1>1. /\ Idle \in [step : Steps, n : Nat, i : Nat, written : BOOLEAN] /\ Idle.step = "idle"
      /\ Pending.ok \in BOOLEAN
  BY DEF Idle, Steps, Pending
<1>2. /\ call \in Call /\ at = Idle /\ data = <<>> /\ result = Pending /\ sequence = 0
      /\ outbox = <<>> /\ inbox = <<>> /\ calls = 0 /\ faults = 0 /\ cost \in [1..MaxCalls -> Nat]
  BY DEF Init
<1>3. CardOK(card)
  <2>1. MaxTries \in 0..MaxTries
    BY BoundAssumption
  <2> QED
    BY <2>1, FileAssumption DEF Init, CardOK
<1>4. 0 \in 0..MaxCalls /\ 0 \in 0..MaxFaults /\ ReaderDepth \in Nat
  BY BoundAssumption
<1>5. TypeInv
  BY <1>1, <1>2, <1>3, <1>4, EmptyFacts DEF TypeInv
<1>6. PlaceInv
  BY <1>1, <1>2 DEF PlaceInv, PlaceOf, ReadSteps, ScanSteps, KeySteps
<1>7. LinkInv
  <2>1. IsSeq(outbox) /\ IsSeq(inbox) /\ Len(outbox) = 0 /\ Len(inbox) = 0
    BY <1>2, EmptyFacts
  <2>2. Length = 0
    BY <2>1 DEF Length
  <2> QED
    BY <1>2, <1>4, <2>1, <2>2 DEF LinkInv
<1> QED
  BY <1>5, <1>6, <1>7 DEF BasicInv

LEMMA NextBasic == BasicInv /\ [Next]_vars => BasicInv'
<1> SUFFICES ASSUME BasicInv, [Next]_vars PROVE BasicInv'
  OBVIOUS
<1>1. CASE UNCHANGED vars
  BY <1>1 DEF BasicInv, TypeInv, PlaceInv, PlaceOf, Sequences, LinkInv, Length, vars, host, link
<1>2. CASE Next
  BY <1>2, BeginBasic, ExecuteFacts, ReceiveBasic, TimedOutBasic, BadBlockBasic, WriteFailsFacts DEF Next
<1> QED
  BY <1>1, <1>2

LEMMA BasicImpliesTypeOK == BasicInv => TypeOK
<1> SUFFICES ASSUME BasicInv PROVE TypeOK
  OBVIOUS
<1>1. Len(data) < MaxChunks
  <2>1. CASE at.step \in ReadSteps
    BY <2>1, BoundAssumption DEF BasicInv, PlaceInv, PlaceOf
  <2>2. CASE at.step \notin ReadSteps
    <3>1. Len(data) = 0
      BY <2>2, EmptyFacts DEF BasicInv, PlaceInv, PlaceOf
    <3> QED
      BY <3>1, BoundAssumption
  <2> QED
    BY <2>1, <2>2
<1> QED
  BY <1>1 DEF BasicInv, TypeInv, TypeOK, CardOK

\* Whatever the card answers and whatever fails, the state keeps its types, a
\* selected file exists, the PIN tries stay in their range and no more blocks
\* are collected than the 16 KiB of read_selected_certificate (lib.rs:2045).
THEOREM TypeCorrect == Spec => []TypeOK
<1>1. Spec => []BasicInv
  BY InitBasic, NextBasic, PTL DEF Spec
<1> QED
  BY <1>1, BasicImpliesTypeOK, PTL

-----------------------------------------------------------------------------
(* What is on its way after a step of the host *)

Reading == Kept /\ at # Idle /\ at.written /\ inbox # <<>> /\ inbox' = Tail(inbox)

LEMMA LastPlain ==
  ASSUME BasicInv, Room, Kept, NEW step \in Steps \ {"idle"}, NEW n \in Nat, NEW i \in Nat, NEW command,
         Transmit(step, n, i, command), IsSeq(data'), command.ins = "SELECT", at'.written
  PROVE  IsPlain(Length)'
<1>1. Len(outbox') = Len(outbox) + 1 /\ outbox'[Len(outbox) + 1].command = command
  BY TransmitFacts DEF BasicInv
<1>2. Len(outbox) \in Nat /\ Len(inbox') \in Nat
  BY DEF BasicInv, LinkInv, Room, IsSeq
<1>3. Len(inbox') + (Len(outbox) + 1) - Len(inbox') = Len(outbox) + 1
      /\ ~(Len(inbox') + (Len(outbox) + 1) <= Len(inbox'))
  BY <1>2
<1> QED
  BY <1>1, <1>3 DEF IsPlain, Length

\* What is on its way moves up by one when a block is read, and the command comes last.
LEMMA Moved ==
  ASSUME BasicInv, Reading, NEW step \in Steps \ {"idle"}, NEW n \in Nat, NEW i \in Nat, NEW command,
         Transmit(step, n, i, command), IsSeq(data'), at'.written
  PROVE  /\ Length' = Length /\ Length \in Nat \ {0}
         /\ \A k \in 1..Length - 1 : (IsAtr(k + 1) => IsAtr(k)') /\ (IsPlain(k + 1) => IsPlain(k)')
         /\ Length = 1 => inbox' = <<>> /\ outbox'[1].command = command /\ outbox'[1].to[1] = calls
<1>1. Room /\ Kept
  BY ReadRoom DEF Reading, BasicInv
<1>2. /\ Len(outbox') = Len(outbox) + 1 /\ outbox'[Len(outbox) + 1].command = command
      /\ outbox'[Len(outbox) + 1].to[1] = calls
      /\ \A k \in 1..Len(outbox) : outbox'[k] = outbox[k]
  BY <1>1, TransmitFacts DEF BasicInv
<1>3. /\ Len(inbox) >= 1 /\ IsSeq(inbox') /\ Len(inbox') = Len(inbox) - 1
      /\ \A k \in 1..Len(inbox) - 1 : inbox'[k] = inbox[k + 1]
  BY TailFacts DEF Reading, BasicInv, LinkInv
<1>4. Len(outbox) \in Nat /\ Len(inbox) \in Nat
  BY DEF BasicInv, LinkInv, IsSeq
<1>5. Length' = Length /\ Length \in Nat \ {0}
  BY <1>2, <1>3, <1>4 DEF Length
<1>6. ASSUME NEW k \in 1..Length - 1
      PROVE  (IsAtr(k + 1) => IsAtr(k)') /\ (IsPlain(k + 1) => IsPlain(k)')
  <2>1. CASE k <= Len(inbox')
    <3>1. k \in 1..Len(inbox) - 1 /\ k + 1 <= Len(inbox)
      BY <1>3, <1>4, <2>1
    <3>2. inbox'[k] = inbox[k + 1]
      BY <1>3, <3>1
    <3> QED
      BY <2>1, <3>1, <3>2 DEF IsAtr, IsPlain
  <2>2. CASE ~(k <= Len(inbox'))
    <3>1. ~(k + 1 <= Len(inbox)) /\ k - Len(inbox') = k + 1 - Len(inbox) /\ k + 1 - Len(inbox) \in 1..Len(outbox)
      BY <1>3, <1>4, <1>5, <2>2 DEF Length
    <3>2. outbox'[k - Len(inbox')] = outbox[k + 1 - Len(inbox)]
      BY <1>2, <3>1
    <3>3. IsAtr(k + 1) => outbox[k + 1 - Len(inbox)].command.ins = "POWER_ON"
      <4>1. \A j : IsAtr(j) /\ ~(j <= Len(inbox)) => outbox[j - Len(inbox)].command.ins = "POWER_ON"
        BY DEF IsAtr
      <4>2. PICK j : j = k + 1
        OBVIOUS
      <4>3. ~(j <= Len(inbox)) /\ outbox[j - Len(inbox)] = outbox[k + 1 - Len(inbox)]
        BY <3>1, <4>2
      <4>4. IsAtr(j) => outbox[j - Len(inbox)].command.ins = "POWER_ON"
        BY <4>1, <4>3
      <4> QED
        BY <4>2, <4>3, <4>4
    <3>4. IsPlain(k + 1) => outbox[k + 1 - Len(inbox)].command.ins = "SELECT"
      BY <1>4, <3>1 DEF IsPlain
    <3>5. outbox'[k - Len(inbox')].command.ins = "POWER_ON" => IsAtr(k)'
      BY <2>2 DEF IsAtr
    <3>6. outbox'[k - Len(inbox')].command.ins = "SELECT" => IsPlain(k)'
      BY <2>2 DEF IsPlain
    <3> QED
      BY <3>2, <3>3, <3>4, <3>5, <3>6
  <2> QED
    BY <2>1, <2>2
<1>7. ASSUME Length = 1 PROVE inbox' = <<>> /\ outbox'[1].command = command /\ outbox'[1].to[1] = calls
  <2>1. Len(inbox) + Len(outbox) = 1
    BY <1>7 DEF Length
  <2>2. Len(inbox') = 0 /\ Len(outbox) + 1 = 1
    BY <1>3, <1>4, <2>1
  <2> QED
    BY <1>2, <1>3, <2>2, EmptyFacts
<1> QED
  BY <1>5, <1>6, <1>7

\* With a reader that takes two commands, three items are on their way at most.
LEMMA ThreeAtMost ==
  ASSUME Shallow, BasicInv
  PROVE  Length \in 0..3 /\ Len(outbox) \in 0..2 /\ Len(inbox) \in Nat
<1>1. Len(outbox) \in Nat /\ Len(inbox) \in Nat /\ Len(outbox) <= ReaderDepth
      /\ (Length <= ReaderDepth + 1 \/ Length <= ReaderDepth)
  BY DEF BasicInv, LinkInv, IsSeq
<1>2. ReaderDepth \in Nat /\ ReaderDepth <= 2
  BY BoundAssumption DEF Shallow
<1>3. Length \in Nat
  BY <1>1 DEF Length
<1>4. \A a \in Nat, b \in Nat, d \in Nat :
        d <= 2 /\ a <= d /\ (b <= d + 1 \/ b <= d) => a \in 0..2 /\ b \in 0..3
  OBVIOUS
<1> QED
  BY <1>1, <1>2, <1>3, <1>4

-----------------------------------------------------------------------------
(* The promises of a call, across a command that is sent and a return *)

LEMMA SpentFacts ==
  ASSUME BasicInv, NEW m \in 1..MaxCalls
  PROVE  /\ Costs(m, 1) \in 0..1 /\ Costs(m, 2) \in 0..1 /\ MayCost(m) \in 0..1 /\ Allowed(m) \in 0..1
         /\ cost[m] \in Nat
BY DEF Costs, MayCost, Allowed, BasicInv, TypeInv

\* The costs of the outbox grow by those of the command that is sent.
LEMMA TransmitTries ==
  ASSUME Shallow, BasicInv, TriesInv, Room, Kept,
         NEW step \in Steps \ {"idle", "power_on"}, NEW n \in Nat, NEW i \in Nat, NEW command,
         Transmit(step, n, i, command), IsSeq(data'),
         command.ins = "VERIFY" => MayPresent /\ step \notin {"select_mf", "logout"},
         step \in {"select_mf", "logout"} => MayPresent
  PROVE  TriesInv'
<1> SUFFICES ASSUME NEW m \in 1..MaxCalls
             PROVE  cost'[m] + Costs(m, 1)' + Costs(m, 2)' + MayCost(m)' <= Allowed(m)'
  BY DEF TriesInv
<1> DEFINE new == IF command.ins = "VERIFY" /\ m = calls THEN 1 ELSE 0
<1>1. /\ at'.step = step /\ \A k \in 1..Len(outbox) : outbox'[k] = outbox[k]
      /\ at'.written => /\ Len(outbox') = Len(outbox) + 1 /\ outbox'[Len(outbox) + 1].command = command
                        /\ outbox'[Len(outbox) + 1].to[1] = calls
      /\ ~at'.written => outbox' = outbox
  BY TransmitFacts DEF BasicInv
<1>2. Len(outbox) \in 0..2 /\ Len(outbox') <= 2 /\ IsSeq(inbox') /\ Len(inbox') \in Nat
  <2>1. LinkInv' /\ ReaderDepth \in Nat
    BY TransmitFacts, BoundAssumption DEF BasicInv
  <2>2. Len(outbox') \in Nat /\ Len(outbox') <= ReaderDepth
    BY <2>1 DEF LinkInv, IsSeq
  <2> QED
    BY <2>1, <2>2, ThreeAtMost DEF Shallow, Room, IsSeq
<1>3. Costs(m, 1)' \in 0..1 /\ Costs(m, 2)' \in 0..1 /\ new \in 0..1
  BY DEF Costs
<1>4. Costs(m, 1)' + Costs(m, 2)' <= Costs(m, 1) + Costs(m, 2) + new
  <2>1. CASE ~at'.written
    BY <1>1, <1>3, SpentFacts, <2>1 DEF Costs
  <2>2. CASE at'.written /\ Len(outbox) = 0
    <3>1. Len(outbox') = 1 /\ outbox'[1].command = command /\ outbox'[1].to[1] = calls
      BY <1>1, <2>2
    <3>2. Costs(m, 1)' = new /\ Costs(m, 2)' = 0
      BY <3>1 DEF Costs
    <3> HIDE DEF new
    <3> QED
      BY <1>3, SpentFacts, <3>2
  <2>3. CASE at'.written /\ Len(outbox) = 1
    <3>1. Len(outbox') = 2 /\ outbox'[2].command = command /\ outbox'[2].to[1] = calls /\ outbox'[1] = outbox[1]
      BY <1>1, <2>3
    <3>2. Costs(m, 1)' = Costs(m, 1) /\ Costs(m, 2)' = new
      BY <2>3, <3>1 DEF Costs
    <3> QED
      BY <1>3, SpentFacts, <3>2
  <2>4. ~(at'.written /\ Len(outbox) = 2)
    <3>1. SUFFICES ASSUME at'.written, Len(outbox) = 2 PROVE FALSE
      OBVIOUS
    <3>2. Len(outbox') = 2 + 1 /\ Len(outbox') <= 2
      BY <1>1, <1>2, <3>1
    <3> QED
      BY <3>2
  <2>5. Len(outbox) = 0 \/ Len(outbox) = 1 \/ Len(outbox) = 2
    BY <1>2
  <2> QED
    BY <2>1, <2>2, <2>3, <2>4, <2>5
<1>5. MayPresent' => step \in {"select_mf", "logout"}
  <2>1. SUFFICES ASSUME at'.step = "verify", at'.written, Length' = 1, inbox' # <<>> PROVE FALSE
    BY <1>1 DEF MayPresent
  <2>2. Len(inbox') # 0
    BY <1>2, <2>1, EmptyFacts
  <2> QED
    BY <1>1, <1>2, <2>1, <2>2 DEF Length
<1>6. cost' = cost /\ calls' = calls
  BY DEF Kept
<1>7. MayCost(m)' \in 0..1 /\ new + MayCost(m)' <= MayCost(m)
  BY <1>5, <1>6 DEF MayCost
<1>8. cost[m] + Costs(m, 1) + Costs(m, 2) + MayCost(m) <= Allowed(m) /\ Allowed(m)' = Allowed(m)
  BY <1>6 DEF TriesInv, Allowed
<1> HIDE DEF new
<1>9. cost[m] + Costs(m, 1)' + Costs(m, 2)' + MayCost(m)' <= Allowed(m)
  BY <1>3, SpentFacts, <1>4, <1>7, <1>8
<1> QED
  BY <1>6, <1>8, <1>9

LEMMA SentKeeps ==
  ASSUME Shallow, BasicInv, Promises, Room, Kept,
         NEW step \in Steps \ {"idle", "power_on"}, NEW n \in Nat, NEW i \in Nat, NEW command,
         Transmit(step, n, i, command), IsSeq(data'),
         call.pin \notin {RightPin, NoPin} => step \in PinSteps,
         command.ins = "VERIFY" => MayPresent /\ step \notin {"select_mf", "logout"},
         step \in {"select_mf", "logout"} => MayPresent
  PROVE  Promises'
<1>1. at'.step = step /\ UNCHANGED <<call, result>>
  BY TransmitFacts DEF BasicInv, Kept
<1>2. TriesInv'
  BY TransmitTries DEF Promises
<1>3. PinInv'
  BY <1>1 DEF Promises, PinInv
<1>4. OwnOutcome' /\ (Readable => WholeCertificate')
  BY <1>1 DEF Promises, OwnOutcome, WholeCertificate
<1> QED
  BY <1>2, <1>3, <1>4 DEF Promises

\* What a call may return.
Owed(r) ==
  r.ok => /\ call.pin \in {RightPin, NoPin}
          /\ call.op # "certificate" => r.value = Outcome(call.op, call.key, call.input)
          /\ call.op = "certificate" /\ Readable =>
               \E file \in DOMAIN Certificate :
                 r.value = [i \in 1..Certificate[file].chunks |-> Block(file, i)]

LEMMA ReturnKeeps ==
  ASSUME Shallow, BasicInv, Promises, Room, Kept, NEW r, r.ok \in BOOLEAN, Owed(r), Return(r), IsSeq(data')
  PROVE  SessionInv' /\ ReadInv' /\ Promises'
<1>1. at'.step = "idle" /\ result' = r /\ UNCHANGED <<outbox, call, card, calls, cost>>
  BY ReturnFacts DEF BasicInv, Kept
<1>2. SessionInv' /\ ReadInv'
  BY <1>1 DEF SessionInv, ReadInv, ReadSteps, KeySteps
<1>3. PinInv'
  BY <1>1 DEF PinInv, Owed
<1>4. OwnOutcome' /\ (Readable => WholeCertificate')
  BY <1>1 DEF OwnOutcome, WholeCertificate, Owed
<1>5. TriesInv'
  <2> SUFFICES ASSUME NEW m \in 1..MaxCalls
               PROVE  cost'[m] + Costs(m, 1)' + Costs(m, 2)' + MayCost(m)' <= Allowed(m)'
    BY DEF TriesInv
  <2>1. MayCost(m)' = 0 /\ Costs(m, 1)' = Costs(m, 1) /\ Costs(m, 2)' = Costs(m, 2)
        /\ Allowed(m)' = Allowed(m) /\ cost' = cost
    BY <1>1 DEF MayPresent, MayCost, Costs, Allowed
  <2>2. cost[m] + Costs(m, 1) + Costs(m, 2) + MayCost(m) <= Allowed(m)
    BY DEF Promises, TriesInv
  <2>3. cost[m] + Costs(m, 1) + Costs(m, 2) + 0 <= Allowed(m)
    BY <2>2, SpentFacts
  <2> QED
    BY <2>1, <2>3
<1> QED
  BY <1>2, <1>3, <1>4, <1>5 DEF Promises

LEMMA FailedKeeps ==
  ASSUME Shallow, BasicInv, Promises, Room, Kept, Return(Failed), IsSeq(data')
  PROVE  SessionInv' /\ ReadInv' /\ Promises'
<1>1. Failed.ok = FALSE
  BY DEF Failed
<1>2. Owed(Failed) /\ Failed.ok \in BOOLEAN
  BY <1>1 DEF Owed
<1> QED
  BY <1>2, ReturnKeeps

\* Before a file is selected the master file is: a SELECT is the last thing on its way.
LEMMA ResetReads ==
  ASSUME BasicInv, Room, Kept, NEW step \in {"reset", "scan_reset"}, NEW n \in Nat, Reset(step, n), IsSeq(data')
  PROVE  ReadInv' /\ at'.step = step /\ UNCHANGED <<call, result>>
<1>1. step \in Steps \ {"idle"} /\ 1 \in Nat /\ select_master_file.ins = "SELECT"
      /\ Transmit(step, n, 1, select_master_file)
  BY DEF Steps, select_master_file, Reset
<1>2. at'.step = step /\ UNCHANGED <<call, result>>
  BY <1>1, TransmitFacts DEF BasicInv, Kept
<1>3. at'.written => IsPlain(Length)'
  BY <1>1, LastPlain
<1> QED
  BY <1>2, <1>3 DEF ReadInv, ReadSteps

\* The scan that a certificate is looked for by next.
LEMMA ScanOn ==
  ASSUME Shallow, BasicInv, Promises, Room, Kept, NEW n \in Nat, Reset("scan_reset", n), IsSeq(data'),
         call.op = "certificate", call.pin \in {RightPin, NoPin}
  PROVE  SessionInv' /\ ReadInv' /\ Promises'
<1>1. ReadInv' /\ at'.step = "scan_reset" /\ call' = call
  BY ResetReads
<1>2. SessionInv'
  BY <1>1 DEF SessionInv, KeySteps
<1>3. /\ "scan_reset" \in Steps \ {"idle", "power_on"} /\ 1 \in Nat
      /\ select_master_file.ins = "SELECT" /\ Transmit("scan_reset", n, 1, select_master_file)
  BY DEF Steps, select_master_file, Reset
<1>4. Promises'
  BY <1>3, SentKeeps
<1> QED
  BY <1>1, <1>2, <1>4

LEMMA SelectFailedKeeps ==
  ASSUME Shallow, BasicInv, Promises, Room, Kept, SelectFailed, IsSeq(data'), call.pin \in {RightPin, NoPin}
  PROVE  SessionInv' /\ ReadInv' /\ Promises'
<1>1. CASE call.op = "certificate"
  BY <1>1, ScanOn DEF SelectFailed
<1>2. CASE call.op # "certificate"
  BY <1>2, FailedKeeps DEF SelectFailed
<1> QED
  BY <1>1, <1>2

LEMMA NextFileKeeps ==
  ASSUME Shallow, BasicInv, Promises, Room, Kept, NextFile, IsSeq(data'), at.step \in ScanSteps
  PROVE  SessionInv' /\ ReadInv' /\ Promises'
<1>1. call.op = "certificate" /\ call.pin \in {RightPin, NoPin} /\ at.n + 1 \in Nat
  BY DEF BasicInv, TypeInv, PlaceInv, PlaceOf, Promises, PinInv, PinSteps, ScanSteps
<1> QED
  BY <1>1, ScanOn, FailedKeeps DEF NextFile

LEMMA ReadFailedKeeps ==
  ASSUME Shallow, BasicInv, Promises, Room, Kept, ReadFailed, at.step \in ReadSteps
  PROVE  SessionInv' /\ ReadInv' /\ Promises'
<1>1. call.op = "certificate" /\ call.pin \in {RightPin, NoPin} /\ IsSeq(data')
  BY EmptyFacts DEF BasicInv, PlaceInv, PlaceOf, Promises, PinInv, PinSteps, ReadSteps, ReadFailed
<1>2. CASE at.step = "read"
  BY <1>1, <1>2, ScanOn DEF ReadFailed
<1>3. CASE at.step = "scan_read"
  BY <1>1, <1>3, NextFileKeeps DEF ReadFailed, ScanSteps
<1> QED
  BY <1>2, <1>3 DEF ReadSteps

LEMMA FailedExchangeKeeps ==
  ASSUME Shallow, BasicInv, Promises, Room, Kept, FailedExchange
  PROVE  SessionInv' /\ ReadInv' /\ Promises'
<1>1. CASE at.step \in {"reset", "select"}
  <2>1. SelectFailed /\ IsSeq(data') /\ call.pin \in {RightPin, NoPin}
    BY <1>1 DEF FailedExchange, BasicInv, TypeInv, Promises, PinInv, PinSteps
  <2> QED
    BY <2>1, SelectFailedKeeps
<1>2. CASE at.step \in ReadSteps
  <2>1. ReadFailed
    BY <1>2 DEF FailedExchange, ReadSteps
  <2> QED
    BY <1>2, <2>1, ReadFailedKeeps
<1>3. CASE at.step \notin {"reset", "select"} \cup ReadSteps
  <2>1. Return(Failed) /\ IsSeq(data')
    BY <1>3 DEF FailedExchange, BasicInv, TypeInv, ReadSteps
  <2> QED
    BY <2>1, FailedKeeps
<1> QED
  BY <1>1, <1>2, <1>3

-----------------------------------------------------------------------------
(* The handlers of a block that is read *)

\* The block that is read is an ATR, or it will be the next one, or the one after it.
LEMMA AtrRead ==
  ASSUME BasicInv, Reading
  PROVE  /\ Room /\ Kept /\ Length \in Nat /\ Length >= 1
         /\ IsAtr(1) => Head(inbox).sw = "atr"
         /\ IsPlain(1) => Head(inbox).sw \in {"9000", "6a82"} /\ Head(inbox).data = Empty
         /\ Length = 1 => /\ Len(inbox) = 1 /\ inbox[1] = Head(inbox) /\ inbox # <<>>
<1>1. Room /\ Kept
  BY ReadRoom DEF Reading, BasicInv
<1>2. Len(inbox) >= 1 /\ Head(inbox) = inbox[1] /\ Len(inbox) \in Nat /\ Len(outbox) \in Nat /\ inbox # <<>>
  BY TailFacts DEF Reading, BasicInv, LinkInv, IsSeq
<1>3. \A a \in Nat, b \in Nat : a >= 1 => a + b \in Nat /\ a + b >= 1 /\ (a + b = 1 => a = 1)
  OBVIOUS
<1>4. Length \in Nat /\ Length >= 1 /\ (Length = 1 => Len(inbox) = 1)
  BY <1>2, <1>3 DEF Length
<1> QED
  BY <1>1, <1>2, <1>4 DEF IsAtr, IsPlain

\* A command that follows in step is in step.
LEMMA StillInStep ==
  ASSUME BasicInv, Reading, Length = 1, NEW step \in Steps \ {"idle"}, NEW n \in Nat, NEW i \in Nat, NEW command,
         Transmit(step, n, i, command), IsSeq(data'), at'.written,
         step \in {"verify", "verify_again"} => command = verify_pin(call.pin),
         step = "mse" => command = manage_security_environment(call.op, call.key),
         step = "pso" => /\ command = perform_security_operation(call.op, call.input)
                         /\ card.env = <<call.op, call.key>>
  PROVE  InStep'
<1>1. Room /\ Kept
  BY AtrRead
<1>2. at'.step = step /\ call' = call /\ card' = card /\ calls' = calls
  BY <1>1, TransmitFacts DEF BasicInv, Kept
<1>3. Length' = 1 /\ inbox' = <<>> /\ outbox'[1].command = command /\ outbox'[1].to[1] = calls
  BY Moved
<1> QED
  BY <1>2, <1>3 DEF InStep

LEMMA OnPowerOnKeeps ==
  ASSUME Shallow, IInv, Reading, OnPowerOn(Head(inbox))
  PROVE  SessionInv' /\ ReadInv' /\ Promises'
<1>1. BasicInv /\ SessionInv /\ Promises /\ Room /\ Kept /\ IsSeq(data')
  BY AtrRead DEF IInv, OnPowerOn, BasicInv, TypeInv
<1>2. /\ "select_mf" \in Steps \ {"idle", "power_on"} /\ 0 \in Nat /\ "select_mf" \in PinSteps
      /\ select_master_file.ins # "VERIFY"
      /\ Transmit("select_mf", 0, 0, select_master_file)
  BY DEF OnPowerOn, Steps, PinSteps, select_master_file
<1>3. at'.step = "select_mf" /\ call' = call
  BY <1>1, <1>2, TransmitFacts DEF BasicInv, Kept
<1>4. Promises'
  <2>1. MayPresent
    BY DEF OnPowerOn, MayPresent
  <2> QED
    BY <1>1, <1>2, <2>1, SentKeeps
<1>5. ReadInv'
  BY <1>3 DEF ReadInv, ReadSteps
<1>6. ASSUME at'.written PROVE InStep' \/ IsAtr(1)' \/ (Length' >= 2 /\ IsAtr(2)')
  <2>1. IsAtr(Length) /\ Length \in 1..3
    BY <1>1, ThreeAtMost, AtrRead DEF OnPowerOn, SessionInv, Reading
  <2>2. /\ Length' = Length
        /\ \A k \in 1..Length - 1 : IsAtr(k + 1) => IsAtr(k)'
    BY <1>1, <1>2, <1>6, Moved
  <2>3. CASE Length = 1
    BY <1>3, <2>2, <2>3 DEF InStep
  <2>4. CASE Length = 2
    <3>1. 1 \in 1..Length - 1 /\ IsAtr(1 + 1)
      BY <2>1, <2>4
    <3> QED
      BY <2>2, <3>1
  <2>5. CASE Length = 3
    <3>1. 2 \in 1..Length - 1 /\ IsAtr(2 + 1)
      BY <2>1, <2>5
    <3> QED
      BY <2>2, <2>5, <3>1
  <2> QED
    BY <2>1, <2>3, <2>4, <2>5
<1>7. SessionInv'
  BY <1>3, <1>6 DEF SessionInv, KeySteps
<1> QED
  BY <1>4, <1>5, <1>7

\* The master file is selected before a way of selecting a file.
LEMMA ResetKeeps ==
  ASSUME Shallow, BasicInv, Promises, Reading, NEW n \in Nat, Reset("reset", n), IsSeq(data'),
         call.pin \in {RightPin, NoPin},
         call.op # "certificate" => Length = 1 \/ (Length >= 2 /\ IsAtr(2))
  PROVE  SessionInv' /\ ReadInv' /\ Promises'
<1>1. Room /\ Kept /\ 1 \in Nat /\ Length \in Nat /\ "reset" \in Steps \ {"idle", "power_on"}
      /\ select_master_file.ins # "VERIFY" /\ Transmit("reset", n, 1, select_master_file)
  BY AtrRead DEF Steps, select_master_file, Reset
<1>2. ReadInv' /\ at'.step = "reset" /\ call' = call
  BY <1>1, ResetReads
<1>3. Promises'
  BY <1>1, SentKeeps
<1>4. ASSUME at'.written, call.op # "certificate" PROVE InStep' \/ IsAtr(1)'
  <2>1. CASE Length = 1
    BY <1>1, <1>4, <2>1, StillInStep
  <2>2. CASE Length >= 2 /\ IsAtr(2)
    <3>1. 1 \in 1..Length - 1 /\ IsAtr(1 + 1)
      BY <1>1, <2>2
    <3>2. IsAtr(1)'
      BY <1>1, <1>4, <3>1, Moved
    <3> QED
      BY <3>2
  <2> QED
    BY <1>4, <2>1, <2>2
<1>5. SessionInv'
  BY <1>2, <1>4 DEF SessionInv, KeySteps
<1> QED
  BY <1>2, <1>3, <1>5

\* The commands before a file is selected and after the key is.
LEMMA PlainKeeps ==
  ASSUME Shallow, BasicInv, Promises, Reading,
         NEW step \in {"verify", "logout", "verify_again", "status"} \cup KeySteps,
         NEW command, Transmit(step, 0, 0, command), IsSeq(data'),
         call.pin \notin {RightPin, NoPin} => step \in PinSteps,
         command.ins = "VERIFY" => MayPresent /\ step # "logout",
         step = "logout" => MayPresent,
         step \in {"verify", "verify_again"} => command = verify_pin(call.pin),
         step = "mse" => command = manage_security_environment(call.op, call.key),
         step = "pso" => /\ command = perform_security_operation(call.op, call.input)
                         /\ card.env = <<call.op, call.key>>,
         step # "status" => Length = 1 \/ (step = "verify" /\ Length >= 2 /\ IsAtr(2))
  PROVE  SessionInv' /\ ReadInv' /\ Promises'
<1>1. Room /\ Kept /\ 0 \in Nat /\ Length \in Nat /\ step \in Steps \ {"idle", "power_on"} /\ step # "select_mf"
  BY AtrRead DEF Steps, KeySteps
<1>2. at'.step = step /\ call' = call
  BY <1>1, TransmitFacts DEF BasicInv, Kept
<1>3. ReadInv'
  BY <1>2 DEF ReadInv, ReadSteps, KeySteps
<1>4. Promises'
  BY <1>1, SentKeeps
<1>5. ASSUME at'.written PROVE step = "status" \/ InStep' \/ (step = "verify" /\ IsAtr(1)')
  <2>1. CASE Length = 1
    BY <1>1, <1>5, <2>1, StillInStep
  <2>2. CASE step = "verify" /\ Length >= 2 /\ IsAtr(2)
    <3>1. 1 \in 1..Length - 1 /\ IsAtr(1 + 1)
      BY <1>1, <2>2
    <3>2. IsAtr(1)'
      BY <1>1, <1>5, <3>1, Moved
    <3> QED
      BY <2>2, <3>2
  <2> QED
    BY <2>1, <2>2
<1>6. SessionInv'
  BY <1>2, <1>5 DEF SessionInv, KeySteps
<1> QED
  BY <1>3, <1>4, <1>6

LEMMA OnSelectMfKeeps ==
  ASSUME Shallow, IInv, Reading, OnSelectMf(Head(inbox))
  PROVE  SessionInv' /\ ReadInv' /\ Promises'
<1>1. BasicInv /\ SessionInv /\ Promises /\ Room /\ Kept /\ IsSeq(data') /\ at.step = "select_mf"
  BY AtrRead DEF IInv, OnSelectMf, BasicInv, TypeInv
<1>2. CASE ~Succeeds(Head(inbox))
  <2>1. Return(Failed)
    BY <1>2 DEF OnSelectMf
  <2> QED
    BY <1>1, <2>1, FailedKeeps
<1>3. CASE Succeeds(Head(inbox))
  <2>1. ~IsAtr(1)
    BY <1>1, <1>3, AtrRead DEF Succeeds
  <2>2. Length = 1 \/ (Length >= 2 /\ IsAtr(2))
    BY <1>1, <2>1 DEF SessionInv, InStep, Reading
  <2>3. CASE call.pin = NoPin
    BY <1>1, <1>3, <2>2, <2>3, ResetKeeps DEF OnSelectMf
  <2>4. CASE call.pin # NoPin
    <3>1. Transmit("verify", 0, 0, verify_pin(call.pin)) /\ MayPresent /\ "verify" \in PinSteps
      BY <1>1, <1>3, <2>4 DEF OnSelectMf, MayPresent, PinSteps
    <3> QED
      BY <1>1, <2>2, <3>1, PlainKeeps
  <2> QED
    BY <2>3, <2>4
<1> QED
  BY <1>2, <1>3

\* A PIN that the card accepts is the right one.
LEMMA VerifiedKeeps ==
  ASSUME Shallow, BasicInv, Promises, Reading, at.step \in {"verify", "verify_again"},
         InStep \/ IsAtr(1), Verified(Head(inbox)), IsSeq(data')
  PROVE  SessionInv' /\ ReadInv' /\ Promises'
<1>1. Room /\ Kept /\ 1 \in Nat
  BY AtrRead
<1>2. CASE Succeeds(Head(inbox))
  <2>1. InStep
    BY <1>2, AtrRead DEF Succeeds
  <2>2. Length = 1 /\ inbox # <<>> /\ inbox[1].sw = "9000"
    BY <1>2, <2>1, AtrRead DEF InStep, Succeeds, Reading
  <2>3. call.pin = RightPin
    BY <2>1, <2>2 DEF InStep
  <2>4. Reset("reset", 1)
    BY <1>2 DEF Verified, Succeeds
  <2> QED
    BY <1>1, <2>2, <2>3, <2>4, ResetKeeps
<1>3. CASE Head(inbox).sw = "6300"
  <2>1. Transmit("status", 0, 0, verify_pin_status) /\ "status" \in PinSteps /\ verify_pin_status.ins # "VERIFY"
    BY <1>3 DEF Verified, Succeeds, PinSteps, verify_pin_status
  <2> QED
    BY <2>1, PlainKeeps
<1>4. CASE ~Succeeds(Head(inbox)) /\ Head(inbox).sw # "6300"
  <2>1. Return(Failed)
    BY <1>4 DEF Verified
  <2> QED
    BY <1>1, <2>1, FailedKeeps
<1> QED
  BY <1>2, <1>3, <1>4

LEMMA OnVerifyKeeps ==
  ASSUME Shallow, IInv, Reading,
         OnVerify(Head(inbox)) \/ OnLogout(Head(inbox)) \/ OnVerifyAgain(Head(inbox)) \/ OnStatus(Head(inbox))
  PROVE  SessionInv' /\ ReadInv' /\ Promises'
<1>1. BasicInv /\ SessionInv /\ Promises /\ Room /\ Kept /\ IsSeq(data') /\ at.written
  BY AtrRead DEF IInv, OnVerify, OnLogout, OnVerifyAgain, OnStatus, BasicInv, TypeInv, Reading
<1>2. CASE OnVerify(Head(inbox))
  <2>1. at.step = "verify" /\ (InStep \/ IsAtr(1))
    BY <1>1, <1>2 DEF OnVerify, SessionInv
  <2>2. CASE Head(inbox).sw = "6f86"
    <3>1. InStep
      BY <1>1, <2>1, <2>2, AtrRead
    <3>2. Length = 1 /\ inbox # <<>> /\ inbox[1].sw = "6f86"
      BY <1>1, <2>2, <3>1, AtrRead DEF InStep
    <3>3. MayPresent
      BY <1>1, <2>1, <3>2 DEF MayPresent
    <3>4. Transmit("logout", 0, 0, logout) /\ logout.ins # "VERIFY" /\ "logout" \in PinSteps
      BY <1>2, <2>2 DEF OnVerify, logout, PinSteps
    <3> QED
      BY <1>1, <3>2, <3>3, <3>4, PlainKeeps
  <2>3. CASE Head(inbox).sw # "6f86"
    <3>1. Verified(Head(inbox))
      BY <1>2, <2>3 DEF OnVerify
    <3> QED
      BY <1>1, <2>1, <3>1, VerifiedKeeps
  <2> QED
    BY <2>2, <2>3
<1>3. CASE OnLogout(Head(inbox))
  <2>1. at.step = "logout" /\ Length = 1 /\ MayPresent
    BY <1>1, <1>3 DEF OnLogout, SessionInv, InStep, MayPresent
  <2>2. "verify_again" \in PinSteps
    BY DEF PinSteps
  <2>3. CASE Succeeds(Head(inbox))
    BY <1>1, <1>3, <2>1, <2>2, <2>3, PlainKeeps DEF OnLogout
  <2>4. CASE ~Succeeds(Head(inbox))
    BY <1>1, <1>3, <2>4, FailedKeeps DEF OnLogout
  <2> QED
    BY <2>3, <2>4
<1>4. CASE OnVerifyAgain(Head(inbox))
  <2>1. at.step = "verify_again" /\ InStep /\ Verified(Head(inbox))
    BY <1>1, <1>4 DEF OnVerifyAgain, SessionInv
  <2> QED
    BY <1>1, <2>1, VerifiedKeeps
<1>5. CASE OnStatus(Head(inbox))
  BY <1>1, <1>5, FailedKeeps DEF OnStatus
<1> QED
  BY <1>2, <1>3, <1>4, <1>5

\* A SELECT goes out behind the SELECT that is answered.
LEMMA SelectKeeps ==
  ASSUME Shallow, BasicInv, Promises, Reading, NEW step \in {"select", "scan_select"},
         NEW n \in 1..Len(Sequences(step)), NEW i \in 1..Len(Sequences(step)[n]),
         Select(step, n, i), IsSeq(data'), call.pin \in {RightPin, NoPin}, IsPlain(Length),
         call.op # "certificate" => Length = 1
  PROVE  SessionInv' /\ ReadInv' /\ Promises'
<1> DEFINE command == Sequences(step)[n][i]
<1>1. Room /\ Kept /\ n \in Nat /\ i \in Nat /\ Length \in Nat /\ step \in Steps \ {"idle", "power_on"}
      /\ step \notin {"select_mf", "logout", "verify", "verify_again", "mse", "pso"}
  <2>1. Room /\ Kept /\ Length \in Nat /\ call \in Call
    BY AtrRead DEF BasicInv, TypeInv
  <2>2. n \in Nat /\ i \in Nat
    BY <2>1, SequencesFacts
  <2> QED
    BY <2>1, <2>2 DEF Steps
<1>2. command.ins = "SELECT" /\ Transmit(step, n, i, command)
  <2>1. call \in Call
    BY DEF BasicInv, TypeInv
  <2>2. command.ins = "SELECT"
    BY <2>1, SequencesFacts
  <2> QED
    BY <2>2 DEF Select
<1> HIDE DEF command
<1>3. at'.step = step /\ call' = call
  BY <1>1, <1>2, TransmitFacts DEF BasicInv, Kept
<1>4. Promises'
  BY <1>1, <1>2, SentKeeps
<1>5. at'.written => IsPlain(Length)'
  BY <1>1, <1>2, LastPlain
<1>6. ASSUME at'.written, Length' >= 2 PROVE IsPlain(Length - 1)'
  <2>1. /\ Length' = Length /\ \A k \in 1..Length - 1 : IsPlain(k + 1) => IsPlain(k)'
    BY <1>1, <1>2, <1>6, Moved
  <2>2. PICK k : k = Length - 1
    OBVIOUS
  <2>3. k \in 1..Length - 1 /\ k + 1 = Length /\ Length' - 1 = k
    BY <1>1, <1>6, <2>1, <2>2
  <2>4. IsPlain(k)'
    BY <2>1, <2>3
  <2> QED
    BY <2>3, <2>4
<1>7. ReadInv'
  BY <1>3, <1>5, <1>6 DEF ReadInv, ReadSteps
<1>8. call.op # "certificate" /\ at'.written => InStep'
  BY <1>1, <1>2, StillInStep
<1>9. SessionInv'
  BY <1>3, <1>8 DEF SessionInv, KeySteps
<1> QED
  BY <1>4, <1>7, <1>9

\* READ BINARY of the first block goes out behind two SELECTs at most.
LEMMA ReadKeeps ==
  ASSUME Shallow, BasicInv, Promises, Reading, NEW step \in ReadSteps, NEW n \in Nat,
         Transmit(step, n, 1, read_binary(1)), IsSeq(data'),
         call.op = "certificate", call.pin \in {RightPin, NoPin},
         IsPlain(Length), Length >= 2 => IsPlain(Length - 1)
  PROVE  SessionInv' /\ ReadInv' /\ Promises'
<1>1. Room /\ Kept /\ 1 \in Nat /\ step \in Steps \ {"idle", "power_on"}
      /\ step \notin {"select_mf", "logout", "verify", "verify_again", "reset", "select", "scan_reset", "scan_select"}
      /\ read_binary(1).ins # "VERIFY"
  BY AtrRead DEF Steps, ReadSteps, read_binary
<1>2. at'.step = step /\ call' = call /\ at'.i = 1
  BY <1>1, TransmitFacts DEF BasicInv, Kept
<1>3. Promises'
  BY <1>1, SentKeeps
<1>4. SessionInv'
  BY <1>2 DEF SessionInv, ReadSteps, KeySteps
<1>5. ASSUME at'.written
      PROVE  /\ \A k \in 1..Length' - 1 : IsPlain(k)'
             /\ Length' = 1 => inbox' = <<>> /\ outbox'[1].command = read_binary(1)
  <2>1. /\ Length' = Length /\ (Length = 1 => inbox' = <<>> /\ outbox'[1].command = read_binary(1))
        /\ \A k \in 1..Length - 1 : IsPlain(k + 1) => IsPlain(k)'
    BY <1>1, <1>5, Moved
  <2>2. Length \in 0..3
    BY ThreeAtMost
  <2>3. ASSUME NEW k \in 1..Length - 1 PROVE IsPlain(k)'
    <3>1. PICK j : j = k + 1
      OBVIOUS
    <3>2. j = Length \/ (Length >= 2 /\ j = Length - 1)
      BY <2>2, <3>1
    <3>3. IsPlain(j)
      BY <3>2
    <3> QED
      BY <2>1, <3>1, <3>3
  <2> QED
    BY <2>1, <2>3
<1>6. ReadInv'
  <2>1. ~(at'.i > 1) /\ 1..at'.i - 1 = {}
    BY <1>2
  <2>2. at'.step \notin {"reset", "scan_reset", "select", "scan_select"}
    BY <1>1, <1>2
  <2> QED
    BY <1>2, <1>5, <2>1, <2>2 DEF ReadInv
<1> QED
  BY <1>3, <1>4, <1>6

LEMMA OnResetKeeps ==
  ASSUME Shallow, IInv, Reading, OnReset(Head(inbox))
  PROVE  SessionInv' /\ ReadInv' /\ Promises'
<1>1. BasicInv /\ SessionInv /\ ReadInv /\ Promises /\ Room /\ Kept /\ IsSeq(data') /\ at.step = "reset"
      /\ at.written
  BY AtrRead DEF IInv, OnReset, BasicInv, TypeInv, Reading
<1>2. call.pin \in {RightPin, NoPin}
  BY <1>1 DEF Promises, PinInv, PinSteps
<1>3. CASE Succeeds(Head(inbox))
  <2>1. call.op # "certificate" => Length = 1
    BY <1>1, <1>3, AtrRead DEF SessionInv, InStep, Succeeds
  <2>2. IsPlain(Length)
    BY <1>1 DEF ReadInv
  <2>3. /\ at.n \in 1..Len(Sequences("select")) /\ 1 \in 1..Len(Sequences("select")[at.n])
    <3>1. at.n \in 1..Len(Sequences("select")) /\ call \in Call
      BY <1>1, SameSequences DEF BasicInv, PlaceInv, PlaceOf, TypeInv
    <3>2. Len(Sequences("select")[at.n]) \in Nat \ {0}
      BY <3>1, SequencesFacts
    <3> QED
      BY <3>1, <3>2
  <2>4. Select("select", at.n, 1)
    BY <1>3 DEF OnReset
  <2> QED
    BY <1>1, <1>2, <2>1, <2>2, <2>3, <2>4, SelectKeeps
<1>4. CASE ~Succeeds(Head(inbox))
  BY <1>1, <1>2, <1>4, SelectFailedKeeps DEF OnReset
<1> QED
  BY <1>3, <1>4

LEMMA OnSelectKeeps ==
  ASSUME Shallow, IInv, Reading, OnSelect(Head(inbox))
  PROVE  SessionInv' /\ ReadInv' /\ Promises'
<1> DEFINE r    == Head(inbox)
           all  == Len(Sequences("select"))
           here == Len(Sequences("select")[at.n])
<1>1. BasicInv /\ SessionInv /\ ReadInv /\ Promises /\ Room /\ Kept /\ IsSeq(data') /\ at.step = "select"
      /\ at.written
  BY AtrRead DEF IInv, OnSelect, BasicInv, TypeInv, Reading
<1>2. call.pin \in {RightPin, NoPin}
  BY <1>1 DEF Promises, PinInv, PinSteps
<1>3. at.n \in 1..all /\ at.i \in 1..here /\ all \in Nat /\ here \in Nat /\ at.n \in Nat /\ at.n + 1 \in Nat
  <2>1. at.n \in 1..all /\ at.i \in 1..here
    BY <1>1 DEF BasicInv, PlaceInv, PlaceOf
  <2> QED
    BY <1>1, <2>1, SequencesFacts DEF BasicInv, TypeInv
<1>4. (call.op # "certificate" => Length = 1) /\ IsPlain(Length) /\ (Length >= 2 => IsPlain(Length - 1))
  BY <1>1 DEF SessionInv, ReadInv, InStep
<1>5. (at.i < here /\ ~(at.i = here)) \/ (at.i = here /\ ~(at.i < here))
  BY <1>3
<1>6. (at.n < all /\ ~(at.n = all)) \/ (at.n = all /\ ~(at.n < all))
  BY <1>3
<1>7. CASE Succeeds(r) /\ at.i < here
  <2>1. Select("select", at.n, at.i + 1)
    BY <1>5, <1>7 DEF OnSelect
  <2>2. at.i + 1 \in 1..Len(Sequences("select")[at.n])
    BY <1>3, <1>7
  <2> QED
    BY <1>1, <1>2, <1>3, <1>4, <2>1, <2>2, SelectKeeps
<1>8. CASE Succeeds(r) /\ at.i = here
  <2>1. Selected
    BY <1>5, <1>8 DEF OnSelect
  <2>2. CASE call.op = "certificate"
    <3>1. Transmit("read", at.n, 1, read_binary(1)) /\ "read" \in ReadSteps
      BY <2>1, <2>2 DEF Selected, ReadSteps
    <3> QED
      BY <1>1, <1>2, <1>3, <1>4, <2>2, <3>1, ReadKeeps
  <2>3. CASE call.op # "certificate"
    <3>1. Transmit("mse", 0, 0, manage_security_environment(call.op, call.key)) /\ "mse" \in KeySteps
          /\ manage_security_environment(call.op, call.key).ins # "VERIFY"
      BY <2>1, <2>3 DEF Selected, KeySteps, manage_security_environment
    <3> QED
      BY <1>1, <1>2, <1>4, <2>3, <3>1, PlainKeeps
  <2> QED
    BY <2>2, <2>3
<1>9. CASE ~Succeeds(r) /\ at.n < all
  <2>1. Reset("reset", at.n + 1)
    BY <1>6, <1>9 DEF OnSelect
  <2> QED
    BY <1>1, <1>2, <1>3, <1>4, <2>1, ResetKeeps
<1>10. CASE ~Succeeds(r) /\ at.n = all
  <2>1. SelectFailed
    BY <1>6, <1>10 DEF OnSelect
  <2> QED
    BY <1>1, <1>2, <2>1, SelectFailedKeeps
<1> QED
  BY <1>5, <1>6, <1>7, <1>8, <1>9, <1>10

LEMMA OnMseKeeps ==
  ASSUME Shallow, IInv, Reading, OnMse(Head(inbox))
  PROVE  SessionInv' /\ ReadInv' /\ Promises'
<1>1. BasicInv /\ SessionInv /\ Promises /\ Room /\ Kept /\ IsSeq(data') /\ at.step = "mse" /\ at.written
  BY AtrRead DEF IInv, OnMse, BasicInv, TypeInv, Reading
<1>2. call.pin \in {RightPin, NoPin} /\ InStep /\ Length = 1
  BY <1>1 DEF Promises, PinInv, PinSteps, SessionInv, KeySteps, InStep
<1>3. CASE Succeeds(Head(inbox)) /\ (call.op = "sign" => call.input \in Supported)
  <2>1. card.env = <<call.op, call.key>>
    BY <1>1, <1>2, <1>3, AtrRead DEF InStep, Succeeds
  <2>2. Transmit("pso", 0, 0, perform_security_operation(call.op, call.input)) /\ "pso" \in KeySteps
        /\ perform_security_operation(call.op, call.input).ins # "VERIFY"
    BY <1>3 DEF OnMse, KeySteps, perform_security_operation
  <2> QED
    BY <1>1, <1>2, <2>1, <2>2, PlainKeeps
<1>4. CASE ~(Succeeds(Head(inbox)) /\ (call.op = "sign" => call.input \in Supported))
  <2>1. Return(Failed)
    BY <1>4 DEF OnMse
  <2> QED
    BY <1>1, <2>1, FailedKeeps
<1> QED
  BY <1>3, <1>4

LEMMA OnPsoKeeps ==
  ASSUME Shallow, IInv, Reading, OnPso(Head(inbox))
  PROVE  SessionInv' /\ ReadInv' /\ Promises'
<1>1. BasicInv /\ SessionInv /\ Promises /\ Room /\ Kept /\ IsSeq(data') /\ at.step = "pso" /\ at.written
  BY AtrRead DEF IInv, OnPso, BasicInv, TypeInv, Reading
<1>2. call.pin \in {RightPin, NoPin} /\ InStep /\ Length = 1 /\ call.op # "certificate"
  BY <1>1 DEF Promises, PinInv, PinSteps, SessionInv, KeySteps, InStep, BasicInv, PlaceInv, PlaceOf
<1> DEFINE s == [ok |-> TRUE, value |-> Head(inbox).data]
<1>3. CASE Succeeds(Head(inbox)) /\ (call.op = "sign" => HasSignatureLength(Head(inbox).data))
  <2>1. Return(s) /\ s.ok = TRUE /\ s.value = Head(inbox).data
    BY <1>3 DEF OnPso
  <2>2. Head(inbox).data = Outcome(call.op, call.key, call.input)
    BY <1>1, <1>2, <1>3, AtrRead DEF InStep, Succeeds
  <2> HIDE DEF s
  <2>3. Owed(s)
    BY <1>2, <2>1, <2>2 DEF Owed
  <2>4. s.ok \in BOOLEAN
    BY <2>1
  <2> QED
    BY <1>1, <2>1, <2>3, <2>4, ReturnKeeps
<1>4. CASE ~(Succeeds(Head(inbox)) /\ (call.op = "sign" => HasSignatureLength(Head(inbox).data)))
  <2>1. Return(Failed)
    BY <1>4 DEF OnPso
  <2> QED
    BY <1>1, <2>1, FailedKeeps
<1> QED
  BY <1>3, <1>4

LEMMA OnScanKeeps ==
  ASSUME Shallow, IInv, Reading, OnScanReset(Head(inbox)) \/ OnScanSelect(Head(inbox))
  PROVE  SessionInv' /\ ReadInv' /\ Promises'
<1> DEFINE r    == Head(inbox)
           here == Len(Sequences("scan_select")[at.n])
<1>1. BasicInv /\ ReadInv /\ Promises /\ Room /\ Kept /\ IsSeq(data') /\ at.written
      /\ at.step \in {"scan_reset", "scan_select"} /\ at.step \in ScanSteps
  BY AtrRead DEF IInv, OnScanReset, OnScanSelect, BasicInv, TypeInv, Reading, ScanSteps
<1>2. call.pin \in {RightPin, NoPin} /\ call.op = "certificate"
  BY <1>1 DEF Promises, PinInv, PinSteps, BasicInv, PlaceInv, PlaceOf
<1>3. at.n \in 1..Len(Sequences("scan_select")) /\ at.n \in Nat /\ 1 \in 1..here /\ here \in Nat
  <2>1. at.n \in 1..Len(Sequences("scan_select")) /\ at.n \in Nat
    BY <1>1, SameSequences DEF BasicInv, PlaceInv, PlaceOf, TypeInv
  <2>2. call \in Call
    BY <1>1 DEF BasicInv, TypeInv
  <2>3. here \in Nat \ {0}
    BY <2>1, <2>2, SequencesFacts
  <2> HIDE DEF here
  <2> QED
    BY <2>1, <2>3
<1>4. IsPlain(Length)
  BY <1>1 DEF ReadInv
<1>5. CASE OnScanReset(r)
  <2>1. Select("scan_select", at.n, 1) \/ NextFile
    BY <1>5 DEF OnScanReset
  <2> QED
    BY <1>1, <1>2, <1>3, <1>4, <2>1, SelectKeeps, NextFileKeeps
<1>6. CASE OnScanSelect(r)
  <2>1. at.step = "scan_select" /\ (Length >= 2 => IsPlain(Length - 1))
    BY <1>1, <1>6 DEF OnScanSelect, ReadInv
  <2>2. at.i \in 1..here
    BY <1>1, <2>1 DEF BasicInv, PlaceInv, PlaceOf
  <2>3. (at.i < here /\ ~(at.i = here)) \/ (at.i = here /\ ~(at.i < here))
    BY <1>3, <2>2
  <2>4. CASE Succeeds(r) /\ at.i < here
    <3>1. Select("scan_select", at.n, at.i + 1)
      BY <1>6, <2>3, <2>4 DEF OnScanSelect
    <3>2. at.i + 1 \in 1..Len(Sequences("scan_select")[at.n])
      BY <1>3, <2>2, <2>4
    <3> QED
      BY <1>1, <1>2, <1>3, <1>4, <3>1, <3>2, SelectKeeps
  <2>5. CASE Succeeds(r) /\ at.i = here
    <3>1. Transmit("scan_read", at.n, 1, read_binary(1)) /\ "scan_read" \in ReadSteps
      BY <1>6, <2>3, <2>5 DEF OnScanSelect, ReadSteps
    <3> QED
      BY <1>1, <1>2, <1>3, <1>4, <2>1, <3>1, ReadKeeps
  <2>6. CASE ~Succeeds(r)
    <3>1. NextFile
      BY <1>6, <2>6 DEF OnScanSelect
    <3> QED
      BY <1>1, <3>1, NextFileKeeps
  <2> QED
    BY <2>3, <2>4, <2>5, <2>6
<1> QED
  BY <1>5, <1>6

-----------------------------------------------------------------------------
(* Reading a certificate *)

LEMMA BlockFacts ==
  ASSUME NEW file, NEW i
  PROVE  /\ Block(file, i) # Empty
         /\ Full(Block(file, i)) <=> i < Certificate[file].chunks \/ Certificate[file].exact
         /\ Block(file, i)[1] = "block" /\ Block(file, i)[2] = file /\ Block(file, i)[3] = i
<1>1. /\ <<"block", file, i>>[1] = "block" /\ <<"block", file, i>>[2] = file /\ <<"block", file, i>>[3] = i
      /\ Len(<<"block", file, i>>) = 3
  OBVIOUS
<1>2. Len(<<>>) = 0
  BY EmptyFacts
<1>3. <<"block", file, i>> # <<>>
  BY <1>1, <1>2
<1> QED
  BY <1>1, <1>3 DEF Block, Empty, Full

\* Blocks that are all of a file are the certificate it holds, and are found to be it.
LEMMA WholeOf ==
  ASSUME NEW d, IsSeq(d), NEW file \in DOMAIN Certificate, Len(d) = Certificate[file].chunks,
         \A j \in 1..Len(d) : d[j] = Block(file, j),
         NEW found \in extract_first_der_certificate(d)
  PROVE  found = [i \in 1..Certificate[file].chunks |-> Block(file, i)]
<1> DEFINE n == Certificate[file].chunks
<1>1. n \in Nat \ {0} /\ Len(d) = n
  BY CertificateAssumption
<1> HIDE DEF n
<1>2. d # <<>> /\ d[1] = Block(file, 1)
  <2>1. Len(d) # 0
    BY <1>1
  <2>2. 1 \in 1..Len(d)
    BY <1>1
  <2> QED
    BY <2>1, <2>2, EmptyFacts
<1>3. Starts(d) /\ d[1][2] = file
  BY <1>2, BlockFacts DEF Starts
<1>4. ~(Len(d) < n) /\ Len(d) >= n
  BY <1>1
<1>5. extract_first_der_certificate(d) = {SubSeq(d, 1, n)}
  BY <1>2, <1>3, <1>4 DEF extract_first_der_certificate, n
<1>6. SubSeq(d, 1, n) = [i \in 1..n |-> Block(file, i)]
  <2>1. PICK S : d \in Seq(S)
    BY SeqOfItems
  <2>2. \A i \in 1..n : d[i] \in S
    BY <1>1, <2>1, ElementOfSeq
  <2>3. 1 \in Int /\ n \in Int /\ 1 <= n /\ n - 1 + 1 = n
    BY <1>1
  <2>4. /\ SubSeq(d, 1, n) \in Seq(S) /\ Len(SubSeq(d, 1, n)) = IF 1 <= n THEN n - 1 + 1 ELSE 0
        /\ \A i \in 1..n - 1 + 1 : SubSeq(d, 1, n)[i] = d[1 + i - 1]
    BY <2>2, <2>3, SubSeqProperties
  <2> DEFINE sub == SubSeq(d, 1, n)
  <2> HIDE DEF sub
  <2>5. IsSeq(sub) /\ Len(sub) = n
    BY <2>3, <2>4, SeqIsSeq DEF sub
  <2>6. \A i \in 1..n : 1 + i - 1 = i
    OBVIOUS
  <2>7. \A i \in 1..n : sub[i] = d[i]
    BY <2>3, <2>4, <2>6 DEF sub
  <2>8. sub = [i \in 1..n |-> sub[i]]
    BY <2>5 DEF IsSeq
  <2>9. \A i \in 1..n : sub[i] = Block(file, i)
    BY <1>1, <2>7
  <2> QED
    BY <2>8, <2>9 DEF sub
<1> QED
  BY <1>5, <1>6 DEF n

\* All of a certificate file, block by block.
AllOf(d) ==
  \E file \in DOMAIN Certificate :
    Len(d) = Certificate[file].chunks /\ \A j \in 1..Len(d) : d[j] = Block(file, j)

LEMMA ReadDoneKeeps ==
  ASSUME Shallow, BasicInv, Promises, Room, Kept, at.step \in ReadSteps, NEW d, IsSeq(d), ReadDone(d),
         Readable => d = <<>> \/ AllOf(d)
  PROVE  SessionInv' /\ ReadInv' /\ Promises'
<1>1. PICK found \in extract_first_der_certificate(d) :
        IF found = <<>> THEN ReadFailed
        ELSE Return([ok |-> TRUE, value |-> found]) /\ data' = <<>>
  BY DEF ReadDone
<1>2. CASE found = <<>>
  BY <1>1, <1>2, ReadFailedKeeps
<1>3. CASE found # <<>>
  <2> DEFINE s == [ok |-> TRUE, value |-> found]
  <2>1. Return(s) /\ IsSeq(data') /\ s.ok = TRUE /\ s.value = found
    BY <1>1, <1>3, EmptyFacts
  <2> HIDE DEF s
  <2>2. call.op = "certificate" /\ call.pin \in {RightPin, NoPin}
    BY DEF BasicInv, PlaceInv, PlaceOf, Promises, PinInv, PinSteps, ReadSteps
  <2>3. ASSUME Readable
        PROVE  \E file \in DOMAIN Certificate : s.value = [i \in 1..Certificate[file].chunks |-> Block(file, i)]
    <3>1. d # <<>>
      <4>1. SUFFICES ASSUME d = <<>> PROVE FALSE
        OBVIOUS
      <4>2. ~Starts(d)
        BY <4>1 DEF Starts
      <4>3. extract_first_der_certificate(d) = {<<>>}
        BY <4>1, <4>2 DEF extract_first_der_certificate
      <4> QED
        BY <1>3, <4>3
    <3>2. PICK file \in DOMAIN Certificate :
            Len(d) = Certificate[file].chunks /\ \A j \in 1..Len(d) : d[j] = Block(file, j)
      BY <2>3, <3>1 DEF AllOf
    <3>3. found = [i \in 1..Certificate[file].chunks |-> Block(file, i)]
      BY <3>2, WholeOf
    <3> QED
      BY <2>1, <3>3
  <2>4. Owed(s)
    BY <2>2, <2>3 DEF Owed
  <2>5. s.ok \in BOOLEAN
    BY <2>1
  <2> QED
    BY <2>1, <2>4, <2>5, ReturnKeeps
<1> QED
  BY <1>2, <1>3

\* What answers the READ BINARY of block i in step.
LEMMA InStepRead ==
  ASSUME Shallow, IInv, Reading, OnRead(Head(inbox)), Length = 1
  PROVE  SessionInv' /\ ReadInv' /\ Promises'
<1> DEFINE r == Head(inbox)
           i == at.i
           file == card.selected
           n == Certificate[file].chunks
           some == Succeeds(r) /\ r.data # Empty
<1>1. BasicInv /\ ReadInv /\ Promises /\ Room /\ Kept /\ at.step \in ReadSteps /\ at.written
  BY AtrRead DEF IInv, OnRead, Reading, ReadSteps
<1>2. /\ call.op = "certificate" /\ call.pin \in {RightPin, NoPin}
      /\ i \in 1..MaxChunks /\ IsSeq(data) /\ Len(data) = i - 1 /\ i \in Nat /\ at.n \in Nat
      /\ MaxChunks \in Nat
  BY <1>1, BoundAssumption
     DEF BasicInv, TypeInv, PlaceInv, PlaceOf, Promises, PinInv, PinSteps, ReadSteps
<1>3. ReadFits(r, i)
  BY <1>1, AtrRead DEF ReadInv
<1>4. /\ i > 1 => file \in DOMAIN Certificate
      /\ \A j \in 1..i - 1 : data[j] = Block(file, j) /\ j <= n
  BY <1>1 DEF ReadInv
<1>5. file \in DOMAIN Certificate => n \in Nat \ {0} /\ (Readable => n <= MaxChunks)
  BY CertificateAssumption DEF Readable
<1>6. CASE r.sw \in {"9000", "6282"}
  <2>1. file \in DOMAIN Certificate /\ i <= n /\ r.data = Block(file, i) /\ (r.sw = "6282" => ~Full(r.data))
    BY <1>3, <1>6 DEF ReadFits
  <2>2. r.data # Empty /\ (~Full(r.data) => i >= n)
    BY <1>2, <1>5, <2>1, BlockFacts
  <2> DEFINE d == Append(data, r.data)
  <2>3. IsSeq(d) /\ Len(d) = i /\ \A j \in 1..i : d[j] = Block(file, j)
    <3>1. /\ IsSeq(d) /\ Len(d) = Len(data) + 1 /\ \A j \in 1..Len(data) : d[j] = data[j]
          /\ d[Len(data) + 1] = r.data
      BY <1>2, AppendFacts
    <3> HIDE DEF d
    <3>2. Len(data) + 1 = i
      BY <1>2
    <3>3. \A j \in 1..i : j \in 1..i - 1 \/ j = i
      BY <1>2
    <3> QED
      BY <1>2, <1>4, <2>1, <3>1, <3>2, <3>3
  <2> HIDE DEF d
  <2>4. \/ /\ some /\ i < MaxChunks
           /\ Transmit(at.step, at.n, i + 1, read_binary(i + 1)) /\ data' = d
        \/ /\ (some /\ ~(Full(r.data) /\ i < MaxChunks)) \/ r.sw = "6282"
           /\ ReadDone(d)
    BY <1>6, <2>2 DEF OnRead, d
  <2>5. CASE /\ (some /\ ~(Full(r.data) /\ i < MaxChunks)) \/ r.sw = "6282"
             /\ ReadDone(d)
    <3>1. Readable => i = n
      <4>1. CASE ~Full(r.data)
        BY <1>2, <1>5, <2>1, <2>2, <4>1
      <4>2. CASE ~(i < MaxChunks)
        BY <1>2, <1>5, <2>1, <4>2
      <4> QED
        BY <2>1, <2>5, <4>1, <4>2
    <3>2. Readable => AllOf(d)
      BY <2>1, <2>3, <3>1 DEF AllOf
    <3> QED
      BY <1>1, <2>3, <2>5, <3>2, ReadDoneKeeps
  <2>6. CASE /\ some /\ i < MaxChunks
             /\ Transmit(at.step, at.n, i + 1, read_binary(i + 1)) /\ data' = d
    <3> DEFINE step == at.step
    <3>1. /\ step \in Steps \ {"idle", "power_on"} /\ i + 1 \in Nat /\ read_binary(i + 1).ins # "VERIFY"
          /\ step \notin {"select_mf", "logout", "verify", "verify_again", "reset", "select",
                          "scan_reset", "scan_select"}
          /\ step \notin KeySteps
      BY <1>1, <1>2 DEF Steps, ReadSteps, KeySteps, read_binary
    <3>2. IsSeq(data') /\ Transmit(step, at.n, i + 1, read_binary(i + 1))
      BY <2>3, <2>6
    <3> HIDE DEF step
    <3>3. at'.step = step /\ call' = call /\ at'.i = i + 1 /\ card' = card
      BY <1>1, <1>2, <3>1, <3>2, TransmitFacts DEF BasicInv, Kept
    <3>4. Promises'
      BY <1>1, <1>2, <3>1, <3>2, SentKeeps
    <3>5. SessionInv'
      BY <1>2, <3>1, <3>3 DEF SessionInv
    <3>6. at'.written => Length' = 1 /\ inbox' = <<>> /\ outbox'[1].command = read_binary(i + 1)
      BY <1>1, <1>2, <3>1, <3>2, Moved
    <3>7. \A j \in 1..at'.i - 1 : data'[j] = Block(file, j) /\ j <= n
      <4>1. at'.i - 1 = i /\ data' = d
        BY <1>2, <2>6, <3>3
      <4>2. \A j \in 1..i : j <= n
        BY <1>2, <1>5, <2>1
      <4> QED
        BY <2>3, <4>1, <4>2
    <3>8. ReadInv'
      <4>1. Length' = 1 => 1..Length' - 1 = {}
        OBVIOUS
      <4> QED
        BY <2>1, <3>1, <3>3, <3>6, <3>7, <4>1 DEF ReadInv
    <3> QED
      BY <3>4, <3>5, <3>8
  <2> QED
    BY <2>4, <2>5, <2>6
<1>7. CASE r.sw = "6b00"
  <2>1. file \in DOMAIN Certificate /\ i > n
    BY <1>3, <1>7 DEF ReadFits
  <2>2. ReadDone(data)
    BY <1>7 DEF OnRead, Succeeds
  <2>3. i - 1 = n
    <3>1. n \in Nat \ {0}
      BY <1>5, <2>1
    <3>2. i - 1 \in 1..i - 1
      BY <1>2, <2>1, <3>1
    <3>3. i - 1 <= n
      BY <1>4, <3>2
    <3> QED
      BY <1>2, <2>1, <3>1, <3>3
  <2>4. AllOf(data)
    BY <1>2, <1>4, <2>1, <2>3 DEF AllOf
  <2> QED
    BY <1>1, <1>2, <2>2, <2>4, ReadDoneKeeps
<1>8. CASE r.sw = "6986"
  <2>1. ReadFailed
    BY <1>8 DEF OnRead, Succeeds
  <2> QED
    BY <1>1, <2>1, ReadFailedKeeps
<1> QED
  BY <1>3, <1>6, <1>7, <1>8 DEF ReadFits

\* A call that is behind finds no block where the answer to a SELECT is.
LEMMA BehindRead ==
  ASSUME Shallow, IInv, Reading, OnRead(Head(inbox)), Length # 1
  PROVE  SessionInv' /\ ReadInv' /\ Promises'
<1>1. BasicInv /\ ReadInv /\ Promises /\ Room /\ Kept /\ at.step \in ReadSteps /\ at.written
  BY AtrRead DEF IInv, OnRead, Reading, ReadSteps
<1>2. Length \in Nat /\ Length >= 1
  BY <1>1, AtrRead
<1>3. 1 \in 1..Length - 1
  BY <1>2
<1>4. IsPlain(1) /\ ~(at.i > 1)
  BY <1>1, <1>3 DEF ReadInv
<1>5. data = <<>>
  <2>1. IsSeq(data) /\ Len(data) = at.i - 1 /\ at.i \in 1..MaxChunks /\ MaxChunks \in Nat
    BY <1>1, BoundAssumption DEF BasicInv, TypeInv, PlaceInv, PlaceOf
  <2>2. at.i = 1
    BY <1>4, <2>1
  <2> QED
    BY <2>1, <2>2, EmptyFacts
<1>6. Head(inbox).sw \in {"9000", "6a82"} /\ Head(inbox).data = Empty
  BY <1>1, <1>4, AtrRead
<1>7. ReadDone(data)
  BY <1>6 DEF OnRead, Succeeds
<1> QED
  BY <1>1, <1>5, <1>7, EmptyFacts, ReadDoneKeeps

-----------------------------------------------------------------------------
(* The invariant, action by action *)

LEMMA ReceiveKeeps ==
  ASSUME Shallow, IInv, Receive
  PROVE  IInv'
<1>1. Reading /\ BasicInv
  BY DEF Receive, Reading, Kept, IInv, BasicInv, TypeInv
<1>2. BasicInv'
  BY <1>1, ReceiveBasic
<1> DEFINE r == Head(inbox)
<1>3. \/ OnPowerOn(r) \/ OnSelectMf(r) \/ OnVerify(r) \/ OnLogout(r)
      \/ OnVerifyAgain(r) \/ OnStatus(r) \/ OnReset(r) \/ OnSelect(r)
      \/ OnMse(r) \/ OnPso(r) \/ OnRead(r) \/ OnScanReset(r) \/ OnScanSelect(r)
  BY DEF Receive
<1>4. OnRead(r) => SessionInv' /\ ReadInv' /\ Promises'
  BY <1>1, InStepRead, BehindRead
<1>5. SessionInv' /\ ReadInv' /\ Promises'
  BY <1>1, <1>3, <1>4, OnPowerOnKeeps, OnSelectMfKeeps, OnVerifyKeeps, OnResetKeeps, OnSelectKeeps,
     OnMseKeeps, OnPsoKeeps, OnScanKeeps
<1> QED
  BY <1>2, <1>5 DEF IInv

LEMMA GivenUpKeeps ==
  ASSUME Shallow, IInv, TimedOut \/ BadBlock
  PROVE  IInv'
<1>1. BasicInv /\ Promises
  BY DEF IInv
<1>2. BasicInv' /\ FailedExchange
  BY <1>1, TimedOutBasic, BadBlockBasic DEF TimedOut, BadBlock
<1>3. faults' \in 0..MaxFaults
  BY <1>1, BoundAssumption DEF TimedOut, BadBlock, Fault, BasicInv, TypeInv
<1>4. Room /\ Kept
  BY <1>1, <1>3, ReadRoom, UnreadRoom DEF TimedOut, BadBlock, BasicInv, Kept
<1> QED
  BY <1>1, <1>2, <1>4, FailedExchangeKeeps DEF IInv

LEMMA WriteFailsKeeps ==
  ASSUME Shallow, IInv, WriteFails
  PROVE  IInv'
<1>1. BasicInv /\ Promises
  BY DEF IInv
<1>2. /\ BasicInv' /\ ~at'.written /\ at'.step = at.step
      /\ Len(outbox') = Len(outbox) - 1 /\ \A k \in 1..Len(outbox) - 1 : outbox'[k] = outbox[k]
      /\ UNCHANGED <<call, data, result, card, calls, cost>>
  BY <1>1, WriteFailsFacts
<1>3. SessionInv' /\ ReadInv'
  BY <1>2 DEF SessionInv, ReadInv
<1>4. PinInv' /\ OwnOutcome' /\ (Readable => WholeCertificate')
  BY <1>1, <1>2 DEF Promises, PinInv, OwnOutcome, WholeCertificate
<1>5. TriesInv'
  <2>1. Len(outbox) \in 0..2
    BY <1>1, ThreeAtMost
  <2> SUFFICES ASSUME NEW m \in 1..MaxCalls
               PROVE  cost'[m] + Costs(m, 1)' + Costs(m, 2)' + MayCost(m)' <= Allowed(m)'
    BY DEF TriesInv
  <2>2. Costs(m, 1)' <= Costs(m, 1) /\ Costs(m, 2)' <= Costs(m, 2)
    <3>1. Len(outbox) \in {0, 1, 2} /\ Len(outbox') < Len(outbox)
      BY <1>2, <2>1
    <3>2. CASE Len(outbox) \in {0, 1}
      <4>1. ~(1 <= Len(outbox')) /\ ~(2 <= Len(outbox'))
        BY <1>2, <3>2
      <4> QED
        BY <4>1 DEF Costs
    <3>3. CASE Len(outbox) = 2
      <4>1. Len(outbox') = 1 /\ outbox'[1] = outbox[1]
        BY <1>2, <3>3
      <4> QED
        BY <3>3, <4>1 DEF Costs
    <3> QED
      BY <3>1, <3>2, <3>3
  <2>3. MayCost(m)' \in 0..1 /\ MayCost(m)' <= MayCost(m) /\ Allowed(m)' = Allowed(m) /\ cost' = cost
    BY <1>2 DEF MayPresent, MayCost, Allowed
  <2>4. Costs(m, 1)' \in 0..1 /\ Costs(m, 2)' \in 0..1
    BY DEF Costs
  <2>5. cost[m] + Costs(m, 1) + Costs(m, 2) + MayCost(m) <= Allowed(m)
    BY <1>1 DEF Promises, TriesInv
  <2>6. cost[m] + Costs(m, 1)' + Costs(m, 2)' + MayCost(m)' <= Allowed(m)
    BY <1>1, <2>2, <2>3, <2>4, <2>5, SpentFacts
  <2> QED
    BY <2>3, <2>6
<1> QED
  BY <1>2, <1>3, <1>4, <1>5 DEF IInv, Promises

LEMMA BeginKeeps ==
  ASSUME Shallow, IInv, Begin
  PROVE  IInv'
<1>1. BasicInv /\ TriesInv /\ at = Idle
  BY DEF IInv, Promises, Begin
<1>2. LinkInv' /\ BasicInv' /\ at'.step = "power_on" /\ result' = Pending /\ calls' = calls + 1 /\ cost' = cost
  BY <1>1, BeginFacts, BeginBasic DEF Begin
<1>3. /\ \A k \in 1..Len(outbox) : outbox'[k] = outbox[k]
      /\ at'.written => Len(outbox') = Len(outbox) + 1 /\ outbox'[Len(outbox) + 1].command.ins = "POWER_ON"
      /\ ~at'.written => outbox' = outbox
  BY <1>1, BeginFacts
<1>4. Len(outbox) \in 0..2 /\ Len(inbox') \in Nat
  BY <1>1, <1>2, ThreeAtMost DEF LinkInv, IsSeq
<1>5. SessionInv'
  <2>1. at'.written => IsAtr(Length)'
    <3>1. Len(inbox') + (Len(outbox) + 1) - Len(inbox') = Len(outbox) + 1
          /\ ~(Len(inbox') + (Len(outbox) + 1) <= Len(inbox'))
      BY <1>4
    <3> QED
      BY <1>3, <3>1 DEF IsAtr, Length
  <2> QED
    BY <1>2, <2>1 DEF SessionInv, KeySteps
<1>6. ReadInv'
  BY <1>2 DEF ReadInv, ReadSteps
<1>7. PinInv' /\ OwnOutcome' /\ (Readable => WholeCertificate')
  BY <1>2 DEF PinInv, OwnOutcome, WholeCertificate, Pending
<1>8. TriesInv'
  <2> SUFFICES ASSUME NEW m \in 1..MaxCalls
               PROVE  cost'[m] + Costs(m, 1)' + Costs(m, 2)' + MayCost(m)' <= Allowed(m)'
    BY DEF TriesInv
  <2>1. Costs(m, 1)' = Costs(m, 1) /\ Costs(m, 2)' = Costs(m, 2)
    <3>1. CASE ~at'.written
      BY <1>3, <3>1 DEF Costs
    <3>2. CASE at'.written /\ Len(outbox) = 0
      <4>1. Len(outbox') = 1 /\ outbox'[1].command.ins = "POWER_ON"
        BY <1>3, <3>2
      <4> QED
        BY <3>2, <4>1 DEF Costs
    <3>3. CASE at'.written /\ Len(outbox) = 1
      <4>1. Len(outbox') = 2 /\ outbox'[1] = outbox[1] /\ outbox'[2].command.ins = "POWER_ON"
        BY <1>3, <3>3
      <4> QED
        BY <3>3, <4>1 DEF Costs
    <3>4. CASE at'.written /\ Len(outbox) = 2
      <4>1. Len(outbox') = 3 /\ outbox'[1] = outbox[1] /\ outbox'[2] = outbox[2]
        BY <1>3, <3>4
      <4> QED
        BY <3>4, <4>1 DEF Costs
    <3> QED
      BY <1>4, <3>1, <3>2, <3>3, <3>4
  <2>2. calls \in Nat
    BY <1>1 DEF BasicInv, TypeInv
  <2>3. MayCost(m) = 0
    BY <1>1 DEF MayPresent, MayCost, Idle
  <2>4. MayCost(m)' = (IF m = calls + 1 THEN 1 ELSE 0)
        /\ Allowed(m) = (IF m <= calls THEN 1 ELSE 0) /\ Allowed(m)' = (IF m <= calls + 1 THEN 1 ELSE 0)
    BY <1>2 DEF MayPresent, MayCost, Allowed
  <2>5. MayCost(m)' + Allowed(m) <= Allowed(m)'
    BY <2>2, <2>4
  <2>6. cost[m] + Costs(m, 1) + Costs(m, 2) + 0 <= Allowed(m)
    BY <1>1, <2>3 DEF TriesInv
  <2>7. MayCost(m)' \in 0..1 /\ Allowed(m)' \in 0..1
    BY DEF MayCost, Allowed
  <2>8. cost[m] + Costs(m, 1) + Costs(m, 2) + MayCost(m)' <= Allowed(m)'
    BY <1>1, <2>5, <2>6, <2>7, SpentFacts
  <2> QED
    BY <1>2, <2>1, <2>8
<1> QED
  BY <1>2, <1>5, <1>6, <1>7, <1>8 DEF IInv, Promises

\* What is on its way stays where it is when a command becomes its answer.
LEMMA Executed ==
  ASSUME BasicInv, Execute, NEW k \in 1..Length
  PROVE  (IsAtr(k) => IsAtr(k)') /\ (IsPlain(k) => IsPlain(k)')
<1> DEFINE r == inbox'[Len(inbox) + 1]
<1>1. /\ Len(inbox') = Len(inbox) + 1 /\ Len(outbox') = Len(outbox) - 1
      /\ \A j \in 1..Len(inbox) : inbox'[j] = inbox[j]
      /\ \A j \in 1..Len(outbox) - 1 : outbox'[j] = outbox[j + 1]
      /\ Effect(outbox[1].command, r)
  BY ExecuteFacts
<1>2. Len(inbox) \in Nat /\ Len(outbox) \in Nat
  BY DEF BasicInv, LinkInv, IsSeq
<1> HIDE DEF r
<1>3. CASE k <= Len(inbox)
  <2>1. inbox'[k] = inbox[k] /\ k <= Len(inbox')
    BY <1>1, <1>2, <1>3
  <2> QED
    BY <1>3, <2>1 DEF IsAtr, IsPlain
<1>4. CASE k = Len(inbox) + 1
  <2>1. ~(k <= Len(inbox)) /\ k <= Len(inbox') /\ k - Len(inbox) = 1 /\ inbox'[k] = r
    BY <1>1, <1>2, <1>4 DEF r
  <2>2. (IsAtr(k) => r.sw = "atr") /\ (IsPlain(k) => r.sw \in {"9000", "6a82"} /\ r.data = Empty)
    BY <1>1, <2>1 DEF IsAtr, IsPlain, Effect
  <2> QED
    BY <2>1, <2>2 DEF IsAtr, IsPlain
<1>5. CASE k > Len(inbox) + 1
  <2>1. PICK j : j = k - Len(inbox')
    OBVIOUS
  <2>2. /\ ~(k <= Len(inbox)) /\ ~(k <= Len(inbox')) /\ j \in 1..Len(outbox) - 1 /\ j + 1 = k - Len(inbox)
    BY <1>1, <1>2, <1>5, <2>1 DEF Length
  <2>3. outbox'[k - Len(inbox')] = outbox[k - Len(inbox)]
    BY <1>1, <2>1, <2>2
  <2>4. IsAtr(k) => outbox[k - Len(inbox)].command.ins = "POWER_ON"
    BY <2>2 DEF IsAtr
  <2>5. IsPlain(k) => outbox[k - Len(inbox)].command.ins = "SELECT"
    BY <2>2 DEF IsPlain
  <2>6. outbox'[k - Len(inbox')].command.ins = "POWER_ON" => IsAtr(k)'
    BY <2>2 DEF IsAtr
  <2>7. outbox'[k - Len(inbox')].command.ins = "SELECT" => IsPlain(k)'
    BY <2>2 DEF IsPlain
  <2> QED
    BY <2>3, <2>4, <2>5, <2>6, <2>7
<1>6. k \in Nat
  OBVIOUS
<1> QED
  BY <1>2, <1>3, <1>4, <1>5, <1>6

\* The command the call waits for is answered.
LEMMA ExecutedInStep ==
  ASSUME BasicInv, Execute, Length = 1
  PROVE  /\ inbox = <<>> /\ inbox' # <<>> /\ Length' = 1 /\ Effect(outbox[1].command, inbox'[1])
         /\ Len(inbox) = 0 /\ Len(outbox) = 1
<1>1. /\ outbox # <<>> /\ Length' = Length /\ Len(inbox') = Len(inbox) + 1
      /\ Effect(outbox[1].command, inbox'[Len(inbox) + 1]) /\ BasicInv'
  BY ExecuteFacts
<1>2. IsSeq(inbox) /\ IsSeq(outbox) /\ IsSeq(inbox') /\ Len(inbox) \in Nat /\ Len(outbox) \in Nat
  BY <1>1 DEF BasicInv, LinkInv, IsSeq
<1>3. Len(outbox) # 0
  BY <1>1, <1>2, EmptyFacts
<1>4. Len(inbox) + Len(outbox) = 1
  BY DEF Length
<1>5. Len(inbox) = 0 /\ Len(outbox) = 1
  <2>1. \A a \in Nat, b \in Nat : b # 0 /\ a + b = 1 => a = 0 /\ b = 1
    OBVIOUS
  <2> QED
    BY <1>2, <1>3, <1>4, <2>1
<1>6. Len(inbox) + 1 = 1 /\ Len(inbox') # 0
  BY <1>1, <1>5
<1>7. inbox = <<>> /\ inbox' # <<>>
  BY <1>2, <1>5, <1>6, EmptyFacts
<1> QED
  BY <1>1, <1>5, <1>6, <1>7

LEMMA ExecuteKeeps ==
  ASSUME Shallow, IInv, Execute
  PROVE  IInv'
<1> DEFINE c == outbox[1].command
<1>1. BasicInv /\ SessionInv /\ ReadInv /\ Promises
  BY DEF IInv
<1>2. BasicInv' /\ UNCHANGED <<call, at, data, result, calls>> /\ Length' = Length /\ outbox # <<>>
  BY <1>1, ExecuteFacts DEF host
<1>3. \A k \in 1..Length : (IsAtr(k) => IsAtr(k)') /\ (IsPlain(k) => IsPlain(k)')
  BY <1>1, Executed
<1>4. Length \in 0..3 /\ (at.written /\ at # Idle => Length >= 1)
  BY <1>1, ThreeAtMost DEF BasicInv, LinkInv
<1>5. InStep => InStep'
  <2>1. SUFFICES ASSUME InStep PROVE InStep'
    OBVIOUS
  <2>2. Length = 1
    BY <2>1 DEF InStep
  <2>3. inbox = <<>> /\ inbox' # <<>> /\ Length' = 1 /\ Effect(c, inbox'[1])
    BY <1>1, <2>2, ExecutedInStep
  <2>4. at.step \in {"verify", "verify_again"} => (inbox'[1].sw = "9000" => call.pin = RightPin)
    <3>1. at.step \in {"verify", "verify_again"} => c.ins = "VERIFY" /\ c.pin = call.pin
      BY <2>1, <2>3 DEF InStep, verify_pin
    <3> HIDE DEF c
    <3> QED
      BY <2>3, <3>1 DEF Effect
  <2>5. at.step = "mse" => (inbox'[1].sw = "9000" => card'.env = <<call.op, call.key>>)
    <3>1. at.step = "mse" => c.ins = "MSE" /\ c.op = call.op /\ c.key = call.key
      BY <2>1, <2>3 DEF InStep, manage_security_environment
    <3> HIDE DEF c
    <3> QED
      BY <2>3, <3>1 DEF Effect
  <2>6. at.step = "pso" => (inbox'[1].sw = "9000" => inbox'[1].data = Outcome(call.op, call.key, call.input))
    <3>1. at.step = "pso" => /\ c.ins = "PSO" /\ c.op = call.op /\ c.input = call.input
                             /\ card.env = <<call.op, call.key>>
      BY <2>1, <2>3 DEF InStep, perform_security_operation
    <3>2. <<call.op, call.key>>[2] = call.key
      OBVIOUS
    <3> HIDE DEF c
    <3> QED
      BY <2>3, <3>1, <3>2 DEF Effect
  <2> QED
    BY <1>2, <2>3, <2>4, <2>5, <2>6 DEF InStep
<1>6. SessionInv'
  <2>1. SUFFICES ASSUME at.written, at.step # "idle" PROVE SessionInv'
    BY <1>2 DEF SessionInv, KeySteps
  <2>2. Length \in 1..3 /\ 1 \in 1..Length /\ Length \in 1..Length /\ (Length >= 2 => 2 \in 1..Length)
    BY <1>1, <1>4, <2>1 DEF BasicInv, TypeInv
  <2>3. (IsAtr(1) => IsAtr(1)') /\ (IsAtr(Length) => IsAtr(Length)')
        /\ (Length >= 2 /\ IsAtr(2) => Length' >= 2 /\ IsAtr(2)')
    <3>1. (IsAtr(1) => IsAtr(1)') /\ (Length >= 2 /\ IsAtr(2) => IsAtr(2)')
      BY <1>3, <2>2
    <3>2. IsAtr(Length) => IsAtr(Length)'
      <4>1. PICK k : k = Length
        OBVIOUS
      <4>2. k = Length' /\ (IsAtr(k) => IsAtr(k)')
        BY <1>2, <1>3, <2>2, <4>1
      <4> QED
        BY <4>1, <4>2
    <3> QED
      BY <1>2, <3>1, <3>2
  <2> QED
    BY <1>1, <1>2, <1>5, <2>3 DEF SessionInv
<1>7. ReadInv'
  <2>1. SUFFICES ASSUME at.written, at.step # "idle" PROVE ReadInv'
    BY <1>2 DEF ReadInv, ReadSteps
  <2>2. Length \in 1..3 /\ Length \in 1..Length
    BY <1>1, <1>4, <2>1 DEF BasicInv, TypeInv
  <2>3. IsPlain(Length) => IsPlain(Length)'
    <3>1. PICK k : k = Length
      OBVIOUS
    <3>2. k = Length' /\ (IsPlain(k) => IsPlain(k)')
      BY <1>2, <1>3, <2>2, <3>1
    <3> QED
      BY <3>1, <3>2
  <2>4. Length >= 2 => (IsPlain(Length - 1) => IsPlain(Length - 1)')
    <3>1. PICK k : k = Length - 1
      OBVIOUS
    <3>2. Length >= 2 => k \in 1..Length
      BY <2>2, <3>1
    <3>3. k = Length' - 1 /\ (Length >= 2 => (IsPlain(k) => IsPlain(k)'))
      BY <1>2, <1>3, <3>1, <3>2
    <3> QED
      BY <3>1, <3>3
  <2>5. CASE at.step \in ReadSteps
    <3>1. /\ at.i > 1 => Length = 1 /\ card.selected \in DOMAIN Certificate
          /\ \A j \in 1..at.i - 1 : /\ data[j] = Block(card.selected, j)
                                    /\ j <= Certificate[card.selected].chunks
          /\ \A k \in 1..Length - 1 : IsPlain(k)
          /\ Length = 1 => IF inbox = <<>> THEN outbox[1].command = read_binary(at.i)
                           ELSE ReadFits(inbox[1], at.i)
      BY <1>1, <2>1, <2>5 DEF ReadInv
    <3>2. ASSUME NEW k \in 1..Length - 1 PROVE IsPlain(k)'
      <4>1. k \in 1..Length
        BY <2>2
      <4> QED
        BY <1>3, <3>1, <4>1
    <3>3. at.i \in Nat
      BY <1>1 DEF BasicInv, TypeInv
    <3>4. CASE Length = 1
      <4>1. inbox = <<>> /\ inbox' # <<>> /\ Effect(c, inbox'[1])
        BY <1>1, <3>4, ExecutedInStep
      <4>2. c.ins = "READ_BINARY" /\ c.i = at.i
        BY <3>1, <3>4, <4>1 DEF read_binary
      <4> HIDE DEF c
      <4>3. card' = card /\ ReadFits(inbox'[1], at.i)
        BY <4>1, <4>2 DEF Effect
      <4>4. ReadFits(inbox[1], at.i)'
        BY <1>2, <4>3 DEF ReadFits
      <4>5. at.step \notin {"reset", "scan_reset", "select", "scan_select"}
        BY <2>5 DEF ReadSteps
      <4> QED
        BY <1>2, <2>5, <3>1, <3>2, <4>1, <4>3, <4>4, <4>5 DEF ReadInv
    <3>5. CASE Length # 1
      <4>1. ~(at.i > 1) /\ 1..at.i - 1 = {}
        BY <3>1, <3>3, <3>5
      <4>2. at.step \notin {"reset", "scan_reset", "select", "scan_select"}
        BY <2>5 DEF ReadSteps
      <4> QED
        BY <1>2, <2>5, <3>2, <3>5, <4>1, <4>2 DEF ReadInv
    <3> QED
      BY <3>4, <3>5
  <2>6. CASE at.step \notin ReadSteps
    BY <1>1, <1>2, <2>1, <2>3, <2>4, <2>6 DEF ReadInv
  <2> QED
    BY <2>5, <2>6
<1>8. PinInv' /\ OwnOutcome' /\ (Readable => WholeCertificate')
  BY <1>1, <1>2 DEF Promises, PinInv, OwnOutcome, WholeCertificate
<1>9. TriesInv'
  <2>1. /\ Len(inbox') = Len(inbox) + 1 /\ Len(outbox') = Len(outbox) - 1
        /\ \A k \in 1..Len(outbox) - 1 : outbox'[k] = outbox[k + 1]
        /\ Effect(c, inbox'[Len(inbox) + 1])
        /\ cost' = IF card'.tries < card.tries THEN [cost EXCEPT ![outbox[1].to[1]] = @ + 1] ELSE cost
    BY <1>1, ExecuteFacts
  <2> SUFFICES ASSUME NEW m \in 1..MaxCalls
               PROVE  cost'[m] + Costs(m, 1)' + Costs(m, 2)' + MayCost(m)' <= Allowed(m)'
    BY DEF TriesInv
  <2>2. Len(outbox) \in {1, 2} /\ Len(inbox) \in Nat
    <3>1. Len(outbox) \in 0..2 /\ Len(outbox) # 0 /\ Len(inbox) \in Nat
      BY <1>1, <1>2, ThreeAtMost, EmptyFacts DEF BasicInv, LinkInv
    <3> QED
      BY <3>1
  <2> DEFINE Mine == c.ins = "VERIFY" /\ outbox[1].to[1] = m
  <2>3. /\ Costs(m, 1)' = Costs(m, 2) /\ Costs(m, 2)' = 0
        /\ Costs(m, 1) = IF Mine THEN 1 ELSE 0
    <3>1. Costs(m, 1) = IF Mine THEN 1 ELSE 0
      BY <2>2 DEF Costs
    <3>2. CASE Len(outbox) = 1
      <4>1. Len(outbox') = 0
        BY <2>1, <3>2
      <4> QED
        BY <3>1, <3>2, <4>1 DEF Costs
    <3>3. CASE Len(outbox) = 2
      <4>1. Len(outbox') = 1 /\ outbox'[1] = outbox[2]
        BY <2>1, <3>3
      <4> QED
        BY <3>1, <3>3, <4>1 DEF Costs
    <3> QED
      BY <2>2, <3>2, <3>3
  <2>4. card.tries \in Nat /\ card'.tries \in Nat /\ cost[m] \in Nat /\ DOMAIN cost = 1..MaxCalls
    BY <1>1, <1>2 DEF BasicInv, TypeInv, CardOK
  <2>5. \/ cost'[m] = cost[m]
        \/ cost'[m] = cost[m] + 1 /\ Mine /\ card'.tries # card.tries
    <3>1. card'.tries # card.tries => c.ins = "VERIFY"
      BY <2>1 DEF Effect
    <3>2. CASE card'.tries < card.tries /\ outbox[1].to[1] = m
      BY <2>1, <2>4, <3>1, <3>2
    <3>3. CASE ~(card'.tries < card.tries /\ outbox[1].to[1] = m)
      BY <2>1, <2>4, <3>3
    <3> QED
      BY <3>2, <3>3
  <2>6. ASSUME MayCost(m)' = 1, MayCost(m) = 0 PROVE Mine /\ card'.tries = card.tries
    <3>1. MayPresent' /\ ~MayPresent /\ m = calls
      BY <1>2, <2>6 DEF MayCost
    <3>2. at.step = "verify" /\ at.written /\ Length = 1 /\ inbox'[1].sw = "6f86"
      BY <1>2, <3>1 DEF MayPresent
    <3>3. inbox = <<>> /\ Effect(c, inbox'[1]) /\ Len(inbox) = 0 /\ Len(outbox) = 1
      BY <1>1, <3>2, ExecutedInStep DEF c
    <3>4. InStep
      <4>1. InStep \/ IsAtr(1)
        BY <1>1, <3>2 DEF SessionInv
      <4>2. 1 - 0 = 1 /\ ~(1 <= 0)
        OBVIOUS
      <4>3. IsAtr(1) => c.ins = "POWER_ON"
        BY <3>3, <4>2 DEF IsAtr, c
      <4>4. c.ins # "POWER_ON"
        BY <3>2, <3>3 DEF Effect
      <4> QED
        BY <4>1, <4>3, <4>4
    <3>5. c.ins = "VERIFY" /\ outbox[1].to[1] = calls
      BY <3>2, <3>3, <3>4 DEF InStep, verify_pin, c
    <3> QED
      BY <3>1, <3>2, <3>3, <3>5 DEF Effect
  <2>7. /\ cost[m] + Costs(m, 1) + Costs(m, 2) + MayCost(m) <= Allowed(m)
        /\ Allowed(m)' = Allowed(m)
    BY <1>1, <1>2 DEF Promises, TriesInv, Allowed
  <2>8. MayCost(m)' \in {0, 1} /\ MayCost(m) \in {0, 1}
    BY DEF MayCost
  <2> HIDE DEF Mine, c
  <2>9. cost'[m] + MayCost(m)' <= cost[m] + Costs(m, 1) + MayCost(m)
    <3>1. CASE MayCost(m)' = 1 /\ MayCost(m) = 0
      <4>1. Costs(m, 1) = 1 /\ cost'[m] = cost[m]
        BY <2>3, <2>5, <2>6, <3>1
      <4> QED
        BY <2>4, <3>1, <4>1
    <3>2. CASE ~(MayCost(m)' = 1 /\ MayCost(m) = 0)
      <4>1. MayCost(m)' <= MayCost(m) /\ cost'[m] <= cost[m] + Costs(m, 1) /\ Costs(m, 1) \in {0, 1}
            /\ cost'[m] \in Nat
        BY <2>3, <2>4, <2>5, <2>8, <3>2
      <4> QED
        BY <2>4, <2>8, <4>1
    <3> QED
      BY <3>1, <3>2
  <2>10. cost'[m] \in Nat
    BY <2>4, <2>5
  <2> QED
    BY <1>1, <2>3, <2>4, <2>7, <2>8, <2>9, <2>10, SpentFacts
<1> QED
  BY <1>2, <1>6, <1>7, <1>8, <1>9 DEF IInv, Promises

LEMMA InitInv == Init => IInv
<1> SUFFICES ASSUME Init PROVE IInv
  OBVIOUS
<1>1. BasicInv
  BY InitBasic
<1>2. /\ at.step = "idle" /\ result.ok = FALSE /\ outbox = <<>> /\ calls = 0
      /\ cost = [n \in 1..MaxCalls |-> 0]
  BY DEF Init, Idle, Pending
<1>3. SessionInv /\ ReadInv
  BY <1>2 DEF SessionInv, ReadInv, ReadSteps, KeySteps
<1>4. PinInv /\ OwnOutcome /\ WholeCertificate
  BY <1>2 DEF PinInv, OwnOutcome, WholeCertificate
<1>5. TriesInv
  <2> SUFFICES ASSUME NEW m \in 1..MaxCalls
               PROVE  cost[m] + Costs(m, 1) + Costs(m, 2) + MayCost(m) <= Allowed(m)
    BY DEF TriesInv
  <2>1. Len(outbox) = 0 /\ MaxCalls \in Nat
    BY <1>2, EmptyFacts, BoundAssumption
  <2>2. Costs(m, 1) = 0 /\ Costs(m, 2) = 0 /\ MayCost(m) = 0 /\ cost[m] = 0 /\ Allowed(m) \in {0, 1}
    BY <1>2, <2>1 DEF Costs, MayPresent, MayCost, Allowed
  <2> QED
    BY <2>2
<1> QED
  BY <1>1, <1>3, <1>4, <1>5 DEF IInv, Promises

LEMMA NextInv ==
  ASSUME Shallow
  PROVE  IInv /\ [Next]_vars => IInv'
<1> SUFFICES ASSUME IInv, [Next]_vars PROVE IInv'
  OBVIOUS
<1>1. CASE UNCHANGED vars
  <2>1. UNCHANGED <<call, at, data, result, sequence, outbox, inbox, card, calls, faults, cost>>
    BY <1>1 DEF vars, host, link
  <2>2. BasicInv'
    BY <1>1, NextBasic DEF IInv
  <2>3. SessionInv' /\ ReadInv'
    BY <2>1 DEF IInv, SessionInv, InStep, ReadInv, ReadFits, IsAtr, IsPlain, Length
  <2>4. PinInv' /\ OwnOutcome' /\ (Readable => WholeCertificate')
    BY <2>1 DEF IInv, Promises, PinInv, OwnOutcome, WholeCertificate
  <2>5. TriesInv'
    BY <2>1 DEF IInv, Promises, TriesInv, Costs, MayPresent, MayCost, Allowed, Length
  <2> QED
    BY <2>2, <2>3, <2>4, <2>5 DEF IInv, Promises
<1>2. CASE Next
  BY <1>2, BeginKeeps, ExecuteKeeps, ReceiveKeeps, GivenUpKeeps, WriteFailsKeeps DEF Next
<1> QED
  BY <1>1, <1>2

LEMMA Invariance ==
  ASSUME Shallow
  PROVE  Spec => []IInv
BY InitInv, NextInv, PTL DEF Spec

-----------------------------------------------------------------------------
(* What a call returns *)

\* What sign_digest_direct and derive_vko_direct return is the card's answer to
\* that very call, whatever answers of earlier exchanges come in: no block that
\* transmit reads is matched with its command (lib.rs: CcidDevice::transmit).
THEOREM OwnOutcomeAlways ==
  ASSUME Shallow
  PROVE  Spec => []OwnOutcome
<1>1. IInv => OwnOutcome
  BY DEF IInv, Promises
<1> QED
  BY <1>1, Invariance, PTL

\* What read_certificate_direct returns is one certificate file and all of it,
\* if no certificate is longer than the 16 KiB that are read of a file.
THEOREM WholeCertificateAlways ==
  ASSUME Shallow, Readable
  PROVE  Spec => []WholeCertificate
<1>1. IInv => WholeCertificate
  BY DEF IInv, Promises
<1> QED
  BY <1>1, Invariance, PTL

\* A call that is given a wrong PIN returns nothing: verify_pin_if_present logs
\* out before it presents the PIN to a card that is logged in.
THEOREM WrongPinRefusedAlways ==
  ASSUME Shallow
  PROVE  Spec => []WrongPinRefused
<1>1. IInv => WrongPinRefused
  BY DEF IInv, Promises, PinInv, WrongPinRefused
<1> QED
  BY <1>1, Invariance, PTL

\* However often exchanges fail, and whatever the calls before it have left, the
\* commands of one call (verify_pin_if_present) cost the card one PIN try at most.
THEOREM OneTryPerCallAlways ==
  ASSUME Shallow
  PROVE  Spec => []OneTryPerCall
<1>1. IInv => OneTryPerCall
  <2> SUFFICES ASSUME IInv, NEW m \in 1..calls PROVE cost[m] <= 1
    BY DEF OneTryPerCall
  <2>1. BasicInv /\ m \in 1..MaxCalls
    BY BoundAssumption DEF IInv, BasicInv, TypeInv
  <2>2. cost[m] + Costs(m, 1) + Costs(m, 2) + MayCost(m) <= Allowed(m)
    BY <2>1 DEF IInv, Promises, TriesInv
  <2> QED
    BY <2>1, <2>2, SpentFacts
<1> QED
  BY <1>1, Invariance, PTL

-----------------------------------------------------------------------------
(* A call when nothing fails *)

\* The file that alternative n of selecting the private key names.
KeyFile(n) == IF n <= 3 THEN <<X1000, X1000, X6002, call.key>>
              ELSE <<X5000, pkcs15_private_key_id(call.key)>>

\* The file that is selected after i of its commands: a part of the path, or all of it.
Upto(path, i) == [j \in 1..i |-> path[j]]

Chosen(n, i) == IF n \in {3, 5} THEN Upto(KeyFile(n), i)
                ELSE IF i = 0 THEN <<>> ELSE KeyFile(n)

\* It works, or a later one does.
Works(n) == /\ KeyFile(n) \in Files
            /\ n \in {1, 4} => "relative" \in Understood
            /\ n = 2 => "absolute" \in Understood

Ahead(n) == \E m \in 1..5 : m >= n /\ Works(m)

\* The call is one that should succeed.
Meant ==
  /\ call.pin = RightPin /\ card.tries > 0 /\ call.op # "certificate"
  /\ Selectable(private_key_file_select_sequences(call.key))
  /\ call.op = "sign" => call.input \in Supported

\* The command the call waits for.
Asks(c) ==
  /\ at.step = "power_on" => c = [ins |-> "POWER_ON"]
  /\ at.step \in {"select_mf", "reset"} => c = select_master_file
  /\ at.step \in {"verify", "verify_again"} => c = verify_pin(RightPin)
  /\ at.step = "logout" => c = logout
  /\ at.step = "select" => c = Sequences("select")[at.n][at.i]
  /\ at.step = "mse" => c = manage_security_environment(call.op, call.key)
  /\ at.step = "pso" => c = perform_security_operation(call.op, call.input)

\* What the card needs to have done before it.
Ready ==
  /\ at.step = "verify_again" => ~card.verified
  /\ at.step \in {"reset", "select"} \cup KeySteps => card.verified
  /\ at.step = "select" => card.selected = Chosen(at.n, at.i - 1)
  /\ at.step = "mse" => card.selected \in {KeyFile(1), KeyFile(4)}
  /\ at.step = "pso" => card.env = <<call.op, call.key>>

\* What the card has done and answered.
Told(r) ==
  /\ at.step \notin {"power_on", "verify", "select"} => r.sw = "9000"
  /\ at.step = "verify" => r.sw = "6f86" \/ (r.sw = "9000" /\ card.verified)
  /\ at.step = "logout" => ~card.verified
  /\ at.step \in {"verify_again", "reset", "select", "mse"} => card.verified
  /\ at.step = "reset" => card.selected = <<>>
  /\ at.step = "select" => IF r.sw = "9000" THEN card.selected = Chosen(at.n, at.i) ELSE Ahead(at.n + 1)
  /\ at.step = "mse" => card.env = <<call.op, call.key>>
  /\ at.step = "pso" => r.data = Outcome(call.op, call.key, call.input)

CallSteps == {"power_on", "select_mf", "verify", "logout", "verify_again", "reset", "select"} \cup KeySteps

OnTrack ==
  IF at.step = "idle" THEN calls > 0 => result.ok
  ELSE /\ at.step \in CallSteps
       /\ at.step \in {"reset", "select"} => Ahead(at.n)
       /\ IF inbox = <<>> THEN Asks(outbox[1].command) /\ Ready ELSE Told(inbox[1])

\* A call waits for the one answer that is on its way, and nothing is when there is no call.
InTurn == at.written /\ Length = IF at = Idle THEN 0 ELSE 1

FaultlessInv == faults = 0 => InTurn /\ (Meant => OnTrack)

-----------------------------------------------------------------------------
(* The ways of selecting the file of the key *)

LEMMA UptoFacts ==
  ASSUME NEW path, IsSeq(path), NEW i \in 0..Len(path)
  PROVE  /\ IsSeq(Upto(path, i)) /\ Len(Upto(path, i)) = i
         /\ i = 0 => Upto(path, i) = <<>>
         /\ i > 0 => /\ Upto(path, i) # <<>> /\ Front(Upto(path, i)) = Upto(path, i - 1)
                     /\ Upto(path, i - 1) \o <<path[i]>> = Upto(path, i)
<1>1. PICK S : path \in Seq(S)
  BY SeqOfItems
<1>2. Len(path) \in Nat
  BY DEF IsSeq
<1>3. ASSUME NEW k \in 0..Len(path)
      PROVE  /\ Upto(path, k) \in Seq(S) /\ Len(Upto(path, k)) = k
             /\ \A j \in 1..k : Upto(path, k)[j] = path[j]
  <2>1. \A j \in 1..k : path[j] \in S
    BY <1>1, <1>2, ElementOfSeq
  <2>2. k \in Nat /\ Upto(path, k) \in [1..k -> S]
    BY <1>2, <2>1 DEF Upto
  <2>3. Upto(path, k) \in Seq(S)
    BY <2>2, SeqDef
  <2>4. Len(Upto(path, k)) = k
    BY <2>2, <2>3, LenProperties
  <2> QED
    BY <2>3, <2>4 DEF Upto
<1>4. Upto(path, i) \in Seq(S) /\ Len(Upto(path, i)) = i /\ IsSeq(Upto(path, i))
  BY <1>3, SeqIsSeq
<1>5. i = 0 => Upto(path, i) = <<>>
  BY <1>4, EmptyFacts
<1>6. ASSUME i > 0
      PROVE  /\ Upto(path, i) # <<>> /\ Front(Upto(path, i)) = Upto(path, i - 1)
             /\ Upto(path, i - 1) \o <<path[i]>> = Upto(path, i)
  <2>1. i - 1 \in 0..Len(path) /\ i \in 1..Len(path) /\ i \in Nat
    BY <1>2, <1>6
  <2>2. /\ Upto(path, i - 1) \in Seq(S) /\ Len(Upto(path, i - 1)) = i - 1
        /\ \A j \in 1..i - 1 : Upto(path, i - 1)[j] = path[j]
    BY <1>3, <2>1
  <2>3. Upto(path, i) # <<>>
    BY <1>4, <1>6, EmptyFacts
  <2>4. /\ IsSeq(Front(Upto(path, i))) /\ Len(Front(Upto(path, i))) = i - 1
        /\ \A j \in 1..i - 1 : Front(Upto(path, i))[j] = Upto(path, i)[j]
    BY <1>4, <2>3, FrontFacts
  <2>5. \A j \in 1..i - 1 : j \in 1..i
    BY <2>1
  <2>6. \A j \in 1..i - 1 : Front(Upto(path, i))[j] = Upto(path, i - 1)[j]
    BY <1>3, <2>2, <2>4, <2>5
  <2>7. Front(Upto(path, i)) = Upto(path, i - 1)
    <3> DEFINE f == Front(Upto(path, i))
               u == Upto(path, i - 1)
    <3>1. IsSeq(u)
      BY <2>2, SeqIsSeq
    <3>2. /\ f = [j \in DOMAIN f |-> f[j]] /\ u = [j \in DOMAIN u |-> u[j]]
          /\ DOMAIN f = 1..i - 1 /\ DOMAIN u = 1..i - 1
      BY <2>2, <2>4, <3>1 DEF IsSeq
    <3>3. \A j \in 1..i - 1 : f[j] = u[j]
      BY <2>6
    <3> HIDE DEF f, u
    <3>4. f = u
      BY <3>2, <3>3
    <3> QED
      BY <3>4 DEF f, u
  <2> DEFINE e == <<path[i]>>
             s == Upto(path, i - 1) \o e
  <2>8. e \in Seq(S) /\ Len(e) = 1 /\ e[1] = path[i]
    <3>1. path[i] \in S
      BY <1>1, <2>1, ElementOfSeq
    <3> QED
      BY <3>1
  <2> HIDE DEF e
  <2>9. /\ s \in Seq(S) /\ Len(s) = Len(Upto(path, i - 1)) + Len(e)
        /\ \A j \in 1..Len(Upto(path, i - 1)) + Len(e) :
             s[j] = IF j <= Len(Upto(path, i - 1)) THEN Upto(path, i - 1)[j] ELSE e[j - Len(Upto(path, i - 1))]
    BY <2>2, <2>8, ConcatProperties
  <2> HIDE DEF s
  <2>10. Len(s) = i /\ \A j \in 1..i : s[j] = path[j]
    <3>1. i - 1 + 1 = i
      BY <2>1
    <3>2. \A j \in 1..i : s[j] = IF j <= i - 1 THEN Upto(path, i - 1)[j] ELSE e[j - (i - 1)]
      BY <2>2, <2>8, <2>9, <3>1
    <3>3. \A j \in 1..i : (j \in 1..i - 1 /\ j <= i - 1) \/ (j = i /\ ~(j <= i - 1) /\ j - (i - 1) = 1)
      BY <2>1
    <3> QED
      BY <2>2, <2>8, <2>9, <3>1, <3>2, <3>3
  <2>11. \A j \in 1..i : s[j] = Upto(path, i)[j]
    BY <1>3, <2>10
  <2>12. s = Upto(path, i)
    BY <1>4, <2>9, <2>10, <2>11, SeqEqual
  <2> QED
    BY <2>3, <2>7, <2>12 DEF s, e
<1> QED
  BY <1>4, <1>5, <1>6

LEMMA KeyFileFacts ==
  /\ IsSeq(KeyFile(3)) /\ Len(KeyFile(3)) = 4 /\ Upto(KeyFile(3), 4) = KeyFile(3)
  /\ IsSeq(KeyFile(5)) /\ Len(KeyFile(5)) = 2 /\ Upto(KeyFile(5), 2) = KeyFile(5)
  /\ KeyFile(1) = KeyFile(3) /\ KeyFile(2) = KeyFile(3) /\ KeyFile(4) = KeyFile(5)
<1>1. /\ KeyFile(3) = <<X1000, X1000, X6002, call.key>> /\ KeyFile(5) = <<X5000, pkcs15_private_key_id(call.key)>>
      /\ KeyFile(1) = KeyFile(3) /\ KeyFile(2) = KeyFile(3) /\ KeyFile(4) = KeyFile(5)
  BY DEF KeyFile
<1>2. ASSUME NEW a, NEW b, NEW c, NEW d
      PROVE  IsSeq(<<a, b, c, d>>) /\ Len(<<a, b, c, d>>) = 4 /\ Upto(<<a, b, c, d>>, 4) = <<a, b, c, d>>
  <2> DEFINE q == <<a, b, c, d>>
  <2>1. q \in Seq({a, b, c, d}) /\ Len(q) = 4
    OBVIOUS
  <2> HIDE DEF q
  <2>2. IsSeq(q)
    BY <2>1, SeqIsSeq
  <2>3. Upto(q, 4) = q
    BY <2>1, <2>2 DEF IsSeq, Upto
  <2> QED
    BY <2>1, <2>2, <2>3 DEF q
<1>3. ASSUME NEW a, NEW b
      PROVE  IsSeq(<<a, b>>) /\ Len(<<a, b>>) = 2 /\ Upto(<<a, b>>, 2) = <<a, b>>
  <2> DEFINE q == <<a, b>>
  <2>1. q \in Seq({a, b}) /\ Len(q) = 2
    OBVIOUS
  <2> HIDE DEF q
  <2>2. IsSeq(q)
    BY <2>1, SeqIsSeq
  <2>3. Upto(q, 2) = q
    BY <2>1, <2>2 DEF IsSeq, Upto
  <2> QED
    BY <2>1, <2>2, <2>3 DEF q
<1> QED
  BY <1>1, <1>2, <1>3

\* The alternatives, in the order in which they are tried.
LEMMA AlternativeFacts ==
  LET s == private_key_file_select_sequences(call.key)
  IN  /\ DOMAIN s = 1..5 /\ Len(s) = 5
      /\ s[1] = <<select_by_path("relative", KeyFile(1))>>
      /\ s[2] = <<select_by_path("absolute", KeyFile(2))>>
      /\ s[3] = [i \in 1..4 |-> select_file_by_id(KeyFile(3)[i])]
      /\ s[4] = <<select_by_path("relative", KeyFile(4))>>
      /\ s[5] = [i \in 1..2 |-> select_file_by_id(KeyFile(5)[i])]
<1>1. ASSUME NEW a, NEW b, NEW c, NEW d, NEW e
      PROVE  /\ DOMAIN <<a, b, c, d, e>> = 1..5 /\ Len(<<a, b, c, d, e>>) = 5
             /\ <<a, b, c, d, e>>[1] = a /\ <<a, b, c, d, e>>[2] = b /\ <<a, b, c, d, e>>[3] = c
             /\ <<a, b, c, d, e>>[4] = d /\ <<a, b, c, d, e>>[5] = e
  OBVIOUS
<1>2. private_key_file_select_sequences(call.key) =
        << <<select_by_path("relative", KeyFile(1))>>, <<select_by_path("absolute", KeyFile(2))>>,
           [i \in 1..4 |-> select_file_by_id(KeyFile(3)[i])], <<select_by_path("relative", KeyFile(4))>>,
           [i \in 1..2 |-> select_file_by_id(KeyFile(5)[i])] >>
  BY DEF private_key_file_select_sequences, select_sequences, KeyFile
<1> QED
  BY <1>1, <1>2

\* What a command of an alternative selects, and that it does so if the alternative works.
LEMMA SelectionFacts ==
  ASSUME NEW n \in 1..5, NEW i \in 1..Len(private_key_file_select_sequences(call.key)[n]),
         card.selected = Chosen(n, i - 1)
  PROVE  LET c == private_key_file_select_sequences(call.key)[n][i]
         IN  /\ c.ins = "SELECT" /\ Selects(c) = Chosen(n, i)
             /\ Works(n) => Chosen(n, i) \in Files /\ c.form \in {"mf", "id"} \cup Understood
<1> DEFINE s == private_key_file_select_sequences(call.key)
<1>1. /\ s[1] = <<select_by_path("relative", KeyFile(1))>>
      /\ s[2] = <<select_by_path("absolute", KeyFile(2))>>
      /\ s[3] = [k \in 1..4 |-> select_file_by_id(KeyFile(3)[k])]
      /\ s[4] = <<select_by_path("relative", KeyFile(4))>>
      /\ s[5] = [k \in 1..2 |-> select_file_by_id(KeyFile(5)[k])]
  BY AlternativeFacts
<1> HIDE DEF s
<1> DEFINE c == s[n][i]
<1>2. ASSUME n \in {1, 2, 4}
      PROVE  /\ c.ins = "SELECT" /\ Selects(c) = Chosen(n, i)
             /\ Works(n) => Chosen(n, i) \in Files /\ c.form \in {"mf", "id"} \cup Understood
  <2>1. \A x : Len(<<x>>) = 1 /\ <<x>>[1] = x
    OBVIOUS
  <2>2. PICK form : s[n] = <<select_by_path(form, KeyFile(n))>>
                    /\ (n \in {1, 4} => form = "relative") /\ (n = 2 => form = "absolute")
                    /\ form \in {"relative", "absolute"}
    BY <1>1, <1>2
  <2>3. Len(s[n]) = 1 /\ s[n][1] = select_by_path(form, KeyFile(n))
    BY <2>1, <2>2
  <2>4. \A j \in 1..1 : j = 1
    OBVIOUS
  <2>5. i = 1
    BY <2>3, <2>4 DEF s
  <2>6. c = select_by_path(form, KeyFile(n))
    BY <2>3, <2>5
  <2> HIDE DEF c
  <2>7. c.ins = "SELECT" /\ c.form = form /\ c.path = KeyFile(n)
    BY <2>6 DEF select_by_path
  <2>8. Selects(c) = KeyFile(n)
    BY <2>2, <2>7 DEF Selects
  <2>9. Chosen(n, i) = KeyFile(n)
    BY <1>2, <2>5 DEF Chosen
  <2> QED
    BY <1>2, <2>2, <2>7, <2>8, <2>9 DEF Works
<1>3. ASSUME n \in {3, 5}
      PROVE  /\ c.ins = "SELECT" /\ Selects(c) = Chosen(n, i)
             /\ Works(n) => Chosen(n, i) \in Files /\ c.form \in {"mf", "id"} \cup Understood
  <2> DEFINE path == KeyFile(n)
  <2>1. IsSeq(path) /\ Len(path) \in {2, 4} /\ Upto(path, Len(path)) = path
        /\ s[n] = [k \in 1..Len(path) |-> select_file_by_id(path[k])]
    BY <1>1, <1>3, KeyFileFacts
  <2> HIDE DEF path
  <2>2. i \in 1..Len(path) /\ c = select_file_by_id(path[i])
    <3>1. \A f : Len([k \in 1..2 |-> f[k]]) = 2 /\ Len([k \in 1..4 |-> f[k]]) = 4
      OBVIOUS
    <3>2. Len(s[n]) = Len(path)
      BY <2>1
    <3> QED
      BY <2>1, <3>2 DEF s
  <2>3. card.selected = Upto(path, i - 1) /\ Chosen(n, i) = Upto(path, i)
    BY <1>3 DEF Chosen, path
  <2> HIDE DEF c
  <2>4. c.ins = "SELECT" /\ c.form = "id" /\ c.path = <<path[i]>>
    BY <2>2 DEF select_file_by_id
  <2>5. Selects(c) = card.selected \o <<path[i]>>
    BY <2>4 DEF Selects
  <2>6. Selects(c) = Chosen(n, i)
    <3>1. i \in 0..Len(path) /\ i > 0
      BY <2>1, <2>2
    <3> QED
      BY <2>1, <2>3, <2>5, <3>1, UptoFacts
  <2>7. Works(n) => Upto(path, i) \in Files
    <3>1. SUFFICES ASSUME path \in Files PROVE Upto(path, i) \in Files
      BY DEF Works, path
    <3>2. \A k \in 1..Len(path) : Upto(path, k) \in Files => Upto(path, k - 1) \in Files
      <4>1. SUFFICES ASSUME NEW k \in 1..Len(path), Upto(path, k) \in Files PROVE Upto(path, k - 1) \in Files
        OBVIOUS
      <4>2. k \in 0..Len(path) /\ k > 0
        BY <2>1
      <4> QED
        BY <2>1, <4>1, <4>2, UptoFacts, TreeAssumption
    <3>3. CASE Len(path) = 4
      <4>1. Upto(path, 4) \in Files
        BY <2>1, <3>1, <3>3
      <4>2. 4 - 1 = 3 /\ 3 - 1 = 2 /\ 2 - 1 = 1
        OBVIOUS
      <4>3. Upto(path, 3) \in Files
        BY <3>2, <3>3, <4>1, <4>2
      <4>4. Upto(path, 2) \in Files
        BY <3>2, <3>3, <4>2, <4>3
      <4>5. Upto(path, 1) \in Files
        BY <3>2, <3>3, <4>2, <4>4
      <4>6. i = 1 \/ i = 2 \/ i = 3 \/ i = 4
        BY <2>2, <3>3
      <4> QED
        BY <4>1, <4>3, <4>4, <4>5, <4>6
    <3>4. CASE Len(path) = 2
      <4>1. Upto(path, 2) \in Files
        BY <2>1, <3>1, <3>4
      <4>2. 2 - 1 = 1
        OBVIOUS
      <4>3. Upto(path, 1) \in Files
        BY <3>2, <3>4, <4>1, <4>2
      <4>4. i = 1 \/ i = 2
        BY <2>2, <3>4
      <4> QED
        BY <4>1, <4>3, <4>4
    <3> QED
      BY <2>1, <3>3, <3>4
  <2> QED
    BY <2>3, <2>4, <2>6, <2>7
<1>4. n \in {1, 2, 4} \/ n \in {3, 5}
  OBVIOUS
<1> QED
  BY <1>2, <1>3, <1>4 DEF s

\* Before the first command the master file is selected, after the last one the file.
LEMMA ChosenEnds ==
  ASSUME NEW n \in 1..5
  PROVE  /\ Chosen(n, 0) = <<>>
         /\ Chosen(n, Len(private_key_file_select_sequences(call.key)[n])) \in {KeyFile(1), KeyFile(4)}
<1> DEFINE s == private_key_file_select_sequences(call.key)
<1>1. \A x : Len(<<x>>) = 1
  OBVIOUS
<1>2. /\ n \in {1, 2, 4} => \E x : s[n] = <<x>>
      /\ s[3] = [k \in 1..4 |-> select_file_by_id(KeyFile(3)[k])]
      /\ s[5] = [k \in 1..2 |-> select_file_by_id(KeyFile(5)[k])]
  BY AlternativeFacts
<1> HIDE DEF s
<1>3. /\ n \in {1, 2, 4} => Len(s[n]) = 1
      /\ n = 3 => Len(s[n]) = 4
      /\ n = 5 => Len(s[n]) = 2
  BY <1>1, <1>2
<1>4. Chosen(n, 0) = <<>>
  <2>1. CASE n \in {3, 5}
    <3>1. IsSeq(KeyFile(n)) /\ 0 \in 0..Len(KeyFile(n))
      BY <2>1, KeyFileFacts
    <3> QED
      BY <2>1, <3>1, UptoFacts DEF Chosen
  <2>2. CASE n \notin {3, 5}
    BY <2>2 DEF Chosen
  <2> QED
    BY <2>1, <2>2
<1>5. Chosen(n, Len(s[n])) = KeyFile(n)
  <2>1. Chosen(3, 4) = KeyFile(3) /\ Chosen(5, 2) = KeyFile(5)
    BY KeyFileFacts DEF Chosen
  <2>2. n \in {1, 2, 4} => Chosen(n, 1) = KeyFile(n)
    BY DEF Chosen
  <2>3. n \in {1, 2, 4} \/ n = 3 \/ n = 5
    OBVIOUS
  <2> QED
    BY <1>3, <2>1, <2>2, <2>3
<1>6. KeyFile(n) \in {KeyFile(1), KeyFile(4)}
  BY KeyFileFacts
<1> QED
  BY <1>4, <1>5, <1>6 DEF s

\* If a place that is tried has a file for the call, an alternative works.
LEMMA SelectableWorks ==
  ASSUME Selectable(private_key_file_select_sequences(call.key))
  PROVE  Ahead(1)
<1> DEFINE s == private_key_file_select_sequences(call.key)
<1>1. /\ DOMAIN s = 1..5
      /\ s[1] = <<select_by_path("relative", KeyFile(1))>>
      /\ s[2] = <<select_by_path("absolute", KeyFile(2))>>
      /\ s[3] = [k \in 1..4 |-> select_file_by_id(KeyFile(3)[k])]
      /\ s[4] = <<select_by_path("relative", KeyFile(4))>>
      /\ s[5] = [k \in 1..2 |-> select_file_by_id(KeyFile(5)[k])]
  BY AlternativeFacts
<1>2. \E n \in DOMAIN s : IF s[n][1].form = "id" THEN [k \in DOMAIN s[n] |-> s[n][k].path[1]] \in Files
                          ELSE s[n][1].form \in Understood /\ s[n][1].path \in Files
  BY DEF Selectable
<1> HIDE DEF s
<1>3. PICK n \in 1..5 : IF s[n][1].form = "id" THEN [k \in DOMAIN s[n] |-> s[n][k].path[1]] \in Files
                        ELSE s[n][1].form \in Understood /\ s[n][1].path \in Files
  BY <1>1, <1>2
<1>4. CASE n \in {1, 2, 4}
  <2>1. PICK form : /\ s[n] = <<select_by_path(form, KeyFile(n))>>
                    /\ n \in {1, 4} => form = "relative"
                    /\ n = 2 => form = "absolute"
                    /\ form \in {"relative", "absolute"}
    BY <1>1, <1>4
  <2>2. s[n][1].form = form /\ s[n][1].path = KeyFile(n)
    BY <2>1 DEF select_by_path
  <2>3. form \in Understood /\ KeyFile(n) \in Files
    BY <1>3, <2>1, <2>2
  <2> QED
    BY <2>1, <2>3 DEF Ahead, Works
<1>5. CASE n \in {3, 5}
  <2> DEFINE path == KeyFile(n)
  <2>1. Len(path) \in {2, 4} /\ Upto(path, Len(path)) = path
        /\ s[n] = [k \in 1..Len(path) |-> select_file_by_id(path[k])]
    BY <1>1, <1>5, KeyFileFacts
  <2> HIDE DEF path
  <2>2. \A k \in 1..Len(path) : s[n][k].form = "id" /\ s[n][k].path[1] = path[k]
    BY <2>1 DEF select_file_by_id
  <2>3. s[n][1].form = "id" /\ DOMAIN s[n] = 1..Len(path)
    <3>1. 1 \in 1..Len(path)
      BY <2>1
    <3>2. s[n][1].form = "id"
      BY <2>2, <3>1
    <3>3. DOMAIN s[n] = 1..Len(path)
      BY <2>1
    <3> QED
      BY <3>2, <3>3
  <2>4. [k \in DOMAIN s[n] |-> s[n][k].path[1]] = Upto(path, Len(path))
    BY <2>2, <2>3 DEF Upto
  <2>5. path \in Files
    BY <1>3, <2>1, <2>3, <2>4
  <2> QED
    BY <1>5, <2>5 DEF Ahead, Works, path
<1> QED
  BY <1>4, <1>5

-----------------------------------------------------------------------------
(* The card's side of a call when nothing fails *)

LEMMA Single ==
  ASSUME BasicInv, InTurn, at # Idle
  PROVE  /\ Length = 1 /\ at.step # "idle" /\ Len(inbox) \in Nat /\ Len(outbox) \in Nat
         /\ inbox = <<>> => outbox # <<>> /\ Len(outbox) = 1
         /\ inbox # <<>> => outbox = <<>> /\ Len(inbox) = 1 /\ Head(inbox) = inbox[1] /\ Tail(inbox) = <<>>
<1>1. Length = 1 /\ at.step # "idle"
  BY DEF InTurn, BasicInv, TypeInv
<1>2. IsSeq(inbox) /\ IsSeq(outbox) /\ Len(inbox) \in Nat /\ Len(outbox) \in Nat
  BY DEF BasicInv, LinkInv, IsSeq
<1>3. Len(inbox) + Len(outbox) = 1
  BY <1>1 DEF Length
<1>4. inbox = <<>> => outbox # <<>> /\ Len(outbox) = 1
  <2>1. Len(inbox) = 0 => Len(outbox) = 1
    BY <1>2, <1>3
  <2> QED
    BY <1>2, <2>1, EmptyFacts
<1>5. ASSUME inbox # <<>>
      PROVE  outbox = <<>> /\ Len(inbox) = 1 /\ Head(inbox) = inbox[1] /\ Tail(inbox) = <<>>
  <2>1. Len(inbox) # 0
    BY <1>2, <1>5, EmptyFacts
  <2>2. Len(outbox) = 0 /\ Len(inbox) = 1
    <3>1. \A a \in Nat, b \in Nat : a # 0 /\ a + b = 1 => b = 0 /\ a = 1
      OBVIOUS
    <3> QED
      BY <1>2, <1>3, <2>1, <3>1
  <2>3. Head(inbox) = inbox[1] /\ IsSeq(Tail(inbox)) /\ Len(Tail(inbox)) = Len(inbox) - 1
    BY <1>2, <1>5, TailFacts
  <2>4. Len(Tail(inbox)) = 0
    BY <2>2, <2>3
  <2> QED
    BY <1>2, <2>2, <2>3, <2>4, EmptyFacts
<1> QED
  BY <1>1, <1>2, <1>4, <1>5

LEMMA Answered ==
  ASSUME inbox = <<>>
  PROVE  \A sw, d : Answer(sw, d) => inbox'[1].sw = sw /\ inbox'[1].data = d
<1> SUFFICES ASSUME NEW sw, NEW d, Answer(sw, d)
             PROVE  inbox'[1].sw = sw /\ inbox'[1].data = d
  OBVIOUS
<1>1. PICK r : inbox' = Append(inbox, r) /\ r.sw = sw /\ r.data = d
  BY DEF Answer
<1>2. Append(inbox, r)[Len(inbox) + 1] = r /\ Len(inbox) = 0
  BY EmptyFacts, AppendFacts
<1>3. 0 + 1 = 1
  OBVIOUS
<1> QED
  BY <1>1, <1>2, <1>3

\* The card does what it is told.
LEMMA Obeyed ==
  ASSUME Execute, outbox # <<>>, IsSeq(outbox)
  PROVE  LET c == outbox[1].command
         IN  /\ c.ins = "POWER_ON" => PowerOn(c)
             /\ c.ins = "SELECT" => SelectFile(c)
             /\ c.ins = "VERIFY" => VerifyPin(c)
             /\ c.ins = "LOGOUT" => Logout(c)
             /\ c.ins = "MSE" => ManageEnvironment(c)
             /\ c.ins = "PSO" => PerformOperation(c)
<1> DEFINE c == outbox[1].command
<1>1. Head(outbox) = outbox[1]
  BY TailFacts
<1>2. \/ PowerOn(c) \/ SelectFile(c) \/ VerifyPin(c) \/ VerifyStatus(c) \/ Logout(c)
      \/ ManageEnvironment(c) \/ PerformOperation(c) \/ ReadBinary(c)
  BY <1>1 DEF Execute
<1> HIDE DEF c
<1>3. /\ PowerOn(c) => c.ins = "POWER_ON"
      /\ SelectFile(c) => c.ins = "SELECT"
      /\ VerifyPin(c) => c.ins = "VERIFY"
      /\ VerifyStatus(c) => c.ins = "VERIFY_STATUS"
      /\ Logout(c) => c.ins = "LOGOUT"
      /\ ManageEnvironment(c) => c.ins = "MSE"
      /\ PerformOperation(c) => c.ins = "PSO"
      /\ ReadBinary(c) => c.ins = "READ_BINARY"
  BY DEF PowerOn, SelectFile, VerifyPin, VerifyStatus, Logout, ManageEnvironment, PerformOperation, ReadBinary
<1>4. /\ c.ins = "POWER_ON" => PowerOn(c)
      /\ c.ins = "SELECT" => SelectFile(c)
      /\ c.ins = "VERIFY" => VerifyPin(c)
      /\ c.ins = "LOGOUT" => Logout(c)
      /\ c.ins = "MSE" => ManageEnvironment(c)
      /\ c.ins = "PSO" => PerformOperation(c)
  BY <1>2, <1>3
<1> QED
  BY <1>4 DEF c

\* A PIN that is blocked stays so.
LEMMA TriesLast ==
  ASSUME BasicInv, Execute, card'.tries > 0
  PROVE  card.tries > 0
<1> DEFINE c == outbox[1].command
<1>1. /\ outbox # <<>> /\ IsSeq(outbox) /\ Effect(c, inbox'[Len(inbox) + 1])
      /\ CardOK(card)
  BY ExecuteFacts DEF BasicInv, LinkInv, TypeInv
<1>2. c.ins = "VERIFY" => VerifyPin(c)
  BY <1>1, Obeyed
<1> HIDE DEF c
<1>3. CASE c.ins = "VERIFY"
  <2>1. card.tries = 0 => card' = card
    BY <1>1, <1>2, <1>3 DEF VerifyPin, CardOK
  <2>2. card.tries \in Nat /\ MaxTries \in Nat
    BY <1>1, BoundAssumption DEF CardOK
  <2> QED
    BY <2>1, <2>2
<1>4. CASE c.ins # "VERIFY"
  BY <1>1, <1>4 DEF Effect
<1> QED
  BY <1>3, <1>4

\* What the card does and answers when it is ready for the command the call waits for.
LEMMA CardTold ==
  ASSUME BasicInv, InTurn, at # Idle, Execute, inbox = <<>>, card.tries > 0,
         call.op # "certificate", call.pin = RightPin, at.step \in CallSteps,
         Asks(outbox[1].command), Ready, at.step \in {"reset", "select"} => Ahead(at.n)
  PROVE  Told(inbox[1])'
<1> DEFINE c == outbox[1].command
<1>0. PICK r : r = inbox'[1]
  OBVIOUS
<1>1. /\ outbox # <<>> /\ IsSeq(outbox) /\ BasicInv' /\ UNCHANGED <<call, at>> /\ CardOK(card)
  BY ExecuteFacts DEF BasicInv, LinkInv, TypeInv, host
<1>2. \A sw, d : Answer(sw, d) => r.sw = sw /\ r.data = d
  BY <1>0, Answered
<1>3. /\ c.ins = "SELECT" => SelectFile(c)
      /\ c.ins = "VERIFY" => VerifyPin(c)
      /\ c.ins = "LOGOUT" => Logout(c)
      /\ c.ins = "MSE" => ManageEnvironment(c)
      /\ c.ins = "PSO" => PerformOperation(c)
  BY <1>1, Obeyed
<1>4. Asks(c)
  OBVIOUS
<1> HIDE DEF c
<1>5. SUFFICES Told(r)'
  BY <1>0 DEF Told
<1>6. CASE at.step \in {"select_mf", "reset"}
  <2>1. c.ins = "SELECT" /\ Selects(c) = <<>> /\ c.form = "mf"
    BY <1>4, <1>6 DEF Asks, select_master_file, Selects
  <2>2. card' = [card EXCEPT !.selected = <<>>] /\ Answer("9000", Empty)
    BY <1>3, <2>1, FileAssumption DEF SelectFile
  <2>3. r.sw = "9000" /\ card'.selected = <<>> /\ card'.verified = card.verified
    BY <1>1, <1>2, <2>2 DEF CardOK
  <2> QED
    BY <1>1, <1>6, <2>3 DEF Told, Ready
<1>7. CASE at.step \in {"verify", "verify_again"}
  <2>1. VerifyPin(c) /\ c.pin = RightPin
    BY <1>3, <1>4, <1>7 DEF Asks, verify_pin
  <2>2. \/ card.verified /\ Answer("6f86", Empty)
        \/ /\ card' = [card EXCEPT !.verified = TRUE, !.tries = MaxTries]
           /\ Answer("9000", Empty)
    <3>1. card.tries # 0 /\ card.verified \in BOOLEAN
      BY <1>1, BoundAssumption DEF CardOK
    <3> QED
      BY <2>1, <3>1 DEF VerifyPin
  <2>3. (card.verified /\ r.sw = "6f86") \/ (r.sw = "9000" /\ card'.verified)
    BY <1>1, <1>2, <2>2 DEF CardOK
  <2> QED
    BY <1>1, <1>7, <2>3 DEF Told, Ready
<1>8. CASE at.step = "logout"
  <2>1. Logout(c)
    BY <1>3, <1>4, <1>8 DEF Asks, logout
  <2>2. r.sw = "9000" /\ ~card'.verified
    BY <1>1, <1>2, <2>1 DEF Logout, CardOK
  <2> QED
    BY <1>1, <1>8, <2>2 DEF Told
<1>9. CASE at.step = "select"
  <2>1. /\ Sequences("select") = private_key_file_select_sequences(call.key)
        /\ Len(Sequences("select")) = 5
    BY AlternativeFacts DEF Sequences
  <2>2. at.n \in 1..5 /\ at.i \in 1..Len(private_key_file_select_sequences(call.key)[at.n])
    BY <1>9, <2>1 DEF BasicInv, PlaceInv, PlaceOf
  <2>3. c = private_key_file_select_sequences(call.key)[at.n][at.i]
    BY <1>4, <1>9, <2>1 DEF Asks
  <2>4. card.selected = Chosen(at.n, at.i - 1) /\ card.verified
    BY <1>9 DEF Ready
  <2>5. /\ c.ins = "SELECT" /\ Selects(c) = Chosen(at.n, at.i)
        /\ Works(at.n) => Chosen(at.n, at.i) \in Files /\ c.form \in {"mf", "id"} \cup Understood
    BY <2>2, <2>3, <2>4, SelectionFacts
  <2>6. \/ card' = [card EXCEPT !.selected = Chosen(at.n, at.i)] /\ Answer("9000", Empty)
        \/ card' = card /\ Answer("6a82", Empty) /\ ~Works(at.n)
    BY <1>3, <2>5 DEF SelectFile
  <2>7. card'.verified
    BY <1>1, <2>4, <2>6 DEF CardOK
  <2>8. IF r.sw = "9000" THEN card'.selected = Chosen(at.n, at.i) ELSE ~Works(at.n)
    BY <1>1, <1>2, <2>6 DEF CardOK
  <2>9. ~Works(at.n) => Ahead(at.n + 1)
    <3>1. SUFFICES ASSUME ~Works(at.n) PROVE Ahead(at.n + 1)
      OBVIOUS
    <3>2. PICK m \in 1..5 : m >= at.n /\ Works(m)
      BY <1>9 DEF Ahead
    <3>3. m # at.n
      BY <3>1, <3>2
    <3>4. m >= at.n + 1
      BY <2>2, <3>2, <3>3
    <3> QED
      BY <3>2, <3>4 DEF Ahead
  <2>10. Chosen(at.n, at.i)' = Chosen(at.n, at.i) /\ Ahead(at.n + 1)' = Ahead(at.n + 1)
    BY <1>1 DEF Chosen, Upto, KeyFile, Ahead, Works
  <2>11. at'.step = "select" /\ at' = at
    BY <1>1, <1>9
  <2> QED
    BY <2>7, <2>8, <2>9, <2>10, <2>11 DEF Told
<1>10. CASE at.step = "mse"
  <2>1. ManageEnvironment(c) /\ c.op = call.op /\ c.key = call.key
    BY <1>3, <1>4, <1>10 DEF Asks, manage_security_environment
  <2>2. card.selected \in {<<X1000, X1000, X6002, call.key>>, <<X5000, pkcs15_private_key_id(call.key)>>}
        /\ card.verified
    BY <1>10 DEF Ready, KeyFile, KeySteps
  <2>3. card' = [card EXCEPT !.env = <<call.op, call.key>>] /\ Answer("9000", Empty)
    BY <2>1, <2>2 DEF ManageEnvironment
  <2>4. r.sw = "9000" /\ card'.env = <<call.op, call.key>> /\ card'.verified
    BY <1>1, <1>2, <2>2, <2>3 DEF CardOK
  <2> QED
    BY <1>1, <1>10, <2>4 DEF Told
<1>11. CASE at.step = "pso"
  <2>1. PerformOperation(c) /\ c.op = call.op /\ c.input = call.input
    BY <1>3, <1>4, <1>11 DEF Asks, perform_security_operation
  <2>2. card.verified /\ card.env = <<call.op, call.key>>
    BY <1>11 DEF Ready, KeySteps
  <2>3. card.env # <<>> /\ card.env[1] = call.op /\ card.env[2] = call.key
    BY <2>2
  <2>4. Answer("9000", Outcome(call.op, call.key, call.input))
    BY <2>1, <2>2, <2>3 DEF PerformOperation
  <2>5. r.sw = "9000" /\ r.data = Outcome(call.op, call.key, call.input)
    BY <1>2, <2>4
  <2> QED
    BY <1>1, <1>11, <2>5 DEF Told, Outcome
<1>12. CASE at.step \notin {"select_mf", "reset", "verify", "verify_again", "logout", "select", "mse", "pso"}
  BY <1>1, <1>12 DEF Told, CallSteps, KeySteps
<1> QED
  BY <1>6, <1>7, <1>8, <1>9, <1>10, <1>11, <1>12

LEMMA ExecuteTrack ==
  ASSUME BasicInv, InTurn, Meant => OnTrack, Execute
  PROVE  InTurn' /\ (Meant' => OnTrack')
<1>1. /\ UNCHANGED <<call, at, result, calls>> /\ outbox # <<>> /\ Length' = Length
      /\ IsSeq(inbox) /\ IsSeq(outbox) /\ Len(inbox) \in Nat /\ Len(outbox) \in Nat
  BY ExecuteFacts DEF host, BasicInv, LinkInv, IsSeq
<1>2. at # Idle
  <2>1. Len(outbox) # 0
    BY <1>1, EmptyFacts
  <2>2. Length # 0
    BY <1>1, <2>1 DEF Length
  <2> QED
    BY <2>2 DEF InTurn
<1>3. inbox = <<>> /\ inbox' # <<>> /\ at.step # "idle"
  BY <1>2, Single, ExecutedInStep
<1>4. InTurn'
  BY <1>1 DEF InTurn
<1>5. ASSUME Meant' PROVE OnTrack'
  <2>1. Meant /\ card.tries > 0 /\ call.op # "certificate" /\ call.pin = RightPin
    <3>1. card.tries > 0
      BY <1>5, TriesLast DEF Meant
    <3> QED
      BY <1>1, <1>5, <3>1 DEF Meant
  <2>2. /\ at.step \in CallSteps
        /\ at.step \in {"reset", "select"} => Ahead(at.n)
        /\ Asks(outbox[1].command) /\ Ready
    BY <1>3, <2>1 DEF OnTrack
  <2>3. Told(inbox[1])'
    BY <1>2, <1>3, <2>1, <2>2, CardTold
  <2>4. at'.step \in {"reset", "select"} => Ahead(at.n)'
    BY <1>1, <2>2 DEF Ahead, Works, KeyFile
  <2> QED
    BY <1>1, <1>3, <2>2, <2>3, <2>4 DEF OnTrack
<1> QED
  BY <1>4, <1>5

-----------------------------------------------------------------------------
(* The host's side of it *)

\* The host has read the answer it waits for, and sends its next command.
LEMMA SentInTurn ==
  ASSUME BasicInv, InTurn, Reading, NEW step \in Steps \ {"idle"}, NEW n \in Nat, NEW i \in Nat, NEW command,
         Transmit(step, n, i, command), IsSeq(data')
  PROVE  /\ InTurn' /\ at'.step = step /\ at'.n = n /\ at'.i = i /\ UNCHANGED <<call, card>>
         /\ inbox' = <<>> /\ outbox'[1].command = command
<1>1. Length = 1 /\ outbox = <<>> /\ Room /\ Kept
  BY Single, ReadRoom DEF Reading, BasicInv
<1>2. /\ at' # Idle /\ at'.step = step /\ at'.n = n /\ at'.i = i
  BY <1>1, TransmitFacts DEF BasicInv
<1>3. at'.written
  <2>1. Len(outbox) < ReaderDepth
    BY <1>1, EmptyFacts, BoundAssumption
  <2> QED
    BY <2>1 DEF Transmit, Write
<1>4. Length' = Length /\ inbox' = <<>> /\ outbox'[1].command = command
  BY <1>1, <1>3, Moved
<1> QED
  BY <1>1, <1>2, <1>3, <1>4 DEF InTurn, Kept

\* It is on its way if the card is ready for the command that is sent.
LEMMA SentOnTrack ==
  ASSUME BasicInv, InTurn, Reading, NEW step \in CallSteps, NEW n \in Nat, NEW i \in Nat, NEW command,
         Transmit(step, n, i, command), UNCHANGED data,
         step \in {"reset", "select"} => Ahead(n),
         step # "power_on",
         step \in {"select_mf", "reset"} => command = select_master_file,
         step \in {"verify", "verify_again"} => command = verify_pin(RightPin),
         step = "logout" => command = logout,
         step = "select" => command = Sequences("select")[n][i] /\ card.selected = Chosen(n, i - 1),
         step = "mse" => /\ command = manage_security_environment(call.op, call.key)
                         /\ card.selected \in {KeyFile(1), KeyFile(4)},
         step = "pso" => /\ command = perform_security_operation(call.op, call.input)
                         /\ card.env = <<call.op, call.key>>,
         step = "verify_again" => ~card.verified,
         step \in {"reset", "select"} \cup KeySteps => card.verified
  PROVE  InTurn' /\ OnTrack'
<1>1. step \in Steps \ {"idle"} /\ IsSeq(data')
  BY DEF CallSteps, KeySteps, Steps, BasicInv, TypeInv
<1>2. /\ InTurn' /\ at'.step = step /\ at'.n = n /\ at'.i = i /\ UNCHANGED <<call, card>>
      /\ inbox' = <<>> /\ outbox'[1].command = command
  BY <1>1, SentInTurn
<1>3. Asks(command)'
  <2>1. Sequences("select")' = Sequences("select")
    BY <1>2 DEF Sequences
  <2> QED
    BY <1>2, <2>1 DEF Asks
<1>4. Ready'
  <2>1. Chosen(n, i - 1)' = Chosen(n, i - 1) /\ KeyFile(1)' = KeyFile(1) /\ KeyFile(4)' = KeyFile(4)
    BY <1>2 DEF Chosen, Upto, KeyFile
  <2> QED
    BY <1>2, <2>1 DEF Ready
<1>5. step \in {"reset", "select"} => Ahead(n)'
  BY <1>2 DEF Ahead, Works, KeyFile
<1>6. Asks(outbox[1].command)' /\ (at'.step \in {"reset", "select"} => Ahead(at.n)')
  BY <1>2, <1>3, <1>5
<1> QED
  BY <1>1, <1>2, <1>4, <1>6 DEF OnTrack

LEMMA ReturnedInTurn ==
  ASSUME BasicInv, InTurn, Reading, NEW r, r.ok \in BOOLEAN, Return(r), IsSeq(data')
  PROVE  InTurn' /\ at'.step = "idle" /\ result' = r
<1>1. outbox = <<>> /\ Tail(inbox) = <<>> /\ Room /\ Kept
  BY Single, ReadRoom DEF Reading, BasicInv
<1>2. at' = Idle /\ at'.step = "idle" /\ at'.written /\ result' = r /\ outbox' = <<>>
  BY <1>1, ReturnFacts DEF BasicInv
<1>3. inbox' = <<>>
  BY <1>1 DEF Reading
<1>4. Length' = 0
  BY <1>2, <1>3, EmptyFacts DEF Length
<1> QED
  BY <1>2, <1>4 DEF InTurn

\* The host sends a command or ends the call.
Goes ==
  \/ \E step \in Steps \ {"idle"} : \E n, i, command, to : Write(step, n, i, command, to)
  \/ at' = Idle /\ outbox' = outbox

LEMMA SendOrEnd ==
  /\ \A step \in Steps \ {"idle"} : \A n, i, command : Transmit(step, n, i, command) => Goes
  /\ \A step \in Steps \ {"idle"} : \A n : Reset(step, n) => Goes
  /\ \A step \in Steps \ {"idle"} : \A n, i : Select(step, n, i) => Goes
  /\ \A r : Return(r) => Goes
  /\ SelectFailed => Goes
  /\ NextFile => Goes
  /\ ReadFailed => Goes
  /\ \A d : ReadDone(d) => Goes
  /\ \A r : Verified(r) => Goes
<1>1. \A step \in Steps \ {"idle"} : \A n, i, command : Transmit(step, n, i, command) => Goes
  BY DEF Transmit, Goes
<1>2. \A r : Return(r) => Goes
  BY DEF Return, Goes
<1>3. {"reset", "scan_reset", "status"} \subseteq Steps \ {"idle"}
  BY DEF Steps
<1>4. \A step \in Steps \ {"idle"} : \A n : Reset(step, n) => Goes
  BY <1>1 DEF Reset
<1>5. \A step \in Steps \ {"idle"} : \A n, i : Select(step, n, i) => Goes
  BY <1>1 DEF Select
<1>6. SelectFailed => Goes
  BY <1>2, <1>3, <1>4 DEF SelectFailed
<1>7. NextFile => Goes
  BY <1>2, <1>3, <1>4 DEF NextFile
<1>8. ReadFailed => Goes
  BY <1>3, <1>4, <1>7 DEF ReadFailed
<1>9. \A d : ReadDone(d) => Goes
  BY <1>2, <1>8 DEF ReadDone
<1>10. \A r : Verified(r) => Goes
  <2>1. SUFFICES ASSUME NEW r, Verified(r) PROVE Goes
    OBVIOUS
  <2>2. \/ Reset("reset", 1) \/ Transmit("status", 0, 0, verify_pin_status) \/ Return(Failed)
    <3>1. CASE Succeeds(r)
      BY <2>1, <3>1 DEF Verified, Succeeds
    <3>2. CASE ~Succeeds(r) /\ r.sw = "6300"
      BY <2>1, <3>2 DEF Verified
    <3>3. CASE ~Succeeds(r) /\ r.sw # "6300"
      BY <2>1, <3>3 DEF Verified
    <3> QED
      BY <3>1, <3>2, <3>3
  <2> QED
    BY <1>1, <1>2, <1>3, <1>4, <2>2
<1> QED
  BY <1>1, <1>2, <1>4, <1>5, <1>6, <1>7, <1>8, <1>9, <1>10

\* What follows an answer while a file is being selected.
LEMMA SelectGoesOn ==
  ASSUME BasicInv, NEW r, OnSelect(r)
  PROVE  LET all  == Len(Sequences("select"))
             here == Len(Sequences("select")[at.n])
         IN  /\ at.n \in 1..all /\ at.i \in 1..here /\ all \in Nat /\ here \in Nat
             /\ \/ Succeeds(r) /\ at.i < here /\ Select("select", at.n, at.i + 1)
                \/ Succeeds(r) /\ at.i = here /\ Selected
                \/ ~Succeeds(r) /\ at.n < all /\ Reset("reset", at.n + 1)
                \/ ~Succeeds(r) /\ at.n = all /\ SelectFailed
<1> DEFINE all  == Len(Sequences("select"))
           here == Len(Sequences("select")[at.n])
<1>1. at.n \in 1..all /\ at.i \in 1..here
  BY DEF OnSelect, BasicInv, PlaceInv, PlaceOf
<1>2. all \in Nat /\ here \in Nat
  BY <1>1, SequencesFacts DEF BasicInv, TypeInv
<1>3. CASE Succeeds(r)
  <2>1. (at.i < here /\ ~(at.i = here)) \/ (at.i = here /\ ~(at.i < here))
    BY <1>1, <1>2
  <2>2. (at.i < here /\ Select("select", at.n, at.i + 1)) \/ (at.i = here /\ Selected)
    BY <1>3, <2>1 DEF OnSelect
  <2> QED
    BY <1>1, <1>2, <1>3, <2>2
<1>4. CASE ~Succeeds(r)
  <2>1. (at.n < all /\ ~(at.n = all)) \/ (at.n = all /\ ~(at.n < all))
    BY <1>1, <1>2
  <2>2. (at.n < all /\ Reset("reset", at.n + 1)) \/ (at.n = all /\ SelectFailed)
    BY <1>4, <2>1 DEF OnSelect
  <2> QED
    BY <1>1, <1>2, <1>4, <2>2
<1> QED
  BY <1>3, <1>4

LEMMA ReceiveGoes ==
  ASSUME BasicInv, Receive
  PROVE  Goes
<1> DEFINE r == Head(inbox)
<1>1. \/ OnPowerOn(r) \/ OnSelectMf(r) \/ OnVerify(r) \/ OnLogout(r)
      \/ OnVerifyAgain(r) \/ OnStatus(r) \/ OnReset(r) \/ OnSelect(r)
      \/ OnMse(r) \/ OnPso(r) \/ OnRead(r) \/ OnScanReset(r) \/ OnScanSelect(r)
  BY DEF Receive
<1> HIDE DEF r
<1>2. {"select_mf", "verify", "logout", "verify_again", "reset", "select", "mse", "pso", "read",
       "scan_read", "scan_select"} \subseteq Steps \ {"idle"}
  BY DEF Steps
<1>3. CASE OnPowerOn(r)
  BY <1>2, <1>3, SendOrEnd DEF OnPowerOn
<1>4. CASE OnSelectMf(r)
  <2>1. \/ Return(Failed) \/ Reset("reset", 1) \/ Transmit("verify", 0, 0, verify_pin(call.pin))
    BY <1>4 DEF OnSelectMf
  <2> QED
    BY <1>2, <2>1, SendOrEnd
<1>5. CASE OnVerify(r) \/ OnLogout(r) \/ OnVerifyAgain(r) \/ OnStatus(r)
  BY <1>2, <1>5, SendOrEnd DEF OnVerify, OnLogout, OnVerifyAgain, OnStatus
<1>6. CASE OnReset(r)
  BY <1>2, <1>6, SendOrEnd DEF OnReset
<1>7. CASE OnSelect(r)
  <2>1. \/ Select("select", at.n, at.i + 1) \/ Selected \/ Reset("reset", at.n + 1) \/ SelectFailed
    BY <1>7, SelectGoesOn
  <2>2. Selected => Goes
    BY <1>2, SendOrEnd DEF Selected
  <2> QED
    BY <1>2, <2>1, <2>2, SendOrEnd
<1>8. CASE OnMse(r) \/ OnPso(r)
  BY <1>2, <1>8, SendOrEnd DEF OnMse, OnPso
<1>9. CASE OnRead(r)
  <2>1. \/ Transmit(at.step, at.n, at.i + 1, read_binary(at.i + 1)) \/ ReadFailed
        \/ \E d : ReadDone(d)
    BY <1>9 DEF OnRead
  <2>2. at.step \in {"read", "scan_read"}
    BY <1>9 DEF OnRead
  <2> QED
    BY <1>2, <2>1, <2>2, SendOrEnd
<1>10. CASE OnScanReset(r)
  BY <1>2, <1>10, SendOrEnd DEF OnScanReset
<1>11. CASE OnScanSelect(r)
  <2> DEFINE here == Len(Sequences("scan_select")[at.n])
  <2>1. at.n \in 1..Len(Sequences("scan_select")) /\ at.i \in 1..here
    BY <1>11 DEF OnScanSelect, BasicInv, PlaceInv, PlaceOf, ScanSteps
  <2>2. here \in Nat
    BY <2>1, SequencesFacts DEF BasicInv, TypeInv
  <2>3. (at.i < here /\ ~(at.i = here)) \/ (at.i = here /\ ~(at.i < here))
    BY <2>1, <2>2
  <2>4. \/ Select("scan_select", at.n, at.i + 1) \/ Transmit("scan_read", at.n, 1, read_binary(1))
        \/ NextFile
    <3>1. CASE Succeeds(r)
      BY <1>11, <2>3, <3>1 DEF OnScanSelect
    <3>2. CASE ~Succeeds(r)
      BY <1>11, <3>2 DEF OnScanSelect
    <3> QED
      BY <3>1, <3>2
  <2> QED
    BY <1>2, <2>4, SendOrEnd
<1> QED
  BY <1>1, <1>3, <1>4, <1>5, <1>6, <1>7, <1>8, <1>9, <1>10, <1>11

\* A host that has nothing else under way waits for the command it sends.
LEMMA GoesInTurn ==
  ASSUME BasicInv, Goes, inbox' = <<>>, outbox = <<>>
  PROVE  InTurn'
<1>1. CASE at' = Idle /\ outbox' = outbox
  <2>1. Length' = 0 /\ at'.written
    BY <1>1, EmptyFacts DEF Length, Idle
  <2> QED
    BY <1>1, <2>1 DEF InTurn
<1>2. CASE \E step \in Steps \ {"idle"} : \E n, i, command, to : Write(step, n, i, command, to)
  <2>1. PICK step \in Steps \ {"idle"} : \E n, i, command, to : Write(step, n, i, command, to)
    BY <1>2
  <2>2. PICK n, i, command, to : Write(step, n, i, command, to)
    BY <2>1
  <2>3. Len(outbox) < ReaderDepth /\ IsSeq(<<>>)
    BY EmptyFacts, BoundAssumption
  <2>4. /\ at' = [step |-> step, n |-> n, i |-> i, written |-> TRUE]
        /\ outbox' = Append(outbox, [command |-> command, to |-> to])
    BY <2>2, <2>3 DEF Write
  <2>5. at' # Idle /\ at'.written
    BY <2>4 DEF Idle
  <2>6. Len(outbox') = 1 /\ Len(inbox') = 0
    <3>1. \A e : Len(Append(<<>>, e)) = Len(<<>>) + 1
      BY <2>3, AppendFacts
    <3> QED
      BY <2>4, <3>1, EmptyFacts
  <2>7. Length' = 1
    BY <2>6 DEF Length
  <2> QED
    BY <2>5, <2>7 DEF InTurn
<1> QED
  BY <1>1, <1>2 DEF Goes

LEMMA ReceiveInTurn ==
  ASSUME BasicInv, InTurn, Receive
  PROVE  InTurn'
<1>1. at # Idle /\ inbox # <<>> /\ inbox' = Tail(inbox)
  BY DEF Receive
<1> QED
  BY <1>1, Single, ReceiveGoes, GoesInTurn

LEMMA ReceiveTrack ==
  ASSUME BasicInv, InTurn, Meant, OnTrack, Receive
  PROVE  OnTrack'
<1> DEFINE r == Head(inbox)
<1>1. /\ at # Idle /\ at.written /\ inbox # <<>> /\ inbox' = Tail(inbox) /\ Reading /\ at.step # "idle"
      /\ UNCHANGED <<call, card, calls>>
  BY Single DEF Receive, Reading, Kept, BasicInv, TypeInv
<1>2. /\ at.step \in CallSteps /\ Told(r)
      /\ at.step \in {"reset", "select"} => Ahead(at.n)
  <2>1. r = inbox[1]
    BY <1>1, Single
  <2> QED
    BY <1>1, <2>1 DEF OnTrack
<1>3. /\ call.pin = RightPin /\ call.pin # NoPin /\ call.op # "certificate"
      /\ call.op = "sign" => call.input \in Supported
      /\ Ahead(1)
  BY PinAssumption, SelectableWorks DEF Meant
<1>4. \/ OnPowerOn(r) \/ OnSelectMf(r) \/ OnVerify(r) \/ OnLogout(r) \/ OnVerifyAgain(r)
      \/ OnReset(r) \/ OnSelect(r) \/ OnMse(r) \/ OnPso(r)
  <2>1. ~OnStatus(r) /\ ~OnRead(r) /\ ~OnScanReset(r) /\ ~OnScanSelect(r)
    BY <1>2 DEF OnStatus, OnRead, OnScanReset, OnScanSelect, CallSteps, KeySteps
  <2> QED
    BY <2>1 DEF Receive
<1> HIDE DEF r
<1>5. UNCHANGED data
  BY <1>4 DEF OnPowerOn, OnSelectMf, OnVerify, OnLogout, OnVerifyAgain, OnReset, OnSelect, OnMse, OnPso
<1>6. ASSUME card.verified, NEW n \in Nat, Reset("reset", n), Ahead(n)
      PROVE  OnTrack'
  <2>1. Transmit("reset", n, 1, select_master_file) /\ "reset" \in CallSteps
    BY <1>6 DEF Reset, CallSteps
  <2> QED
    BY <1>1, <1>5, <1>6, <2>1, SentOnTrack DEF KeySteps
<1>7. CASE OnPowerOn(r)
  <2>1. Transmit("select_mf", 0, 0, select_master_file) /\ "select_mf" \in CallSteps
    BY <1>7 DEF OnPowerOn, CallSteps
  <2> QED
    BY <1>1, <1>5, <2>1, SentOnTrack DEF KeySteps
<1>8. CASE OnSelectMf(r)
  <2>1. Succeeds(r)
    BY <1>2, <1>8 DEF OnSelectMf, Told, Succeeds
  <2>2. Transmit("verify", 0, 0, verify_pin(RightPin)) /\ "verify" \in CallSteps
    BY <1>3, <1>8, <2>1 DEF OnSelectMf, CallSteps
  <2> QED
    BY <1>1, <1>5, <2>2, SentOnTrack DEF KeySteps
<1>9. CASE OnVerify(r)
  <2>1. r.sw = "6f86" \/ (r.sw = "9000" /\ card.verified)
    BY <1>2, <1>9 DEF OnVerify, Told
  <2>2. CASE r.sw = "6f86"
    <3>1. Transmit("logout", 0, 0, logout) /\ "logout" \in CallSteps
      BY <1>9, <2>2 DEF OnVerify, CallSteps
    <3> QED
      BY <1>1, <1>5, <3>1, SentOnTrack DEF KeySteps
  <2>3. CASE r.sw = "9000" /\ card.verified
    <3>1. Reset("reset", 1)
      BY <1>9, <2>3 DEF OnVerify, Verified, Succeeds
    <3> QED
      BY <1>3, <1>6, <2>3, <3>1
  <2> QED
    BY <2>1, <2>2, <2>3
<1>10. CASE OnLogout(r)
  <2>1. r.sw = "9000" /\ ~card.verified
    BY <1>2, <1>10 DEF OnLogout, Told
  <2>2. Transmit("verify_again", 0, 0, verify_pin(RightPin)) /\ "verify_again" \in CallSteps
    BY <1>3, <1>10, <2>1 DEF OnLogout, Succeeds, CallSteps
  <2> QED
    BY <1>1, <1>5, <2>1, <2>2, SentOnTrack DEF KeySteps
<1>11. CASE OnVerifyAgain(r)
  <2>1. r.sw = "9000" /\ card.verified
    BY <1>2, <1>11 DEF OnVerifyAgain, Told
  <2>2. Reset("reset", 1)
    BY <1>11, <2>1 DEF OnVerifyAgain, Verified, Succeeds
  <2> QED
    BY <1>3, <1>6, <2>1, <2>2
<1>12. ASSUME card.verified, NEW n \in Nat, NEW i \in Nat, Select("select", n, i), Ahead(n),
              card.selected = Chosen(n, i - 1)
       PROVE  OnTrack'
  <2>1. Transmit("select", n, i, Sequences("select")[n][i]) /\ "select" \in CallSteps
    BY <1>12 DEF Select, CallSteps
  <2> QED
    BY <1>1, <1>5, <1>12, <2>1, SentOnTrack DEF KeySteps
<1>13. CASE OnReset(r)
  <2>1. r.sw = "9000" /\ card.verified /\ card.selected = <<>> /\ Ahead(at.n)
    BY <1>2, <1>13 DEF OnReset, Told
  <2>2. Select("select", at.n, 1)
    BY <1>13, <2>1 DEF OnReset, Succeeds
  <2>3. at.n \in 1..5
    <3>1. Sequences("reset") = private_key_file_select_sequences(call.key)
      BY <1>3 DEF Sequences
    <3> QED
      BY <1>13, <3>1, AlternativeFacts DEF OnReset, BasicInv, PlaceInv, PlaceOf
  <2>4. card.selected = Chosen(at.n, 1 - 1)
    <3>1. 1 - 1 = 0
      OBVIOUS
    <3> QED
      BY <2>1, <2>3, <3>1, ChosenEnds
  <2> QED
    BY <1>12, <2>1, <2>2, <2>3, <2>4
<1>14. CASE OnSelect(r)
  <2> DEFINE here == Len(Sequences("select")[at.n])
  <2>1. /\ Sequences("select") = private_key_file_select_sequences(call.key)
        /\ Len(Sequences("select")) = 5
    BY <1>3, AlternativeFacts DEF Sequences
  <2>2. /\ at.n \in 1..5 /\ at.i \in 1..here /\ here \in Nat
        /\ \/ Succeeds(r) /\ at.i < here /\ Select("select", at.n, at.i + 1)
           \/ Succeeds(r) /\ at.i = here /\ Selected
           \/ ~Succeeds(r) /\ at.n < 5 /\ Reset("reset", at.n + 1)
           \/ ~Succeeds(r) /\ at.n = 5 /\ SelectFailed
    BY <1>14, <2>1, SelectGoesOn
  <2>3. /\ card.verified /\ Ahead(at.n)
        /\ Succeeds(r) => card.selected = Chosen(at.n, at.i)
        /\ ~Succeeds(r) => Ahead(at.n + 1)
    BY <1>2, <1>14 DEF OnSelect, Told, Succeeds
  <2>4. CASE Succeeds(r) /\ at.i < here /\ Select("select", at.n, at.i + 1)
    <3>1. at.i \in Nat /\ at.n \in Nat /\ at.i + 1 \in Nat /\ (at.i + 1) - 1 = at.i
      BY <2>2
    <3>2. card.selected = Chosen(at.n, (at.i + 1) - 1)
      BY <2>3, <2>4, <3>1
    <3> QED
      BY <1>12, <2>3, <2>4, <3>1, <3>2
  <2>5. CASE Succeeds(r) /\ at.i = here /\ Selected
    <3>1. card.selected \in {KeyFile(1), KeyFile(4)}
      BY <2>1, <2>2, <2>3, <2>5, ChosenEnds
    <3>2. Transmit("mse", 0, 0, manage_security_environment(call.op, call.key)) /\ "mse" \in CallSteps
      BY <1>3, <2>5 DEF Selected, CallSteps, KeySteps
    <3> QED
      BY <1>1, <1>5, <2>3, <3>1, <3>2, SentOnTrack
  <2>6. CASE ~Succeeds(r) /\ at.n < 5 /\ Reset("reset", at.n + 1)
    BY <1>6, <2>2, <2>3, <2>6
  <2>7. CASE ~Succeeds(r) /\ at.n = 5
    BY <2>3, <2>7 DEF Ahead
  <2> QED
    BY <2>2, <2>4, <2>5, <2>6, <2>7
<1>15. CASE OnMse(r)
  <2>1. r.sw = "9000" /\ card.verified /\ card.env = <<call.op, call.key>>
    BY <1>2, <1>15 DEF OnMse, Told
  <2>2. Transmit("pso", 0, 0, perform_security_operation(call.op, call.input)) /\ "pso" \in CallSteps
    BY <1>3, <1>15, <2>1 DEF OnMse, Succeeds, CallSteps, KeySteps
  <2> QED
    BY <1>1, <1>5, <2>1, <2>2, SentOnTrack
<1>16. CASE OnPso(r)
  <2> DEFINE s == [ok |-> TRUE, value |-> r.data]
  <2>1. r.sw = "9000" /\ r.data = Outcome(call.op, call.key, call.input)
    BY <1>2, <1>16 DEF OnPso, Told
  <2>2. call.op = "sign" => HasSignatureLength(r.data)
    <3>1. \A o, k, d : <<o, k, d>> # <<>> /\ <<o, k, d>>[1] = o
      OBVIOUS
    <3> QED
      BY <2>1, <3>1 DEF HasSignatureLength, Outcome, Empty
  <2>3. Return(s)
    BY <1>16, <2>1, <2>2 DEF OnPso, Succeeds
  <2>4. s.ok = TRUE /\ s.ok \in BOOLEAN
    OBVIOUS
  <2> HIDE DEF s
  <2>5. IsSeq(data')
    BY <1>5 DEF BasicInv, TypeInv
  <2>6. at'.step = "idle" /\ result' = s
    BY <1>1, <2>3, <2>4, <2>5, ReturnedInTurn
  <2> QED
    BY <2>4, <2>6 DEF OnTrack
<1> QED
  BY <1>4, <1>7, <1>8, <1>9, <1>10, <1>11, <1>13, <1>14, <1>15, <1>16

-----------------------------------------------------------------------------
(* Without faults, all of it goes together *)

LEMMA FaultlessBegins == Init => FaultlessInv
<1> SUFFICES ASSUME Init PROVE FaultlessInv
  OBVIOUS
<1>1. at = Idle /\ inbox = <<>> /\ outbox = <<>> /\ calls = 0 /\ at.step = "idle" /\ at.written
  BY DEF Init, Idle
<1>2. InTurn
  BY <1>1, EmptyFacts DEF InTurn, Length
<1>3. OnTrack
  BY <1>1 DEF OnTrack
<1> QED
  BY <1>2, <1>3 DEF FaultlessInv

\* The first command of a call.
LEMMA BeginTrack ==
  ASSUME BasicInv, InTurn, Begin
  PROVE  InTurn' /\ OnTrack'
<1>1. at = Idle /\ inbox' \in {inbox, <<>>} /\ Length = 0
  BY DEF Begin, InTurn
<1>2. inbox = <<>> /\ outbox = <<>>
  <2>1. IsSeq(inbox) /\ IsSeq(outbox) /\ Len(inbox) \in Nat /\ Len(outbox) \in Nat
    BY DEF BasicInv, LinkInv, IsSeq
  <2>2. \A a \in Nat, b \in Nat : a + b = 0 => a = 0 /\ b = 0
    OBVIOUS
  <2>3. Len(inbox) = 0 /\ Len(outbox) = 0
    BY <1>1, <2>1, <2>2 DEF Length
  <2> QED
    BY <2>1, <2>3, EmptyFacts
<1>3. inbox' = <<>>
  BY <1>1, <1>2
<1>4. /\ Write("power_on", 0, 0, [ins |-> "POWER_ON"], <<calls + 1, 0>>)
      /\ "power_on" \in Steps \ {"idle"}
  BY DEF Begin, Steps
<1>5. InTurn'
  <2>1. Goes
    BY <1>4 DEF Goes
  <2> QED
    BY <1>2, <1>3, <2>1, GoesInTurn
<1>6. at'.step = "power_on" /\ outbox'[1].command = [ins |-> "POWER_ON"]
  <2> DEFINE c == [ins |-> "POWER_ON"]
  <2>1. Write("power_on", 0, 0, c, <<calls + 1, 0>>)
    BY <1>4
  <2> HIDE DEF c
  <2>2. Len(<<>>) < ReaderDepth
    BY EmptyFacts, BoundAssumption
  <2> DEFINE e == [command |-> c, to |-> <<calls + 1, 0>>]
  <2>3. at'.step = "power_on" /\ outbox' = Append(<<>>, e) /\ e.command = c
    BY <1>2, <2>1, <2>2 DEF Write
  <2> HIDE DEF e
  <2>4. Append(<<>>, e)[Len(<<>>) + 1] = e /\ Len(<<>>) + 1 = 1
    BY EmptyFacts, AppendFacts
  <2> QED
    BY <2>3, <2>4 DEF c
<1>7. OnTrack'
  <2>1. Asks(outbox[1].command)'
    BY <1>6 DEF Asks
  <2>2. Ready'
    BY <1>6 DEF Ready, KeySteps
  <2> QED
    BY <1>3, <1>6, <2>1, <2>2 DEF OnTrack, CallSteps
<1> QED
  BY <1>5, <1>7

LEMMA FaultlessKept == BasicInv /\ FaultlessInv /\ [Next]_vars => FaultlessInv'
<1> SUFFICES ASSUME BasicInv, FaultlessInv, [Next]_vars, faults' = 0
             PROVE  InTurn' /\ (Meant' => OnTrack')
  BY DEF FaultlessInv
<1>1. CASE UNCHANGED vars
  <2>1. UNCHANGED <<call, at, data, result, sequence, outbox, inbox, card, calls, faults, cost>>
    BY <1>1 DEF vars, host, link
  <2>2. InTurn /\ (Meant => OnTrack)
    BY <2>1 DEF FaultlessInv
  <2>3. InTurn' /\ (Meant' => Meant)
    BY <2>1, <2>2 DEF InTurn, Length, Meant
  <2>4. OnTrack => OnTrack'
    BY <2>1 DEF OnTrack, Ahead, Works, KeyFile, Asks, Ready, Told, Chosen, Upto, Sequences
  <2> QED
    BY <2>2, <2>3, <2>4
<1>2. faults \in Nat /\ ~Fault
  BY BoundAssumption DEF BasicInv, TypeInv, Fault
<1>3. CASE Begin \/ Execute \/ Receive
  <2>1. InTurn /\ (Meant => OnTrack)
    BY <1>3 DEF Begin, Execute, Receive, FaultlessInv
  <2>2. Receive => (Meant' => Meant)
    BY DEF Receive, Meant
  <2> QED
    BY <1>3, <2>1, <2>2, BeginTrack, ExecuteTrack, ReceiveInTurn, ReceiveTrack
<1>4. ~TimedOut
  <2>1. SUFFICES ASSUME TimedOut PROVE FALSE
    OBVIOUS
  <2>2. at # Idle /\ (at.written => inbox = <<>>) /\ ~(at.written /\ outbox # <<>>) /\ faults' = faults
    BY <1>2, <2>1 DEF TimedOut
  <2>3. InTurn
    BY <2>2 DEF FaultlessInv
  <2> QED
    BY <2>2, <2>3, Single DEF InTurn
<1>5. ~BadBlock /\ ~WriteFails
  BY <1>2 DEF BadBlock, WriteFails
<1> QED
  BY <1>1, <1>3, <1>4, <1>5 DEF Next

\* A call with the right PIN for a key the token has succeeds if nothing fails,
\* in whatever state earlier calls have left the card: logged in, another file
\* selected, another key in its environment (lib.rs: sign_digest_direct and
\* derive_vko_direct).
THEOREM FaultlessCallSucceedsAlways == Spec => []FaultlessCallSucceeds
<1>1. BasicInv /\ FaultlessInv => FaultlessCallSucceeds
  <2>1. at = Idle => at.step = "idle"
    BY DEF Idle
  <2> QED
    BY <2>1 DEF FaultlessInv, FaultlessCallSucceeds, Meant, OnTrack
<1> QED
  BY <1>1, InitBasic, NextBasic, FaultlessBegins, FaultlessKept, PTL DEF Spec
===============================================================================
