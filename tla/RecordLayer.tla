----------------------------- MODULE RecordLayer -----------------------------
(***************************************************************************)
(* GOST 28147-89 CNT_IMIT record protection (src/src/gost_record.rs): the  *)
(* two RecordCrypto values of a connection, one per end, and the records   *)
(* that travel between them.                                               *)
(*                                                                         *)
(* A direction of a connection has no per-record nonce and no per-record   *)
(* MAC.  Its keystream runs on over all records, its MAC is one running    *)
(* IMIT over everything ever protected, and its sequence number is counted *)
(* by each end for itself.  The ends agree only as long as they have       *)
(* processed the same bytes, so what has to be shown is that they do.      *)
(*                                                                         *)
(* The cryptography is symbolic.  A tag is the whole history the running   *)
(* IMIT has absorbed, so that two tags are equal only if the histories     *)
(* are.  A ciphertext remembers the keystream offset it was made at and    *)
(* decrypts to Noise at any other one.  Reception of anything but the next *)
(* intact record is a fault of the wire.                                   *)
(*                                                                         *)
(* A definition X_Name is a mutant: X with a plausible bug.  No definition *)
(* uses one; it shows that some property would notice the bug.             *)
(***************************************************************************)
EXTENDS Naturals, Sequences

CONSTANTS
  End,            \* the two ends of the connection
  ContentType,    \* the content types records carry
  Fragment,       \* the plaintext fragments
  Size,           \* Size[f]: the length of fragment f in bytes
  Noise,          \* what a fragment or a tag decrypts to when it is damaged
  IMIT_TAG_LEN,   \* length of a tag in bytes
  MaxSent,        \* bound: MaxSent[e] is how many records end e sends
  MaxFaults       \* bound: faults of the wire

ASSUME EndAssumption == \E a, b \in End : a # b /\ End = {a, b}
ASSUME SizeAssumption == Size \in [Fragment -> Nat] /\ IMIT_TAG_LEN \in Nat
ASSUME BoundAssumption == MaxSent \in [End -> Nat] /\ MaxFaults \in Nat

VARIABLES
  crypto,   \* crypto[e].write and crypto[e].read: the DirectionStates of e
  wire,     \* wire[e]: every record protected for e so far, in order
  arrived,  \* arrived[e]: how far along wire[e] the stream to e has got
  faults,   \* how often the wire has misbehaved
  sent,     \* history: the messages each end has protected
  got,      \* history: the messages each end has accepted
  dead      \* history: the ends at which a record failed its MAC

vars == <<crypto, wire, arrived, faults, sent, got, dead>>

Message == [content_type : ContentType, fragment : Fragment]

\* One record's MACed_data.  Its version never varies and its length is that
\* of the fragment.
MacedData ==
  [seq_num : Nat, content_type : ContentType, fragment : Fragment \cup {Noise}]

\* Noise is neither a fragment nor a tag.
ASSUME NoiseAssumption == Noise \notin Fragment /\ Noise \notin Seq(MacedData)

Record == [content_type : ContentType, at : Nat, size : Nat,
           fragment : Fragment \cup {Noise}, tag : Seq(MacedData) \cup {Noise}]

DirectionState == [cnt : Nat, imit : Seq(MacedData), seq_num : Nat]

NewDirection == [cnt |-> 0, imit |-> <<>>, seq_num |-> 0]

Peer(e) == CHOOSE f \in End : f # e

-----------------------------------------------------------------------------
(* protect                                                                 *)

\* Mutant: the type of a record is not under its MAC.
maced_data_Untyped(seq_num, t, f) ==
  [seq_num |-> seq_num, content_type |-> CHOOSE u \in ContentType : TRUE, fragment |-> f]

maced_data(seq_num, t, f) == [seq_num |-> seq_num, content_type |-> t, fragment |-> f]

\* Direction d once it has absorbed MACed_data m and size bytes have gone
\* through its keystream.
Absorb(d, m, size) ==
  [cnt |-> d.cnt + size, imit |-> Append(d.imit, m), seq_num |-> d.seq_num]

Counted(d) == [cnt |-> d.cnt, imit |-> d.imit, seq_num |-> d.seq_num + 1]

\* The record end e makes of fragment f: fragment and tag under the keystream.
Protected(e, t, f) ==
  LET write == crypto[e].write
  IN  [content_type |-> t, at |-> write.cnt, size |-> Size[f] + IMIT_TAG_LEN,
       fragment |-> f, tag |-> Append(write.imit, maced_data(write.seq_num, t, f))]

\* Mutant: the tag does not go through the keystream.
protect_TagInClear(e, t, f) ==
  LET write == crypto[e].write
  IN  /\ crypto' = [crypto EXCEPT ![e].write =
                      Counted(Absorb(@, maced_data(@.seq_num, t, f), Size[f]))]
      /\ wire' = [wire EXCEPT ![Peer(e)] = Append(@, Protected(e, t, f))]

protect(e, t, f) ==
  /\ crypto' = [crypto EXCEPT ![e].write =
                  Counted(Absorb(@, maced_data(@.seq_num, t, f), Size[f] + IMIT_TAG_LEN))]
  /\ wire' = [wire EXCEPT ![Peer(e)] = Append(@, Protected(e, t, f))]

-----------------------------------------------------------------------------
(* unprotect                                                               *)

\* What the keystream at offset cnt makes of a field of record r.
Decrypt(cnt, r, field) == IF r.at = cnt THEN field ELSE Noise

\* The MACed_data end e computes for record r.
Maced(e, r) ==
  maced_data(crypto[e].read.seq_num, r.content_type,
             Decrypt(crypto[e].read.cnt, r, r.fragment))

\* Mutant: the comparison of the tags stops after their lengths.
MacAgrees_LengthOnly(e, r) == r.size >= IMIT_TAG_LEN

MacAgrees(e, r) ==
  Decrypt(crypto[e].read.cnt, r, r.tag) = Append(crypto[e].read.imit, Maced(e, r))

\* Mutant: the payload is decrypted before its length is looked at.
Short_Decrypted(e, r) ==
  /\ r.size < IMIT_TAG_LEN
  /\ crypto' = [crypto EXCEPT ![e].read.cnt = @ + r.size]
  /\ UNCHANGED <<got, dead>>

\* A payload too short to hold a tag is refused before any state is touched.
Short(e, r) ==
  /\ r.size < IMIT_TAG_LEN
  /\ UNCHANGED <<crypto, got, dead>>

\* Mutant: the record is counted before its tag is compared.
BadMac_Counted(e, r) ==
  /\ r.size >= IMIT_TAG_LEN
  /\ ~MacAgrees(e, r)
  /\ crypto' = [crypto EXCEPT ![e].read = Counted(Absorb(@, Maced(e, r), r.size))]
  /\ dead' = [dead EXCEPT ![e] = TRUE]
  /\ UNCHANGED got

\* The keystream and the running MAC have moved on, the sequence number has not.
BadMac(e, r) ==
  /\ r.size >= IMIT_TAG_LEN
  /\ ~MacAgrees(e, r)
  /\ crypto' = [crypto EXCEPT ![e].read = Absorb(@, Maced(e, r), r.size)]
  /\ dead' = [dead EXCEPT ![e] = TRUE]
  /\ UNCHANGED got

Accepted(e, r) ==
  /\ r.size >= IMIT_TAG_LEN
  /\ MacAgrees(e, r)
  /\ crypto' = [crypto EXCEPT ![e].read = Counted(Absorb(@, Maced(e, r), r.size))]
  /\ got' = [got EXCEPT ![e] = Append(@, [content_type |-> r.content_type,
                                          fragment |-> Maced(e, r).fragment])]
  /\ UNCHANGED dead

unprotect(e, r) == Short(e, r) \/ BadMac(e, r) \/ Accepted(e, r)

-----------------------------------------------------------------------------
(* The connection                                                          *)

Init == /\ crypto = [e \in End |-> [write |-> NewDirection, read |-> NewDirection]]
        /\ wire = [e \in End |-> <<>>]
        /\ arrived = [e \in End |-> 0]
        /\ faults = 0
        /\ sent = [e \in End |-> <<>>]
        /\ got = [e \in End |-> <<>>]
        /\ dead = [e \in End |-> FALSE]

Send(e) == /\ Len(sent[e]) < MaxSent[e]
           /\ \E t \in ContentType, f \in Fragment :
                /\ protect(e, t, f)
                /\ sent' = [sent EXCEPT ![e] =
                              Append(@, [content_type |-> t, fragment |-> f])]
           /\ UNCHANGED <<arrived, faults, got, dead>>

\* The next record reaches e as it was sent.
Receive(e) == /\ arrived[e] < Len(wire[e])
              /\ unprotect(e, wire[e][arrived[e] + 1])
              /\ arrived' = [arrived EXCEPT ![e] = @ + 1]
              /\ UNCHANGED <<wire, faults, sent>>

\* What a faulty wire can make of a record: nothing else, another type in its
\* header, other bytes under its fragment or its tag, or a shorter payload.
Damaged(r) ==
  {r}
  \cup {[r EXCEPT !.content_type = t] : t \in ContentType}
  \cup {[r EXCEPT !.fragment = f] : f \in Fragment \cup {Noise}}
  \cup {[r EXCEPT !.tag = Noise]}
  \cup {[r EXCEPT !.size = n, !.fragment = Noise, !.tag = Noise] : n \in 0..r.size}

\* A record reaches e out of its turn, once more, or damaged.  The stream goes
\* on after that record, or where it was.
ReceiveFaulty(e) ==
  /\ faults < MaxFaults
  /\ faults' = faults + 1
  /\ \E i \in 1..Len(wire[e]) :
       /\ \E r \in Damaged(wire[e][i]) : unprotect(e, r)
       /\ \E n \in {arrived[e], i} : arrived' = [arrived EXCEPT ![e] = n]
  /\ UNCHANGED <<wire, sent>>

Next == \E e \in End : Send(e) \/ Receive(e) \/ ReceiveFaulty(e)

Spec == Init /\ [][Next]_vars

\* The socket delivers what is in flight and each end reads what it is sent.
FairSpec == Spec /\ \A e \in End : WF_vars(Receive(e))

-----------------------------------------------------------------------------
(* Properties                                                              *)

\* Every variable has its type; in particular no end ever accepts a fragment
\* that is not a plaintext.
TypeOK ==
  /\ crypto \in [End -> [write : DirectionState, read : DirectionState]]
  /\ wire \in [End -> Seq(Record)]
  /\ \A e \in End : arrived[e] \in 0..Len(wire[e])
  /\ faults \in 0..MaxFaults
  /\ sent \in [End -> Seq(Message)]
  /\ got \in [End -> Seq(Message)]
  /\ dead \in [End -> BOOLEAN]

\* What an end accepts is a prefix of what its peer sent, whatever the wire
\* loses, repeats, reorders or damages: unprotect never yields a record out of
\* order and never resumes behind a gap.
AcceptedInOrder ==
  \A e \in End :
    /\ Len(got[e]) <= Len(sent[Peer(e)])
    /\ \A i \in 1..Len(got[e]) : got[e][i] = sent[Peer(e)][i]

\* An end at which no MAC has failed and that has accepted all its peer sent is
\* in the very state its peer writes with, so the next record will be accepted:
\* a refusal for shortness must have left no trace.
InStep ==
  \A e \in End :
    ~dead[e] /\ Len(got[e]) = Len(sent[Peer(e)]) => crypto[e].read = crypto[Peer(e)].write

\* On a wire that does not misbehave every record that is sent is accepted: the
\* two ends never drift apart by themselves.
Delivered ==
  \A e \in End : \A n \in 1..MaxSent[Peer(e)] :
    Len(sent[Peer(e)]) >= n ~> Len(got[e]) >= n \/ faults > 0

\* The record layer gives its user the channel PrefixChannel promises.
Channel == INSTANCE PrefixChannel
ImplementsChannel == Channel!Spec
==============================================================================
