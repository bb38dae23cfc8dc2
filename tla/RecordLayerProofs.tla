-------------------------- MODULE RecordLayerProofs --------------------------
(***************************************************************************)
(* Theorems about RecordLayer: its type invariant, that records are        *)
(* accepted in order, that undamaged ends stay in step, and that it        *)
(* implements PrefixChannel.  They hold for every set of fragments and     *)
(* content types, every tag length and any number of records and faults.   *)
(***************************************************************************)
EXTENDS RecordLayer, SequenceTheorems, TLAPS

\* The keystream offset at which end e made, or will make, its record k + 1.
Offset(e, k) ==
  IF k < Len(wire[Peer(e)]) THEN wire[Peer(e)][k + 1].at ELSE crypto[e].write.cnt

\* The writing half of e records exactly what e has sent: entry i of the running
\* MAC is message i under number i - 1, and the tag of record i is the first i
\* entries.
WritesWhatIsSent(e) ==
  LET write == crypto[e].write
      out   == wire[Peer(e)]
  IN  /\ write.seq_num = Len(sent[e])
      /\ Len(write.imit) = Len(sent[e])
      /\ Len(out) = Len(sent[e])
      /\ \A i \in 1..Len(sent[e]) :
           /\ write.imit[i] = maced_data(i - 1, sent[e][i].content_type, sent[e][i].fragment)
           /\ out[i].tag \in Seq(MacedData)
           /\ Len(out[i].tag) = i
           /\ \A j \in 1..i : out[i].tag[j] = write.imit[j]

\* The offsets of the records of e follow one another without a gap.
OffsetsFollow(e) ==
  /\ Offset(e, 0) = 0
  /\ \A i \in 1..Len(wire[Peer(e)]) :
       Offset(e, i) = wire[Peer(e)][i].at + wire[Peer(e)][i].size

\* The reading half of e counts what it has accepted; its running MAC is ahead
\* of the count exactly if a record has failed.
ReadsWhatIsGot(e) ==
  LET read == crypto[e].read
  IN  /\ read.seq_num = Len(got[e])
      /\ dead[e] => Len(read.imit) > Len(got[e])
      /\ ~dead[e] => Len(read.imit) = Len(got[e])
      /\ ~dead[e] => \A i \in 1..Len(read.imit) :
                        read.imit[i] = crypto[Peer(e)].write.imit[i]
      /\ ~dead[e] => read.cnt = Offset(Peer(e), Len(got[e]))

IInv == /\ AcceptedInOrder
        /\ \A e \in End : WritesWhatIsSent(e) /\ OffsetsFollow(e) /\ ReadsWhatIsGot(e)

Inv == TypeOK /\ IInv

-----------------------------------------------------------------------------
(* Lemmas about the operators                                              *)

\* There are exactly two ends, each the peer of the other.
LEMMA PeerFacts ==
  ASSUME NEW e \in End
  PROVE  /\ Peer(e) \in End
         /\ Peer(e) # e
         /\ Peer(Peer(e)) = e
         /\ \A g \in End : g # e => g = Peer(e)
<1>1. PICK a \in End, b \in End : a # b /\ End = {a, b}
  BY EndAssumption
<1>2. \A g \in End : \E f \in End : f # g
  BY <1>1
<1>3. \A g \in End : Peer(g) \in End /\ Peer(g) # g
  BY <1>2 DEF Peer
<1> QED
  BY <1>1, <1>3

\* Whatever the wire makes of a record is a record.
LEMMA DamagedIsRecord ==
  ASSUME NEW s \in Record, NEW r \in Damaged(s)
  PROVE  r \in Record
<1>1. CASE r = s
  BY <1>1
<1>2. CASE r \in {[s EXCEPT !.content_type = t] : t \in ContentType}
  BY <1>2 DEF Record
<1>3. CASE r \in {[s EXCEPT !.fragment = f] : f \in Fragment \cup {Noise}}
  BY <1>3 DEF Record
<1>4. CASE r = [s EXCEPT !.tag = Noise]
  BY <1>4 DEF Record
<1>5. CASE r \in {[s EXCEPT !.size = n, !.fragment = Noise, !.tag = Noise] : n \in 0..s.size}
  <2>1. PICK n \in 0..s.size : r = [s EXCEPT !.size = n, !.fragment = Noise, !.tag = Noise]
    BY <1>5
  <2>2. n \in Nat
    BY DEF Record
  <2> QED
    BY <2>1, <2>2 DEF Record
<1> QED
  BY <1>1, <1>2, <1>3, <1>4, <1>5 DEF Damaged

\* A damaged record whose tag survives has its old offset and size.
LEMMA TagSurvives ==
  ASSUME NEW s \in Record, NEW r \in Damaged(s), r.tag # Noise
  PROVE  r.tag = s.tag /\ r.at = s.at /\ r.size = s.size
BY DEF Damaged, Record

LEMMA AppendFacts ==
  ASSUME NEW S, NEW s \in Seq(S), NEW x \in S
  PROVE  /\ Append(s, x) \in Seq(S)
         /\ Len(Append(s, x)) = Len(s) + 1
         /\ \A i \in 1..Len(s) : Append(s, x)[i] = s[i]
         /\ Append(s, x)[Len(s) + 1] = x
BY AppendProperties

\* The type invariant, end by end.
LEMMA TypeFacts ==
  ASSUME TypeOK, NEW e \in End
  PROVE  /\ crypto[e].read \in DirectionState
         /\ crypto[e].write \in DirectionState
         /\ crypto[e].read.imit \in Seq(MacedData)
         /\ crypto[e].write.imit \in Seq(MacedData)
         /\ wire[e] \in Seq(Record)
         /\ sent[e] \in Seq(Message)
         /\ got[e] \in Seq(Message)
         /\ Len(got[e]) \in Nat
         /\ Len(sent[e]) \in Nat
<1>1. crypto[e].read \in DirectionState /\ crypto[e].write \in DirectionState
  BY DEF TypeOK
<1>2. wire[e] \in Seq(Record) /\ sent[e] \in Seq(Message) /\ got[e] \in Seq(Message)
  BY DEF TypeOK
<1> QED
  BY <1>1, <1>2 DEF DirectionState

\* MACed_data binds all it is made of.
LEMMA MacedDataBinds ==
  ASSUME NEW n \in Nat, NEW t \in ContentType, NEW f \in Fragment \cup {Noise}
  PROVE  /\ maced_data(n, t, f) \in MacedData
         /\ maced_data(n, t, f).seq_num = n
         /\ maced_data(n, t, f).content_type = t
         /\ maced_data(n, t, f).fragment = f
BY DEF maced_data, MacedData

\* The MACed_data of a received record is well formed.
LEMMA MacedIsMacedData ==
  ASSUME TypeOK, NEW e \in End, NEW r \in Record
  PROVE  /\ Maced(e, r) \in MacedData
         /\ Maced(e, r).seq_num = crypto[e].read.seq_num
         /\ Maced(e, r).content_type = r.content_type
<1>1. Decrypt(crypto[e].read.cnt, r, r.fragment) \in Fragment \cup {Noise}
  BY DEF Decrypt, Record
<1>2. crypto[e].read.seq_num \in Nat /\ r.content_type \in ContentType
  BY DEF TypeOK, DirectionState, Record
<1> QED
  BY <1>1, <1>2, MacedDataBinds DEF Maced

-----------------------------------------------------------------------------
(* What the MAC guarantees                                                 *)

\* A record whose MAC agrees is, at an end that has not failed, the next one of
\* its peer, intact.
LEMMA AgreementMeansNext ==
  ASSUME Inv, NEW e \in End, NEW i \in 1..Len(wire[e]),
         NEW r \in Damaged(wire[e][i]), MacAgrees(e, r)
  PROVE  /\ ~dead[e]
         /\ i = Len(got[e]) + 1
         /\ i <= Len(sent[Peer(e)])
         /\ r.content_type = sent[Peer(e)][i].content_type
         /\ Maced(e, r).fragment = sent[Peer(e)][i].fragment
         /\ Maced(e, r) = crypto[Peer(e)].write.imit[i]
         /\ r.at = wire[e][i].at
         /\ r.size = wire[e][i].size
<1> DEFINE f == Peer(e)
           read == crypto[e].read
           tag == Append(read.imit, Maced(e, r))
<1> USE DEF Inv, IInv
<1>1. f \in End /\ Peer(f) = e
  BY PeerFacts
<1>2. wire[e] \in Seq(Record) /\ wire[e][i] \in Record
  BY DEF TypeOK
<1>3. r \in Record
  BY <1>2, DamagedIsRecord
<1>4. read.imit \in Seq(MacedData) /\ read.seq_num \in Nat
  BY DEF TypeOK, DirectionState
<1>5. Maced(e, r) \in MacedData
  BY <1>3, MacedIsMacedData
<1>6. /\ tag \in Seq(MacedData)
      /\ Len(tag) = Len(read.imit) + 1
      /\ \A j \in 1..Len(read.imit) : tag[j] = read.imit[j]
      /\ tag[Len(read.imit) + 1] = Maced(e, r)
  BY <1>4, <1>5, AppendFacts
<1>7. r.tag = tag /\ r.at = read.cnt
  BY <1>6, NoiseAssumption DEF MacAgrees, Decrypt
<1>8. r.tag = wire[e][i].tag /\ r.at = wire[e][i].at /\ r.size = wire[e][i].size
  <2>1. r.tag # Noise
    BY <1>6, <1>7, NoiseAssumption
  <2> QED
    BY <2>1, <1>2, TagSurvives
<1>9. /\ i \in 1..Len(sent[f])
      /\ Len(wire[e][i].tag) = i
      /\ \A j \in 1..i : wire[e][i].tag[j] = crypto[f].write.imit[j]
      /\ crypto[f].write.imit[i] = maced_data(i - 1, sent[f][i].content_type, sent[f][i].fragment)
  <2>1. WritesWhatIsSent(f)
    BY <1>1
  <2> QED
    BY <2>1, <1>1 DEF WritesWhatIsSent
<1>10. i = Len(read.imit) + 1
  BY <1>6, <1>7, <1>8, <1>9
<1>11. Maced(e, r) = crypto[f].write.imit[i]
  <2>1. i \in 1..i
    OBVIOUS
  <2>2. wire[e][i].tag[i] = crypto[f].write.imit[i]
    BY <1>9, <2>1
  <2>3. tag[i] = Maced(e, r)
    BY <1>6, <1>10
  <2> QED
    BY <1>7, <1>8, <2>2, <2>3
<1>12. sent[f][i] \in Message
  BY <1>1, <1>9 DEF TypeOK
<1>13. /\ Maced(e, r).seq_num = i - 1
       /\ Maced(e, r).content_type = sent[f][i].content_type
       /\ Maced(e, r).fragment = sent[f][i].fragment
  BY <1>9, <1>11, <1>12, MacedDataBinds DEF Message
<1>14. Maced(e, r).seq_num = read.seq_num /\ Maced(e, r).content_type = r.content_type
  BY <1>3, MacedIsMacedData
<1>15. read.seq_num = Len(read.imit)
  BY <1>4, <1>10, <1>13, <1>14
<1>16. /\ read.seq_num = Len(got[e])
       /\ dead[e] => Len(read.imit) > Len(got[e])
  BY DEF ReadsWhatIsGot
<1>17. ~dead[e] /\ i = Len(got[e]) + 1
  BY <1>4, <1>10, <1>15, <1>16
<1> QED
  BY <1>8, <1>9, <1>11, <1>13, <1>14, <1>17

-----------------------------------------------------------------------------
(* What a step of each operation does to a direction                       *)

\* Absorbing moves the keystream and the running MAC, and nothing else.
LEMMA AbsorbFacts ==
  ASSUME NEW d \in DirectionState, NEW m \in MacedData, NEW size \in Nat
  PROVE  /\ Absorb(d, m, size) \in DirectionState
         /\ Absorb(d, m, size).cnt = d.cnt + size
         /\ Absorb(d, m, size).imit = Append(d.imit, m)
         /\ Absorb(d, m, size).seq_num = d.seq_num
         /\ Counted(Absorb(d, m, size)) \in DirectionState
         /\ Counted(Absorb(d, m, size)).cnt = d.cnt + size
         /\ Counted(Absorb(d, m, size)).imit = Append(d.imit, m)
         /\ Counted(Absorb(d, m, size)).seq_num = d.seq_num + 1
<1>1. Append(d.imit, m) \in Seq(MacedData)
  BY AppendFacts DEF DirectionState
<1>2. d.cnt + size \in Nat /\ d.seq_num \in Nat /\ d.seq_num + 1 \in Nat
  BY DEF DirectionState
<1> QED
  BY <1>1, <1>2 DEF Absorb, Counted, DirectionState

\* What unprotecting a record that the wire made of record i of wire[e] does to
\* the reading half of e; every other direction is left alone.
LEMMA ReadingStep ==
  ASSUME TypeOK, NEW e \in End, NEW r \in Record, unprotect(e, r)
  PROVE  /\ crypto' \in [End -> [write : DirectionState, read : DirectionState]]
         /\ \A g \in End : crypto'[g].write = crypto[g].write
         /\ \A g \in End : g # e => /\ crypto'[g].read = crypto[g].read
                                    /\ got'[g] = got[g]
                                    /\ dead'[g] = dead[g]
         /\ dead' \in [End -> BOOLEAN]
         /\ \/ crypto' = crypto /\ got' = got /\ dead' = dead
            \/ /\ ~MacAgrees(e, r)
               /\ crypto'[e].read = Absorb(crypto[e].read, Maced(e, r), r.size)
               /\ got' = got
               /\ dead'[e]
            \/ /\ MacAgrees(e, r)
               /\ crypto'[e].read = Counted(Absorb(crypto[e].read, Maced(e, r), r.size))
               /\ got' = [got EXCEPT ![e] = Append(@, [content_type |-> r.content_type,
                                                       fragment |-> Maced(e, r).fragment])]
               /\ dead' = dead
<1> DEFINE read == crypto[e].read
<1>1. read \in DirectionState /\ r.size \in Nat /\ Maced(e, r) \in MacedData
  BY MacedIsMacedData DEF TypeOK, Record
<1>2. /\ Absorb(read, Maced(e, r), r.size) \in DirectionState
      /\ Counted(Absorb(read, Maced(e, r), r.size)) \in DirectionState
  BY <1>1, AbsorbFacts
<1>3. CASE Short(e, r)
  BY <1>3 DEF Short, TypeOK
<1>4. CASE BadMac(e, r)
  BY <1>2, <1>4 DEF BadMac, TypeOK
<1>5. CASE Accepted(e, r)
  BY <1>2, <1>5 DEF Accepted, TypeOK
<1> QED
  BY <1>3, <1>4, <1>5 DEF unprotect

-----------------------------------------------------------------------------
(* Unprotecting preserves the invariant                                    *)

LEMMA ReadingPreserves ==
  ASSUME Inv, NEW e \in End, NEW i \in 1..Len(wire[e]), NEW r \in Damaged(wire[e][i]),
         unprotect(e, r), UNCHANGED <<wire, sent>>
  PROVE  /\ crypto' \in [End -> [write : DirectionState, read : DirectionState]]
         /\ got' \in [End -> Seq(Message)]
         /\ dead' \in [End -> BOOLEAN]
         /\ IInv'
<1> DEFINE f == Peer(e)
           read == crypto[e].read
           m == [content_type |-> r.content_type, fragment |-> Maced(e, r).fragment]
<1>1. f \in End /\ f # e /\ Peer(f) = e /\ \A g \in End : Peer(g) \in End
  BY PeerFacts
<1>2. r \in Record /\ wire[e][i] \in Record
  BY DamagedIsRecord DEF Inv, TypeOK
<1>3. /\ crypto' \in [End -> [write : DirectionState, read : DirectionState]]
      /\ \A g \in End : crypto'[g].write = crypto[g].write
      /\ \A g \in End : g # e => /\ crypto'[g].read = crypto[g].read
                                 /\ got'[g] = got[g]
                                 /\ dead'[g] = dead[g]
      /\ dead' \in [End -> BOOLEAN]
      /\ \/ crypto' = crypto /\ got' = got /\ dead' = dead
         \/ /\ ~MacAgrees(e, r)
            /\ crypto'[e].read = Absorb(read, Maced(e, r), r.size)
            /\ got' = got
            /\ dead'[e]
         \/ /\ MacAgrees(e, r)
            /\ crypto'[e].read = Counted(Absorb(read, Maced(e, r), r.size))
            /\ got' = [got EXCEPT ![e] = Append(@, m)]
            /\ dead' = dead
  BY <1>2, ReadingStep DEF Inv
<1>4. \A g \in End : /\ WritesWhatIsSent(g) => WritesWhatIsSent(g)'
                     /\ OffsetsFollow(g) => OffsetsFollow(g)'
                     /\ \A k : Offset(g, k)' = Offset(g, k)
  BY <1>3 DEF WritesWhatIsSent, OffsetsFollow, Offset
<1>5. \A g \in End \ {e} : ReadsWhatIsGot(g) => ReadsWhatIsGot(g)'
  <2> SUFFICES ASSUME NEW g \in End \ {e}, ReadsWhatIsGot(g)
               PROVE  ReadsWhatIsGot(g)'
    OBVIOUS
  <2>1. /\ crypto'[g].read = crypto[g].read /\ got'[g] = got[g] /\ dead'[g] = dead[g]
        /\ crypto'[Peer(g)].write = crypto[Peer(g)].write
    BY <1>1, <1>3
  <2>2. Offset(Peer(g), Len(got[g]))' = Offset(Peer(g), Len(got[g]))
    BY <1>1, <1>4, <2>1
  <2> QED
    BY <2>1, <2>2 DEF ReadsWhatIsGot
<1>6. SUFFICES /\ got' \in [End -> Seq(Message)]
               /\ AcceptedInOrder'
               /\ ReadsWhatIsGot(e)'
  BY <1>3, <1>4, <1>5 DEF Inv, IInv
<1>7. /\ read \in DirectionState
      /\ Maced(e, r) \in MacedData
      /\ r.size \in Nat
      /\ got \in [End -> Seq(Message)]
      /\ Len(got[e]) \in Nat
      /\ crypto[f].write.imit \in Seq(MacedData)
  <2>1. TypeOK
    BY DEF Inv
  <2>2. Maced(e, r) \in MacedData
    BY <1>2, <2>1, MacedIsMacedData
  <2>3. got \in [End -> Seq(Message)]
    BY <2>1 DEF TypeOK
  <2>4. r.size \in Nat
    BY <1>2 DEF Record
  <2> QED
    BY <1>1, <2>1, <2>2, <2>3, <2>4, TypeFacts
<1>12. /\ read.imit \in Seq(MacedData)
       /\ Append(read.imit, Maced(e, r)) \in Seq(MacedData)
       /\ Len(Append(read.imit, Maced(e, r))) = Len(read.imit) + 1
       /\ Absorb(read, Maced(e, r), r.size).imit = Append(read.imit, Maced(e, r))
       /\ Absorb(read, Maced(e, r), r.size).seq_num = read.seq_num
       /\ Counted(Absorb(read, Maced(e, r), r.size)).cnt = read.cnt + r.size
       /\ Counted(Absorb(read, Maced(e, r), r.size)).imit = Append(read.imit, Maced(e, r))
       /\ Counted(Absorb(read, Maced(e, r), r.size)).seq_num = read.seq_num + 1
  <2>1. read.imit \in Seq(MacedData)
    BY <1>7 DEF DirectionState
  <2>2. /\ Append(read.imit, Maced(e, r)) \in Seq(MacedData)
        /\ Len(Append(read.imit, Maced(e, r))) = Len(read.imit) + 1
    BY <1>7, <2>1, AppendFacts
  <2>3. /\ Absorb(read, Maced(e, r), r.size).imit = Append(read.imit, Maced(e, r))
        /\ Absorb(read, Maced(e, r), r.size).seq_num = read.seq_num
        /\ Counted(Absorb(read, Maced(e, r), r.size)).cnt = read.cnt + r.size
        /\ Counted(Absorb(read, Maced(e, r), r.size)).imit = Append(read.imit, Maced(e, r))
        /\ Counted(Absorb(read, Maced(e, r), r.size)).seq_num = read.seq_num + 1
    <3> HIDE DEF read
    <3> QED
      BY <1>7, AbsorbFacts
  <2> QED
    BY <2>1, <2>2, <2>3
<1>8. /\ ReadsWhatIsGot(e)
      /\ AcceptedInOrder
  BY DEF Inv, IInv
<1>9. CASE crypto' = crypto /\ got' = got /\ dead' = dead
  BY <1>1, <1>4, <1>7, <1>8, <1>9 DEF ReadsWhatIsGot, AcceptedInOrder
<1>10. CASE /\ ~MacAgrees(e, r)
            /\ crypto'[e].read = Absorb(read, Maced(e, r), r.size)
            /\ got' = got
            /\ dead'[e]
  <2>1. /\ crypto'[e].read.seq_num = read.seq_num
        /\ Len(crypto'[e].read.imit) = Len(read.imit) + 1
        /\ Len(read.imit) \in Nat
    BY <1>10, <1>12
  <2>2. ReadsWhatIsGot(e)'
    BY <1>7, <1>8, <1>10, <2>1 DEF ReadsWhatIsGot
  <2> QED
    BY <1>7, <1>8, <1>10, <2>2 DEF AcceptedInOrder
<1>11. CASE /\ MacAgrees(e, r)
            /\ crypto'[e].read = Counted(Absorb(read, Maced(e, r), r.size))
            /\ got' = [got EXCEPT ![e] = Append(@, m)]
            /\ dead' = dead
  <2>1. /\ ~dead[e]
        /\ i = Len(got[e]) + 1
        /\ i <= Len(sent[f])
        /\ r.content_type = sent[f][i].content_type
        /\ Maced(e, r).fragment = sent[f][i].fragment
        /\ Maced(e, r) = crypto[f].write.imit[i]
        /\ r.at = wire[e][i].at
        /\ r.size = wire[e][i].size
    BY <1>11, AgreementMeansNext
  <2>2. sent[f][i] \in Message
    BY <1>1, <1>7, <2>1 DEF Inv, TypeOK
  <2>3. m = sent[f][i]
    BY <2>1, <2>2 DEF Message
  <2>4. /\ got' \in [End -> Seq(Message)]
        /\ got'[e] = Append(got[e], m)
        /\ Len(got'[e]) = Len(got[e]) + 1
        /\ \A j \in 1..Len(got[e]) : got'[e][j] = got[e][j]
        /\ got'[e][i] = m
    BY <1>7, <1>11, <2>1, <2>2, <2>3, AppendFacts
  <2>5. AcceptedInOrder'
    <3>1. Len(got'[e]) = i /\ Len(got'[e]) <= Len(sent[f])
      BY <2>1, <2>4
    <3>2. \A j \in 1..Len(got[e]) : got[e][j] = sent[f][j]
      BY <1>8 DEF AcceptedInOrder
    <3>3. ASSUME NEW j \in 1..Len(got'[e])
          PROVE  got'[e][j] = sent[f][j]
      <4>1. j \in 1..Len(got[e]) \/ j = i
        BY <1>7, <2>1, <3>1
      <4> HIDE DEF m
      <4> QED
        BY <2>3, <2>4, <3>2, <4>1
    <3> QED
      BY <1>3, <1>8, <3>1, <3>3 DEF AcceptedInOrder
  <2>6. /\ crypto'[e].read.seq_num = read.seq_num + 1
        /\ crypto'[e].read.imit = Append(read.imit, Maced(e, r))
        /\ crypto'[e].read.cnt = read.cnt + r.size
    BY <1>11, <1>12
  <2>7. /\ Len(read.imit) = Len(got[e])
        /\ Len(crypto'[e].read.imit) = i
        /\ \A j \in 1..Len(read.imit) : crypto'[e].read.imit[j] = read.imit[j]
        /\ crypto'[e].read.imit[i] = Maced(e, r)
    <3>1. Len(read.imit) = Len(got[e])
      BY <1>8, <2>1 DEF ReadsWhatIsGot
    <3>2. /\ Len(Append(read.imit, Maced(e, r))) = Len(read.imit) + 1
          /\ \A j \in 1..Len(read.imit) : Append(read.imit, Maced(e, r))[j] = read.imit[j]
          /\ Append(read.imit, Maced(e, r))[Len(read.imit) + 1] = Maced(e, r)
      BY <1>7, <1>12, AppendFacts
    <3> QED
      BY <2>1, <2>6, <3>1, <3>2
  <2>8. \A j \in 1..i : crypto'[e].read.imit[j] = crypto[f].write.imit[j]
    <3>1. \A j \in 1..Len(got[e]) : read.imit[j] = crypto[f].write.imit[j]
      BY <1>8, <2>1, <2>7 DEF ReadsWhatIsGot
    <3>2. \A j \in 1..i : j \in 1..Len(got[e]) \/ j = i
      BY <1>7, <2>1
    <3> QED
      BY <2>1, <2>7, <3>1, <3>2
  <2>9. crypto'[e].read.cnt = Offset(f, i)
    <3>1. read.cnt = wire[e][i].at
      BY <1>1, <1>7, <1>8, <2>1 DEF ReadsWhatIsGot, Offset
    <3>2. Offset(f, i) = wire[e][i].at + wire[e][i].size
      BY <1>1 DEF Inv, IInv, OffsetsFollow
    <3> QED
      BY <2>1, <2>6, <3>1, <3>2
  <2>10. ReadsWhatIsGot(e)'
    <3>1. /\ crypto'[e].read.seq_num = Len(got'[e])
          /\ Len(crypto'[e].read.imit) = Len(got'[e])
          /\ ~dead'[e]
      BY <1>7, <1>8, <1>11, <2>1, <2>4, <2>6, <2>7 DEF ReadsWhatIsGot
    <3>2. \A j \in 1..Len(crypto'[e].read.imit) :
             crypto'[e].read.imit[j] = crypto'[f].write.imit[j]
      BY <1>1, <1>3, <2>7, <2>8
    <3>3. crypto'[e].read.cnt = Offset(f, Len(got[e]))'
      <4>1. Offset(f, Len(got[e]))' = Offset(f, i)'
        BY <2>1, <2>4
      <4> QED
        BY <1>1, <1>4, <2>9, <4>1
    <3> QED
      BY <3>1, <3>2, <3>3 DEF ReadsWhatIsGot
  <2> QED
    BY <2>4, <2>5, <2>10
<1> QED
  BY <1>3, <1>9, <1>10, <1>11

-----------------------------------------------------------------------------
(* Protecting preserves the invariant                                      *)

LEMMA SendingPreserves ==
  ASSUME Inv, NEW e \in End, NEW t \in ContentType, NEW h \in Fragment, protect(e, t, h),
         sent' = [sent EXCEPT ![e] = Append(@, [content_type |-> t, fragment |-> h])],
         UNCHANGED <<arrived, faults, got, dead>>
  PROVE  Inv'
<1> DEFINE f == Peer(e)
           write == crypto[e].write
           n == Len(sent[e])
           m == maced_data(write.seq_num, t, h)
           r == Protected(e, t, h)
           d == Counted(Absorb(write, m, Size[h] + IMIT_TAG_LEN))
<1>1. /\ f \in End /\ f # e /\ Peer(f) = e
      /\ \A g \in End : Peer(g) \in End /\ (g # e => Peer(g) = e)
  BY PeerFacts
<1>2. TypeOK /\ IInv
  BY DEF Inv
<1>3. /\ write \in DirectionState
      /\ write.imit \in Seq(MacedData)
      /\ write.seq_num \in Nat /\ write.cnt \in Nat
      /\ sent[e] \in Seq(Message)
      /\ wire[f] \in Seq(Record)
      /\ n \in Nat
  BY <1>1, <1>2, TypeFacts DEF DirectionState
<1>4. Size[h] + IMIT_TAG_LEN \in Nat
  BY SizeAssumption
<1>5. m \in MacedData
  BY <1>3, MacedDataBinds
<1>6. /\ Append(write.imit, m) \in Seq(MacedData)
      /\ Len(Append(write.imit, m)) = Len(write.imit) + 1
      /\ \A j \in 1..Len(write.imit) : Append(write.imit, m)[j] = write.imit[j]
      /\ Append(write.imit, m)[Len(write.imit) + 1] = m
  <2> HIDE DEF m, write
  <2> QED
    BY <1>3, <1>5, AppendFacts
<1>7. /\ r \in Record
      /\ r.at = write.cnt
      /\ r.size = Size[h] + IMIT_TAG_LEN
      /\ r.tag = Append(write.imit, m)
  BY <1>3, <1>4, <1>6 DEF Protected, Record
<1>8. /\ d \in DirectionState
      /\ d.cnt = write.cnt + r.size
      /\ d.imit = Append(write.imit, m)
      /\ d.seq_num = write.seq_num + 1
  <2>1. /\ d \in DirectionState
        /\ d.cnt = write.cnt + (Size[h] + IMIT_TAG_LEN)
        /\ d.imit = Append(write.imit, m)
        /\ d.seq_num = write.seq_num + 1
    <3> HIDE DEF write, m
    <3> QED
      BY <1>3, <1>4, <1>5, AbsorbFacts
  <2> HIDE DEF d, r
  <2> QED
    BY <1>7, <2>1
<1>9. /\ crypto' \in [End -> [write : DirectionState, read : DirectionState]]
      /\ crypto'[e].write = d
      /\ \A g \in End : crypto'[g].read = crypto[g].read
      /\ \A g \in End : g # e => crypto'[g].write = crypto[g].write
  <2>1. crypto' = [crypto EXCEPT ![e].write = d]
    BY DEF protect
  <2> HIDE DEF d
  <2> QED
    BY <1>2, <1>8, <2>1 DEF TypeOK
<1>10. /\ sent' \in [End -> Seq(Message)]
       /\ Len(sent'[e]) = n + 1
       /\ \A j \in 1..n : sent'[e][j] = sent[e][j]
       /\ sent'[e][n + 1] = [content_type |-> t, fragment |-> h]
       /\ \A g \in End : g # e => sent'[g] = sent[g]
  <2>1. [content_type |-> t, fragment |-> h] \in Message
    BY DEF Message
  <2>2. /\ Append(sent[e], [content_type |-> t, fragment |-> h]) \in Seq(Message)
        /\ sent \in [End -> Seq(Message)]
    BY <1>2, <1>3, <2>1, AppendFacts DEF TypeOK
  <2> QED
    BY <1>3, <2>1, <2>2, AppendFacts
<1>11. /\ wire' \in [End -> Seq(Record)]
       /\ Len(wire'[f]) = Len(wire[f]) + 1
       /\ \A j \in 1..Len(wire[f]) : wire'[f][j] = wire[f][j]
       /\ wire'[f][Len(wire[f]) + 1] = r
       /\ \A g \in End : g # f => wire'[g] = wire[g]
  <2>1. wire' = [wire EXCEPT ![f] = Append(@, r)]
    BY DEF protect
  <2>2. Append(wire[f], r) \in Seq(Record) /\ wire \in [End -> Seq(Record)]
    BY <1>2, <1>3, <1>7, AppendFacts DEF TypeOK
  <2> HIDE DEF r
  <2> QED
    BY <1>1, <1>3, <1>7, <2>1, <2>2, AppendFacts
<1>12. TypeOK'
  <2>1. \A g \in End : arrived'[g] \in 0..Len(wire'[g])
    <3>1. \A g \in End : Len(wire[g]) \in Nat /\ arrived[g] \in 0..Len(wire[g])
      BY <1>2 DEF TypeOK
    <3>2. \A g \in End : Len(wire'[g]) = Len(wire[g]) \/ Len(wire'[g]) = Len(wire[g]) + 1
      BY <1>11
    <3> QED
      BY <3>1, <3>2
  <2> QED
    BY <1>2, <1>9, <1>10, <1>11, <2>1 DEF TypeOK
<1>13. WritesWhatIsSent(e) /\ OffsetsFollow(e)
  BY <1>2 DEF IInv
<1>14. /\ Len(write.imit) = n /\ Len(wire[f]) = n /\ write.seq_num = n
       /\ m = maced_data(n, t, h)
       /\ n = Len(sent[e])
  BY <1>13 DEF WritesWhatIsSent
<1> HIDE DEF n, m, r, d
<1>21. /\ Len(wire'[f]) = n + 1
       /\ \A j \in 1..n : wire'[f][j] = wire[f][j]
       /\ wire'[f][n + 1] = r
       /\ \A j \in 1..(n + 1) : j \in 1..n \/ j = n + 1
       /\ \A j \in 1..n : crypto'[e].write.imit[j] = write.imit[j]
       /\ crypto'[e].write.imit[n + 1] = m
       /\ crypto'[e].write.imit = r.tag
       /\ Len(crypto'[e].write.imit) = n + 1
       /\ crypto'[e].write.seq_num = n + 1
  <2>1. /\ Len(wire'[f]) = n + 1
        /\ \A j \in 1..n : wire'[f][j] = wire[f][j]
        /\ wire'[f][n + 1] = r
    BY <1>11, <1>14
  <2>2. \A j \in 1..(n + 1) : j \in 1..n \/ j = n + 1
    BY <1>3
  <2>3. crypto'[e].write.imit = Append(write.imit, m) /\ crypto'[e].write.seq_num = n + 1
    BY <1>8, <1>9, <1>14
  <2>4. /\ \A j \in 1..n : Append(write.imit, m)[j] = write.imit[j]
        /\ Append(write.imit, m)[n + 1] = m
        /\ Len(Append(write.imit, m)) = n + 1
    BY <1>6, <1>14
  <2> QED
    BY <1>7, <2>1, <2>2, <2>3, <2>4
<1>15. WritesWhatIsSent(e)'
  <2>2. ASSUME NEW i \in 1..n
        PROVE  /\ crypto'[e].write.imit[i] =
                    maced_data(i - 1, sent'[e][i].content_type, sent'[e][i].fragment)
               /\ wire'[f][i].tag \in Seq(MacedData)
               /\ Len(wire'[f][i].tag) = i
               /\ \A j \in 1..i : wire'[f][i].tag[j] = crypto'[e].write.imit[j]
    <3>1. /\ write.imit[i] = maced_data(i - 1, sent[e][i].content_type, sent[e][i].fragment)
          /\ wire[f][i].tag \in Seq(MacedData)
          /\ Len(wire[f][i].tag) = i
          /\ \A j \in 1..i : wire[f][i].tag[j] = write.imit[j]
      BY <1>13, <1>14 DEF WritesWhatIsSent
    <3>2. \A j \in 1..i : j \in 1..n
      BY <1>3
    <3>3. /\ sent'[e][i] = sent[e][i]
          /\ wire'[f][i] = wire[f][i]
          /\ crypto'[e].write.imit[i] = write.imit[i]
          /\ \A j \in 1..i : crypto'[e].write.imit[j] = write.imit[j]
      BY <1>10, <1>21, <3>2
    <3> QED
      BY <3>1, <3>3
  <2>3. /\ crypto'[e].write.imit[n + 1] =
             maced_data((n + 1) - 1, sent'[e][n + 1].content_type, sent'[e][n + 1].fragment)
        /\ wire'[f][n + 1].tag \in Seq(MacedData)
        /\ Len(wire'[f][n + 1].tag) = n + 1
        /\ \A j \in 1..(n + 1) : wire'[f][n + 1].tag[j] = crypto'[e].write.imit[j]
    <3>1. (n + 1) - 1 = n
      BY <1>3
    <3>2. /\ sent'[e][n + 1].content_type = t
          /\ sent'[e][n + 1].fragment = h
      BY <1>10
    <3> QED
      BY <1>6, <1>7, <1>14, <1>21, <3>1, <3>2
  <2>4. \A i \in 1..(n + 1) :
          /\ crypto'[e].write.imit[i] =
               maced_data(i - 1, sent'[e][i].content_type, sent'[e][i].fragment)
          /\ wire'[f][i].tag \in Seq(MacedData)
          /\ Len(wire'[f][i].tag) = i
          /\ \A j \in 1..i : wire'[f][i].tag[j] = crypto'[e].write.imit[j]
    BY <1>21, <2>2, <2>3
  <2> QED
    BY <1>10, <1>21, <2>4 DEF WritesWhatIsSent
<1> DEFINE Off(k) == IF k < Len(wire'[f]) THEN wire'[f][k + 1].at ELSE crypto'[e].write.cnt
<1>16. /\ \A k : Offset(e, k)' = Off(k)
       /\ \A k \in 0..n : Off(k) = Offset(e, k)
       /\ Off(n + 1) = crypto'[e].write.cnt
       /\ Offset(e, n) = write.cnt
  <2>1. \A k : Offset(e, k)' = Off(k)
    BY DEF Offset
  <2>2. \A k \in 0..n : Off(k) = Offset(e, k)
    <3>1. ASSUME NEW k \in 0..n, k < n
          PROVE  Off(k) = wire[f][k + 1].at
      <4>1. k + 1 \in 1..n /\ k < n + 1
        BY <1>3, <3>1
      <4> QED
        BY <1>21, <4>1
    <3>2. ASSUME NEW k \in 0..n, k < n
          PROVE  Offset(e, k) = wire[f][k + 1].at
      BY <1>14, <3>2 DEF Offset
    <3>3. Off(n) = r.at
      BY <1>3, <1>21
    <3>4. Offset(e, n) = write.cnt
      BY <1>3, <1>14 DEF Offset
    <3>5. \A k \in 0..n : k < n \/ k = n
      BY <1>3
    <3> HIDE DEF Off
    <3> QED
      BY <1>7, <3>1, <3>2, <3>3, <3>4, <3>5
  <2>3. Off(n + 1) = crypto'[e].write.cnt
    BY <1>3, <1>21
  <2>4. Offset(e, n) = write.cnt
    BY <1>3, <1>14 DEF Offset
  <2> HIDE DEF Off
  <2> QED
    BY <2>1, <2>2, <2>3, <2>4
<1> HIDE DEF Off
<1>17. OffsetsFollow(e)'
  <2>1. /\ Offset(e, 0) = 0
        /\ \A i \in 1..n : Offset(e, i) = wire[f][i].at + wire[f][i].size
    BY <1>13, <1>14 DEF OffsetsFollow
  <2>2. Off(0) = 0
    BY <1>3, <1>16, <2>1
  <2>3. ASSUME NEW i \in 1..n
        PROVE  Off(i) = wire'[f][i].at + wire'[f][i].size
    <3>1. i \in 0..n
      BY <1>3
    <3>2. wire'[f][i] = wire[f][i]
      BY <1>21
    <3>3. Offset(e, i) = wire[f][i].at + wire[f][i].size
      BY <2>1
    <3> QED
      BY <1>16, <3>1, <3>2, <3>3
  <2>4. Off(n + 1) = wire'[f][n + 1].at + wire'[f][n + 1].size
    BY <1>7, <1>8, <1>9, <1>16, <1>21
  <2>5. \A i \in 1..Len(wire'[f]) : Off(i) = wire'[f][i].at + wire'[f][i].size
    BY <1>21, <2>3, <2>4
  <2> QED
    BY <1>16, <2>2, <2>5 DEF OffsetsFollow
<1>18. WritesWhatIsSent(f)' /\ OffsetsFollow(f)' /\ ReadsWhatIsGot(e)'
  <2>1. WritesWhatIsSent(f) /\ OffsetsFollow(f) /\ ReadsWhatIsGot(e)
    BY <1>1, <1>2 DEF IInv
  <2>2. /\ crypto'[f].write = crypto[f].write /\ wire'[e] = wire[e] /\ sent'[f] = sent[f]
        /\ crypto'[e].read = crypto[e].read /\ got'[e] = got[e] /\ dead'[e] = dead[e]
    BY <1>1, <1>9, <1>10, <1>11
  <2>3. \A k : Offset(f, k)' = Offset(f, k)
    BY <1>1, <2>2 DEF Offset
  <2> QED
    BY <1>1, <2>1, <2>2, <2>3 DEF WritesWhatIsSent, OffsetsFollow, ReadsWhatIsGot
<1>19. AcceptedInOrder'
  <2>1. \A g \in End : /\ Len(got[g]) <= Len(sent[Peer(g)])
                       /\ \A i \in 1..Len(got[g]) : got[g][i] = sent[Peer(g)][i]
                       /\ Len(got[g]) \in Nat
    BY <1>2, TypeFacts DEF IInv, AcceptedInOrder
  <2> QED
    BY <1>1, <1>3, <1>10, <2>1 DEF AcceptedInOrder
<1>20. ReadsWhatIsGot(f)'
  <2>1. ReadsWhatIsGot(f) /\ Len(got[f]) <= n /\ Len(got[f]) \in Nat
    BY <1>1, <1>2, <1>14, TypeFacts DEF IInv, AcceptedInOrder
  <2>2. crypto'[f].read = crypto[f].read
    BY <1>1, <1>9
  <2>3. \A j \in 1..n : crypto'[e].write.imit[j] = write.imit[j]
    BY <1>21
  <2>4. Offset(e, Len(got[f]))' = Offset(e, Len(got[f]))
    BY <1>3, <1>16, <2>1
  <2>5. Peer(f) = e /\ got'[f] = got[f] /\ dead'[f] = dead[f]
    BY <1>1
  <2>6. ASSUME ~dead[f], NEW i \in 1..Len(crypto[f].read.imit)
        PROVE  crypto[f].read.imit[i] = crypto'[e].write.imit[i]
    <3>1. /\ Len(crypto[f].read.imit) = Len(got[f])
          /\ crypto[f].read.imit[i] = write.imit[i]
      BY <2>1, <2>5, <2>6 DEF ReadsWhatIsGot
    <3>2. i \in 1..n
      BY <1>3, <2>1, <2>6, <3>1
    <3> QED
      BY <2>3, <3>1, <3>2
  <2>7. /\ crypto[f].read.seq_num = Len(got[f])
        /\ dead[f] => Len(crypto[f].read.imit) > Len(got[f])
        /\ ~dead[f] => Len(crypto[f].read.imit) = Len(got[f])
        /\ ~dead[f] => crypto[f].read.cnt = Offset(e, Len(got[f]))
    BY <2>1, <2>5 DEF ReadsWhatIsGot
  <2> QED
    BY <2>2, <2>4, <2>5, <2>6, <2>7 DEF ReadsWhatIsGot
<1> QED
  <2>1. \A g \in End : g = e \/ g = f
    BY PeerFacts
  <2> QED
    BY <1>12, <1>15, <1>17, <1>18, <1>19, <1>20, <2>1 DEF Inv, IInv

-----------------------------------------------------------------------------
(* The theorems                                                            *)

LEMMA InitEstablishes == Init => Inv
<1> SUFFICES ASSUME Init PROVE Inv
  OBVIOUS
<1>1. \A e \in End : Peer(e) \in End
  BY PeerFacts
<1>2. NewDirection \in DirectionState
  BY DEF NewDirection, DirectionState
<1>3. TypeOK
  BY <1>2, BoundAssumption DEF Init, TypeOK
<1>4. ASSUME NEW e \in End
      PROVE  /\ crypto[e].read = NewDirection /\ crypto[e].write = NewDirection
             /\ wire[Peer(e)] = <<>> /\ sent[e] = <<>> /\ got[e] = <<>> /\ sent[Peer(e)] = <<>>
             /\ ~dead[e]
             /\ Offset(e, 0) = 0
  BY <1>1 DEF Init, Offset, NewDirection
<1>5. AcceptedInOrder
  <2>1. ASSUME NEW e \in End
        PROVE  /\ Len(got[e]) <= Len(sent[Peer(e)])
               /\ \A i \in 1..Len(got[e]) : got[e][i] = sent[Peer(e)][i]
    <3>1. Len(got[e]) = 0 /\ Len(sent[Peer(e)]) = 0
      BY <1>4
    <3> QED
      BY <3>1
  <2> QED
    BY <2>1 DEF AcceptedInOrder
<1>6. ASSUME NEW e \in End
      PROVE  WritesWhatIsSent(e) /\ OffsetsFollow(e) /\ ReadsWhatIsGot(e)
  <2>1. Offset(Peer(e), 0) = 0
    BY <1>1, <1>4
  <2> QED
    BY <1>4, <2>1 DEF WritesWhatIsSent, OffsetsFollow, ReadsWhatIsGot, NewDirection
<1> QED
  BY <1>3, <1>5, <1>6 DEF Inv, IInv

\* Unprotecting leaves Inv, the position of the wire apart.
LEMMA ReceivingPreserves ==
  ASSUME Inv, NEW e \in End, NEW i \in 1..Len(wire[e]), NEW r \in Damaged(wire[e][i]),
         unprotect(e, r), UNCHANGED <<wire, sent>>,
         NEW n \in 0..Len(wire[e]), arrived' = [arrived EXCEPT ![e] = n],
         faults' \in 0..MaxFaults
  PROVE  Inv'
<1>1. /\ crypto' \in [End -> [write : DirectionState, read : DirectionState]]
      /\ got' \in [End -> Seq(Message)]
      /\ dead' \in [End -> BOOLEAN]
      /\ IInv'
  BY ReadingPreserves
<1>2. \A g \in End : arrived'[g] \in 0..Len(wire'[g])
  BY DEF Inv, TypeOK
<1> QED
  BY <1>1, <1>2 DEF Inv, TypeOK

LEMMA NextPreserves == Inv /\ [Next]_vars => Inv'
<1> SUFFICES ASSUME Inv, [Next]_vars PROVE Inv'
  OBVIOUS
<1>1. \A e \in End : Len(wire[e]) \in Nat /\ arrived[e] \in 0..Len(wire[e])
  BY DEF Inv, TypeOK
<1>2. ASSUME NEW e \in End, Send(e) PROVE Inv'
  <2>1. PICK t \in ContentType, h \in Fragment :
               /\ protect(e, t, h)
               /\ sent' = [sent EXCEPT ![e] = Append(@, [content_type |-> t, fragment |-> h])]
    BY <1>2 DEF Send
  <2> QED
    BY <1>2, <2>1, SendingPreserves DEF Send
<1>3. ASSUME NEW e \in End, Receive(e) PROVE Inv'
  <2> DEFINE i == arrived[e] + 1
  <2>1. i \in 1..Len(wire[e]) /\ i \in 0..Len(wire[e])
    BY <1>1, <1>3 DEF Receive
  <2>2. wire[e][i] \in Damaged(wire[e][i])
    BY DEF Damaged
  <2>3. /\ unprotect(e, wire[e][i])
        /\ UNCHANGED <<wire, sent>>
        /\ arrived' = [arrived EXCEPT ![e] = i]
        /\ faults' \in 0..MaxFaults
    BY <1>3 DEF Receive, Inv, TypeOK
  <2> QED
    BY <2>1, <2>2, <2>3, ReceivingPreserves
<1>4. ASSUME NEW e \in End, ReceiveFaulty(e) PROVE Inv'
  <2>1. PICK i \in 1..Len(wire[e]) :
               /\ \E r \in Damaged(wire[e][i]) : unprotect(e, r)
               /\ \E n \in {arrived[e], i} : arrived' = [arrived EXCEPT ![e] = n]
    BY <1>4 DEF ReceiveFaulty
  <2>2. PICK r \in Damaged(wire[e][i]) : unprotect(e, r)
    BY <2>1
  <2>3. PICK n \in {arrived[e], i} : arrived' = [arrived EXCEPT ![e] = n]
    BY <2>1
  <2>4. n \in 0..Len(wire[e])
    BY <1>1, <2>3
  <2>5. faults' \in 0..MaxFaults /\ UNCHANGED <<wire, sent>>
    BY <1>4, BoundAssumption DEF ReceiveFaulty, Inv, TypeOK
  <2> QED
    BY <2>2, <2>3, <2>4, <2>5, ReceivingPreserves
<1>5. CASE UNCHANGED vars
  <2>1. TypeOK'
    BY <1>5 DEF Inv, TypeOK, vars
  <2>2. AcceptedInOrder'
    BY <1>5 DEF Inv, IInv, AcceptedInOrder, vars
  <2>3. ASSUME NEW e \in End
        PROVE  WritesWhatIsSent(e)' /\ OffsetsFollow(e)' /\ ReadsWhatIsGot(e)'
    <3>1. WritesWhatIsSent(e) /\ OffsetsFollow(e) /\ ReadsWhatIsGot(e)
      BY DEF Inv, IInv
    <3> QED
      BY <1>5, <3>1 DEF WritesWhatIsSent, OffsetsFollow, ReadsWhatIsGot, Offset, vars
  <2> QED
    BY <2>1, <2>2, <2>3 DEF Inv, IInv
<1> QED
  BY <1>2, <1>3, <1>4, <1>5 DEF Next

LEMMA Invariance == Spec => []Inv
BY InitEstablishes, NextPreserves, PTL DEF Spec

\* The type invariant: in particular, unprotect never hands out noise.
THEOREM TypeCorrect == Spec => []TypeOK
<1>1. Inv => TypeOK
  BY DEF Inv
<1> QED
  BY <1>1, Invariance, PTL

\* What unprotect accepts is always a prefix of what the peer protected.
THEOREM AcceptedInOrderAlways == Spec => []AcceptedInOrder
<1>1. Inv => AcceptedInOrder
  BY DEF Inv, IInv
<1> QED
  BY <1>1, Invariance, PTL

\* An end that has refused nothing but short records and has caught up is in
\* the state its peer writes with.
THEOREM InStepAlways == Spec => []InStep
<1>1. ASSUME Inv, NEW e \in End, ~dead[e], Len(got[e]) = Len(sent[Peer(e)])
      PROVE  crypto[e].read = crypto[Peer(e)].write
  <2> DEFINE f == Peer(e)
             read == crypto[e].read
             write == crypto[f].write
  <2>1. f \in End /\ Peer(f) = e
    BY PeerFacts
  <2>2. /\ read \in DirectionState /\ write \in DirectionState
        /\ read.imit \in Seq(MacedData) /\ write.imit \in Seq(MacedData)
    BY <1>1, <2>1, TypeFacts DEF Inv
  <2>3. WritesWhatIsSent(f) /\ ReadsWhatIsGot(e)
    BY <1>1, <2>1 DEF Inv, IInv
  <2>4. read.seq_num = write.seq_num
    BY <1>1, <2>3 DEF WritesWhatIsSent, ReadsWhatIsGot
  <2>5. /\ Len(read.imit) = Len(write.imit)
        /\ \A i \in 1..Len(read.imit) : read.imit[i] = write.imit[i]
    BY <1>1, <2>3 DEF WritesWhatIsSent, ReadsWhatIsGot
  <2>6. read.imit = write.imit
    BY <2>2, <2>5, SeqEqual
  <2>7. read.cnt = write.cnt
    BY <1>1, <2>1, <2>3 DEF WritesWhatIsSent, ReadsWhatIsGot, Offset
  <2> QED
    BY <2>2, <2>4, <2>6, <2>7 DEF DirectionState
<1>2. Inv => InStep
  BY <1>1 DEF InStep
<1> QED
  BY <1>2, Invariance, PTL

-----------------------------------------------------------------------------
(* Refinement                                                              *)

LEMMA UnprotectRefines ==
  ASSUME Inv, Inv', NEW e \in End, NEW i \in 1..Len(wire[e]),
         NEW r \in Damaged(wire[e][i]), unprotect(e, r), UNCHANGED <<wire, sent>>
  PROVE  [Channel!Next]_(Channel!vars)
<1> DEFINE f == Peer(e)
<1>1. f \in End /\ f # e
  BY PeerFacts
<1>2. CASE Short(e, r)
  BY <1>2 DEF Short, Channel!vars
<1>3. CASE BadMac(e, r)
  <2>1. Channel!Fail(e)
    BY <1>3 DEF BadMac, Channel!Fail
  <2> QED
    BY <2>1 DEF Channel!Next
<1>4. CASE Accepted(e, r)
  <2> DEFINE m == [content_type |-> r.content_type, fragment |-> Maced(e, r).fragment]
  <2>1. /\ ~dead[e]
        /\ i = Len(got[e]) + 1
        /\ i <= Len(sent[f])
        /\ r.content_type = sent[f][i].content_type
        /\ Maced(e, r).fragment = sent[f][i].fragment
    BY <1>4, AgreementMeansNext DEF Accepted
  <2>2. sent[f] \in Seq(Message) /\ Len(sent[f]) \in Nat /\ Len(got[e]) \in Nat
    BY <1>1, TypeFacts DEF Inv
  <2>3. sent[f][i] \in Message
    BY <2>1, <2>2
  <2>4. m = sent[f][i]
    BY <2>1, <2>3 DEF Message
  <2>5. got' = [got EXCEPT ![e] = Append(@, m)] /\ UNCHANGED dead
    BY <1>4 DEF Accepted
  <2> HIDE DEF m
  <2>6. Len(got[e]) < Len(sent[f]) /\ m = sent[f][Len(got[e]) + 1]
    BY <2>1, <2>2, <2>4
  <2>7. Channel!Accept(e, f)
    BY <2>1, <2>5, <2>6 DEF Channel!Accept
  <2> QED
    BY <1>1, <2>7 DEF Channel!Next
<1> QED
  BY <1>2, <1>3, <1>4 DEF unprotect

LEMMA NextRefines == Inv /\ Inv' /\ [Next]_vars => [Channel!Next]_(Channel!vars)
<1> SUFFICES ASSUME Inv, Inv', [Next]_vars PROVE [Channel!Next]_(Channel!vars)
  OBVIOUS
<1>1. ASSUME NEW e \in End, Send(e) PROVE [Channel!Next]_(Channel!vars)
  <2>1. PICK t \in ContentType, h \in Fragment :
               sent' = [sent EXCEPT ![e] = Append(@, [content_type |-> t, fragment |-> h])]
    BY <1>1 DEF Send
  <2>2. [content_type |-> t, fragment |-> h] \in Message
    BY DEF Message
  <2>3. Channel!Send(e, [content_type |-> t, fragment |-> h])
    BY <1>1, <2>1 DEF Send, Channel!Send
  <2> QED
    BY <2>2, <2>3 DEF Channel!Next
<1>2. ASSUME NEW e \in End, Receive(e) PROVE [Channel!Next]_(Channel!vars)
  <2> DEFINE i == arrived[e] + 1
  <2>1. i \in 1..Len(wire[e])
    BY <1>2 DEF Receive, Inv, TypeOK
  <2>2. wire[e][i] \in Damaged(wire[e][i])
    BY DEF Damaged
  <2>3. unprotect(e, wire[e][i]) /\ UNCHANGED <<wire, sent>>
    BY <1>2 DEF Receive
  <2> QED
    BY <2>1, <2>2, <2>3, UnprotectRefines
<1>3. ASSUME NEW e \in End, ReceiveFaulty(e) PROVE [Channel!Next]_(Channel!vars)
  <2>1. PICK i \in 1..Len(wire[e]) : \E r \in Damaged(wire[e][i]) : unprotect(e, r)
    BY <1>3 DEF ReceiveFaulty
  <2>2. PICK r \in Damaged(wire[e][i]) : unprotect(e, r)
    BY <2>1
  <2>3. UNCHANGED <<wire, sent>>
    BY <1>3 DEF ReceiveFaulty
  <2> QED
    BY <2>2, <2>3, UnprotectRefines
<1>4. CASE UNCHANGED vars
  BY <1>4 DEF vars, Channel!vars
<1> QED
  BY <1>1, <1>2, <1>3, <1>4 DEF Next

\* The record layer implements the channel: every run of it, seen through what
\* was sent, accepted and failed, is a run of PrefixChannel.
THEOREM RefinesChannel == Spec => ImplementsChannel
<1>1. Init => Channel!Init
  BY DEF Init, Channel!Init
<1> QED
  BY <1>1, Invariance, NextRefines, PTL DEF Spec, ImplementsChannel, Channel!Spec
==============================================================================
