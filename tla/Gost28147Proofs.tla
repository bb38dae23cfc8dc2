--------------------------- MODULE Gost28147Proofs ---------------------------
(***************************************************************************)
(* Theorems about Gost28147, for every block length, every distance        *)
(* between meshings and any number of bytes and calls.                     *)
(*                                                                         *)
(* The properties speak of what has been used and absorbed.  That they go  *)
(* on to hold is a matter of the state from which the next byte is taken:  *)
(* the bytes since the last meshing must account, block by block, for the  *)
(* place of the next block (Counted), and what is buffered must be the     *)
(* bytes that come next (CntInv, ImitInv).                                 *)
(***************************************************************************)
EXTENDS Gost28147, TLAPS

-----------------------------------------------------------------------------
(* The inductive invariant                                                 *)

\* key and since, a key and the bytes since it was made, are those after n
\* blocks.
Counted(key, since, n) ==
  IF meshing THEN \E u \in 0..MeshBlocks : since = Block * u /\ key * MeshBlocks + u = n
  ELSE key = 0

CntTyped ==
  /\ cnt \in [key : Nat, blocks : Nat, since_mesh : Nat,
              buf : [len : {0, Block}, key : Nat, n : Nat], buf_pos : Nat]
  /\ used \in Seq([key : Nat, n : Nat, at : Nat])
  /\ cnt.buf_pos <= cnt.buf.len

CntInv ==
  /\ CntTyped
  /\ Counted(cnt.key, cnt.since_mesh, cnt.blocks)
  /\ cnt.buf.len = 0 => cnt.blocks = 0 /\ used = <<>>
  /\ cnt.buf.len = Block => /\ cnt.buf.n + 1 = cnt.blocks
                            /\ UnderKey(cnt.buf.key, cnt.buf.n)
                            /\ Block * cnt.buf.n + cnt.buf_pos = Len(used)
  /\ KeystreamByOffset

ImitTyped ==
  /\ imit \in [key : Nat, since_mesh : Nat, absorbed : Seq([key : Nat, bytes : Seq(Nat)]),
               tail : Seq(Nat), pc : {"idle", "tail", "blocks"}]
  /\ rest \in Seq(Nat) /\ fed \in Nat
  /\ Len(imit.tail) < Block

\* The bytes of s are those that come after the first n.
Follows(s, n) == \A j \in 1..Len(s) : s[j] = n + j

Taken == Block * Len(imit.absorbed)

AbsorbedInOrder ==
  \A i \in 1..Len(imit.absorbed) :
    /\ UnderKey(imit.absorbed[i].key, i - 1)
    /\ Len(imit.absorbed[i].bytes) = Block
    /\ Follows(imit.absorbed[i].bytes, Block * (i - 1))

ImitInv ==
  /\ ImitTyped
  /\ Counted(imit.key, imit.since_mesh, Len(imit.absorbed))
  /\ imit.pc = "idle" => rest = <<>>
  /\ imit.pc = "blocks" => imit.tail = <<>> \/ rest = <<>>
  /\ fed = Taken + Len(imit.tail) + Len(rest)
  /\ Follows(imit.tail, Taken)
  /\ Follows(rest, Taken + Len(imit.tail))
  /\ AbsorbedInOrder

IInv == meshing \in BOOLEAN /\ CntInv /\ ImitInv

-----------------------------------------------------------------------------
(* Arithmetic                                                              *)

LEMMA Cancel == ASSUME NEW b \in Nat \ {0}, NEW u \in Nat, NEW v \in Nat, b * u = b * v
                PROVE  u = v
<1>1. CASE u < v
  <2>1. b * u + b <= b * v
    BY <1>1
  <2> QED  BY <2>1
<1>2. CASE v < u
  BY <1>2
<1> QED  BY <1>1, <1>2

\* A key and the bytes since it was made go on to be counted when another block
\* is made, under the key that this block has in one pass.
LEMMA NextCounted ==
  ASSUME NEW key \in Nat, NEW since \in Nat, NEW n \in Nat,
         meshing \in BOOLEAN, Counted(key, since, n),
         NEW newKey, NEW newSince,
         meshing /\ since = Block * MeshBlocks => newKey = key + 1 /\ newSince = Block,
         ~(meshing /\ since = Block * MeshBlocks) => newKey = key /\ newSince = since + Block
  PROVE  /\ newKey \in Nat /\ newSince \in Nat
         /\ Counted(newKey, newSince, n + 1)
         /\ UnderKey(newKey, n)
<1> USE BlockAssumption, MeshAssumption
<1>1. newKey \in Nat /\ newSince \in Nat
  OBVIOUS
<1>2. CASE ~meshing
  BY <1>2, <1>1 DEF Counted, UnderKey
<1>3. CASE meshing
  <2>1. PICK u \in 0..MeshBlocks : since = Block * u /\ key * MeshBlocks + u = n
    BY <1>3 DEF Counted
  <2>2. CASE u = MeshBlocks
    <3>0. since = Block * MeshBlocks
      BY <2>1, <2>2
    <3>1. newKey = key + 1 /\ newSince = Block
      BY <1>3, <3>0
    <3>2. newKey * MeshBlocks = n
      BY <2>1, <2>2, <3>1
    <3>3. newSince = Block * 1 /\ newKey * MeshBlocks + 1 = n + 1 /\ 1 \in 0..MeshBlocks
      BY <3>1, <3>2
    <3>4. (newKey + 1) * MeshBlocks = newKey * MeshBlocks + MeshBlocks
      BY <1>1
    <3> QED  BY <1>1, <1>3, <3>2, <3>3, <3>4 DEF Counted, UnderKey
  <2>3. CASE u # MeshBlocks
    <3>1. since # Block * MeshBlocks
      BY <2>1, <2>3, Cancel
    <3>2. newKey = key /\ newSince = since + Block
      BY <3>1
    <3>3. newSince = Block * (u + 1)
      BY <2>1, <3>2
    <3>4. u + 1 \in 0..MeshBlocks /\ newKey * MeshBlocks + (u + 1) = n + 1
      BY <2>1, <2>3, <3>2
    <3>5. (newKey + 1) * MeshBlocks = newKey * MeshBlocks + MeshBlocks
      BY <1>1
    <3>6. newKey * MeshBlocks <= n /\ n < (newKey + 1) * MeshBlocks
      BY <2>1, <2>3, <3>2, <3>5
    <3> QED  BY <1>1, <1>3, <3>3, <3>4, <3>6 DEF Counted, UnderKey
  <2> QED  BY <2>2, <2>3
<1> QED  BY <1>2, <1>3

-----------------------------------------------------------------------------
(* The keystream                                                           *)

LEMMA ApplyStep == IInv /\ apply => CntInv'
<1> SUFFICES ASSUME IInv, apply PROVE CntInv'
  OBVIOUS
<1> USE BlockAssumption, MeshAssumption
<1> DEFINE c == IF cnt.buf_pos = cnt.buf.len THEN next_block(cnt) ELSE cnt
<1>1. CntInv /\ CntTyped /\ meshing \in BOOLEAN /\ meshing' = meshing
  BY DEF IInv, CntInv, apply
<1>2. /\ used' = Append(used, [key |-> c.buf.key, n |-> c.buf.n, at |-> c.buf_pos])
      /\ cnt' = [key |-> c.key, blocks |-> c.blocks, since_mesh |-> c.since_mesh,
                 buf |-> c.buf, buf_pos |-> c.buf_pos + 1]
  BY DEF apply
<1>3. /\ c \in [key : Nat, blocks : Nat, since_mesh : Nat,
                buf : [len : {0, Block}, key : Nat, n : Nat], buf_pos : Nat]
      /\ c.buf.len = Block /\ c.buf_pos < Block
      /\ Counted(c.key, c.since_mesh, c.blocks)
      /\ c.buf.n + 1 = c.blocks
      /\ UnderKey(c.buf.key, c.buf.n)
      /\ Block * c.buf.n + c.buf_pos = Len(used)
  <2>1. CASE cnt.buf_pos = cnt.buf.len
    <3>1. c = next_block(cnt)
      BY <2>1
    <3> DEFINE key == IF MeshDue(cnt) THEN cnt.key + 1 ELSE cnt.key
               since == (IF MeshDue(cnt) THEN 0 ELSE cnt.since_mesh) + Block
    <3>3. c = [key |-> key, blocks |-> cnt.blocks + 1, since_mesh |-> since,
               buf |-> [len |-> Block, key |-> key, n |-> cnt.blocks], buf_pos |-> 0]
      BY <3>1 DEF next_block
    <3>4. /\ key \in Nat /\ since \in Nat
          /\ Counted(key, since, cnt.blocks + 1)
          /\ UnderKey(key, cnt.blocks)
      <4>1. cnt.key \in Nat /\ cnt.since_mesh \in Nat /\ cnt.blocks \in Nat
        BY <1>1 DEF CntTyped
      <4>2. /\ meshing /\ cnt.since_mesh = Block * MeshBlocks => key = cnt.key + 1 /\ since = Block
            /\ ~(meshing /\ cnt.since_mesh = Block * MeshBlocks) =>
                 key = cnt.key /\ since = cnt.since_mesh + Block
        BY <4>1 DEF MeshDue
      <4>3. Counted(cnt.key, cnt.since_mesh, cnt.blocks)
        BY <1>1 DEF CntInv
      <4> HIDE DEF c, key, since
      <4> QED  BY <1>1, <4>1, <4>2, <4>3, NextCounted
    <3>5. Block * cnt.blocks = Len(used)
      <4>1. CASE cnt.buf.len = 0
        BY <1>1, <4>1 DEF CntInv
      <4>2. CASE cnt.buf.len = Block
        <5>1. cnt.buf.n \in Nat /\ cnt.blocks = cnt.buf.n + 1 /\ Block * cnt.buf.n + Block = Len(used)
          BY <1>1, <2>1, <4>2 DEF CntInv, CntTyped
        <5>2. Block * (cnt.buf.n + 1) = Block * cnt.buf.n + Block
          BY <5>1
        <5> QED  BY <5>1, <5>2
      <4> QED  BY <1>1, <4>1, <4>2 DEF CntTyped
    <3>6. cnt.blocks \in Nat
      BY <1>1 DEF CntTyped
    <3> HIDE DEF c, key, since
    <3>7. c.buf = [len |-> Block, key |-> key, n |-> cnt.blocks]
      BY <3>3
    <3> QED  BY <3>3, <3>4, <3>5, <3>6, <3>7
  <2>2. CASE cnt.buf_pos # cnt.buf.len
    <3>1. c = cnt
      BY <2>2
    <3>2. cnt.buf.len = Block /\ cnt.buf_pos < Block
      BY <1>1, <2>2 DEF CntTyped
    <3> HIDE DEF c
    <3> QED  BY <1>1, <3>1, <3>2 DEF CntInv, CntTyped
  <2> QED  BY <2>1, <2>2
<1> HIDE DEF c
<1> DEFINE entry == [key |-> c.buf.key, n |-> c.buf.n, at |-> c.buf_pos]
<1>4. entry \in [key : Nat, n : Nat, at : Nat] /\ used \in Seq([key : Nat, n : Nat, at : Nat])
  BY <1>1, <1>3 DEF CntTyped
<1>5. used' = Append(used, entry)
  BY <1>2
<1>6. /\ Len(used') = Len(used) + 1
      /\ \A i \in 1..Len(used) : used'[i] = used[i]
      /\ used'[Len(used) + 1] = entry
      /\ used' \in Seq([key : Nat, n : Nat, at : Nat])
  <2> HIDE DEF entry
  <2> QED  BY <1>4, <1>5
<1>7. CntTyped'
  BY <1>2, <1>3, <1>6 DEF CntTyped
<1>8. /\ cnt'.key = c.key /\ cnt'.since_mesh = c.since_mesh /\ cnt'.blocks = c.blocks
      /\ cnt'.buf = c.buf /\ cnt'.buf_pos = c.buf_pos + 1
  BY <1>2
<1>9. Counted(cnt.key, cnt.since_mesh, cnt.blocks)'
  BY <1>1, <1>3, <1>8 DEF Counted
<1>10. Block * cnt'.buf.n + cnt'.buf_pos = Len(used')
  <2>1. c.buf.n \in Nat /\ c.buf_pos \in Nat /\ Block * c.buf.n \in Nat
    BY <1>3
  <2>2. cnt'.buf.n = c.buf.n /\ cnt'.buf_pos = c.buf_pos + 1
    BY <1>8
  <2>3. Block * c.buf.n + (c.buf_pos + 1) = Len(used) + 1
    BY <1>3, <2>1
  <2>4. Block * cnt'.buf.n + cnt'.buf_pos = Block * c.buf.n + (c.buf_pos + 1)
    BY <2>2
  <2> QED  BY <1>6, <2>3, <2>4
<1>11. KeystreamByOffset'
  <2>1. DOMAIN used = 1..Len(used) /\ DOMAIN used' = 1..(Len(used) + 1) /\ Len(used) \in Nat
    BY <1>4, <1>6
  <2>2. \A i \in 1..Len(used) : used'[i] = used[i] /\ i \in DOMAIN used
    BY <1>6, <2>1
  <2> SUFFICES ASSUME NEW i \in 1..(Len(used) + 1)
               PROVE  (/\ used[i].at < Block
                       /\ Block * used[i].n + used[i].at = i - 1
                       /\ UnderKey(used[i].key, used[i].n))'
    BY <2>1 DEF KeystreamByOffset
  <2>3. CASE i \in 1..Len(used)
    <3>1. /\ used[i].at < Block /\ Block * used[i].n + used[i].at = i - 1
          /\ UnderKey(used[i].key, used[i].n)
      BY <1>1, <2>2, <2>3 DEF CntInv, KeystreamByOffset
    <3>2. used'[i] = used[i]
      BY <2>2, <2>3
    <3> QED  BY <1>1, <3>1, <3>2 DEF UnderKey
  <2>4. CASE i = Len(used) + 1
    <3>1. used'[i] = entry
      BY <1>6, <2>4
    <3>2. used'[i].at = c.buf_pos /\ used'[i].n = c.buf.n /\ used'[i].key = c.buf.key
      BY <3>1
    <3>3. i - 1 = Len(used)
      BY <2>1, <2>4
    <3> HIDE DEF entry
    <3>4. used'[i].at < Block /\ Block * used'[i].n + used'[i].at = i - 1
      BY <1>3, <3>2, <3>3
    <3>5. UnderKey(used[i].key, used[i].n)'
      BY <1>1, <1>3, <3>2 DEF UnderKey
    <3> QED  BY <3>4, <3>5
  <2> QED  BY <2>3, <2>4
<1> QED
  <2>1. cnt'.buf.len # 0 /\ cnt'.buf.n + 1 = cnt'.blocks
    BY <1>3, <1>8
  <2>2. UnderKey(cnt.buf.key, cnt.buf.n)'
    BY <1>1, <1>3, <1>8 DEF UnderKey
  <2> QED  BY <1>7, <1>9, <1>10, <1>11, <2>1, <2>2 DEF CntInv

LEMMA CntUnchanged == ASSUME CntInv, UNCHANGED <<meshing, cnt, used>> PROVE CntInv'
BY DEF CntInv, CntTyped, Counted, UnderKey, KeystreamByOffset

-----------------------------------------------------------------------------
(* The MAC                                                                 *)

LEMMA FollowsConcat ==
  ASSUME NEW s \in Seq(Nat), NEW t \in Seq(Nat), NEW n \in Nat,
         Follows(s, n), Follows(t, n + Len(s))
  PROVE  s \o t \in Seq(Nat) /\ Len(s \o t) = Len(s) + Len(t) /\ Follows(s \o t, n)
<1>1. s \o t \in Seq(Nat) /\ Len(s \o t) = Len(s) + Len(t)
  OBVIOUS
<1>2. ASSUME NEW j \in 1..Len(s \o t) PROVE (s \o t)[j] = n + j
  <2>1. CASE j <= Len(s)
    BY <1>1, <2>1 DEF Follows
  <2>2. CASE j > Len(s)
    <3>1. j - Len(s) \in 1..Len(t) /\ (s \o t)[j] = t[j - Len(s)]
      BY <1>1, <2>2
    <3> QED  BY <1>1, <3>1 DEF Follows
  <2> QED  BY <1>1, <2>1, <2>2
<1> QED  BY <1>1, <1>2 DEF Follows

\* The first k bytes of s and those after them.
LEMMA FollowsSplit ==
  ASSUME NEW s \in Seq(Nat), NEW n \in Nat, Follows(s, n), NEW k \in 0..Len(s)
  PROVE  /\ SubSeq(s, 1, k) \in Seq(Nat) /\ Len(SubSeq(s, 1, k)) = k
         /\ Follows(SubSeq(s, 1, k), n)
         /\ SubSeq(s, k + 1, Len(s)) \in Seq(Nat)
         /\ Len(SubSeq(s, k + 1, Len(s))) = Len(s) - k
         /\ Follows(SubSeq(s, k + 1, Len(s)), n + k)
<1>1. SubSeq(s, 1, k) \in Seq(Nat) /\ Len(SubSeq(s, 1, k)) = k
  OBVIOUS
<1>2. \A j \in 1..k : SubSeq(s, 1, k)[j] = s[j]
  OBVIOUS
<1>3. Len(SubSeq(s, k + 1, Len(s))) = Len(s) - k /\ SubSeq(s, k + 1, Len(s)) \in Seq(Nat)
  OBVIOUS
<1>4. \A j \in 1..(Len(s) - k) : SubSeq(s, k + 1, Len(s))[j] = s[k + j]
  OBVIOUS
<1>5. Follows(SubSeq(s, 1, k), n)
  BY <1>1, <1>2 DEF Follows
<1>6. Follows(SubSeq(s, k + 1, Len(s)), n + k)
  BY <1>3, <1>4 DEF Follows
<1> QED  BY <1>1, <1>3, <1>5, <1>6

\* What holds of a MAC state after one more block that follows.
LEMMA AbsorbStep ==
  ASSUME ImitInv, meshing \in BOOLEAN, meshing' = meshing,
         NEW block \in Seq(Nat), Len(block) = Block, Follows(block, Taken),
         NEW tail \in Seq(Nat), imit' = absorb_block(imit, block, tail)
  PROVE  /\ imit' \in [key : Nat, since_mesh : Nat,
                       absorbed : Seq([key : Nat, bytes : Seq(Nat)]),
                       tail : Seq(Nat), pc : {"idle", "tail", "blocks"}]
         /\ Counted(imit.key, imit.since_mesh, Len(imit.absorbed))'
         /\ Taken' = Taken + Block /\ Taken \in Nat
         /\ AbsorbedInOrder'
         /\ imit'.tail = tail /\ imit'.pc = "blocks"
<1> USE BlockAssumption, MeshAssumption
<1> DEFINE key == IF MeshDue(imit) THEN imit.key + 1 ELSE imit.key
           since == (IF MeshDue(imit) THEN 0 ELSE imit.since_mesh) + Block
           entry == [key |-> key, bytes |-> block]
           n == Len(imit.absorbed)
<1>1. imit' = [key |-> key, since_mesh |-> since, absorbed |-> Append(imit.absorbed, entry),
               tail |-> tail, pc |-> "blocks"]
  BY DEF absorb_block
<1>2. /\ imit.key \in Nat /\ imit.since_mesh \in Nat /\ n \in Nat
      /\ imit.absorbed \in Seq([key : Nat, bytes : Seq(Nat)])
  BY DEF ImitInv, ImitTyped
<1>3. key \in Nat /\ since \in Nat /\ Counted(key, since, n + 1) /\ UnderKey(key, n)
  <2>1. /\ meshing /\ imit.since_mesh = Block * MeshBlocks => key = imit.key + 1 /\ since = Block
        /\ ~(meshing /\ imit.since_mesh = Block * MeshBlocks) =>
             key = imit.key /\ since = imit.since_mesh + Block
    BY <1>2 DEF MeshDue
  <2>2. Counted(imit.key, imit.since_mesh, n)
    BY DEF ImitInv
  <2> HIDE DEF key, since, n
  <2> QED  BY <1>2, <2>1, <2>2, NextCounted
<1> HIDE DEF key, since
<1>4. entry \in [key : Nat, bytes : Seq(Nat)] /\ entry.key = key /\ entry.bytes = block
  BY <1>3
<1> HIDE DEF entry
<1>5. imit'.absorbed = Append(imit.absorbed, entry)
  BY <1>1
<1>6. /\ imit'.absorbed \in Seq([key : Nat, bytes : Seq(Nat)]) /\ Len(imit'.absorbed) = n + 1
      /\ imit'.absorbed[n + 1] = entry
      /\ \A i \in 1..n : imit'.absorbed[i] = imit.absorbed[i]
  BY <1>2, <1>4, <1>5
<1>7. imit' \in [key : Nat, since_mesh : Nat,
                absorbed : Seq([key : Nat, bytes : Seq(Nat)]),
                tail : Seq(Nat), pc : {"idle", "tail", "blocks"}]
  BY <1>1, <1>3, <1>5, <1>6
<1>8. imit'.key = key /\ imit'.since_mesh = since /\ imit'.tail = tail /\ imit'.pc = "blocks"
  BY <1>1
<1>9. Counted(imit.key, imit.since_mesh, Len(imit.absorbed))'
  BY <1>3, <1>6, <1>8 DEF Counted
<1>10. Taken' = Taken + Block /\ Taken \in Nat
  <2>1. Block * (n + 1) = Block * n + Block /\ Block * n \in Nat
    BY <1>2
  <2> QED  BY <1>6, <2>1 DEF Taken
<1>11. AbsorbedInOrder'
  <2> SUFFICES ASSUME NEW i \in 1..(n + 1)
               PROVE  (/\ UnderKey(imit.absorbed[i].key, i - 1)
                       /\ Len(imit.absorbed[i].bytes) = Block
                       /\ Follows(imit.absorbed[i].bytes, Block * (i - 1)))'
    BY <1>6 DEF AbsorbedInOrder
  <2>1. CASE i \in 1..n
    <3>1. /\ UnderKey(imit.absorbed[i].key, i - 1)
          /\ Len(imit.absorbed[i].bytes) = Block
          /\ Follows(imit.absorbed[i].bytes, Block * (i - 1))
      BY <2>1 DEF ImitInv, AbsorbedInOrder
    <3>2. imit'.absorbed[i] = imit.absorbed[i]
      BY <1>6, <2>1
    <3> QED  BY <3>1, <3>2 DEF UnderKey
  <2>2. CASE i = n + 1
    <3>1. imit'.absorbed[i].key = key /\ imit'.absorbed[i].bytes = block /\ i - 1 = n
      BY <1>2, <1>4, <1>6, <2>2
    <3>2. Follows(block, Block * (i - 1))
      BY <3>1 DEF Taken
    <3>3. UnderKey(imit.absorbed[i].key, i - 1)'
      BY <1>3, <3>1 DEF UnderKey
    <3>4. Len(imit'.absorbed[i].bytes) = Block /\ Follows(imit'.absorbed[i].bytes, Block * (i - 1))
      BY <3>1, <3>2
    <3> QED  BY <3>3, <3>4
  <2>3. i \in 1..n \/ i = n + 1
    BY <1>2
  <2> QED  BY <2>1, <2>2, <2>3
<1> QED  BY <1>7, <1>8, <1>9, <1>10, <1>11

\* What the steps that absorb nothing leave as it is.
LEMMA NotAbsorbed ==
  ASSUME ImitInv, meshing' = meshing, imit'.key = imit.key,
         imit'.since_mesh = imit.since_mesh, imit'.absorbed = imit.absorbed
  PROVE  /\ Counted(imit.key, imit.since_mesh, Len(imit.absorbed))'
         /\ Taken' = Taken /\ AbsorbedInOrder'
BY DEF ImitInv, Counted, Taken, AbsorbedInOrder, UnderKey

LEMMA TakenNat == ImitInv => Taken \in Nat
<1> SUFFICES ASSUME ImitInv PROVE Taken \in Nat
  OBVIOUS
<1>1. Len(imit.absorbed) \in Nat
  BY DEF ImitInv, ImitTyped
<1> QED  BY <1>1, BlockAssumption DEF Taken

LEMMA AtFields ==
  ASSUME NEW pc, NEW tail, imit' = At(pc, tail)
  PROVE  /\ imit'.key = imit.key /\ imit'.since_mesh = imit.since_mesh
         /\ imit'.absorbed = imit.absorbed /\ imit'.tail = tail /\ imit'.pc = pc
BY DEF At

LEMMA UpdateStep == ASSUME IInv, NEW n \in 0..MaxBytes, Update(n) PROVE ImitInv'
<1> USE BlockAssumption, BoundAssumption
<1> DEFINE pc == IF Len(imit.tail) > 0 THEN "tail" ELSE "blocks"
<1>1. ImitInv /\ ImitTyped /\ meshing' = meshing /\ imit.pc = "idle" /\ rest = <<>>
  BY DEF IInv, ImitInv, Update
<1>2. /\ rest' = [j \in 1..n |-> fed + j] /\ fed' = fed + n /\ imit' = At(pc, imit.tail)
      /\ pc \in {"tail", "blocks"}
  BY DEF Update
<1>3. rest' \in Seq(Nat) /\ Len(rest') = n /\ \A j \in 1..n : rest'[j] = fed + j
  BY <1>1, <1>2 DEF ImitTyped
<1>4. /\ imit'.key = imit.key /\ imit'.since_mesh = imit.since_mesh
      /\ imit'.absorbed = imit.absorbed /\ imit'.tail = imit.tail /\ imit'.pc = pc
  BY <1>2, AtFields
<1>5. /\ Counted(imit.key, imit.since_mesh, Len(imit.absorbed))'
      /\ Taken' = Taken /\ AbsorbedInOrder'
  BY <1>1, <1>4, NotAbsorbed
<1>6. ImitTyped'
  BY <1>1, <1>2, <1>3, <1>4 DEF ImitTyped, At
<1>7. fed = Taken + Len(imit.tail) /\ Taken \in Nat /\ Len(imit.tail) \in Nat
  BY <1>1, TakenNat DEF ImitInv, ImitTyped
<1>8. fed' = Taken' + Len(imit'.tail) + Len(rest')
  BY <1>2, <1>3, <1>4, <1>5, <1>7
<1>9. Follows(imit.tail, Taken)'
  BY <1>1, <1>4, <1>5 DEF ImitInv
<1>10. Follows(rest, Taken + Len(imit.tail))'
  BY <1>3, <1>4, <1>5, <1>7 DEF Follows
<1>11. (imit.pc = "blocks" => imit.tail = <<>> \/ rest = <<>>)' /\ imit'.pc # "idle"
  BY <1>1, <1>4 DEF ImitTyped
<1> QED  BY <1>5, <1>6, <1>8, <1>9, <1>10, <1>11 DEF ImitInv

LEMMA TopUpStep == IInv /\ TopUp => ImitInv'
<1> SUFFICES ASSUME IInv, TopUp PROVE ImitInv'
  OBVIOUS
<1> USE BlockAssumption
<1> DEFINE need == Block - Len(imit.tail)
           take == IF need <= Len(rest) THEN need ELSE Len(rest)
           tail == imit.tail \o SubSeq(rest, 1, take)
           left == SubSeq(rest, take + 1, Len(rest))
<1>1. /\ ImitInv /\ ImitTyped /\ meshing' = meshing /\ meshing \in BOOLEAN
      /\ fed' = fed /\ rest' = left
  BY DEF IInv, ImitInv, TopUp
<1>2. imit' = IF Len(tail) = Block THEN absorb_block(imit, tail, <<>>) ELSE At("blocks", tail)
  BY DEF TopUp
<1>3. /\ imit.tail \in Seq(Nat) /\ rest \in Seq(Nat) /\ Len(imit.tail) \in Nat
      /\ Len(rest) \in Nat /\ Len(imit.tail) < Block /\ Taken \in Nat /\ fed \in Nat
      /\ fed = Taken + Len(imit.tail) + Len(rest)
      /\ Follows(imit.tail, Taken) /\ Follows(rest, Taken + Len(imit.tail))
  BY <1>1, TakenNat DEF ImitInv, ImitTyped
<1>4. /\ take \in 0..Len(rest) /\ Len(imit.tail) + take <= Block
      /\ Len(imit.tail) + take = Block \/ take = Len(rest)
  <2>1. Block \in Nat /\ Len(imit.tail) \in Nat /\ Len(rest) \in Nat /\ Len(imit.tail) < Block
    BY <1>3
  <2>2. CASE need <= Len(rest)
    <3>1. take = need
      BY <2>2
    <3> HIDE DEF take
    <3> QED  BY <2>1, <2>2, <3>1
  <2>3. CASE ~(need <= Len(rest))
    <3>1. take = Len(rest)
      BY <2>3
    <3> HIDE DEF take
    <3> QED  BY <2>1, <2>3, <3>1
  <2> QED  BY <2>2, <2>3
<1> HIDE DEF take, need
<1>5. /\ SubSeq(rest, 1, take) \in Seq(Nat) /\ Len(SubSeq(rest, 1, take)) = take
      /\ Follows(SubSeq(rest, 1, take), Taken + Len(imit.tail))
      /\ left \in Seq(Nat) /\ Len(left) = Len(rest) - take
      /\ Follows(left, Taken + Len(imit.tail) + take)
  <2>1. Taken + Len(imit.tail) \in Nat
    BY <1>3
  <2> QED  BY <1>3, <1>4, <2>1, FollowsSplit
<1>6. /\ tail \in Seq(Nat) /\ Len(tail) = Len(imit.tail) + take /\ Follows(tail, Taken)
  BY <1>3, <1>5, FollowsConcat
<1> HIDE DEF tail, left
<1>7. CASE Len(tail) = Block
  <2>1. imit' = absorb_block(imit, tail, <<>>) /\ <<>> \in Seq(Nat)
    BY <1>2, <1>7
  <2>2. /\ imit' \in [key : Nat, since_mesh : Nat,
                      absorbed : Seq([key : Nat, bytes : Seq(Nat)]),
                      tail : Seq(Nat), pc : {"idle", "tail", "blocks"}]
        /\ Counted(imit.key, imit.since_mesh, Len(imit.absorbed))'
        /\ Taken' = Taken + Block /\ Taken \in Nat
        /\ AbsorbedInOrder'
        /\ imit'.tail = <<>> /\ imit'.pc = "blocks"
    BY <1>1, <1>6, <1>7, <2>1, AbsorbStep
  <2>3. Len(imit'.tail) = 0 /\ Follows(imit.tail, Taken)'
    BY <2>2 DEF Follows
  <2>4. Taken' + Len(imit'.tail) = Taken + Len(imit.tail) + take
    <3>1. Taken' = Taken + Block /\ Len(imit'.tail) = 0 /\ Taken \in Nat
      BY <2>2, <2>3
    <3>2. Block = Len(imit.tail) + take /\ Len(imit.tail) \in Nat /\ take \in Nat
      BY <1>3, <1>4, <1>6, <1>7
    <3> QED  BY <3>1, <3>2
  <2>5. Follows(rest, Taken + Len(imit.tail))'
    BY <1>1, <1>5, <2>4
  <2>6. fed' = Taken' + Len(imit'.tail) + Len(rest')
    BY <1>1, <1>3, <1>4, <1>5, <2>4
  <2>7. ImitTyped'
    BY <1>1, <1>3, <1>5, <2>2, <2>3 DEF ImitTyped
  <2> QED  BY <2>2, <2>3, <2>5, <2>6, <2>7 DEF ImitInv
<1>8. CASE Len(tail) # Block
  <2>1. imit' = At("blocks", tail)
    BY <1>2, <1>8
  <2>2. /\ imit'.key = imit.key /\ imit'.since_mesh = imit.since_mesh
        /\ imit'.absorbed = imit.absorbed /\ imit'.tail = tail /\ imit'.pc = "blocks"
    BY <2>1, AtFields
  <2>3. /\ Counted(imit.key, imit.since_mesh, Len(imit.absorbed))'
        /\ Taken' = Taken /\ AbsorbedInOrder'
    BY <1>1, <2>2, NotAbsorbed
  <2>0. take = Len(rest) /\ Len(tail) < Block
    <3>1. Len(tail) \in Nat /\ Len(tail) <= Block /\ Len(imit.tail) + take # Block
      BY <1>4, <1>6, <1>8
    <3> QED  BY <1>4, <1>8, <3>1
  <2>4. Len(left) = 0 /\ rest' = <<>> /\ Len(rest') = 0
    <3>1. Len(left) = 0
      BY <1>3, <1>5, <2>0
    <3> QED  BY <1>1, <1>5, <3>1
  <2>5. Follows(imit.tail, Taken)' /\ Follows(rest, Taken + Len(imit.tail))'
    BY <1>6, <2>2, <2>3, <2>4 DEF Follows
  <2>6. fed' = Taken' + Len(imit'.tail) + Len(rest')
    <3>1. Len(imit'.tail) = Len(imit.tail) + Len(rest)
      BY <1>6, <2>0, <2>2
    <3> QED  BY <1>1, <1>3, <2>3, <2>4, <3>1
  <2>7. ImitTyped'
    BY <1>1, <1>3, <1>5, <1>6, <2>0, <2>1, <2>2 DEF ImitTyped, At
  <2> QED  BY <2>2, <2>3, <2>4, <2>5, <2>6, <2>7 DEF ImitInv
<1> QED  BY <1>7, <1>8

LEMMA WholeStep == IInv /\ Whole => ImitInv'
<1> SUFFICES ASSUME IInv, Whole PROVE ImitInv'
  OBVIOUS
<1> USE BlockAssumption
<1> DEFINE block == SubSeq(rest, 1, Block)
           left == SubSeq(rest, Block + 1, Len(rest))
<1>1. /\ ImitInv /\ ImitTyped /\ meshing' = meshing /\ meshing \in BOOLEAN
      /\ fed' = fed /\ rest' = left /\ imit' = absorb_block(imit, block, imit.tail)
      /\ imit.pc = "blocks" /\ Len(rest) >= Block
  BY DEF IInv, ImitInv, Whole
<1>2. /\ rest \in Seq(Nat) /\ Len(rest) \in Nat /\ Taken \in Nat /\ fed \in Nat
      /\ imit.tail = <<>> /\ Len(imit.tail) = 0
      /\ fed = Taken + Len(rest)
  BY <1>1, TakenNat DEF ImitInv, ImitTyped
<1>3. Follows(rest, Taken)
  <2>1. Taken + Len(imit.tail) = Taken
    BY <1>2
  <2> QED  BY <1>1, <2>1 DEF ImitInv
<1>4. /\ block \in Seq(Nat) /\ Len(block) = Block /\ Follows(block, Taken)
      /\ left \in Seq(Nat) /\ Len(left) = Len(rest) - Block /\ Follows(left, Taken + Block)
  <2>1. Block \in 0..Len(rest)
    BY <1>1, <1>2
  <2> QED  BY <1>2, <1>3, <2>1, FollowsSplit
<1> HIDE DEF block, left
<1>5. /\ imit' \in [key : Nat, since_mesh : Nat,
                    absorbed : Seq([key : Nat, bytes : Seq(Nat)]),
                    tail : Seq(Nat), pc : {"idle", "tail", "blocks"}]
      /\ Counted(imit.key, imit.since_mesh, Len(imit.absorbed))'
      /\ Taken' = Taken + Block /\ Taken \in Nat
      /\ AbsorbedInOrder'
      /\ imit'.tail = imit.tail /\ imit'.pc = "blocks"
  <2>1. imit.tail \in Seq(Nat)
    BY <1>1 DEF ImitTyped
  <2> QED  BY <1>1, <1>4, <2>1, AbsorbStep
<1>6. imit'.tail = <<>> /\ Len(imit'.tail) = 0 /\ Follows(imit.tail, Taken)'
  BY <1>2, <1>5 DEF Follows
<1>7. Taken' + Len(imit'.tail) = Taken + Block
  BY <1>5, <1>6
<1>8. fed' = Taken' + Len(imit'.tail) + Len(rest')
  BY <1>1, <1>2, <1>4, <1>7
<1>9. Follows(rest, Taken + Len(imit.tail))'
  BY <1>1, <1>4, <1>7
<1>10. ImitTyped'
  BY <1>1, <1>2, <1>4, <1>5, <1>6 DEF ImitTyped
<1> QED  BY <1>5, <1>6, <1>8, <1>9, <1>10 DEF ImitInv

LEMMA StashStep == IInv /\ Stash => ImitInv'
<1> SUFFICES ASSUME IInv, Stash PROVE ImitInv'
  OBVIOUS
<1> USE BlockAssumption
<1> DEFINE tail == IF rest = <<>> THEN imit.tail ELSE rest
<1>1. /\ ImitInv /\ ImitTyped /\ meshing' = meshing /\ fed' = fed /\ rest' = <<>>
      /\ imit' = At("idle", tail) /\ imit.pc = "blocks" /\ Len(rest) < Block
  BY DEF IInv, ImitInv, Stash
<1>2. /\ rest \in Seq(Nat) /\ imit.tail \in Seq(Nat) /\ Taken \in Nat /\ fed \in Nat
      /\ Len(imit.tail) < Block /\ fed = Taken + Len(imit.tail) + Len(rest)
      /\ Follows(imit.tail, Taken) /\ Follows(rest, Taken + Len(imit.tail))
      /\ imit.tail = <<>> \/ rest = <<>>
  BY <1>1, TakenNat DEF ImitInv, ImitTyped
<1>3. /\ tail \in Seq(Nat) /\ Len(tail) < Block /\ fed = Taken + Len(tail)
      /\ Follows(tail, Taken)
  <2>1. CASE rest = <<>>
    <3>1. tail = imit.tail /\ Len(rest) = 0 /\ Len(imit.tail) \in Nat
      BY <1>2, <2>1
    <3> HIDE DEF tail
    <3> QED  BY <1>2, <3>1
  <2>2. CASE rest # <<>>
    <3>1. tail = rest /\ Len(imit.tail) = 0 /\ Len(rest) \in Nat
      BY <1>2, <2>2
    <3>2. Taken + Len(imit.tail) = Taken
      BY <1>2, <3>1
    <3> HIDE DEF tail
    <3> QED  BY <1>1, <1>2, <3>1, <3>2
  <2> QED  BY <2>1, <2>2
<1> HIDE DEF tail
<1>4. /\ imit'.key = imit.key /\ imit'.since_mesh = imit.since_mesh
      /\ imit'.absorbed = imit.absorbed /\ imit'.tail = tail /\ imit'.pc = "idle"
  BY <1>1, AtFields
<1>5. /\ Counted(imit.key, imit.since_mesh, Len(imit.absorbed))'
      /\ Taken' = Taken /\ AbsorbedInOrder'
  BY <1>1, <1>4, NotAbsorbed
<1>6. Len(rest') = 0 /\ Follows(rest, Taken + Len(imit.tail))' /\ Follows(imit.tail, Taken)'
  BY <1>1, <1>3, <1>4, <1>5 DEF Follows
<1>7. fed' = Taken' + Len(imit'.tail) + Len(rest')
  <2>1. Len(tail) \in Nat
    BY <1>3
  <2> QED  BY <1>1, <1>2, <1>3, <1>4, <1>5, <1>6, <2>1
<1>8. ImitTyped'
  BY <1>1, <1>2, <1>3, <1>4 DEF ImitTyped, At
<1> QED  BY <1>1, <1>4, <1>5, <1>6, <1>7, <1>8 DEF ImitInv

LEMMA ImitUnchanged == ASSUME ImitInv, UNCHANGED <<meshing, imit, fed, rest>> PROVE ImitInv'
BY DEF ImitInv, ImitTyped, Counted, UnderKey, Taken, AbsorbedInOrder

-----------------------------------------------------------------------------
(* The invariant is inductive                                              *)

LEMMA InitIInv == Init => IInv
<1> SUFFICES ASSUME Init PROVE IInv
  OBVIOUS
<1> USE BlockAssumption, MeshAssumption
<1>1. Counted(0, 0, 0)
  <2>1. 0 \in 0..MeshBlocks /\ Block * 0 = 0 /\ 0 * MeshBlocks + 0 = 0
    OBVIOUS
  <2> QED  BY <2>1 DEF Counted
<1>2. CntInv
  <2>1. CntTyped
    BY DEF Init, CntTyped
  <2>2. cnt.key = 0 /\ cnt.since_mesh = 0 /\ cnt.blocks = 0 /\ cnt.buf.len = 0 /\ used = <<>>
    BY DEF Init
  <2>3. KeystreamByOffset
    BY <2>2 DEF KeystreamByOffset
  <2> QED  BY <1>1, <2>1, <2>2, <2>3 DEF CntInv
<1>3. ImitInv
  <2>1. /\ imit.key = 0 /\ imit.since_mesh = 0 /\ imit.absorbed = <<>> /\ imit.tail = <<>>
        /\ imit.pc = "idle" /\ fed = 0 /\ rest = <<>>
    BY DEF Init
  <2>2. /\ Len(imit.absorbed) = 0 /\ Len(imit.tail) = 0 /\ Len(rest) = 0 /\ Taken = 0
    BY <2>1 DEF Taken
  <2>3. ImitTyped
    BY DEF Init, ImitTyped
  <2>4. Follows(imit.tail, Taken) /\ Follows(rest, Taken + Len(imit.tail)) /\ AbsorbedInOrder
    BY <2>2 DEF Follows, AbsorbedInOrder
  <2> QED  BY <1>1, <2>1, <2>2, <2>3, <2>4 DEF ImitInv
<1> QED  BY <1>2, <1>3 DEF IInv, Init

LEMMA NextIInv == IInv /\ [Next]_vars => IInv'
<1> SUFFICES ASSUME IInv, [Next]_vars PROVE IInv'
  OBVIOUS
<1>1. /\ meshing \in BOOLEAN /\ CntInv /\ ImitInv
  BY DEF IInv
<1>2. CASE apply
  BY <1>1, <1>2, ApplyStep, ImitUnchanged DEF IInv, apply
<1>3. ASSUME NEW n \in 0..MaxBytes, Update(n) PROVE IInv'
  BY <1>1, <1>3, UpdateStep, CntUnchanged DEF IInv, Update
<1>4. CASE TopUp
  BY <1>1, <1>4, TopUpStep, CntUnchanged DEF IInv, TopUp
<1>5. CASE Whole
  BY <1>1, <1>5, WholeStep, CntUnchanged DEF IInv, Whole
<1>6. CASE Stash
  BY <1>1, <1>6, StashStep, CntUnchanged DEF IInv, Stash
<1>7. CASE UNCHANGED vars
  BY <1>1, <1>7, ImitUnchanged, CntUnchanged DEF IInv, vars
<1> QED  BY <1>2, <1>3, <1>4, <1>5, <1>6, <1>7 DEF Next

LEMMA SpecIInv == Spec => []IInv
BY InitIInv, NextIInv, PTL DEF Spec

-----------------------------------------------------------------------------
(* The properties                                                          *)

LEMMA CountedBound ==
  ASSUME NEW key \in Nat, NEW since \in Nat, NEW n \in Nat, meshing, Counted(key, since, n)
  PROVE  since <= Block * MeshBlocks
<1>1. PICK u \in 0..MeshBlocks : since = Block * u
  BY DEF Counted
<1>2. PICK d \in Nat : MeshBlocks = u + d
  <2>1. MeshBlocks - u \in Nat /\ MeshBlocks = u + (MeshBlocks - u)
    BY MeshAssumption
  <2> QED  BY <2>1
<1>3. Block * MeshBlocks = Block * u + Block * d /\ Block * d >= 0
  BY <1>2, BlockAssumption
<1> QED  BY <1>1, <1>3, BlockAssumption

LEMMA IInvTypeOK == IInv => TypeOK
<1> SUFFICES ASSUME IInv PROVE TypeOK
  OBVIOUS
<1>1. CntInv /\ CntTyped /\ ImitInv /\ ImitTyped /\ meshing \in BOOLEAN /\ fed \in Nat
  BY DEF IInv, CntInv, ImitInv, ImitTyped
<1>2. /\ cnt.key \in Nat /\ cnt.since_mesh \in Nat /\ cnt.blocks \in Nat
      /\ cnt.buf_pos \in Nat /\ cnt.buf.len \in {0, Block} /\ cnt.buf_pos <= cnt.buf.len
  BY <1>1 DEF CntTyped
<1>3. /\ imit.key \in Nat /\ imit.since_mesh \in Nat /\ Len(imit.absorbed) \in Nat
      /\ imit.pc \in {"idle", "tail", "blocks"} /\ Len(imit.tail) < Block
  BY <1>1 DEF ImitTyped
<1>4. meshing => cnt.since_mesh <= Block * MeshBlocks
  BY <1>1, <1>2, CountedBound DEF CntInv
<1>5. meshing => imit.since_mesh <= Block * MeshBlocks
  BY <1>1, <1>3, CountedBound DEF ImitInv
<1>6. cnt.buf_pos \in 0..cnt.buf.len
  BY <1>2, BlockAssumption
<1> QED  BY <1>1, <1>2, <1>3, <1>4, <1>5, <1>6 DEF TypeOK

LEMMA Member == ASSUME NEW S, NEW s \in Seq(S), NEW i \in 1..Len(s) PROVE s[i] \in S
OBVIOUS

LEMMA IInvMac == IInv => MacInOnePass
<1> SUFFICES ASSUME IInv, imit.pc = "idle" PROVE
       /\ \A i \in DOMAIN finalize :
            /\ UnderKey(finalize[i].key, i - 1)
            /\ \A j \in DOMAIN finalize[i].bytes : finalize[i].bytes[j] = Block * (i - 1) + j
            /\ IF i < Len(finalize) THEN Len(finalize[i].bytes) = Block
               ELSE Block * (i - 1) + Len(finalize[i].bytes) = fed
       /\ finalize = <<>> => fed = 0
  BY DEF MacInOnePass
<1> USE BlockAssumption
<1> DEFINE n == Len(imit.absorbed)
           last == [key |-> IF MeshDue(imit) THEN imit.key + 1 ELSE imit.key, bytes |-> imit.tail]
<1>1. ImitInv /\ ImitTyped /\ meshing \in BOOLEAN
  BY DEF IInv, ImitInv
<1>2. /\ imit.absorbed \in Seq([key : Nat, bytes : Seq(Nat)]) /\ n \in Nat
      /\ imit.tail \in Seq(Nat) /\ imit.key \in Nat /\ imit.since_mesh \in Nat
      /\ fed = Block * n + Len(imit.tail) /\ Follows(imit.tail, Block * n)
  <2>1. rest = <<>> /\ Len(rest) = 0 /\ Taken \in Nat /\ Len(imit.tail) \in Nat
    BY <1>1, TakenNat DEF ImitInv, ImitTyped
  <2> QED  BY <1>1, <2>1 DEF ImitInv, ImitTyped, Taken
<1>3. ASSUME NEW i \in 1..n
      PROVE  /\ UnderKey(imit.absorbed[i].key, i - 1)
             /\ Len(imit.absorbed[i].bytes) = Block
             /\ imit.absorbed[i].bytes \in Seq(Nat)
             /\ \A j \in DOMAIN imit.absorbed[i].bytes :
                  imit.absorbed[i].bytes[j] = Block * (i - 1) + j
  <2>1. /\ UnderKey(imit.absorbed[i].key, i - 1)
        /\ Len(imit.absorbed[i].bytes) = Block
        /\ Follows(imit.absorbed[i].bytes, Block * (i - 1))
    BY <1>1 DEF ImitInv, AbsorbedInOrder
  <2>2. imit.absorbed[i] \in [key : Nat, bytes : Seq(Nat)]
    BY <1>2, Member
  <2>3. imit.absorbed[i].bytes \in Seq(Nat)
    BY <2>2
  <2> QED  BY <2>1, <2>3 DEF Follows
<1>4. CASE imit.tail = <<>>
  <2>1. finalize = imit.absorbed /\ fed = Block * n
    <3>1. Len(imit.tail) = 0 /\ Block * n \in Nat
      BY <1>2, <1>4
    <3> QED  BY <1>2, <1>4, <3>1 DEF finalize
  <2>2. DOMAIN imit.absorbed = 1..n
    BY <1>2
  <2>3. ASSUME NEW i \in 1..n, ~(i < n)
        PROVE  Block * (i - 1) + Len(imit.absorbed[i].bytes) = fed
    <3>1. i = n /\ Len(imit.absorbed[i].bytes) = Block
      BY <1>2, <1>3, <2>3
    <3>2. Block * (n - 1) + Block = Block * n
      BY <1>2
    <3> QED  BY <2>1, <3>1, <3>2
  <2>4. imit.absorbed = <<>> => fed = 0
    BY <2>1
  <2> HIDE DEF n
  <2> QED  BY <1>3, <2>1, <2>2, <2>3, <2>4 DEF n
<1>5. CASE imit.tail # <<>>
  <2>1. finalize = Append(imit.absorbed, last)
    BY <1>5 DEF finalize
  <2>2. last.key \in Nat /\ last.bytes = imit.tail /\ UnderKey(last.key, n)
    <3> DEFINE since == (IF MeshDue(imit) THEN 0 ELSE imit.since_mesh) + Block
    <3>1. /\ meshing /\ imit.since_mesh = Block * MeshBlocks =>
               last.key = imit.key + 1 /\ since = Block
          /\ ~(meshing /\ imit.since_mesh = Block * MeshBlocks) =>
               last.key = imit.key /\ since = imit.since_mesh + Block
      BY <1>2 DEF MeshDue
    <3>2. Counted(imit.key, imit.since_mesh, n)
      BY <1>1 DEF ImitInv
    <3>3. last.bytes = imit.tail /\ last.key \in Nat
      BY <1>2
    <3> HIDE DEF last, since, n
    <3> QED  BY <1>1, <1>2, <3>1, <3>2, <3>3, NextCounted
  <2>3. last \in [key : Nat, bytes : Seq(Nat)]
    BY <1>2, <2>2
  <2> HIDE DEF last
  <2>4. /\ Len(finalize) = n + 1 /\ DOMAIN finalize = 1..(n + 1) /\ finalize[n + 1] = last
        /\ \A i \in 1..n : finalize[i] = imit.absorbed[i]
    BY <1>2, <2>1, <2>3
  <2>5. finalize # <<>>
    BY <1>2, <2>4
  <2>6. ASSUME NEW i \in 1..(n + 1)
        PROVE  /\ UnderKey(finalize[i].key, i - 1)
               /\ \A j \in DOMAIN finalize[i].bytes : finalize[i].bytes[j] = Block * (i - 1) + j
               /\ IF i < Len(finalize) THEN Len(finalize[i].bytes) = Block
                  ELSE Block * (i - 1) + Len(finalize[i].bytes) = fed
    <3>1. CASE i \in 1..n
      <4>1. finalize[i] = imit.absorbed[i] /\ i < Len(finalize)
        BY <1>2, <2>4, <3>1
      <4> HIDE DEF n
      <4> QED  BY <1>3, <3>1, <4>1
    <3>2. CASE i = n + 1
      <4>1. finalize[i] = last /\ ~(i < Len(finalize)) /\ i - 1 = n
        BY <1>2, <2>4, <3>2
      <4>2. \A j \in DOMAIN imit.tail : imit.tail[j] = Block * n + j
        <5>1. DOMAIN imit.tail = 1..Len(imit.tail)
          BY <1>2
        <5>2. \A j \in 1..Len(imit.tail) : imit.tail[j] = Block * n + j
          BY <1>2 DEF Follows
        <5> QED  BY <5>1, <5>2
      <4> HIDE DEF n
      <4> QED  BY <1>2, <2>2, <4>1, <4>2
    <3>3. i \in 1..n \/ i = n + 1
      BY <1>2
    <3> QED  BY <3>1, <3>2, <3>3
  <2> QED  BY <2>4, <2>5, <2>6
<1> QED  BY <1>4, <1>5

\* Every variable keeps its type: neither the keystream nor the MAC runs past
\* the moment at which its key is due to change.
THEOREM TypeCorrect == Spec => []TypeOK
BY SpecIInv, IInvTypeOK, PTL

\* However apply is called, each byte is XORed with the byte of the keystream
\* at its offset, under the key of that offset.
THEOREM KeystreamByOffsetAlways == Spec => []KeystreamByOffset
<1>1. IInv => KeystreamByOffset
  BY DEF IInv, CntInv
<1> QED  BY <1>1, SpecIInv, PTL

\* However update is called, finalize gives the tag of all bytes so far in one
\* pass, each block under the key of its place.
THEOREM MacInOnePassAlways == Spec => []MacInOnePass
BY SpecIInv, IInvMac, PTL
=============================================================================
