------------------------------ MODULE Gost28147 ------------------------------
(***************************************************************************)
(* The two running states of a protected direction: CntKeystream and       *)
(* ImitContext of src/src/gost28147.rs.  Both work in blocks, are called   *)
(* with any number of bytes, keep what is left of a block for the next     *)
(* call, and change their key after every MeshBlocks blocks.               *)
(*                                                                         *)
(* RecordLayer takes for granted that the keystream at a byte depends on   *)
(* its offset alone and the MAC on the bytes alone, not on how calls cut   *)
(* them.  This module is why.                                              *)
(*                                                                         *)
(* The bytes given to the MAC are numbered 1, 2, ...  The cipher is        *)
(* symbolic: a key is the number of meshings before it, a gamma block its  *)
(* number and key, a MAC state the blocks mixed in, each with its key.     *)
(*                                                                         *)
(* A definition X_Name is a mutant of X; see RecordLayer.                  *)
(***************************************************************************)
EXTENDS Naturals, Sequences

CONSTANTS
  Block,        \* the bytes of a block (8)
  MeshBlocks,   \* the blocks between two meshings (1024 / 8)
  MaxBytes      \* bound: bytes through either state

ASSUME BlockAssumption == Block \in Nat \ {0}
ASSUME MeshAssumption  == MeshBlocks \in Nat \ {0}
ASSUME BoundAssumption == MaxBytes \in Nat

VARIABLES
  meshing,    \* both states are meshing
  cnt,        \* the CntKeystream
  used,       \* what each byte has been XORed with: key and number of the block, position
  imit,       \* the ImitContext
  fed,        \* the number of bytes given to it
  rest        \* the bytes the update being made has not consumed

vars == <<meshing, cnt, used, imit, fed, rest>>

MeshDue(state) == meshing /\ state.since_mesh = Block * MeshBlocks

-----------------------------------------------------------------------------
(* CntKeystream                                                            *)

\* Mutant: the bytes since the last meshing are not reset.
next_block_NoReset(c) ==
  LET key == IF MeshDue(c) THEN c.key + 1 ELSE c.key
  IN  [key |-> key, blocks |-> c.blocks + 1,
       since_mesh |-> c.since_mesh + Block,
       buf |-> [len |-> Block, key |-> key, n |-> c.blocks], buf_pos |-> 0]

\* Mutant: the first block after a meshing is still made with the old key.
next_block_OldKey(c) ==
  [key |-> IF MeshDue(c) THEN c.key + 1 ELSE c.key, blocks |-> c.blocks + 1,
   since_mesh |-> (IF MeshDue(c) THEN 0 ELSE c.since_mesh) + Block,
   buf |-> [len |-> Block, key |-> c.key, n |-> c.blocks], buf_pos |-> 0]

\* c with the next block of gamma in its buffer.
next_block(c) ==
  LET key == IF MeshDue(c) THEN c.key + 1 ELSE c.key
  IN  [key |-> key, blocks |-> c.blocks + 1,
       since_mesh |-> (IF MeshDue(c) THEN 0 ELSE c.since_mesh) + Block,
       buf |-> [len |-> Block, key |-> key, n |-> c.blocks], buf_pos |-> 0]

\* One byte of apply; the next may be of the same call or of another.
apply ==
  /\ Len(used) < MaxBytes
  /\ LET c == IF cnt.buf_pos = cnt.buf.len THEN next_block(cnt) ELSE cnt
     IN  /\ used' = Append(used, [key |-> c.buf.key, n |-> c.buf.n, at |-> c.buf_pos])
         /\ cnt' = [key |-> c.key, blocks |-> c.blocks, since_mesh |-> c.since_mesh,
                    buf |-> c.buf, buf_pos |-> c.buf_pos + 1]
  /\ UNCHANGED <<meshing, imit, fed, rest>>

-----------------------------------------------------------------------------
(* ImitContext                                                             *)

\* The state that has mixed in one more block, the tail being what it is then.
absorb_block(m, block, tail) ==
  LET key == IF MeshDue(m) THEN m.key + 1 ELSE m.key
  IN  [key |-> key, since_mesh |-> (IF MeshDue(m) THEN 0 ELSE m.since_mesh) + Block,
       absorbed |-> Append(m.absorbed, [key |-> key, bytes |-> block]),
       tail |-> tail, pc |-> "blocks"]

At(pc, tail) ==
  [key |-> imit.key, since_mesh |-> imit.since_mesh, absorbed |-> imit.absorbed,
   tail |-> tail, pc |-> pc]

\* update is called with n bytes.
Update(n) ==
  /\ imit.pc = "idle" /\ fed + n <= MaxBytes
  /\ rest' = [j \in 1..n |-> fed + j]
  /\ fed' = fed + n
  /\ imit' = At(IF Len(imit.tail) > 0 THEN "tail" ELSE "blocks", imit.tail)
  /\ UNCHANGED <<meshing, cnt, used>>

\* A partial tail is topped up first.
TopUp ==
  LET need == Block - Len(imit.tail)
      take == IF need <= Len(rest) THEN need ELSE Len(rest)
      tail == imit.tail \o SubSeq(rest, 1, take)
  IN  /\ imit.pc = "tail"
      /\ imit' = IF Len(tail) = Block THEN absorb_block(imit, tail, <<>>) ELSE At("blocks", tail)
      /\ rest' = SubSeq(rest, take + 1, Len(rest))
      /\ UNCHANGED <<meshing, cnt, used, fed>>

\* Whole blocks are absorbed directly.
Whole ==
  /\ imit.pc = "blocks" /\ Len(rest) >= Block
  /\ imit' = absorb_block(imit, SubSeq(rest, 1, Block), imit.tail)
  /\ rest' = SubSeq(rest, Block + 1, Len(rest))
  /\ UNCHANGED <<meshing, cnt, used, fed>>

\* The remainder becomes the tail.
Stash ==
  /\ imit.pc = "blocks" /\ Len(rest) < Block
  /\ imit' = At("idle", IF rest = <<>> THEN imit.tail ELSE rest)
  /\ rest' = <<>>
  /\ UNCHANGED <<meshing, cnt, used, fed>>

\* Mutant: a meshing that is due is not made for the last block.
finalize_NoMesh ==
  IF imit.tail = <<>> THEN imit.absorbed
  ELSE Append(imit.absorbed, [key |-> imit.key, bytes |-> imit.tail])

\* The tag: the blocks it is made of, the last one padded.
finalize ==
  IF imit.tail = <<>> THEN imit.absorbed
  ELSE Append(imit.absorbed, [key |-> IF MeshDue(imit) THEN imit.key + 1 ELSE imit.key,
                              bytes |-> imit.tail])

-----------------------------------------------------------------------------

Init ==
  /\ meshing \in BOOLEAN
  /\ cnt = [key |-> 0, blocks |-> 0, since_mesh |-> 0,
            buf |-> [len |-> 0, key |-> 0, n |-> 0], buf_pos |-> 0]
  /\ used = <<>>
  /\ imit = [key |-> 0, since_mesh |-> 0, absorbed |-> <<>>, tail |-> <<>>, pc |-> "idle"]
  /\ fed = 0 /\ rest = <<>>

Next == apply \/ (\E n \in 0..MaxBytes : Update(n)) \/ TopUp \/ Whole \/ Stash

Spec == Init /\ [][Next]_vars

-----------------------------------------------------------------------------
(* Properties                                                              *)

\* Every variable has its type: neither state misses the moment at which its
\* key is due to change, which it would then never find again.
TypeOK ==
  /\ meshing \in BOOLEAN /\ fed \in Nat
  /\ \A s \in {cnt, imit} : /\ s.key \in Nat /\ s.since_mesh \in Nat
                            /\ meshing => s.since_mesh <= Block * MeshBlocks
  /\ cnt.blocks \in Nat /\ cnt.buf_pos \in 0..cnt.buf.len /\ cnt.buf.len \in {0, Block}
  /\ imit.pc \in {"idle", "tail", "blocks"}
  /\ Len(imit.tail) < Block

\* Block n, from 0, is under the key that it has in one pass over all bytes.
UnderKey(key, n) ==
  IF meshing THEN key * MeshBlocks <= n /\ n < (key + 1) * MeshBlocks ELSE key = 0

\* However apply is called, each byte is XORed with the byte of the keystream
\* at its offset, under the key of that offset.
KeystreamByOffset ==
  \A i \in DOMAIN used :
    /\ used[i].at < Block
    /\ Block * used[i].n + used[i].at = i - 1
    /\ UnderKey(used[i].key, used[i].n)

\* However update is called, the tag that finalize gives is that of all bytes
\* so far in one pass: in order, none left out or taken twice, each block but
\* the last full and under the key of its place, a meshing that is due before
\* the last one included.
MacInOnePass ==
  imit.pc = "idle" =>
    /\ \A i \in DOMAIN finalize :
         /\ UnderKey(finalize[i].key, i - 1)
         /\ \A j \in DOMAIN finalize[i].bytes : finalize[i].bytes[j] = Block * (i - 1) + j
         /\ IF i < Len(finalize) THEN Len(finalize[i].bytes) = Block
            ELSE Block * (i - 1) + Len(finalize[i].bytes) = fed
    /\ finalize = <<>> => fed = 0
=============================================================================
