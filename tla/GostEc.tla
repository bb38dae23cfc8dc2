-------------------------------- MODULE GostEc --------------------------------
(***************************************************************************)
(* The curves and the key agreement of the GOST key exchange               *)
(* (src/src/gost_ec.rs, src/src/gost_vko.rs), over fields small enough to  *)
(* take every point and every scalar. Byte strings that the code turns     *)
(* into integers at once are integers, coordinates on the wire are below   *)
(* Radix, which is more than the field has elements.                       *)
(*                                                                         *)
(* The walk k |-> sum, which adds the generator once more in every step,   *)
(* is what multiplication is compared with.                                *)
(***************************************************************************)
EXTENDS Naturals, Sequences, SequencesExt

CONSTANTS
  Curve,     \* the known curves, in the order they are tried: [p, a, b, q, gx, gy]
  Infinity,  \* the identity
  None,      \* no point, no result
  Radix,     \* the values a coordinate can have on the wire
  MaxUkm     \* bound on the user keying material

ASSUME CurveAssumption ==
  /\ Radix \in Nat
  /\ \A i \in DOMAIN Curve : DOMAIN Curve[i] = {"p", "a", "b", "q", "gx", "gy"} /\ Curve[i].p < Radix

VARIABLES
  curve,  \* the curve that is walked on, None if none is
  k,
  sum     \* the generator k times

ec == <<curve, k, sum>>

-----------------------------------------------------------------------------
(* The field *)

mod_add(a, b, p) == (a + b) % p

mod_sub(a, b, p) == IF a % p >= b % p THEN (a % p) - (b % p) ELSE (a % p) + p - (b % p)

mod_mul(a, b, p) == (a * b) % p

modpow(a, e, p) == FoldLeft(LAMBDA r, i : mod_mul(r, a, p), 1, [i \in 1 .. e |-> i])

\* By Fermat's theorem; 0 for 0.
mod_inv(a, p) == modpow(a, p - 2, p)

-----------------------------------------------------------------------------
(* The curve *)

generator(c) == [x |-> c.gx, y |-> c.gy]

is_on_curve(c, P) ==
  LET cube == mod_mul(mod_mul(P.x, P.x, c.p), P.x, c.p)
  IN  P # Infinity =>
        mod_mul(P.y, P.y, c.p) = mod_add(mod_add(cube, mod_mul(c.a, P.x, c.p), c.p), c.b, c.p)

\* from_lambda and from_lambda2, the third point on a line and its mirror.
from_lambda(c, lambda, P, x) ==
  LET x3 == mod_sub(mod_sub(mod_mul(lambda, lambda, c.p), P.x, c.p), x, c.p)
  IN  [x |-> x3, y |-> mod_sub(mod_mul(lambda, mod_sub(P.x, x3, c.p), c.p), P.y, c.p)]

double(c, P) ==
  IF P = Infinity THEN Infinity
  ELSE IF P.y = 0 THEN Infinity
  ELSE LET rise == mod_add(mod_mul(3, mod_mul(P.x, P.x, c.p), c.p), c.a, c.p)
       IN  from_lambda(c, mod_mul(rise, mod_inv(mod_mul(2, P.y, c.p), c.p), c.p), P, P.x)

\* Mutant: Two points over the same x are taken for opposite ones.
add_Opposite(c, P, Q) ==
  CASE P = Infinity -> Q
    [] Q = Infinity -> P
    [] P # Infinity /\ Q # Infinity ->
         IF P.x = Q.x THEN Infinity
         ELSE from_lambda(c, mod_mul(mod_sub(Q.y, P.y, c.p), mod_inv(mod_sub(Q.x, P.x, c.p), c.p), c.p), P, Q.x)

add(c, P, Q) ==
  CASE P = Infinity -> Q
    [] Q = Infinity -> P
    [] P # Infinity /\ Q # Infinity ->
         IF P.x = Q.x THEN IF P.y = Q.y THEN double(c, P) ELSE Infinity
         ELSE from_lambda(c, mod_mul(mod_sub(Q.y, P.y, c.p), mod_inv(mod_sub(Q.x, P.x, c.p), c.p), c.p), P, Q.x)

\* From the most significant bit down: double, and add if the bit is set.
scalar_mul(c, n, P) ==
  LET times[m \in 0 .. n] ==
        IF m = 0 THEN Infinity
        ELSE LET twice == double(c, times[m \div 2]) IN IF m % 2 = 1 THEN add(c, twice, P) ELSE twice
  IN  times[n]

encode_point_le(P) == IF P = Infinity THEN None ELSE <<P.x, P.y>>

\* A coordinate of p or more is not refused.
decode_point_le(c, wire) == LET P == [x |-> wire[1], y |-> wire[2]] IN IF is_on_curve(c, P) THEN P ELSE None

scalar_from_bytes_be(n, q) == IF n % q = 0 THEN 1 ELSE n % q

-----------------------------------------------------------------------------
(* The key agreement *)

\* The hash of a shared point is that point. None is where the code gives up ("not at infinity").
vko_256(c, private, P, ukm) == encode_point_le(scalar_mul(c, (ukm * private) % c.q, P))

public_point(c, private) == scalar_mul(c, private, generator(c))

ephemeral_keypair(c, entropy) ==
  LET d == scalar_from_bytes_be(entropy, c.q) IN [private |-> d, public |-> public_point(c, d)]

derive_export_key(c, P, ukm, entropy) ==
  LET pair == ephemeral_keypair(c, entropy)
  IN  [kek |-> vko_256(c, pair.private, P, ukm), ephemeral_public |-> pair.public]

\* The first curve that the point is on.
detect_curve_and_point(wire) ==
  LET on == SelectSeq([i \in DOMAIN Curve |-> i], LAMBDA i : decode_point_le(Curve[i], wire) # None)
  IN  IF on = <<>> THEN None ELSE Head(on)

software_key_transport(wire, ukm, entropy) ==
  LET i == detect_curve_and_point(wire)
      c == Curve[i]
      export == derive_export_key(c, decode_point_le(c, wire), ukm, entropy)
  IN  IF i = None THEN None
      ELSE [on |-> i, kek |-> export.kek, ephemeral |-> encode_point_le(export.ephemeral_public)]

-----------------------------------------------------------------------------
EcInit == curve \in DOMAIN Curve /\ k = 0 /\ sum = Infinity

\* The generator is added once more, once around and a little.
Walk == /\ curve # None /\ k <= Curve[curve].q
        /\ k' = k + 1 /\ sum' = add(Curve[curve], sum, generator(Curve[curve]))
        /\ UNCHANGED curve

-----------------------------------------------------------------------------
(* Properties *)

Points(c) == {Infinity} \cup {P \in [x : 0 .. c.p - 1, y : 0 .. c.p - 1] : is_on_curve(c, P)}

\* The points are a group under add: closed, commutative, associative, with inverses; and scalar_mul is
\* adding as often as it says, around the order of the generator and beyond.
GroupLaw ==
  LET c == Curve[curve]
  IN  curve # None =>
        /\ sum \in Points(c) /\ scalar_mul(c, k, generator(c)) = sum
        /\ sum = Infinity <=> k % c.q = 0
        /\ \A P \in Points(c) :
             /\ add(c, P, sum) \in Points(c) /\ add(c, P, sum) = add(c, sum, P)
             /\ \A Q \in Points(c) : add(c, add(c, P, Q), sum) = add(c, P, add(c, Q, sum))
        /\ \E P \in Points(c) : add(c, P, sum) = Infinity

\* The server, whose key is k, comes to the secret of the client, whatever the client's entropy and the
\* keying material, and neither comes to one exactly when the keying material is a multiple of the order.
\* A point on the wire that is not reduced gives the secret of the reduced one, but for the scalar 1. This
\* holds where the server's point is on no curve that is tried before its own.
SecretsAgree ==
  LET c == Curve[curve]
  IN  (curve # None /\ k \in 1 .. c.q - 1) =>
        \A ukm \in 0 .. MaxUkm, entropy \in 0 .. c.q :
          LET sent == software_key_transport(encode_point_le(sum), ukm, entropy)
              reduced(wire) == [x |-> wire[1] % c.p, y |-> wire[2] % c.p]
          IN  /\ sent.on <= curve
              /\ sent.on = curve =>
                   /\ sent.kek = vko_256(c, k, decode_point_le(c, sent.ephemeral), ukm)
                   /\ sent.kek = None <=> ukm % c.q = 0
              /\ (ukm = 0 /\ entropy = 0) =>
                   \A wire \in (0 .. Radix - 1) \X (0 .. Radix - 1) :
                     (decode_point_le(c, wire) # None /\ k > 1) =>
                       scalar_mul(c, k, decode_point_le(c, wire)) = scalar_mul(c, k, reduced(wire))

\* The arithmetic of gost_ec.rs is that of a group, and gost_vko.rs gives both sides the same key.
KeysAgree == GroupLaw /\ SecretsAgree

===============================================================================
