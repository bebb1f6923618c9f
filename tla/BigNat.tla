------------------------------- MODULE BigNat -------------------------------
(***************************************************************************)
(* The arbitrary-precision unsigned integers of src/bip39.py (rv, prv) as  *)
(* bit sequences, most significant bit first; leading zeros do not change  *)
(* the value.  A packed 24-word mnemonic has 264 bits, far beyond TLC's    *)
(* 32-bit integers, so shifts, OR and int.to_bytes are modelled bit by     *)
(* bit.  MCBigNat checks them against integer arithmetic (Bitwise).        *)
(***************************************************************************)
EXTENDS Integers, Sequences, SequencesExt

CONSTANT OverflowError   (* what int.to_bytes raises when width is too small *)

Zeros(k) == [j \in 1 .. k |-> 0]

(* A small natural as its minimal bit sequence (0 is the empty sequence). *)
RECURSIVE NatToBits(_)
NatToBits(x) == IF x = 0 THEN <<>> ELSE Append(NatToBits(x \div 2), x % 2)

(* The value of a short bit sequence. *)
RECURSIVE BitsToNat(_)
BitsToNat(b) == IF b = <<>> THEN 0 ELSE 2 * BitsToNat(Front(b)) + Last(b)

(* a << k *)
Shl(a, k) == a \o Zeros(k)

(* a >> k *)
Shr(a, k) == IF k >= Len(a) THEN <<>> ELSE SubSeq(a, 1, Len(a) - k)

PadTo(a, n) == IF Len(a) >= n THEN a ELSE Zeros(n - Len(a)) \o a

(* a | b *)
BOr(a, b) ==
  LET n  == IF Len(a) >= Len(b) THEN Len(a) ELSE Len(b)
      pa == PadTo(a, n)
      pb == PadTo(b, n)
  IN  <<>> \o [j \in 1 .. n |-> IF pa[j] = 1 \/ pb[j] = 1 THEN 1 ELSE 0]

(* a.bit_length() *)
BitLength(a) ==
  LET ones == {j \in DOMAIN a : a[j] = 1}
  IN  IF ones = {} THEN 0 ELSE Len(a) - Min(ones) + 1

(* a & (2^k - 1), for k small enough to be an integer *)
LowBits(a, k) == BitsToNat(SubSeq(PadTo(a, k), Len(PadTo(a, k)) - k + 1, Len(PadTo(a, k))))

(***************************************************************************)
(* a.to_bytes(width, 'big'): OverflowError unless the value fits in width  *)
(* bytes; otherwise width bytes, most significant first, zero-padded.      *)
(***************************************************************************)
ToBytes(a, width) ==
  IF BitLength(a) > 8 * width THEN OverflowError
  ELSE LET p == SubSeq(PadTo(a, 8 * width), Len(PadTo(a, 8 * width)) - 8 * width + 1,
                       Len(PadTo(a, 8 * width)))
       IN  [j \in 1 .. width |-> BitsToNat(SubSeq(p, 8 * j - 7, 8 * j))]
=============================================================================
