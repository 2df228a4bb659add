----------------------------- MODULE SplitMix64 -----------------------------
(***************************************************************************)
(* The hash of the seeded schedule, which mixes a seed and an attempt      *)
(* number by splitmix64.  A u64 is the sequence of its eight bytes, the    *)
(* lowest first.                                                           *)
(***************************************************************************)
EXTENDS Integers, Bitwise, FiniteSetsExt, SequencesExt

(* The value of a literal, whose bytes are written with the highest first. *)
Literal(bytes) == Reverse(bytes)

(* A small number as a u64.                                                *)
FromNat(n) == [k \in 1..8 |-> IF k <= 4 THEN (n \div (256 ^ (k - 1))) % 256 ELSE 0]

(* The u64 with these bytes once they have carried.  What the last one     *)
(* carries is lost, as in wrapping_add and wrapping_mul.                   *)
Carried(sums) ==
  LET step(c, s) == [bytes |-> Append(c.bytes, (s + c.carry) % 256),
                     carry |-> (s + c.carry) \div 256]
  IN  FoldLeft(step, [bytes |-> <<>>, carry |-> 0], sums).bytes

WrappingAdd(x, y) == Carried([k \in 1..8 |-> x[k] + y[k]])

WrappingMul(x, y) ==
  Carried([k \in 1..8 |-> MapThenSumSet(LAMBDA i : x[i] * y[k + 1 - i], 1..k)])

(* Byte k of x >> n.                                                       *)
ShiftedByte(x, n, k) ==
  LET byte(i) == IF i <= 8 THEN x[i] ELSE 0
      low == k + (n \div 8)
  IN  ((byte(low) + 256 * byte(low + 1)) \div (2 ^ (n % 8))) % 256

(* x ^ (x >> n)                                                            *)
XorShifted(x, n) == [k \in 1..8 |-> x[k] ^^ ShiftedByte(x, n, k)]

(* x % 1000                                                                *)
Mod1000(x) == FoldRight(LAMBDA byte, rest : (256 * rest + byte) % 1000, x, 0)

(* 0xBF58476D1CE4E5B9 and 0x94D049BB133111EB                               *)
Mix1 == Literal(<<191, 88, 71, 109, 28, 228, 229, 185>>)
Mix2 == Literal(<<148, 208, 73, 187, 19, 49, 17, 235>>)

(* 0x9E3779B97F4A7C15, added to the seed once per attempt.                 *)
Gamma == Literal(<<158, 55, 121, 185, 127, 74, 124, 21>>)

(* Mutant: the first two shifts are swapped.                               *)
Bucket64Swapped(seed, attempt) ==
  LET x == WrappingAdd(seed, WrappingMul(FromNat(attempt), Gamma))
      y == WrappingMul(XorShifted(x, 27), Mix1)
      z == WrappingMul(XorShifted(y, 30), Mix2)
  IN  Mod1000(XorShifted(z, 31))

(* The bucket in 0..999 that decides whether a seeded schedule fires.      *)
Bucket64(seed, attempt) ==
  LET x == WrappingAdd(seed, WrappingMul(FromNat(attempt), Gamma))
      y == WrappingMul(XorShifted(x, 30), Mix1)
      z == WrappingMul(XorShifted(y, 27), Mix2)
  IN  Mod1000(XorShifted(z, 31))
=============================================================================
