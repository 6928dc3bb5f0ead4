---------------------------------- MODULE Words ---------------------------------
(* Signed words of IntBits bits (32 in TeenyJVM, 64 in TeenyBASIC) and the     *)
(* arithmetic of C and x86-64 on them.                                         *)
EXTENDS Integers

CONSTANT IntBits

Pow2[n \in Nat] == IF n = 0 THEN 1 ELSE 2 * Pow2[n - 1]
Pow(n)  == Pow2[n]
Wrap(x) == ((x + Pow(IntBits - 1)) % Pow(IntBits)) - Pow(IntBits - 1)
MinInt  == - Pow(IntBits - 1)
MaxInt  == Pow(IntBits - 1) - 1
Ints    == MinInt .. MaxInt

\* Division truncates, and traps where the quotient is no word.
Abs(a)         == IF a < 0 THEN - a ELSE a
Sign(a)        == IF a < 0 THEN -1 ELSE 1
Quotient(a, b) == Sign(a) * Sign(b) * (Abs(a) \div Abs(b))
DivisionTraps(a, b) == b = 0 \/ (a = MinInt /\ b = -1)
=================================================================================
