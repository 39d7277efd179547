-------------------------------- MODULE Gf256 --------------------------------
(***************************************************************************)
(* The field GF(2^8) as whisper/crypto.py computes in it.  Each operation  *)
(* is tabulated once: its value for a and b is in row a + 1, column b + 1. *)
(***************************************************************************)
EXTENDS Integers, Sequences, Bitwise

GfByte == 0..255

\* What is tabulated is turned into a tuple by \o, so that TLC keeps it.
Row(op(_, _), a) == <<>> \o [i \in 1..256 |-> op(a, i - 1)]
Table(op(_, _))  == <<>> \o [i \in 1..256 |-> Row(op, i - 1)]

Sums == Table(LAMBDA a, b : a ^^ b)

GfPlus(a, b) == Sums[a + 1][b + 1]

\* One shift in _gf_mul: x^8 is replaced by x^4 + x^3 + x + 1.
TimesX(a) == IF a >= 128 THEN GfPlus((2 * a) % 256, 27) ELSE 2 * a

\* The loop of _gf_mul: a is shifted left, b right.
Product[a \in GfByte, b \in GfByte] ==
    IF b = 0 THEN 0
    ELSE GfPlus(IF b % 2 = 1 THEN a ELSE 0, Product[TimesX(a), b \div 2])

Products == Table(LAMBDA a, b : Product[a, b])

GfMul(a, b) == Products[a + 1][b + 1]

\* The loop of _gf_inv, which raises base to the power exp.
Power[result \in GfByte, base \in GfByte, exp \in 0..254] ==
    IF exp = 0 THEN result
    ELSE Power[IF exp % 2 = 1 THEN GfMul(result, base) ELSE result,
               GfMul(base, base), exp \div 2]

Inverses == Row(LAMBDA a, b : Power[1, b, 254], 0)

\* _gf_inv, by Fermat's little theorem.
GfInv(a) == Inverses[a + 1]
=============================================================================
