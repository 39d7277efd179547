------------------------------- MODULE Shamir -------------------------------
(***************************************************************************)
(* Shamir's secret sharing as in whisper/crypto.py, for one byte of the    *)
(* key; every byte is shared the same way.  The operations of the field    *)
(* are parameters, Gf256 has the code's.  A loop is a function from the    *)
(* number of a pass to what the pass does to the accumulator.              *)
(***************************************************************************)
EXTENDS Integers, Sequences

CONSTANTS Plus(_, _),   \* a ^ b
          Times(_, _),  \* _gf_mul
          Inv(_)        \* _gf_inv

Byte == 0..255
Bit  == {1, 2, 4, 8, 16, 32, 64, 128}

\* Bytes are an Abelian group of exponent 2.  That sums may be regrouped is
\* asked for single bits only, as every byte is a sum of bits.
ASSUME SumAssumption ==
    /\ \A a, b \in Byte : Plus(a, b) \in Byte /\ Plus(a, b) = Plus(b, a)
    /\ \A a \in Byte : Plus(a, 0) = a /\ Plus(a, a) = 0
    /\ \A a, b \in Byte, e \in Bit : Plus(Plus(a, b), e) = Plus(a, Plus(b, e))
    /\ \A a \in Byte \ {0} : \E e \in Bit : e <= a /\ Plus(a - e, e) = a

\* Products, likewise; every byte but 0 has an inverse.
ASSUME ProductAssumption ==
    /\ \A a, b \in Byte : Times(a, b) \in Byte /\ Times(a, b) = Times(b, a)
    /\ \A a \in Byte : Times(a, 1) = a
    /\ \A a \in Byte \ {0} : Inv(a) \in Byte /\ Times(a, Inv(a)) = 1
    /\ \A a, b \in Byte, e \in Bit :
          /\ Times(Times(a, b), e) = Times(a, Times(b, e))
          /\ Times(a, Plus(b, e)) = Plus(Times(a, b), Times(a, e))

\* The accumulator after n passes.
Loop(start, step, n) ==
    LET acc[i \in 0..n] == IF i = 0 THEN start ELSE step[i][acc[i - 1]]
    IN  acc[n]

\* Mutant: shares are numbered from 0.
ShareFromZero(coeffs, x) ==
    Loop(0, [i \in DOMAIN coeffs |-> [v \in Byte |->
               Plus(Times(v, x - 1), coeffs[Len(coeffs) + 1 - i])]], Len(coeffs))

\* shamir_split at x, by Horner's rule; coeffs[1] is the secret.
Share(coeffs, x) ==
    Loop(0, [i \in DOMAIN coeffs |-> [v \in Byte |->
               Plus(Times(v, x), coeffs[Len(coeffs) + 1 - i])]], Len(coeffs))

\* Mutant: x_i and x_j are mixed up.
LagrangeSwapped(xs, i) ==
    Loop(1, [j \in DOMAIN xs |-> [v \in Byte |->
               IF j = i THEN v
               ELSE Times(v, Times(xs[i], Inv(Plus(xs[i], xs[j]))))]], Len(xs))

\* The basis polynomial of xs[i] at 0.
Lagrange(xs, i) ==
    Loop(1, [j \in DOMAIN xs |-> [v \in Byte |->
               IF j = i THEN v
               ELSE Times(v, Times(xs[j], Inv(Plus(xs[i], xs[j]))))]], Len(xs))

\* shamir_reconstruct.
Reconstruct(xs, ys) ==
    Loop(0, [i \in DOMAIN xs |-> [v \in Byte |->
               Plus(v, Times(ys[i], Lagrange(xs, i)))]], Len(xs))

\* Two shares with one number have _gf_inv raise ValueError.
Joinable(xs) == \A i, j \in DOMAIN xs : i # j => xs[i] # xs[j]

\* What reconstruct_and_decrypt needs of the shares xs of a secret split
\* with the coefficients coeffs: they give the secret back.
Opens(coeffs, xs) ==
    Joinable(xs) /\ Reconstruct(xs, [i \in DOMAIN xs |-> Share(coeffs, xs[i])]) = coeffs[1]

\* What share x of t may be for a key, over the random coefficients.
Possible(t, x, key) == {Share(<<key>> \o c, x) : c \in [1..t - 1 -> Byte]}
=============================================================================
