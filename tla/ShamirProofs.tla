---------------------------- MODULE ShamirProofs ----------------------------
(***************************************************************************)
(* Theorems about Shamir, for any field of bytes: shares with different    *)
(* numbers give the secret back if there are enough of them (SharesOpen),  *)
(* and one share alone may be any byte (ShareIsAnyByte).                   *)
(*                                                                         *)
(* The loops of the code are followed pass by pass.  That what             *)
(* shamir_reconstruct computes from the shares of a polynomial is its      *)
(* value at 0 is shown by induction on the number k of shares: dividing    *)
(* the polynomial by x + x_k leaves one with a coefficient less and the    *)
(* first k - 1 shares (JoinedShift, Division, NextPoly).                   *)
(***************************************************************************)
EXTENDS Shamir, WellFoundedInduction, TLAPS

-----------------------------------------------------------------------------
(* Induction, on sets: the library's theorems on it take an operator.      *)

\* A set of natural numbers has a least element.
LEMMA Least ==
    ASSUME NEW T \in SUBSET Nat, T # {}
    PROVE  \E x \in T : \A y \in T : x <= y
<1> DEFINE R == OpToRel(<, Nat)
<1>1. IsWellFoundedOn(R, Nat)
  BY NatLessThanWellFounded
<1>2. \A x, y \in Nat : x < y => <<x, y>> \in R
  BY DEF OpToRel
<1> HIDE DEF R
<1>3. PICK x \in T : \A y \in T : ~(<<y, x>> \in R)
  BY <1>1, WFMin
<1>4. \A y \in T : ~(y < x)
  BY <1>2, <1>3
<1> QED
  BY <1>3, <1>4

\* Induction up to n.
LEMMA UpTo ==
    ASSUME NEW n \in Nat, NEW T, 0 \in T,
           \A i \in 0..n - 1 : i \in T => i + 1 \in T
    PROVE  0..n \subseteq T
<1> DEFINE U == (0..n) \ T
<1> SUFFICES ASSUME U # {} PROVE FALSE
  OBVIOUS
<1>1. PICK x \in U : \A y \in U : x <= y
  <2>1. U \in SUBSET Nat
    OBVIOUS
  <2> HIDE DEF U
  <2> QED
    BY <2>1, Least
<1>2. x \in 1..n /\ x - 1 \in 0..n - 1 /\ x - 1 \notin U
  BY <1>1
<1>3. x - 1 \in T /\ (x - 1) + 1 = x
  BY <1>2
<1> QED
  BY <1>1, <1>2, <1>3

\* What holds of 0 and is kept by the addition of a bit holds of all bytes.
LEMMA BitByBit ==
    ASSUME NEW T, 0 \in T,
           \A a \in Byte, e \in Bit : a \in T => Plus(a, e) \in T
    PROVE  Byte \subseteq T
<1> DEFINE U == Byte \ T
<1> SUFFICES ASSUME U # {} PROVE FALSE
  OBVIOUS
<1>1. PICK x \in U : \A y \in U : x <= y
  <2>1. U \in SUBSET Nat
    BY DEF Byte
  <2> HIDE DEF U
  <2> QED
    BY <2>1, Least
<1>2. PICK e \in Bit : e <= x /\ Plus(x - e, e) = x
  BY <1>1, SumAssumption
<1>3. x - e \in Byte /\ ~(x <= x - e)
  BY <1>1, <1>2 DEF Byte, Bit
<1>4. x - e \in T
  BY <1>1, <1>3
<1> QED
  BY <1>1, <1>2, <1>3, <1>4

-----------------------------------------------------------------------------
(* The field.                                                              *)

LEMMA BitsAreBytes == Bit \subseteq Byte /\ 1 \in Bit /\ 0 \in Byte /\ 1 \in Byte
  BY DEF Bit, Byte

LEMMA PlusLaws ==
    /\ \A a, b \in Byte : Plus(a, b) \in Byte /\ Plus(a, b) = Plus(b, a)
    /\ \A a \in Byte : Plus(a, 0) = a /\ Plus(0, a) = a /\ Plus(a, a) = 0
  BY SumAssumption, BitsAreBytes

LEMMA PlusAssoc ==
    \A a, b, c \in Byte : Plus(Plus(a, b), c) = Plus(a, Plus(b, c))
<1> DEFINE T == {c \in Byte : \A a, b \in Byte :
                    Plus(Plus(a, b), c) = Plus(a, Plus(b, c))}
<1>1. 0 \in T
  BY PlusLaws, BitsAreBytes
<1>2. ASSUME NEW c \in Byte, NEW e \in Bit, c \in T PROVE Plus(c, e) \in T
  <2>1. e \in Byte /\ Plus(c, e) \in Byte
    BY BitsAreBytes, PlusLaws
  <2> SUFFICES ASSUME NEW a \in Byte, NEW b \in Byte
               PROVE  Plus(Plus(a, b), Plus(c, e)) = Plus(a, Plus(b, Plus(c, e)))
    BY <2>1
  <2>2. Plus(a, b) \in Byte /\ Plus(b, c) \in Byte
    BY PlusLaws
  <2>3. Plus(Plus(a, b), Plus(c, e)) = Plus(Plus(Plus(a, b), c), e)
    BY <2>2, SumAssumption
  <2>4. Plus(Plus(a, b), c) = Plus(a, Plus(b, c))
    BY <1>2
  <2>5. Plus(Plus(a, Plus(b, c)), e) = Plus(a, Plus(Plus(b, c), e))
    BY <2>2, SumAssumption
  <2>6. Plus(Plus(b, c), e) = Plus(b, Plus(c, e))
    BY SumAssumption
  <2> QED
    BY <2>3, <2>4, <2>5, <2>6
<1> HIDE DEF T
<1>3. Byte \subseteq T
  BY <1>1, <1>2, BitByBit
<1> QED
  BY <1>3 DEF T

LEMMA TimesLaws ==
    /\ \A a, b \in Byte : Times(a, b) \in Byte /\ Times(a, b) = Times(b, a)
    /\ \A a \in Byte : Times(a, 1) = a /\ Times(1, a) = a
    /\ \A a \in Byte : Times(a, 0) = 0 /\ Times(0, a) = 0
    /\ \A a \in Byte \ {0} : Inv(a) \in Byte /\ Times(a, Inv(a)) = 1
<1>1. /\ \A a, b \in Byte : Times(a, b) \in Byte /\ Times(a, b) = Times(b, a)
      /\ \A a \in Byte : Times(a, 1) = a
      /\ \A a \in Byte \ {0} : Inv(a) \in Byte /\ Times(a, Inv(a)) = 1
  BY ProductAssumption
<1>2. ASSUME NEW a \in Byte PROVE Times(a, 0) = 0
  <2>1. Plus(1, 1) = 0 /\ Times(a, 1) \in Byte
    BY <1>1, PlusLaws, BitsAreBytes
  <2>2. Times(a, Plus(1, 1)) = Plus(Times(a, 1), Times(a, 1))
    BY ProductAssumption, BitsAreBytes
  <2>3. Plus(Times(a, 1), Times(a, 1)) = 0
    BY <2>1, PlusLaws
  <2> QED
    BY <2>1, <2>2, <2>3
<1> QED
  BY <1>1, <1>2, BitsAreBytes

LEMMA Distributive ==
    \A a, b, c \in Byte : Times(a, Plus(b, c)) = Plus(Times(a, b), Times(a, c))
<1> DEFINE T == {c \in Byte : \A a, b \in Byte :
                    Times(a, Plus(b, c)) = Plus(Times(a, b), Times(a, c))}
<1>1. 0 \in T
  BY PlusLaws, TimesLaws, BitsAreBytes
<1>2. ASSUME NEW c \in Byte, NEW e \in Bit, c \in T PROVE Plus(c, e) \in T
  <2>1. e \in Byte /\ Plus(c, e) \in Byte
    BY BitsAreBytes, PlusLaws
  <2> SUFFICES ASSUME NEW a \in Byte, NEW b \in Byte
               PROVE  Times(a, Plus(b, Plus(c, e))) = Plus(Times(a, b), Times(a, Plus(c, e)))
    BY <2>1
  <2>2. /\ Plus(b, c) \in Byte /\ Times(a, b) \in Byte /\ Times(a, c) \in Byte
        /\ Times(a, e) \in Byte
    BY <2>1, PlusLaws, TimesLaws
  <2>3. Plus(b, Plus(c, e)) = Plus(Plus(b, c), e)
    BY SumAssumption
  <2>4. Times(a, Plus(Plus(b, c), e)) = Plus(Times(a, Plus(b, c)), Times(a, e))
    BY <2>2, ProductAssumption
  <2>5. Times(a, Plus(b, c)) = Plus(Times(a, b), Times(a, c))
    BY <1>2
  <2>6. Plus(Plus(Times(a, b), Times(a, c)), Times(a, e))
          = Plus(Times(a, b), Plus(Times(a, c), Times(a, e)))
    BY <2>2, PlusAssoc
  <2>7. Times(a, Plus(c, e)) = Plus(Times(a, c), Times(a, e))
    BY ProductAssumption
  <2> QED
    BY <2>3, <2>4, <2>5, <2>6, <2>7
<1> HIDE DEF T
<1>3. Byte \subseteq T
  BY <1>1, <1>2, BitByBit
<1> QED
  BY <1>3 DEF T

LEMMA TimesAssoc ==
    \A a, b, c \in Byte : Times(Times(a, b), c) = Times(a, Times(b, c))
<1> DEFINE T == {c \in Byte : \A a, b \in Byte :
                    Times(Times(a, b), c) = Times(a, Times(b, c))}
<1>1. 0 \in T
  BY TimesLaws, BitsAreBytes
<1>2. ASSUME NEW c \in Byte, NEW e \in Bit, c \in T PROVE Plus(c, e) \in T
  <2>1. e \in Byte /\ Plus(c, e) \in Byte
    BY BitsAreBytes, PlusLaws
  <2> SUFFICES ASSUME NEW a \in Byte, NEW b \in Byte
               PROVE  Times(Times(a, b), Plus(c, e)) = Times(a, Times(b, Plus(c, e)))
    BY <2>1
  <2>2. Times(a, b) \in Byte /\ Times(b, c) \in Byte /\ Times(b, e) \in Byte
    BY <2>1, TimesLaws
  <2>3. Times(Times(a, b), Plus(c, e)) = Plus(Times(Times(a, b), c), Times(Times(a, b), e))
    BY <2>1, <2>2, Distributive
  <2>4. Times(Times(a, b), c) = Times(a, Times(b, c))
    BY <1>2
  <2>5. Times(Times(a, b), e) = Times(a, Times(b, e))
    BY ProductAssumption
  <2>6. Times(a, Plus(Times(b, c), Times(b, e)))
          = Plus(Times(a, Times(b, c)), Times(a, Times(b, e)))
    BY <2>2, Distributive
  <2>7. Times(b, Plus(c, e)) = Plus(Times(b, c), Times(b, e))
    BY <2>1, Distributive
  <2> QED
    BY <2>3, <2>4, <2>5, <2>6, <2>7
<1> HIDE DEF T
<1>3. Byte \subseteq T
  BY <1>1, <1>2, BitByBit
<1> QED
  BY <1>3 DEF T

-----------------------------------------------------------------------------
(* Loops.                                                                  *)

\* f holds the accumulator of a loop after each of n passes.
IsRun(f, start, step, n) ==
    f = [i \in 0..n |-> IF i = 0 THEN start ELSE step[i][f[i - 1]]]

\* A loop that goes through bytes has such a function.
LEMMA RunExists ==
    ASSUME NEW start \in Byte, NEW n \in Nat, NEW step,
           \A i \in 1..n, v \in Byte : step[i][v] \in Byte
    PROVE  \E f \in [0..n -> Byte] : IsRun(f, start, step, n)
<1> DEFINE T == {k \in 0..n : \E f \in [0..k -> Byte] : IsRun(f, start, step, k)}
<1>1. 0 \in T
  <2> DEFINE f == [i \in 0..0 |-> start]
  <2>1. f \in [0..0 -> Byte] /\ IsRun(f, start, step, 0)
    BY DEF IsRun
  <2> QED
    BY <2>1
<1>2. ASSUME NEW k \in 0..n - 1, k \in T PROVE k + 1 \in T
  <2>1. PICK f \in [0..k -> Byte] : IsRun(f, start, step, k)
    BY <1>2
  <2> DEFINE g == [i \in 0..k + 1 |-> IF i = k + 1 THEN step[k + 1][f[k]] ELSE f[i]]
  <2>2. k \in 0..k /\ k + 1 \in 1..n /\ k + 1 \in 0..n /\ f[k] \in Byte
    OBVIOUS
  <2>3. g \in [0..k + 1 -> Byte]
    BY <2>2
  <2>4. ASSUME NEW i \in 0..k + 1
        PROVE  g[i] = IF i = 0 THEN start ELSE step[i][g[i - 1]]
    <3>1. CASE i = k + 1
      BY <2>2, <3>1
    <3>2. CASE i \in 0..k
      <4>1. f[i] = IF i = 0 THEN start ELSE step[i][f[i - 1]]
        BY <2>1, <3>2 DEF IsRun
      <4> QED
        BY <3>2, <4>1
    <3> QED
      BY <3>1, <3>2
  <2>5. IsRun(g, start, step, k + 1)
    BY <2>4 DEF IsRun
  <2> QED
    BY <2>2, <2>3, <2>5
<1> HIDE DEF T
<1>3. n \in T
  BY <1>1, <1>2, UpTo
<1> QED
  BY <1>3 DEF T

\* Runs of one loop agree as far as they go.
LEMMA RunUnique ==
    ASSUME NEW start, NEW step, NEW n \in Nat, NEW m \in Nat, n <= m,
           NEW f, NEW g, IsRun(f, start, step, n), IsRun(g, start, step, m)
    PROVE  \A i \in 0..n : f[i] = g[i]
<1> DEFINE T == {i \in 0..n : f[i] = g[i]}
<1>0. /\ \A i \in 0..n : f[i] = IF i = 0 THEN start ELSE step[i][f[i - 1]]
      /\ \A i \in 0..m : g[i] = IF i = 0 THEN start ELSE step[i][g[i - 1]]
  BY DEF IsRun
<1>1. 0 \in T
  BY <1>0
<1>2. ASSUME NEW k \in 0..n - 1, k \in T PROVE k + 1 \in T
  <2>1. k + 1 \in 0..n /\ k + 1 \in 0..m /\ (k + 1) - 1 = k /\ k + 1 # 0
    OBVIOUS
  <2>2. f[k + 1] = step[k + 1][f[k]] /\ g[k + 1] = step[k + 1][g[k]]
    BY <1>0, <2>1
  <2> QED
    BY <1>2, <2>1, <2>2
<1> HIDE DEF T
<1>3. 0..n \subseteq T
  BY <1>1, <1>2, UpTo
<1> QED
  BY <1>3 DEF T

\* The passes of a loop go from bytes to bytes.
ByteSteps(step, n) == \A i \in 1..n, v \in Byte : step[i][v] \in Byte

\* What a loop computes, pass by pass.
Passes(start, step, n) ==
    /\ Loop(start, step, 0) = start
    /\ \A k \in 0..n : Loop(start, step, k) \in Byte
    /\ \A k \in 1..n : Loop(start, step, k) = step[k][Loop(start, step, k - 1)]

LEMMA LoopFacts ==
    \A start \in Byte, n \in Nat : \A step : ByteSteps(step, n) => Passes(start, step, n)
<1> SUFFICES ASSUME NEW start \in Byte, NEW n \in Nat, NEW step,
                    \A i \in 1..n, v \in Byte : step[i][v] \in Byte
             PROVE  Passes(start, step, n)
  BY DEF ByteSteps
<1>1. ASSUME NEW k \in 0..n
      PROVE  \E f \in [0..k -> Byte] : IsRun(f, start, step, k) /\ Loop(start, step, k) = f[k]
  <2> DEFINE h == CHOOSE f : IsRun(f, start, step, k)
  <2>0. k \in Nat /\ \A i \in 1..k, v \in Byte : step[i][v] \in Byte
    OBVIOUS
  <2>1. \E f \in [0..k -> Byte] : IsRun(f, start, step, k)
    <3> HIDE DEF h
    <3> QED BY <2>0, RunExists
  <2>2. IsRun(h, start, step, k)
    BY <2>1
  <2>3. Loop(start, step, k) = h[k]
    BY DEF Loop, IsRun
  <2>4. PICK f \in [0..k -> Byte] : IsRun(f, start, step, k)
    BY <2>1
  <2> HIDE DEF h
  <2>5. f[k] = h[k]
    BY <2>2, <2>4, RunUnique
  <2> QED
    BY <2>3, <2>4, <2>5
<1>2. Loop(start, step, 0) = start
  <2>1. PICK f \in [0..0 -> Byte] : IsRun(f, start, step, 0) /\ Loop(start, step, 0) = f[0]
    <3>1. 0 \in 0..n
      OBVIOUS
    <3> QED BY <1>1, <3>1
  <2>2. f[0] = start
    BY <2>1 DEF IsRun
  <2> QED
    BY <2>1, <2>2
<1>3. \A k \in 0..n : Loop(start, step, k) \in Byte
  BY <1>1
<1>4. ASSUME NEW k \in 1..n
      PROVE  Loop(start, step, k) = step[k][Loop(start, step, k - 1)]
  <2>1. k - 1 \in 0..n /\ k \in 0..n
    OBVIOUS
  <2>2. PICK f \in [0..k -> Byte] : IsRun(f, start, step, k) /\ Loop(start, step, k) = f[k]
    BY <1>1, <2>1
  <2>3. PICK g \in [0..k - 1 -> Byte] :
           IsRun(g, start, step, k - 1) /\ Loop(start, step, k - 1) = g[k - 1]
    BY <1>1, <2>1
  <2>4. g[k - 1] = f[k - 1]
    BY <2>2, <2>3, RunUnique
  <2>5. f[k] = step[k][f[k - 1]]
    BY <2>2 DEF IsRun
  <2> QED
    BY <2>2, <2>3, <2>4, <2>5
<1> QED
  BY <1>2, <1>3, <1>4 DEF Passes

-----------------------------------------------------------------------------
(* Equations of bytes.                                                     *)

LEMMA SumNotZero ==
    \A a, b \in Byte : a # b => Plus(a, b) \in Byte \ {0}
<1> SUFFICES ASSUME NEW a \in Byte, NEW b \in Byte, Plus(a, b) = 0 PROVE a = b
  BY PlusLaws
<1>1. Plus(Plus(a, b), b) = Plus(a, Plus(b, b))
  BY PlusAssoc
<1> QED
  BY <1>1, PlusLaws

\* A term is taken to the other side.
LEMMA Moved ==
    \A a, b, c \in Byte : Plus(a, b) = c => a = Plus(c, b)
<1> SUFFICES ASSUME NEW a \in Byte, NEW b \in Byte PROVE a = Plus(Plus(a, b), b)
  OBVIOUS
<1>1. Plus(Plus(a, b), b) = Plus(a, Plus(b, b))
  BY PlusAssoc
<1> QED
  BY <1>1, PlusLaws

LEMMA PlusFour ==
    \A a, b, c, d \in Byte :
        Plus(Plus(a, b), Plus(c, d)) = Plus(Plus(a, c), Plus(b, d))
<1> SUFFICES ASSUME NEW a \in Byte, NEW b \in Byte, NEW c \in Byte, NEW d \in Byte
             PROVE  Plus(Plus(a, b), Plus(c, d)) = Plus(Plus(a, c), Plus(b, d))
  OBVIOUS
<1>1. Plus(c, d) \in Byte /\ Plus(b, d) \in Byte
  BY PlusLaws
<1>2. Plus(Plus(a, b), Plus(c, d)) = Plus(a, Plus(b, Plus(c, d)))
  BY <1>1, PlusAssoc
<1>3. Plus(b, Plus(c, d)) = Plus(c, Plus(b, d))
  <2>1. Plus(Plus(b, c), d) = Plus(b, Plus(c, d)) /\ Plus(Plus(c, b), d) = Plus(c, Plus(b, d))
    BY PlusAssoc
  <2>2. Plus(b, c) = Plus(c, b)
    BY PlusLaws
  <2> QED
    BY <2>1, <2>2
<1>4. Plus(a, Plus(c, Plus(b, d))) = Plus(Plus(a, c), Plus(b, d))
  BY <1>1, PlusAssoc
<1> QED
  BY <1>2, <1>3, <1>4

LEMMA TimesLeft ==
    \A a, b, c \in Byte : Times(a, Times(b, c)) = Times(b, Times(a, c))
<1> SUFFICES ASSUME NEW a \in Byte, NEW b \in Byte, NEW c \in Byte
             PROVE  Times(a, Times(b, c)) = Times(b, Times(a, c))
  OBVIOUS
<1>1. Times(Times(a, b), c) = Times(a, Times(b, c)) /\ Times(Times(b, a), c) = Times(b, Times(a, c))
  BY TimesAssoc
<1> QED
  BY <1>1, TimesLaws

\* A factor cancels.
LEMMA Cancelled ==
    \A a \in Byte \ {0}, f, b, c \in Byte :
        Times(Times(a, f), Times(b, Times(c, Inv(a)))) = Times(c, Times(f, b))
<1> SUFFICES ASSUME NEW a \in Byte \ {0}, NEW f \in Byte, NEW b \in Byte, NEW c \in Byte
             PROVE  Times(Times(a, f), Times(b, Times(c, Inv(a)))) = Times(c, Times(f, b))
  OBVIOUS
<1> DEFINE i == Inv(a)
<1>1. i \in Byte /\ Times(a, i) = 1 /\ a \in Byte
  BY TimesLaws
<1> HIDE DEF i
<1>2. /\ Times(f, b) \in Byte /\ Times(c, i) \in Byte /\ Times(b, i) \in Byte
      /\ Times(f, a) \in Byte /\ Times(a, f) = Times(f, a)
      /\ Times(c, Times(b, i)) \in Byte /\ Times(a, Times(b, i)) \in Byte
  BY <1>1, TimesLaws
<1>3. Times(b, Times(c, i)) = Times(c, Times(b, i))
  BY <1>1, TimesLeft
<1>4. Times(Times(f, a), Times(c, Times(b, i))) = Times(c, Times(Times(f, a), Times(b, i)))
  BY <1>2, TimesLeft
<1>5. Times(Times(f, a), Times(b, i)) = Times(f, Times(a, Times(b, i)))
  BY <1>1, <1>2, TimesAssoc
<1>6. Times(a, Times(b, i)) = Times(b, Times(a, i))
  BY <1>1, TimesLeft
<1>7. Times(b, Times(a, i)) = b
  BY <1>1, TimesLaws
<1> QED
  BY <1>2, <1>3, <1>4, <1>5, <1>6, <1>7 DEF i

\* c / (x + c) = 1 + x / (x + c)
LEMMA PartOfSum ==
    \A x, c \in Byte : x # c =>
        Times(c, Inv(Plus(x, c))) = Plus(1, Times(x, Inv(Plus(x, c))))
<1> SUFFICES ASSUME NEW x \in Byte, NEW c \in Byte, x # c
             PROVE  Times(c, Inv(Plus(x, c))) = Plus(1, Times(x, Inv(Plus(x, c))))
  OBVIOUS
<1> DEFINE i == Inv(Plus(x, c))
<1>1. i \in Byte /\ Times(Plus(x, c), i) = 1
  BY SumNotZero, TimesLaws
<1> HIDE DEF i
<1>2. /\ Times(i, Plus(x, c)) = Times(Plus(x, c), i)
      /\ Times(i, x) = Times(x, i) /\ Times(i, c) = Times(c, i)
  BY <1>1, PlusLaws, TimesLaws
<1>3. Times(i, Plus(x, c)) = Plus(Times(i, x), Times(i, c))
  BY <1>1, Distributive
<1>4. Plus(Times(c, i), Times(x, i)) = 1
  BY <1>1, <1>2, <1>3, PlusLaws, TimesLaws
<1>5. Times(c, i) = Plus(1, Times(x, i))
  BY <1>1, <1>4, Moved, TimesLaws, BitsAreBytes
<1> QED
  BY <1>5 DEF i

\* With h = x / (x + z):  (x + w) h = x + (z + w) h
LEMMA Shifted ==
    \A x, z, w \in Byte : x # z =>
        LET h == Times(x, Inv(Plus(x, z)))
        IN  Times(Plus(x, w), h) = Plus(x, Times(Plus(z, w), h))
<1> SUFFICES ASSUME NEW x \in Byte, NEW z \in Byte, NEW w \in Byte, x # z
             PROVE  Times(Plus(x, w), Times(x, Inv(Plus(x, z))))
                      = Plus(x, Times(Plus(z, w), Times(x, Inv(Plus(x, z)))))
  BY Zenon
<1> DEFINE i == Inv(Plus(x, z))
<1> DEFINE h == Times(x, i)
<1>1. i \in Byte /\ Times(Plus(x, z), i) = 1 /\ Plus(x, z) \in Byte /\ Plus(z, w) \in Byte
  BY SumNotZero, TimesLaws, PlusLaws
<1> HIDE DEF i
<1>2. h \in Byte
  BY <1>1, TimesLaws
<1>3. Times(Plus(x, z), h) = x
  <2>1. Times(Plus(x, z), Times(x, i)) = Times(x, Times(Plus(x, z), i))
    BY <1>1, TimesLeft
  <2> QED
    BY <1>1, <2>1, TimesLaws
<1> HIDE DEF h
<1>4. Plus(x, w) = Plus(Plus(x, z), Plus(z, w))
  <2>1. Plus(Plus(x, z), Plus(z, w)) = Plus(x, Plus(z, Plus(z, w)))
    BY <1>1, PlusAssoc
  <2>2. Plus(z, Plus(z, w)) = Plus(Plus(z, z), w)
    BY PlusAssoc
  <2> QED
    BY <2>1, <2>2, PlusLaws
<1>5. Times(h, Plus(Plus(x, z), Plus(z, w))) = Plus(Times(h, Plus(x, z)), Times(h, Plus(z, w)))
  BY <1>1, <1>2, Distributive
<1>6. /\ Times(h, Plus(x, z)) = Times(Plus(x, z), h)
      /\ Times(h, Plus(z, w)) = Times(Plus(z, w), h)
      /\ Times(h, Plus(x, w)) = Times(Plus(x, w), h)
  BY <1>1, <1>2, TimesLaws, PlusLaws
<1> QED
  BY <1>3, <1>4, <1>5, <1>6 DEF h, i

\* From u s = w b:  s = b w / u
LEMMA Divided ==
    \A u \in Byte \ {0}, s, w, b \in Byte :
        Times(u, s) = Times(w, b) => s = Times(b, Times(w, Inv(u)))
<1> SUFFICES ASSUME NEW u \in Byte \ {0}, NEW s \in Byte, NEW w \in Byte, NEW b \in Byte,
                    Times(u, s) = Times(w, b)
             PROVE  s = Times(b, Times(w, Inv(u)))
  OBVIOUS
<1> DEFINE i == Inv(u)
<1>1. i \in Byte /\ Times(u, i) = 1 /\ u \in Byte
  BY TimesLaws
<1> HIDE DEF i
<1>2. Times(i, Times(u, s)) = Times(Times(i, u), s)
  BY <1>1, TimesAssoc
<1>3. Times(Times(i, u), s) = s
  BY <1>1, TimesLaws
<1>4. Times(i, Times(w, b)) = Times(Times(i, w), b)
  BY <1>1, TimesAssoc
<1>5. Times(Times(i, w), b) = Times(b, Times(w, i))
  BY <1>1, TimesLaws
<1> QED
  BY <1>2, <1>3, <1>4, <1>5 DEF i

-----------------------------------------------------------------------------
(* Sums over the first shares of a list of different numbers.              *)

Points(xs) == xs \in Seq(Byte \ {0}) /\ Joinable(xs)

ByteFun == [Byte -> Byte]

\* The basis polynomial of z at 0, over the first k points.
BasisStep(xs, z) ==
    [j \in DOMAIN xs |-> [v \in Byte |->
        IF xs[j] = z THEN v ELSE Times(v, Times(xs[j], Inv(Plus(z, xs[j]))))]]

Basis(xs, z, k) == Loop(1, BasisStep(xs, z), k)

\* The first j terms of what the first k shares of g are joined to.
SumStep(xs, g, k) ==
    [i \in DOMAIN xs |-> [v \in Byte |-> Plus(v, Times(g[xs[i]], Basis(xs, xs[i], k)))]]

PartialSum(xs, g, k, j) == Loop(0, SumStep(xs, g, k), j)

Joined(xs, g, k) == PartialSum(xs, g, k, k)

LEMMA PointFacts ==
    ASSUME NEW xs, Points(xs)
    PROVE  /\ Len(xs) \in Nat /\ DOMAIN xs = 1..Len(xs)
           /\ \A i \in 1..Len(xs) : xs[i] \in Byte /\ xs[i] # 0
           /\ \A i, j \in 1..Len(xs) : i # j => xs[i] # xs[j]
<1>1. xs \in Seq(Byte \ {0})
  BY DEF Points
<1>2. Len(xs) \in Nat /\ DOMAIN xs = 1..Len(xs) /\ \A i \in 1..Len(xs) : xs[i] \in Byte \ {0}
  BY <1>1
<1> QED
  BY <1>2 DEF Points, Joinable

LEMMA BasisFacts ==
    ASSUME NEW xs, Points(xs), NEW z \in Byte
    PROVE  /\ Basis(xs, z, 0) = 1
           /\ \A k \in 0..Len(xs) : Basis(xs, z, k) \in Byte
           /\ \A k \in 1..Len(xs) :
                 Basis(xs, z, k) =
                    IF xs[k] = z THEN Basis(xs, z, k - 1)
                    ELSE Times(Basis(xs, z, k - 1), Times(xs[k], Inv(Plus(z, xs[k]))))
<1> DEFINE n    == Len(xs)
           step == BasisStep(xs, z)
<1>1. n \in Nat /\ DOMAIN xs = 1..n /\ \A i \in 1..n : xs[i] \in Byte
  BY PointFacts
<1>2. \A i \in 1..n, v \in Byte :
         step[i][v] = IF xs[i] = z THEN v ELSE Times(v, Times(xs[i], Inv(Plus(z, xs[i]))))
  BY <1>1 DEF BasisStep
<1>3. ASSUME NEW i \in 1..n, NEW v \in Byte PROVE step[i][v] \in Byte
  <2>1. CASE xs[i] = z
    BY <1>2, <2>1
  <2>2. CASE xs[i] # z
    <3>1. Inv(Plus(z, xs[i])) \in Byte
      BY <1>1, <2>2, SumNotZero, TimesLaws
    <3>2. Times(v, Times(xs[i], Inv(Plus(z, xs[i])))) \in Byte
      BY <1>1, <3>1, TimesLaws
    <3> QED
      BY <1>2, <2>2, <3>2
  <2> QED
    BY <2>1, <2>2
<1> HIDE DEF step, n
<1>4. Passes(1, step, n)
  <2>1. ByteSteps(step, n)
    BY <1>3 DEF ByteSteps
  <2> QED
    BY <1>1, <2>1, LoopFacts, BitsAreBytes
<1>5. \A k \in 1..n : Loop(1, step, k - 1) \in Byte
  <2>1. \A k \in 1..n : k - 1 \in 0..n
    BY <1>1
  <2> QED
    BY <1>4, <2>1 DEF Passes
<1> QED
  BY <1>2, <1>4, <1>5 DEF Passes, Basis, step, n

LEMMA SumFacts ==
    ASSUME NEW xs, Points(xs), NEW g \in ByteFun, NEW k \in 0..Len(xs)
    PROVE  /\ PartialSum(xs, g, k, 0) = 0
           /\ \A j \in 0..Len(xs) : PartialSum(xs, g, k, j) \in Byte
           /\ \A j \in 1..Len(xs) :
                 PartialSum(xs, g, k, j) =
                    Plus(PartialSum(xs, g, k, j - 1), Times(g[xs[j]], Basis(xs, xs[j], k)))
<1> DEFINE n    == Len(xs)
           step == SumStep(xs, g, k)
<1>1. n \in Nat /\ DOMAIN xs = 1..n /\ \A i \in 1..n : xs[i] \in Byte
  BY PointFacts
<1>2. \A i \in 1..n, v \in Byte :
         step[i][v] = Plus(v, Times(g[xs[i]], Basis(xs, xs[i], k)))
  BY <1>1 DEF SumStep
<1>3. ASSUME NEW i \in 1..n, NEW v \in Byte PROVE step[i][v] \in Byte
  <2>1. g[xs[i]] \in Byte /\ Basis(xs, xs[i], k) \in Byte
    BY <1>1, BasisFacts DEF ByteFun
  <2> QED
    BY <1>2, <2>1, PlusLaws, TimesLaws
<1> HIDE DEF step, n
<1>4. Passes(0, step, n)
  <2>1. ByteSteps(step, n)
    BY <1>3 DEF ByteSteps
  <2> QED
    BY <1>1, <2>1, LoopFacts, BitsAreBytes
<1>5. \A j \in 1..n : Loop(0, step, j - 1) \in Byte
  <2>1. \A j \in 1..n : j - 1 \in 0..n
    BY <1>1
  <2> QED
    BY <1>4, <2>1 DEF Passes
<1> QED
  BY <1>2, <1>4, <1>5 DEF Passes, PartialSum, step, n

\* Sums are linear, term by term, also between numbers of shares.
LEMMA SumsCompare ==
    ASSUME NEW xs, Points(xs), NEW k \in 0..Len(xs), NEW l \in 0..Len(xs),
           NEW h \in ByteFun, NEW u \in ByteFun, NEW v \in ByteFun, NEW c \in Byte,
           NEW m \in 0..Len(xs),
           \A i \in 1..m :
              Times(h[xs[i]], Basis(xs, xs[i], k))
                = Plus(Times(u[xs[i]], Basis(xs, xs[i], l)),
                       Times(c, Times(v[xs[i]], Basis(xs, xs[i], l))))
    PROVE  PartialSum(xs, h, k, m)
             = Plus(PartialSum(xs, u, l, m), Times(c, PartialSum(xs, v, l, m)))
<1> DEFINE H(j) == PartialSum(xs, h, k, j)
           U(j) == PartialSum(xs, u, l, j)
           V(j) == PartialSum(xs, v, l, j)
           T    == {j \in 0..m : H(j) = Plus(U(j), Times(c, V(j)))}
<1>1. m \in Nat /\ 0..m \subseteq 0..Len(xs)
  BY PointFacts
<1>2. 0 \in T
  <2>1. H(0) = 0 /\ U(0) = 0 /\ V(0) = 0
    BY SumFacts
  <2>2. Plus(0, Times(c, 0)) = 0
    BY TimesLaws, PlusLaws, BitsAreBytes
  <2> QED
    BY <1>1, <2>1, <2>2
<1>3. ASSUME NEW i \in 0..m - 1, i \in T PROVE i + 1 \in T
  <2> DEFINE j  == i + 1
             a  == Times(u[xs[j]], Basis(xs, xs[j], l))
             b  == Times(v[xs[j]], Basis(xs, xs[j], l))
             dd == Times(h[xs[j]], Basis(xs, xs[j], k))
  <2>1. j \in 1..m /\ j \in 1..Len(xs) /\ j - 1 = i /\ i \in 0..Len(xs)
    BY <1>1, PointFacts
  <2>2. dd = Plus(a, Times(c, b))
    BY <2>1
  <2>3. a \in Byte /\ b \in Byte
    <3>1. xs[j] \in Byte
      BY <2>1, PointFacts
    <3>2. u[xs[j]] \in Byte /\ v[xs[j]] \in Byte
      BY <3>1 DEF ByteFun
    <3>3. Basis(xs, xs[j], l) \in Byte
      BY <3>1, BasisFacts
    <3> QED
      BY <3>2, <3>3, TimesLaws
  <2>4. H(j) = Plus(H(i), dd) /\ U(j) = Plus(U(i), a) /\ V(j) = Plus(V(i), b)
    <3> HIDE DEF j
    <3> QED
      BY <2>1, SumFacts
  <2>5. H(i) \in Byte /\ U(i) \in Byte /\ V(i) \in Byte
    BY <2>1, SumFacts
  <2>6. H(i) = Plus(U(i), Times(c, V(i)))
    BY <1>3
  <2> HIDE DEF a, b, dd, H, U, V, T
  <2>7. Times(c, Plus(V(i), b)) = Plus(Times(c, V(i)), Times(c, b))
    BY <2>3, <2>5, Distributive
  <2>8. Times(c, V(i)) \in Byte /\ Times(c, b) \in Byte
    BY <2>3, <2>5, TimesLaws
  <2>9. Plus(Plus(U(i), Times(c, V(i))), Plus(a, Times(c, b)))
          = Plus(Plus(U(i), a), Plus(Times(c, V(i)), Times(c, b)))
    BY <2>3, <2>5, <2>8, PlusFour
  <2>10. H(j) = Plus(U(j), Times(c, V(j)))
    BY <2>2, <2>4, <2>6, <2>7, <2>9
  <2> QED
    BY <2>1, <2>10 DEF T
<1> HIDE DEF T
<1>4. 0..m \subseteq T
  BY <1>1, <1>2, <1>3, UpTo
<1> QED
  BY <1>1, <1>4 DEF T

Zero == [x \in Byte |-> 0]
One  == [x \in Byte |-> 1]
Same == [x \in Byte |-> x]

\* x / (x + z)
Part(z) == [x \in Byte |-> IF x = z THEN 0 ELSE Times(x, Inv(Plus(x, z)))]

LEMMA FunFacts ==
    /\ Zero \in ByteFun /\ One \in ByteFun /\ Same \in ByteFun
    /\ \A z \in Byte : Part(z) \in ByteFun
<1>1. Zero \in ByteFun /\ One \in ByteFun /\ Same \in ByteFun
  BY BitsAreBytes DEF Zero, One, Same, ByteFun
<1>2. ASSUME NEW z \in Byte PROVE Part(z) \in ByteFun
  <2>1. ASSUME NEW x \in Byte, x # z PROVE Times(x, Inv(Plus(x, z))) \in Byte
    BY <2>1, SumNotZero, TimesLaws
  <2> QED
    BY <2>1, BitsAreBytes DEF Part, ByteFun
<1> QED
  BY <1>1, <1>2

LEMMA SumOfZero ==
    ASSUME NEW xs, Points(xs), NEW k \in 0..Len(xs), NEW m \in 0..Len(xs)
    PROVE  PartialSum(xs, Zero, k, m) = 0
<1> DEFINE P == PartialSum(xs, Zero, k, m)
<1>1. ASSUME NEW i \in 1..m
      PROVE  Times(Zero[xs[i]], Basis(xs, xs[i], k))
               = Plus(Times(Zero[xs[i]], Basis(xs, xs[i], k)),
                      Times(1, Times(Zero[xs[i]], Basis(xs, xs[i], k))))
  <2>1. xs[i] \in Byte
    BY PointFacts
  <2>2. Basis(xs, xs[i], k) \in Byte
    BY <2>1, BasisFacts
  <2>3. Zero[xs[i]] = 0 /\ Times(0, Basis(xs, xs[i], k)) = 0
    BY <2>1, <2>2, TimesLaws DEF Zero
  <2> QED
    BY <2>3, TimesLaws, PlusLaws, BitsAreBytes
<1>2. P = Plus(P, Times(1, P))
  BY <1>1, FunFacts, SumsCompare, BitsAreBytes
<1>3. P \in Byte
  BY FunFacts, SumFacts
<1> HIDE DEF P
<1>4. P = 0
  BY <1>2, <1>3, TimesLaws, PlusLaws
<1> QED
  BY <1>4 DEF P

LEMMA JoinedLinear ==
    ASSUME NEW xs, Points(xs), NEW k \in 0..Len(xs),
           NEW h \in ByteFun, NEW u \in ByteFun, NEW v \in ByteFun, NEW c \in Byte,
           \A i \in 1..k : h[xs[i]] = Plus(u[xs[i]], Times(c, v[xs[i]]))
    PROVE  Joined(xs, h, k) = Plus(Joined(xs, u, k), Times(c, Joined(xs, v, k)))
<1>1. ASSUME NEW i \in 1..k
      PROVE  Times(h[xs[i]], Basis(xs, xs[i], k))
               = Plus(Times(u[xs[i]], Basis(xs, xs[i], k)),
                      Times(c, Times(v[xs[i]], Basis(xs, xs[i], k))))
  <2> DEFINE a == u[xs[i]]
             b == v[xs[i]]
             s == Basis(xs, xs[i], k)
  <2>1. xs[i] \in Byte
    BY PointFacts
  <2>2. a \in Byte /\ b \in Byte /\ s \in Byte
    BY <2>1, BasisFacts DEF ByteFun
  <2>3. h[xs[i]] = Plus(a, Times(c, b))
    OBVIOUS
  <2> HIDE DEF a, b, s
  <2>4. Times(c, b) \in Byte /\ Plus(a, Times(c, b)) \in Byte
    BY <2>2, PlusLaws, TimesLaws
  <2>5. Times(s, Plus(a, Times(c, b))) = Plus(Times(s, a), Times(s, Times(c, b)))
    BY <2>2, <2>4, Distributive
  <2>6. Times(s, Times(c, b)) = Times(c, Times(s, b))
    BY <2>2, TimesLeft
  <2>7. /\ Times(s, Plus(a, Times(c, b))) = Times(Plus(a, Times(c, b)), s)
        /\ Times(s, a) = Times(a, s) /\ Times(s, b) = Times(b, s)
    BY <2>2, <2>4, TimesLaws
  <2> QED
    BY <2>3, <2>5, <2>6, <2>7 DEF a, b, s
<1> QED
  BY <1>1, SumsCompare DEF Joined

\* The factor x + x_k takes away the last point.
LEMMA JoinedShift ==
    ASSUME NEW xs, Points(xs), NEW k \in 1..Len(xs),
           NEW h \in ByteFun, NEW f \in ByteFun,
           \A i \in 1..k : h[xs[i]] = Times(Plus(xs[i], xs[k]), f[xs[i]])
    PROVE  Joined(xs, h, k) = Times(xs[k], Joined(xs, f, k - 1))
<1> DEFINE w == xs[k]
           l == k - 1
<1>1. l \in 0..Len(xs) /\ k \in 0..Len(xs) /\ w \in Byte /\ k \in Nat
  BY PointFacts
<1>2. ASSUME NEW i \in 1..l
      PROVE  Times(h[xs[i]], Basis(xs, xs[i], k))
               = Plus(Times(Zero[xs[i]], Basis(xs, xs[i], l)),
                      Times(w, Times(f[xs[i]], Basis(xs, xs[i], l))))
  <2> DEFINE x == xs[i]
             b == Basis(xs, x, l)
  <2>1. i \in 1..Len(xs) /\ i \in 1..k /\ i # k
    BY <1>1, PointFacts
  <2>2. x \in Byte /\ x # w
    BY <2>1, PointFacts
  <2>3. b \in Byte /\ f[x] \in Byte
    BY <1>1, <2>2, BasisFacts DEF ByteFun
  <2>4. Basis(xs, x, k) = Times(b, Times(w, Inv(Plus(x, w))))
    <3> HIDE DEF x
    <3> QED
      BY <2>2, BasisFacts
  <2>5. h[x] = Times(Plus(x, w), f[x])
    BY <2>1
  <2>6. Zero[x] = 0
    BY <2>2 DEF Zero
  <2> HIDE DEF x, b, w
  <2>7. Times(h[x], Basis(xs, x, k)) = Times(w, Times(f[x], b))
    BY <1>1, <2>2, <2>3, <2>4, <2>5, SumNotZero, Cancelled
  <2>8. Times(w, Times(f[x], b)) \in Byte
    BY <1>1, <2>3, TimesLaws
  <2> QED
    BY <2>3, <2>6, <2>7, <2>8, PlusLaws, TimesLaws DEF x, b
<1> DEFINE H(j) == PartialSum(xs, h, k, j)
           F(j) == PartialSum(xs, f, l, j)
<1>3. H(l) = Plus(PartialSum(xs, Zero, l, l), Times(w, F(l)))
  <2> HIDE DEF w, l
  <2> QED
    BY <1>1, <1>2, FunFacts, SumsCompare
<1>4. PartialSum(xs, Zero, l, l) = 0
  BY <1>1, SumOfZero
<1>5. H(k) = Plus(H(l), Times(h[w], Basis(xs, w, k)))
  BY <1>1, SumFacts
<1>6. F(l) \in Byte /\ H(l) \in Byte /\ Basis(xs, w, k) \in Byte /\ f[w] \in Byte
  BY <1>1, SumFacts, BasisFacts DEF ByteFun
<1>7. h[w] = Times(Plus(w, w), f[w])
  BY <1>1
<1>8. Times(h[w], Basis(xs, w, k)) = 0
  BY <1>1, <1>6, <1>7, PlusLaws, TimesLaws
<1>9. H(k) = Times(w, F(l))
  <2> HIDE DEF w, H, F
  <2> QED
    BY <1>1, <1>3, <1>4, <1>5, <1>6, <1>8, PlusLaws, TimesLaws
<1> QED
  BY <1>9 DEF Joined

-----------------------------------------------------------------------------
(* What 1, and x / (x + z), are joined to.                                 *)

\* z is none of the first k points.
Outside(xs, z, k) == \A i \in 1..k : xs[i] # z

JoinsOne(xs, k) == Joined(xs, One, k) = 1

JoinsPart(xs, k) ==
    \A z \in Byte \ {0} : Outside(xs, z, k) => Joined(xs, Part(z), k) = Basis(xs, z, k)

LEMMA FirstPoint ==
    ASSUME NEW xs, Points(xs), 1 <= Len(xs)
    PROVE  JoinsOne(xs, 1) /\ JoinsPart(xs, 1)
<1> DEFINE w == xs[1]
<1>0. 1 \in 1..Len(xs) /\ 1 \in 0..Len(xs) /\ 1 - 1 = 0 /\ w \in Byte
  BY PointFacts
<1>1. Basis(xs, w, 1) = 1
  BY <1>0, BasisFacts
<1>2. ASSUME NEW g \in ByteFun PROVE Joined(xs, g, 1) = g[w]
  <2>1. PartialSum(xs, g, 1, 0) = 0
    BY <1>0, SumFacts
  <2>2. PartialSum(xs, g, 1, 1) = Plus(PartialSum(xs, g, 1, 0), Times(g[w], Basis(xs, w, 1)))
    BY <1>0, SumFacts
  <2>3. g[w] \in Byte
    BY <1>0 DEF ByteFun
  <2> HIDE DEF w
  <2> QED
    BY <1>1, <2>1, <2>2, <2>3, PlusLaws, TimesLaws DEF Joined
<1>3. JoinsOne(xs, 1)
  BY <1>0, <1>2, FunFacts DEF One, JoinsOne
<1>4. ASSUME NEW z \in Byte \ {0}, Outside(xs, z, 1)
      PROVE  Joined(xs, Part(z), 1) = Basis(xs, z, 1)
  <2>1. w # z
    BY <1>4 DEF Outside
  <2>2. Basis(xs, z, 0) = 1 /\ Basis(xs, z, 1) = Times(Basis(xs, z, 0), Times(w, Inv(Plus(z, w))))
    BY <1>0, <2>1, BasisFacts
  <2>3. Part(z)[w] = Times(w, Inv(Plus(w, z)))
    BY <1>0, <2>1 DEF Part
  <2>4. Plus(w, z) = Plus(z, w) /\ Inv(Plus(w, z)) \in Byte
    BY <1>0, <2>1, PlusLaws, SumNotZero, TimesLaws
  <2> HIDE DEF w
  <2>5. Times(w, Inv(Plus(w, z))) \in Byte
    BY <1>0, <2>4, TimesLaws
  <2> QED
    BY <1>2, <2>2, <2>3, <2>4, <2>5, FunFacts, TimesLaws
<1> QED
  BY <1>3, <1>4 DEF JoinsPart

\* w / (x + w) = 1 + x / (x + w) brings in the next point w.
LEMMA NextOne ==
    ASSUME NEW xs, Points(xs), NEW k \in 2..Len(xs),
           JoinsOne(xs, k - 1), JoinsPart(xs, k - 1)
    PROVE  JoinsOne(xs, k)
<1> DEFINE w == xs[k]
           l == k - 1
<1>1. /\ l \in 0..Len(xs) /\ k \in 0..Len(xs) /\ k \in 1..Len(xs) /\ k \in Nat
      /\ w \in Byte \ {0} /\ Outside(xs, w, l)
  BY PointFacts DEF Outside
<1>2. ASSUME NEW i \in 1..l
      PROVE  Times(One[xs[i]], Basis(xs, xs[i], k))
               = Plus(Times(One[xs[i]], Basis(xs, xs[i], l)),
                      Times(1, Times(Part(w)[xs[i]], Basis(xs, xs[i], l))))
  <2> DEFINE x == xs[i]
             b == Basis(xs, x, l)
             q == Times(x, Inv(Plus(x, w)))
  <2>1. i \in 1..Len(xs) /\ i # k
    BY <1>1, PointFacts
  <2>2. x \in Byte /\ x # w
    BY <2>1, <1>1, PointFacts
  <2>3. b \in Byte /\ q \in Byte
    BY <1>1, <2>2, BasisFacts, SumNotZero, TimesLaws
  <2>4. Basis(xs, x, k) = Times(b, Times(w, Inv(Plus(x, w))))
    <3> HIDE DEF x
    <3> QED
      BY <1>1, <2>2, BasisFacts
  <2>5. One[x] = 1 /\ Part(w)[x] = q
    BY <2>2 DEF One, Part
  <2>6. Times(w, Inv(Plus(x, w))) = Plus(1, q)
    BY <1>1, <2>2, PartOfSum
  <2> HIDE DEF x, b, q, w
  <2>7. Times(b, Plus(1, q)) = Plus(Times(b, 1), Times(b, q))
    BY <2>3, Distributive, BitsAreBytes
  <2>8. Times(b, Plus(1, q)) \in Byte /\ Times(q, b) \in Byte /\ Times(b, q) = Times(q, b)
    BY <2>3, PlusLaws, TimesLaws, BitsAreBytes
  <2>9. Times(b, 1) = Times(1, b)
    BY <2>3, TimesLaws, BitsAreBytes
  <2> QED
    BY <2>4, <2>5, <2>6, <2>7, <2>8, <2>9, TimesLaws DEF x, b
<1> DEFINE H(j) == PartialSum(xs, One, k, j)
<1>3. H(l) = Plus(PartialSum(xs, One, l, l), Times(1, PartialSum(xs, Part(w), l, l)))
  <2> HIDE DEF w, l
  <2> QED
    BY <1>1, <1>2, FunFacts, SumsCompare, BitsAreBytes
<1>4. PartialSum(xs, One, l, l) = 1 /\ PartialSum(xs, Part(w), l, l) = Basis(xs, w, l)
  BY <1>1 DEF JoinsOne, JoinsPart, Joined
<1>5. H(k) = Plus(H(l), Times(One[w], Basis(xs, w, k))) /\ Basis(xs, w, k) = Basis(xs, w, l)
  BY <1>1, FunFacts, SumFacts, BasisFacts
<1>6. One[w] = 1 /\ Basis(xs, w, l) \in Byte
  BY <1>1, BasisFacts DEF One
<1>7. H(k) = 1
  <2> DEFINE b == Basis(xs, w, l)
  <2> HIDE DEF H, w, b
  <2>1. b \in Byte
    BY <1>6 DEF b
  <2>2. H(k) = Plus(Plus(1, b), b)
    BY <1>3, <1>4, <1>5, <1>6, <2>1, TimesLaws DEF b
  <2>3. Plus(Plus(1, b), b) = Plus(1, Plus(b, b))
    BY <2>1, PlusAssoc, BitsAreBytes
  <2> QED
    BY <2>1, <2>2, <2>3, PlusLaws, BitsAreBytes
<1> QED
  BY <1>7 DEF JoinsOne, Joined

\* (x + w) x / (x + z) = x + (z + w) x / (x + z), and x is joined to 0.
LEMMA NextPart ==
    ASSUME NEW xs, Points(xs), NEW k \in 2..Len(xs),
           JoinsOne(xs, k - 1), JoinsPart(xs, k - 1), JoinsOne(xs, k)
    PROVE  JoinsPart(xs, k)
<1> DEFINE w == xs[k]
           l == k - 1
<1>1. /\ l \in 0..Len(xs) /\ k \in 0..Len(xs) /\ k \in 1..Len(xs) /\ k \in Nat
      /\ w \in Byte /\ \A i \in 1..k : xs[i] \in Byte
  BY PointFacts
<1>2. Joined(xs, Same, k) = 0
  <2> DEFINE g == [x \in Byte |-> Plus(x, w)]
  <2>1. g \in ByteFun
    BY <1>1, PlusLaws DEF ByteFun
  <2>2. ASSUME NEW i \in 1..k PROVE g[xs[i]] = Times(Plus(xs[i], w), One[xs[i]])
    <3>1. xs[i] \in Byte /\ Plus(xs[i], w) \in Byte
      BY <1>1, PlusLaws
    <3> QED
      BY <3>1, TimesLaws DEF One
  <2>3. ASSUME NEW i \in 1..k PROVE g[xs[i]] = Plus(Same[xs[i]], Times(w, One[xs[i]]))
    BY <1>1, TimesLaws DEF One, Same
  <2> HIDE DEF g
  <2>4. Joined(xs, g, k) = Times(w, Joined(xs, One, l))
    BY <1>1, <2>1, <2>2, FunFacts, JoinedShift
  <2>5. Joined(xs, g, k) = Plus(Joined(xs, Same, k), Times(w, Joined(xs, One, k)))
    BY <1>1, <2>1, <2>3, FunFacts, JoinedLinear
  <2>6. Joined(xs, One, l) = 1 /\ Joined(xs, One, k) = 1 /\ Times(w, 1) = w
    BY <1>1, TimesLaws DEF JoinsOne
  <2>7. Joined(xs, Same, k) \in Byte
    BY <1>1, FunFacts, SumFacts DEF Joined
  <2>8. Joined(xs, Same, k) = Plus(w, w)
    <3> HIDE DEF w
    <3> QED
      BY <1>1, <2>4, <2>5, <2>6, <2>7, Moved
  <2> QED
    BY <1>1, <2>8, PlusLaws
<1> SUFFICES ASSUME NEW z \in Byte \ {0}, Outside(xs, z, k)
             PROVE  Joined(xs, Part(z), k) = Basis(xs, z, k)
  BY DEF JoinsPart
<1>3. z # w /\ Outside(xs, z, l) /\ \A i \in 1..k : xs[i] # z
  BY <1>1 DEF Outside
<1> DEFINE u == Plus(z, w)
           g == [x \in Byte |-> Times(Plus(x, w), Part(z)[x])]
<1>4. u \in Byte \ {0}
  BY <1>1, <1>3, SumNotZero
<1>5. g \in ByteFun
  <2>1. ASSUME NEW x \in Byte PROVE Times(Plus(x, w), Part(z)[x]) \in Byte
    <3>1. Part(z)[x] \in Byte
      BY FunFacts DEF ByteFun
    <3>2. Plus(x, w) \in Byte
      BY <1>1, PlusLaws
    <3> QED
      BY <3>1, <3>2, TimesLaws
  <2> QED
    BY <2>1 DEF ByteFun
<1>6. ASSUME NEW i \in 1..k
      PROVE  /\ g[xs[i]] = Times(Plus(xs[i], w), Part(z)[xs[i]])
             /\ g[xs[i]] = Plus(Same[xs[i]], Times(u, Part(z)[xs[i]]))
  <2> DEFINE x == xs[i]
  <2>1. x \in Byte /\ x # z
    BY <1>1, <1>3
  <2> HIDE DEF x
  <2>2. g[x] = Times(Plus(x, w), Part(z)[x])
    BY <2>1
  <2>3. Part(z)[x] = Times(x, Inv(Plus(x, z))) /\ Same[x] = x
    BY <2>1 DEF Part, Same
  <2>4. Times(Plus(x, w), Times(x, Inv(Plus(x, z))))
          = Plus(x, Times(u, Times(x, Inv(Plus(x, z)))))
    BY <1>1, <2>1, Shifted
  <2> QED
    BY <2>2, <2>3, <2>4 DEF x
<1> HIDE DEF g
<1>7. Joined(xs, g, k) = Times(w, Joined(xs, Part(z), l))
  BY <1>1, <1>5, <1>6, FunFacts, JoinedShift
<1>8. Joined(xs, g, k) = Plus(Joined(xs, Same, k), Times(u, Joined(xs, Part(z), k)))
  <2> HIDE DEF u
  <2> QED
    BY <1>1, <1>4, <1>5, <1>6, FunFacts, JoinedLinear
<1>9. Joined(xs, Part(z), l) = Basis(xs, z, l)
  BY <1>3 DEF JoinsPart
<1>10. Joined(xs, Part(z), k) \in Byte /\ Basis(xs, z, l) \in Byte
  BY <1>1, FunFacts, SumFacts, BasisFacts DEF Joined
<1>11. Basis(xs, z, k) = Times(Basis(xs, z, l), Times(w, Inv(u)))
  BY <1>1, <1>3, BasisFacts
<1> HIDE DEF u, w
<1>12. Times(u, Joined(xs, Part(z), k)) = Times(w, Basis(xs, z, l))
  <2>1. Times(u, Joined(xs, Part(z), k)) \in Byte
    BY <1>4, <1>10, TimesLaws
  <2> QED
    BY <1>2, <1>7, <1>8, <1>9, <2>1, PlusLaws
<1> QED
  BY <1>1, <1>4, <1>10, <1>11, <1>12, Divided

LEMMA JoinsOnes ==
    ASSUME NEW xs, Points(xs), NEW k \in 1..Len(xs)
    PROVE  JoinsOne(xs, k)
<1> DEFINE T == {i \in 0..Len(xs) : i > 0 => JoinsOne(xs, i) /\ JoinsPart(xs, i)}
<1>1. Len(xs) \in Nat
  BY PointFacts
<1>2. 0 \in T
  BY <1>1
<1>3. ASSUME NEW i \in 0..Len(xs) - 1, i \in T PROVE i + 1 \in T
  <2>1. CASE i = 0
    BY <1>1, <2>1, FirstPoint
  <2>2. CASE i > 0
    <3>1. i + 1 \in 2..Len(xs) /\ (i + 1) - 1 = i /\ JoinsOne(xs, i) /\ JoinsPart(xs, i)
      BY <1>1, <1>3, <2>2
    <3>2. JoinsOne(xs, i + 1)
      BY <3>1, NextOne
    <3>3. JoinsPart(xs, i + 1)
      BY <3>1, <3>2, NextPart
    <3> QED
      BY <1>1, <3>1, <3>2, <3>3
  <2> QED
    BY <1>1, <2>1, <2>2
<1> HIDE DEF T
<1>4. k \in T
  BY <1>1, <1>2, <1>3, UpTo
<1> QED
  BY <1>4 DEF T

-----------------------------------------------------------------------------
(* Polynomials, their coefficients from the highest down.                  *)

HornerStep(c, x) == [i \in DOMAIN c |-> [v \in Byte |-> Plus(Times(v, x), c[i])]]

\* The value at x of the first i coefficients.
Horner(c, x, i) == Loop(0, HornerStep(c, x), i)

LEMMA HornerFacts ==
    ASSUME NEW n \in Nat, NEW c \in [1..n -> Byte], NEW x \in Byte
    PROVE  /\ Horner(c, x, 0) = 0
           /\ \A i \in 0..n : Horner(c, x, i) \in Byte
           /\ \A i \in 1..n : Horner(c, x, i) = Plus(Times(Horner(c, x, i - 1), x), c[i])
<1> DEFINE step == HornerStep(c, x)
<1>1. \A i \in 1..n, v \in Byte : step[i][v] = Plus(Times(v, x), c[i])
  BY DEF HornerStep
<1>2. \A i \in 1..n, v \in Byte : step[i][v] \in Byte
  BY <1>1, PlusLaws, TimesLaws
<1> HIDE DEF step
<1>3. Passes(0, step, n)
  <2>1. ByteSteps(step, n)
    BY <1>2 DEF ByteSteps
  <2> QED
    BY <2>1, LoopFacts, BitsAreBytes
<1>4. \A i \in 1..n : Loop(0, step, i - 1) \in Byte
  <2>1. \A i \in 1..n : i - 1 \in 0..n
    OBVIOUS
  <2> QED
    BY <1>3, <2>1 DEF Passes
<1> QED
  BY <1>1, <1>3, <1>4 DEF Passes, Horner, step

LEMMA DivisionStep ==
    \A x, a, h, r, e \in Byte :
        Plus(Times(Plus(Times(Plus(x, a), h), r), x), e)
          = Plus(Times(Plus(x, a), Plus(Times(h, x), r)), Plus(Times(r, a), e))
<1> SUFFICES ASSUME NEW x \in Byte, NEW a \in Byte, NEW h \in Byte, NEW r \in Byte, NEW e \in Byte
    PROVE Plus(Times(Plus(Times(Plus(x, a), h), r), x), e)
            = Plus(Times(Plus(x, a), Plus(Times(h, x), r)), Plus(Times(r, a), e))
  OBVIOUS
<1> DEFINE s == Plus(x, a)
<1>1. s \in Byte /\ Times(r, x) \in Byte /\ Times(r, a) \in Byte /\ Times(h, x) \in Byte
  BY PlusLaws, TimesLaws
<1>2. Times(r, s) = Plus(Times(r, x), Times(r, a))
  BY Distributive
<1> HIDE DEF s
<1>3. /\ Times(s, h) \in Byte /\ Times(s, Times(h, x)) \in Byte
      /\ Times(s, r) = Times(r, s)
      /\ Plus(Times(s, h), r) \in Byte /\ Plus(Times(r, a), e) \in Byte
  BY <1>1, PlusLaws, TimesLaws
<1>4. Times(Plus(Times(s, h), r), x) = Plus(Times(s, Times(h, x)), Times(r, x))
  <2>1. Times(x, Plus(Times(s, h), r)) = Plus(Times(x, Times(s, h)), Times(x, r))
    BY <1>3, Distributive
  <2>2. Times(x, Times(s, h)) = Times(s, Times(x, h))
    BY <1>1, TimesLeft
  <2>3. /\ Times(x, Plus(Times(s, h), r)) = Times(Plus(Times(s, h), r), x)
        /\ Times(x, h) = Times(h, x) /\ Times(x, r) = Times(r, x)
    BY <1>3, TimesLaws
  <2> QED
    BY <2>1, <2>2, <2>3
<1>5. Times(s, Plus(Times(h, x), r))
        = Plus(Times(s, Times(h, x)), Plus(Times(r, x), Times(r, a)))
  BY <1>1, <1>2, <1>3, Distributive
<1> DEFINE p == Times(s, Times(h, x))
           q == Times(r, x)
           w == Times(r, a)
<1>6. p \in Byte /\ q \in Byte /\ w \in Byte /\ Plus(q, w) \in Byte
  BY <1>1, <1>3, PlusLaws
<1> HIDE DEF p, q, w
<1>7. Plus(Plus(p, Plus(q, w)), Plus(w, e)) = Plus(Plus(p, q), e)
  <2>1. Plus(Plus(q, w), Plus(w, e)) = Plus(q, e)
    <3>1. Plus(w, e) \in Byte
      BY <1>6, PlusLaws
    <3>2. Plus(Plus(q, w), Plus(w, e)) = Plus(q, Plus(w, Plus(w, e)))
      BY <1>6, <3>1, PlusAssoc
    <3>3. Plus(w, Plus(w, e)) = Plus(Plus(w, w), e)
      BY <1>6, PlusAssoc
    <3> QED
      BY <1>6, <3>2, <3>3, PlusLaws
  <2>2. Plus(Plus(p, Plus(q, w)), Plus(w, e)) = Plus(p, Plus(Plus(q, w), Plus(w, e)))
    BY <1>6, PlusLaws, PlusAssoc
  <2>3. Plus(p, Plus(q, e)) = Plus(Plus(p, q), e)
    BY <1>6, PlusAssoc
  <2> QED
    BY <2>1, <2>2, <2>3
<1> QED
  BY <1>4, <1>5, <1>7 DEF p, q, w, s

\* A polynomial divided by x + a.
Quotient(c, n, a) == [i \in 1..n - 1 |-> Horner(c, a, i)]

LEMMA Division ==
    ASSUME NEW n \in Nat \ {0}, NEW c \in [1..n -> Byte], NEW a \in Byte
    PROVE  /\ Quotient(c, n, a) \in [1..n - 1 -> Byte]
           /\ \A x \in Byte :
                 Horner(c, x, n)
                   = Plus(Times(Plus(x, a), Horner(Quotient(c, n, a), x, n - 1)),
                          Horner(c, a, n))
<1> DEFINE q == Quotient(c, n, a)
<1>1. q \in [1..n - 1 -> Byte]
  BY HornerFacts DEF Quotient
<1>2. \A i \in 1..n - 1 : q[i] = Horner(c, a, i)
  BY DEF Quotient
<1> HIDE DEF q
<1> SUFFICES ASSUME NEW x \in Byte
             PROVE  Horner(c, x, n)
                      = Plus(Times(Plus(x, a), Horner(q, x, n - 1)), Horner(c, a, n))
  BY <1>1 DEF q
<1> DEFINE Claim(i) ==
              Horner(c, x, i) = Plus(Times(Plus(x, a), Horner(q, x, i - 1)), Horner(c, a, i))
           T == {i \in 0..n : i > 0 => Claim(i)}
<1>3. \A i \in 0..n : Horner(c, x, i) \in Byte /\ Horner(c, a, i) \in Byte
  BY HornerFacts
<1>4. /\ \A i \in 0..n - 1 : Horner(q, x, i) \in Byte
      /\ \A i \in 1..n - 1 : Horner(q, x, i) = Plus(Times(Horner(q, x, i - 1), x), q[i])
  <2> DEFINE m == n - 1
  <2>1. m \in Nat /\ q \in [1..m -> Byte]
    BY <1>1
  <2> HIDE DEF m
  <2>2. /\ \A i \in 0..m : Horner(q, x, i) \in Byte
        /\ \A i \in 1..m : Horner(q, x, i) = Plus(Times(Horner(q, x, i - 1), x), q[i])
    BY <2>1, HornerFacts
  <2> QED
    BY <2>2 DEF m
<1>5. 0 \in T
  OBVIOUS
<1>6. ASSUME NEW i \in 0..n - 1, i \in T PROVE i + 1 \in T
  <2> DEFINE j == i + 1
  <2>0. j \in 1..n /\ j - 1 = i /\ i \in 0..n
    OBVIOUS
  <2>1. /\ Horner(c, x, j) = Plus(Times(Horner(c, x, i), x), c[j])
        /\ Horner(c, a, j) = Plus(Times(Horner(c, a, i), a), c[j])
        /\ c[j] \in Byte
    <3> HIDE DEF j
    <3> QED
      BY <2>0, HornerFacts
  <2>2. CASE i = 0
    <3>1. Horner(c, x, 0) = 0 /\ Horner(c, a, 0) = 0 /\ Horner(q, x, 0) = 0
      BY <1>1, HornerFacts
    <3>2. Plus(x, a) \in Byte
      BY PlusLaws
    <3> HIDE DEF j
    <3>3. Claim(j)
      BY <2>0, <2>1, <2>2, <3>1, <3>2, PlusLaws, TimesLaws
    <3> QED
      BY <2>0, <3>3 DEF j
  <2>3. CASE i > 0
    <3>1. i \in 1..n - 1 /\ n - 1 \in Nat /\ i - 1 \in 0..n - 1
      BY <2>3
    <3> DEFINE h == Horner(q, x, i - 1)
               r == Horner(c, a, i)
    <3>2. h \in Byte /\ r \in Byte
      BY <1>3, <1>4, <2>0, <3>1
    <3>3. Horner(q, x, i) = Plus(Times(h, x), r)
      BY <1>2, <1>4, <3>1
    <3>4. Horner(c, x, i) = Plus(Times(Plus(x, a), h), r)
      BY <1>6, <2>3
    <3> HIDE DEF h, r, j
    <3>5. Horner(c, x, j)
            = Plus(Times(Plus(x, a), Plus(Times(h, x), r)), Plus(Times(r, a), c[j]))
      BY <2>1, <3>2, <3>4, DivisionStep
    <3>6. Claim(j)
      BY <2>0, <2>1, <3>3, <3>5 DEF r
    <3> QED
      BY <2>0, <3>6 DEF j
  <2> QED
    BY <2>2, <2>3
<1> HIDE DEF T
<1>7. n \in T
  BY <1>5, <1>6, UpTo
<1> QED
  BY <1>7 DEF T

Poly(c, n) == [x \in Byte |-> Horner(c, x, n)]

\* As many shares as there are coefficients, or more, give the value at 0.
JoinsPoly(xs, k) ==
    \A n \in 0..k : \A c \in [1..n -> Byte] : Joined(xs, Poly(c, n), k) = Horner(c, 0, n)

\* A polynomial is (x + w) times one of lower degree, plus its value at w.
LEMMA NextPoly ==
    ASSUME NEW xs, Points(xs), NEW k \in 1..Len(xs), JoinsPoly(xs, k - 1)
    PROVE  JoinsPoly(xs, k)
<1> DEFINE w == xs[k]
           l == k - 1
<1>1. /\ l \in 0..Len(xs) /\ k \in 0..Len(xs) /\ k \in Nat
      /\ w \in Byte /\ \A i \in 1..k : xs[i] \in Byte
  BY PointFacts
<1> SUFFICES ASSUME NEW n \in 0..k, NEW c \in [1..n -> Byte]
             PROVE  Joined(xs, Poly(c, n), k) = Horner(c, 0, n)
  BY DEF JoinsPoly
<1>2. n \in Nat /\ Poly(c, n) \in ByteFun
  <2>1. n \in Nat
    BY <1>1
  <2>2. \A x \in Byte : Horner(c, x, n) \in Byte
    BY <2>1, HornerFacts
  <2> QED
    BY <2>1, <2>2 DEF Poly, ByteFun
<1>3. CASE n = 0
  <2>1. Poly(c, n) = Zero /\ Horner(c, 0, n) = 0
    BY <1>2, <1>3, HornerFacts, BitsAreBytes DEF Poly, Zero
  <2> QED
    BY <1>1, <2>1, SumOfZero DEF Joined
<1>4. CASE n # 0
  <2> DEFINE q == Quotient(c, n, w)
             r == Horner(c, w, n)
             g == [x \in Byte |-> Times(Plus(x, w), Poly(q, n - 1)[x])]
  <2>1. /\ n \in Nat \ {0} /\ n - 1 \in 0..l /\ n - 1 \in Nat
    BY <1>1, <1>2, <1>4
  <2>2. /\ q \in [1..n - 1 -> Byte] /\ r \in Byte
        /\ \A x \in Byte :
              Horner(c, x, n) = Plus(Times(Plus(x, w), Horner(q, x, n - 1)), r)
    BY <1>1, <2>1, Division, HornerFacts
  <2> HIDE DEF q, r, w
  <2>3. Poly(q, n - 1) \in ByteFun /\ \A x \in Byte : Poly(q, n - 1)[x] = Horner(q, x, n - 1)
    BY <2>1, <2>2, HornerFacts DEF Poly, ByteFun
  <2>4. g \in ByteFun
    <3>1. \A x \in Byte : Times(Plus(x, w), Poly(q, n - 1)[x]) \in Byte
      BY <1>1, <2>3, PlusLaws, TimesLaws DEF ByteFun
    <3> QED
      BY <3>1 DEF ByteFun
  <2>5. ASSUME NEW i \in 1..k
        PROVE  /\ g[xs[i]] = Times(Plus(xs[i], w), Poly(q, n - 1)[xs[i]])
               /\ Poly(c, n)[xs[i]] = Plus(g[xs[i]], Times(r, One[xs[i]]))
    <3> DEFINE x == xs[i]
    <3>1. x \in Byte
      BY <1>1
    <3> HIDE DEF x
    <3>2. g[x] = Times(Plus(x, w), Horner(q, x, n - 1)) /\ Poly(c, n)[x] = Plus(g[x], r)
      BY <2>2, <2>3, <3>1 DEF Poly
    <3>3. Times(r, One[x]) = r
      BY <2>2, <3>1, TimesLaws DEF One
    <3> QED
      BY <2>3, <3>1, <3>2, <3>3 DEF x
  <2> HIDE DEF g
  <2>6. Joined(xs, g, k) = Times(w, Joined(xs, Poly(q, n - 1), l))
    BY <1>1, <2>3, <2>4, <2>5, JoinedShift DEF w
  <2>7. Joined(xs, Poly(q, n - 1), l) = Horner(q, 0, n - 1)
    BY <2>1, <2>2 DEF JoinsPoly
  <2>8. Joined(xs, Poly(c, n), k) = Plus(Joined(xs, g, k), Times(r, Joined(xs, One, k)))
    BY <1>1, <1>2, <2>2, <2>4, <2>5, FunFacts, JoinedLinear
  <2>9. Joined(xs, One, k) = 1
    BY JoinsOnes DEF JoinsOne
  <2>10. Horner(c, 0, n) = Plus(Times(w, Horner(q, 0, n - 1)), r)
    <3>1. Plus(0, w) = w
      BY <1>1, PlusLaws
    <3> QED
      BY <2>2, <3>1, BitsAreBytes
  <2> QED
    BY <2>2, <2>6, <2>7, <2>8, <2>9, <2>10, TimesLaws
<1> QED
  BY <1>3, <1>4

LEMMA JoinsPolys ==
    ASSUME NEW xs, Points(xs)
    PROVE  JoinsPoly(xs, Len(xs))
<1> DEFINE T == {i \in 0..Len(xs) : JoinsPoly(xs, i)}
<1>1. Len(xs) \in Nat /\ 0 \in 0..Len(xs)
  BY PointFacts
<1>2. 0 \in T
  <2> SUFFICES ASSUME NEW n \in 0..0, NEW c \in [1..n -> Byte]
               PROVE  Joined(xs, Poly(c, n), 0) = Horner(c, 0, n)
    BY <1>1 DEF JoinsPoly
  <2>1. n = 0 /\ n \in Nat
    OBVIOUS
  <2>2. Horner(c, 0, n) = 0 /\ Poly(c, n) = Zero
    BY <2>1, HornerFacts, BitsAreBytes DEF Poly, Zero
  <2> QED
    BY <1>1, <2>2, SumOfZero DEF Joined
<1>3. ASSUME NEW i \in 0..Len(xs) - 1, i \in T PROVE i + 1 \in T
  <2>1. i + 1 \in 1..Len(xs) /\ (i + 1) - 1 = i /\ JoinsPoly(xs, i)
    BY <1>1, <1>3
  <2> QED
    BY <1>1, <2>1, NextPoly
<1> HIDE DEF T
<1>4. 0..Len(xs) \subseteq T
  BY <1>1, <1>2, <1>3, UpTo
<1>5. Len(xs) \in T
  BY <1>1, <1>4
<1> QED
  BY <1>5 DEF T

-----------------------------------------------------------------------------
(* What Shamir computes.                                                   *)

\* The coefficients of shamir_split from the highest down.
Downwards(coeffs) == [i \in 1..Len(coeffs) |-> coeffs[Len(coeffs) + 1 - i]]

LEMMA ShareIsHorner ==
    ASSUME NEW coeffs \in Seq(Byte), NEW x \in Byte
    PROVE  /\ Len(coeffs) \in Nat
           /\ Downwards(coeffs) \in [1..Len(coeffs) -> Byte]
           /\ Share(coeffs, x) = Horner(Downwards(coeffs), x, Len(coeffs))
<1> DEFINE n == Len(coeffs)
           c == Downwards(coeffs)
<1>1. n \in Nat /\ DOMAIN coeffs = 1..n /\ \A i \in 1..n : coeffs[i] \in Byte
  OBVIOUS
<1>2. \A i \in 1..n : n + 1 - i \in 1..n
  BY <1>1
<1>3. c \in [1..n -> Byte] /\ \A i \in 1..n : c[i] = coeffs[n + 1 - i]
  <2> HIDE DEF n
  <2> QED
    BY <1>1, <1>2 DEF Downwards, n
<1>4. [i \in DOMAIN coeffs |-> [v \in Byte |-> Plus(Times(v, x), coeffs[n + 1 - i])]]
        = HornerStep(c, x)
  <2> HIDE DEF n, c
  <2>1. DOMAIN c = 1..n
    BY <1>3
  <2>2. [i \in 1..n |-> [v \in Byte |-> Plus(Times(v, x), coeffs[n + 1 - i])]]
          = [i \in 1..n |-> [v \in Byte |-> Plus(Times(v, x), c[i])]]
    BY <1>3
  <2> QED
    BY <1>1, <2>1, <2>2 DEF HornerStep
<1> QED
  BY <1>1, <1>3, <1>4 DEF Share, Horner

LEMMA ReconstructIsSum ==
    ASSUME NEW xs, Points(xs), NEW g \in ByteFun
    PROVE  Reconstruct(xs, [i \in DOMAIN xs |-> g[xs[i]]]) = Joined(xs, g, Len(xs))
<1> DEFINE n  == Len(xs)
           ys == [i \in DOMAIN xs |-> g[xs[i]]]
<1>1. n \in Nat /\ DOMAIN xs = 1..n /\ \A i, j \in 1..n : xs[i] = xs[j] <=> i = j
  BY PointFacts
<1>2. ASSUME NEW i \in 1..n PROVE Lagrange(xs, i) = Basis(xs, xs[i], n)
  <2>1. [j \in DOMAIN xs |-> [v \in Byte |->
            IF j = i THEN v ELSE Times(v, Times(xs[j], Inv(Plus(xs[i], xs[j]))))]]
          = BasisStep(xs, xs[i])
    BY <1>1 DEF BasisStep
  <2> QED
    BY <2>1 DEF Lagrange, Basis
<1>3. [i \in DOMAIN xs |-> [v \in Byte |-> Plus(v, Times(ys[i], Lagrange(xs, i)))]]
        = SumStep(xs, g, n)
  <2>1. \A i \in 1..n : ys[i] = g[xs[i]]
    BY <1>1
  <2> HIDE DEF n, ys
  <2> QED
    BY <1>1, <1>2, <2>1 DEF SumStep
<1> QED
  BY <1>3 DEF Reconstruct, Joined, PartialSum

\* Interpolation: shares with different numbers, in any order, give the
\* secret back if there are at least as many as there are coefficients,
\* whatever the secret and the random coefficients of shamir_split.
THEOREM SharesOpen ==
    ASSUME NEW xs \in Seq(Byte \ {0}), Joinable(xs),
           NEW coeffs \in Seq(Byte), 1 <= Len(coeffs), Len(coeffs) <= Len(xs)
    PROVE  Opens(coeffs, xs)
<1> DEFINE n == Len(coeffs)
           c == Downwards(coeffs)
           g == Poly(c, n)
<1>1. Points(xs) /\ Len(xs) \in Nat /\ \A i \in DOMAIN xs : xs[i] \in Byte
  BY PointFacts DEF Points
<1>2. n \in 1..Len(xs) /\ n \in Nat /\ n \in 0..Len(xs) /\ c \in [1..n -> Byte]
  BY <1>1, ShareIsHorner
<1>3. g \in ByteFun /\ \A x \in Byte : g[x] = Horner(c, x, n)
  <2> HIDE DEF n, c
  <2>1. \A x \in Byte : Horner(c, x, n) \in Byte
    BY <1>2, HornerFacts
  <2> QED
    BY <2>1 DEF Poly, ByteFun
<1>4. [i \in DOMAIN xs |-> Share(coeffs, xs[i])] = [i \in DOMAIN xs |-> g[xs[i]]]
  <2>1. \A x \in Byte : Share(coeffs, x) = g[x]
    BY <1>3, ShareIsHorner
  <2> HIDE DEF g
  <2> QED
    BY <1>1, <2>1
<1>5. Reconstruct(xs, [i \in DOMAIN xs |-> Share(coeffs, xs[i])]) = Joined(xs, g, Len(xs))
  <2> HIDE DEF g
  <2> QED
    BY <1>1, <1>3, <1>4, ReconstructIsSum
<1>6. Joined(xs, g, Len(xs)) = Horner(c, 0, n)
  BY <1>1, <1>2, JoinsPolys DEF JoinsPoly
<1>7. Horner(c, 0, n) = coeffs[1]
  <2>1. c[n] = coeffs[1] /\ coeffs[1] \in Byte
    BY <1>2 DEF Downwards
  <2> HIDE DEF n, c
  <2>2. Horner(c, 0, n) = Plus(Times(Horner(c, 0, n - 1), 0), c[n])
    <3>1. n \in 1..n
      BY <1>2
    <3> QED
      BY <1>2, <3>1, HornerFacts, BitsAreBytes
  <2>3. Horner(c, 0, n - 1) \in Byte
    <3>1. n - 1 \in 0..n
      BY <1>2
    <3> QED
      BY <1>2, <3>1, HornerFacts, BitsAreBytes
  <2> QED
    BY <2>1, <2>2, <2>3, TimesLaws, PlusLaws
<1> QED
  BY <1>5, <1>6, <1>7 DEF Opens

\* Secrecy: when two or more shares are needed, one share can be any byte,
\* whatever the secret is.
THEOREM ShareIsAnyByte ==
    ASSUME NEW t \in Nat \ {0, 1}, NEW secret \in Byte, NEW x \in Byte \ {0}
    PROVE  Possible(t, x, secret) = Byte
<1> DEFINE n == t - 1
<1>a. Possible(t, x, secret) = {Share(<<secret>> \o c, x) : c \in [1..n -> Byte]}
  BY DEF Possible
<1>b. n \in Nat \ {0}
  OBVIOUS
<1> HIDE DEF n
<1> USE <1>b
<1>1. ASSUME NEW c \in [1..n -> Byte]
      PROVE  /\ <<secret>> \o c \in Seq(Byte) /\ Len(<<secret>> \o c) = n + 1
             /\ (<<secret>> \o c)[1] = secret
             /\ \A i \in 1..n : (<<secret>> \o c)[i + 1] = c[i]
  <2>1. c \in Seq(Byte) /\ Len(c) = n
    OBVIOUS
  <2>2. <<secret>> \in Seq(Byte) /\ Len(<<secret>>) = 1 /\ <<secret>>[1] = secret
    OBVIOUS
  <2> QED
    BY <2>1, <2>2
<1>2. ASSUME NEW c \in [1..n -> Byte] PROVE Share(<<secret>> \o c, x) \in Byte
  <2> DEFINE p == <<secret>> \o c
  <2>1. p \in Seq(Byte)
    BY <1>1
  <2> HIDE DEF p
  <2>2. Len(p) \in Nat /\ Len(p) \in 0..Len(p)
    BY <2>1
  <2>3. Share(p, x) = Horner(Downwards(p), x, Len(p)) /\ Downwards(p) \in [1..Len(p) -> Byte]
    BY <2>1, ShareIsHorner
  <2>4. \A i \in 0..Len(p) : Horner(Downwards(p), x, i) \in Byte
    BY <2>2, <2>3, HornerFacts
  <2> QED
    BY <2>2, <2>3, <2>4 DEF p
<1>3. ASSUME NEW v \in Byte PROVE \E c \in [1..n -> Byte] : Share(<<secret>> \o c, x) = v
  <2> DEFINE a == Times(Inv(x), Plus(v, secret))
             c == [i \in 1..n |-> IF i = 1 THEN a ELSE 0]
             p == <<secret>> \o c
             e == Downwards(p)
  <2>1. Inv(x) \in Byte /\ Times(x, Inv(x)) = 1 /\ Plus(v, secret) \in Byte /\ a \in Byte
    BY TimesLaws, PlusLaws
  <2>2. c \in [1..n -> Byte]
    <3> HIDE DEF a
    <3> QED
      BY <2>1, BitsAreBytes
  <2>3. /\ p \in Seq(Byte) /\ Len(p) = n + 1 /\ p[1] = secret
        /\ \A i \in 1..n : p[i + 1] = IF i = 1 THEN a ELSE 0
    <3> HIDE DEF a
    <3> QED
      BY <1>1, <2>2
  <2> HIDE DEF p, c, a
  <2>4. e \in [1..n + 1 -> Byte] /\ Share(p, x) = Horner(e, x, n + 1)
    BY <2>3, ShareIsHorner
  <2>5. /\ \A i \in 1..n - 1 : e[i] = 0
        /\ e[n] = a /\ e[n + 1] = secret
    <3>1. \A i \in 1..n + 1 : e[i] = p[n + 2 - i]
      BY <2>3 DEF Downwards
    <3> HIDE DEF e
    <3>2. ASSUME NEW i \in 1..n - 1 PROVE e[i] = 0
      <4> DEFINE j == n + 1 - i
      <4>1. n + 2 - i = j + 1 /\ j \in 1..n /\ j # 1
        OBVIOUS
      <4>2. p[j + 1] = 0
        <5> HIDE DEF j
        <5> QED
          BY <2>3, <4>1
      <4> QED
        BY <3>1, <4>1, <4>2
    <3>3. p[1 + 1] = a
      BY <2>3
    <3>4. n + 2 - n = 1 + 1 /\ n + 2 - (n + 1) = 1
      OBVIOUS
    <3>5. e[n] = a /\ e[n + 1] = secret
      BY <2>3, <3>1, <3>3, <3>4
    <3> QED
      BY <3>2, <3>5
  <2> HIDE DEF e
  <2>6. /\ Horner(e, x, 0) = 0
        /\ \A i \in 1..n + 1 : Horner(e, x, i) = Plus(Times(Horner(e, x, i - 1), x), e[i])
    BY <2>4, HornerFacts
  <2>7. Horner(e, x, n - 1) = 0
    <3> DEFINE T == {i \in 0..n - 1 : Horner(e, x, i) = 0}
    <3>1. 0 \in T
      BY <2>6
    <3>2. ASSUME NEW i \in 0..(n - 1) - 1, i \in T PROVE i + 1 \in T
      <4>1. i + 1 \in 1..n - 1 /\ i + 1 \in 1..n + 1 /\ (i + 1) - 1 = i
        OBVIOUS
      <4>2. Horner(e, x, i + 1) = Plus(Times(Horner(e, x, i), x), e[i + 1])
        BY <2>6, <4>1
      <4>3. Horner(e, x, i) = 0 /\ e[i + 1] = 0
        BY <2>5, <3>2, <4>1
      <4> QED
        BY <4>1, <4>2, <4>3, TimesLaws, PlusLaws, BitsAreBytes
    <3> HIDE DEF T
    <3>3. 0..n - 1 \subseteq T
      BY <3>1, <3>2, UpTo
    <3> QED
      BY <3>3 DEF T
  <2>8. Horner(e, x, n) = a
    <3>1. Horner(e, x, n) = Plus(Times(Horner(e, x, n - 1), x), e[n])
      BY <2>6
    <3> QED
      BY <2>1, <2>5, <2>7, <3>1, TimesLaws, PlusLaws, BitsAreBytes
  <2>9. Times(a, x) = Plus(v, secret)
    <3> DEFINE s == Plus(v, secret)
    <3> HIDE DEF s
    <3>1. Times(Times(Inv(x), s), x) = Times(x, Times(Inv(x), s))
      BY <2>1, TimesLaws DEF s
    <3>2. Times(x, Times(Inv(x), s)) = Times(Times(x, Inv(x)), s)
      BY <2>1, TimesAssoc DEF s
    <3> QED
      BY <2>1, <3>1, <3>2, TimesLaws DEF a, s
  <2>10. Horner(e, x, n + 1) = v
    <3>1. Horner(e, x, n + 1) = Plus(Times(Horner(e, x, n), x), e[n + 1])
      BY <2>6
    <3>2. Plus(Plus(v, secret), secret) = v
      BY PlusAssoc, PlusLaws
    <3> QED
      BY <2>5, <2>8, <2>9, <3>1, <3>2
  <2> QED
    BY <2>2, <2>4, <2>10 DEF p
<1> DEFINE S(c) == Share(<<secret>> \o c, x)
<1>4. /\ \A c \in [1..n -> Byte] : S(c) \in Byte
      /\ \A v \in Byte : \E c \in [1..n -> Byte] : S(c) = v
  BY <1>2, <1>3
<1> HIDE DEF S
<1>5. {S(c) : c \in [1..n -> Byte]} = Byte
  BY <1>4
<1> QED
  BY <1>a, <1>5 DEF S
=============================================================================
