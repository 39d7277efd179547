---------------------------- MODULE PayloadShares ----------------------------
(***************************************************************************)
(* The shares ProviderNode collects, joined by Shamir: whether a payload   *)
(* that was sealed to the nodes of the network can be opened, and by whom. *)
(***************************************************************************)
EXTENDS ProviderNode, Shamir

CONSTANTS KeyByte,   \* bytes the key may have
          CoeffByte  \* bytes the random coefficients may have

ASSUME ByteAssumption == KeyByte \subseteq Byte /\ CoeffByte \subseteq Byte

Number == 1..NumPeers + 1

Polynomials(t) ==
    {c \in [1..t -> KeyByte \cup CoeffByte] :
        c[1] \in KeyByte /\ \A i \in 2..t : c[i] \in CoeffByte}

\* Lists of different numbers.
Sequence(S, k) == {xs \in [1..k -> S] : Joinable(xs)}

\* The lists of numbers, ours first, that open every payload of which t
\* shares are needed.
Opening ==
    UNION {{<<t, xs>> :
              xs \in {ys \in Sequence(Number, k) :
                         ys[1] = 1 /\ \A c \in Polynomials(t) : Opens(c, ys)}} :
           t \in 2..(NumPeers + 2) \div 2, k \in Number}

\* Decrypting never fails: whatever responses were early, late or repeated,
\* the shares a thread decrypts with give the key back, whatever the key and
\* the random coefficients.
SharesOpenPayload ==
    \A th \in Thread :
        at[th] = "working" /\ Threshold => <<Needed, got[th]>> \in Opening

\* The pairs t, n for which any t of n shares, in any order, give the key
\* back.
Readable ==
    UNION {{<<t, n>> : t \in {u \in 2..n :
               \A xs \in Sequence(1..n, u), c \in Polynomials(u) : Opens(c, xs)}} :
           n \in 3..NumPeers + 1}

\* The shares that do not look alike for all keys.
Telling ==
    UNION {{<<t, x>> : key \in {k \in KeyByte : Possible(t, x, k) # Byte}} :
           t \in 2..(NumPeers + 2) \div 2, x \in Number}

\* Any of the nodes that hold a share of a submitted job can read it if
\* enough of them answer, whichever they are.
MajorityOpens == Threshold => <<Needed, Holders>> \in Readable

\* No single node that holds a share of a job can read it.
OneShareTellsNothing ==
    Threshold => \A x \in 1..Holders : <<Needed, x>> \notin Telling
=============================================================================
