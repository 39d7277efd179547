------------------------- MODULE ProviderNodeProofs -------------------------
(***************************************************************************)
(* Theorems about ProviderNode, for any number of peers and exec threads,  *)
(* and about the shares it collects, for every key and all coefficients.   *)
(***************************************************************************)
EXTENDS PayloadShares, ShamirProofs, FiniteSetTheorems, TLAPS

\* Until a peer takes the lease away, it has at most one user in the node:
\* an exec thread on its way through the job, or the scan loop that has just
\* claimed the job.  A result is pushed by the step that ends the lease.
LeaseInv ==
    ~contested =>
        /\ \A a, b \in Thread : at[a] \in Engaged /\ at[b] \in Engaged => a = b
        /\ scan = "claimed" => \A a \in Thread : at[a] \notin Engaged
        /\ (scan = "claimed" \/ \E a \in Thread : at[a] \in Engaged) => job = "ours"
        /\ pushed \in {0, 1}
        /\ pushed = 1 => job = "ourResult"

\* What a thread needs to decrypt with.
Enough(xs) == Joinable(xs) /\ xs[1] = 1 /\ Len(xs) >= Needed

\* The entry of a collection has no number twice and begins with ours, and a
\* thread that decrypts has as many shares as were needed at submission: the
\* keys do not change any more once a thread is at the job.
SharesInv ==
    /\ job = "absent" =>
          scan = "rest" /\ auction = "none" /\ \A th \in Thread : at[th] = "idle"
    /\ Joinable(shares) /\ (shares # <<>> => shares[1] = 1)
    /\ \A th \in Thread : at[th] = "working" /\ Threshold => Enough(got[th])

-----------------------------------------------------------------------------
(* Types.                                                                  *)

LEMMA PeerFacts ==
    ASSUME keys \subseteq Peer, NEW p \in Peer
    PROVE  ShareNo(p) \in 1..NumPeers + 1
  <1> DEFINE K == {q \in keys : q <= p}
  <1>1. NumPeers \in Nat
    BY PriceAssumption
  <1>2. IsFiniteSet(1..NumPeers) /\ Cardinality(1..NumPeers) = NumPeers
    BY <1>1, FS_Interval
  <1>3. K \subseteq 1..NumPeers
    BY DEF Peer
  <1>4. IsFiniteSet(K) /\ Cardinality(K) <= NumPeers
    BY <1>2, <1>3, FS_Subset
  <1>5. Cardinality(K) \in Nat
    BY <1>4, FS_CardinalityType
  <1> QED BY <1>1, <1>4, <1>5 DEF ShareNo

LEMMA CollectorFacts ==
    Cardinality({}) <= 1 /\ \A th \in Thread : Cardinality({th}) <= 1
  <1>1. Cardinality({}) = 0
    BY FS_EmptySet
  <1>2. ASSUME NEW th \in Thread PROVE Cardinality({th}) = 1
    BY FS_Singleton
  <1> QED BY <1>1, <1>2

LEMMA InitTypes == Init => TypeOK
  <1> SUFFICES ASSUME Init PROVE TypeOK
    OBVIOUS
  <1>1. collector \subseteq Thread /\ Cardinality(collector) <= 1
    BY CollectorFacts DEF Init
  <1>2. shares \in Seq(1..NumPeers + 1) /\ (collector = {} <=> shares = <<>>)
    BY DEF Init
  <1>3. replies \in [Peer -> 0..2] /\ got \in [Thread -> Seq(1..NumPeers + 1)]
    <2>1. replies = [p \in Peer |-> 0] /\ got = [th \in Thread |-> <<>>]
      BY DEF Init
    <2>2. <<>> \in Seq(1..NumPeers + 1)
      OBVIOUS
    <2> QED BY <2>1, <2>2
  <1>4. job \in Job /\ at \in [Thread -> Phase]
    BY DEF Init, Job, Phase
  <1>5. adopted \in 0..MaxAdopt
    BY BoundsAssumption DEF Init
  <1>6. /\ keys \subseteq Peer /\ executing \in BOOLEAN
        /\ scan \in {"rest", "listed", "checked", "claimed"}
        /\ auction \in {"none", "open", "won", "over"}
        /\ bids \subseteq Peer /\ (auction # "open" => bids = {})
    BY DEF Init
  <1>7. signalled \subseteq Thread /\ pushed \in 0..2
    BY DEF Init
  <1>8. contested \in BOOLEAN /\ stranded \in BOOLEAN
    BY DEF Init
  <1> QED BY <1>1, <1>2, <1>3, <1>4, <1>5, <1>6, <1>7, <1>8 DEF TypeOK

\* A share that arrives, or the opening of a collection.
LEMMA ShareTypes ==
    ASSUME TypeOK, NEW p \in Peer, Reply(p)
    PROVE  TypeOK'
  <1>1. UNCHANGED <<job, keys, executing, scan, auction, bids, at, collector, got,
                    pushed, stranded, contested, adopted>>
    BY DEF Reply, env
  <1>2. replies' \in [Peer -> 0..2]
    <2>1. replies[p] \in 0..2 /\ replies[p] > 0
      BY DEF Reply, TypeOK
    <2>2. replies[p] - 1 \in 0..2
      BY <2>1
    <2> QED BY <2>2 DEF Reply, TypeOK
  <1>3. CASE Welcome(ShareNo(p))
    <2>1. ShareNo(p) \in 1..NumPeers + 1
      BY PeerFacts DEF TypeOK
    <2>2. collector # {} /\ shares' = Append(shares, ShareNo(p))
      BY <1>3 DEF Welcome, Reply
    <2>3. shares' \in Seq(1..NumPeers + 1) /\ shares' # <<>>
      <3>1. shares \in Seq(1..NumPeers + 1)
        BY DEF TypeOK
      <3> HIDE DEF TypeOK
      <3> QED BY <2>1, <2>2, <3>1
    <2>4. signalled' \subseteq Thread
      BY <1>3 DEF Reply, TypeOK
    <2> QED BY <1>1, <1>2, <2>2, <2>3, <2>4 DEF TypeOK
  <1>4. CASE ~Welcome(ShareNo(p))
    <2>1. UNCHANGED <<shares, signalled>>
      BY <1>4 DEF Reply
    <2> QED BY <1>1, <1>2, <2>1 DEF TypeOK
  <1> QED BY <1>3, <1>4

LEMMA OpenTypes ==
    ASSUME TypeOK, NEW th \in Thread, OpenCollection(th)
    PROVE  TypeOK'
  <1>1. UNCHANGED <<job, keys, executing, scan, auction, bids, signalled, got, pushed,
                    stranded, contested, adopted>>
    BY DEF OpenCollection, env
  <1>2. collector' \subseteq Thread /\ Cardinality(collector') <= 1
    BY CollectorFacts DEF OpenCollection
  <1>3. shares' \in Seq(1..NumPeers + 1) /\ collector' # {} /\ shares' # <<>>
    <2>1. 1 \in 1..NumPeers + 1
      BY PriceAssumption
    <2> QED BY <2>1 DEF OpenCollection
  <1>4. replies' \in [Peer -> 0..2]
    <2>1. \A p \in Peer : (IF p \in keys /\ replies[p] < 2 THEN replies[p] + 1
                           ELSE replies[p]) \in 0..2
      BY DEF TypeOK
    <2> QED BY <2>1 DEF OpenCollection
  <1>5. at' \in [Thread -> Phase]
    BY DEF OpenCollection, TypeOK, Phase
  <1> QED BY <1>1, <1>2, <1>3, <1>4, <1>5 DEF TypeOK

LEMMA EndTypes ==
    ASSUME TypeOK, NEW th \in Thread, EndCollection(th)
    PROVE  TypeOK'
  <1> DEFINE have == IF collector = {} THEN <<1>> ELSE shares
  <1>1. UNCHANGED <<job, keys, executing, scan, auction, bids, replies, pushed,
                    stranded, contested, adopted>>
    BY DEF EndCollection, env
  <1>2. collector' = {} /\ shares' = <<>> /\ signalled' \subseteq Thread
    BY DEF EndCollection, TypeOK
  <1>3. have \in Seq(1..NumPeers + 1)
    <2>1. 1 \in 1..NumPeers + 1
      BY PriceAssumption
    <2>2. <<1>> \in Seq(1..NumPeers + 1)
      BY <2>1
    <2>3. shares \in Seq(1..NumPeers + 1)
      BY DEF TypeOK
    <2> QED BY <2>2, <2>3
  <1>4. got' \in [Thread -> Seq(1..NumPeers + 1)]
    BY <1>3 DEF EndCollection, TypeOK
  <1>5. at' \in [Thread -> Phase]
    BY DEF EndCollection, TypeOK, Phase
  <1>6. Cardinality(collector') <= 1
    BY <1>2, CollectorFacts
  <1>7. shares' \in Seq(1..NumPeers + 1)
    <2>1. <<>> \in Seq(1..NumPeers + 1)
      OBVIOUS
    <2> QED BY <1>2, <2>1
  <1> QED BY <1>1, <1>2, <1>4, <1>5, <1>6, <1>7 DEF TypeOK

LEMMA StepTypes == TypeOK /\ [Next]_vars => TypeOK'
  <1> SUFFICES ASSUME TypeOK, [Next]_vars PROVE TypeOK'
    OBVIOUS
  <1>1. ASSUME NEW known \in KeysKnown, Submit(known) PROVE TypeOK'
    BY <1>1, PeerAssumption DEF Submit, TypeOK, Job, threads, env
  <1>2. CASE ScanList
    BY <1>2 DEF ScanList, TypeOK, threads, env
  <1>3. CASE ScanCheck
    BY <1>3 DEF ScanCheck, TypeOK, threads, env
  <1>4. CASE ScanClaim
    BY <1>4 DEF ScanClaim, TypeOK, Job, threads, env
  <1>5. ASSUME NEW th \in Thread, ScanSpawn(th) PROVE TypeOK'
    BY <1>5 DEF ScanSpawn, TypeOK, Phase, env
  <1>6. CASE CloseAuction
    BY <1>6 DEF CloseAuction, TypeOK, threads, env
  <1>7. ASSUME NEW th \in Thread, Award(th) PROVE TypeOK'
    BY <1>7 DEF Award, TypeOK, Phase, Job, env
  <1>8. ASSUME NEW p \in Peer, Bid(p) PROVE TypeOK'
    BY <1>8 DEF Bid, TypeOK, threads, env
  <1>9. ASSUME NEW th \in Thread, Register(th) \/ Verify(th) PROVE TypeOK'
    BY <1>9 DEF Register, Verify, TypeOK, Phase, env
  <1>10. ASSUME NEW th \in Thread, Finish(th) PROVE TypeOK'
    <2>1. job' \in Job /\ pushed' \in 0..2
      BY <1>10 DEF Finish, Released, Completed, TypeOK, Job
    <2>2. at' \in [Thread -> Phase]
      BY <1>10 DEF Finish, TypeOK, Phase
    <2>3. got' \in [Thread -> Seq(1..NumPeers + 1)]
      BY <1>10 DEF Finish, TypeOK
    <2>4. UNCHANGED <<keys, executing, scan, auction, bids, collector, shares, signalled,
                      replies, stranded, contested, adopted>>
      BY <1>10 DEF Finish, env
    <2> QED BY <2>1, <2>2, <2>3, <2>4 DEF TypeOK
  <1>11. ASSUME NEW th \in Thread, Leave(th) PROVE TypeOK'
    BY <1>11 DEF Leave, TypeOK, Phase, env
  <1>12. ASSUME NEW copy \in {"pending", "theirs", "theirResult"}, Adopt(copy) PROVE TypeOK'
    BY <1>12, BoundsAssumption DEF Adopt, TypeOK, Job, threads
  <1>13. CASE Lapse
    BY <1>13 DEF Lapse, TypeOK, Job, threads, env
  <1>14. CASE UNCHANGED vars
    BY <1>14 DEF TypeOK, vars, threads, env
  <1> QED
    BY <1>1, <1>2, <1>3, <1>4, <1>5, <1>6, <1>7, <1>8, <1>9, <1>10, <1>11, <1>12, <1>13,
       <1>14, ShareTypes, OpenTypes, EndTypes
       DEF Next, Scan, Auction, ThreadStep

-----------------------------------------------------------------------------
(* The users of the lease.                                                 *)

LEMMA InitLease == Init => LeaseInv
  BY DEF Init, LeaseInv, Engaged

\* Steps of peers and of the auction that give the lease to nobody.
LEMMA OthersLease ==
    ASSUME TypeOK, LeaseInv,
           \/ \E known \in KeysKnown : Submit(known)
           \/ \E copy \in {"pending", "theirs", "theirResult"} : Adopt(copy)
           \/ Lapse \/ CloseAuction \/ \E p \in Peer : Bid(p) \/ Reply(p)
    PROVE  LeaseInv'
  <1>1. CASE \E known \in KeysKnown : Submit(known)
    BY <1>1 DEF Submit, LeaseInv, Engaged, threads, env
  <1>2. CASE \E copy \in {"pending", "theirs", "theirResult"} : Adopt(copy)
    <2>1. PICK copy \in {"pending", "theirs", "theirResult"} : Adopt(copy)
      BY <1>2
    <2>2. /\ job' = copy /\ contested' = (contested \/ job = "ours") /\ job # "ourResult"
          /\ UNCHANGED <<scan, at, pushed>>
      BY <2>1 DEF Adopt, threads
    <2>3. SUFFICES ASSUME ~contested' PROVE LeaseInv'
      BY DEF LeaseInv
    <2>4. ~contested /\ job # "ours"
      BY <2>2, <2>3
    <2> QED BY <2>2, <2>4 DEF LeaseInv
  <1>3. CASE Lapse \/ CloseAuction
    BY <1>3 DEF Lapse, CloseAuction, LeaseInv, Engaged, threads, env
  <1>4. CASE \E p \in Peer : Bid(p) \/ Reply(p)
    BY <1>4 DEF Bid, Reply, LeaseInv, Engaged, threads, env
  <1> QED BY <1>1, <1>2, <1>3, <1>4

\* The scan loop and awards take the lease only when it has no user.
LEMMA ClaimLease ==
    ASSUME TypeOK, LeaseInv, Scan \/ \E th \in Thread : Award(th)
    PROVE  LeaseInv'
  <1>1. CASE ScanList \/ ScanCheck
    BY <1>1 DEF ScanList, ScanCheck, LeaseInv, threads, env
  <1>2. CASE ScanClaim
    BY <1>2 DEF ScanClaim, CanClaim, LeaseInv, threads, env
  <1>3. ASSUME NEW th \in Thread, ScanSpawn(th) PROVE LeaseInv'
    <2>1. /\ scan = "claimed" /\ scan' = "rest" /\ UNCHANGED <<job, pushed, contested>>
          /\ at' = [at EXCEPT ![th] = "settling"]
      BY <1>3 DEF ScanSpawn, env
    <2>2. \A a \in Thread \ {th} : at'[a] = at[a]
      BY <2>1 DEF TypeOK
    <2> QED BY <2>1, <2>2 DEF LeaseInv
  <1>4. ASSUME NEW th \in Thread, Award(th) PROVE LeaseInv'
    <2>1. CASE CanClaim
      <3>1. /\ job' = "ours" /\ at' = [at EXCEPT ![th] = "awarded"]
            /\ UNCHANGED <<scan, pushed, contested>>
        BY <1>4, <2>1 DEF Award, env
      <3>2. \A a \in Thread \ {th} : at'[a] = at[a]
        BY <3>1 DEF TypeOK
      <3>3. job \notin {"ours", "ourResult"}
        BY <2>1 DEF CanClaim
      <3> QED BY <3>1, <3>2, <3>3 DEF LeaseInv
    <2>2. CASE ~CanClaim
      BY <1>4, <2>2 DEF Award, LeaseInv, env
    <2> QED BY <2>1, <2>2
  <1> QED BY <1>1, <1>2, <1>3, <1>4 DEF Scan

\* The thread that uses the lease keeps it or gives it up.
LEMMA ThreadLease ==
    ASSUME TypeOK, LeaseInv, NEW th \in Thread, ThreadStep(th)
    PROVE  LeaseInv'
  <1>1. CASE Register(th) \/ Verify(th) \/ OpenCollection(th) \/ EndCollection(th) \/ Leave(th)
    <2>1. UNCHANGED <<job, scan, pushed, contested>>
      BY <1>1 DEF Register, Verify, OpenCollection, EndCollection, Leave, env
    <2>2. /\ \A a \in Thread \ {th} : at'[a] = at[a]
          /\ at'[th] \in Engaged => at[th] \in Engaged
      BY <1>1 DEF Register, Verify, OpenCollection, EndCollection, Leave, TypeOK, Engaged
    <2> QED BY <2>1, <2>2 DEF LeaseInv
  <1>2. CASE Finish(th)
    <2>1. /\ at' = [at EXCEPT ![th] = "leaving"] /\ UNCHANGED <<scan, contested>>
          /\ at[th] \in Engaged
      BY <1>2 DEF Finish, Engaged, env
    <2>2. SUFFICES ASSUME ~contested PROVE LeaseInv'
      BY <2>1 DEF LeaseInv
    <2>3. /\ job = "ours" /\ pushed = 0 /\ scan # "claimed"
          /\ \A a \in Thread \ {th} : at[a] \notin Engaged
      BY <2>1, <2>2 DEF LeaseInv
    <2>4. \A a \in Thread : at'[a] \notin Engaged
      BY <2>1, <2>3 DEF TypeOK, Engaged
    <2>5. \/ pushed' = 0
          \/ pushed' = 1 /\ job' = "ourResult"
      BY <1>2, <2>3 DEF Finish, Completed, LeasedByUs
    <2> QED BY <2>1, <2>3, <2>4, <2>5 DEF LeaseInv
  <1> QED BY <1>1, <1>2 DEF ThreadStep

LEMMA StepLease == TypeOK /\ LeaseInv /\ [Next]_vars => LeaseInv'
  <1> SUFFICES ASSUME TypeOK, LeaseInv, [Next]_vars PROVE LeaseInv'
    OBVIOUS
  <1>1. CASE UNCHANGED vars
    BY <1>1 DEF vars, threads, env, LeaseInv
  <1> QED BY <1>1, OthersLease, ClaimLease, ThreadLease DEF Next, Auction

-----------------------------------------------------------------------------
(* The shares.                                                             *)

LEMMA InitShares == Init => SharesInv
  BY DEF Init, SharesInv, Joinable

\* A step that leaves the keys and the entry alone keeps what it is of.
LEMMA SharesKept ==
    ASSUME SharesInv, UNCHANGED <<keys, shares>>,
           job' = "absent" =>
              job = "absent" /\ scan' = scan /\ auction' = auction /\ at' = at,
           \A th \in Thread : at'[th] = "working" /\ Threshold =>
                                 at[th] = "working" /\ got'[th] = got[th]
    PROVE  SharesInv'
  <1>1. Threshold' = Threshold /\ Needed' = Needed
    BY DEF Threshold, Needed, Holders
  <1>2. ASSUME NEW th \in Thread, at'[th] = "working", Threshold PROVE Enough(got[th])'
    BY <1>1, <1>2 DEF SharesInv, Enough, Joinable
  <1> QED BY <1>1, <1>2 DEF SharesInv, Joinable

\* Nothing but a submission can change the keys, and nobody is at the job.
LEMMA SubmitShares ==
    ASSUME SharesInv, NEW known \in KeysKnown, Submit(known)
    PROVE  SharesInv'
  <1>1. job' = "pending" /\ UNCHANGED <<at, shares>> /\ \A th \in Thread : at[th] = "idle"
    BY DEF Submit, SharesInv, threads
  <1> QED BY <1>1 DEF SharesInv, Joinable

\* The steps of scan, auction and peers.
LEMMA OthersShares ==
    ASSUME TypeOK, SharesInv,
           \/ Scan \/ Auction \/ Lapse
           \/ \E p \in Peer : Bid(p)
           \/ \E copy \in {"pending", "theirs", "theirResult"} : Adopt(copy)
    PROVE  SharesInv'
  <1>1. CASE ScanList \/ ScanCheck \/ ScanClaim
    BY <1>1, SharesKept DEF ScanList, ScanCheck, ScanClaim, CanClaim, SharesInv, threads
  <1>2. ASSUME NEW th \in Thread, ScanSpawn(th) PROVE SharesInv'
    <2>1. job' # "absent" /\ UNCHANGED <<keys, shares, got>>
      BY <1>2 DEF ScanSpawn, SharesInv
    <2>2. \A a \in Thread : at'[a] = "working" => at[a] = "working"
      BY <1>2 DEF ScanSpawn, TypeOK
    <2> QED BY <2>1, <2>2, SharesKept
  <1>3. CASE CloseAuction \/ Lapse
    BY <1>3, SharesKept DEF CloseAuction, Lapse, SharesInv, threads
  <1>4. ASSUME NEW th \in Thread, Award(th) PROVE SharesInv'
    <2>1. job' # "absent" /\ UNCHANGED <<keys, shares, got>>
      BY <1>4 DEF Award, SharesInv
    <2>2. \A a \in Thread : at'[a] = "working" => at[a] = "working"
      BY <1>4 DEF Award, TypeOK
    <2> QED BY <2>1, <2>2, SharesKept
  <1>5. CASE \E p \in Peer : Bid(p)
    BY <1>5, SharesKept DEF Bid, SharesInv, threads
  <1>6. CASE \E copy \in {"pending", "theirs", "theirResult"} : Adopt(copy)
    BY <1>6, SharesKept DEF Adopt, threads
  <1> QED BY <1>1, <1>2, <1>3, <1>4, <1>5, <1>6 DEF Scan, Auction

\* A response that is welcome has a number the entry has not.
LEMMA ReplyShares ==
    ASSUME TypeOK, SharesInv, NEW p \in Peer, Reply(p)
    PROVE  SharesInv'
  <1>1. UNCHANGED <<job, keys, scan, auction, at, got>>
    BY DEF Reply
  <1>2. CASE ~Welcome(ShareNo(p))
    BY <1>1, <1>2, SharesKept DEF Reply
  <1>3. CASE Welcome(ShareNo(p))
    <2> DEFINE x == ShareNo(p)
               n == Len(shares)
    <2>1. /\ shares' = Append(shares, x) /\ shares # <<>>
          /\ \A i \in DOMAIN shares : shares[i] # x
      BY <1>3 DEF Reply, Welcome, TypeOK
    <2>2. /\ shares \in Seq(1..NumPeers + 1) /\ n \in Nat \ {0} /\ DOMAIN shares = 1..n
          /\ x \in 1..NumPeers + 1
      <3>1. shares \in Seq(1..NumPeers + 1) /\ x \in 1..NumPeers + 1
        BY PeerFacts DEF TypeOK
      <3> HIDE DEF x, TypeOK
      <3> QED BY <2>1, <3>1
    <2> HIDE DEF x
    <2>3. /\ DOMAIN shares' = 1..n + 1 /\ shares'[n + 1] = x
          /\ \A i \in 1..n : shares'[i] = shares[i]
      BY <2>1, <2>2
    <2>4. Joinable(shares')
      <3>1. \A i, j \in 1..n : i # j => shares[i] # shares[j]
        BY <2>2 DEF SharesInv, Joinable
      <3> HIDE DEF n
      <3>2. ASSUME NEW i \in 1..n + 1, NEW j \in 1..n + 1, i # j PROVE shares'[i] # shares'[j]
        <4>1. CASE i \in 1..n /\ j \in 1..n
          BY <2>3, <3>1, <3>2, <4>1
        <4>2. CASE i = n + 1
          <5>1. j \in 1..n
            BY <2>2, <3>2, <4>2
          <5> QED BY <2>1, <2>2, <2>3, <4>2, <5>1
        <4>3. CASE j = n + 1
          <5>1. i \in 1..n
            BY <2>2, <3>2, <4>3
          <5> QED BY <2>1, <2>2, <2>3, <4>3, <5>1
        <4> QED BY <2>2, <4>1, <4>2, <4>3
      <3> QED BY <2>3, <3>2 DEF Joinable
    <2>5. shares'[1] = 1
      BY <2>1, <2>2, <2>3 DEF SharesInv
    <2>6. Threshold' = Threshold /\ Needed' = Needed
      BY <1>1 DEF Threshold, Needed, Holders
    <2> QED BY <1>1, <2>4, <2>5, <2>6 DEF SharesInv, Enough, Joinable
  <1> QED BY <1>2, <1>3

LEMMA ThreadShares ==
    ASSUME TypeOK, SharesInv, NEW th \in Thread, ThreadStep(th)
    PROVE  SharesInv'
  <1>0. at[th] # "idle" => job # "absent"
    BY DEF SharesInv
  <1>1. CASE Register(th) \/ Verify(th) \/ Leave(th)
    <2>1. job' # "absent" /\ UNCHANGED <<keys, shares, got>>
      BY <1>0, <1>1 DEF Register, Verify, Leave
    <2>2. \A a \in Thread : at'[a] = "working" /\ Threshold => at[a] = "working"
      BY <1>1 DEF Register, Verify, Leave, TypeOK
    <2> QED BY <2>1, <2>2, SharesKept
  <1>2. CASE Finish(th)
    <2>1. job' # "absent" /\ UNCHANGED <<keys, shares>>
      BY <1>0, <1>2 DEF Finish, Released, Completed
    <2>2. \A a \in Thread : at'[a] = "working" => a # th /\ at[a] = "working" /\ got'[a] = got[a]
      BY <1>2 DEF Finish, TypeOK
    <2> QED BY <2>1, <2>2, SharesKept
  <1>3. CASE OpenCollection(th)
    <2>1. job' # "absent" /\ UNCHANGED <<keys, got>> /\ shares' = <<1>>
      BY <1>0, <1>3 DEF OpenCollection
    <2>2. \A a \in Thread : at'[a] = "working" => at[a] = "working"
      BY <1>3 DEF OpenCollection, TypeOK
    <2>3. Threshold' = Threshold /\ Needed' = Needed
      BY <2>1 DEF Threshold, Needed, Holders
    <2>4. Joinable(shares') /\ shares'[1] = 1
      BY <2>1 DEF Joinable
    <2> QED BY <2>1, <2>2, <2>3, <2>4 DEF SharesInv, Enough, Joinable
  <1>4. CASE EndCollection(th)
    <2> DEFINE have == IF collector = {} THEN <<1>> ELSE shares
    <2>1. /\ job' # "absent" /\ UNCHANGED keys /\ shares' = <<>>
          /\ got' = [got EXCEPT ![th] = have]
          /\ at' = [at EXCEPT ![th] = IF Len(have) < Needed THEN "short" ELSE "working"]
      BY <1>0, <1>4 DEF EndCollection
    <2>2. Joinable(have) /\ have[1] = 1 /\ Len(have) \in Nat
      <3>1. CASE collector = {}
        BY <3>1 DEF Joinable
      <3>2. CASE collector # {}
        BY <3>2 DEF TypeOK, SharesInv
      <3> QED BY <3>1, <3>2
    <2> HIDE DEF have
    <2>3. Threshold' = Threshold /\ Needed' = Needed /\ Needed \in Int
      <3>1. IsFiniteSet(keys)
        <4>1. IsFiniteSet(1..NumPeers)
          BY PriceAssumption, FS_Interval
        <4> QED BY <4>1, FS_Subset DEF TypeOK, Peer
      <3>2. Cardinality(keys) \in Nat
        BY <3>1, FS_CardinalityType
      <3> QED BY <2>1, <3>2 DEF Threshold, Needed, Holders
    <2>4. ASSUME NEW a \in Thread, at'[a] = "working", Threshold PROVE Enough(got'[a])
      <3>1. CASE a = th
        BY <2>1, <2>2, <2>3, <2>4, <3>1 DEF TypeOK, Enough
      <3>2. CASE a # th
        BY <2>1, <2>4, <3>2 DEF TypeOK, SharesInv
      <3> QED BY <3>1, <3>2
    <2>5. Joinable(shares') /\ shares' = <<>>
      BY <2>1 DEF Joinable
    <2> QED BY <2>1, <2>3, <2>4, <2>5 DEF SharesInv, Enough, Joinable
  <1> QED BY <1>1, <1>2, <1>3, <1>4 DEF ThreadStep

LEMMA StepShares == TypeOK /\ SharesInv /\ [Next]_vars => SharesInv'
  <1> SUFFICES ASSUME TypeOK, SharesInv, [Next]_vars PROVE SharesInv'
    OBVIOUS
  <1>1. CASE UNCHANGED vars
    BY <1>1, SharesKept DEF vars, threads
  <1> QED BY <1>1, SubmitShares, OthersShares, ReplyShares, ThreadShares DEF Next

LEMMA Invariance == Spec => [](TypeOK /\ LeaseInv /\ SharesInv)
  <1>1. Init => TypeOK /\ LeaseInv /\ SharesInv
    BY InitTypes, InitLease, InitShares
  <1>2. TypeOK /\ LeaseInv /\ SharesInv /\ [Next]_vars => (TypeOK /\ LeaseInv /\ SharesInv)'
    BY StepTypes, StepLease, StepShares
  <1> QED BY <1>1, <1>2, PTL DEF Spec

-----------------------------------------------------------------------------
(* Theorems.                                                               *)

\* The tables of the node keep their types: one entry at most collects
\* shares, with the numbers of share holders, whatever arrives when.
THEOREM TypeCorrect == Spec => []TypeOK
  BY Invariance, PTL

\* However the steps of scan, auction and exec threads interleave, and
\* although a dispatch is three critical sections, the node executes the
\* job in one thread at a time, as long as no peer takes its lease away.
THEOREM OneRunnerSafe == Spec => []OneRunner
  <1>1. LeaseInv => OneRunner
    <2> SUFFICES ASSUME LeaseInv, ~contested PROVE Cardinality(Working) <= 1
      BY DEF OneRunner
    <2>1. \A a, b \in Working : a = b
      BY DEF LeaseInv, Working, Engaged
    <2>2. CASE Working = {}
      BY <2>2, FS_EmptySet
    <2>3. CASE Working # {}
      <3>1. PICK th \in Working : TRUE
        BY <2>3
      <3>2. Working = {th}
        BY <2>1, <3>1
      <3>3. Cardinality({th}) = 1
        BY FS_Singleton
      <3> QED BY <3>2, <3>3
    <2> QED BY <2>2, <2>3
  <1> QED BY <1>1, Invariance, PTL

\* Nor is a second result of the job pushed to its submitter.
THEOREM PushedOnceSafe == Spec => []PushedOnce
  <1>1. LeaseInv => PushedOnce
    BY DEF LeaseInv, PushedOnce
  <1> QED BY <1>1, Invariance, PTL

\* A completed record stays as it is: no thread that is left over releases,
\* claims or completes it again.
THEOREM ResultStandsSafe == Spec => ResultStands
  <1>1. TypeOK /\ LeaseInv /\ [Next]_vars => [(job \in Result /\ ~contested) => (job' = job)]_vars
    <2> SUFFICES ASSUME LeaseInv, Next, job \in Result, ~contested PROVE job' = job
      OBVIOUS
    <2>1. job \notin {"absent", "pending", "ours", "theirs", "lapsed"}
      BY DEF Result
    <2>2. \A a \in Thread : at[a] \notin Engaged
      BY <2>1 DEF LeaseInv
    <2>3. ASSUME NEW th \in Thread, ThreadStep(th) PROVE job' = job
      BY <2>2, <2>3 DEF ThreadStep, Register, Verify, OpenCollection, EndCollection,
                        Finish, Leave, Engaged
    <2>4. CASE Scan
      BY <2>1, <2>4 DEF Scan, ScanList, ScanCheck, ScanClaim, ScanSpawn, CanClaim
    <2>5. CASE Auction
      BY <2>1, <2>5 DEF Auction, CloseAuction, Award, CanClaim
    <2>6. ASSUME NEW p \in Peer, Bid(p) \/ Reply(p) PROVE job' = job
      BY <2>6 DEF Bid, Reply
    <2>7. ~(\E known \in KeysKnown : Submit(known)) /\ ~Lapse
      BY <2>1 DEF Submit, Lapse
    <2>8. ~\E copy \in {"pending", "theirs", "theirResult"} : Adopt(copy)
      BY <2>1 DEF Adopt
    <2> QED BY <2>3, <2>4, <2>5, <2>6, <2>7, <2>8 DEF Next
  <1>2. QED BY <1>1, Invariance, PTL DEF Spec, ResultStands

\* Whatever peers do, a lease of ours and an entry of `_executing' have a
\* user: the one is passed from the scan loop or the award to a thread, the
\* other is of the thread that registered last.
THEOREM NothingLeftBehindSafe == Spec => []NothingLeftBehind
  <1>1. Init => NothingLeftBehind
    BY DEF Init, NothingLeftBehind
  <1>2. TypeOK /\ NothingLeftBehind /\ [Next]_vars => NothingLeftBehind'
    <2> SUFFICES ASSUME TypeOK, NothingLeftBehind, [Next]_vars PROVE NothingLeftBehind'
      OBVIOUS
    <2>1. ASSUME UNCHANGED <<executing, at, stranded>>,
                 job' = "ours" => scan' = "claimed" \/ (job = "ours" /\ scan # "claimed")
          PROVE  NothingLeftBehind'
      BY <2>1 DEF NothingLeftBehind
    <2>2. CASE \/ \E known \in KeysKnown : Submit(known)
               \/ CloseAuction \/ Lapse
               \/ \E p \in Peer : Bid(p) \/ Reply(p)
               \/ \E copy \in {"pending", "theirs", "theirResult"} : Adopt(copy)
      BY <2>1, <2>2 DEF Submit, CloseAuction, Lapse, Bid, Reply, Adopt, threads
    <2>3. CASE ScanList \/ ScanCheck \/ ScanClaim
      BY <2>1, <2>3 DEF ScanList, ScanCheck, ScanClaim, threads
    <2>4. ASSUME NEW th \in Thread, ScanSpawn(th) PROVE NothingLeftBehind'
      <3>1. at'[th] = "settling"
        BY <2>4 DEF ScanSpawn, TypeOK
      <3> QED BY <3>1 DEF NothingLeftBehind, Engaged
    <2>5. ASSUME NEW th \in Thread, Award(th) PROVE NothingLeftBehind'
      <3>1. /\ \A a \in Thread \ {th} : at'[a] = at[a]
            /\ at[th] = "idle" /\ UNCHANGED <<executing, scan, stranded>>
            /\ \/ job' = "ours" /\ at'[th] = "awarded"
               \/ UNCHANGED <<job, at>>
        BY <2>5 DEF Award, TypeOK
      <3> QED BY <3>1 DEF NothingLeftBehind, Engaged
    <2>6. ASSUME NEW th \in Thread, Register(th) PROVE NothingLeftBehind'
      <3>1. /\ \A a \in Thread \ {th} : at'[a] = at[a]
            /\ at[th] = "awarded" /\ UNCHANGED <<job, scan>>
            /\ \/ executing /\ stranded'
               \/ at'[th] = "settling" /\ stranded' = stranded
        BY <2>6 DEF Register, TypeOK
      <3> QED BY <3>1 DEF NothingLeftBehind, Engaged
    <2>7. ASSUME NEW th \in Thread, Verify(th) \/ OpenCollection(th) \/ EndCollection(th)
          PROVE  NothingLeftBehind'
      <3>1. /\ \A a \in Thread \ {th} : at'[a] = at[a]
            /\ at'[th] \notin {"idle", "awarded"} /\ UNCHANGED <<job, scan, stranded>>
            /\ job = "ours" => at'[th] \in Engaged
        BY <2>7 DEF Verify, OpenCollection, EndCollection, TypeOK, Engaged
      <3> QED BY <3>1 DEF NothingLeftBehind
    <2>8. ASSUME NEW th \in Thread, Finish(th) PROVE NothingLeftBehind'
      <3>1. at'[th] = "leaving" /\ job' # "ours"
        BY <2>8 DEF Finish, Released, Completed, LeasedByUs, TypeOK
      <3> QED BY <3>1 DEF NothingLeftBehind
    <2>9. ASSUME NEW th \in Thread, Leave(th) PROVE NothingLeftBehind'
      <3>1. /\ \A a \in Thread \ {th} : at'[a] = at[a]
            /\ at[th] \notin Engaged /\ ~executing'
            /\ UNCHANGED <<job, scan, stranded>>
        BY <2>9 DEF Leave, TypeOK, Engaged
      <3> QED BY <3>1 DEF NothingLeftBehind
    <2>10. CASE UNCHANGED vars
      BY <2>1, <2>10 DEF vars, threads
    <2> QED
      BY <2>2, <2>3, <2>4, <2>5, <2>6, <2>7, <2>8, <2>9, <2>10
         DEF Next, Scan, Auction, ThreadStep
  <1> QED BY <1>1, <1>2, Invariance, PTL DEF Spec

-----------------------------------------------------------------------------
(* The key.                                                                *)

LEMMA HolderFacts ==
    ASSUME TypeOK, Threshold
    PROVE  /\ Holders \in 3..NumPeers + 1 /\ Needed \in 2..Holders
           /\ Needed \in 2..(NumPeers + 2) \div 2
  <1>1. NumPeers \in Nat
    BY PriceAssumption
  <1>2. IsFiniteSet(1..NumPeers) /\ Cardinality(1..NumPeers) = NumPeers
    BY <1>1, FS_Interval
  <1>3. IsFiniteSet(keys) /\ Cardinality(keys) <= NumPeers
    <2>1. keys \in SUBSET (1..NumPeers)
      BY DEF TypeOK, Peer
    <2> QED BY <1>2, <2>1, FS_Subset
  <1>4. Cardinality(keys) \in Nat
    BY <1>3, FS_CardinalityType
  <1>5. Holders \in Nat /\ Holders >= 3 /\ Holders <= NumPeers + 1
    BY <1>1, <1>3, <1>4 DEF Holders, Threshold
  <1> QED BY <1>1, <1>5 DEF Needed

LEMMA NumbersAreBytes == NumPeers < 255 => Number \subseteq Byte \ {0}
  BY PriceAssumption DEF Number, Byte

\* A secret and its coefficients, as shamir_split has them.
LEMMA PolynomialFacts ==
    ASSUME NEW t \in Nat \ {0}, NEW c \in Polynomials(t)
    PROVE  c \in Seq(Byte) /\ Len(c) = t
  <1>1. c \in [1..t -> Byte]
    BY ByteAssumption DEF Polynomials
  <1> QED BY <1>1

LEMMA ListFacts ==
    ASSUME NumPeers < 255, NEW n \in Nat, n <= NumPeers + 1,
           NEW k \in Nat, NEW xs \in Sequence(1..n, k)
    PROVE  xs \in Seq(Byte \ {0}) /\ Joinable(xs) /\ Len(xs) = k
  <1>1. xs \in [1..k -> 1..n] /\ Joinable(xs)
    BY DEF Sequence
  <1>2. 1..n \subseteq Byte \ {0}
    BY PriceAssumption DEF Byte
  <1>3. xs \in [1..k -> Byte \ {0}]
    BY <1>1, <1>2
  <1> QED BY <1>1, <1>3

\* As many different numbers as there are share holders, at most.
LEMMA NoLonger ==
    ASSUME NEW n \in Nat, NEW xs \in Seq(1..n), Joinable(xs)
    PROVE  Len(xs) <= n
  <1> SUFFICES ASSUME Len(xs) > n PROVE FALSE
    OBVIOUS
  <1> DEFINE m == Len(xs)
  <1>1. m \in Nat /\ xs \in [1..m -> 1..n] /\ DOMAIN xs = 1..m
    OBVIOUS
  <1>2. /\ IsFiniteSet(1..m) /\ Cardinality(1..m) = m
        /\ IsFiniteSet(1..n) /\ Cardinality(1..n) = n
    <2>1. 1 \in Int /\ m \in Int /\ n \in Int
      BY <1>1
    <2> HIDE DEF m
    <2> QED BY <1>1, <2>1, FS_Interval
  <1> HIDE DEF m
  <1>3. Cardinality(1..n) < Cardinality(1..m)
    BY <1>1, <1>2 DEF m
  <1>4. \E i, j \in 1..m : i # j /\ xs[i] = xs[j]
    BY <1>1, <1>2, <1>3, FS_PigeonHole
  <1> QED BY <1>1, <1>4 DEF Joinable

\* Decrypting does not fail: with whatever responses came in time, twice or
\* in whatever order, a thread that goes to work has shares that give the
\* key back, for every key and all coefficients, as long as there are no
\* more share holders than numbers of shares, which are bytes.
THEOREM SharesOpenSafe ==
    ASSUME NumPeers < 255 PROVE Spec => []SharesOpenPayload
  <1>1. TypeOK /\ SharesInv => SharesOpenPayload
    <2> SUFFICES ASSUME TypeOK, SharesInv, NEW th \in Thread,
                        at[th] = "working", Threshold
                 PROVE  <<Needed, got[th]>> \in Opening
      BY DEF SharesOpenPayload
    <2> DEFINE xs == got[th]
               k  == Len(xs)
    <2>1. xs \in Seq(Number) /\ Joinable(xs) /\ xs[1] = 1 /\ k >= Needed
      BY DEF TypeOK, SharesInv, Enough, Number
    <2>2. Needed \in 2..(NumPeers + 2) \div 2 /\ Needed \in Nat \ {0}
      BY HolderFacts
    <2> HIDE DEF xs
    <2>3. k \in Nat /\ k <= NumPeers + 1
      BY <2>1, NoLonger, PriceAssumption DEF Number
    <2>4. k \in Number
      BY <2>1, <2>2, <2>3, PriceAssumption DEF Number
    <2>5. xs \in Sequence(Number, k)
      BY <2>1 DEF Sequence
    <2>6. xs \in Seq(Byte \ {0})
      BY <2>1, NumbersAreBytes
    <2>7. ASSUME NEW c \in Polynomials(Needed) PROVE Opens(c, xs)
      <3>1. c \in Seq(Byte) /\ Len(c) = Needed
        BY <2>2, PolynomialFacts
      <3> QED BY <2>1, <2>2, <2>6, <3>1, SharesOpen
    <2> DEFINE lists(t, n) == {ys \in Sequence(Number, n) :
                                  ys[1] = 1 /\ \A c \in Polynomials(t) : Opens(c, ys)}
    <2>8. xs \in lists(Needed, k)
      BY <2>1, <2>5, <2>7
    <2> HIDE DEF lists, k
    <2>9. <<Needed, xs>> \in {<<Needed, ys>> : ys \in lists(Needed, k)}
      BY <2>8
    <2>10. <<Needed, xs>> \in
              UNION {{<<t, ys>> : ys \in lists(t, n)} :
                     t \in 2..(NumPeers + 2) \div 2, n \in Number}
      <3> DEFINE U == {{<<t, ys>> : ys \in lists(t, n)} :
                           t \in 2..(NumPeers + 2) \div 2, n \in Number}
      <3>1. {<<Needed, ys>> : ys \in lists(Needed, k)} \in U
        BY <2>2, <2>4
      <3> HIDE DEF U
      <3>2. <<Needed, xs>> \in UNION U
        BY <2>9, <3>1
      <3> QED BY <3>2 DEF U
    <2> QED BY <2>10 DEF Opening, lists, xs
  <1> QED BY <1>1, Invariance, PTL

\* Any of the nodes that hold a share can read a submitted job together, if
\* they are as many as _get_threshold_params asks for.
THEOREM MajorityOpensSafe ==
    ASSUME NumPeers < 255 PROVE Spec => []MajorityOpens
  <1>1. TypeOK => MajorityOpens
    <2> SUFFICES ASSUME TypeOK, Threshold
                 PROVE  <<Needed, Holders>> \in Readable
      BY DEF MajorityOpens
    <2> DEFINE t == Needed
               n == Holders
    <2>1. n \in 3..NumPeers + 1 /\ t \in 2..n /\ NumPeers \in Nat
      BY HolderFacts, PriceAssumption
    <2> HIDE DEF t, n
    <2>2. ASSUME NEW xs \in Sequence(1..n, t), NEW c \in Polynomials(t) PROVE Opens(c, xs)
      <3>1. t \in Nat \ {0} /\ n \in Nat /\ n <= NumPeers + 1
        BY <2>1
      <3>2. xs \in Seq(Byte \ {0}) /\ Joinable(xs) /\ Len(xs) = t
        BY <3>1, ListFacts
      <3>3. c \in Seq(Byte) /\ Len(c) = t
        BY <3>1, PolynomialFacts
      <3> QED BY <3>1, <3>2, <3>3, SharesOpen
    <2>3. <<t, n>> \in Readable
      BY <2>1, <2>2 DEF Readable
    <2> QED BY <2>3 DEF t, n
  <1> QED BY <1>1, Invariance, PTL

\* The share of a single node can be any byte, whatever the key is.
THEOREM OneShareTellsNothingSafe ==
    ASSUME NumPeers < 255 PROVE Spec => []OneShareTellsNothing
  <1>1. TypeOK => OneShareTellsNothing
    <2> SUFFICES ASSUME TypeOK, Threshold, NEW x \in 1..Holders
                 PROVE  <<Needed, x>> \notin Telling
      BY DEF OneShareTellsNothing
    <2>1. Needed \in Nat /\ Needed >= 2 /\ x \in Number
      BY HolderFacts, PriceAssumption DEF Number
    <2>2. Needed \in Nat \ {0, 1} /\ x \in Byte \ {0}
      BY <2>1, NumbersAreBytes
    <2>3. ASSUME NEW key \in KeyByte PROVE Possible(Needed, x, key) = Byte
      BY <2>2, ByteAssumption, ShareIsAnyByte
    <2> QED BY <2>3 DEF Telling
  <1> QED BY <1>1, Invariance, PTL
=============================================================================
