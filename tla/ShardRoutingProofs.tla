------------------------- MODULE ShardRoutingProofs -------------------------
(***************************************************************************)
(* Proofs about ShardRouting for any number of providers, any placement of *)
(* shards and capabilities, any cut of the network and any faults.         *)
(***************************************************************************)
EXTENDS ShardRouting, FiniteSetTheorems, TLAPS

-----------------------------------------------------------------------------
(* The backup of a shard.                                                  *)

\* The backup rule wraps around at shard 1 and counts down elsewhere.
LEMMA ReplicaValue ==
    ASSUME NEW s \in Shard
    PROVE  ReplicaShard(s) = IF s = 1 THEN NumShards ELSE s - 1
<1> USE ShardAssumption DEF Shard
<1>1. CASE s = 1
  <2>1. -1 = NumShards * (-1) + (NumShards - 1)
    OBVIOUS
  <2>2. (-1) % NumShards = NumShards - 1
    BY <2>1
  <2> QED
    BY <1>1, <2>2 DEF ReplicaShard
<1>2. CASE s # 1
  <2>1. (s - 2) % NumShards = s - 2
    BY <1>2
  <2> QED
    BY <1>2, <2>1 DEF ReplicaShard
<1> QED
  BY <1>1, <1>2

\* Every shard has exactly one shard whose provider is its backup, and with
\* more than one shard no provider is its own backup: the circular rule of
\* _replica_shard_for leaves no shard without one and gives none two.
THEOREM OneReplicaPerShard ==
    ASSUME NEW s \in Shard
    PROVE  /\ ReplicaShard(s) \in Shard
           /\ NumShards > 1 => ReplicaShard(s) # s
           /\ \E b \in Shard : /\ ReplicaShard(b) = s
                               /\ \A c \in Shard : ReplicaShard(c) = s => c = b
<1> USE ShardAssumption DEF Shard
<1>1. ReplicaShard(s) \in Shard /\ (NumShards > 1 => ReplicaShard(s) # s)
  BY ReplicaValue
<1> DEFINE b == IF s = NumShards THEN 1 ELSE s + 1
<1>2. b \in Shard
  OBVIOUS
<1>3. ReplicaShard(b) = s
  BY <1>2, ReplicaValue
<1>4. ASSUME NEW c \in Shard, ReplicaShard(c) = s PROVE c = b
  BY <1>4, ReplicaValue
<1> QED
  BY <1>1, <1>2, <1>3, <1>4

-----------------------------------------------------------------------------
(* Types.                                                                  *)

\* Every reachable state is well typed.
THEOREM TypeCorrect == Spec => []TypeOK
<1>1. Init => TypeOK
  BY ShardAssumption, RoutingAssumption DEF Init, TypeOK, PeerView
<1>2. TypeOK /\ [Next]_vars => TypeOK'
  <2> SUFFICES ASSUME TypeOK, [Next]_vars PROVE TypeOK'
    OBVIOUS
  <2> USE DEF TypeOK
  <2>1. ASSUME NEW p \in Node, Heartbeat(p) PROVE TypeOK'
    <3>1. view' \in [Node -> [Node -> PeerView]]
      BY <2>1 DEF Heartbeat, PeerView
    <3>2. \A n \in Node : view'[n][n] = "alive"
      BY <2>1 DEF Heartbeat, PeerView
    <3> QED
      BY <2>1, <3>1, <3>2 DEF Heartbeat
  <2>2. ASSUME NEW n \in Node, NEW p \in Node, Discover(n, p) PROVE TypeOK'
    <3>1. view' \in [Node -> [Node -> PeerView]]
      BY <2>2 DEF Discover, PeerView
    <3>2. \A m \in Node : view'[m][m] = "alive"
      BY <2>2 DEF Discover, PeerView
    <3> QED
      BY <2>2, <3>1, <3>2 DEF Discover
  <2>3. ASSUME NEW n \in Node, DetectFailures(n) PROVE TypeOK'
    <3>1. view' \in [Node -> [Node -> PeerView]]
      BY <2>3 DEF DetectFailures, PeerView
    <3>2. \A m \in Node : view'[m][m] = "alive"
      BY <2>3 DEF DetectFailures
    <3> QED
      BY <2>3, <3>1, <3>2 DEF DetectFailures
  <2>4. ASSUME NEW n \in Node, Claim(n) PROVE TypeOK'
    BY <2>4 DEF Claim
  <2>5. ASSUME NEW n \in Node, Complete(n) PROVE TypeOK'
    <3>1. done' \subseteq Node
      BY <2>5 DEF Complete
    <3> QED
      BY <2>5, <3>1 DEF Complete
  <2>6. ASSUME NEW n \in Node, Kill(n) PROVE TypeOK'
    BY <2>6, RoutingAssumption DEF Kill, Fault
  <2>11. ASSUME NEW n \in Node, Yield(n) PROVE TypeOK'
    <3>1. claims' \subseteq Node /\ idle' \subseteq claims'
      BY <2>11 DEF Yield
    <3> QED
      BY <2>11, <3>1 DEF Yield
  <2>7. ASSUME NEW n \in Node, Start(n) PROVE TypeOK'
    <3>1. view' \in [Node -> [Node -> PeerView]]
      BY <2>7 DEF Start, PeerView
    <3>2. \A m \in Node : view'[m][m] = "alive"
      BY <2>7 DEF Start
    <3>3. faults' \in 0..MaxFaults
      BY <2>7, RoutingAssumption DEF Start, Fault
    <3>4. claims' = claims /\ idle' \subseteq claims
      BY <2>7 DEF Start
    <3> QED
      BY <2>7, <3>1, <3>2, <3>3, <3>4 DEF Start
  <2>8. CASE Cut
    <3>1. cut' \subseteq Node /\ faults' \in 0..MaxFaults
      <4>1. cut' \in Sides /\ Sides \subseteq SUBSET Node
        BY <2>8, RoutingAssumption DEF Cut
      <4>2. faults' \in 0..MaxFaults
        BY <2>8, RoutingAssumption DEF Cut, Fault
      <4> QED
        BY <4>1, <4>2
    <3> QED
      BY <2>8, <3>1 DEF Cut
  <2>9. CASE Heal
    BY <2>9 DEF Heal
  <2>10. CASE UNCHANGED vars
    BY <2>10 DEF vars
  <2> QED
    BY <2>1, <2>2, <2>3, <2>4, <2>5, <2>6, <2>7, <2>8, <2>9, <2>10, <2>11
       DEF Next, Watch, Work
<1> QED
  BY <1>1, <1>2, PTL DEF Spec

-----------------------------------------------------------------------------
(* Quorums.                                                                *)

\* Three disjoint sets of providers are no more than there are providers.
LEMMA ThreeDisjoint ==
    ASSUME NEW A \in SUBSET Node, NEW B \in SUBSET Node, NEW D \in SUBSET Node,
           A \cap B = {}, D \cap (A \cup B) = {}
    PROVE  /\ Cardinality(A) \in Nat /\ Cardinality(B) \in Nat
           /\ Cardinality(D) \in Nat /\ Cardinality(Node) \in Nat
           /\ Cardinality(A) + Cardinality(B) + Cardinality(D)
                 <= Cardinality(Node)
<1>1. IsFiniteSet(A) /\ IsFiniteSet(B) /\ IsFiniteSet(D) /\ IsFiniteSet(Node)
  BY NodesAssumption, FS_Subset
<1>2. /\ Cardinality(A) \in Nat /\ Cardinality(B) \in Nat
      /\ Cardinality(D) \in Nat /\ Cardinality(Node) \in Nat
  BY <1>1, FS_CardinalityType
<1>3. IsFiniteSet(A \cup B)
  BY <1>1, FS_Union
<1>4. Cardinality(A \cup B) = Cardinality(A) + Cardinality(B)
  <2>1. Cardinality(A \cup B) =
           Cardinality(A) + Cardinality(B) - Cardinality(A \cap B)
    BY <1>1, FS_Union
  <2>2. Cardinality(A \cap B) = 0
    BY FS_EmptySet
  <2> QED
    BY <1>2, <2>1, <2>2
<1>5. Cardinality((A \cup B) \cup D) = Cardinality(A \cup B) + Cardinality(D)
  <2>1. Cardinality((A \cup B) \cup D) =
           Cardinality(A \cup B) + Cardinality(D) - Cardinality((A \cup B) \cap D)
    BY <1>1, <1>3, FS_Union
  <2>2. (A \cup B) \cap D = {}
    OBVIOUS
  <2>3. Cardinality((A \cup B) \cap D) = 0
    BY <2>2, FS_EmptySet
  <2> QED
    BY <1>2, <1>4, <2>1, <2>3
<1>6. Cardinality((A \cup B) \cup D) <= Cardinality(Node)
  BY <1>1, FS_Subset
<1> QED
  BY <1>2, <1>4, <1>5, <1>6

\* What a quorum means for a provider that knows all others: its group is
\* more than half of the providers it has not confirmed dead.
LEMMA QuorumSize ==
    ASSUME ClusterSize = 0 \/ ClusterSize >= Cardinality(Node),
           NEW n \in Node, Known(n) = Node \ {n}, HasQuorum(n)
    PROVE  \/ Cardinality(Node) <= 1
           \/ 2 * Cardinality(Group(n)) >
                 Cardinality(Node) - Cardinality(DeadPeers(n))
<1>1. IsFiniteSet(Node) /\ IsFiniteSet(AlivePeers(n)) /\ IsFiniteSet(DeadPeers(n))
  <2>1. AlivePeers(n) \in SUBSET Node /\ DeadPeers(n) \in SUBSET Node
    BY DEF AlivePeers, DeadPeers
  <2> QED
    BY <2>1, NodesAssumption, FS_Subset
<1>2. /\ Cardinality(Node) \in Nat /\ Cardinality(AlivePeers(n)) \in Nat
      /\ Cardinality(DeadPeers(n)) \in Nat
  BY <1>1, FS_CardinalityType
<1>3. Cardinality(Group(n)) = Cardinality(AlivePeers(n)) + 1
  <2>1. n \notin AlivePeers(n)
    BY DEF AlivePeers
  <2> QED
    BY <1>1, <2>1, FS_AddElement DEF Group
<1>4. Cardinality(Known(n)) + 1 = Cardinality(Node)
  <2>1. Cardinality(Node \ {n}) = Cardinality(Node) - 1
    BY <1>1, FS_RemoveElement
  <2> QED
    BY <1>2, <2>1
<1> DEFINE cluster == IF ClusterSize > 0 THEN ClusterSize
                      ELSE Cardinality(Known(n)) + 1
<1>5. cluster \in Nat /\ cluster >= Cardinality(Node)
  BY <1>2, <1>4, RoutingAssumption
<1>6. \/ cluster <= 1
      \/ 2 * (Cardinality(AlivePeers(n)) + 1) >
             cluster - Cardinality(DeadPeers(n))
  BY DEF HasQuorum
<1> HIDE DEF cluster
<1> QED
  BY <1>2, <1>3, <1>5, <1>6

\* Whatever the providers think of each other, two quorums without a common
\* provider need a confirmed death across the two groups.
THEOREM QuorumsOverlap ==
    ASSUME ClusterSize = 0 \/ ClusterSize >= Cardinality(Node)
    PROVE  Spec => []QuorumOverlap
<1>1. QuorumOverlap
  <2> SUFFICES ASSUME NEW m \in Node, NEW n \in Node,
                      Known(m) = Node \ {m}, Known(n) = Node \ {n},
                      HasQuorum(m), HasQuorum(n),
                      Group(m) \cap Group(n) = {},
                      (DeadPeers(m) \cup DeadPeers(n))
                          \cap (Group(m) \cup Group(n)) = {}
               PROVE  FALSE
    BY DEF QuorumOverlap
  <2> DEFINE D == DeadPeers(m) \cup DeadPeers(n)
  <2>1. /\ Group(m) \in SUBSET Node /\ Group(n) \in SUBSET Node
        /\ D \in SUBSET Node
    BY DEF Group, AlivePeers, DeadPeers
  <2>2. /\ Cardinality(Group(m)) \in Nat /\ Cardinality(Group(n)) \in Nat
        /\ Cardinality(D) \in Nat /\ Cardinality(Node) \in Nat
        /\ Cardinality(Group(m)) + Cardinality(Group(n)) + Cardinality(D)
              <= Cardinality(Node)
    BY <2>1, ThreeDisjoint
  <2>3. Cardinality(Node) > 1
    <3>1. m # n
      BY DEF Group
    <3>2. Cardinality({m}) = 1 /\ {m} \in SUBSET Node
      BY FS_Singleton
    <3>3. Cardinality(Node) # 1
      BY <3>1, FS_Singleton, NodesAssumption
    <3>4. 1 <= Cardinality(Node)
      BY <3>2, FS_Subset, NodesAssumption
    <3> QED
      BY <2>2, <3>3, <3>4
  <2>4. /\ IsFiniteSet(D)
        /\ DeadPeers(m) \in SUBSET D /\ DeadPeers(n) \in SUBSET D
    BY <2>1, NodesAssumption, FS_Subset
  <2>5. /\ IsFiniteSet(DeadPeers(m)) /\ IsFiniteSet(DeadPeers(n))
        /\ Cardinality(DeadPeers(m)) <= Cardinality(D)
        /\ Cardinality(DeadPeers(n)) <= Cardinality(D)
    BY <2>4, FS_Subset
  <2>6. Cardinality(DeadPeers(m)) \in Nat /\ Cardinality(DeadPeers(n)) \in Nat
    BY <2>5, FS_CardinalityType
  <2>7. 2 * Cardinality(Group(m)) > Cardinality(Node) - Cardinality(DeadPeers(m))
    <3>1. \/ Cardinality(Node) <= 1
          \/ 2 * Cardinality(Group(m)) >
                Cardinality(Node) - Cardinality(DeadPeers(m))
      BY QuorumSize
    <3> QED
      BY <2>2, <2>3, <3>1
  <2>8. 2 * Cardinality(Group(n)) > Cardinality(Node) - Cardinality(DeadPeers(n))
    <3>1. \/ Cardinality(Node) <= 1
          \/ 2 * Cardinality(Group(n)) >
                Cardinality(Node) - Cardinality(DeadPeers(n))
      BY QuorumSize
    <3> QED
      BY <2>2, <2>3, <3>1
  <2> HIDE DEF D
  <2> QED
    BY <2>2, <2>5, <2>6, <2>7, <2>8
<1> QED
  BY <1>1, PTL
=============================================================================
