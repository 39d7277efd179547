---------------------------- MODULE ShardRouting ----------------------------
(***************************************************************************)
(* Who may claim a job: the routing rules of AgentRuntime._scan            *)
(* (whisper/runtime.py) on top of each provider's view of its peers        *)
(* (whisper/membership.py), while providers are killed and started and the *)
(* network is cut in two and heals.                                        *)
(*                                                                         *)
(* One job is followed.  The gossip of a claim, its renewals and its       *)
(* completion reach at once every provider that messages of the holder can *)
(* reach (LedgerGossip has the races of that); a lease that is no longer   *)
(* renewed for a provider has expired for it.  Likewise a heartbeat or a   *)
(* suspicion is handled by everyone it reaches, and a provider is suspected*)
(* only when nothing of it arrives any more (FailureDetector shows under   *)
(* which timing).  Messages are sent to peers that are not dead in the     *)
(* sender's view, and forwarded by the same rule.                          *)
(***************************************************************************)
EXTENDS Integers, FiniteSets

CONSTANTS Node,              \* the providers
          NumShards,         \* num_shards
          ShardOf,           \* shard_id of each provider
          Caps,              \* capabilities of each provider
          JobShards,         \* shards the job may be for
          ClusterSize,       \* cluster_size; 0 to infer it from the peers
          DeadReportsNeeded, \* DEAD_REPORTS_NEEDED
          GossipHops,        \* GOSSIP_HOPS
          Sides,             \* the ways the network may be cut
          CutCost,           \* bound: how many faults a cut counts for
          MaxFaults          \* bound: kills, starts and cuts together

Shard == 1..NumShards

ASSUME NodesAssumption == IsFiniteSet(Node)
ASSUME ShardAssumption ==
    /\ NumShards \in Nat \ {0}
    /\ ShardOf \in [Node -> Shard]
    /\ JobShards \subseteq Shard
ASSUME RoutingAssumption ==
    /\ ClusterSize \in Nat /\ DeadReportsNeeded \in Nat
    /\ GossipHops \in Nat /\ Sides \subseteq SUBSET Node
    /\ CutCost \in Nat /\ MaxFaults \in Nat

VARIABLES
    job,     \* the shard of the job
    up,      \* the providers that run
    cut,     \* one side of the cut network, or {}
    view,    \* view[n][p]: what n's `_peers' says of p
    claims,  \* the providers whose own ledger gives them the job's lease
    idle,    \* the ones that recovered it at a start: no thread works on it
    done,    \* the providers whose ledger has it completed
    faults

vars == <<job, up, cut, view, claims, idle, done, faults>>

\* A "found" peer is one in status ALIVE that has not sent a heartbeat: its
\* shard and capabilities are not known.
PeerView == {"unknown", "found", "alive", "suspected", "dead"}

TypeOK ==
    /\ job    \in Shard
    /\ up     \subseteq Node
    /\ cut    \subseteq Node
    /\ view   \in [Node -> [Node -> PeerView]]
    /\ \A n \in Node : view[n][n] = "alive"    \* nobody is its own peer
    /\ claims \subseteq Node
    /\ idle   \subseteq claims
    /\ done   \subseteq Node
    /\ faults \in 0..MaxFaults

\* A cluster that has formed, and a job everybody knows.
Init ==
    /\ job    \in JobShards
    /\ up     = Node
    /\ cut    = {}
    /\ view   = [n \in Node |-> [p \in Node |-> "alive"]]
    /\ claims = {}
    /\ idle   = {}
    /\ done   = {}
    /\ faults = 0

-----------------------------------------------------------------------------
(* Who hears whom.                                                         *)

Linked(n, p) == n \in cut <=> p \in cut

\* p sends its messages to n, and they arrive.
Talks(p, n) ==
    {p, n} \subseteq up /\ Linked(p, n) /\ view[p][n] \notin {"unknown", "dead"}

\* The providers a message of p reaches: it is forwarded with hops - 1.
Reach(p) ==
    LET within[h \in 0..GossipHops] ==
            IF h = 0 THEN {p}
            ELSE LET near == within[h - 1]
                 IN  near \cup {n \in up : \E q \in near : Talks(q, n)}
    IN  within[GossipHops]

\* n hears of p, directly or through others.
Hears(n, p) == {n, p} \subseteq up /\ (Talks(p, n) \/ n \in Reach(p))

-----------------------------------------------------------------------------
(* The view a provider has of its peers.                                   *)

Known(n)    == {p \in Node \ {n} : view[n][p] # "unknown"}
AlivePeers(n) == {p \in Node \ {n} : view[n][p] \in {"found", "alive"}}
DeadPeers(n)  == {p \in Node \ {n} : view[n][p] = "dead"}

\* Mutant: half of the cluster is enough.
HasQuorumHalf(n) ==
    LET cluster == IF ClusterSize > 0 THEN ClusterSize
                   ELSE Cardinality(Known(n)) + 1
    IN  \/ cluster <= 1
        \/ 2 * (Cardinality(AlivePeers(n)) + 1) >=
               cluster - Cardinality(DeadPeers(n))

\* has_quorum and get_effective_cluster_size.
HasQuorum(n) ==
    LET cluster == IF ClusterSize > 0 THEN ClusterSize
                   ELSE Cardinality(Known(n)) + 1
    IN  \/ cluster <= 1
        \/ 2 * (Cardinality(AlivePeers(n)) + 1) >
               cluster - Cardinality(DeadPeers(n))

\* get_peer_for_shard finds a peer that is alive.
HomeSeen(n) ==
    \E p \in Node \ {n} : view[n][p] = "alive" /\ ShardOf[p] = job

\* Mutant: only a peer that is suspected or dead is updated, and one found
\* through others never gets its shard and capabilities.
HeartbeatRevivesOnly(p) ==
    LET heard == {n \in Node \ {p} : /\ view[n][p] \in {"suspected", "dead"}
                                     /\ Hears(n, p)}
    IN  /\ p \in up /\ heard # {}
        /\ view' = [n \in Node |->
                       IF n \in heard THEN [view[n] EXCEPT ![p] = "alive"]
                                      ELSE view[n]]
        /\ UNCHANGED <<job, up, cut, claims, idle, done, faults>>

\* _broadcast_heartbeat, and _on_heartbeat wherever it arrives: whatever a
\* peer thought of p, p is alive.
Heartbeat(p) ==
    LET heard == {n \in Node \ {p} : view[n][p] # "alive" /\ Hears(n, p)}
    IN  /\ p \in up /\ heard # {}
        /\ view' = [n \in Node |->
                       IF n \in heard THEN [view[n] EXCEPT ![p] = "alive"]
                                      ELSE view[n]]
        /\ UNCHANGED <<job, up, cut, claims, idle, done, faults>>

\* add_peer, axl_sync, and the known_peers of a heartbeat: p is new to n.
Discover(n, p) ==
    /\ {n, p} \subseteq up /\ n # p /\ Linked(n, p)
    /\ view[n][p] = "unknown"
    /\ view' = [view EXCEPT ![n][p] = "found"]
    /\ UNCHANGED <<job, up, cut, claims, idle, done, faults>>

\* The peers whose suspicions of p have got to m, n's latest among them.
\* One that has been killed since has reported before.
Reporters(m, p, n) ==
    {q \in Node \ {p} : /\ Linked(q, m)
                        /\ q = n \/ view[q][p] \in {"suspected", "dead"}}

\* One pass of _detect_failures (or of axl_sync): n suspects the peers of
\* which nothing has arrived for too long and gossips it.  Everyone the
\* suspicions reach counts them (_on_suspicion): n itself too, when they come
\* back to it, but nobody who still hears of the suspect.
DetectFailures(n) ==
    LET silent == {p \in Node \ {n} : /\ view[n][p] \in {"found", "alive"}
                                      /\ ~Hears(n, p)}
        told   == IF Reach(n) = {n} THEN {} ELSE Reach(n)
        Confirmed(m) ==
            {p \in silent :
                /\ m \in told \ {p}
                /\ view[m][p] \notin {"unknown", "dead"}
                /\ Cardinality(Reporters(m, p, n)) >= DeadReportsNeeded
                /\ ~Hears(m, p)}
    IN  /\ n \in up /\ silent # {}
        /\ view' = [m \in Node |-> [p \in Node |->
                       IF p \in Confirmed(m) THEN "dead"
                       ELSE IF m = n /\ p \in silent THEN "suspected"
                       ELSE view[m][p]]]
        /\ UNCHANGED <<job, up, cut, claims, idle, done, faults>>

-----------------------------------------------------------------------------
(* Routing.                                                                *)

\* _replica_shard_for: the shard n is the designated backup of.
ReplicaShard(s) == ((s - 2) % NumShards) + 1

\* _capable_peer_alive, for the capabilities of n itself.
CapablePeerAlive(n) ==
    \E p \in Node \ {n} : view[n][p] = "alive" /\ Caps[n] \subseteq Caps[p]

NoCapablePeer(n) == Caps[n] = {} \/ ~CapablePeerAlive(n)

\* Mutant: only the designated backup takes over.
MayClaimNoGeneral(n) ==
    \/ ShardOf[n] = job
    \/ /\ ShardOf[n] # job
       /\ HasQuorum(n)
       /\ ~HomeSeen(n)
       /\ ReplicaShard(ShardOf[n]) = job

\* mine, replica_orphaned and general_orphaned of _scan.
MayClaim(n) ==
    \/ ShardOf[n] = job
    \/ /\ ShardOf[n] # job
       /\ HasQuorum(n)
       /\ ~HomeSeen(n)
       /\ ReplicaShard(ShardOf[n]) = job \/ NoCapablePeer(n)

\* The job is claimable in n's ledger: not completed, and no lease on it is
\* renewed by somebody n gets messages from.  A holder renews its lease until
\* it has completed the job, whether it works on it or not.
Open(n) == n \notin done /\ \A c \in (claims \cap up) \ done : ~Hears(n, c)

\* _scan claims the job.
Claim(n) ==
    /\ n \in up \ claims
    /\ Open(n)
    /\ MayClaim(n)
    /\ claims' = claims \cup {n}
    /\ UNCHANGED <<job, up, cut, view, idle, done, faults>>

\* The job is executed and completed, and everyone in reach is told.
Complete(n) ==
    /\ n \in (up \cap claims) \ (done \cup idle)
    /\ done' = done \cup {n} \cup {p \in Node : Hears(p, n)}
    /\ UNCHANGED <<job, up, cut, view, claims, idle, faults>>

\* Two holders hear of each other, and n's record is the older one:
\* handle_ledger_update puts the other lease in its place.  With equal
\* versions neither gives way.
Yield(n) ==
    /\ n \in claims \ done
    /\ \E c \in claims \ (done \cup {n}) : Hears(n, c)
    /\ claims' = claims \ {n}
    /\ idle' = idle \ {n}
    /\ UNCHANGED <<job, up, cut, view, done, faults>>

-----------------------------------------------------------------------------
(* Faults.                                                                 *)

Fault(cost) == faults + cost <= MaxFaults /\ faults' = faults + cost

\* SIGKILL of a provider.
Kill(n) ==
    /\ n \in up
    /\ Fault(1)
    /\ up' = up \ {n}
    /\ UNCHANGED <<job, cut, view, claims, idle, done>>

\* Mutant: /topology lists the provider itself, which becomes its own peer.
StartAddsSelf(n) ==
    /\ n \notin up
    /\ Fault(1)
    /\ up' = up \cup {n}
    /\ idle' = idle \cup (claims \cap {n})
    /\ \E seeds \in SUBSET (up \cup {n}) :
          view' = [view EXCEPT ![n] = [p \in Node |->
                      IF p \in seeds THEN "found" ELSE "unknown"]]
    /\ UNCHANGED <<job, cut, claims, done>>

\* A provider starts, with the peers /topology lists; of its ledger file it
\* has the job.  A lease of its own recover_identity takes up again, and
\* _scan renews it; no thread is started for it.
Start(n) ==
    /\ n \notin up
    /\ Fault(1)
    /\ up' = up \cup {n}
    /\ idle' = idle \cup (claims \cap {n})
    /\ \E seeds \in SUBSET (up \ {n}) :
          view' = [view EXCEPT ![n] = [p \in Node |->
                      IF p = n THEN "alive"
                      ELSE IF p \in seeds THEN "found" ELSE "unknown"]]
    /\ UNCHANGED <<job, cut, claims, done>>

\* The network falls apart: the providers of one side no longer hear those
\* of the other.
Cut ==
    /\ cut = {}
    /\ Fault(CutCost)
    /\ cut' \in Sides \ {{}}
    /\ UNCHANGED <<job, up, view, claims, idle, done>>

Heal ==
    /\ cut # {}
    /\ cut' = {}
    /\ UNCHANGED <<job, up, view, claims, idle, done, faults>>

-----------------------------------------------------------------------------
\* Every change of a view; it comes to an end when the faults do.
Watch == \E n \in Node : \/ Heartbeat(n) \/ DetectFailures(n)
                         \/ \E p \in Node : Discover(n, p)

Work == \E n \in Node : Claim(n) \/ Complete(n)

Next ==
    \/ Watch
    \/ Work
    \/ \E n \in Node : Yield(n) \/ Kill(n) \/ Start(n)
    \/ Cut
    \/ Heal

Spec == Init /\ [][Next]_vars

(***************************************************************************)
(* Running providers send heartbeats, look for silent peers, gossip what   *)
(* they suspect, scan for jobs every few seconds and execute what they     *)
(* have claimed.  Nothing is assumed of faults, of healing and of which of *)
(* two holders gives way.                                                  *)
(***************************************************************************)
Fairness == WF_vars(Watch) /\ WF_vars(Work)

LiveSpec == Spec /\ Fairness

-----------------------------------------------------------------------------
(* Properties.                                                             *)

\* The peers n counts on, itself included.
Group(n) == AlivePeers(n) \cup {n}

\* Two providers with a quorum count on a common provider, or one of them
\* has taken a provider for dead that the other counts on: subtracting the
\* confirmed dead from the cluster lets two sides act at once only when a
\* side has confirmed deaths on the other.
QuorumOverlap ==
    \A m, n \in Node :
        /\ Known(m) = Node \ {m} /\ Known(n) = Node \ {n}
        /\ HasQuorum(m) /\ HasQuorum(n)
        => \/ Group(m) \cap Group(n) # {}
           \/ (DeadPeers(m) \cup DeadPeers(n)) \cap (Group(m) \cup Group(n)) # {}

\* n takes the job if all goes by the rules and its view is right: it is the
\* home or the backup, or no other running provider can do all it can do.
Willing(n) ==
    \/ ShardOf[n] = job
    \/ ReplicaShard(ShardOf[n]) = job
    \/ Caps[n] = {}
    \/ \A p \in up \ {n} : ~(Caps[n] \subseteq Caps[p])

\* Some running provider's messages reach every other.
HasHub == \E p \in up : \A n \in up \ {p} : Hears(n, p)

\* Once no more cuts and faults happen, the views mend, also of peers taken
\* for dead, if one provider still reaches the others in one direction.
ViewsMend ==
    <>[](cut = {} /\ HasHub) =>
    <>[](\A n, p \in up : view[n][p] = "alive")

\* A job is completed although its home is gone, if in the end at least two
\* providers run and one that is willing takes part.  The exception is a
\* provider that held the lease, came back and keeps it: it renews what it
\* recovered and works on nothing, and nobody else gets the job.
JobRescued ==
    <>[](/\ cut = {} /\ HasHub
         /\ Cardinality(up) >= 2
         /\ \E n \in up : Willing(n)
         /\ idle \cap up = {}) => <>(done # {})

-----------------------------------------------------------------------------
(* Statements of the documentation, made precise.                          *)

\* "where both sides confirm the other dead [...] gossip version
\* reconciliation makes that safe in practice": for that they must hear of
\* each other again once the cut has healed for good.
MeshHeals ==
    <>[](cut = {}) => <>[](\A n, p \in up : view[n][p] = "alive")

\* "Kill half the providers mid-inference. The jobs complete anyway.", also
\* where none of the killed comes back and takes its lease up again.
HalfUp == cut = {} /\ idle = {} /\ 2 * Cardinality(up) >= Cardinality(Node)

HalfSurvives == []HalfUp => <>(done # {})
=============================================================================
