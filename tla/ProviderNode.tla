---------------------------- MODULE ProviderNode ----------------------------
(***************************************************************************)
(* One provider at the grain of its locks, working on one job of its own   *)
(* shard that was submitted to it: the scan loop, the auction thread and   *)
(* the exec threads of whisper/runtime.py and whisper/node.py, the         *)
(* collection of key shares, and the receive loop that feeds all of them.  *)
(*                                                                         *)
(* The three parts of a dispatch (look into `_executing', claim, register) *)
(* are separate steps, as they hold a lock each.  Peers are the            *)
(* environment: their claims, releases and results replace our record      *)
(* whenever a newer copy arrives, their bids and shares arrive in any      *)
(* order, late, or not at all, and a lease of theirs may be renewed for    *)
(* ever.  We are number 0, peers are 1..NumPeers.  Our own lease is        *)
(* renewed in time (LeaseLoop), so it does not expire.                     *)
(***************************************************************************)
EXTENDS Integers, Sequences, FiniteSets

CONSTANTS NumPeers,
          KeysKnown,  \* peers whose keys may be known at submission
          Bidder,     \* peers that take part in the auction
          Thread,     \* exec threads
          Price,      \* price_axl of everybody, in thousandths
          HomeBonus,  \* what a bid from another shard is charged extra
          MaxAdopt    \* bound: copies of the job adopted from gossip

Peer == 1..NumPeers

ASSUME PeerAssumption   == KeysKnown \subseteq SUBSET Peer /\ Bidder \subseteq Peer
ASSUME PriceAssumption  == NumPeers \in Nat /\ Price \in [0..NumPeers -> Nat]
ASSUME BoundsAssumption == HomeBonus \in Nat /\ MaxAdopt \in Nat

VARIABLES
    job,        \* our ledger's record of the job
    keys,       \* peers whose encryption keys were known at submission
    executing,  \* the job is in `_executing'
    scan,       \* where the scan loop is with this job
    auction,    \* our auction of the job
    bids,       \* its entry in `_bid_collections'
    at,         \* where each exec thread is
    collector,  \* the thread that opened the entry in `_share_collections'
    shares,     \* the numbers of the shares in it
    signalled,  \* threads whose collection event is set
    replies,    \* share_responses on their way
    got,        \* the shares a thread decrypts with
    pushed,     \* results handed to the submitter, up to 2
    contested,  \* a peer's copy has taken the lease from us
    stranded,   \* an award met a thread that was still registered
    adopted

threads == <<at, collector, shares, signalled, replies, got>>
env     == <<contested, adopted>>
vars    == <<job, keys, executing, scan, auction, bids, threads, pushed,
             stranded, env>>

Job    == {"absent", "pending", "ours", "theirs", "lapsed", "ourResult", "theirResult"}
Phase  == {"idle", "awarded", "settling", "collecting", "waiting", "short",
           "working", "leaving"}
Result == {"ourResult", "theirResult"}

TypeOK ==
    /\ job       \in Job
    /\ keys      \subseteq Peer
    /\ executing \in BOOLEAN
    /\ scan      \in {"rest", "listed", "checked", "claimed"}
    /\ auction   \in {"none", "open", "won", "over"}
    /\ bids      \subseteq Peer /\ (auction # "open" => bids = {})
    /\ at        \in [Thread -> Phase]
    /\ collector \subseteq Thread /\ Cardinality(collector) <= 1
    /\ shares    \in Seq(1..NumPeers + 1) /\ (collector = {} <=> shares = <<>>)
    /\ signalled \subseteq Thread
    /\ replies   \in [Peer -> 0..2]
    /\ got       \in [Thread -> Seq(1..NumPeers + 1)]
    /\ pushed    \in 0..2
    /\ contested \in BOOLEAN /\ stranded \in BOOLEAN
    /\ adopted   \in 0..MaxAdopt

Init ==
    /\ job       = "absent"
    /\ keys      = {}
    /\ executing = FALSE
    /\ scan      = "rest"
    /\ auction   = "none"
    /\ bids      = {}
    /\ at        = [th \in Thread |-> "idle"]
    /\ collector = {}
    /\ shares    = <<>>
    /\ signalled = {}
    /\ replies   = [p \in Peer |-> 0]
    /\ got       = [th \in Thread |-> <<>>]
    /\ pushed    = 0
    /\ contested = FALSE
    /\ stranded  = FALSE
    /\ adopted   = 0

-----------------------------------------------------------------------------
(* Sealing the payload.                                                    *)

\* _get_threshold_params: our own key comes first; with fewer than three
\* keys the payload is sealed to the home node alone, which we are.
Holders   == Cardinality(keys) + 1
Threshold == Holders >= 3
Needed    == (Holders + 1) \div 2

\* The number of p's share; ours is 1.
ShareNo(p) == 1 + Cardinality({q \in keys : q <= p})

\* _handle_p2p_task_submit: the job enters the ledger, its auction starts.
Submit(known) ==
    /\ job = "absent"
    /\ job'     = "pending"
    /\ keys'    = known
    /\ auction' = "open"
    /\ UNCHANGED <<executing, scan, bids, threads, pushed, stranded, env>>

-----------------------------------------------------------------------------
(* The ledger calls the threads make.                                      *)

\* leased_by = our_key, which a completed record keeps.
LeasedByUs == job \in {"ours", "ourResult"}

\* Mutant: a valid lease does not stop a claim.
CanClaimAlways == job \notin Result

\* Mutant: a completed job may be claimed.
CanClaimResult == job \in {"pending", "lapsed", "ourResult", "theirResult"}

\* Mutant: a lease that has lapsed is not taken over.
CanClaimPending == job = "pending"

\* claim_task: not completed, and no valid lease.
CanClaim == job \in {"pending", "lapsed"}

\* Mutant: the lease is kept, to be renewed.
ReleasedNever == job' = job

\* release_lease.
Released == job' = IF LeasedByUs THEN "pending" ELSE job

\* complete_task and _notify_submitter.
Completed ==
    IF LeasedByUs
    THEN job' = "ourResult" /\ pushed' = IF pushed < 2 THEN pushed + 1 ELSE 2
    ELSE UNCHANGED <<job, pushed>>

-----------------------------------------------------------------------------
(* The scan loop.                                                          *)

ScanList ==
    /\ scan = "rest"
    /\ CanClaim
    /\ scan' = "listed"
    /\ UNCHANGED <<job, keys, executing, auction, bids, threads, pushed, stranded, env>>

ScanCheck ==
    /\ scan = "listed"
    /\ scan' = IF executing THEN "rest" ELSE "checked"
    /\ UNCHANGED <<job, keys, executing, auction, bids, threads, pushed, stranded, env>>

ScanClaim ==
    /\ scan = "checked"
    /\ IF CanClaim THEN job' = "ours" /\ scan' = "claimed"
                   ELSE UNCHANGED job /\ scan' = "rest"
    /\ UNCHANGED <<keys, executing, auction, bids, threads, pushed, stranded, env>>

ScanSpawn(th) ==
    /\ scan = "claimed"
    /\ at[th] = "idle"
    /\ scan'      = "rest"
    /\ executing' = TRUE
    /\ at'        = [at EXCEPT ![th] = "settling"]
    /\ UNCHANGED <<job, keys, auction, bids, collector, shares, signalled, replies,
                   got, pushed, stranded, env>>

-----------------------------------------------------------------------------
(* The auction.                                                            *)

\* _handle_task_bid while the window is open; later bids find no entry.
Bid(p) ==
    /\ auction = "open"
    /\ p \in Bidder \ bids
    /\ bids' = bids \cup {p}
    /\ UNCHANGED <<job, keys, executing, scan, auction, threads, pushed, stranded, env>>

\* We are the last candidate of a stable sort, so a tie goes to the bidder.
WeAreCheapest == \A p \in bids : Price[0] < Price[p] + HomeBonus

\* Mutant: the entry stays in `_bid_collections'.
CloseKeepsBids ==
    /\ auction = "open"
    /\ auction' = IF WeAreCheapest THEN "won" ELSE "over"
    /\ UNCHANGED <<job, keys, executing, scan, bids, threads, pushed, stranded, env>>

\* _run_auction after the window or an early close: the award is ours, or
\* goes to a peer, who may claim the job or never hear of it.
CloseAuction ==
    /\ auction = "open"
    /\ auction' = IF WeAreCheapest THEN "won" ELSE "over"
    /\ bids' = {}
    /\ UNCHANGED <<job, keys, executing, scan, threads, pushed, stranded, env>>

\* _handle_task_award.
Award(th) ==
    /\ auction = "won"
    /\ at[th] = "idle"
    /\ auction' = "over"
    /\ IF CanClaim THEN job' = "ours" /\ at' = [at EXCEPT ![th] = "awarded"]
                   ELSE UNCHANGED <<job, at>>
    /\ UNCHANGED <<keys, executing, scan, bids, collector, shares, signalled, replies,
                   got, pushed, stranded, env>>

-----------------------------------------------------------------------------
(* An exec thread.                                                         *)

\* execute_awarded_task: not if the job is registered already.
Register(th) ==
    /\ at[th] = "awarded"
    /\ executing' = TRUE
    /\ stranded'  = (stranded \/ executing)
    /\ at' = [at EXCEPT ![th] = IF executing THEN "idle" ELSE "settling"]
    /\ UNCHANGED <<job, keys, scan, auction, bids, collector, shares, signalled,
                   replies, got, pushed, env>>

\* The look at the lease after the settling pause.
Verify(th) ==
    /\ at[th] = "settling"
    /\ at' = [at EXCEPT ![th] = IF job # "ours" THEN "leaving"
                                ELSE IF Threshold THEN "collecting" ELSE "working"]
    /\ UNCHANGED <<job, keys, executing, scan, auction, bids, collector, shares,
                   signalled, replies, got, pushed, stranded, env>>

\* _collect_threshold_shares up to the wait: the entry, with our own share,
\* replaces the one of another collection; every share holder is asked.
OpenCollection(th) ==
    /\ at[th] = "collecting"
    /\ at'        = [at EXCEPT ![th] = "waiting"]
    /\ collector' = {th}
    /\ shares'    = <<1>>
    /\ replies'   = [p \in Peer |-> IF p \in keys /\ replies[p] < 2
                                    THEN replies[p] + 1 ELSE replies[p]]
    /\ UNCHANGED <<job, keys, executing, scan, auction, bids, signalled, got, pushed,
                   stranded, env>>

\* Mutant: every response is stored.
WelcomeAny(x) == collector # {}

\* A share is stored if a collection is open and does not have it yet.
Welcome(x) == collector # {} /\ \A i \in DOMAIN shares : shares[i] # x

\* _handle_share_response.
Reply(p) ==
    /\ replies[p] > 0
    /\ replies' = [replies EXCEPT ![p] = @ - 1]
    /\ IF Welcome(ShareNo(p))
       THEN /\ shares'    = Append(shares, ShareNo(p))
            /\ signalled' = IF Len(shares) + 1 >= Needed
                            THEN signalled \cup collector ELSE signalled
       ELSE UNCHANGED <<shares, signalled>>
    /\ UNCHANGED <<job, keys, executing, scan, auction, bids, at, collector, got, pushed,
                   stranded, env>>

\* The wait ends with the event or after 4 s, with however few shares have
\* come; whatever entry there is for the job is taken, and without one there
\* is only our own share.
EndCollection(th) ==
    LET have == IF collector = {} THEN <<1>> ELSE shares
    IN  /\ at[th] = "waiting"
        /\ got'       = [got EXCEPT ![th] = have]
        /\ at'        = [at EXCEPT ![th] = IF Len(have) < Needed THEN "short"
                                           ELSE "working"]
        /\ collector' = {}
        /\ shares'    = <<>>
        /\ signalled' = signalled \ {th}
        /\ UNCHANGED <<job, keys, executing, scan, auction, bids, replies, pushed,
                       stranded, env>>

\* The end of _execute_one.
Finish(th) ==
    /\ \/ at[th] = "short"   /\ Released /\ UNCHANGED pushed
       \/ at[th] = "working" /\ Completed
    /\ at'  = [at  EXCEPT ![th] = "leaving"]
    /\ got' = [got EXCEPT ![th] = <<>>]
    /\ UNCHANGED <<keys, executing, scan, auction, bids, collector, shares, signalled,
                   replies, stranded, env>>

\* The finally clause.
Leave(th) ==
    /\ at[th] = "leaving"
    /\ at'        = [at EXCEPT ![th] = "idle"]
    /\ executing' = FALSE
    /\ UNCHANGED <<job, keys, scan, auction, bids, collector, shares, signalled, replies,
                   got, pushed, stranded, env>>

ThreadStep(th) ==
    \/ Register(th)
    \/ Verify(th)
    \/ OpenCollection(th)
    \/ EndCollection(th)
    \/ Finish(th)
    \/ Leave(th)

-----------------------------------------------------------------------------
(* The peers.                                                              *)

\* handle_ledger_update with a newer copy: released, claimed or completed.
Adopt(copy) ==
    /\ job \in {"pending", "ours", "theirs", "lapsed"}
    /\ adopted < MaxAdopt
    /\ adopted'   = adopted + 1
    /\ job'       = copy
    /\ contested' = (contested \/ job = "ours")
    /\ UNCHANGED <<keys, executing, scan, auction, bids, threads, pushed, stranded>>

\* A peer's lease runs out.
Lapse ==
    /\ job = "theirs"
    /\ job' = "lapsed"
    /\ UNCHANGED <<keys, executing, scan, auction, bids, threads, pushed, stranded, env>>

Scan == ScanList \/ ScanCheck \/ ScanClaim \/ \E th \in Thread : ScanSpawn(th)

Auction == CloseAuction \/ \E th \in Thread : Award(th)

Next ==
    \/ \E known \in KeysKnown : Submit(known)
    \/ Scan
    \/ Auction
    \/ \E p \in Peer : Bid(p) \/ Reply(p)
    \/ \E th \in Thread : ThreadStep(th)
    \/ \E copy \in {"pending", "theirs", "theirResult"} : Adopt(copy)
    \/ Lapse

Spec == Init /\ [][Next]_vars

\* Our own loops and threads run.  Nothing is asked of the peers: a share
\* may never come and a peer's lease may never lapse.
Fairness ==
    /\ WF_vars(Scan) /\ WF_vars(Auction)
    /\ \A th \in Thread : WF_vars(ThreadStep(th))

LiveSpec == Spec /\ Fairness

-----------------------------------------------------------------------------
(* Properties.                                                             *)

Working == {th \in Thread : at[th] \in {"collecting", "waiting", "short", "working"}}

\* Where a thread is between the claim of the lease and the end of the job.
Engaged == {"awarded", "settling", "collecting", "waiting", "short", "working"}

\* One thread of the node at most is executing the job, whether scan or
\* award started it, as long as no peer has taken the lease in between.
OneRunner == ~contested => Cardinality(Working) <= 1

\* And the submitter is then told one result.
PushedOnce == ~contested => pushed <= 1

\* A completed job is not reopened here, unless a second thread is at it,
\* which takes a contest.
ResultStands ==
    [][(job \in Result /\ ~contested) => (job' = job)]_vars

\* No lease and no entry of `_executing' is left without a user, contested or
\* not: one would be renewed for ever, the other keep the scan loop away from
\* the job.  The exception is the lease of an award that met the previous
\* thread before its finally clause.
NothingLeftBehind ==
    /\ job = "ours" => \/ stranded \/ scan = "claimed"
                       \/ \E th \in Thread : at[th] \in Engaged
    /\ executing => \E th \in Thread : at[th] \notin {"idle", "awarded"}

\* This node shelves no job, whatever shares, awards and copies are late or
\* lost: a job that is free to be claimed leaves that state, by our claim or
\* a peer's, and a lease of ours ends in a result, a release or a loss to a
\* peer.  It is not promised that the job is ever done, as every try may come
\* short of shares and a peer may hold its lease for ever.  The exception is
\* the lease NothingLeftBehind excepts, which is renewed for ever.
JobNotShelved ==
    /\ (job \in {"pending", "lapsed"}) ~> (job \notin {"pending", "lapsed"})
    /\ (job = "ours") ~> (job # "ours" \/ stranded)
=============================================================================
