------------------------------ MODULE LeaseLoop ------------------------------
(***************************************************************************)
(* The timing of one lease: the scan loop of whisper/runtime.py that       *)
(* renews it, the worker thread that runs the job, the gossip that carries *)
(* a renewal to the peers, and the peers that take the job over when their *)
(* copy of the lease has run out.  The node adopts the shortest lease      *)
(* duration its peers report while all that is going on.                   *)
(*                                                                         *)
(* Times are relative, so behaviours are unbounded while the states are    *)
(* finite: `left' is lease_expires - now in our ledger, `peerLeft' the     *)
(* same in the peers' copies.  Versions are LedgerGossip's subject; here   *)
(* the newest lease is the one with the most time left, and peers learn of *)
(* a claim at once.                                                        *)
(***************************************************************************)
EXTENDS Integers

CONSTANTS LeaseDuration,   \* ledger.lease_duration at the start
          RenewThreshold,  \* ledger.renew_threshold at the start
          Reported,        \* lease durations that peers may report
          ScanInterval,    \* SCAN_INTERVAL, the longest wait between passes
          MaxScan,         \* bound: how long one pass of _scan may take
          MaxDelay,        \* bound: how long a renewal may be on its way
          MaxCrash         \* bound: crashes of the node

ASSUME TimingAssumption ==
    /\ LeaseDuration \in Nat /\ RenewThreshold \in Nat /\ ScanInterval \in Nat
    /\ Reported \subseteq Nat /\ MaxScan \in Nat /\ MaxDelay \in Nat /\ MaxCrash \in Nat

VARIABLES
    duration,   \* ledger.lease_duration
    threshold,  \* ledger.renew_threshold
    job,        \* our ledger's view of the job
    left,       \* seconds our record gives the lease, while the job is ours
    peerLeft,   \* seconds the peers' records give it
    flight,     \* renewals gossiped and not yet received
    sinceScan,  \* seconds since the renewal part of the last pass
    worker,     \* the thread that executes the job
    up,         \* the process runs
    crashes

timing == <<duration, threshold>>
vars   == <<timing, job, left, peerLeft, flight, sinceScan, worker, up, crashes>>

Job    == {"pending", "ours", "theirs", "done"}
Worker == {"idle", "settling", "running"}

\* The longest time between two renewal checks.
Period == ScanInterval + MaxScan

Lease   == -1..LeaseDuration    \* -1: lease_expires < now
Renewal == [left : Lease, age : 0..MaxDelay]

TypeOK ==
    /\ duration  \in 0..LeaseDuration
    /\ threshold \in Nat
    /\ job       \in Job
    /\ left      \in Lease
    /\ peerLeft  \in Lease
    /\ flight    \subseteq Renewal
    /\ sinceScan \in 0..Period
    /\ worker    \in Worker
    /\ up        \in BOOLEAN
    /\ crashes   \in 0..MaxCrash

Init ==
    /\ duration  = LeaseDuration
    /\ threshold = RenewThreshold
    /\ job       = "pending"
    /\ left      = 0
    /\ peerLeft  = 0
    /\ flight    = {}
    /\ sinceScan = 0
    /\ worker    = "idle"
    /\ up        = TRUE
    /\ crashes   = 0

-----------------------------------------------------------------------------
(* The scan loop.                                                          *)

\* Mutant: the lease is prolonged by, and not set to, its full duration.
RenewAddsUp ==
    /\ left'   = left + duration
    /\ flight' = flight \cup {[left |-> left + duration, age |-> 0]}

\* recover_identity, and renew_lease with the duration in force.
RenewFor(d) ==
    /\ left'   = d
    /\ flight' = flight \cup {[left |-> d, age |-> 0]}

Renew == RenewFor(duration)

\* claim_task.
Claim ==
    /\ job'      = "ours"
    /\ left'     = duration
    /\ peerLeft' = duration
    /\ flight'   = {}

\* Mutant: only leases that have already expired are renewed.
DueLate == job = "ours" /\ left < 0

\* get_tasks_needing_renewal.
Due == job = "ours" /\ left < threshold

\* A pass of _scan that renews the lease.
ScanRenew ==
    /\ up
    /\ Due
    /\ Renew
    /\ sinceScan' = 0
    /\ UNCHANGED <<timing, job, peerLeft, worker, up, crashes>>

\* A pass that claims the job and starts its thread.
ScanClaim ==
    /\ up
    /\ job = "pending"
    /\ worker = "idle"
    /\ Claim
    /\ worker' = "settling"
    /\ sinceScan' = 0
    /\ UNCHANGED <<timing, up, crashes>>

\* A pass that finds nothing to do; the job is skipped while a thread of
\* ours is still at it.
ScanNothing ==
    /\ up
    /\ ~Due
    /\ ~(job = "pending" /\ worker = "idle")
    /\ sinceScan' = 0
    /\ UNCHANGED <<timing, job, left, peerLeft, flight, worker, up, crashes>>

\* _loop: after SCAN_INTERVAL, or at once when it is woken.
Scan == ScanRenew \/ ScanClaim \/ ScanNothing

-----------------------------------------------------------------------------
(* The job.                                                                *)

\* _handle_task_award, at any time between two passes.
AwardClaim ==
    /\ up
    /\ job = "pending"
    /\ Claim
    /\ worker' = IF worker = "idle" THEN "settling" ELSE worker
    /\ UNCHANGED <<timing, sinceScan, up, crashes>>

\* The check after the settling pause.
VerifyLease ==
    /\ worker = "settling"
    /\ worker' = IF job = "ours" THEN "running" ELSE "idle"
    /\ UNCHANGED <<timing, job, left, peerLeft, flight, sinceScan, up, crashes>>

\* Mutant: the result is dropped and the lease kept.
FinishForgets ==
    /\ worker = "running"
    /\ worker' = "idle"
    /\ UNCHANGED <<timing, job, left, peerLeft, flight, sinceScan, up, crashes>>

\* The end of _execute_one: complete_task, or release_lease when shares are
\* missing; both do nothing if the lease is no longer ours.
Finish ==
    /\ worker = "running"
    /\ worker' = "idle"
    /\ IF job = "ours" THEN job' \in {"done", "pending"} ELSE job' = job
    /\ UNCHANGED <<timing, left, peerLeft, flight, sinceScan, up, crashes>>

-----------------------------------------------------------------------------
(* The peers.                                                              *)

\* get_consensus_lease_duration, if a peer reports less than we have.
Consensus == {d \in Reported : d < duration}

\* _lease_convergence_loop, for a change of more than a tenth.
Converge(d) ==
    /\ up
    /\ d \in Consensus
    /\ 10 * (duration - d) > duration
    /\ duration'  = d
    /\ threshold' = (2 * d) \div 5
    /\ UNCHANGED <<job, left, peerLeft, flight, sinceScan, worker, up, crashes>>

\* handle_ledger_update for a renewal: the newer lease wins.
Deliver(m) ==
    /\ flight' = flight \ {m}
    /\ peerLeft' = IF m.left > peerLeft THEN m.left ELSE peerLeft
    /\ UNCHANGED <<timing, job, left, sinceScan, worker, up, crashes>>

\* A peer finds the lease expired, claims the job, and we learn of it.
Rescue ==
    /\ up
    /\ job = "ours"
    /\ peerLeft < 0
    /\ job' = "theirs"
    /\ UNCHANGED <<timing, left, peerLeft, flight, sinceScan, worker, up, crashes>>

\* A peer releases the job, or its lease lapses.
PeerGivesUp ==
    /\ job = "theirs"
    /\ job' = "pending"
    /\ UNCHANGED <<timing, left, peerLeft, flight, sinceScan, worker, up, crashes>>

\* A peer completes the job.
PeerCompletes ==
    /\ job = "theirs"
    /\ job' = "done"
    /\ UNCHANGED <<timing, left, peerLeft, flight, sinceScan, worker, up, crashes>>

-----------------------------------------------------------------------------
(* Crash, restart and time.                                                *)

Crash ==
    /\ up
    /\ crashes < MaxCrash
    /\ crashes' = crashes + 1
    /\ up' = FALSE
    /\ worker' = "idle"
    /\ UNCHANGED <<timing, job, left, peerLeft, flight, sinceScan>>

\* start, with the durations of the command line: recover_identity refreshes
\* the lease; the scan loop starts; no thread is started for the job.
Restart ==
    /\ ~up
    /\ up' = TRUE
    /\ sinceScan' = 0
    /\ IF job = "ours" THEN RenewFor(LeaseDuration) ELSE UNCHANGED <<left, flight>>
    /\ duration' = LeaseDuration /\ threshold' = RenewThreshold
    /\ UNCHANGED <<job, peerLeft, worker, crashes>>

Elapse(x) == IF x < 0 THEN x ELSE x - 1

\* Time does not pass a deadline: the next pass of a live node, and the
\* arrival of a renewal.  A node that is down comes back while its lease is
\* still good (LedgerGossip has the other case).
Tick ==
    /\ up => sinceScan < Period
    /\ ~up /\ job = "ours" => peerLeft > 0
    /\ \A m \in flight : m.age < MaxDelay
    /\ left'      = Elapse(left)
    /\ peerLeft'  = Elapse(peerLeft)
    /\ flight'    = {[left |-> Elapse(m.left), age |-> m.age + 1] : m \in flight}
    /\ sinceScan' = IF up THEN sinceScan + 1 ELSE sinceScan
    /\ UNCHANGED <<timing, job, worker, up, crashes>>

Next ==
    \/ Scan
    \/ AwardClaim
    \/ VerifyLease
    \/ Finish
    \/ \E m \in flight : Deliver(m)
    \/ Rescue
    \/ PeerGivesUp
    \/ PeerCompletes
    \/ \E d \in Reported : Converge(d)
    \/ Crash
    \/ Restart
    \/ Tick

Spec == Init /\ [][Next]_vars

\* The threads of a live node run, a job comes to an end, a node that went
\* down is started again, and time passes.
Fairness ==
    /\ WF_vars(Scan) /\ WF_vars(VerifyLease) /\ WF_vars(Finish)
    /\ WF_vars(\E m \in flight : Deliver(m))
    /\ WF_vars(Restart) /\ WF_vars(Tick)

LiveSpec == Spec /\ Fairness

-----------------------------------------------------------------------------
\* "Renews leases we hold before they expire": while our thread is at work
\* on a job we hold, the lease runs out neither in our ledger nor in any
\* copy a peer acts on, so the job is not executed twice.
LeaseOutlivesWork ==
    job = "ours" /\ worker # "idle" => left >= 0 /\ peerLeft >= 0

\* A job a thread of ours has taken up does not stay with us for ever: it is
\* completed, given back or taken over, unless the process is killed, and
\* slow scans, delayed renewals and awards do not change that.
WorkedJobMovesOn ==
    job = "ours" /\ worker # "idle" ~> job # "ours" \/ ~up

\* "no job loss on restart": a job whose lease we hold does not stay with us
\* for ever, whether or not the process was killed and restarted.
HeldJobMovesOn == (job = "ours") ~> (job # "ours")
=============================================================================
