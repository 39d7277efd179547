----------------------------- MODULE TaskLedger -----------------------------
(***************************************************************************)
(* The task record of whisper/ledger.py and the operations the ledger      *)
(* performs on one record: what each method writes, under which guard, and *)
(* how an incoming gossip copy is reconciled with the local one.           *)
(*                                                                         *)
(* Only the fields that decide a branch are kept.  `result' is abstracted  *)
(* to the node whose execution produced it (NoNode stands for None): two   *)
(* executions of one job give two results.  A node that has no entry for a *)
(* task holds the Absent record, so that a ledger is a total function.     *)
(***************************************************************************)
EXTENDS Integers

CONSTANTS Node,            \* AXL public keys of the providers
          NoNode,          \* Python's None in leased_by and result
          LeaseDuration,   \* ledger.lease_duration
          RenewThreshold   \* ledger.renew_threshold

ASSUME NodeAssumption  == NoNode \notin Node
ASSUME LeaseAssumption == LeaseDuration \in Nat /\ RenewThreshold \in Nat

Status == {"absent", "pending", "in_progress", "completed"}

TaskRecord == [status        : Status,
               leased_by     : Node \cup {NoNode},
               lease_expires : Nat,
               result        : Node \cup {NoNode},
               version       : Nat]

\* No entry in the `_tasks' dictionary.
Absent == [status |-> "absent", leased_by |-> NoNode, lease_expires |-> 0,
           result |-> NoNode, version |-> 0]

\* The record submit_task builds.
NewTask == [status |-> "pending", leased_by |-> NoNode, lease_expires |-> 0,
            result |-> NoNode, version |-> 1]

\* A lease counts as expired strictly after lease_expires.
Expired(rec, now) == rec.lease_expires < now

\* get_my_active_tasks: an unfinished record leased to n, expired or not.
HeldBy(rec, n) == rec.status = "in_progress" /\ rec.leased_by = n

-----------------------------------------------------------------------------
(* Claiming.                                                               *)

\* Mutant: a completed record can be claimed again.
CanClaimCompleted(rec, now) ==
    \/ rec.status \in {"pending", "completed"}
    \/ rec.status = "in_progress" /\ Expired(rec, now)

\* claim_task's early returns: unknown, completed, or a live lease, whoever
\* holds it.
CanClaim(rec, now) ==
    \/ rec.status = "pending"
    \/ rec.status = "in_progress" /\ Expired(rec, now)


\* get_claimable_tasks: an expired lease of one's own is left out.
Claimable(rec, n, now) ==
    \/ rec.status = "pending"
    \/ rec.status = "in_progress" /\ Expired(rec, now) /\ rec.leased_by # n

\* What claim_task writes.
Claimed(rec, n, now) ==
    [status |-> "in_progress", leased_by |-> n,
     lease_expires |-> now + LeaseDuration, result |-> rec.result, version |-> rec.version + 1]

-----------------------------------------------------------------------------
(* Holding and giving up a lease.                                          *)

\* get_tasks_needing_renewal; a lease of ours that has expired is included.
NeedsRenewal(rec, n, now) ==
    HeldBy(rec, n) /\ rec.lease_expires - now < RenewThreshold

\* Mutant: the version is not advanced by a renewal.
RenewedSameVersion(rec, now) ==
    [status |-> rec.status, leased_by |-> rec.leased_by,
     lease_expires |-> now + LeaseDuration, result |-> rec.result, version |-> rec.version]

\* What renew_lease and recover_identity write.
Renewed(rec, now) ==
    [status |-> rec.status, leased_by |-> rec.leased_by,
     lease_expires |-> now + LeaseDuration, result |-> rec.result, version |-> rec.version + 1]

\* Mutant: the version falls back to that of a new task.
ReleasedFresh(rec) ==
    [status |-> "pending", leased_by |-> NoNode,
     lease_expires |-> 0, result |-> rec.result, version |-> 1]

\* What release_lease and release_all_leases write.
Released(rec) ==
    [status |-> "pending", leased_by |-> NoNode,
     lease_expires |-> 0, result |-> rec.result, version |-> rec.version + 1]

\* Mutant: the version is not advanced by a completion.
CompletedSameVersion(rec, n) ==
    [status |-> "completed", leased_by |-> rec.leased_by,
     lease_expires |-> rec.lease_expires, result |-> n, version |-> rec.version]

\* What complete_task writes: leased_by and lease_expires stay.
Completed(rec, n) ==
    [status |-> "completed", leased_by |-> rec.leased_by,
     lease_expires |-> rec.lease_expires, result |-> n, version |-> rec.version + 1]

-----------------------------------------------------------------------------
(* Reconciliation.                                                         *)

\* Mutant: a completed record is replaced like any other.
SupersedesNotSticky(existing, incoming) ==
    \/ existing.status = "absent"
    \/ incoming.version > existing.version

\* Mutant: equal versions are adopted too.
SupersedesEqual(existing, incoming) ==
    \/ existing.status = "absent"
    \/ /\ existing.status # "completed"
       /\ \/ incoming.version >= existing.version
          \/ incoming.status = "completed"

\* Mutant: a completed copy has to be newer like any other.
SupersedesNewerOnly(existing, incoming) ==
    \/ existing.status = "absent"
    \/ existing.status # "completed" /\ incoming.version > existing.version

\* handle_ledger_update: does the incoming copy replace the existing one?
Supersedes(existing, incoming) ==
    \/ existing.status = "absent"
    \/ /\ existing.status # "completed"
       /\ \/ incoming.version > existing.version
          \/ incoming.status = "completed"
=============================================================================
