---------------------------- MODULE LedgerGossip ----------------------------
(***************************************************************************)
(* The replicated task ledger of whisper: every provider keeps a full copy *)
(* (whisper/ledger.py), mutates it when it submits, claims, renews,        *)
(* completes or releases a job (whisper/runtime.py, whisper/node.py), and  *)
(* pushes each changed record to peers, which reconcile it with their own  *)
(* copy and forward it while it has hops left.                             *)
(*                                                                         *)
(* One step is one handler: the mutation under `_lock', the write to disk  *)
(* and the gossip that follows it.  `net' holds each update for each peer  *)
(* it may go to, in no order, and nothing forces its delivery.  An update  *)
(* that stays there for ever is one that AXL lost, or that was never sent: *)
(* because the fanout picked other peers, the sender took the peer for     *)
(* dead, or it was killed after the write and before the gossip.  Nothing  *)
(* is sent again.  All nodes read one clock, which may advance at any      *)
(* point of any interleaving.  Which of the claimable jobs a scan may take *)
(* (shard affinity, quorum, capabilities) depends on the membership view   *)
(* and is left open: any node may claim.                                   *)
(***************************************************************************)
EXTENDS TaskLedger

CONSTANTS Task,          \* task ids; each is a fresh uuid, submitted once
          P2PTask,       \* submitted over AXL: have a submitter_key, auctioned
          ThresholdTask, \* threshold_t > 0: executing needs t shares
          GossipHops,    \* GOSSIP_HOPS
          Faults,        \* the kinds of fault that may happen
          MaxFaults,     \* bound: crashes and shutdowns together
          FaultsUntil,   \* bound: the last instant at which one may happen
          MaxRelease,    \* bound: failed share collections
          MaxTime        \* bound: the clock

FaultKind == {"crash", "torn_persist", "restart", "shutdown"}

ASSUME TaskAssumption   == P2PTask \subseteq Task /\ ThresholdTask \subseteq Task
ASSUME GossipAssumption == GossipHops \in Nat \ {0}
ASSUME FaultAssumption  == Faults \subseteq FaultKind
ASSUME BoundAssumption  == /\ MaxFaults \in Nat /\ FaultsUntil \in Nat
                           /\ MaxRelease \in Nat /\ MaxTime \in Nat

VARIABLES
    tasks,      \* tasks[n][t]: n's record of t, in memory and on disk
    phase,      \* phase[n]: the provider process
    workers,    \* workers[n][t]: the thread that has t in n's `_executing'
    net,        \* ledger_update messages that a node has not received
    auctions,   \* tasks whose task_award has not been handled
    pushed,     \* task_result notifications sent to submitters
    submitted,  \* task ids used so far
    now,        \* time.time()
    faults,     \* crashes and shutdowns so far
    releases    \* failed share collections so far

vars == <<tasks, phase, workers, net, auctions, pushed, submitted, now, faults,
          releases>>

Phase  == {"up", "stopping", "down", "exited"}
Worker == {"idle", "settling", "running", "leaving"}

Message == [to : Node, task : Task, rec : TaskRecord, hops : 1..GossipHops]

TypeOK ==
    /\ tasks     \in [Node -> [Task -> TaskRecord]]
    /\ phase     \in [Node -> Phase]
    /\ workers   \in [Node -> [Task -> Worker]]
    /\ net       \subseteq Message
    /\ auctions  \subseteq P2PTask
    /\ pushed    \subseteq [task : P2PTask, by : Node]
    /\ submitted \subseteq Task
    /\ now       \in 0..MaxTime
    /\ faults    \in 0..MaxFaults
    /\ releases  \in 0..MaxRelease

Init ==
    /\ tasks     = [n \in Node |-> [t \in Task |-> Absent]]
    /\ phase     = [n \in Node |-> "up"]
    /\ workers   = [n \in Node |-> [t \in Task |-> "idle"]]
    /\ net       = {}
    /\ auctions  = {}
    /\ pushed    = {}
    /\ submitted = {}
    /\ now       = 0
    /\ faults    = 0
    /\ releases  = 0

-----------------------------------------------------------------------------
(* Gossip.                                                                 *)

\* _fanout_raw picks up to GOSSIP_FANOUT of the peers that are not DEAD, the
\* directly connected ones first, each group shuffled: it may be any of them.
Peers(n) == Node \ {n}

\* A record sent to a set of peers with a given number of hops.
Copies(S, t, rec, hops) ==
    {[to |-> p, task |-> t, rec |-> rec, hops |-> hops] : p \in S}

\* _persist and _gossip_task: n replaces its record of t and gossips it.
Publish(n, t, rec) ==
    /\ tasks' = [tasks EXCEPT ![n][t] = rec]
    /\ net'   = net \cup Copies(Peers(n), t, rec, GossipHops)

\* The same for several tasks at once, one gossip message each: `new' maps
\* the tasks in T to their new records.
PublishAll(n, T, new) ==
    /\ tasks' = [tasks EXCEPT ![n] = [t \in Task |->
                    IF t \in T THEN new[t] ELSE tasks[n][t]]]
    /\ net' = net \cup UNION {Copies(Peers(n), t, new[t], GossipHops) : t \in T}

\* Threads of n other than the scan loop run until the process ends.
Alive(n) == phase[n] \in {"up", "stopping"}

MyTasks(n) == {t \in Task : HeldBy(tasks[n][t], n)}

-----------------------------------------------------------------------------
(* Jobs enter the ledger.                                                  *)

\* POST /submit and the task_submit message.  The latter also opens an
\* auction, whose outcome is one award to one node.
Submit(n, t) ==
    /\ Alive(n)
    /\ t \notin submitted
    /\ submitted' = submitted \cup {t}
    /\ Publish(n, t, NewTask)
    /\ auctions' = auctions \cup ({t} \cap P2PTask)
    /\ UNCHANGED <<phase, workers, pushed, now, faults, releases>>

-----------------------------------------------------------------------------
(* Claims.                                                                 *)

\* One iteration of the dispatch loop of _scan.  A pass that is under way
\* when stop() is called still finishes, hence Alive and not phase "up".
ScanClaim(n, t) ==
    /\ Alive(n)
    /\ Claimable(tasks[n][t], n, now)
    /\ workers[n][t] = "idle"
    /\ Publish(n, t, Claimed(tasks[n][t], n, now))
    /\ workers' = [workers EXCEPT ![n][t] = "settling"]
    /\ UNCHANGED <<phase, auctions, pushed, submitted, now, faults, releases>>

\* _handle_task_award and execute_awarded_task: the lease is written first;
\* the thread then returns at once if the task is still in `_executing'.
AwardClaim(n, t) ==
    /\ Alive(n)
    /\ t \in auctions
    /\ auctions' = auctions \ {t}
    /\ CanClaim(tasks[n][t], now)
    /\ Publish(n, t, Claimed(tasks[n][t], n, now))
    /\ workers' = [workers EXCEPT ![n][t] = IF @ = "idle" THEN "settling" ELSE @]
    /\ UNCHANGED <<phase, pushed, submitted, now, faults, releases>>

\* _handle_task_award when claim_task returns False.
AwardRefused(n, t) ==
    /\ Alive(n)
    /\ t \in auctions
    /\ auctions' = auctions \ {t}
    /\ ~CanClaim(tasks[n][t], now)
    /\ UNCHANGED <<tasks, phase, workers, net, pushed, submitted, now,
                   faults, releases>>

-----------------------------------------------------------------------------
(* Execution.                                                              *)

\* Mutant: the thread also gives up when the lease has expired meanwhile.
VerifyLeaseUnexpired(n, t) ==
    /\ workers[n][t] = "settling"
    /\ workers' = [workers EXCEPT ![n][t] =
                      IF HeldBy(tasks[n][t], n) /\ ~Expired(tasks[n][t], now)
                        THEN "running" ELSE "idle"]
    /\ UNCHANGED <<tasks, phase, net, auctions, pushed, submitted, now,
                   faults, releases>>

\* After the settling pause the thread runs the job only if the lease is
\* still ours.
VerifyLease(n, t) ==
    /\ workers[n][t] = "settling"
    /\ workers' = [workers EXCEPT ![n][t] =
                      IF HeldBy(tasks[n][t], n) THEN "running" ELSE "idle"]
    /\ UNCHANGED <<tasks, phase, net, auctions, pushed, submitted, now,
                   faults, releases>>

\* Mutant: the guard of complete_task is dropped.
CompleteUnguarded(n, t) ==
    /\ workers[n][t] = "running"
    /\ Publish(n, t, Completed(tasks[n][t], n))
    /\ workers' = [workers EXCEPT ![n][t] = "leaving"]
    /\ \/ pushed' = pushed \cup [task : {t} \cap P2PTask, by : {n}]
       \/ UNCHANGED pushed
    /\ UNCHANGED <<phase, auctions, submitted, now, faults, releases>>

\* complete_task with its _notify_submitter, which is one send that may come
\* to nothing.  A job whose payload cannot be decrypted completes with an
\* error text, so this is every way to finish but a failed collection.
Complete(n, t) ==
    /\ workers[n][t] = "running"
    /\ tasks[n][t].leased_by = n
    /\ Publish(n, t, Completed(tasks[n][t], n))
    /\ workers' = [workers EXCEPT ![n][t] = "leaving"]
    /\ \/ pushed' = pushed \cup [task : {t} \cap P2PTask, by : {n}]
       \/ UNCHANGED pushed
    /\ UNCHANGED <<phase, auctions, submitted, now, faults, releases>>

\* release_lease, when fewer than threshold_t shares were collected.
ReleaseLease(n, t) ==
    /\ workers[n][t] = "running"
    /\ t \in ThresholdTask
    /\ releases < MaxRelease
    /\ tasks[n][t].leased_by = n
    /\ Publish(n, t, Released(tasks[n][t]))
    /\ workers' = [workers EXCEPT ![n][t] = "leaving"]
    /\ releases' = releases + 1
    /\ UNCHANGED <<phase, auctions, pushed, submitted, now, faults>>

\* complete_task or release_lease returns False: the lease was taken over.
LostLease(n, t) ==
    /\ workers[n][t] = "running"
    /\ tasks[n][t].leased_by # n
    /\ workers' = [workers EXCEPT ![n][t] = "leaving"]
    /\ UNCHANGED <<tasks, phase, net, auctions, pushed, submitted, now,
                   faults, releases>>

\* The finally clause that removes the task from `_executing'.
WorkerExit(n, t) ==
    /\ workers[n][t] = "leaving"
    /\ workers' = [workers EXCEPT ![n][t] = "idle"]
    /\ UNCHANGED <<tasks, phase, net, auctions, pushed, submitted, now,
                   faults, releases>>

\* The renewal part of _scan, for one task.
RenewLease(n, t) ==
    /\ Alive(n)
    /\ NeedsRenewal(tasks[n][t], n, now)
    /\ Publish(n, t, Renewed(tasks[n][t], now))
    /\ UNCHANGED <<phase, workers, auctions, pushed, submitted, now, faults,
                   releases>>

-----------------------------------------------------------------------------
(* Inbound gossip.  The msg_id cache `_seen_ids' is left out: a message is *)
(* received once here, and a copy that arrives over another path has       *)
(* nothing new to merge.  Signatures are taken to verify.                  *)

\* Mutant: a message with no hops left is forwarded.
AdoptForwardsLast(n, m) ==
    /\ Alive(n)
    /\ m.to = n
    /\ Supersedes(tasks[n][m.task], m.rec)
    /\ tasks' = [tasks EXCEPT ![n][m.task] = m.rec]
    /\ net' = (net \ {m}) \cup Copies(Peers(n), m.task, m.rec, m.hops - 1)
    /\ UNCHANGED <<phase, workers, auctions, pushed, submitted, now,
                   faults, releases>>

\* handle_ledger_update for a copy that replaces ours.
Adopt(n, m) ==
    /\ Alive(n)
    /\ m.to = n
    /\ Supersedes(tasks[n][m.task], m.rec)
    /\ tasks' = [tasks EXCEPT ![n][m.task] = m.rec]
    /\ net' = (net \ {m}) \cup
                 (IF m.hops > 1
                    THEN Copies(Peers(n), m.task, m.rec, m.hops - 1) ELSE {})
    /\ UNCHANGED <<phase, workers, auctions, pushed, submitted, now,
                   faults, releases>>

\* handle_ledger_update for a copy that does not.
Ignore(n, m) ==
    /\ Alive(n)
    /\ m.to = n
    /\ ~Supersedes(tasks[n][m.task], m.rec)
    /\ net' = net \ {m}
    /\ UNCHANGED <<tasks, phase, workers, auctions, pushed, submitted,
                   now, faults, releases>>

-----------------------------------------------------------------------------
(* Processes stop and start.                                               *)

Fault(kind) ==
    /\ kind \in Faults
    /\ now <= FaultsUntil
    /\ faults < MaxFaults
    /\ faults' = faults + 1

\* SIGKILL or power loss.  Every handler has its record on disk before it
\* gossips; but _persist truncates the file before it writes it, so a crash
\* within a write leaves a file that _load gives up on.
Crash(n) ==
    /\ Alive(n)
    /\ Fault("crash")
    /\ phase' = [phase EXCEPT ![n] = "down"]
    /\ workers' = [workers EXCEPT ![n] = [t \in Task |-> "idle"]]
    /\ \/ UNCHANGED tasks
       \/ /\ "torn_persist" \in Faults
          /\ tasks' = [tasks EXCEPT ![n] = [t \in Task |-> Absent]]
    /\ UNCHANGED <<net, auctions, pushed, submitted, now, releases>>

\* Mutant: recovery takes every lease in the file for its own.
RestartTakesAll(n) ==
    /\ phase[n] \in {"down", "exited"}
    /\ "restart" \in Faults
    /\ phase' = [phase EXCEPT ![n] = "up"]
    /\ LET T == {t \in Task : tasks[n][t].leased_by # NoNode}
       IN  PublishAll(n, T, [t \in T |-> Renewed(tasks[n][t], now)])
    /\ UNCHANGED <<workers, auctions, pushed, submitted, now, faults, releases>>

\* main, _load and recover_identity: the leases we held are refreshed and
\* gossiped.  No thread is started for them.
Restart(n) ==
    /\ phase[n] \in {"down", "exited"}
    /\ "restart" \in Faults
    /\ phase' = [phase EXCEPT ![n] = "up"]
    /\ PublishAll(n, MyTasks(n),
                  [t \in MyTasks(n) |-> Renewed(tasks[n][t], now)])
    /\ UNCHANGED <<workers, auctions, pushed, submitted, now, faults, releases>>

\* shutdown: release_all_leases.  The receive loop, the workers and a scan
\* pass under way go on until the process ends.
Shutdown(n) ==
    /\ phase[n] = "up"
    /\ Fault("shutdown")
    /\ phase' = [phase EXCEPT ![n] = "stopping"]
    /\ PublishAll(n, MyTasks(n), [t \in MyTasks(n) |-> Released(tasks[n][t])])
    /\ UNCHANGED <<workers, auctions, pushed, submitted, now, releases>>

\* The end of main: the daemon threads die with the process.
Exit(n) ==
    /\ phase[n] = "stopping"
    /\ phase' = [phase EXCEPT ![n] = "exited"]
    /\ workers' = [workers EXCEPT ![n] = [t \in Task |-> "idle"]]
    /\ UNCHANGED <<tasks, net, auctions, pushed, submitted, now,
                   faults, releases>>

Tick ==
    /\ now < MaxTime
    /\ now' = now + 1
    /\ UNCHANGED <<tasks, phase, workers, net, auctions, pushed,
                   submitted, faults, releases>>

-----------------------------------------------------------------------------
Work(n, t) == Complete(n, t) \/ ReleaseLease(n, t) \/ LostLease(n, t)

Deliver(n) == \E m \in net : Adopt(n, m) \/ Ignore(n, m)

Next ==
    \/ \E n \in Node, t \in Task :
          \/ Submit(n, t)
          \/ ScanClaim(n, t)
          \/ AwardClaim(n, t)
          \/ AwardRefused(n, t)
          \/ VerifyLease(n, t)
          \/ Work(n, t)
          \/ WorkerExit(n, t)
          \/ RenewLease(n, t)
    \/ \E n \in Node :
          \/ Deliver(n)
          \/ Crash(n)
          \/ Restart(n)
          \/ Shutdown(n)
          \/ Exit(n)
    \/ Tick

Spec == Init /\ [][Next]_vars

(***************************************************************************)
(* What the code guarantees by itself: time passes.  That a thread makes   *)
(* progress, that a message arrives or that anybody claims a job is not    *)
(* assumed: a send is not repeated, and a survivor claims the jobs of      *)
(* others only with a quorum.                                              *)
(***************************************************************************)
Fairness == WF_vars(Tick)

LiveSpec == Spec /\ Fairness

-----------------------------------------------------------------------------
(* Safety.                                                                 *)

\* Every copy of t there is, in a ledger or in a message.
Known(t) == {tasks[n][t] : n \in Node} \cup
            {m.rec : m \in {x \in net : x.task = t}}

\* A lease of n never appears anywhere in a version newer than n's own
\* record, unless n knows the job to be completed: gossip, delay, crash and
\* identity recovery cannot hand n a lease it did not write itself.
OwnerFrontier ==
    \A t \in Task, n \in Node : \A r \in Known(t) :
        r.leased_by = n =>
            \/ tasks[n][t].status = "completed"
            \/ r.version <= tasks[n][t].version

\* Two copies of a job with the same version and the same leaseholder are
\* the same record: handle_ledger_update, which compares versions only, can
\* skip an equal version of the same holder without losing an update.
VersionIdentifiesUpdate ==
    \A t \in Task : \A r, s \in Known(t) :
        r.version = s.version /\ r.leased_by = s.leased_by => r = s

\* A completed copy carries the result of the node it was leased to, and
\* that node still has exactly this record: complete_task's weak guard
\* (leased_by only) never mixes one node's lease with another's result, and
\* neither gossip nor a restart makes a producer give up its own result.
ProducerKeepsResult ==
    \A t \in Task : \A r \in Known(t) :
        r.status = "completed" =>
            /\ r.result = r.leased_by
            /\ \E n \in Node : r.leased_by = n /\ tasks[n][t] = r

\* What _notify_submitter told a submitter is what the node that did the
\* work has in its ledger, and stays so.
PushedIsFinal ==
    \A p \in pushed :
        /\ tasks[p.by][p.task].status = "completed"
        /\ tasks[p.by][p.task].result = p.by

\* A lease that a running node holds is being worked on by one of its
\* threads.  _scan renews it for as long as it is held and never offers it
\* to this node again, so a lease without a thread would block the job.
LeaseHasWorker ==
    \A n \in Node, t \in Task :
        phase[n] = "up" /\ HeldBy(tasks[n][t], n)
            => workers[n][t] \in {"settling", "running"}

\* No update would be news to a node that has not received it: neither one
\* under way, nor one that was lost or never sent to it.
Quiescent == \A m \in net : ~Supersedes(tasks[m.to][m.task], m.rec)

\* Ledgers that differ do so because of an update some node has yet to
\* receive, or never will; reconciliation itself, in whatever order copies
\* come, leaves two kinds of tie only, each between two holders: claims (or
\* a claim and a release) with equal versions, and completions.
LedgersAgree ==
    Quiescent => \A t \in Task : \A m, n \in Node :
        \/ tasks[m][t] = tasks[n][t]
        \/ /\ tasks[m][t].leased_by # tasks[n][t].leased_by
           /\ \/ tasks[m][t].version = tasks[n][t].version
              \/ /\ tasks[m][t].status = "completed"
                 /\ tasks[n][t].status = "completed"

\* A completed entry is never changed again, by anybody.
CompletedSticky ==
    [][\A n \in Node, t \in Task :
          tasks[n][t].status = "completed" => tasks'[n][t] = tasks[n][t]]_vars

\* A ledger entry moves forward only: an entry that changes gets a higher
\* version or becomes completed, and it never disappears.
LedgerMonotone ==
    [][\A n \in Node, t \in Task :
          tasks'[n][t] # tasks[n][t] =>
             /\ tasks'[n][t].status # "absent"
             /\ \/ tasks'[n][t].version > tasks[n][t].version
                \/ tasks'[n][t].status = "completed"]_vars

\* Also when ledger files are torn: a running node never touches a result it
\* has from a peer, and its entries only move forward.  The one completed
\* entry it can overwrite is its own, from before the file was lost.
PeerResultsSafe ==
    [][\A n \in Node, t \in Task :
          phase'[n] = phase[n] /\ tasks'[n][t] # tasks[n][t] =>
             /\ tasks[n][t].status = "completed" => tasks[n][t].leased_by = n
             /\ \/ tasks'[n][t].version > tasks[n][t].version
                \/ tasks'[n][t].status = "completed"]_vars

-----------------------------------------------------------------------------
(* The job board this ledger implements: an entry's outcome is the result  *)
(* in it once it is completed; leases, versions and messages are hidden.   *)

Outcome(n, t) ==
    IF tasks[n][t].status = "completed" THEN tasks[n][t].result ELSE NoNode

Board == INSTANCE JobBoard WITH
    posted <- submitted,
    answer <- [n \in Node |-> [t \in Task |-> Outcome(n, t)]],
    told   <- pushed

\* The ledger with all its races, crashes and restarts behaves like the job
\* board: a provider records its own result at most once and never exchanges
\* a result it has; a result it learns is one its author still has; a
\* submitter is told when the author records its result, and only then.
ImplementsJobBoard == Board!Spec

-----------------------------------------------------------------------------
(* Statements of the documentation, made precise.                          *)

\* The racing claimants are reconciled: once all gossip has arrived, at most
\* one running node believes it holds the lease.
SingleHolder ==
    Quiescent => \A t \in Task : \A m, n \in Node :
        HeldBy(tasks[m][t], m) /\ HeldBy(tasks[n][t], n) => m = n

-----------------------------------------------------------------------------
(* Liveness.                                                               *)

\* n takes m for the holder of t, and m is down or has given t up: it
\* released or completed t, or yielded it to another lease.
Stale(n, m, t) ==
    /\ phase[n] = "up"
    /\ HeldBy(tasks[n][t], m)
    /\ phase[m] # "up" \/ ~HeldBy(tasks[m][t], m)

=============================================================================
