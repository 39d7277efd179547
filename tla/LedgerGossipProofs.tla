------------------------ MODULE LedgerGossipProofs ------------------------
(***************************************************************************)
(* Proofs about LedgerGossip for any number of nodes and tasks, any fanout *)
(* and hop count, any lease timing, and any interleaving of messages,      *)
(* crashes, restarts and shutdowns.                                        *)
(*                                                                         *)
(* The argument has two layers.  Every step of the system is, for the      *)
(* ledger, a LedgerStep of one node: each of its records stays, is         *)
(* replaced by a copy that supersedes it, or undergoes one ledger          *)
(* operation, and nothing but the new records becomes known elsewhere.     *)
(* The invariants are then preserved by any LedgerStep.                    *)
(***************************************************************************)
EXTENDS LedgerGossip, TLAPS

\* The fields of a record that depend on its status.
WellFormed(r) ==
    /\ r.status = "absent" => r = Absent
    /\ r.status # "absent" => r.version >= 1
    /\ r.status = "pending" =>
          r.leased_by = NoNode /\ r.lease_expires = 0 /\ r.result = NoNode
    /\ r.status = "in_progress" => r.leased_by \in Node /\ r.result = NoNode
    /\ r.status = "completed" => r.leased_by \in Node

RecordsWellFormed == \A t \in Task : \A r \in Known(t) : WellFormed(r)

NoAbsentInFlight == \A m \in net : m.rec.status # "absent"

\* A task id nobody has submitted is in no ledger.
UnsubmittedUnknown ==
    \A t \in Task \ submitted : \A r \in Known(t) : r.status = "absent"

\* A thread on its way to complete_task or release_lease, whose guards look
\* at leased_by only, never meets a completed record of its own node.
NoWorkOnCompleted ==
    \A n \in Node, t \in Task :
        workers[n][t] \in {"settling", "running"} /\ tasks[n][t].leased_by = n
            => tasks[n][t].status # "completed"

LedgerInv ==
    /\ RecordsWellFormed
    /\ NoAbsentInFlight
    /\ UnsubmittedUnknown
    /\ OwnerFrontier
    /\ VersionIdentifiesUpdate
    /\ ProducerKeepsResult

IInv == TypeOK /\ LedgerInv /\ NoWorkOnCompleted

\* What a step may do to n's record of t.
RecordStep(n, t) ==
    \/ tasks'[n][t] = tasks[n][t]
    \/ /\ t \in submitted' \ submitted
       /\ tasks'[n][t] = NewTask
    \/ /\ tasks'[n][t] \in Known(t)
       /\ tasks'[n][t].status # "absent"
       /\ Supersedes(tasks[n][t], tasks'[n][t])
    \/ /\ CanClaim(tasks[n][t], now)
       /\ tasks'[n][t] = Claimed(tasks[n][t], n, now)
    \/ /\ HeldBy(tasks[n][t], n)
       /\ \/ tasks'[n][t] = Renewed(tasks[n][t], now)
          \/ tasks'[n][t] = Released(tasks[n][t])
          \/ tasks'[n][t] = Completed(tasks[n][t], n)

\* A step that touches n's ledger only, and makes nothing else known.
LocalStep(n) ==
    /\ \A p \in Node \ {n} : tasks'[p] = tasks[p]
    /\ \A t \in Task : Known(t)' \subseteq Known(t) \cup {tasks'[n][t]}
    /\ \A m \in net' : m \in net \/ m.rec.status # "absent"
    /\ submitted \subseteq submitted'

LedgerStep(n) ==
    /\ LocalStep(n)
    /\ \A t \in Task : RecordStep(n, t)

-----------------------------------------------------------------------------
(* Types.                                                                  *)

\* What the ledger operations write is a task record.
LEMMA OperationTypes ==
    ASSUME NEW rec \in TaskRecord, NEW n \in Node, NEW time \in Nat
    PROVE  /\ Absent \in TaskRecord
           /\ NewTask \in TaskRecord
           /\ Claimed(rec, n, time) \in TaskRecord
           /\ Renewed(rec, time) \in TaskRecord
           /\ Released(rec) \in TaskRecord
           /\ Completed(rec, n) \in TaskRecord
<1> USE LeaseAssumption DEF TaskRecord, Status
<1>1. Absent \in TaskRecord /\ NewTask \in TaskRecord
  BY DEF Absent, NewTask
<1>2. Claimed(rec, n, time) \in TaskRecord
  BY DEF Claimed
<1>3. Renewed(rec, time) \in TaskRecord
  BY DEF Renewed
<1>4. Released(rec) \in TaskRecord
  BY DEF Released
<1>5. Completed(rec, n) \in TaskRecord
  BY DEF Completed
<1> QED
  BY <1>1, <1>2, <1>3, <1>4, <1>5

\* Gossip messages are well typed.
LEMMA CopiesType ==
    ASSUME NEW n \in Node, NEW t \in Task, NEW rec \in TaskRecord,
           NEW hops \in 1..GossipHops
    PROVE  Copies(Peers(n), t, rec, hops) \subseteq Message
BY DEF Peers, Copies, Message

\* Publishing a record keeps the types.
LEMMA PublishType ==
    ASSUME TypeOK, NEW n \in Node, NEW t \in Task, NEW rec \in TaskRecord,
           Publish(n, t, rec)
    PROVE  tasks' \in [Node -> [Task -> TaskRecord]] /\ net' \subseteq Message
<1>1. Copies(Peers(n), t, rec, GossipHops) \subseteq Message
  BY CopiesType, GossipAssumption
<1> QED
  BY <1>1 DEF Publish, TypeOK

\* Publishing several records keeps the types.
LEMMA PublishAllType ==
    ASSUME TypeOK, NEW n \in Node, NEW T \in SUBSET Task,
           NEW new \in [T -> TaskRecord], PublishAll(n, T, new)
    PROVE  tasks' \in [Node -> [Task -> TaskRecord]] /\ net' \subseteq Message
<1>1. ASSUME NEW t \in T
      PROVE  Copies(Peers(n), t, new[t], GossipHops) \subseteq Message
  BY CopiesType, GossipAssumption
<1>2. net' \subseteq Message
  BY <1>1 DEF PublishAll, TypeOK
<1> QED
  BY <1>2 DEF PublishAll, TypeOK

\* Every reachable state is well typed, whatever the faults.
THEOREM TypeCorrect == Spec => []TypeOK
<1>1. Init => TypeOK
  BY OperationTypes, BoundAssumption, NodeAssumption
     DEF Init, TypeOK, Phase, Worker, Absent, TaskRecord, Status
<1>2. TypeOK /\ [Next]_vars => TypeOK'
  <2> SUFFICES ASSUME TypeOK, [Next]_vars PROVE TypeOK'
    OBVIOUS
  <2> USE BoundAssumption
  <2>0. now \in Nat
    BY DEF TypeOK
  <2>1. ASSUME NEW n \in Node, NEW t \in Task, Submit(n, t) PROVE TypeOK'
    <3>1. tasks' \in [Node -> [Task -> TaskRecord]] /\ net' \subseteq Message
      BY <2>0, <2>1, PublishType, OperationTypes DEF Submit, TypeOK
    <3> QED
      BY <2>1, <3>1 DEF Submit, TypeOK
  <2>2. ASSUME NEW n \in Node, NEW t \in Task, ScanClaim(n, t) \/ AwardClaim(n, t)
        PROVE TypeOK'
    <3>1. Claimed(tasks[n][t], n, now) \in TaskRecord
      BY <2>0, OperationTypes DEF TypeOK
    <3>2. Publish(n, t, Claimed(tasks[n][t], n, now))
      BY <2>2 DEF ScanClaim, AwardClaim
    <3>3. tasks' \in [Node -> [Task -> TaskRecord]] /\ net' \subseteq Message
      BY <3>1, <3>2, PublishType
    <3>4. workers' \in [Node -> [Task -> Worker]]
      <4>1. workers' = [workers EXCEPT ![n][t] = "settling"] \/ workers' = workers
        BY <2>2 DEF ScanClaim, AwardClaim, TypeOK
      <4>2. CASE workers' = [workers EXCEPT ![n][t] = "settling"]
        BY <4>2 DEF TypeOK, Worker
      <4>3. CASE workers' = workers
        BY <4>3 DEF TypeOK
      <4> QED
        BY <4>1, <4>2, <4>3
    <3> QED
      BY <2>2, <3>3, <3>4 DEF ScanClaim, AwardClaim, TypeOK
  <2>3. ASSUME NEW n \in Node, NEW t \in Task, AwardRefused(n, t) PROVE TypeOK'
    BY <2>3 DEF AwardRefused, TypeOK
  <2>4. ASSUME NEW n \in Node, NEW t \in Task,
               VerifyLease(n, t) \/ LostLease(n, t) \/ WorkerExit(n, t)
        PROVE TypeOK'
    <3>1. PICK w \in Worker : workers' = [workers EXCEPT ![n][t] = w]
      BY <2>4 DEF VerifyLease, LostLease, WorkerExit, Worker
    <3>2. workers' \in [Node -> [Task -> Worker]]
      BY <3>1 DEF TypeOK
    <3> QED
      BY <2>4, <3>2 DEF VerifyLease, LostLease, WorkerExit, TypeOK
  <2>5. ASSUME NEW n \in Node, NEW t \in Task, Complete(n, t) PROVE TypeOK'
    <3>1. Completed(tasks[n][t], n) \in TaskRecord
      BY <2>0, OperationTypes DEF TypeOK
    <3>2. tasks' \in [Node -> [Task -> TaskRecord]] /\ net' \subseteq Message
      BY <2>5, <3>1, PublishType DEF Complete
    <3>3. pushed' \subseteq [task : P2PTask, by : Node]
      BY <2>5 DEF Complete, TypeOK
    <3>4. workers' \in [Node -> [Task -> Worker]]
      BY <2>5 DEF Complete, TypeOK, Worker
    <3> QED
      BY <2>5, <3>2, <3>3, <3>4 DEF Complete, TypeOK
  <2>6. ASSUME NEW n \in Node, NEW t \in Task, ReleaseLease(n, t) PROVE TypeOK'
    <3>1. Released(tasks[n][t]) \in TaskRecord
      BY <2>0, OperationTypes DEF TypeOK
    <3>2. tasks' \in [Node -> [Task -> TaskRecord]] /\ net' \subseteq Message
      BY <2>6, <3>1, PublishType DEF ReleaseLease
    <3>3. workers' \in [Node -> [Task -> Worker]]
      BY <2>6 DEF ReleaseLease, TypeOK, Worker
    <3> QED
      BY <2>6, <3>2, <3>3 DEF ReleaseLease, TypeOK
  <2>7. ASSUME NEW n \in Node, NEW t \in Task, RenewLease(n, t) PROVE TypeOK'
    <3>1. Renewed(tasks[n][t], now) \in TaskRecord
      BY <2>0, OperationTypes DEF TypeOK
    <3>2. tasks' \in [Node -> [Task -> TaskRecord]] /\ net' \subseteq Message
      BY <2>7, <3>1, PublishType DEF RenewLease
    <3> QED
      BY <2>7, <3>2 DEF RenewLease, TypeOK
  <2>8. ASSUME NEW n \in Node, NEW m \in net, Adopt(n, m) PROVE TypeOK'
    <3>1. m \in Message
      BY DEF TypeOK
    <3>2. net' \subseteq Message
      <4>1. CASE m.hops > 1
        <5>1. net' = (net \ {m}) \cup Copies(Peers(n), m.task, m.rec, m.hops - 1)
          BY <2>8, <4>1 DEF Adopt
        <5>2. /\ m.hops - 1 \in 1..GossipHops /\ m.task \in Task
              /\ m.rec \in TaskRecord
          BY <3>1, <4>1, GossipAssumption DEF Message
        <5>3. Copies(Peers(n), m.task, m.rec, m.hops - 1) \subseteq Message
          BY <5>2, CopiesType
        <5> QED
          BY <5>1, <5>3 DEF TypeOK
      <4>2. CASE ~(m.hops > 1)
        BY <2>8, <4>2 DEF Adopt, TypeOK
      <4> QED
        BY <4>1, <4>2
    <3>3. tasks' \in [Node -> [Task -> TaskRecord]]
      BY <2>8, <3>1 DEF Adopt, TypeOK, Message
    <3> QED
      BY <2>8, <3>2, <3>3 DEF Adopt, TypeOK
  <2>9. ASSUME NEW n \in Node, NEW m \in net, Ignore(n, m) PROVE TypeOK'
    BY <2>9 DEF Ignore, TypeOK
  <2>10. ASSUME NEW n \in Node, Crash(n) PROVE TypeOK'
    <3>1. Absent \in TaskRecord
      BY NodeAssumption DEF Absent, TaskRecord, Status
    <3>2. tasks' \in [Node -> [Task -> TaskRecord]]
      BY <2>10, <3>1 DEF Crash, TypeOK
    <3>3. workers' \in [Node -> [Task -> Worker]] /\ phase' \in [Node -> Phase]
      BY <2>10 DEF Crash, TypeOK, Worker, Phase
    <3> QED
      BY <2>10, <3>2, <3>3 DEF Crash, Fault, TypeOK
  <2>11. ASSUME NEW n \in Node, Restart(n) PROVE TypeOK'
    <3>0. /\ MyTasks(n) \in SUBSET Task
          /\ [t \in MyTasks(n) |-> Renewed(tasks[n][t], now)]
                \in [MyTasks(n) -> TaskRecord]
      BY <2>0, OperationTypes DEF MyTasks, TypeOK
    <3>1. tasks' \in [Node -> [Task -> TaskRecord]] /\ net' \subseteq Message
      BY <2>11, <3>0, PublishAllType DEF Restart
    <3>2. phase' \in [Node -> Phase]
      BY <2>11 DEF Restart, TypeOK, Phase
    <3> QED
      BY <2>11, <3>1, <3>2 DEF Restart, TypeOK
  <2>12. ASSUME NEW n \in Node, Shutdown(n) PROVE TypeOK'
    <3>0. /\ MyTasks(n) \in SUBSET Task
          /\ [t \in MyTasks(n) |-> Released(tasks[n][t])]
                \in [MyTasks(n) -> TaskRecord]
      BY <2>0, OperationTypes DEF MyTasks, TypeOK
    <3>1. tasks' \in [Node -> [Task -> TaskRecord]] /\ net' \subseteq Message
      BY <2>12, <3>0, PublishAllType DEF Shutdown
    <3>2. phase' \in [Node -> Phase]
      BY <2>12 DEF Shutdown, TypeOK, Phase
    <3> QED
      BY <2>12, <3>1, <3>2 DEF Shutdown, Fault, TypeOK
  <2>13. ASSUME NEW n \in Node, Exit(n) PROVE TypeOK'
    BY <2>13 DEF Exit, TypeOK, Phase, Worker
  <2>14. CASE Tick
    BY <2>14 DEF Tick, TypeOK
  <2>15. CASE UNCHANGED vars
    BY <2>15 DEF vars, TypeOK
  <2> QED
    BY <2>1, <2>2, <2>3, <2>4, <2>5, <2>6, <2>7, <2>8, <2>9, <2>10, <2>11,
       <2>12, <2>13, <2>14, <2>15 DEF Next, Work, Deliver
<1> QED
  BY <1>1, <1>2, PTL DEF Spec

-----------------------------------------------------------------------------
(* One record under a RecordStep.                                          *)

\* What is known is typed, and every ledger entry is known.
LEMMA KnownFacts ==
    ASSUME TypeOK, NEW t \in Task
    PROVE  /\ \A r \in Known(t) : r \in TaskRecord
           /\ \A p \in Node : tasks[p][t] \in Known(t)
BY DEF TypeOK, Known, Message

\* A completed record stays as it is.
LEMMA StickyStep ==
    ASSUME TypeOK, LedgerInv, NEW n \in Node, NEW t \in Task, RecordStep(n, t),
           tasks[n][t].status = "completed"
    PROVE  tasks'[n][t] = tasks[n][t]
BY KnownFacts DEF RecordStep, LedgerInv, UnsubmittedUnknown, Supersedes,
   CanClaim, HeldBy

\* A record that changes moves forward.
LEMMA ForwardStep ==
    ASSUME TypeOK, LedgerInv, NEW n \in Node, NEW t \in Task, RecordStep(n, t),
           tasks'[n][t] # tasks[n][t]
    PROVE  /\ tasks'[n][t].status # "absent"
           /\ \/ tasks'[n][t].version > tasks[n][t].version
              \/ tasks'[n][t].status = "completed"
<1> DEFINE old == tasks[n][t]
           new == tasks'[n][t]
<1>0. /\ old \in TaskRecord /\ old \in Known(t) /\ WellFormed(old)
      /\ \A r \in Known(t) : r \in TaskRecord /\ WellFormed(r)
  BY KnownFacts DEF LedgerInv, RecordsWellFormed
<1>1. old.version \in Nat
  BY <1>0 DEF TaskRecord
<1>2. CASE t \in submitted' \ submitted /\ new = NewTask
  <2>1. old = Absent
    BY <1>0, <1>2 DEF LedgerInv, UnsubmittedUnknown, WellFormed
  <2> QED
    BY <1>2, <2>1 DEF NewTask, Absent
<1>3. CASE new \in Known(t) /\ new.status # "absent" /\ Supersedes(old, new)
  <2>1. new.version \in Nat /\ new.version >= 1
    BY <1>0, <1>3 DEF WellFormed, TaskRecord
  <2>2. old.status = "absent" => old.version = 0
    BY <1>0 DEF WellFormed, Absent
  <2> QED
    BY <1>1, <1>3, <2>1, <2>2 DEF Supersedes
<1>4. CASE CanClaim(old, now) /\ new = Claimed(old, n, now)
  BY <1>1, <1>4 DEF Claimed
<1>5. CASE HeldBy(old, n) /\ new = Renewed(old, now)
  BY <1>1, <1>5 DEF Renewed, HeldBy
<1>6. CASE new = Released(old)
  BY <1>1, <1>6 DEF Released
<1>7. CASE new = Completed(old, n)
  BY <1>7 DEF Completed
<1> QED
  BY <1>2, <1>3, <1>4, <1>5, <1>6, <1>7 DEF RecordStep

\* The new record is an old one, or one of the four kinds n can write.
LEMMA FreshRecord ==
    ASSUME TypeOK, LedgerInv, NEW n \in Node, NEW t \in Task, RecordStep(n, t),
           tasks'[n][t] \notin Known(t)
    PROVE  /\ WellFormed(tasks'[n][t])
           /\ tasks[n][t].status # "completed"
           /\ tasks'[n][t].status # "absent"
           /\ \/ /\ tasks'[n][t].leased_by = n
                 /\ tasks'[n][t].version = tasks[n][t].version + 1
                 /\ tasks'[n][t].status = "completed" => tasks'[n][t].result = n
              \/ /\ tasks'[n][t].status = "pending"
                 /\ tasks'[n][t].leased_by = NoNode
<1> DEFINE old == tasks[n][t]
           new == tasks'[n][t]
<1>0. old \in TaskRecord /\ old \in Known(t) /\ WellFormed(old)
  BY KnownFacts DEF LedgerInv, RecordsWellFormed
<1>1. /\ old.version \in Nat /\ old.lease_expires \in Nat
      /\ old.status \in Status
  BY <1>0 DEF TaskRecord
<1>2. CASE t \in submitted' \ submitted /\ new = NewTask
  <2>1. old.status = "absent"
    BY <1>0, <1>2 DEF LedgerInv, UnsubmittedUnknown
  <2> QED
    BY <1>2, <2>1 DEF NewTask, WellFormed
<1>3. CASE CanClaim(old, now) /\ new = Claimed(old, n, now)
  BY <1>0, <1>1, <1>3 DEF Claimed, CanClaim, WellFormed
<1>4. CASE HeldBy(old, n) /\ new = Renewed(old, now)
  BY <1>0, <1>1, <1>4 DEF Renewed, HeldBy, WellFormed
<1>5. CASE HeldBy(old, n) /\ new = Released(old)
  BY <1>0, <1>1, <1>5 DEF Released, HeldBy, WellFormed
<1>6. CASE HeldBy(old, n) /\ new = Completed(old, n)
  BY <1>0, <1>1, <1>6 DEF Completed, HeldBy, WellFormed
<1> QED
  BY <1>0, <1>2, <1>3, <1>4, <1>5, <1>6 DEF RecordStep

-----------------------------------------------------------------------------
(* The invariants under a LedgerStep.                                      *)

\* A record known after the step was known before, or n has just written it.
LEMMA KnownAfter ==
    ASSUME NEW n \in Node, LocalStep(n), NEW t \in Task, NEW r \in Known(t)'
    PROVE  r \in Known(t) \/ (r = tasks'[n][t] /\ r \notin Known(t))
BY DEF LocalStep

\* Well-formedness, and the two facts that keep Absent out of messages and
\* unsubmitted ids out of ledgers.
LEMMA WellFormedStep ==
    ASSUME TypeOK, LedgerInv, NEW n \in Node, LedgerStep(n)
    PROVE  RecordsWellFormed' /\ NoAbsentInFlight' /\ UnsubmittedUnknown'
<1>1. RecordsWellFormed'
  <2> SUFFICES ASSUME NEW t \in Task, NEW r \in Known(t)' PROVE WellFormed(r)'
    BY DEF RecordsWellFormed
  <2>1. WellFormed(r)
    BY KnownAfter, FreshRecord DEF LedgerStep, LocalStep, LedgerInv, RecordsWellFormed
  <2> QED
    BY <2>1 DEF WellFormed
<1>2. NoAbsentInFlight'
  BY DEF LedgerStep, LocalStep, LedgerInv, NoAbsentInFlight
<1>3. UnsubmittedUnknown'
  <2> SUFFICES ASSUME NEW t \in Task \ submitted', NEW r \in Known(t)'
               PROVE  r.status = "absent"
    BY DEF UnsubmittedUnknown
  <2>1. t \in Task \ submitted /\ RecordStep(n, t)
    BY DEF LedgerStep, LocalStep
  <2>2. \A q \in Known(t) : q.status = "absent"
    BY <2>1 DEF LedgerInv, UnsubmittedUnknown
  <2>3. tasks[n][t] \in Known(t) /\ tasks[n][t].status = "absent"
    BY <2>2, KnownFacts
  <2>4. tasks'[n][t] = tasks[n][t]
    BY <2>1, <2>2, <2>3 DEF RecordStep, CanClaim, HeldBy
  <2> QED
    BY <2>2, <2>3, <2>4, KnownAfter DEF LedgerStep
<1> QED
  BY <1>1, <1>2, <1>3

\* OwnerFrontier: n's version only grows until n's record is completed, and
\* a lease of p other than n is never new.
LEMMA FrontierStep ==
    ASSUME TypeOK, TypeOK', LedgerInv, NEW n \in Node, LedgerStep(n)
    PROVE  OwnerFrontier'
<1> SUFFICES ASSUME NEW t \in Task, NEW p \in Node, NEW r \in Known(t)',
                    r.leased_by = p
             PROVE  \/ tasks'[p][t].status = "completed"
                    \/ r.version <= tasks'[p][t].version
  BY DEF OwnerFrontier
<1>0. RecordStep(n, t) /\ (p # n => tasks'[p] = tasks[p])
  BY DEF LedgerStep, LocalStep
<1>1. tasks[p][t].version \in Nat /\ tasks'[p][t].version \in Nat
  BY DEF TypeOK, TaskRecord
<1>2. CASE r \in Known(t)
  <2>1. r.version \in Nat
    BY <1>2, KnownFacts DEF TaskRecord
  <2>2. tasks[p][t].status = "completed" \/ r.version <= tasks[p][t].version
    BY <1>2 DEF LedgerInv, OwnerFrontier
  <2>3. tasks[p][t].status = "completed" => tasks'[p][t] = tasks[p][t]
    BY <1>0, StickyStep
  <2>4. \/ tasks'[p][t] = tasks[p][t]
        \/ tasks'[p][t].version > tasks[p][t].version
        \/ tasks'[p][t].status = "completed"
    BY <1>0, ForwardStep
  <2> QED
    BY <1>1, <2>1, <2>2, <2>3, <2>4
<1>3. CASE r = tasks'[n][t] /\ r \notin Known(t)
  <2>1. p = n
    BY <1>0, <1>3, FreshRecord, NodeAssumption
  <2> QED
    BY <1>1, <1>3, <2>1
<1> QED
  BY <1>2, <1>3, KnownAfter DEF LedgerStep

\* VersionIdentifiesUpdate: what n writes under its own name is newer than
\* all it ever wrote under it; what it writes without a name has one form.
LEMMA VersionStep ==
    ASSUME TypeOK, TypeOK', LedgerInv, NEW n \in Node, LedgerStep(n)
    PROVE  VersionIdentifiesUpdate'
<1>1. ASSUME NEW t \in Task, NEW q \in Known(t), NEW r, r = tasks'[n][t],
             r \notin Known(t), q.version = r.version, q.leased_by = r.leased_by
      PROVE  q = r
  <2>0. RecordStep(n, t)
    BY DEF LedgerStep, LocalStep
  <2>1. /\ q \in TaskRecord /\ WellFormed(q)
        /\ tasks[n][t].version \in Nat
    BY KnownFacts DEF LedgerInv, RecordsWellFormed, TypeOK, TaskRecord
  <2>2. r \in TaskRecord
    BY <1>1 DEF TypeOK
  <2>3. /\ WellFormed(r) /\ tasks[n][t].status # "completed"
        /\ r.status # "absent"
        /\ \/ r.leased_by = n /\ r.version = tasks[n][t].version + 1
           \/ r.status = "pending" /\ r.leased_by = NoNode
    BY <1>1, <2>0, FreshRecord
  <2>4. CASE r.leased_by = n /\ r.version = tasks[n][t].version + 1
    <3>1. q.version <= tasks[n][t].version
      BY <1>1, <2>3, <2>4 DEF LedgerInv, OwnerFrontier
    <3> QED
      BY <1>1, <2>1, <2>4, <3>1
  <2>5. CASE r.status = "pending" /\ r.leased_by = NoNode
    <3>1. r.lease_expires = 0 /\ r.result = NoNode /\ r.version >= 1
      BY <2>3, <2>5 DEF WellFormed
    <3>2. q.status = "pending" /\ q.lease_expires = 0 /\ q.result = NoNode
      <4>1. q.status # "absent"
        BY <1>1, <2>1, <3>1 DEF WellFormed, Absent
      <4> QED
        BY <1>1, <2>1, <2>5, <4>1, NodeAssumption DEF WellFormed, TaskRecord,
           Status
    <3> QED
      BY <1>1, <2>1, <2>2, <2>5, <3>1, <3>2 DEF TaskRecord
  <2> QED
    BY <2>3, <2>4, <2>5
<1> SUFFICES ASSUME NEW t \in Task, NEW r \in Known(t)', NEW q \in Known(t)',
                    r.version = q.version, r.leased_by = q.leased_by
             PROVE  r = q
  BY DEF VersionIdentifiesUpdate
<1>2. CASE r \in Known(t) /\ q \in Known(t)
  BY <1>2 DEF LedgerInv, VersionIdentifiesUpdate
<1>3. CASE r \notin Known(t) \/ q \notin Known(t)
  BY <1>1, <1>3, KnownAfter DEF LedgerStep
<1> QED
  BY <1>2, <1>3

\* ProducerKeepsResult: a completed record is final in its producer's ledger.
LEMMA ProducerStep ==
    ASSUME TypeOK, LedgerInv, NEW n \in Node, LedgerStep(n)
    PROVE  ProducerKeepsResult'
<1> SUFFICES ASSUME NEW t \in Task, NEW r \in Known(t)', r.status = "completed"
             PROVE  /\ r.result = r.leased_by
                    /\ \E p \in Node : r.leased_by = p /\ tasks'[p][t] = r
  BY DEF ProducerKeepsResult
<1>0. RecordStep(n, t)
  BY DEF LedgerStep, LocalStep
<1>1. CASE r \in Known(t)
  <2>1. r.result = r.leased_by
    BY <1>1 DEF LedgerInv, ProducerKeepsResult
  <2>2. PICK p \in Node : r.leased_by = p /\ tasks[p][t] = r
    BY <1>1 DEF LedgerInv, ProducerKeepsResult
  <2>3. tasks'[p][t] = r
    BY <1>0, <2>2, StickyStep DEF LedgerStep, LocalStep
  <2> QED
    BY <2>1, <2>2, <2>3
<1>2. CASE r = tasks'[n][t] /\ r \notin Known(t)
  BY <1>0, <1>2, FreshRecord
<1> QED
  BY <1>1, <1>2, KnownAfter DEF LedgerStep

\* The ledger part of the inductive invariant is preserved by a LedgerStep.
LEMMA LedgerInvStep ==
    ASSUME TypeOK, TypeOK', LedgerInv, NEW n \in Node, LedgerStep(n)
    PROVE  LedgerInv'
BY WellFormedStep, FrontierStep, VersionStep, ProducerStep DEF LedgerInv

-----------------------------------------------------------------------------
(* Every step of the system is a LedgerStep.                               *)

\* Publishing one record is a LocalStep, and changes that record alone.
LEMMA PublishLocal ==
    ASSUME TypeOK, NEW n \in Node, NEW t \in Task, NEW rec \in TaskRecord,
           Publish(n, t, rec), submitted \subseteq submitted',
           rec.status # "absent"
    PROVE  /\ LocalStep(n)
           /\ \A u \in Task \ {t} : tasks'[n][u] = tasks[n][u]
           /\ tasks'[n][t] = rec
<1>1. /\ \A p \in Node \ {n} : tasks'[p] = tasks[p]
      /\ \A u \in Task \ {t} : tasks'[n][u] = tasks[n][u]
      /\ tasks'[n][t] = rec
  BY DEF Publish, TypeOK
<1>2. \A m \in net' : m \in net \/ (m.task = t /\ m.rec = rec)
  BY DEF Publish, Copies
<1>3. ASSUME NEW u \in Task, NEW r \in Known(u)'
      PROVE  r \in Known(u) \cup {tasks'[n][u]}
  <2>1. CASE \E p \in Node : r = tasks'[p][u]
    BY <1>1, <2>1 DEF Known
  <2>2. CASE \E m \in net' : m.task = u /\ r = m.rec
    BY <1>1, <1>2, <2>2 DEF Known
  <2> QED
    BY <2>1, <2>2 DEF Known
<1> QED
  BY <1>1, <1>2, <1>3 DEF LocalStep

\* It is a LedgerStep if the new record is a RecordStep.
LEMMA PublishStep ==
    ASSUME TypeOK, NEW n \in Node, NEW t \in Task, NEW rec \in TaskRecord,
           Publish(n, t, rec), submitted \subseteq submitted',
           rec.status # "absent",
           tasks'[n][t] = rec => RecordStep(n, t)
    PROVE  LedgerStep(n)
<1>1. /\ LocalStep(n)
      /\ \A u \in Task \ {t} : tasks'[n][u] = tasks[n][u]
      /\ tasks'[n][t] = rec
  BY PublishLocal
<1>2. \A u \in Task \ {t} : RecordStep(n, u)
  BY <1>1 DEF RecordStep
<1> QED
  BY <1>1, <1>2 DEF LedgerStep

\* The same for several records.
LEMMA PublishAllLocal ==
    ASSUME TypeOK, NEW n \in Node, NEW T \in SUBSET Task,
           NEW new \in [T -> TaskRecord], PublishAll(n, T, new),
           submitted \subseteq submitted',
           \A t \in T : new[t].status # "absent"
    PROVE  /\ LocalStep(n)
           /\ \A u \in Task \ T : tasks'[n][u] = tasks[n][u]
           /\ \A u \in T : tasks'[n][u] = new[u]
<1>1. /\ \A p \in Node \ {n} : tasks'[p] = tasks[p]
      /\ \A u \in Task \ T : tasks'[n][u] = tasks[n][u]
      /\ \A u \in T : tasks'[n][u] = new[u]
  BY DEF PublishAll, TypeOK
<1>2. \A m \in net' : m \in net \/ (m.task \in T /\ m.rec = new[m.task])
  BY DEF PublishAll, Copies
<1>3. ASSUME NEW u \in Task, NEW r \in Known(u)'
      PROVE  r \in Known(u) \cup {tasks'[n][u]}
  <2>1. CASE \E p \in Node : r = tasks'[p][u]
    BY <1>1, <2>1 DEF Known
  <2>2. CASE \E m \in net' : m.task = u /\ r = m.rec
    BY <1>1, <1>2, <2>2 DEF Known
  <2> QED
    BY <2>1, <2>2 DEF Known
<1> QED
  BY <1>1, <1>2, <1>3 DEF LocalStep

LEMMA PublishAllStep ==
    ASSUME TypeOK, NEW n \in Node, NEW T \in SUBSET Task,
           NEW new \in [T -> TaskRecord], PublishAll(n, T, new),
           submitted \subseteq submitted',
           \A t \in T : new[t].status # "absent",
           \A t \in T : tasks'[n][t] = new[t] => RecordStep(n, t)
    PROVE  LedgerStep(n)
<1>1. /\ LocalStep(n)
      /\ \A u \in Task \ T : tasks'[n][u] = tasks[n][u]
      /\ \A u \in T : tasks'[n][u] = new[u]
  BY PublishAllLocal
<1>2. ASSUME NEW u \in Task PROVE RecordStep(n, u)
  <2>1. CASE u \in T
    BY <1>1, <2>1
  <2>2. CASE u \notin T
    BY <1>1, <2>2 DEF RecordStep
  <2> QED
    BY <2>1, <2>2
<1> QED
  BY <1>1, <1>2 DEF LedgerStep

\* A step that leaves the ledgers alone and sends nothing.
LEMMA QuietStep ==
    ASSUME tasks' = tasks, net' \subseteq net, submitted' = submitted,
           NEW n \in Node
    PROVE  LedgerStep(n)
BY DEF LedgerStep, LocalStep, RecordStep, Known

\* A merged copy was in a message, and what is forwarded is that copy.
LEMMA AdoptLocal ==
    ASSUME TypeOK, NoAbsentInFlight, NEW n \in Node, NEW m \in net, Adopt(n, m)
    PROVE  /\ LocalStep(n)
           /\ \A u \in Task \ {m.task} : tasks'[n][u] = tasks[n][u]
           /\ m.rec \in Known(m.task) /\ m.rec.status # "absent"
           /\ tasks'[n][m.task] = m.rec
<1>0. m \in Message /\ m.task \in Task /\ m.rec \in TaskRecord
  BY DEF TypeOK, Message
<1>1. /\ \A p \in Node \ {n} : tasks'[p] = tasks[p]
      /\ \A u \in Task \ {m.task} : tasks'[n][u] = tasks[n][u]
      /\ tasks'[n][m.task] = m.rec
      /\ submitted' = submitted
  BY <1>0 DEF Adopt, TypeOK
<1>2. \A k \in net' : k \in net \/ (k.task = m.task /\ k.rec = m.rec)
  BY DEF Adopt, Copies
<1>3. m.rec \in Known(m.task) /\ m.rec.status # "absent"
  BY DEF Known, NoAbsentInFlight
<1>4. ASSUME NEW u \in Task, NEW r \in Known(u)'
      PROVE  r \in Known(u) \cup {tasks'[n][u]}
  <2>1. CASE \E p \in Node : r = tasks'[p][u]
    BY <1>1, <2>1 DEF Known
  <2>2. CASE \E k \in net' : k.task = u /\ r = k.rec
    BY <1>1, <1>2, <2>2 DEF Known
  <2> QED
    BY <2>1, <2>2 DEF Known
<1> QED
  BY <1>1, <1>2, <1>3, <1>4 DEF LocalStep

LEMMA AdoptStep ==
    ASSUME IInv, NEW n \in Node, NEW m \in net, Adopt(n, m)
    PROVE  LedgerStep(n)
<1>1. TypeOK /\ NoAbsentInFlight /\ Supersedes(tasks[n][m.task], m.rec)
  BY DEF Adopt, IInv, LedgerInv
<1>2. /\ LocalStep(n)
      /\ \A u \in Task \ {m.task} : tasks'[n][u] = tasks[n][u]
      /\ m.rec \in Known(m.task) /\ m.rec.status # "absent"
      /\ tasks'[n][m.task] = m.rec
  BY <1>1, AdoptLocal
<1> QED
  BY <1>1, <1>2 DEF LedgerStep, RecordStep

\* complete_task and release_lease test leased_by only; the record is
\* nevertheless an unfinished one.
LEMMA WorkingMeansHeld ==
    ASSUME IInv, NEW n \in Node, NEW t \in Task, workers[n][t] = "running",
           tasks[n][t].leased_by = n
    PROVE  HeldBy(tasks[n][t], n)
<1>1. /\ tasks[n][t] \in TaskRecord /\ WellFormed(tasks[n][t])
      /\ tasks[n][t].status # "completed"
  BY KnownFacts DEF IInv, LedgerInv, RecordsWellFormed, NoWorkOnCompleted
<1> QED
  BY <1>1, NodeAssumption DEF WellFormed, HeldBy, TaskRecord, Status, Absent

\* The first layer of the argument: one step, one LedgerStep.
LEMMA NextIsLedgerStep ==
    ASSUME "torn_persist" \notin Faults, IInv, Next
    PROVE  \/ \E n \in Node : LedgerStep(n)
           \/ UNCHANGED <<tasks, net, submitted>>
<1> USE BoundAssumption
<1>0. TypeOK /\ now \in Nat /\ \A n \in Node, t \in Task : tasks[n][t] \in TaskRecord
  BY DEF IInv, TypeOK
<1>1. ASSUME NEW n \in Node, NEW t \in Task, Submit(n, t) PROVE LedgerStep(n)
  <2>1. NewTask \in TaskRecord /\ NewTask.status # "absent"
    BY <1>0, OperationTypes DEF NewTask
  <2>2. tasks'[n][t] = NewTask => RecordStep(n, t)
    BY <1>1 DEF Submit, RecordStep
  <2> QED
    BY <1>0, <1>1, <2>1, <2>2, PublishStep DEF Submit
<1>2. ASSUME NEW n \in Node, NEW t \in Task, ScanClaim(n, t) \/ AwardClaim(n, t)
      PROVE  LedgerStep(n)
  <2> DEFINE rec == Claimed(tasks[n][t], n, now)
  <2>1. rec \in TaskRecord /\ rec.status # "absent"
    BY <1>0, OperationTypes DEF Claimed
  <2>2. CanClaim(tasks[n][t], now)
    BY <1>2 DEF ScanClaim, AwardClaim, CanClaim, Claimable
  <2>3. tasks'[n][t] = rec => RecordStep(n, t)
    BY <2>2 DEF RecordStep
  <2>4. Publish(n, t, rec) /\ submitted' = submitted
    BY <1>2 DEF ScanClaim, AwardClaim
  <2> QED
    BY <1>0, <2>1, <2>3, <2>4, PublishStep
<1>3. ASSUME NEW n \in Node, NEW t \in Task, Complete(n, t) PROVE LedgerStep(n)
  <2> DEFINE rec == Completed(tasks[n][t], n)
  <2>1. rec \in TaskRecord /\ rec.status # "absent"
    BY <1>0, OperationTypes DEF Completed
  <2>2. HeldBy(tasks[n][t], n)
    BY <1>3, WorkingMeansHeld DEF Complete
  <2>3. tasks'[n][t] = rec => RecordStep(n, t)
    BY <2>2 DEF RecordStep
  <2> QED
    BY <1>0, <1>3, <2>1, <2>3, PublishStep DEF Complete
<1>4. ASSUME NEW n \in Node, NEW t \in Task, ReleaseLease(n, t) PROVE LedgerStep(n)
  <2> DEFINE rec == Released(tasks[n][t])
  <2>1. rec \in TaskRecord /\ rec.status # "absent"
    BY <1>0, OperationTypes DEF Released
  <2>2. HeldBy(tasks[n][t], n)
    BY <1>4, WorkingMeansHeld DEF ReleaseLease
  <2>3. tasks'[n][t] = rec => RecordStep(n, t)
    BY <2>2 DEF RecordStep
  <2> QED
    BY <1>0, <1>4, <2>1, <2>3, PublishStep DEF ReleaseLease
<1>5. ASSUME NEW n \in Node, NEW t \in Task, RenewLease(n, t) PROVE LedgerStep(n)
  <2> DEFINE rec == Renewed(tasks[n][t], now)
  <2>1. HeldBy(tasks[n][t], n)
    BY <1>5 DEF RenewLease, NeedsRenewal
  <2>2. rec \in TaskRecord /\ rec.status # "absent"
    BY <1>0, <2>1, OperationTypes DEF Renewed, HeldBy
  <2>3. tasks'[n][t] = rec => RecordStep(n, t)
    BY <2>1 DEF RecordStep
  <2> QED
    BY <1>0, <1>5, <2>2, <2>3, PublishStep DEF RenewLease
<1>6. ASSUME NEW n \in Node, Restart(n) PROVE LedgerStep(n)
  <2> DEFINE T   == MyTasks(n)
             new == [t \in T |-> Renewed(tasks[n][t], now)]
  <2>1. T \in SUBSET Task /\ \A t \in T : HeldBy(tasks[n][t], n)
    BY DEF MyTasks
  <2>2. new \in [T -> TaskRecord]
    BY <1>0, <2>1, OperationTypes
  <2>3. \A t \in T : new[t].status # "absent"
    BY <2>1 DEF Renewed, HeldBy
  <2>4. \A t \in T : tasks'[n][t] = new[t] => RecordStep(n, t)
    BY <2>1 DEF RecordStep
  <2>5. PublishAll(n, T, new) /\ submitted \subseteq submitted'
    BY <1>6 DEF Restart
  <2> HIDE DEF T, new
  <2> QED
    BY <1>0, <2>1, <2>2, <2>3, <2>4, <2>5, PublishAllStep
<1>7. ASSUME NEW n \in Node, Shutdown(n) PROVE LedgerStep(n)
  <2> DEFINE T   == MyTasks(n)
             new == [t \in T |-> Released(tasks[n][t])]
  <2>1. T \in SUBSET Task /\ \A t \in T : HeldBy(tasks[n][t], n)
    BY DEF MyTasks
  <2>2. new \in [T -> TaskRecord]
    BY <1>0, <2>1, OperationTypes
  <2>3. \A t \in T : new[t].status # "absent"
    BY <2>1 DEF Released
  <2>4. \A t \in T : tasks'[n][t] = new[t] => RecordStep(n, t)
    BY <2>1 DEF RecordStep
  <2>5. PublishAll(n, T, new) /\ submitted \subseteq submitted'
    BY <1>7 DEF Shutdown
  <2> HIDE DEF T, new
  <2> QED
    BY <1>0, <2>1, <2>2, <2>3, <2>4, <2>5, PublishAllStep
<1>8. ASSUME NEW n \in Node, NEW m \in net, Ignore(n, m) PROVE LedgerStep(n)
  BY <1>8, QuietStep DEF Ignore
<1>9. ASSUME NEW n \in Node, Crash(n) PROVE UNCHANGED <<tasks, net, submitted>>
  BY <1>9 DEF Crash
<1>10. ASSUME NEW n \in Node, NEW t \in Task,
              \/ AwardRefused(n, t) \/ VerifyLease(n, t)
              \/ LostLease(n, t) \/ WorkerExit(n, t)
       PROVE  UNCHANGED <<tasks, net, submitted>>
  BY <1>10 DEF AwardRefused, VerifyLease, LostLease, WorkerExit
<1>11. ASSUME NEW n \in Node, Exit(n) PROVE UNCHANGED <<tasks, net, submitted>>
  BY <1>11 DEF Exit
<1>12. Tick => UNCHANGED <<tasks, net, submitted>>
  BY DEF Tick
<1> QED
  BY <1>1, <1>2, <1>3, <1>4, <1>5, <1>6, <1>7, <1>8, <1>9, <1>10, <1>11,
     <1>12, AdoptStep DEF Next, Work, Deliver

-----------------------------------------------------------------------------
(* Threads and leases.                                                     *)

\* No copy that can reach n turns n's record into a lease of n or into a
\* completed record of n: such copies are older than what n has.
LEMMA NothingOfMineIsNews ==
    ASSUME IInv, NEW n \in Node, NEW m \in net, Adopt(n, m)
    PROVE  m.rec.leased_by # n
<1> SUFFICES ASSUME m.rec.leased_by = n PROVE FALSE
  OBVIOUS
<1> DEFINE own == tasks[n][m.task]
<1>1. m.task \in Task /\ m.rec \in Known(m.task) /\ TypeOK
  BY DEF IInv, TypeOK, Message, Known
<1>2. own \in TaskRecord /\ m.rec \in TaskRecord /\ WellFormed(own)
  BY <1>1, KnownFacts DEF IInv, LedgerInv, RecordsWellFormed
<1>3. m.rec.version >= 1 /\ m.rec.version \in Nat /\ own.version \in Nat
  BY <1>1, <1>2 DEF IInv, LedgerInv, RecordsWellFormed, NoAbsentInFlight,
     WellFormed, TaskRecord
<1>4. own.status = "completed" \/ m.rec.version <= own.version
  BY <1>1 DEF IInv, LedgerInv, OwnerFrontier
<1>5. own.status = "absent" => own.version = 0
  BY <1>2 DEF WellFormed, Absent
<1>6. m.rec.status = "completed" => own = m.rec
  BY <1>1 DEF IInv, LedgerInv, ProducerKeepsResult
<1> QED
  BY <1>3, <1>4, <1>5, <1>6 DEF Adopt, Supersedes

\* NoWorkOnCompleted is preserved.
LEMMA NoWorkStep ==
    ASSUME "torn_persist" \notin Faults, IInv, [Next]_vars
    PROVE  NoWorkOnCompleted'
<1> SUFFICES ASSUME NEW p \in Node, NEW u \in Task,
                    workers'[p][u] \in {"settling", "running"},
                    tasks'[p][u].leased_by = p
             PROVE  tasks'[p][u].status # "completed"
  BY DEF NoWorkOnCompleted
<1>0. /\ workers[p][u] \in {"settling", "running"} /\ tasks[p][u].leased_by = p
           => tasks[p][u].status # "completed"
      /\ TypeOK
  BY DEF IInv, NoWorkOnCompleted
<1> USE DEF TypeOK
<1>1. ASSUME NEW n \in Node, NEW t \in Task, Submit(n, t)
      PROVE  tasks'[p][u].status # "completed"
  BY <1>0, <1>1 DEF Submit, Publish, NewTask
<1>2. ASSUME NEW n \in Node, NEW t \in Task, ScanClaim(n, t) \/ AwardClaim(n, t)
      PROVE  tasks'[p][u].status # "completed"
  <2>0. /\ tasks' = [tasks EXCEPT ![n][t] = Claimed(tasks[n][t], n, now)]
        /\ workers' = [workers EXCEPT ![n][t] = "settling"] \/ workers' = workers
    BY <1>0, <1>2 DEF ScanClaim, AwardClaim, Publish
  <2>1. CASE p = n /\ u = t
    <3>1. tasks'[p][u] = Claimed(tasks[n][t], n, now)
      BY <1>0, <2>0, <2>1
    <3> QED
      BY <3>1 DEF Claimed
  <2>2. CASE ~(p = n /\ u = t)
    <3>1. tasks'[p][u] = tasks[p][u]
      BY <1>0, <2>0, <2>2
    <3>2. workers'[p][u] = workers[p][u]
      BY <1>0, <2>0, <2>2
    <3> QED
      BY <1>0, <3>1, <3>2
  <2> QED
    BY <2>1, <2>2
<1>3. ASSUME NEW n \in Node, NEW t \in Task,
             VerifyLease(n, t) \/ LostLease(n, t) \/ WorkerExit(n, t)
      PROVE  tasks'[p][u].status # "completed"
  BY <1>0, <1>3 DEF VerifyLease, LostLease, WorkerExit, HeldBy
<1>4. ASSUME NEW n \in Node, NEW t \in Task, Complete(n, t) \/ ReleaseLease(n, t)
      PROVE  tasks'[p][u].status # "completed"
  BY <1>0, <1>4 DEF Complete, ReleaseLease, Publish, Released
<1>5. ASSUME NEW n \in Node, NEW t \in Task, RenewLease(n, t)
      PROVE  tasks'[p][u].status # "completed"
  BY <1>0, <1>5 DEF RenewLease, Publish, Renewed
<1>6. ASSUME NEW n \in Node, NEW m \in net, Adopt(n, m)
      PROVE  tasks'[p][u].status # "completed"
  <2>1. m.rec.leased_by # n
    BY <1>6, NothingOfMineIsNews
  <2> QED
    BY <1>0, <1>6, <2>1 DEF Adopt
<1>7. ASSUME NEW n \in Node, Crash(n) \/ Exit(n)
      PROVE  tasks'[p][u].status # "completed"
  BY <1>0, <1>7 DEF Crash, Exit
<1>8. ASSUME NEW n \in Node, Restart(n) \/ Shutdown(n)
      PROVE  tasks'[p][u].status # "completed"
  <2>0. PICK new :
           /\ tasks' = [tasks EXCEPT ![n] = [t \in Task |->
                 IF t \in MyTasks(n) THEN new[t] ELSE tasks[n][t]]]
           /\ \/ new = [t \in MyTasks(n) |-> Renewed(tasks[n][t], now)]
              \/ new = [t \in MyTasks(n) |-> Released(tasks[n][t])]
           /\ workers' = workers
    <3>1. CASE Restart(n)
      <4> WITNESS [t \in MyTasks(n) |-> Renewed(tasks[n][t], now)]
      <4> QED
        BY <3>1 DEF Restart, PublishAll
    <3>2. CASE Shutdown(n)
      <4> WITNESS [t \in MyTasks(n) |-> Released(tasks[n][t])]
      <4> QED
        BY <3>2 DEF Shutdown, PublishAll
    <3> QED
      BY <1>8, <3>1, <3>2
  <2>1. CASE p = n /\ u \in MyTasks(n)
    <3>1. tasks[n][u].status = "in_progress"
      BY <2>1 DEF MyTasks, HeldBy
    <3>2. tasks'[p][u] = new[u]
      BY <1>0, <2>0, <2>1
    <3>3. new[u] = Renewed(tasks[n][u], now) \/ new[u] = Released(tasks[n][u])
      BY <2>0, <2>1
    <3> QED
      BY <3>1, <3>2, <3>3 DEF Renewed, Released
  <2>2. CASE ~(p = n /\ u \in MyTasks(n))
    <3>1. tasks'[p][u] = tasks[p][u]
      BY <1>0, <2>0, <2>2
    <3> QED
      BY <1>0, <2>0, <3>1
  <2> QED
    BY <2>1, <2>2
<1>9. ASSUME UNCHANGED <<tasks, workers>>
      PROVE  tasks'[p][u].status # "completed"
  BY <1>0, <1>9
<1>10. ASSUME NEW n \in Node, NEW t \in Task, AwardRefused(n, t)
       PROVE  UNCHANGED <<tasks, workers>>
  BY <1>10 DEF AwardRefused
<1>11. ASSUME NEW n \in Node, NEW m \in net, Ignore(n, m)
       PROVE  UNCHANGED <<tasks, workers>>
  BY <1>11 DEF Ignore
<1>12. Tick \/ UNCHANGED vars => UNCHANGED <<tasks, workers>>
  BY DEF Tick, vars
<1> QED
  BY <1>1, <1>2, <1>3, <1>4, <1>5, <1>6, <1>7, <1>8, <1>9, <1>10, <1>11,
     <1>12 DEF Next, Work, Deliver

-----------------------------------------------------------------------------
(* The theorems.                                                           *)

\* As long as no write to the ledger file is torn, the inductive invariant
\* holds in every reachable state.
THEOREM InductiveInvariant ==
    ASSUME "torn_persist" \notin Faults PROVE Spec => []IInv
<1>1. TypeOK /\ Init => IInv
  <2> SUFFICES ASSUME TypeOK, Init PROVE LedgerInv /\ NoWorkOnCompleted
    BY DEF IInv
  <2>1. /\ \A t \in Task : \A r \in Known(t) : r = Absent
        /\ \A n \in Node, t \in Task :
              tasks[n][t] = Absent /\ workers[n][t] = "idle"
        /\ net = {}
    BY DEF Init, Known
  <2>2. /\ Absent.status = "absent" /\ Absent.leased_by = NoNode
        /\ Absent.version = 0
    BY DEF Absent
  <2>3. RecordsWellFormed /\ NoAbsentInFlight /\ UnsubmittedUnknown
    BY <2>1, <2>2 DEF RecordsWellFormed, WellFormed, NoAbsentInFlight,
       UnsubmittedUnknown
  <2>4. OwnerFrontier /\ VersionIdentifiesUpdate /\ ProducerKeepsResult
    BY <2>1, <2>2, NodeAssumption DEF OwnerFrontier, VersionIdentifiesUpdate,
       ProducerKeepsResult
  <2>5. NoWorkOnCompleted
    BY <2>1 DEF NoWorkOnCompleted
  <2> QED
    BY <2>3, <2>4, <2>5 DEF LedgerInv
<1>2. TypeOK /\ TypeOK' /\ IInv /\ [Next]_vars => IInv'
  <2> SUFFICES ASSUME TypeOK, TypeOK', IInv, [Next]_vars PROVE IInv'
    OBVIOUS
  <2>1. NoWorkOnCompleted'
    BY NoWorkStep
  <2>2. ASSUME UNCHANGED <<tasks, net, submitted>> PROVE LedgerInv'
    <3>1. \A t \in Task : Known(t)' = Known(t)
      BY <2>2 DEF Known
    <3> QED
      BY <2>2, <3>1 DEF IInv, LedgerInv, RecordsWellFormed, WellFormed,
         NoAbsentInFlight, UnsubmittedUnknown, OwnerFrontier,
         VersionIdentifiesUpdate, ProducerKeepsResult
  <2>3. CASE Next
    <3>1. LedgerInv
      BY DEF IInv
    <3> QED
      BY <2>1, <2>2, <2>3, <3>1, NextIsLedgerStep, LedgerInvStep DEF IInv
  <2>4. CASE UNCHANGED vars
    BY <2>1, <2>2, <2>4 DEF vars, IInv
  <2> QED
    BY <2>3, <2>4
<1> QED
  BY <1>1, <1>2, TypeCorrect, PTL DEF Spec

\* A lease of n is nowhere newer than n's own record of the job.
THEOREM FrontierSafe ==
    ASSUME "torn_persist" \notin Faults PROVE Spec => []OwnerFrontier
<1>1. IInv => OwnerFrontier
  BY DEF IInv, LedgerInv
<1> QED
  BY <1>1, InductiveInvariant, PTL

\* Version and holder identify a copy: skipping an equal version of the same
\* holder loses nothing.
THEOREM VersionSafe ==
    ASSUME "torn_persist" \notin Faults PROVE Spec => []VersionIdentifiesUpdate
<1>1. IInv => VersionIdentifiesUpdate
  BY DEF IInv, LedgerInv
<1> QED
  BY <1>1, InductiveInvariant, PTL

\* Results are not mixed up, and a producer never loses its own.
THEOREM ProducerSafe ==
    ASSUME "torn_persist" \notin Faults PROVE Spec => []ProducerKeepsResult
<1>1. IInv => ProducerKeepsResult
  BY DEF IInv, LedgerInv
<1> QED
  BY <1>1, InductiveInvariant, PTL

\* A completed record is never changed again, in any ledger.
THEOREM StickySafe ==
    ASSUME "torn_persist" \notin Faults PROVE Spec => CompletedSticky
<1>1. IInv /\ [Next]_vars =>
        [\A n \in Node, t \in Task : tasks[n][t].status = "completed"
            => tasks'[n][t] = tasks[n][t]]_vars
  <2> SUFFICES ASSUME IInv, Next, NEW n \in Node, NEW t \in Task,
                      tasks[n][t].status = "completed"
               PROVE  tasks'[n][t] = tasks[n][t]
    OBVIOUS
  <2>1. TypeOK /\ LedgerInv
    BY DEF IInv
  <2>2. CASE UNCHANGED <<tasks, net, submitted>>
    BY <2>2
  <2>3. ASSUME NEW p \in Node, LedgerStep(p) PROVE tasks'[n][t] = tasks[n][t]
    BY <2>1, <2>3, StickyStep DEF LedgerStep, LocalStep
  <2> QED
    BY <2>2, <2>3, NextIsLedgerStep
<1> QED
  BY <1>1, InductiveInvariant, PTL DEF Spec, CompletedSticky

\* Ledger entries only move forward.
THEOREM MonotoneSafe ==
    ASSUME "torn_persist" \notin Faults PROVE Spec => LedgerMonotone
<1>1. IInv /\ [Next]_vars =>
        [\A n \in Node, t \in Task :
          tasks'[n][t] # tasks[n][t] =>
             /\ tasks'[n][t].status # "absent"
             /\ \/ tasks'[n][t].version > tasks[n][t].version
                \/ tasks'[n][t].status = "completed"]_vars
  <2> SUFFICES ASSUME IInv, Next, NEW n \in Node, NEW t \in Task,
                      tasks'[n][t] # tasks[n][t]
               PROVE  /\ tasks'[n][t].status # "absent"
                      /\ \/ tasks'[n][t].version > tasks[n][t].version
                         \/ tasks'[n][t].status = "completed"
    OBVIOUS
  <2>1. TypeOK /\ LedgerInv
    BY DEF IInv
  <2>2. PICK p \in Node : LedgerStep(p)
    BY NextIsLedgerStep
  <2>3. p = n /\ RecordStep(n, t)
    BY <2>2 DEF LedgerStep, LocalStep
  <2> QED
    BY <2>1, <2>3, ForwardStep
<1> QED
  BY <1>1, InductiveInvariant, PTL DEF Spec, LedgerMonotone

\* What a submitter was told is in the producer's ledger for good.
THEOREM PushedSafe ==
    ASSUME "torn_persist" \notin Faults PROVE Spec => []PushedIsFinal
<1>1. Init => PushedIsFinal
  BY DEF Init, PushedIsFinal
<1>2. IInv /\ PushedIsFinal /\ [Next]_vars => PushedIsFinal'
  <2> SUFFICES ASSUME IInv, PushedIsFinal, [Next]_vars, NEW q \in pushed'
               PROVE  /\ tasks'[q.by][q.task].status = "completed"
                      /\ tasks'[q.by][q.task].result = q.by
    BY DEF PushedIsFinal
  <2>0. TypeOK /\ LedgerInv
    BY DEF IInv
  <2>1. CASE q \in pushed
    <3>1. q.by \in Node /\ q.task \in Task
      BY <2>0, <2>1, TaskAssumption DEF TypeOK
    <3>2. /\ tasks[q.by][q.task].status = "completed"
          /\ tasks[q.by][q.task].result = q.by
      BY <2>1 DEF PushedIsFinal
    <3>3. ASSUME NEW p \in Node, LedgerStep(p)
          PROVE  tasks'[q.by][q.task] = tasks[q.by][q.task]
      BY <2>0, <3>1, <3>2, <3>3, StickyStep DEF LedgerStep, LocalStep
    <3>4. tasks'[q.by][q.task] = tasks[q.by][q.task]
      BY <3>3, NextIsLedgerStep DEF vars
    <3> QED
      BY <3>2, <3>4
  <2>2. CASE q \notin pushed
    <3>1. PICK n \in Node, t \in Task : Complete(n, t)
      <4>1. \A n \in Node, t \in Task :
              (\/ Submit(n, t) \/ ScanClaim(n, t) \/ AwardClaim(n, t)
               \/ AwardRefused(n, t) \/ VerifyLease(n, t) \/ ReleaseLease(n, t)
               \/ LostLease(n, t) \/ WorkerExit(n, t) \/ RenewLease(n, t))
                => pushed' = pushed
        BY DEF Submit, ScanClaim, AwardClaim, AwardRefused, VerifyLease,
           ReleaseLease, LostLease, WorkerExit, RenewLease
      <4>2. \A n \in Node :
              Crash(n) \/ Restart(n) \/ Shutdown(n) \/ Exit(n) \/ Deliver(n)
                => pushed' = pushed
        BY Zenon DEF Crash, Restart, Shutdown, Exit, Deliver, Adopt, Ignore
      <4>3. Tick \/ UNCHANGED vars => pushed' = pushed
        BY DEF Tick, vars
      <4>4. pushed' # pushed
        BY <2>2
      <4> QED
        BY <4>1, <4>2, <4>3, <4>4, Zenon DEF Next, Work
    <3>2. q.by = n /\ q.task = t
      BY <2>2, <3>1 DEF Complete
    <3> QED
      BY <2>0, <3>1, <3>2 DEF Complete, Publish, Completed, TypeOK
  <2> QED
    BY <2>1, <2>2
<1> QED
  BY <1>1, <1>2, InductiveInvariant, PTL DEF Spec

\* Without auctions and restarts, every lease a running node holds has a
\* thread.  The two hypotheses are needed: an award that meets a thread on
\* its way out, and identity recovery, leave a lease without one.
THEOREM LeaseWorked ==
    ASSUME "torn_persist" \notin Faults, "restart" \notin Faults, P2PTask = {}
    PROVE  Spec => []LeaseHasWorker
<1>1. Init => LeaseHasWorker
  BY DEF Init, LeaseHasWorker, HeldBy, Absent
<1>2. IInv /\ LeaseHasWorker /\ [Next]_vars => LeaseHasWorker'
  <2> SUFFICES ASSUME IInv, LeaseHasWorker, [Next]_vars,
                      NEW p \in Node, NEW u \in Task,
                      phase'[p] = "up", HeldBy(tasks'[p][u], p)
               PROVE  workers'[p][u] \in {"settling", "running"}
    BY DEF LeaseHasWorker, HeldBy
  <2>0. /\ phase[p] = "up" /\ HeldBy(tasks[p][u], p)
             => workers[p][u] \in {"settling", "running"}
        /\ TypeOK
    BY DEF IInv, LeaseHasWorker
  <2> USE DEF TypeOK, HeldBy
  <2>1. ASSUME NEW n \in Node, NEW t \in Task, Submit(n, t)
        PROVE  workers'[p][u] \in {"settling", "running"}
    BY <2>0, <2>1, NodeAssumption DEF Submit, Publish, NewTask
  <2>2. ASSUME NEW n \in Node, NEW t \in Task, ScanClaim(n, t)
        PROVE  workers'[p][u] \in {"settling", "running"}
    BY <2>0, <2>2 DEF ScanClaim, Publish
  <2>3. ASSUME NEW n \in Node, NEW t \in Task,
               VerifyLease(n, t) \/ LostLease(n, t) \/ WorkerExit(n, t)
        PROVE  workers'[p][u] \in {"settling", "running"}
    BY <2>0, <2>3 DEF VerifyLease, LostLease, WorkerExit
  <2>4. ASSUME NEW n \in Node, NEW t \in Task,
               Complete(n, t) \/ ReleaseLease(n, t)
        PROVE  workers'[p][u] \in {"settling", "running"}
    BY <2>0, <2>4 DEF Complete, ReleaseLease, Publish, Completed, Released
  <2>5. ASSUME NEW n \in Node, NEW t \in Task, RenewLease(n, t)
        PROVE  workers'[p][u] \in {"settling", "running"}
    BY <2>0, <2>5 DEF RenewLease, NeedsRenewal, Publish, Renewed
  <2>6. ASSUME NEW n \in Node, NEW m \in net, Adopt(n, m)
        PROVE  workers'[p][u] \in {"settling", "running"}
    <3>1. m.rec.leased_by # n
      BY <2>6, NothingOfMineIsNews
    <3> QED
      BY <2>0, <2>6, <3>1 DEF Adopt
  <2>7. ASSUME NEW n \in Node, Crash(n) \/ Exit(n)
        PROVE  workers'[p][u] \in {"settling", "running"}
    BY <2>0, <2>7 DEF Crash, Exit
  <2>8. ASSUME NEW n \in Node, Shutdown(n)
        PROVE  workers'[p][u] \in {"settling", "running"}
    BY <2>0, <2>8 DEF Shutdown, PublishAll
  <2>9. ASSUME UNCHANGED <<tasks, workers, phase>>
        PROVE  workers'[p][u] \in {"settling", "running"}
    BY <2>0, <2>9
  <2>10. ASSUME NEW n \in Node, NEW m \in net, Ignore(n, m)
         PROVE  UNCHANGED <<tasks, workers, phase>>
    BY <2>10 DEF Ignore
  <2>11. Tick \/ UNCHANGED vars => UNCHANGED <<tasks, workers, phase>>
    BY DEF Tick, vars
  <2>12. ASSUME NEW n \in Node, NEW t \in Task
         PROVE  ~AwardClaim(n, t) /\ ~AwardRefused(n, t) /\ ~Restart(n)
    BY <2>0 DEF AwardClaim, AwardRefused, Restart
  <2> QED
    BY <2>1, <2>2, <2>3, <2>4, <2>5, <2>6, <2>7, <2>8, <2>9, <2>10, <2>11,
       <2>12 DEF Next, Work, Deliver
<1> QED
  BY <1>1, <1>2, InductiveInvariant, PTL DEF Spec

-----------------------------------------------------------------------------
(* Agreement.                                                              *)
(*                                                                         *)
(* Whatever is known of a job is no news to a node, or is in an update the *)
(* node has not received, and may never receive; and what is no news to it *)
(* once does not become news to it again, as its entry only moves forward. *)

\* There is an update with this record for p that p has not received.
Owed(p, t, r) == \E m \in net : m.to = p /\ m.task = t /\ m.rec = r

AllOwed ==
    \A t \in Task, p \in Node : \A r \in Known(t) :
        \/ r.status = "absent"
        \/ ~Supersedes(tasks[p][t], r)
        \/ Owed(p, t, r)

\* A step after which all other nodes are owed a new record, and which
\* forgets only updates that have had their effect.
Gossiped ==
    /\ \A m \in net \ net' : ~Supersedes(tasks'[m.to][m.task], m.rec)
    /\ \A t \in Task, n \in Node :
          \/ tasks'[n][t] \in Known(t)
          \/ \A p \in Node \ {n} : Owed(p, t, tasks[n][t])'

LEMMA PublishGossiped ==
    ASSUME TypeOK, NEW n \in Node, NEW t \in Task, NEW rec, Publish(n, t, rec)
    PROVE  Gossiped
<1>1. net' = net \cup Copies(Node \ {n}, t, rec, GossipHops)
  BY DEF Publish, Peers
<1>2. /\ \A p \in Node \ {n} : tasks'[p] = tasks[p]
      /\ \A u \in Task \ {t} : tasks'[n][u] = tasks[n][u]
      /\ tasks'[n][t] = rec
  BY DEF Publish, TypeOK
<1>3. ASSUME NEW p \in Node \ {n} PROVE Owed(p, t, rec)'
  <2>1. [to |-> p, task |-> t, rec |-> rec, hops |-> GossipHops] \in net'
    BY <1>1 DEF Copies
  <2> QED
    BY <2>1 DEF Owed
<1>4. \A u \in Task, p \in Node : tasks[p][u] \in Known(u)
  BY KnownFacts
<1>5. net \subseteq net'
  BY <1>1
<1>6. ASSUME NEW u \in Task, NEW q \in Node, tasks'[q][u] \notin Known(u),
             NEW p \in Node \ {q}
      PROVE  Owed(p, u, tasks[q][u])'
  <2>1. tasks'[q][u] # tasks[q][u]
    BY <1>4, <1>6
  <2>2. q = n /\ u = t /\ tasks'[q][u] = rec
    BY <1>2, <2>1
  <2> QED
    BY <1>3, <1>6, <2>2 DEF Owed
<1> QED
  BY <1>5, <1>6 DEF Gossiped

LEMMA PublishAllGossiped ==
    ASSUME TypeOK, NEW n \in Node, NEW T \in SUBSET Task, NEW new,
           PublishAll(n, T, new)
    PROVE  Gossiped
<1>1. net' = net \cup UNION {Copies(Node \ {n}, t, new[t], GossipHops) : t \in T}
  BY DEF PublishAll, Peers
<1>2. /\ \A p \in Node \ {n} : tasks'[p] = tasks[p]
      /\ \A u \in Task \ T : tasks'[n][u] = tasks[n][u]
      /\ \A u \in T : tasks'[n][u] = new[u]
  BY DEF PublishAll, TypeOK
<1>3. ASSUME NEW u \in T, NEW p \in Node \ {n} PROVE Owed(p, u, new[u])'
  <2>1. [to |-> p, task |-> u, rec |-> new[u], hops |-> GossipHops] \in net'
    BY <1>1 DEF Copies
  <2> QED
    BY <2>1 DEF Owed
<1>4. \A u \in Task, p \in Node : tasks[p][u] \in Known(u)
  BY KnownFacts
<1>5. net \subseteq net'
  BY <1>1
<1>6. ASSUME NEW u \in Task, NEW q \in Node, tasks'[q][u] \notin Known(u),
             NEW p \in Node \ {q}
      PROVE  Owed(p, u, tasks[q][u])'
  <2>1. tasks'[q][u] # tasks[q][u]
    BY <1>4, <1>6
  <2>2. q = n /\ u \in T /\ tasks'[q][u] = new[u]
    BY <1>2, <2>1
  <2> QED
    BY <1>3, <1>6, <2>2 DEF Owed
<1> QED
  BY <1>5, <1>6 DEF Gossiped

\* An incoming copy has had its effect, adopted or not.
LEMMA DeliverGossiped ==
    ASSUME TypeOK, NoAbsentInFlight, NEW n \in Node, NEW m \in net,
           Adopt(n, m) \/ Ignore(n, m)
    PROVE  Gossiped
<1>0. m.to = n /\ m.task \in Task /\ \A u \in Task, p \in Node : tasks[p][u] \in Known(u)
  BY KnownFacts DEF Adopt, Ignore, TypeOK, Message
<1>1. \A k \in net \ net' : k = m
  BY DEF Adopt, Ignore
<1>2. CASE Adopt(n, m)
  <2>1. /\ \A p \in Node \ {n} : tasks'[p] = tasks[p]
        /\ \A u \in Task \ {m.task} : tasks'[n][u] = tasks[n][u]
        /\ m.rec \in Known(m.task) /\ m.rec.status # "absent"
        /\ tasks'[n][m.task] = m.rec
    BY <1>2, AdoptLocal DEF LocalStep
  <2>2. m.rec.version \in Nat
    BY DEF TypeOK, Message, TaskRecord
  <2>3. ~Supersedes(m.rec, m.rec)
    BY <2>1, <2>2 DEF Supersedes
  <2> QED
    BY <1>0, <1>1, <2>1, <2>3 DEF Gossiped
<1>3. CASE Ignore(n, m)
  BY <1>0, <1>1, <1>3 DEF Ignore, Gossiped
<1> QED
  BY <1>2, <1>3

LEMMA NextIsGossiped ==
    ASSUME "torn_persist" \notin Faults, IInv, Next
    PROVE  Gossiped
<1>0. TypeOK /\ NoAbsentInFlight
  BY DEF IInv, LedgerInv
<1>1. CASE UNCHANGED <<tasks, net>>
  BY <1>0, <1>1, KnownFacts DEF Gossiped
<1>2. ASSUME NEW n \in Node, NEW t \in Task, NEW rec, Publish(n, t, rec) PROVE Gossiped
  BY <1>0, <1>2, PublishGossiped
<1>3. ASSUME NEW n \in Node, NEW t \in Task,
             \/ Submit(n, t) \/ ScanClaim(n, t) \/ AwardClaim(n, t)
             \/ Complete(n, t) \/ ReleaseLease(n, t) \/ RenewLease(n, t)
      PROVE  Gossiped
  BY <1>2, <1>3 DEF Submit, ScanClaim, AwardClaim, Complete, ReleaseLease, RenewLease
<1>4. ASSUME NEW n \in Node, Restart(n) \/ Shutdown(n) PROVE Gossiped
  <2>1. PICK new : PublishAll(n, MyTasks(n), new)
    BY <1>4 DEF Restart, Shutdown
  <2>2. MyTasks(n) \in SUBSET Task
    BY DEF MyTasks
  <2> QED
    BY <1>0, <2>1, <2>2, PublishAllGossiped
<1>5. ASSUME NEW n \in Node, Deliver(n) PROVE Gossiped
  BY <1>0, <1>5, DeliverGossiped DEF Deliver
<1>6. ASSUME NEW n \in Node, NEW t \in Task,
             \/ AwardRefused(n, t) \/ VerifyLease(n, t)
             \/ LostLease(n, t) \/ WorkerExit(n, t)
      PROVE  UNCHANGED <<tasks, net>>
  BY <1>6 DEF AwardRefused, VerifyLease, LostLease, WorkerExit
<1>7. ASSUME NEW n \in Node, Crash(n) \/ Exit(n) PROVE UNCHANGED <<tasks, net>>
  BY <1>7 DEF Crash, Exit
<1>8. Tick => UNCHANGED <<tasks, net>>
  BY DEF Tick
<1> QED
  BY <1>1, <1>3, <1>4, <1>5, <1>6, <1>7, <1>8 DEF Next, Work

\* What is not news to a node does not become news.
LEMMA StaysKnown ==
    ASSUME TypeOK, TypeOK', LedgerInv, NEW n \in Node, LedgerStep(n),
           NEW p \in Node, NEW t \in Task, NEW r \in TaskRecord,
           ~Supersedes(tasks[p][t], r)
    PROVE  ~Supersedes(tasks'[p][t], r)
<1> DEFINE old == tasks[p][t]
           new == tasks'[p][t]
<1>1. old \in TaskRecord /\ new \in TaskRecord
  BY DEF TypeOK
<1>2. CASE new = old
  BY <1>2
<1>3. CASE new # old
  <2>1. p = n /\ RecordStep(p, t)
    BY <1>3 DEF LedgerStep, LocalStep
  <2>2. /\ new.status # "absent"
        /\ new.version > old.version \/ new.status = "completed"
    BY <1>3, <2>1, ForwardStep
  <2>3. old.status # "completed"
    BY <1>3, <2>1, StickyStep
  <2>4. old.version \in Nat /\ new.version \in Nat /\ r.version \in Nat
    BY <1>1 DEF TaskRecord
  <2> HIDE DEF old, new
  <2>5. ~Supersedes(old, r)
    BY DEF old
  <2>6. ~Supersedes(new, r)
    BY <2>2, <2>3, <2>4, <2>5 DEF Supersedes
  <2> QED
    BY <2>6 DEF new
<1> QED
  BY <1>2, <1>3

LEMMA OwedStep ==
    ASSUME TypeOK, TypeOK', LedgerInv, AllOwed, Gossiped,
           NEW n \in Node, LedgerStep(n)
    PROVE  AllOwed'
<1> SUFFICES ASSUME NEW t \in Task, NEW p \in Node, NEW r \in Known(t)',
                    r.status # "absent", Supersedes(tasks'[p][t], r)
             PROVE  Owed(p, t, r)'
  BY DEF AllOwed
<1>1. CASE r \in Known(t)
  <2>1. r \in TaskRecord
    BY <1>1, KnownFacts
  <2>2. Supersedes(tasks[p][t], r)
    BY <2>1, StaysKnown
  <2>3. PICK m \in net : m.to = p /\ m.task = t /\ m.rec = r
    BY <1>1, <2>2 DEF AllOwed, Owed
  <2>4. m \in net'
    BY <2>3 DEF Gossiped
  <2> QED
    BY <2>3, <2>4 DEF Owed
<1>2. CASE r \notin Known(t)
  <2>1. r = tasks'[n][t]
    BY <1>2 DEF LedgerStep, LocalStep
  <2>2. r.version \in Nat
    BY <2>1 DEF TypeOK, TaskRecord
  <2>3. ~Supersedes(r, r)
    BY <2>2 DEF Supersedes
  <2>4. p # n
    BY <2>1, <2>3
  <2> QED
    BY <1>2, <2>1, <2>4 DEF Gossiped, Owed
<1> QED
  BY <1>1, <1>2

\* Whatever was lost, skipped by the fanout or cut off by a crash: where two
\* ledgers differ by more than a tie, one node has yet to receive an update
\* that would be news to it.  Merging in any order loses nothing.
THEOREM LedgersAgreeSafe ==
    ASSUME "torn_persist" \notin Faults PROVE Spec => []LedgersAgree
<1>1. Init => AllOwed
  BY DEF Init, AllOwed, Known, Absent
<1>2. TypeOK /\ TypeOK' /\ IInv /\ AllOwed /\ [Next]_vars => AllOwed'
  <2> SUFFICES ASSUME TypeOK, TypeOK', IInv, AllOwed, [Next]_vars PROVE AllOwed'
    OBVIOUS
  <2>1. CASE UNCHANGED <<tasks, net>>
    BY <2>1 DEF AllOwed, Known, Owed
  <2>2. CASE Next
    <3>1. LedgerInv /\ Gossiped
      BY <2>2, NextIsGossiped DEF IInv
    <3> QED
      BY <2>1, <2>2, <3>1, NextIsLedgerStep, OwedStep
  <2> QED
    BY <2>1, <2>2 DEF vars
<1>3. TypeOK /\ IInv /\ AllOwed => LedgersAgree
  <2> SUFFICES ASSUME TypeOK, LedgerInv, AllOwed, Quiescent,
                      NEW t \in Task, NEW m \in Node, NEW n \in Node,
                      tasks[m][t] # tasks[n][t]
               PROVE  /\ tasks[m][t].leased_by # tasks[n][t].leased_by
                      /\ \/ tasks[m][t].version = tasks[n][t].version
                         \/ /\ tasks[m][t].status = "completed"
                            /\ tasks[n][t].status = "completed"
    BY DEF LedgersAgree, IInv
  <2> DEFINE r == tasks[m][t]
             s == tasks[n][t]
  <2>1. /\ r \in Known(t) /\ r \in TaskRecord /\ WellFormed(r)
        /\ s \in Known(t) /\ s \in TaskRecord /\ WellFormed(s)
    BY KnownFacts DEF LedgerInv, RecordsWellFormed
  <2>2. ASSUME NEW p \in Node, NEW q \in Known(t), q.status # "absent"
        PROVE  ~Supersedes(tasks[p][t], q)
    BY <2>2 DEF AllOwed, Quiescent, Owed
  <2>3. /\ r.status # "absent" => ~Supersedes(s, r)
        /\ s.status # "absent" => ~Supersedes(r, s)
    BY <2>1, <2>2
  <2> HIDE DEF r, s
  <2>4. r # s
    BY DEF r, s
  <2>5. r.status # "absent" /\ s.status # "absent"
    BY <2>1, <2>3, <2>4 DEF Supersedes, WellFormed
  <2>6. r.version \in Nat /\ s.version \in Nat
    BY <2>1 DEF TaskRecord
  <2>7. CASE r.status = "completed" \/ s.status = "completed"
    <3>1. r.status = "completed" /\ s.status = "completed"
      BY <2>3, <2>5, <2>7 DEF Supersedes
    <3>2. /\ \E p \in Node : r.leased_by = p /\ tasks[p][t] = r
          /\ \E p \in Node : s.leased_by = p /\ tasks[p][t] = s
      BY <2>1, <3>1 DEF LedgerInv, ProducerKeepsResult
    <3> QED
      BY <2>4, <3>1, <3>2 DEF r, s
  <2>8. CASE r.status # "completed" /\ s.status # "completed"
    <3>1. r.version = s.version
      BY <2>3, <2>5, <2>6, <2>8 DEF Supersedes
    <3>2. r.leased_by # s.leased_by
      BY <2>1, <2>4, <3>1 DEF LedgerInv, VersionIdentifiesUpdate
    <3> QED
      BY <3>1, <3>2 DEF r, s
  <2> QED
    BY <2>7, <2>8
<1> QED
  BY <1>1, <1>2, <1>3, TypeCorrect, InductiveInvariant, PTL DEF Spec

-----------------------------------------------------------------------------
(* When ledger files can be torn.                                          *)
(*                                                                         *)
(* A node that has lost its file has forgotten leases and results that are *)
(* still in messages, and LedgerInv fails: it may take part in a job that  *)
(* is completed, under a lease it does not know it held.  What is left is  *)
(* enough to tell which of its entries a step can touch.                   *)

EntriesPlain ==
    \A t \in Task : \A r \in Known(t) :
        /\ r.status = "absent" => r = Absent
        /\ r.status # "absent" => r.version >= 1

TornInv == TypeOK /\ EntriesPlain /\ NoAbsentInFlight /\ UnsubmittedUnknown

\* A RecordStep, but for the lease: it may be on any record that names n.
LooseStep(n, t) ==
    \/ tasks'[n][t] = tasks[n][t]
    \/ /\ t \in submitted' \ submitted
       /\ tasks'[n][t] = NewTask
    \/ /\ tasks'[n][t] \in Known(t)
       /\ tasks'[n][t].status # "absent"
       /\ Supersedes(tasks[n][t], tasks'[n][t])
    \/ /\ CanClaim(tasks[n][t], now)
       /\ tasks'[n][t] = Claimed(tasks[n][t], n, now)
    \/ /\ tasks[n][t].leased_by = n
       /\ \/ tasks'[n][t] = Renewed(tasks[n][t], now)
          \/ tasks'[n][t] = Released(tasks[n][t])
          \/ tasks'[n][t] = Completed(tasks[n][t], n)

LooseLedgerStep(n) == LocalStep(n) /\ \A t \in Task : LooseStep(n, t)

\* A changed record moves forward, and it was no result of another node.
LEMMA LooseForward ==
    ASSUME TornInv, NEW n \in Node, NEW t \in Task, LooseStep(n, t),
           tasks'[n][t] # tasks[n][t]
    PROVE  /\ tasks[n][t].status = "completed" => tasks[n][t].leased_by = n
           /\ tasks'[n][t].version >= 1
           /\ tasks'[n][t].status # "absent"
           /\ \/ tasks'[n][t].version > tasks[n][t].version
              \/ tasks'[n][t].status = "completed"
<1> DEFINE old == tasks[n][t]
           new == tasks'[n][t]
<1>0. /\ old \in TaskRecord /\ old \in Known(t)
      /\ old.status = "absent" => old = Absent
      /\ \A r \in Known(t) : r \in TaskRecord /\ (r.status # "absent" => r.version >= 1)
  BY KnownFacts DEF TornInv, EntriesPlain
<1>1. old.version \in Nat
  BY <1>0 DEF TaskRecord
<1>2. old.status = "absent" => old.version = 0 /\ old.leased_by = NoNode
  BY <1>0 DEF Absent
<1>3. CASE t \in submitted' \ submitted /\ new = NewTask
  <2>1. old.status = "absent"
    BY <1>0, <1>3 DEF TornInv, UnsubmittedUnknown
  <2> QED
    BY <1>2, <1>3, <2>1 DEF NewTask
<1>4. CASE new \in Known(t) /\ new.status # "absent" /\ Supersedes(old, new)
  <2>1. new.version \in Nat /\ new.version >= 1
    BY <1>0, <1>4 DEF TaskRecord
  <2> QED
    BY <1>1, <1>2, <1>4, <2>1 DEF Supersedes
<1>5. CASE CanClaim(old, now) /\ new = Claimed(old, n, now)
  BY <1>1, <1>5 DEF Claimed, CanClaim
<1>6. CASE /\ old.leased_by = n
           /\ \/ new = Renewed(old, now) \/ new = Released(old)
              \/ new = Completed(old, n)
  <2>1. old.status # "absent"
    BY <1>2, <1>6, NodeAssumption
  <2> QED
    BY <1>1, <1>6, <2>1 DEF Renewed, Released, Completed
<1> QED
  BY <1>3, <1>4, <1>5, <1>6 DEF LooseStep

\* The invariant is kept by a LooseLedgerStep.
LEMMA TornStep ==
    ASSUME TornInv, TypeOK', NEW n \in Node, LooseLedgerStep(n)
    PROVE  TornInv'
<1>1. EntriesPlain'
  <2> SUFFICES ASSUME NEW t \in Task, NEW r \in Known(t)'
               PROVE  /\ r.status = "absent" => r = Absent
                      /\ r.status # "absent" => r.version >= 1
    BY DEF EntriesPlain
  <2>1. CASE r \in Known(t)
    BY <2>1 DEF TornInv, EntriesPlain
  <2>2. CASE r = tasks'[n][t] /\ r \notin Known(t)
    <3>1. tasks[n][t] \in Known(t) /\ LooseStep(n, t)
      BY KnownFacts DEF TornInv, LooseLedgerStep
    <3> QED
      BY <2>2, <3>1, LooseForward
  <2> QED
    BY <2>1, <2>2, KnownAfter DEF LooseLedgerStep
<1>2. NoAbsentInFlight'
  BY DEF LooseLedgerStep, LocalStep, TornInv, NoAbsentInFlight
<1>3. UnsubmittedUnknown'
  <2> SUFFICES ASSUME NEW t \in Task \ submitted', NEW r \in Known(t)'
               PROVE  r.status = "absent"
    BY DEF UnsubmittedUnknown
  <2>1. t \in Task \ submitted /\ LooseStep(n, t)
    BY DEF LooseLedgerStep, LocalStep
  <2>2. \A q \in Known(t) : q.status = "absent" /\ q = Absent
    BY <2>1 DEF TornInv, UnsubmittedUnknown, EntriesPlain
  <2>3. tasks[n][t] \in Known(t)
    BY KnownFacts DEF TornInv
  <2>4. tasks[n][t].status = "absent" /\ tasks[n][t].leased_by = NoNode
    BY <2>2, <2>3 DEF Absent
  <2>5. tasks'[n][t] = tasks[n][t]
    BY <2>1, <2>2, <2>4, NodeAssumption DEF LooseStep, CanClaim
  <2> QED
    BY <2>2, <2>3, <2>5, KnownAfter DEF LooseLedgerStep
<1> QED
  BY <1>1, <1>2, <1>3 DEF TornInv

\* A crash, with or without the file.
LEMMA TornCrash ==
    ASSUME TornInv, TypeOK', NEW n \in Node, Crash(n)
    PROVE  TornInv' /\ phase'[n] # phase[n] /\ \A p \in Node \ {n} : tasks'[p] = tasks[p]
<1>1. /\ net' = net /\ submitted' = submitted
      /\ phase'[n] # phase[n]
      /\ \A p \in Node \ {n} : tasks'[p] = tasks[p]
      /\ \/ tasks' = tasks
         \/ \A t \in Task : tasks'[n][t] = Absent
  BY DEF Crash, Alive, TornInv, TypeOK
<1>2. \A t \in Task : Known(t)' \subseteq Known(t) \cup {Absent}
  BY <1>1 DEF Known
<1>3. Absent.status = "absent"
  BY DEF Absent
<1> QED
  BY <1>1, <1>2, <1>3 DEF TornInv, EntriesPlain, NoAbsentInFlight, UnsubmittedUnknown

\* Every other step is a LooseLedgerStep, or leaves the ledgers alone.
LEMMA NextIsLoose ==
    ASSUME TornInv, Next
    PROVE  \/ \E n \in Node : LooseLedgerStep(n)
           \/ \E n \in Node : Crash(n)
           \/ UNCHANGED <<tasks, net, submitted>>
<1> USE BoundAssumption
<1>0. TypeOK /\ now \in Nat /\ \A n \in Node, t \in Task : tasks[n][t] \in TaskRecord
  BY DEF TornInv, TypeOK
<1>1. ASSUME NEW n \in Node, NEW t \in Task, Submit(n, t) PROVE LooseLedgerStep(n)
  <2>1. NewTask \in TaskRecord /\ NewTask.status # "absent"
    BY <1>0, OperationTypes DEF NewTask
  <2>2. Publish(n, t, NewTask) /\ submitted \subseteq submitted'
        /\ t \in submitted' \ submitted
    BY <1>1 DEF Submit
  <2> QED
    BY <1>0, <2>1, <2>2, PublishLocal DEF LooseLedgerStep, LooseStep
<1>2. ASSUME NEW n \in Node, NEW t \in Task, ScanClaim(n, t) \/ AwardClaim(n, t)
      PROVE  LooseLedgerStep(n)
  <2> DEFINE rec == Claimed(tasks[n][t], n, now)
  <2>1. rec \in TaskRecord /\ rec.status # "absent"
    BY <1>0, OperationTypes DEF Claimed
  <2>2. CanClaim(tasks[n][t], now) /\ Publish(n, t, rec) /\ submitted' = submitted
    BY <1>2 DEF ScanClaim, AwardClaim, CanClaim, Claimable
  <2> HIDE DEF rec
  <2>3. /\ LocalStep(n)
        /\ \A u \in Task \ {t} : tasks'[n][u] = tasks[n][u]
        /\ tasks'[n][t] = rec
    BY <1>0, <2>1, <2>2, PublishLocal
  <2> QED
    BY <2>2, <2>3 DEF LooseLedgerStep, LooseStep, rec
<1>3. ASSUME NEW n \in Node, NEW t \in Task,
             Complete(n, t) \/ ReleaseLease(n, t) \/ RenewLease(n, t)
      PROVE  LooseLedgerStep(n)
  <2>1. PICK rec \in {Completed(tasks[n][t], n), Released(tasks[n][t]), Renewed(tasks[n][t], now)} :
           Publish(n, t, rec) /\ rec.status # "absent"
    BY <1>3 DEF Complete, ReleaseLease, RenewLease, NeedsRenewal, HeldBy,
       Completed, Released, Renewed
  <2>2. rec \in TaskRecord
    BY <1>0, OperationTypes
  <2>3. tasks[n][t].leased_by = n /\ submitted' = submitted
    BY <1>3 DEF Complete, ReleaseLease, RenewLease, NeedsRenewal, HeldBy
  <2>4. /\ LocalStep(n)
        /\ \A u \in Task \ {t} : tasks'[n][u] = tasks[n][u]
        /\ tasks'[n][t] = rec
    BY <1>0, <2>1, <2>2, <2>3, PublishLocal
  <2> QED
    BY <2>3, <2>4 DEF LooseLedgerStep, LooseStep
<1>4. ASSUME NEW n \in Node, Restart(n) \/ Shutdown(n) PROVE LooseLedgerStep(n)
  <2> DEFINE T == MyTasks(n)
  <2>1. T \in SUBSET Task /\ \A t \in T : HeldBy(tasks[n][t], n)
    BY DEF MyTasks
  <2>2. PICK new \in [T -> TaskRecord] :
           /\ PublishAll(n, T, new)
           /\ \A t \in T : new[t] \in {Renewed(tasks[n][t], now), Released(tasks[n][t])}
    <3> DEFINE fresh == [t \in T |-> Renewed(tasks[n][t], now)]
               freed == [t \in T |-> Released(tasks[n][t])]
    <3>1. fresh \in [T -> TaskRecord] /\ freed \in [T -> TaskRecord]
      BY <1>0, <2>1, OperationTypes
    <3>2. \A t \in T : fresh[t] = Renewed(tasks[n][t], now) /\ freed[t] = Released(tasks[n][t])
      OBVIOUS
    <3>3. PublishAll(n, T, fresh) \/ PublishAll(n, T, freed)
      BY <1>4 DEF Restart, Shutdown
    <3> HIDE DEF fresh, freed
    <3> QED
      BY <3>1, <3>2, <3>3
  <2>3. \A t \in T : new[t].status # "absent"
    BY <2>1, <2>2 DEF Renewed, Released, HeldBy
  <2>4. submitted \subseteq submitted'
    BY <1>4 DEF Restart, Shutdown
  <2> HIDE DEF T
  <2>5. /\ LocalStep(n)
        /\ \A u \in Task \ T : tasks'[n][u] = tasks[n][u]
        /\ \A u \in T : tasks'[n][u] = new[u]
    BY <1>0, <2>1, <2>2, <2>3, <2>4, PublishAllLocal
  <2>6. ASSUME NEW u \in Task PROVE LooseStep(n, u)
    BY <2>1, <2>2, <2>5 DEF LooseStep, HeldBy
  <2> QED
    BY <2>5, <2>6 DEF LooseLedgerStep
<1>5. ASSUME NEW n \in Node, NEW m \in net, Adopt(n, m) PROVE LooseLedgerStep(n)
  <2>1. TypeOK /\ NoAbsentInFlight /\ Supersedes(tasks[n][m.task], m.rec)
    BY <1>5 DEF Adopt, TornInv
  <2>2. /\ LocalStep(n)
        /\ \A u \in Task \ {m.task} : tasks'[n][u] = tasks[n][u]
        /\ m.rec \in Known(m.task) /\ m.rec.status # "absent"
        /\ tasks'[n][m.task] = m.rec
    BY <1>5, <2>1, AdoptLocal
  <2> QED
    BY <2>1, <2>2 DEF LooseLedgerStep, LooseStep
<1>6. ASSUME NEW n \in Node, NEW m \in net, Ignore(n, m) PROVE LooseLedgerStep(n)
  BY <1>6 DEF Ignore, LooseLedgerStep, LooseStep, LocalStep, Known
<1>7. ASSUME NEW n \in Node, NEW t \in Task,
             \/ AwardRefused(n, t) \/ VerifyLease(n, t)
             \/ LostLease(n, t) \/ WorkerExit(n, t)
      PROVE  UNCHANGED <<tasks, net, submitted>>
  BY <1>7 DEF AwardRefused, VerifyLease, LostLease, WorkerExit
<1>8. ASSUME NEW n \in Node, Exit(n) PROVE UNCHANGED <<tasks, net, submitted>>
  BY <1>8 DEF Exit
<1>9. Tick => UNCHANGED <<tasks, net, submitted>>
  BY DEF Tick
<1> QED
  BY <1>1, <1>2, <1>3, <1>4, <1>5, <1>6, <1>7, <1>8, <1>9 DEF Next, Work, Deliver

\* Whatever the faults, torn files included.
LEMMA TornInvariant == Spec => []TornInv
<1>1. TypeOK /\ Init => TornInv
  <2> SUFFICES ASSUME TypeOK, Init PROVE TornInv
    OBVIOUS
  <2>1. (\A t \in Task : \A r \in Known(t) : r = Absent) /\ net = {}
    BY DEF Init, Known
  <2>2. Absent.status = "absent"
    BY DEF Absent
  <2> QED
    BY <2>1, <2>2 DEF TornInv, EntriesPlain, NoAbsentInFlight, UnsubmittedUnknown
<1>2. TypeOK' /\ TornInv /\ [Next]_vars => TornInv'
  <2> SUFFICES ASSUME TypeOK', TornInv, [Next]_vars PROVE TornInv'
    OBVIOUS
  <2>1. ASSUME UNCHANGED <<tasks, net, submitted>> PROVE TornInv'
    BY <2>1 DEF TornInv, EntriesPlain, NoAbsentInFlight, UnsubmittedUnknown, Known
  <2>2. CASE Next
    BY <2>1, <2>2, NextIsLoose, TornStep, TornCrash
  <2>3. CASE UNCHANGED vars
    BY <2>1, <2>3 DEF vars
  <2> QED
    BY <2>2, <2>3
<1> QED
  BY <1>1, <1>2, TypeCorrect, PTL DEF Spec

\* Whatever is lost with a torn file, a node that is running overwrites no
\* result of a peer, and none of its entries falls back.
THEOREM PeerResultsStand == Spec => PeerResultsSafe
<1>1. TornInv /\ [Next]_vars =>
        [\A n \in Node, t \in Task :
          phase'[n] = phase[n] /\ tasks'[n][t] # tasks[n][t] =>
             /\ tasks[n][t].status = "completed" => tasks[n][t].leased_by = n
             /\ \/ tasks'[n][t].version > tasks[n][t].version
                \/ tasks'[n][t].status = "completed"]_vars
  <2> SUFFICES ASSUME TornInv, Next, NEW n \in Node, NEW t \in Task,
                      phase'[n] = phase[n], tasks'[n][t] # tasks[n][t]
               PROVE  /\ tasks[n][t].status = "completed" => tasks[n][t].leased_by = n
                      /\ \/ tasks'[n][t].version > tasks[n][t].version
                         \/ tasks'[n][t].status = "completed"
    OBVIOUS
  <2>1. ASSUME NEW p \in Node, Crash(p) PROVE FALSE
    BY <2>1 DEF Crash, Alive, TornInv, TypeOK
  <2>2. PICK p \in Node : LooseLedgerStep(p)
    BY <2>1, NextIsLoose
  <2>3. p = n /\ LooseStep(n, t)
    BY <2>2 DEF LooseLedgerStep, LocalStep
  <2> QED
    BY <2>3, LooseForward
<1> QED
  BY <1>1, TornInvariant, PTL DEF Spec, PeerResultsSafe
=============================================================================
