-------------------------- MODULE LedgerRefinement --------------------------
(***************************************************************************)
(* The replicated ledger implements the job board, for any number of nodes *)
(* and tasks: every initial state maps to an initial state, and every step *)
(* to a step of the board or to a stutter.                                 *)
(*                                                                         *)
(* A step changes the board only if it submits a job (Post), completes one *)
(* (Finish) or adopts a completed record (Learn).  The inductive invariant *)
(* of LedgerGossipProofs supplies what the guards of the board ask for: a  *)
(* submission finds no entry, a completion meets an open record, and the   *)
(* author of a completed copy still has it.                                *)
(***************************************************************************)
EXTENDS LedgerGossipProofs

Answers == [n \in Node |-> [t \in Task |-> Outcome(n, t)]]

\* The board does not change when no outcome does.
LEMMA OutcomesStay ==
    ASSUME \A n \in Node, t \in Task : Outcome(n, t)' = Outcome(n, t)
    PROVE  Answers' = Answers
BY DEF Answers

\* One outcome changes: one register of the board is written.
LEMMA OutcomeWritten ==
    ASSUME NEW n \in Node, NEW t \in Task, NEW value,
           Outcome(n, t)' = value,
           \A p \in Node, u \in Task :
               (p # n \/ u # t) => Outcome(p, u)' = Outcome(p, u)
    PROVE  Answers' = [Answers EXCEPT ![n][t] = value]
<1>1. ASSUME NEW p \in Node, NEW u \in Task
      PROVE  Answers'[p][u] = [Answers EXCEPT ![n][t] = value][p][u]
  BY <1>1 DEF Answers
<1>2. /\ Answers' = [p \in Node |-> [u \in Task |-> Answers'[p][u]]]
      /\ [Answers EXCEPT ![n][t] = value] =
            [p \in Node |-> [u \in Task |->
                [Answers EXCEPT ![n][t] = value][p][u]]]
  BY DEF Answers
<1> QED
  BY <1>1, <1>2

\* A ledger whose one record changes has one outcome to look at.
LEMMA OneRecord ==
    ASSUME TypeOK, NEW n \in Node, NEW t \in Task, NEW rec,
           tasks' = [tasks EXCEPT ![n][t] = rec]
    PROVE  /\ tasks'[n][t] = rec
           /\ \A p \in Node, u \in Task :
                 (p # n \/ u # t) => Outcome(p, u)' = Outcome(p, u)
BY DEF TypeOK, Outcome

\* A record that is open before and after leaves the board alone.
LEMMA OpenRecordStep ==
    ASSUME TypeOK, NEW n \in Node, NEW t \in Task, NEW rec,
           tasks' = [tasks EXCEPT ![n][t] = rec],
           tasks[n][t].status # "completed", rec.status # "completed"
    PROVE  Answers' = Answers
<1>1. tasks'[n][t] = rec
  BY DEF TypeOK
<1>2. Outcome(n, t)' = Outcome(n, t)
  BY <1>1 DEF Outcome
<1>3. \A p \in Node, u \in Task :
         (p # n \/ u # t) => Outcome(p, u)' = Outcome(p, u)
  BY OneRecord
<1> QED
  BY <1>2, <1>3, OutcomesStay

\* So do several records of one node that are open before and after.
LEMMA OpenRecordsStep ==
    ASSUME TypeOK, NEW n \in Node, NEW T \in SUBSET Task, NEW new,
           PublishAll(n, T, new),
           \A t \in T : tasks[n][t].status # "completed"
                        /\ new[t].status # "completed"
    PROVE  Answers' = Answers
<1>1. ASSUME NEW p \in Node, NEW t \in Task
      PROVE  Outcome(p, t)' = Outcome(p, t)
  BY DEF PublishAll, TypeOK, Outcome
<1> QED
  BY <1>1, OutcomesStay

-----------------------------------------------------------------------------
(* The three steps of the board.                                           *)

\* A submission posts a job.
LEMMA SubmitPosts ==
    ASSUME IInv, NEW n \in Node, NEW t \in Task, Submit(n, t)
    PROVE  Board!Post(t)
<1>1. tasks[n][t].status = "absent"
  BY DEF Submit, IInv, LedgerInv, UnsubmittedUnknown, Known
<1>2. Answers' = Answers
  <2>1. TypeOK /\ tasks' = [tasks EXCEPT ![n][t] = NewTask]
    BY DEF Submit, Publish, IInv
  <2>2. NewTask.status # "completed" /\ tasks[n][t].status # "completed"
    BY <1>1 DEF NewTask
  <2> QED
    BY <2>1, <2>2, OpenRecordStep
<1> QED
  BY <1>2 DEF Submit, Board!Post, Answers

\* A completion writes the provider's own register, once.
LEMMA CompleteFinishes ==
    ASSUME IInv, NEW n \in Node, NEW t \in Task, Complete(n, t)
    PROVE  Board!Finish(n, t)
<1> DEFINE rec == Completed(tasks[n][t], n)
<1>0. TypeOK
  BY DEF IInv
<1>1. HeldBy(tasks[n][t], n)
  BY WorkingMeansHeld DEF Complete
<1>2. tasks' = [tasks EXCEPT ![n][t] = rec]
  BY DEF Complete, Publish
<1>3. Outcome(n, t)' = n
  <2>1. tasks'[n][t] = rec
    BY <1>0, <1>2 DEF TypeOK
  <2> QED
    BY <2>1 DEF Outcome, Completed
<1>4. Answers' = [Answers EXCEPT ![n][t] = n]
  <2>1. \A p \in Node, u \in Task :
           (p # n \/ u # t) => Outcome(p, u)' = Outcome(p, u)
    <3> HIDE DEF rec
    <3> QED
      BY <1>0, <1>2, OneRecord
  <2> QED
    BY <1>3, <2>1, OutcomeWritten
<1>5. Answers[n][t] = NoNode
  BY <1>1 DEF Answers, Outcome, HeldBy
<1>6. t \in submitted
  <2>1. tasks[n][t] \in Known(t) /\ tasks[n][t].status # "absent"
    BY <1>1 DEF Known, HeldBy
  <2> QED
    BY <2>1 DEF IInv, LedgerInv, UnsubmittedUnknown
<1> QED
  BY <1>4, <1>5, <1>6 DEF Complete, Board!Finish, Answers

\* An adopted record brings nothing new, or the result of a provider that
\* has it.
LEMMA AdoptLearns ==
    ASSUME IInv, NEW n \in Node, NEW m \in net, Adopt(n, m)
    PROVE  \/ Answers' = Answers
           \/ \E author \in Node : Board!Learn(n, m.task, author)
<1>0. TypeOK /\ m.task \in Task /\ m.rec \in Known(m.task)
  BY DEF IInv, TypeOK, Message, Known
<1>1. tasks' = [tasks EXCEPT ![n][m.task] = m.rec]
  BY DEF Adopt
<1>2. tasks[n][m.task].status # "completed"
  BY DEF Adopt, Supersedes
<1>3. CASE m.rec.status # "completed"
  BY <1>0, <1>1, <1>2, <1>3, OpenRecordStep
<1>4. CASE m.rec.status = "completed"
  <2>1. PICK author \in Node : /\ m.rec.leased_by = author
                               /\ tasks[author][m.task] = m.rec
    BY <1>0, <1>4 DEF IInv, LedgerInv, ProducerKeepsResult
  <2>2. m.rec.result = author
    BY <1>0, <1>4, <2>1 DEF IInv, LedgerInv, ProducerKeepsResult
  <2>3. Outcome(n, m.task)' = author
    <3>1. tasks'[n][m.task] = m.rec
      BY <1>0, <1>1 DEF TypeOK
    <3> QED
      BY <1>4, <2>2, <3>1 DEF Outcome
  <2>4. Answers' = [Answers EXCEPT ![n][m.task] = author]
    <3>1. \A p \in Node, u \in Task :
             (p # n \/ u # m.task) => Outcome(p, u)' = Outcome(p, u)
      BY <1>0, <1>1, OneRecord
    <3> QED
      BY <1>0, <2>3, <3>1, OutcomeWritten
  <2>5. Answers[n][m.task] = NoNode /\ Answers[author][m.task] = author
    BY <1>0, <1>2, <1>4, <2>1, <2>2 DEF Answers, Outcome
  <2> QED
    BY <2>4, <2>5 DEF Adopt, Board!Learn, Answers
<1> QED
  BY <1>3, <1>4

-----------------------------------------------------------------------------
\* The ledger implements the job board as long as no write to a ledger file
\* is torn: crashes, restarts, shutdowns, takeovers, and lost or reordered
\* gossip do not show.
THEOREM LedgerImplementsBoard ==
    ASSUME "torn_persist" \notin Faults PROVE Spec => ImplementsJobBoard
<1>1. Init => Board!Init
  BY DEF Init, Board!Init, Outcome, Absent
<1>2. IInv /\ [Next]_vars => [Board!Next]_(Board!vars)
  <2> SUFFICES ASSUME IInv, [Next]_vars PROVE [Board!Next]_(Board!vars)
    OBVIOUS
  <2>0. TypeOK
    BY DEF IInv
  <2>a. Answers' = Answers /\ UNCHANGED <<submitted, pushed>>
           => UNCHANGED Board!vars
    BY DEF Board!vars, Answers
  <2>1. ASSUME NEW n \in Node, NEW t \in Task, Submit(n, t)
        PROVE  Board!Next
    BY <2>1, SubmitPosts DEF Board!Next
  <2>2. ASSUME NEW n \in Node, NEW t \in Task, Complete(n, t)
        PROVE  Board!Next
    BY <2>2, CompleteFinishes DEF Board!Next
  <2>3. ASSUME NEW n \in Node, NEW m \in net, Adopt(n, m)
        PROVE  [Board!Next]_(Board!vars)
    <3>1. m.task \in Task /\ UNCHANGED <<submitted, pushed>>
      BY <2>0, <2>3 DEF TypeOK, Message, Adopt
    <3> QED
      BY <2>3, <2>a, <3>1, AdoptLearns DEF Board!Next
  <2>4. ASSUME NEW n \in Node, NEW t \in Task,
               ScanClaim(n, t) \/ AwardClaim(n, t)
        PROVE  UNCHANGED Board!vars
    <3>1. /\ tasks' = [tasks EXCEPT ![n][t] = Claimed(tasks[n][t], n, now)]
          /\ UNCHANGED <<submitted, pushed>>
      BY <2>4 DEF ScanClaim, AwardClaim, Publish
    <3>2. /\ tasks[n][t].status # "completed"
          /\ Claimed(tasks[n][t], n, now).status # "completed"
      BY <2>4 DEF ScanClaim, AwardClaim, CanClaim, Claimable, Claimed
    <3> QED
      BY <2>0, <2>a, <3>1, <3>2, OpenRecordStep
  <2>5. ASSUME NEW n \in Node, NEW t \in Task, ReleaseLease(n, t)
        PROVE  UNCHANGED Board!vars
    <3>1. /\ tasks' = [tasks EXCEPT ![n][t] = Released(tasks[n][t])]
          /\ UNCHANGED <<submitted, pushed>>
      BY <2>5 DEF ReleaseLease, Publish
    <3>2. /\ tasks[n][t].status # "completed"
          /\ Released(tasks[n][t]).status # "completed"
      BY <2>5, WorkingMeansHeld DEF ReleaseLease, Released, HeldBy
    <3> QED
      BY <2>0, <2>a, <3>1, <3>2, OpenRecordStep
  <2>6. ASSUME NEW n \in Node, NEW t \in Task, RenewLease(n, t)
        PROVE  UNCHANGED Board!vars
    <3>1. /\ tasks' = [tasks EXCEPT ![n][t] = Renewed(tasks[n][t], now)]
          /\ UNCHANGED <<submitted, pushed>>
      BY <2>6 DEF RenewLease, Publish
    <3>2. /\ tasks[n][t].status # "completed"
          /\ Renewed(tasks[n][t], now).status # "completed"
      BY <2>6 DEF RenewLease, NeedsRenewal, Renewed, HeldBy
    <3> QED
      BY <2>0, <2>a, <3>1, <3>2, OpenRecordStep
  <2>7. ASSUME NEW n \in Node, Restart(n) PROVE UNCHANGED Board!vars
    <3> DEFINE T   == MyTasks(n)
               new == [t \in T |-> Renewed(tasks[n][t], now)]
    <3>1. /\ T \in SUBSET Task
          /\ \A t \in T : /\ tasks[n][t].status # "completed"
                          /\ new[t].status # "completed"
      BY DEF MyTasks, HeldBy, Renewed
    <3>2. PublishAll(n, T, new) /\ UNCHANGED <<submitted, pushed>>
      BY <2>7 DEF Restart
    <3> HIDE DEF T, new
    <3> QED
      BY <2>0, <2>a, <3>1, <3>2, OpenRecordsStep
  <2>8. ASSUME NEW n \in Node, Shutdown(n) PROVE UNCHANGED Board!vars
    <3> DEFINE T   == MyTasks(n)
               new == [t \in T |-> Released(tasks[n][t])]
    <3>1. /\ T \in SUBSET Task
          /\ \A t \in T : /\ tasks[n][t].status # "completed"
                          /\ new[t].status # "completed"
      BY DEF MyTasks, HeldBy, Released
    <3>2. PublishAll(n, T, new) /\ UNCHANGED <<submitted, pushed>>
      BY <2>8 DEF Shutdown
    <3> HIDE DEF T, new
    <3> QED
      BY <2>0, <2>a, <3>1, <3>2, OpenRecordsStep
  <2>9. ASSUME UNCHANGED <<tasks, submitted, pushed>>
        PROVE  UNCHANGED Board!vars
    BY <2>9, <2>a DEF Answers, Outcome
  <2>10. ASSUME NEW n \in Node, NEW t \in Task,
               \/ AwardRefused(n, t) \/ VerifyLease(n, t)
               \/ LostLease(n, t) \/ WorkerExit(n, t)
        PROVE  UNCHANGED <<tasks, submitted, pushed>>
    BY <2>10 DEF AwardRefused, VerifyLease, LostLease, WorkerExit
  <2>11. ASSUME NEW n \in Node, NEW m \in net, Ignore(n, m)
        PROVE  UNCHANGED <<tasks, submitted, pushed>>
    BY <2>11 DEF Ignore
  <2>12. ASSUME NEW n \in Node, Crash(n) \/ Exit(n)
        PROVE  UNCHANGED <<tasks, submitted, pushed>>
    BY <2>12 DEF Crash, Exit, Fault
  <2>13. Tick \/ UNCHANGED vars => UNCHANGED <<tasks, submitted, pushed>>
    BY DEF Tick, vars
  <2> QED
    BY <2>1, <2>2, <2>3, <2>4, <2>5, <2>6, <2>7, <2>8, <2>9, <2>10, <2>11,
       <2>12, <2>13 DEF Next, Work, Deliver
<1> QED
  BY <1>1, <1>2, InductiveInvariant, PTL DEF Spec, ImplementsJobBoard, Board!Spec
=============================================================================
