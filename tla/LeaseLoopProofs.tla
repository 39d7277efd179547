-------------------------- MODULE LeaseLoopProofs --------------------------
(***************************************************************************)
(* For every choice of the timing parameters: if a period of the scan loop *)
(* plus the delay of a renewal fit into every renew threshold that may be  *)
(* in force, a lease never runs out under a working thread, at home or at  *)
(* a peer, whenever the node adopts another lease duration.                *)
(***************************************************************************)
EXTENDS LeaseLoop, TLAPS

\* The life a lease needs at a pass that leaves it alone.
Margin == Period + MaxDelay

\* What the parameters must satisfy.  The defaults leave 10 seconds for a
\* pass and a delivery, 5 + MaxScan + MaxDelay <= 15 <= 30; a lease duration
\* reported by a peer brings a threshold of 0.4 times that.
TimingOK ==
    /\ Margin <= RenewThreshold /\ RenewThreshold <= LeaseDuration
    /\ \A d \in Reported : Margin <= (2 * d) \div 5

\* The durations in force are as good.
SettingInv == Margin <= threshold /\ threshold <= duration

\* A lease value x, held by a peer or on its way to one, is either the
\* newest or will be replaced in time by a renewal in flight: that renewal
\* was sent by a pass that found x with MaxDelay left.
Covered(x) ==
    \/ x = left
    \/ \E m \in flight : m.left > x /\ x + m.age >= MaxDelay

\* A thread at work on a job of ours: the lease had Margin left at the last
\* pass, and all that peers see or will see of it is covered.
LeaseInv ==
    job = "ours" /\ worker # "idle" =>
        /\ left + sinceScan >= Margin
        /\ Covered(peerLeft)
        /\ \A m \in flight : m.left > peerLeft => Covered(m.left)

\* Threads exist only in a running process.
WorkerUp == worker # "idle" => up

IInv == TypeOK /\ SettingInv /\ WorkerUp /\ LeaseInv

-----------------------------------------------------------------------------
\* The variables keep their types, whatever the parameters: in particular no
\* renewal outlives MaxDelay and no two passes are more than Period apart.
THEOREM TypeCorrect == Spec => []TypeOK
<1> USE TimingAssumption DEF TypeOK, Job, Worker, Lease, Renewal, Period
<1>1. Init => TypeOK
  BY DEF Init
<1>2. TypeOK /\ [Next]_vars => TypeOK'
  <2> SUFFICES ASSUME TypeOK, [Next]_vars PROVE TypeOK'
    OBVIOUS
  <2>1. CASE Scan
    BY <2>1 DEF Scan, ScanRenew, Due, ScanClaim, ScanNothing, Renew, RenewFor,
       Claim, timing
  <2>2. CASE AwardClaim
    BY <2>2 DEF AwardClaim, Claim, timing
  <2>3. CASE VerifyLease
    BY <2>3 DEF VerifyLease, timing
  <2>4. CASE Finish
    BY <2>4 DEF Finish, timing
  <2>5. ASSUME NEW m \in flight, Deliver(m) PROVE TypeOK'
    BY <2>5 DEF Deliver, timing
  <2>6. CASE Rescue \/ PeerGivesUp \/ PeerCompletes
    BY <2>6 DEF Rescue, PeerGivesUp, PeerCompletes, timing
  <2>7. CASE Crash
    <3>1. crashes' \in 0..MaxCrash
      BY <2>7 DEF Crash
    <3>2. up' \in BOOLEAN /\ worker' \in Worker
      BY <2>7, Zenon DEF Crash
    <3> QED
      BY <2>7, <3>1, <3>2 DEF Crash, timing
  <2>8. CASE Restart
    BY <2>8 DEF Restart, RenewFor
  <2>9. CASE Tick
    <3>1. flight' \subseteq Renewal
      BY <2>9 DEF Tick, Elapse
    <3> QED
      BY <2>9, <3>1 DEF Tick, Elapse, timing
  <2>10. ASSUME NEW d \in Reported, Converge(d) PROVE TypeOK'
    BY <2>10 DEF Converge, Consensus
  <2>11. CASE UNCHANGED vars
    BY <2>11 DEF vars, timing
  <2> QED
    BY <2>1, <2>2, <2>3, <2>4, <2>5, <2>6, <2>7, <2>8, <2>9, <2>10, <2>11
       DEF Next
<1> QED
  BY <1>1, <1>2, PTL DEF Spec

-----------------------------------------------------------------------------
\* A covered lease value has not expired: a pass of the scan loop and the
\* delivery of its renewal both fit in before it does.
LEMMA CoveredIsLive ==
    ASSUME TimingOK, TypeOK, left + sinceScan >= Margin,
           NEW x \in Int, Covered(x)
    PROVE  left >= 0 /\ x >= 0
<1> USE TimingAssumption DEF TypeOK, Lease, Renewal, TimingOK, Margin, Period
<1>1. left >= 0
  OBVIOUS
<1>2. CASE x = left
  BY <1>1, <1>2
<1>3. CASE \E m \in flight : m.left > x /\ x + m.age >= MaxDelay
  <2> PICK m \in flight : x + m.age >= MaxDelay
    BY <1>3
  <2> m.age \in 0..MaxDelay
    OBVIOUS
  <2> QED
    BY <1>1
<1> QED
  BY <1>2, <1>3 DEF Covered

\* The inductive invariant implies the property.
LEMMA InvImpliesSafe ==
    ASSUME TimingOK, IInv PROVE LeaseOutlivesWork
<1> SUFFICES ASSUME job = "ours", worker # "idle"
             PROVE  left >= 0 /\ peerLeft >= 0
  BY DEF LeaseOutlivesWork
<1>1. left + sinceScan >= Margin /\ Covered(peerLeft)
  BY DEF IInv, LeaseInv
<1>2. TypeOK /\ peerLeft \in Int
  BY DEF IInv, TypeOK, Lease
<1> QED
  BY <1>1, <1>2, CoveredIsLive

\* A renewal covers every older value, which the pass found in good time.
LEMMA RenewalCovers ==
    ASSUME TimingOK, TypeOK, SettingInv, LeaseInv, ScanRenew,
           job = "ours", worker # "idle"
    PROVE  LeaseInv'
<1> USE TimingAssumption DEF TypeOK, Lease, Renewal, SettingInv, Margin, Period
<1> DEFINE new == [left |-> duration, age |-> 0]
<1>1. /\ left' = duration /\ sinceScan' = 0 /\ peerLeft' = peerLeft
      /\ flight' = flight \cup {new} /\ left < threshold
  BY DEF ScanRenew, Due, Renew, RenewFor
<1>2. ASSUME NEW x \in Lease, Covered(x) PROVE Covered(x)'
  <2>1. CASE x = left
    <3>1. new \in flight' /\ new.left > x /\ x + new.age >= MaxDelay
      BY <1>1, <2>1 DEF LeaseInv
    <3> QED
      BY <3>1 DEF Covered
  <2>2. CASE x # left
    BY <1>1, <1>2, <2>2 DEF Covered
  <2> QED
    BY <2>1, <2>2
<1>3. Covered(peerLeft)'
  BY <1>1, <1>2 DEF LeaseInv, Covered
<1>4. ASSUME NEW m \in flight', m.left > peerLeft' PROVE Covered(m.left)'
  <2>1. CASE m = new
    BY <1>1, <2>1 DEF Covered
  <2>2. CASE m \in flight
    BY <1>1, <1>2, <1>4, <2>2 DEF LeaseInv
  <2> QED
    BY <1>1, <2>1, <2>2
<1>5. left' + sinceScan' >= Margin
  BY <1>1
<1> QED
  BY <1>3, <1>4, <1>5 DEF LeaseInv

\* After a delivery the peers hold a covered value; a renewal that covers it
\* carries a longer lease, so it is not the one just delivered.
LEMMA DeliveryKeepsCover ==
    ASSUME TypeOK, LeaseInv, NEW d \in flight, Deliver(d),
           job = "ours", worker # "idle"
    PROVE  LeaseInv'
<1> USE TimingAssumption DEF TypeOK, Lease, Renewal, Period
<1>1. /\ left' = left /\ sinceScan' = sinceScan /\ flight' = flight \ {d}
      /\ peerLeft' = IF d.left > peerLeft THEN d.left ELSE peerLeft
  BY DEF Deliver
<1>2. peerLeft' >= d.left /\ peerLeft' >= peerLeft
  BY <1>1
<1>3. ASSUME NEW x \in Lease, x >= d.left, Covered(x) PROVE Covered(x)'
  BY <1>1, <1>3 DEF Covered
<1>4. Covered(peerLeft')
  BY <1>1 DEF LeaseInv
<1>5. Covered(peerLeft)'
  BY <1>1, <1>2, <1>3, <1>4 DEF Covered
<1>6. ASSUME NEW m \in flight', m.left > peerLeft' PROVE Covered(m.left)'
  BY <1>1, <1>2, <1>3, <1>6 DEF LeaseInv
<1> QED
  BY <1>1, <1>5, <1>6 DEF LeaseInv

\* One second later every live value and every age has moved by one.
LEMMA TickKeepsCover ==
    ASSUME TimingOK, TypeOK, SettingInv, WorkerUp, LeaseInv, Tick,
           job = "ours", worker # "idle"
    PROVE  LeaseInv'
<1> USE TimingAssumption DEF TypeOK, Lease, Renewal, Margin, Period
<1> DEFINE Older(m) == [left |-> Elapse(m.left), age |-> m.age + 1]
<1>1. /\ left' = Elapse(left) /\ peerLeft' = Elapse(peerLeft)
      /\ flight' = {Older(m) : m \in flight} /\ sinceScan' = sinceScan + 1
  BY DEF Tick, WorkerUp
<1>2. left >= 0 /\ peerLeft >= 0
  BY InvImpliesSafe DEF IInv, LeaseOutlivesWork
<1>3. ASSUME NEW x \in Lease, x >= 0, Covered(x) PROVE Covered(x - 1)'
  <2>1. CASE x = left
    BY <1>1, <1>2, <2>1 DEF Covered, Elapse
  <2>2. CASE x # left
    <3> PICK m \in flight : m.left > x /\ x + m.age >= MaxDelay
      BY <1>3, <2>2 DEF Covered
    <3>1. Older(m) \in flight'
      BY <1>1
    <3>2. /\ Older(m).left > x - 1
          /\ (x - 1) + Older(m).age >= MaxDelay
      BY <1>3 DEF Elapse
    <3> QED
      BY <3>1, <3>2 DEF Covered
  <2> QED
    BY <2>1, <2>2
<1>4. Covered(peerLeft)'
  <2> PICK p \in Lease : p = peerLeft
    OBVIOUS
  <2>1. peerLeft' = p - 1 /\ p >= 0 /\ Covered(p)
    BY <1>1, <1>2 DEF LeaseInv, Elapse
  <2>2. Covered(p - 1)'
    BY <1>3, <2>1
  <2> QED
    BY <2>1, <2>2 DEF Covered
<1>5. ASSUME NEW k \in flight', k.left > peerLeft' PROVE Covered(k.left)'
  <2> PICK m \in flight : k = Older(m)
    BY <1>1
  <2>1. m.left > peerLeft /\ k.left = m.left - 1
    BY <1>1, <1>2, <1>5 DEF Elapse
  <2>2. Covered(m.left)
    BY <2>1 DEF LeaseInv
  <2>3. Covered(m.left - 1)'
    BY <1>2, <1>3, <2>1, <2>2
  <2> QED
    BY <2>1, <2>3
<1>6. left' + sinceScan' >= Margin
  BY <1>1, <1>2 DEF LeaseInv, Elapse
<1> QED
  BY <1>4, <1>5, <1>6 DEF LeaseInv

\* Whatever lease durations the node adopts, they are as good.
LEMMA SettingStep ==
    ASSUME TimingOK, TypeOK, SettingInv, [Next]_vars
    PROVE  SettingInv'
<1>1. CASE \E d \in Reported : Converge(d)
  <2> PICK d \in Reported : Converge(d)
    BY <1>1
  <2>1. d \in Nat /\ Margin <= (2 * d) \div 5
    BY TimingAssumption DEF TimingOK
  <2>2. (2 * d) \div 5 <= d
    BY <2>1
  <2> QED
    BY <2>1, <2>2 DEF Converge, SettingInv, Margin, Period
<1>2. CASE Restart
  BY <1>2 DEF Restart, SettingInv, TimingOK, Margin, Period
<1>3. CASE UNCHANGED timing
  BY <1>3 DEF timing, SettingInv, Margin, Period
<1>4. \/ \E d \in Reported : Converge(d)
      \/ Restart
      \/ UNCHANGED timing
  BY DEF Next, Scan, ScanRenew, ScanClaim, ScanNothing, AwardClaim,
     VerifyLease, Finish, Deliver, Rescue, PeerGivesUp, PeerCompletes,
     Crash, Tick, vars
<1> QED
  BY <1>1, <1>2, <1>3, <1>4

-----------------------------------------------------------------------------
\* The scan loop, the settling worker, gossip delay, peers and restarts
\* together keep a lease alive under a working thread, for every timing with
\* Period + MaxDelay <= RenewThreshold <= LeaseDuration that holds of the
\* durations of the peers too.
THEOREM LeaseSafe ==
    ASSUME TimingOK PROVE Spec => []LeaseOutlivesWork
<1>1. Init => IInv
  BY TimingAssumption DEF Init, IInv, TypeOK, SettingInv, WorkerUp, LeaseInv, Job,
     Worker, Lease, Renewal, Margin, Period, TimingOK
<1>2. TypeOK /\ TypeOK' /\ IInv /\ [Next]_vars => IInv'
  <2> SUFFICES ASSUME TypeOK, TypeOK', IInv, [Next]_vars
               PROVE  WorkerUp' /\ LeaseInv'
    BY SettingStep DEF IInv
  <2> USE DEF IInv
  <2>1. CASE ScanRenew
    <3>1. WorkerUp' /\ (LeaseInv' \/ (job = "ours" /\ worker # "idle"))
      BY <2>1 DEF ScanRenew, Due, WorkerUp, LeaseInv
    <3> QED
      BY <2>1, <3>1, RenewalCovers
  <2>2. CASE ScanClaim \/ AwardClaim
    BY <2>2, TimingAssumption DEF ScanClaim, AwardClaim, Claim, WorkerUp,
       LeaseInv, Covered, SettingInv, Margin, TypeOK, Period
  <2>3. CASE ScanNothing
    BY <2>3, TimingAssumption DEF ScanNothing, Due, WorkerUp, LeaseInv, Covered,
       SettingInv, Margin, Period, TypeOK, Lease
  <2>4. CASE VerifyLease
    BY <2>4 DEF VerifyLease, WorkerUp, LeaseInv, Covered
  <2>5. CASE Finish
    BY <2>5 DEF Finish, WorkerUp, LeaseInv, Covered
  <2>6. ASSUME NEW d \in flight, Deliver(d) PROVE WorkerUp' /\ LeaseInv'
    <3>1. WorkerUp' /\ (LeaseInv' \/ (job = "ours" /\ worker # "idle"))
      BY <2>6 DEF Deliver, WorkerUp, LeaseInv
    <3> QED
      BY <2>6, <3>1, DeliveryKeepsCover
  <2>7. CASE Rescue \/ PeerGivesUp \/ PeerCompletes
    BY <2>7 DEF Rescue, PeerGivesUp, PeerCompletes, WorkerUp, LeaseInv
  <2>8. CASE Crash
    BY <2>8 DEF Crash, WorkerUp, LeaseInv
  <2>9. CASE Restart
    BY <2>9 DEF Restart, WorkerUp, LeaseInv
  <2>10. CASE Tick
    <3>1. WorkerUp' /\ (LeaseInv' \/ (job = "ours" /\ worker # "idle"))
      BY <2>10 DEF Tick, WorkerUp, LeaseInv
    <3> QED
      BY <2>10, <3>1, TickKeepsCover
  <2>11. ASSUME NEW d \in Reported, Converge(d) PROVE WorkerUp' /\ LeaseInv'
    BY <2>11 DEF Converge, WorkerUp, LeaseInv, Covered
  <2>12. CASE UNCHANGED vars
    BY <2>12 DEF vars, WorkerUp, LeaseInv, Covered
  <2> QED
    BY <2>1, <2>2, <2>3, <2>4, <2>5, <2>6, <2>7, <2>8, <2>9, <2>10,
       <2>11, <2>12 DEF Next, Scan
<1>3. IInv => LeaseOutlivesWork
  BY InvImpliesSafe
<1> QED
  BY <1>1, <1>2, <1>3, TypeCorrect, PTL DEF Spec
=============================================================================
