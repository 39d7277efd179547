---------------------------- MODULE WebUIProofs -----------------------------
(***************************************************************************)
(* Theorems about WebUI, for any ports, records and number of requests.    *)
(***************************************************************************)
EXTENDS WebUI, TLAPS

\* Before the job is credited nobody has been paid, afterwards one provider
\* at most, once.
PaidInv == PaidOnce /\ (~credited => \A p \in Port : paid[p] = 0)

\* A process that was stopped is still stopped.
ChaosInv ==
    /\ StoppedIsListed
    /\ \A p \in Port : stoppedBy[p] # "nobody" => proc[p] = "stopped"

IInv == TypeOK /\ PaidInv /\ ChaosInv

\* Init establishes the invariant.
LEMMA InitInv == Init => IInv
  <1>1. ASSUME Init PROVE TypeOK
    <2>1. report \in [Port -> Report]
      BY <1>1 DEF Init, Report
    <2>2. card \in [Port -> Card]
      BY <1>1 DEF Init, Card
    <2>3. stoppedBy \in [Port -> {"nobody", "kill", "chaos"}] /\ requests \in 0..MaxRequests
      BY <1>1, RequestAssumption DEF Init
    <2>4. proc \in [Port -> {"none", "running", "stopped"}] /\ paid \in [Port -> 0..2]
      BY <1>1 DEF Init
    <2>5. /\ terminated \subseteq Port /\ dynamic \subseteq Listed \cap Spare
          /\ partitioned \subseteq Port /\ chaos \subseteq Port /\ todo \subseteq Port
      BY <1>1 DEF Init
    <2>6. answer \in {<<>>} \cup (Port \X (Online \cup {Offline}))
      BY <1>1 DEF Init
    <2>7. changed \in BOOLEAN /\ credited \in BOOLEAN
      BY <1>1 DEF Init
    <2> QED BY <2>1, <2>2, <2>3, <2>4, <2>5, <2>6, <2>7 DEF TypeOK
  <1>2. ASSUME Init PROVE PaidInv /\ ChaosInv
    BY <1>2 DEF Init, PaidInv, PaidOnce, ChaosInv, StoppedIsListed
  <1> QED BY <1>1, <1>2 DEF IInv

\* Crediting the job keeps the payments right.
LEMMA CreditInv ==
    ASSUME TypeOK, PaidInv, Credit
    PROVE  PaidInv' /\ credited' \in BOOLEAN /\ paid' \in [Port -> 0..2]
  <1>1. CASE UNCHANGED economy
    BY <1>1 DEF economy, PaidInv, PaidOnce, TypeOK
  <1>2. CASE ~credited /\ \E p \in Sources : credited' = TRUE /\ Pay(card[p].says.by)
    <2>1. PICK p \in Sources : Pay(card[p].says.by)
      BY <1>2
    <2>2. card[p].says.by \in Port
      <3>1. card[p] \in Online /\ card[p].says.by # None
        BY DEF Sources, Newest, Shown, TypeOK, Card, Absent, Offline
      <3>2. card[p].says \in Report
        BY <3>1 DEF Online
      <3>3. card[p].says \in Record
        BY <3>1, <3>2 DEF Report, Fresh
      <3> QED BY <3>1, <3>3, RecordAssumption DEF None
    <2> DEFINE q == card[p].says.by
    <2>3. \A r \in Port : paid[r] = 0
      BY <1>2 DEF PaidInv
    <2>4. credited'
      BY <1>2
    <2>5. \A r \in Port : paid'[r] = IF r = q /\ Shown(q) THEN 1 ELSE 0
      BY <2>1, <2>2, <2>3 DEF Pay, TypeOK
    <2>6. paid' \in [Port -> 0..2]
      BY <2>1, <2>2, <2>3 DEF Pay, TypeOK
    <2> QED BY <2>4, <2>5, <2>6 DEF PaidInv, PaidOnce
  <1> QED BY <1>1, <1>2 DEF Credit

\* Stopping and continuing processes keeps their types.
LEMMA SignalTypes ==
    ASSUME TypeOK, NEW S, NEW who \in {"kill", "chaos"}, Stop(S, who) \/ Continue(S)
    PROVE  /\ proc' \in [Port -> {"none", "running", "stopped"}]
           /\ stoppedBy' \in [Port -> {"nobody", "kill", "chaos"}]
  BY DEF Stop, Continue, TypeOK

\* Every request of the operator preserves the invariant.
LEMMA OperatorInv == IInv /\ Operator => IInv'
  <1> SUFFICES ASSUME IInv, Operator PROVE IInv'
    OBVIOUS
  <1> USE RequestAssumption DEF IInv
  <1>0. Request =>
           /\ requests' \in 0..MaxRequests
           /\ UNCHANGED <<report, todo, answer, changed, credited, paid>>
    BY DEF Request, TypeOK, poller, economy
  <1>1. UNCHANGED <<credited, paid>> => PaidInv'
    BY DEF PaidInv, PaidOnce
  <1>2. ASSUME NEW p \in Port, Kill(p) PROVE IInv'
    <2> DEFINE who == IF stoppedBy[p] = "chaos" THEN "chaos" ELSE "kill"
    <2>1. Stop({p}, who) /\ Request /\ UNCHANGED <<terminated, card, dynamic, partitioned, chaos>>
      BY <1>2 DEF Kill
    <2>2. TypeOK'
      BY <2>1, <1>0, SignalTypes DEF TypeOK, Listed
    <2>3. ChaosInv'
      BY <2>1 DEF Stop, ChaosInv, StoppedIsListed, TypeOK, Alive
    <2> QED BY <2>1, <2>2, <2>3, <1>0, <1>1
  <1>3. ASSUME NEW p \in Port, Revive(p) PROVE IInv'
    <2>1. Continue({p}) /\ Request /\ UNCHANGED <<terminated, card, dynamic, partitioned, chaos>>
      BY <1>3 DEF Revive
    <2>2. TypeOK'
      BY <2>1, <1>0, SignalTypes DEF TypeOK, Listed
    <2>3. ChaosInv'
      BY <2>1 DEF Continue, ChaosInv, StoppedIsListed, TypeOK
    <2> QED BY <2>1, <2>2, <2>3, <1>0, <1>1
  <1>4. ASSUME NEW S \in SUBSET Port, KillRandom(S) PROVE IInv'
    <2>1. /\ Stop(S, "chaos") /\ Request /\ chaos' = chaos \cup S
          /\ UNCHANGED <<terminated, card, dynamic, partitioned>>
      BY <1>4 DEF KillRandom
    <2>2. TypeOK'
      BY <2>1, <1>0, SignalTypes DEF TypeOK, Listed
    <2>3. ChaosInv'
      BY <2>1 DEF Stop, ChaosInv, StoppedIsListed, TypeOK, Alive
    <2> QED BY <2>1, <2>2, <2>3, <1>0, <1>1
  <1>5. ASSUME Partition PROVE IInv'
    <2> DEFINE half == Alive(LowerHalf({p \in Port : Shown(p)}))
    <2>1. /\ Stop(half, "chaos") /\ Request /\ partitioned' = partitioned \cup half
          /\ UNCHANGED <<terminated, card, dynamic, chaos>>
      BY <1>5 DEF Partition
    <2>2. half \subseteq Port /\ Alive(half) = half
      BY DEF Alive, LowerHalf
    <2> HIDE DEF half
    <2>3. TypeOK'
      BY <2>1, <2>2, <1>0, SignalTypes DEF TypeOK, Listed
    <2>4. ChaosInv'
      BY <2>1, <2>2 DEF Stop, ChaosInv, StoppedIsListed, TypeOK
    <2> QED BY <2>1, <2>3, <2>4, <1>0, <1>1
  <1>6. ASSUME Heal PROVE IInv'
    <2>1. /\ Continue(partitioned) /\ Request /\ partitioned' = {}
          /\ UNCHANGED <<terminated, card, dynamic, chaos>>
      BY <1>6 DEF Heal
    <2>2. TypeOK'
      <3>1. /\ proc' \in [Port -> {"none", "running", "stopped"}]
            /\ stoppedBy' \in [Port -> {"nobody", "kill", "chaos"}]
        BY <2>1, SignalTypes
      <3>2. dynamic' \subseteq (Listed \cap Spare)' /\ card' \in [Port -> Card]
        BY <2>1 DEF TypeOK, Listed
      <3>3. /\ terminated' \subseteq Port /\ partitioned' \subseteq Port
            /\ chaos' \subseteq Port
        BY <2>1 DEF TypeOK
      <3>4. /\ report' \in [Port -> Report] /\ todo' \subseteq Port
            /\ answer' \in {<<>>} \cup (Port \X (Online \cup {Offline}))
            /\ changed' \in BOOLEAN /\ credited' \in BOOLEAN
            /\ paid' \in [Port -> 0..2] /\ requests' \in 0..MaxRequests
        BY <2>1, <1>0 DEF TypeOK
      <3> QED BY <3>1, <3>2, <3>3, <3>4 DEF TypeOK
    <2>3. ChaosInv'
      BY <2>1 DEF Continue, ChaosInv, StoppedIsListed, TypeOK, Alive
    <2> QED BY <2>1, <2>2, <2>3, <1>0, <1>1
  <1>7. ASSUME ReviveAll PROVE IInv'
    <2>1. /\ Continue(partitioned \cup chaos) /\ Request /\ partitioned' = {} /\ chaos' = {}
          /\ UNCHANGED <<terminated, card, dynamic>>
      BY <1>7 DEF ReviveAll
    <2>2. TypeOK'
      <3>1. /\ proc' \in [Port -> {"none", "running", "stopped"}]
            /\ stoppedBy' \in [Port -> {"nobody", "kill", "chaos"}]
        BY <2>1, SignalTypes
      <3>2. dynamic' \subseteq (Listed \cap Spare)' /\ card' \in [Port -> Card]
        BY <2>1 DEF TypeOK, Listed
      <3>3. /\ terminated' \subseteq Port /\ partitioned' \subseteq Port
            /\ chaos' \subseteq Port
        BY <2>1 DEF TypeOK
      <3>4. /\ report' \in [Port -> Report] /\ todo' \subseteq Port
            /\ answer' \in {<<>>} \cup (Port \X (Online \cup {Offline}))
            /\ changed' \in BOOLEAN /\ credited' \in BOOLEAN
            /\ paid' \in [Port -> 0..2] /\ requests' \in 0..MaxRequests
        BY <2>1, <1>0 DEF TypeOK
      <3> QED BY <3>1, <3>2, <3>3, <3>4 DEF TypeOK
    <2>3. ChaosInv'
      BY <2>1 DEF Continue, ChaosInv, StoppedIsListed, TypeOK, Alive
    <2> QED BY <2>1, <2>2, <2>3, <1>0, <1>1
  <1>8. ASSUME Add PROVE IInv'
    <2> DEFINE p == Greatest(Listed) + 1
    <2>1. /\ Request /\ p \in Spare
          /\ proc' = [proc EXCEPT ![p] = IF @ = "none" THEN "running" ELSE @]
          /\ card' = [card EXCEPT ![p] = Offline]
          /\ dynamic' = dynamic \cup {p}
          /\ UNCHANGED <<terminated, partitioned, chaos, stoppedBy>>
      BY <1>8 DEF Add
    <2> HIDE DEF p
    <2>2. p \in Port /\ Offline \in Card /\ Offline # Absent
      BY <2>1 DEF Port, Card, Offline, Absent
    <2>3. proc' \in [Port -> {"none", "running", "stopped"}] /\ card' \in [Port -> Card]
      BY <2>1, <2>2 DEF TypeOK
    <2>4. dynamic' \subseteq (Listed \cap Spare)'
      BY <2>1, <2>2 DEF TypeOK, Listed
    <2>5. TypeOK'
      BY <2>1, <2>3, <2>4, <1>0 DEF TypeOK
    <2>6. ChaosInv'
      BY <2>1 DEF ChaosInv, StoppedIsListed, TypeOK
    <2> QED BY <2>5, <2>6, <1>0, <2>1, <1>1
  <1>9. ASSUME Remove PROVE IInv'
    <2>1. PICK p \in dynamic :
              /\ Request
              /\ dynamic' = dynamic \ {p}
              /\ card' = [card EXCEPT ![p] = Absent]
              /\ terminated' = terminated \cup Alive({p})
              /\ UNCHANGED <<proc, partitioned, chaos, stoppedBy>>
      BY <1>9 DEF Remove
    <2>2. p \in Port /\ Absent \in Card
      BY DEF TypeOK, Listed, Card
    <2>3. card' \in [Port -> Card] /\ terminated' \subseteq Port
      BY <2>1, <2>2 DEF TypeOK, Alive
    <2>4. dynamic' \subseteq (Listed \cap Spare)'
      BY <2>1, <2>2 DEF TypeOK, Listed
    <2>5. TypeOK'
      BY <2>1, <2>3, <2>4, <1>0 DEF TypeOK
    <2>6. ChaosInv'
      BY <2>1 DEF ChaosInv, StoppedIsListed, TypeOK
    <2> QED BY <2>5, <2>6, <1>0, <2>1, <1>1
  <1> QED BY <1>2, <1>3, <1>4, <1>5, <1>6, <1>7, <1>8, <1>9 DEF Operator

\* So does every step of the poller.
LEMMA PollerInv == IInv /\ Poller => IInv'
  <1> SUFFICES ASSUME IInv, Poller PROVE IInv'
    OBVIOUS
  <1> USE DEF IInv
  <1>1. CASE StartRound
    <2>1. TypeOK'
      BY <1>1 DEF StartRound, TypeOK, Listed, cluster, control, economy
    <2>2. PaidInv' /\ ChaosInv'
      BY <1>1 DEF StartRound, PaidInv, PaidOnce, ChaosInv, StoppedIsListed, cluster, control, economy
    <2> QED BY <2>1, <2>2
  <1>2. CASE Poll
    <2>1. PICK p \in todo :
              /\ answer' = <<p, IF proc[p] = "running"
                                THEN [status |-> "online", says |-> report[p]]
                                ELSE Offline>>
              /\ todo' = todo \ {p}
      BY <1>2 DEF Poll
    <2>2. answer' \in Port \X (Online \cup {Offline})
      <3>1. p \in Port /\ report[p] \in Report
        BY DEF TypeOK
      <3>2. [status |-> "online", says |-> report[p]] \in Online
        BY <3>1 DEF Online
      <3> QED BY <2>1, <3>1, <3>2
    <2>3. UNCHANGED <<proc, terminated, report, card, dynamic, partitioned, chaos,
                      stoppedBy, requests, changed, credited, paid>>
      BY <1>2 DEF Poll, cluster, control, economy
    <2>4. TypeOK'
      BY <2>1, <2>2, <2>3 DEF TypeOK, Listed
    <2>5. PaidInv' /\ ChaosInv'
      BY <2>3 DEF PaidInv, PaidOnce, ChaosInv, StoppedIsListed
    <2> QED BY <2>4, <2>5
  <1>3. CASE Store
    <2> DEFINE p == answer[1]
               c == answer[2]
    <2>1. /\ p \in Port /\ c \in Card /\ c # Absent
      <3>1. p \in Port /\ c \in Online \cup {Offline}
        <4>1. answer \in Port \X (Online \cup {Offline})
          BY <1>3 DEF Store, TypeOK
        <4> QED BY <4>1
      <3> QED BY <3>1 DEF Card, Online, Offline, Absent
    <2>2. /\ \/ card' = [card EXCEPT ![p] = c] /\ changed' = TRUE
             \/ card' = card /\ changed' = changed
          /\ answer' = <<>>
          /\ UNCHANGED <<proc, terminated, report, dynamic, partitioned, chaos,
                         stoppedBy, requests, todo, credited, paid>>
      BY <1>3 DEF Store, cluster, control, economy
    <2> HIDE DEF p, c
    <2>3. card' \in [Port -> Card] /\ Listed \subseteq Listed'
      BY <2>1, <2>2 DEF TypeOK, Listed
    <2>4. changed' \in BOOLEAN
      BY <2>2 DEF TypeOK
    <2>6. TypeOK'
      BY <2>2, <2>3, <2>4 DEF TypeOK
    <2>5. PaidInv' /\ ChaosInv'
      BY <2>2 DEF PaidInv, PaidOnce, ChaosInv, StoppedIsListed
    <2> QED BY <2>6, <2>5
  <1>4. CASE EndRound
    <2>1. /\ Credit /\ changed' = FALSE
          /\ UNCHANGED <<proc, terminated, report, card, dynamic, partitioned, chaos,
                         stoppedBy, requests, todo, answer>>
      BY <1>4 DEF EndRound, cluster, control
    <2>2. PaidInv' /\ credited' \in BOOLEAN /\ paid' \in [Port -> 0..2]
      BY <2>1, CreditInv
    <2>3. TypeOK'
      BY <2>1, <2>2 DEF TypeOK, Listed
    <2>4. ChaosInv'
      BY <2>1 DEF ChaosInv, StoppedIsListed, TypeOK
    <2> QED BY <2>2, <2>3, <2>4
  <1> QED BY <1>1, <1>2, <1>3, <1>4 DEF Poller

\* So does every other step.
LEMMA StepInv == IInv /\ [Next]_vars => IInv'
  <1> SUFFICES ASSUME IInv, [Next]_vars PROVE IInv'
    OBVIOUS
  <1> USE DEF IInv
  <1>1. ASSUME NEW p \in Port, Work(p) PROVE IInv'
    <2>1. PICK new \in Record : report' = [report EXCEPT ![p] = new]
      BY <1>1 DEF Work
    <2>2. UNCHANGED <<proc, terminated, card, dynamic, partitioned, chaos, stoppedBy,
                      requests, todo, answer, changed, credited, paid>>
      BY <1>1 DEF Work, control, poller, economy
    <2>3. TypeOK'
      BY <2>1, <2>2 DEF TypeOK, Listed, Report
    <2>4. PaidInv' /\ ChaosInv'
      BY <2>2 DEF PaidInv, PaidOnce, ChaosInv, StoppedIsListed
    <2> QED BY <2>3, <2>4
  <1>2. ASSUME NEW p \in Port, End(p) PROVE IInv'
    <2>1. /\ proc[p] = "running"
          /\ proc' = [proc EXCEPT ![p] = "none"] /\ terminated' = terminated \ {p}
          /\ UNCHANGED <<report, card, dynamic, partitioned, chaos, stoppedBy,
                         requests, todo, answer, changed, credited, paid>>
      BY <1>2 DEF End, control, poller, economy
    <2>2. TypeOK'
      BY <2>1 DEF TypeOK, Listed
    <2>3. ChaosInv'
      BY <2>1 DEF ChaosInv, StoppedIsListed, TypeOK
    <2>4. PaidInv'
      BY <2>1 DEF PaidInv, PaidOnce
    <2> QED BY <2>2, <2>3, <2>4
  <1>3. CASE Connect
    <2>1. /\ Credit
          /\ UNCHANGED <<proc, terminated, report, card, dynamic, partitioned, chaos,
                         stoppedBy, requests, todo, answer, changed>>
      BY <1>3 DEF Connect, cluster, control, poller
    <2>2. PaidInv' /\ credited' \in BOOLEAN /\ paid' \in [Port -> 0..2]
      BY <2>1, CreditInv
    <2>3. TypeOK'
      BY <2>1, <2>2 DEF TypeOK, Listed
    <2>4. ChaosInv'
      BY <2>1 DEF ChaosInv, StoppedIsListed, TypeOK
    <2> QED BY <2>2, <2>3, <2>4
  <1>4. CASE UNCHANGED vars
    <2>1. UNCHANGED <<proc, terminated, report, card, dynamic, partitioned, chaos,
                      stoppedBy, requests, todo, answer, changed, credited, paid>>
      BY <1>4 DEF vars, cluster, control, poller, economy
    <2> QED BY <2>1 DEF TypeOK, Listed, PaidInv, PaidOnce, ChaosInv, StoppedIsListed
  <1> QED BY <1>1, <1>2, <1>3, <1>4, PollerInv, OperatorInv DEF Next

LEMMA Invariance == Spec => []IInv
  BY InitInv, StepInv, PTL DEF Spec

\* The cards, the lists of the chaos buttons and the payments keep their
\* types, and an added provider keeps its card until it is removed, for any
\* set of ports: the poller never deletes one.
THEOREM TypeCorrect == Spec => []TypeOK
  <1>1. IInv => TypeOK
    BY DEF IInv
  <1> QED BY <1>1, Invariance, PTL

\* A completed job is paid for at most once, to one provider, however many
\* providers report it, however polls, browsers and chaos interleave.
THEOREM PaidOnceSafe == Spec => []PaidOnce
  <1>1. IInv => PaidOnce
    BY DEF IInv, PaidInv
  <1> QED BY <1>1, Invariance, PTL

\* A provider that the chaos buttons stopped is in one of the sets from
\* which heal and revive all resume it.
THEOREM StoppedStaysListed == Spec => []StoppedIsListed
  <1>1. IInv => StoppedIsListed
    BY DEF IInv, ChaosInv
  <1> QED BY <1>1, Invariance, PTL
=============================================================================
