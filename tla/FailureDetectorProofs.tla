------------------------ MODULE FailureDetectorProofs ------------------------
(***************************************************************************)
(* For any number of observers and any timing: what a status of the        *)
(* failure detector says about the past, and when it raises no false       *)
(* alarm.                                                                  *)
(***************************************************************************)
EXTENDS FailureDetector, FiniteSetTheorems, TLAPS

\* What the timing must satisfy for a live peer never to be suspected.  The
\* defaults, 2 s between heartbeats and 10 s of silence, leave 3 seconds for
\* a broadcast and the delivery of a message.
TimingOK == Period + MaxDelay <= FastSuspectAfter

\* The last heartbeat has reached o, or one that is on its way to o was sent
\* within a Period of what o saw last.
Expected(o) ==
    \/ age[o] <= sinceBeat
    \/ \E b \in beats : b.to = o /\ age[o] <= b.age + Period

\* As long as nothing has failed, heartbeats come in time.
Calm ==
    crashes = 0 /\ losses = 0 =>
        /\ up
        /\ rumours = {}
        /\ \A o \in Observer : status[o] \in {"unknown", "alive"} /\ Expected(o)

-----------------------------------------------------------------------------
\* An integer is at least half of itself, rounded down, and this is a number.
LEMMA HalfIsNat == FastSuspectAfter \in Nat /\ FastSuspectAfter <= SuspectAfter
  BY DetectorAssumption DEF FastSuspectAfter

\* _fanout picks observers.
LEMMA TargetsAreObservers ==
    ASSUME NEW o, NEW st, NEW T \in Targets(o, st)
    PROVE  T \subseteq Observer
<1> DEFINE peers == (Observer \ {o}) \cup
                    (IF st \in {"alive", "suspected"} THEN {Subject} ELSE {})
<1>1. PICK P \in SUBSET peers : T = P \ {Subject}
  BY DEF Targets
<1> QED
  BY <1>1

\* A rumour that is passed on stays a rumour among observers.
LEMMA PassOnType ==
    ASSUME rumours \subseteq Rumour, NEW m \in rumours, NEW o \in Observer,
           NEW T \in SUBSET Observer
    PROVE  PassOn(m, o, T) \subseteq Rumour
  BY DEF PassOn, Rumour

\* So does one that is refuted at one more observer.
LEMMA RefutedType ==
    ASSUME rumours \subseteq Rumour, NEW o \in Observer
    PROVE  Refuted(o) \subseteq Rumour
  BY DEF Refuted, Rumour

\* The suspicion an observer sends out is well typed.
LEMMA SuspectType ==
    ASSUME TypeOK, NEW o \in Observer, Suspect(o)
    PROVE  TypeOK'
<1>1. PICK T \in Targets(o, "suspected") :
         rumours' = rumours \cup {[by |-> o, age |-> 0, todo |-> T, seen |-> {},
                                   heard |-> {}]}
  BY DEF Suspect
<1>2. T \subseteq Observer
  BY TargetsAreObservers
<1>3. rumours' \subseteq Rumour
  BY <1>1, <1>2, DetectorAssumption DEF TypeOK, Rumour
<1> QED
  BY <1>3 DEF TypeOK, Suspect, PeerStatus

\* The variables keep their types: no message outlives MaxDelay, no two
\* heartbeats are further apart than Period.
THEOREM TypeCorrect == Spec => []TypeOK
<1>1. Init => TypeOK
  BY DetectorAssumption DEF Init, TypeOK, PeerStatus, Beat, Rumour, ToAll, Cap, Period
<1>2. TypeOK /\ [Next]_vars => TypeOK'
  <2> SUFFICES ASSUME TypeOK, [Next]_vars PROVE TypeOK'
    OBVIOUS
  <2> USE DetectorAssumption
  <2>1. CASE SendHeartbeat
    <3>1. beats' \subseteq Beat
      BY <2>1 DEF TypeOK, SendHeartbeat, Beat, ToAll
    <3> QED
      BY <2>1, <3>1 DEF TypeOK, SendHeartbeat, Period
  <2>2. ASSUME NEW o \in Observer, NEW b \in beats, OnHeartbeat(o, b)
        PROVE  TypeOK'
    <3>1. rumours' \subseteq Rumour
      BY <2>2, RefutedType DEF TypeOK, OnHeartbeat
    <3>2. reports' \in [Observer -> SUBSET Observer]
      BY <2>2 DEF TypeOK, OnHeartbeat
    <3> QED
      BY <2>2, <3>1, <3>2 DEF TypeOK, OnHeartbeat, PeerStatus, Cap
  <2>3. ASSUME NEW o \in Observer, NEW m \in rumours, IgnoreSuspicion(o, m)
        PROVE  TypeOK'
    <3>1. rumours' \subseteq Rumour
      BY <2>3, PassOnType DEF TypeOK, IgnoreSuspicion
    <3> QED
      BY <2>3, <3>1 DEF TypeOK, IgnoreSuspicion
  <2>4. ASSUME NEW o \in Observer, NEW m \in rumours, CountSuspicion(o, m)
        PROVE  TypeOK'
    <3>1. PICK st \in {status[o], "dead"} :
             /\ status' = [status EXCEPT ![o] = st]
             /\ \E T \in Targets(o, st) : rumours' = PassOn(m, o, T)
      BY <2>4 DEF CountSuspicion
    <3>2. rumours' \subseteq Rumour
      BY <3>1, TargetsAreObservers, PassOnType DEF TypeOK
    <3>3. m.by \in Observer
      BY DEF TypeOK, Rumour
    <3>4. reports' \in [Observer -> SUBSET Observer]
      BY <2>4, <3>3 DEF TypeOK, CountSuspicion
    <3>5. status' \in [Observer -> PeerStatus]
      BY <3>1 DEF TypeOK, PeerStatus
    <3> QED
      BY <2>4, <3>2, <3>4, <3>5 DEF TypeOK, CountSuspicion
  <2>5. ASSUME NEW o \in Observer, Discover(o) PROVE TypeOK'
    <3>1. rumours' \subseteq Rumour
      BY <2>5, RefutedType DEF TypeOK, Discover
    <3> QED
      BY <2>5, <3>1 DEF TypeOK, Discover, PeerStatus, Cap
  <2>6. ASSUME NEW o \in Observer, AxlSync(o) \/ DetectFailures(o) PROVE TypeOK'
    BY <2>6, SuspectType DEF AxlSync, DetectFailures
  <2>7. ASSUME NEW o \in Observer, Reboot(o) PROVE TypeOK'
    <3>1. rumours' \subseteq Rumour
      BY <2>7 DEF TypeOK, Reboot, Rumour
    <3> QED
      BY <2>7, <3>1 DEF TypeOK, Reboot, PeerStatus, Cap
  <2>8. ASSUME NEW o \in Observer, Lose(o) PROVE TypeOK'
    <3>1. beats' \subseteq Beat
      BY <2>8 DEF TypeOK, Lose
    <3>2. rumours' \subseteq Rumour
      BY <2>8 DEF TypeOK, Lose, Rumour
    <3> QED
      BY <2>8, <3>1, <3>2 DEF TypeOK, Lose
  <2>9. CASE Crash
    <3>1. crashes' \in 0..MaxCrash
      BY <2>9 DEF TypeOK, Crash
    <3>2. up' \in BOOLEAN
      BY <2>9, Zenon DEF Crash
    <3> QED
      BY <2>9, <3>1, <3>2 DEF TypeOK, Crash
  <2>10. CASE Restart
    <3>1. beats' \subseteq Beat
      BY <2>10 DEF TypeOK, Restart, Beat, ToAll
    <3> QED
      BY <2>10, <3>1 DEF TypeOK, Restart, Period
  <2>11. CASE Tick
    <3>1. beats' \subseteq Beat
      BY <2>11 DEF TypeOK, Tick, Beat
    <3>2. rumours' \subseteq Rumour
      BY <2>11 DEF TypeOK, Tick, Rumour
    <3>3. age' \in [Observer -> 0..Cap]
      BY <2>11 DEF TypeOK, Tick, Cap
    <3>4. sinceBeat' \in 0..Period
      BY <2>11 DEF TypeOK, Tick, Period
    <3> QED
      BY <2>11, <3>1, <3>2, <3>3, <3>4 DEF TypeOK, Tick
  <2>12. CASE UNCHANGED vars
    BY <2>12 DEF TypeOK, vars
  <2> QED
    BY <2>1, <2>2, <2>3, <2>4, <2>5, <2>6, <2>7, <2>8, <2>9, <2>10, <2>11, <2>12
    DEF Next, Receive, OnSuspicion
<1> QED
  BY <1>1, <1>2, PTL DEF Spec

-----------------------------------------------------------------------------
(* What a status says.                                                     *)

\* "Suspected" is entered after enough silence only, and left when the
\* silence ends.
THEOREM SuspicionMeansSilence == Spec => []SuspectedIsSilent
<1>1. Init => SuspectedIsSilent
  BY DEF Init, SuspectedIsSilent
<1>2. TypeOK /\ SuspectedIsSilent /\ [Next]_vars => SuspectedIsSilent'
  <2> SUFFICES ASSUME TypeOK, SuspectedIsSilent, [Next]_vars,
                      NEW p \in Observer, status'[p] = "suspected"
               PROVE  age'[p] > FastSuspectAfter
    BY DEF SuspectedIsSilent
  <2> USE DetectorAssumption DEF TypeOK
  <2>1. CASE SendHeartbeat \/ Crash \/ Restart
    BY <2>1 DEF SendHeartbeat, Crash, Restart, SuspectedIsSilent
  <2>2. ASSUME NEW o \in Observer, NEW b \in beats, OnHeartbeat(o, b)
        PROVE  age'[p] > FastSuspectAfter
    BY <2>2 DEF OnHeartbeat, SuspectedIsSilent
  <2>3. ASSUME NEW o \in Observer, NEW m \in rumours,
               IgnoreSuspicion(o, m) \/ CountSuspicion(o, m)
        PROVE  age'[p] > FastSuspectAfter
    <3>1. status[p] = "suspected"
      BY <2>3 DEF IgnoreSuspicion, CountSuspicion
    <3> QED
      BY <2>3, <3>1 DEF IgnoreSuspicion, CountSuspicion, SuspectedIsSilent
  <2>4. ASSUME NEW o \in Observer, Discover(o) \/ Reboot(o)
        PROVE  age'[p] > FastSuspectAfter
    BY <2>4 DEF Discover, Reboot, SuspectedIsSilent
  <2>5. ASSUME NEW o \in Observer, AxlSync(o) \/ DetectFailures(o)
        PROVE  age'[p] > FastSuspectAfter
    <3>1. age[o] > FastSuspectAfter
      BY <2>5, HalfIsNat DEF AxlSync, DetectFailures
    <3> QED
      BY <2>5, <3>1 DEF AxlSync, DetectFailures, Suspect, SuspectedIsSilent
  <2>6. ASSUME NEW o \in Observer, Lose(o) PROVE age'[p] > FastSuspectAfter
    BY <2>6 DEF Lose, SuspectedIsSilent
  <2>7. CASE Tick
    <3>1. status[p] = "suspected" /\ age[p] > FastSuspectAfter
      BY <2>7 DEF Tick, SuspectedIsSilent
    <3>2. age'[p] >= age[p]
      BY <2>7 DEF Tick, Cap
    <3> QED
      BY <3>1, <3>2, <2>7, HalfIsNat DEF Tick, Cap
  <2>8. CASE UNCHANGED vars
    BY <2>8 DEF vars, SuspectedIsSilent
  <2> QED
    BY <2>1, <2>2, <2>3, <2>4, <2>5, <2>6, <2>7, <2>8
    DEF Next, Receive, OnSuspicion
<1> QED
  BY <1>1, <1>2, TypeCorrect, PTL DEF Spec

\* "Dead" is entered with enough different reporters; they are kept until a
\* sign of life ends both.
THEOREM DeathIsReported == Spec => []DeadIsReported
<1>1. Init => DeadIsReported
  BY DEF Init, DeadIsReported
<1>2. TypeOK /\ DeadIsReported /\ [Next]_vars => DeadIsReported'
  <2> SUFFICES ASSUME TypeOK, DeadIsReported, [Next]_vars,
                      NEW p \in Observer, status'[p] = "dead"
               PROVE  Cardinality(reports'[p]) >= DeadReportsNeeded
    BY DEF DeadIsReported
  <2> USE DetectorAssumption DEF TypeOK
  <2>1. CASE SendHeartbeat \/ Crash \/ Restart \/ Tick
    BY <2>1 DEF SendHeartbeat, Crash, Restart, Tick, DeadIsReported
  <2>2. ASSUME NEW o \in Observer, NEW b \in beats, OnHeartbeat(o, b)
        PROVE  Cardinality(reports'[p]) >= DeadReportsNeeded
    <3>1. p # o /\ status[p] = "dead"
      BY <2>2 DEF OnHeartbeat
    <3>2. reports'[p] = reports[p]
      BY <2>2, <3>1 DEF OnHeartbeat
    <3> QED
      BY <3>1, <3>2 DEF DeadIsReported
  <2>3. ASSUME NEW o \in Observer, NEW m \in rumours, IgnoreSuspicion(o, m)
        PROVE  Cardinality(reports'[p]) >= DeadReportsNeeded
    BY <2>3 DEF IgnoreSuspicion, DeadIsReported
  <2>4. ASSUME NEW o \in Observer, NEW m \in rumours, CountSuspicion(o, m)
        PROVE  Cardinality(reports'[p]) >= DeadReportsNeeded
    <3>1. CASE p # o
      BY <2>4, <3>1 DEF CountSuspicion, DeadIsReported
    <3>2. CASE p = o
      <4>1. reports'[o] = reports[o] \cup {m.by}
        BY <2>4 DEF CountSuspicion
      <4>2. \/ Cardinality(reports[o] \cup {m.by}) >= DeadReportsNeeded
            \/ status[o] = "dead"
        BY <2>4, <3>2 DEF CountSuspicion
      <4>3. m.by \in Observer
        BY DEF Rumour
      <4>4. /\ IsFiniteSet(reports[o] \cup {m.by})
            /\ reports[o] \subseteq reports[o] \cup {m.by}
        <5>1. reports[o] \cup {m.by} \subseteq Observer
          BY <4>3
        <5> QED
          BY <5>1, FS_Subset, ObserverAssumption
      <4>5. /\ Cardinality(reports[o]) \in Nat
            /\ Cardinality(reports[o] \cup {m.by}) \in Nat
            /\ Cardinality(reports[o]) <= Cardinality(reports[o] \cup {m.by})
        BY <4>4, FS_Subset, FS_CardinalityType
      <4>6. CASE status[o] = "dead"
        <5>1. Cardinality(reports[o]) >= DeadReportsNeeded
          BY <4>6 DEF DeadIsReported
        <5>2. Cardinality(reports[o] \cup {m.by}) >= DeadReportsNeeded
          BY <4>5, <5>1
        <5> QED
          BY <4>1, <5>2, <3>2
      <4> QED
        BY <4>1, <4>2, <4>6, <3>2
    <3> QED
      BY <3>1, <3>2
  <2>5. ASSUME NEW o \in Observer,
               Discover(o) \/ AxlSync(o) \/ DetectFailures(o) \/ Reboot(o)
        PROVE  Cardinality(reports'[p]) >= DeadReportsNeeded
    <3>1. p # o /\ status[p] = "dead"
      BY <2>5 DEF Discover, AxlSync, DetectFailures, Suspect, Reboot
    <3>2. reports'[p] = reports[p]
      BY <2>5, <3>1 DEF Discover, AxlSync, DetectFailures, Suspect, Reboot
    <3> QED
      BY <3>1, <3>2 DEF DeadIsReported
  <2>6. ASSUME NEW o \in Observer, Lose(o)
        PROVE  Cardinality(reports'[p]) >= DeadReportsNeeded
    BY <2>6 DEF Lose, DeadIsReported
  <2>7. CASE UNCHANGED vars
    BY <2>7 DEF vars, DeadIsReported
  <2> QED
    BY <2>1, <2>2, <2>3, <2>4, <2>5, <2>6, <2>7
    DEF Next, Receive, OnSuspicion
<1> QED
  BY <1>1, <1>2, TypeCorrect, PTL DEF Spec

-----------------------------------------------------------------------------
(* When nothing fails, nobody is suspected.                                *)

\* Time and heartbeats keep every observer supplied.
LEMMA BeatsKeepComing ==
    ASSUME TypeOK, up, NEW o \in Observer, Expected(o),
           SendHeartbeat \/ Tick
    PROVE  Expected(o)'
<1> USE DetectorAssumption DEF TypeOK, Period
<1>1. CASE SendHeartbeat
  <2>1. CASE age[o] <= sinceBeat
    <3>1. [to |-> o, age |-> 0] \in beats'
      BY <1>1 DEF SendHeartbeat, ToAll
    <3>2. age'[o] <= 0 + Period
      BY <1>1, <2>1 DEF SendHeartbeat
    <3> QED
      BY <3>1, <3>2 DEF Expected
  <2>2. ASSUME NEW b \in beats, b.to = o, age[o] <= b.age + Period
        PROVE  Expected(o)'
    <3>1. b \in beats' /\ age' = age
      BY <1>1 DEF SendHeartbeat
    <3> QED
      BY <2>2, <3>1 DEF Expected
  <2> QED
    BY <2>1, <2>2 DEF Expected
<1>2. CASE Tick
  <2>1. age'[o] <= age[o] + 1
    BY <1>2 DEF Tick, Cap
  <2>2. CASE age[o] <= sinceBeat
    BY <1>2, <2>1, <2>2 DEF Tick, Expected, Cap
  <2>3. ASSUME NEW b \in beats, b.to = o, age[o] <= b.age + Period
        PROVE  Expected(o)'
    <3>1. b.age \in Nat
      BY DEF Beat
    <3>2. [to |-> o, age |-> b.age + 1] \in beats'
      BY <1>2, <2>3 DEF Tick
    <3>3. age'[o] <= (b.age + 1) + Period
      BY <1>2, <2>1, <2>3, <3>1 DEF Tick, Cap
    <3> QED
      BY <3>2, <3>3 DEF Expected
  <2> QED
    BY <2>2, <2>3 DEF Expected
<1> QED
  BY <1>1, <1>2

\* What is expected comes before a peer may be suspected.
LEMMA ExpectedIsRecent ==
    ASSUME TimingOK, TypeOK, NEW o \in Observer, Expected(o)
    PROVE  age[o] <= FastSuspectAfter
  BY HalfIsNat, DetectorAssumption DEF TimingOK, TypeOK, Expected, Period, Beat, Cap

\* Before the first crash and the first loss all observers are supplied, so
\* that nobody is suspected and no suspicion is under way.
THEOREM NoFalseAlarms ==
    ASSUME TimingOK PROVE Spec => []NoFalseAlarm
<1>1. Init => Calm
  BY DetectorAssumption DEF Init, Calm, Expected
<1>2. TypeOK /\ Calm /\ [Next]_vars => Calm'
  <2> SUFFICES ASSUME TypeOK, Calm, [Next]_vars, crashes' = 0, losses' = 0
               PROVE  /\ up'
                      /\ rumours' = {}
                      /\ \A p \in Observer : /\ status'[p] \in {"unknown", "alive"}
                                             /\ Expected(p)'
    BY DEF Calm
  <2> DEFINE Goal == /\ up'
                     /\ rumours' = {}
                     /\ \A p \in Observer : /\ status'[p] \in {"unknown", "alive"}
                                            /\ Expected(p)'
  <2> SUFFICES Goal
    OBVIOUS
  <2>1. CASE ~(crashes = 0 /\ losses = 0)
    <3>1. /\ crashes' = crashes \/ crashes' = crashes + 1
          /\ losses' = losses \/ losses' = losses + 1
      <4>1. ASSUME NEW o \in Observer, Receive(o)
            PROVE  crashes' = crashes /\ losses' = losses
        BY <4>1 DEF Receive, OnHeartbeat, OnSuspicion, IgnoreSuspicion,
                    CountSuspicion
      <4>2. ASSUME NEW o \in Observer, AxlSync(o) \/ DetectFailures(o)
            PROVE  crashes' = crashes /\ losses' = losses
        BY <4>2 DEF AxlSync, DetectFailures, Suspect
      <4>3. ASSUME NEW o \in Observer, Discover(o) \/ Reboot(o) \/ Lose(o)
            PROVE  crashes' = crashes /\ losses' \in {losses, losses + 1}
        BY <4>3 DEF Discover, Reboot, Lose
      <4>4. CASE SendHeartbeat \/ Crash \/ Restart \/ Tick \/ UNCHANGED vars
        BY <4>4 DEF SendHeartbeat, Crash, Restart, Tick, vars
      <4> QED
        BY <4>1, <4>2, <4>3, <4>4 DEF Next
    <3> QED
      BY <2>1, <3>1, DetectorAssumption DEF TypeOK
  <2>2. CASE crashes = 0 /\ losses = 0
    <3>1. /\ up
          /\ rumours = {}
          /\ \A p \in Observer : status[p] \in {"unknown", "alive"} /\ Expected(p)
      BY <2>2 DEF Calm
    <3>2. CASE SendHeartbeat \/ Tick
      <4>1. \A p \in Observer : Expected(p)'
        BY <3>1, <3>2, BeatsKeepComing
      <4>2. up' /\ rumours' = {} /\ status' = status
        BY <3>1, <3>2 DEF SendHeartbeat, Tick
      <4> QED
        BY <3>1, <4>1, <4>2
    <3>3. ASSUME NEW o \in Observer, NEW b \in beats, OnHeartbeat(o, b)
          PROVE  Goal
      <4>1. up' /\ rumours' = {}
        BY <3>1, <3>3 DEF OnHeartbeat, Refuted
      <4>2. ASSUME NEW p \in Observer
            PROVE  status'[p] \in {"unknown", "alive"} /\ Expected(p)'
        <5>1. status'[p] \in {"unknown", "alive"}
          BY <3>1, <3>3 DEF OnHeartbeat, TypeOK
        <5>2. CASE p = o
          <6>1. age'[p] = 0 /\ sinceBeat' >= 0
            BY <3>3, <5>2, DetectorAssumption DEF OnHeartbeat, TypeOK, Period
          <6> QED
            BY <5>1, <6>1 DEF Expected
        <5>3. CASE p # o
          <6>1. age'[p] = age[p] /\ sinceBeat' = sinceBeat
            BY <3>3, <5>3 DEF OnHeartbeat, TypeOK
          <6>2. \A c \in beats : c.to = p => c \in beats'
            BY <3>3, <5>3 DEF OnHeartbeat
          <6> QED
            BY <3>1, <5>1, <6>1, <6>2 DEF Expected
        <5> QED
          BY <5>2, <5>3
      <4> QED
        BY <4>1, <4>2
    <3>4. ASSUME NEW o \in Observer, Discover(o) \/ Reboot(o) PROVE Goal
      <4>1. up' /\ rumours' = {}
        BY <3>1, <3>4 DEF Discover, Reboot, Refuted
      <4>2. ASSUME NEW p \in Observer
            PROVE  status'[p] \in {"unknown", "alive"} /\ Expected(p)'
        <5>1. status'[p] \in {"unknown", "alive"}
          BY <3>1, <3>4 DEF Discover, Reboot, TypeOK
        <5>2. sinceBeat' = sinceBeat /\ beats' = beats /\ sinceBeat >= 0
          BY <3>4, DetectorAssumption DEF Discover, Reboot, TypeOK, Period
        <5>3. age'[p] = 0 \/ age'[p] = age[p]
          BY <3>4 DEF Discover, Reboot, TypeOK
        <5> QED
          BY <3>1, <5>1, <5>2, <5>3 DEF Expected
      <4> QED
        BY <4>1, <4>2
    <3>5. ASSUME NEW o \in Observer, AxlSync(o) \/ DetectFailures(o)
          PROVE  FALSE
      <4>1. age[o] > FastSuspectAfter
        BY <3>5, HalfIsNat, DetectorAssumption DEF AxlSync, DetectFailures, TypeOK, Cap
      <4> QED
        BY <3>1, <4>1, ExpectedIsRecent, HalfIsNat DEF TypeOK, Cap
    <3>6. ASSUME NEW o \in Observer, OnSuspicion(o) \/ Lose(o) PROVE FALSE
      BY <2>2, <3>1, <3>6 DEF OnSuspicion, Lose
    <3>7. ~(Crash \/ Restart)
      BY <2>2, <3>1 DEF Crash, Restart
    <3>8. CASE UNCHANGED vars
      BY <3>1, <3>8 DEF vars, Expected
    <3> QED
      BY <3>2, <3>3, <3>4, <3>5, <3>6, <3>7, <3>8 DEF Next, Receive
  <2> QED
    BY <2>1, <2>2
<1>3. Calm => NoFalseAlarm
  BY DEF Calm, NoFalseAlarm
<1> QED
  BY <1>1, <1>2, <1>3, TypeCorrect, PTL DEF Spec
=============================================================================
