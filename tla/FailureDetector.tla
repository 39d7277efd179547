--------------------------- MODULE FailureDetector ---------------------------
(***************************************************************************)
(* The SWIM-like failure detector of whisper/membership.py, as it concerns *)
(* one provider, the Subject: the heartbeats it sends, the entry each      *)
(* other provider (Observer) keeps of it in `_peers', the suspicions they  *)
(* gossip about it and the reports each collects in `_suspicions'.         *)
(*                                                                         *)
(* Times are relative: `age' of an entry is now - last_seen, `age' of a    *)
(* message the time since it was made.  Ages stop growing at Cap, so       *)
(* behaviours are unbounded and the states finite.  A suspicion is one     *)
(* record with the observers a copy is on its way to (todo), those that    *)
(* have handled it (seen; `_seen_ids' lets a node handle a message once,   *)
(* whichever way it came) and those that have seen the subject since it    *)
(* was made (heard), which is what the comparison of last_seen with its    *)
(* timestamp finds out.  Every forwarder handles it for the first time, so *)
(* in a cluster of up to GOSSIP_HOPS nodes the hop count never runs out.   *)
(* Observers know each other and do not take each other for dead.          *)
(***************************************************************************)
EXTENDS Integers, FiniteSets

CONSTANTS Observer,           \* the other providers
          Subject,            \* the provider they watch
          HeartbeatInterval,  \* HEARTBEAT_INTERVAL
          SuspectAfter,       \* SUSPECT_AFTER
          DeadReportsNeeded,  \* DEAD_REPORTS_NEEDED
          GossipFanout,       \* GOSSIP_FANOUT
          MaxSend,            \* bound: how long a broadcast may take
          MaxDelay,           \* bound: how long a message may be on its way
          MaxLoss,            \* bound: messages lost
          MaxCrash,           \* bound: crashes of the subject
          MaxReboot           \* bound: restarts of observers

ASSUME ObserverAssumption == IsFiniteSet(Observer) /\ Subject \notin Observer
ASSUME DetectorAssumption ==
    /\ HeartbeatInterval \in Nat /\ MaxSend \in Nat /\ SuspectAfter \in Nat
    /\ DeadReportsNeeded \in Nat \ {0} /\ GossipFanout \in Nat
    /\ MaxDelay \in Nat
    /\ MaxLoss \in Nat /\ MaxCrash \in Nat /\ MaxReboot \in Nat

VARIABLES
    status,     \* status[o]: o's PeerStatus of the subject, or "unknown"
    age,        \* age[o]: how long ago o last saw it
    reports,    \* reports[o]: `_suspicions' of the subject at o
    beats,      \* heartbeats and node_joins on their way
    rumours,    \* suspicions on their way
    up,         \* the subject runs
    sinceBeat,  \* time since its last heartbeat
    crashes, losses, reboots

vars == <<status, age, reports, beats, rumours, up, sinceBeat,
          crashes, losses, reboots>>

PeerStatus == {"unknown", "alive", "suspected", "dead"}

\* axl_sync suspects after half the time; integer division is exact enough
\* for `age > SuspectAfter / 2' on whole numbers.
FastSuspectAfter == SuspectAfter \div 2

\* The longest time between two heartbeats: the loop sleeps between them and
\* sends to one peer after the other.
Period == HeartbeatInterval + MaxSend

Cap    == SuspectAfter + 1
Beat   == [to : Observer, age : 0..MaxDelay]
Rumour == [by   : Observer, age : 0..MaxDelay, todo : SUBSET Observer,
           seen : SUBSET Observer, heard : SUBSET Observer]

TypeOK ==
    /\ status    \in [Observer -> PeerStatus]
    /\ age       \in [Observer -> 0..Cap]
    /\ reports   \in [Observer -> SUBSET Observer]
    /\ beats     \subseteq Beat
    /\ rumours   \subseteq Rumour
    /\ up        \in BOOLEAN
    /\ sinceBeat \in 0..Period
    /\ crashes   \in 0..MaxCrash
    /\ losses    \in 0..MaxLoss
    /\ reboots   \in 0..MaxReboot

\* A message of the subject to every observer.  Peers it does not reach
\* itself get it from the others, which forward it.
ToAll == {[to |-> o, age |-> 0] : o \in Observer}

\* The subject has just started: its first heartbeat is on its way to the
\* peers of /topology.  broadcast_join sends nothing, as there is no snapshot
\* of AXL's connections yet.
Init ==
    /\ status    = [o \in Observer |-> "unknown"]
    /\ age       = [o \in Observer |-> 0]
    /\ reports   = [o \in Observer |-> {}]
    /\ beats     = ToAll
    /\ rumours   = {}
    /\ up        = TRUE
    /\ sinceBeat = 0
    /\ crashes   = 0
    /\ losses    = 0
    /\ reboots   = 0

-----------------------------------------------------------------------------
(* Signs of life.                                                          *)

\* The suspicions under way once o has seen the subject again.
Refuted(o) ==
    {[by |-> m.by, age |-> m.age, todo |-> m.todo, seen |-> m.seen,
      heard |-> m.heard \cup {o}] : m \in rumours}

\* _heartbeat_loop and _broadcast_heartbeat.
SendHeartbeat ==
    /\ up
    /\ sinceBeat >= HeartbeatInterval
    /\ beats' = beats \cup ToAll
    /\ sinceBeat' = 0
    /\ UNCHANGED <<status, age, reports, rumours, up, crashes, losses,
                   reboots>>

\* Mutant: the reports are dropped but the peer keeps its status.
OnHeartbeatNoRevival(o, b) ==
    /\ b.to = o
    /\ beats' = beats \ {b}
    /\ age' = [age EXCEPT ![o] = 0]
    /\ status' = [status EXCEPT ![o] = IF @ = "unknown" THEN "alive" ELSE @]
    /\ reports' = [reports EXCEPT ![o] = {}]
    /\ rumours' = Refuted(o)
    /\ UNCHANGED <<up, sinceBeat, crashes, losses, reboots>>

\* _on_heartbeat and _on_node_join, which do the same to the fields kept
\* here: the reports are dropped only if the peer was suspected or dead.
OnHeartbeat(o, b) ==
    /\ b.to = o
    /\ beats' = beats \ {b}
    /\ age' = [age EXCEPT ![o] = 0]
    /\ status' = [status EXCEPT ![o] = "alive"]
    /\ reports' = [reports EXCEPT ![o] =
                      IF status[o] \in {"suspected", "dead"} THEN {} ELSE @]
    /\ rumours' = Refuted(o)
    /\ UNCHANGED <<up, sinceBeat, crashes, losses, reboots>>

\* add_peer, the discovery part of axl_sync, and the known_peers of another
\* peer's heartbeat: a new entry is alive and just seen.
Discover(o) ==
    /\ status[o] = "unknown"
    /\ status' = [status EXCEPT ![o] = "alive"]
    /\ age' = [age EXCEPT ![o] = 0]
    /\ rumours' = Refuted(o)
    /\ UNCHANGED <<reports, beats, up, sinceBeat, crashes, losses,
                   reboots>>

-----------------------------------------------------------------------------
(* Suspicion.                                                              *)

\* _fanout, when the sender's entry of the subject is st: the observers
\* among the peers it picks.  A copy that goes to the subject has no effect.
Targets(o, st) ==
    LET peers == (Observer \ {o}) \cup
                 (IF st \in {"alive", "suspected"} THEN {Subject} ELSE {})
        picks == {P \in SUBSET peers :
                     \/ Cardinality(P) = GossipFanout
                     \/ Cardinality(P) < GossipFanout /\ P = peers}
    IN  {P \ {Subject} : P \in picks}

\* Mutant: the suspicion is stamped with the time of the last heartbeat.
SuspectBackdated(o) ==
    /\ status' = [status EXCEPT ![o] = "suspected"]
    /\ \E T \in Targets(o, "suspected") :
          rumours' = rumours \cup
                     {[by |-> o, age |-> age[o], todo |-> T, seen |-> {},
                       heard |-> {}]}
    /\ UNCHANGED <<age, reports, beats, up, sinceBeat, crashes, losses,
                   reboots>>

\* The entry becomes SUSPECTED; _gossip_suspicion.  The reporter counts
\* itself only when its own message comes back to it.
Suspect(o) ==
    /\ status' = [status EXCEPT ![o] = "suspected"]
    /\ \E T \in Targets(o, "suspected") :
          rumours' = rumours \cup
                     {[by |-> o, age |-> 0, todo |-> T, seen |-> {},
                       heard |-> {}]}
    /\ UNCHANGED <<age, reports, beats, up, sinceBeat, crashes, losses,
                   reboots>>

\* Mutant: silence is not measured for a peer that dropped out of the mesh.
AxlSyncAtOnce(o) ==
    /\ status[o] = "alive"
    /\ Suspect(o)

\* axl_sync, when the subject has dropped out of the AXL mesh.
AxlSync(o) ==
    /\ status[o] = "alive"
    /\ age[o] > FastSuspectAfter
    /\ Suspect(o)

\* Mutant: failures are only looked for among peers that were reported.
DetectFailuresReported(o) ==
    /\ status[o] = "alive"
    /\ reports[o] # {}
    /\ age[o] > SuspectAfter
    /\ Suspect(o)

\* _detect_failures.
DetectFailures(o) ==
    /\ status[o] = "alive"
    /\ age[o] > SuspectAfter
    /\ Suspect(o)

\* What is left of a rumour when o has handled it and sent it on to T.
PassOn(m, o, T) ==
    LET seen == m.seen \cup {o}
        todo == (m.todo \ {o}) \cup (T \ seen)
        rest == [by |-> m.by, age |-> m.age, todo |-> todo, seen |-> seen,
                 heard |-> m.heard]
    IN  (rumours \ {m}) \cup (IF todo = {} THEN {} ELSE {rest})

\* last_seen > timestamp, for a known peer.
Outdated(o, m) == status[o] # "unknown" /\ o \in m.heard

\* _on_suspicion for a report made before our last sign of life: dropped,
\* and not forwarded.
IgnoreSuspicion(o, m) ==
    /\ o \in m.todo
    /\ Outdated(o, m)
    /\ rumours' = PassOn(m, o, {})
    /\ UNCHANGED <<status, age, reports, beats, up, sinceBeat, crashes,
                   losses, reboots>>

\* _on_suspicion otherwise.  Reports on an unknown peer are collected too.
CountSuspicion(o, m) ==
    /\ o \in m.todo
    /\ ~Outdated(o, m)
    /\ reports' = [reports EXCEPT ![o] = @ \cup {m.by}]
    /\ LET enough  == Cardinality(reports[o] \cup {m.by}) >= DeadReportsNeeded
           verdict == IF status[o] # "unknown" /\ enough THEN "dead"
                                                         ELSE status[o]
       IN  /\ status' = [status EXCEPT ![o] = verdict]
           /\ \E T \in Targets(o, verdict) : rumours' = PassOn(m, o, T)
    /\ UNCHANGED <<age, beats, up, sinceBeat, crashes, losses, reboots>>

OnSuspicion(o) ==
    \E m \in rumours : IgnoreSuspicion(o, m) \/ CountSuspicion(o, m)

-----------------------------------------------------------------------------
(* Faults and time.                                                        *)

Crash ==
    /\ up
    /\ crashes < MaxCrash
    /\ crashes' = crashes + 1
    /\ up' = FALSE
    /\ UNCHANGED <<status, age, reports, beats, rumours, sinceBeat,
                   losses, reboots>>

\* start of the subject: the first heartbeat, as in Init.
Restart ==
    /\ ~up
    /\ up' = TRUE
    /\ beats' = beats \cup ToAll
    /\ sinceBeat' = 0
    /\ UNCHANGED <<status, age, reports, rumours, crashes, losses,
                   reboots>>

\* An observer is killed and started: nothing of membership is persisted,
\* `_seen_ids' included.
Reboot(o) ==
    /\ reboots < MaxReboot
    /\ reboots' = reboots + 1
    /\ status'   = [status EXCEPT ![o] = "unknown"]
    /\ age'      = [age EXCEPT ![o] = 0]
    /\ reports'  = [reports EXCEPT ![o] = {}]
    /\ rumours'  = {[by |-> m.by, age |-> m.age, todo |-> m.todo,
                     seen |-> m.seen \ {o}, heard |-> m.heard] : m \in rumours}
    /\ UNCHANGED <<beats, up, sinceBeat, crashes, losses>>

\* send fails, or AXL drops the message, on its way to o.
Lose(o) ==
    /\ losses < MaxLoss
    /\ losses' = losses + 1
    /\ \/ /\ \E b \in beats : b.to = o /\ beats' = beats \ {b}
          /\ UNCHANGED rumours
       \/ /\ \E m \in rumours :
                /\ o \in m.todo
                /\ rumours' = (rumours \ {m}) \cup
                      (IF m.todo = {o} THEN {}
                       ELSE {[by |-> m.by, age |-> m.age,
                              todo |-> m.todo \ {o}, seen |-> m.seen,
                              heard |-> m.heard]})
          /\ UNCHANGED beats
    /\ UNCHANGED <<status, age, reports, up, sinceBeat, crashes,
                   reboots>>

\* Time passes, but not beyond the next heartbeat or a message's arrival.
Tick ==
    /\ up => sinceBeat < Period
    /\ \A b \in beats : b.age < MaxDelay
    /\ \A m \in rumours : m.age < MaxDelay
    /\ age' = [o \in Observer |->
                  IF status[o] = "unknown" \/ age[o] = Cap
                    THEN age[o] ELSE age[o] + 1]
    /\ beats' = {[to |-> b.to, age |-> b.age + 1] : b \in beats}
    /\ rumours' = {[by |-> m.by, age |-> m.age + 1,
                    todo |-> m.todo, seen |-> m.seen,
                    heard |-> m.heard] : m \in rumours}
    /\ sinceBeat' = IF up THEN sinceBeat + 1 ELSE sinceBeat
    /\ UNCHANGED <<status, reports, up, crashes, losses, reboots>>

-----------------------------------------------------------------------------
Receive(o) == (\E b \in beats : OnHeartbeat(o, b)) \/ OnSuspicion(o)

Next ==
    \/ SendHeartbeat
    \/ \E o \in Observer :
          \/ Receive(o)
          \/ Discover(o)
          \/ AxlSync(o)
          \/ DetectFailures(o)
          \/ Reboot(o)
          \/ Lose(o)
    \/ Crash
    \/ Restart
    \/ Tick

Spec == Init /\ [][Next]_vars

\* The threads of the observers run and time passes.
Fairness ==
    /\ \A o \in Observer : WF_vars(Receive(o)) /\ WF_vars(DetectFailures(o))
    /\ WF_vars(Tick)

LiveSpec == Spec /\ Fairness

-----------------------------------------------------------------------------
\* A provider that never failed, and none of whose messages was lost, is
\* never suspected, reported or declared dead, also when it drops out of the
\* AXL mesh: SUSPECT_AFTER leaves room for the heartbeat interval and the
\* delay of relayed messages.
NoFalseAlarm ==
    crashes = 0 /\ losses = 0 =>
        /\ rumours = {}
        /\ \A o \in Observer : status[o] \in {"unknown", "alive"}

\* A peer that is suspected has been silent all along: each sign of life
\* ends the suspicion.
SuspectedIsSilent ==
    \A o \in Observer : status[o] = "suspected" => age[o] > FastSuspectAfter

\* A peer that is confirmed dead has the reports of DeadReportsNeeded
\* different nodes against it, and so it has again after each revival.
DeadIsReported ==
    \A o \in Observer :
        status[o] = "dead" => Cardinality(reports[o]) >= DeadReportsNeeded

\* Nobody goes on believing for ever that a provider which stopped for good
\* is alive.
CrashNoticed ==
    <>[]~up => <>[](\A o \in Observer : status[o] # "alive")
=============================================================================
