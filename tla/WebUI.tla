------------------------------- MODULE WebUI --------------------------------
(***************************************************************************)
(* demo/webui.py: the poller that keeps a card per provider, the credits   *)
(* paid for completed jobs, and the requests of the operator, who stops    *)
(* and resumes provider processes and adds and removes providers.          *)
(*                                                                         *)
(* One job is followed.  Providers may hold different records of it: one   *)
(* may not have heard of the completion, and a lease recovered after a     *)
(* crash is renewed past its version.  A provider is known by its port,    *)
(* which fixes its key file and with it its key.  The poller reads /state  *)
(* of a provider without the lock and stores the answer later; everything  *)
(* else happens under the lock.  There is one operator, whose requests do  *)
(* not overlap.                                                            *)
(***************************************************************************)
EXTENDS Integers, FiniteSets

CONSTANTS Static,      \* ports given on the command line
          Spare,       \* ports that providers may be added on
          Record,      \* records of the job that providers may come to hold
          MaxRequests  \* bound: requests of the operator

Port == Static \cup Spare

ASSUME PortAssumption ==
    /\ Static \subseteq Nat \ {0} /\ IsFiniteSet(Static) /\ Static # {}
    /\ Spare \subseteq Nat /\ IsFiniteSet(Spare) /\ \A p \in Static, q \in Spare : p < q
ASSUME RecordAssumption  == Record \subseteq [v : Nat, by : {0} \cup Port]
ASSUME RequestAssumption == MaxRequests \in Nat

VARIABLES
    proc,        \* the provider process of each port
    terminated,  \* ports whose process has been sent SIGTERM
    report,      \* what /state of each provider says of the job
    card,        \* _node_states
    dynamic,     \* _dynamic_procs
    partitioned, \* _partitioned_ports
    chaos,       \* _chaos_killed_ports
    stoppedBy,   \* how a stopped process was stopped
    todo,        \* ports left in this round of the poller
    answer,      \* the answer that is not stored yet
    changed,     \* the round has changed a card
    credited,    \* the job is in _credited_tasks
    paid,        \* credits of each provider, up to 2
    requests

cluster  == <<proc, terminated, report>>
control  == <<dynamic, partitioned, chaos, stoppedBy, requests>>
poller   == <<todo, answer, changed>>
economy  == <<credited, paid>>
vars     == <<cluster, card, control, poller, economy>>

\* What a provider says of the job: its version, and by whom it was
\* completed, if it was.  A fresh job has version 0, and so has one the
\* provider does not know.
None    == 0
Fresh   == [v |-> 0, by |-> None]
Report  == {Fresh} \cup Record
Online  == [status : {"online"}, says : Report]
Absent  == [status |-> "absent",  says |-> Fresh]
Offline == [status |-> "offline", says |-> Fresh]
Card    == Online \cup {Absent, Offline}

Shown(p) == card[p].status = "online"
Listed   == {p \in Port : card[p] # Absent}

TypeOK ==
    /\ proc        \in [Port -> {"none", "running", "stopped"}]
    /\ terminated  \subseteq Port
    /\ report      \in [Port -> Report]
    /\ card        \in [Port -> Card]
    /\ dynamic     \subseteq Listed \cap Spare
    /\ partitioned \subseteq Port /\ chaos \subseteq Port
    /\ stoppedBy   \in [Port -> {"nobody", "kill", "chaos"}]
    /\ todo        \subseteq Port
    /\ answer      \in {<<>>} \cup (Port \X (Online \cup {Offline}))
    /\ changed     \in BOOLEAN
    /\ credited    \in BOOLEAN
    /\ paid        \in [Port -> 0..2]
    /\ requests    \in 0..MaxRequests

\* main: every port has a card, no answer has come in.
Init ==
    /\ proc        = [p \in Port |-> IF p \in Static THEN "running" ELSE "none"]
    /\ terminated  = {}
    /\ report      = [p \in Port |-> Fresh]
    /\ card        = [p \in Port |-> IF p \in Static THEN Offline ELSE Absent]
    /\ dynamic     = {}
    /\ partitioned = {}
    /\ chaos       = {}
    /\ stoppedBy   = [p \in Port |-> "nobody"]
    /\ todo        = {}
    /\ answer      = <<>>
    /\ changed     = FALSE
    /\ credited    = FALSE
    /\ paid        = [p \in Port |-> 0]
    /\ requests    = 0

Greatest(S) == CHOOSE p \in S : \A q \in S : q <= p

-----------------------------------------------------------------------------
(* The providers.                                                          *)

\* A running provider makes or adopts a newer record, or a completed one of
\* whatever version, which it then keeps.  Two may have executed the job.
Work(p) ==
    /\ proc[p] = "running"
    /\ report[p].by = None
    /\ \E new \in Record : /\ new.v > report[p].v \/ new.by # None
                           /\ report' = [report EXCEPT ![p] = new]
    /\ UNCHANGED <<proc, terminated, card, control, poller, economy>>

\* SIGTERM takes effect; a stopped process waits for SIGCONT.
End(p) ==
    /\ proc[p] = "running"
    /\ p \in terminated
    /\ proc' = [proc EXCEPT ![p] = "none"]
    /\ terminated' = terminated \ {p}
    /\ UNCHANGED <<report, card, control, poller, economy>>

-----------------------------------------------------------------------------
(* The poller.                                                             *)

\* The ports to poll are those that have a card now.
StartRound ==
    /\ todo = {} /\ answer = <<>> /\ ~changed
    /\ todo' = Listed
    /\ UNCHANGED <<cluster, card, control, answer, changed, economy>>

\* _poll_node, without the lock; a stopped provider does not answer in time.
Poll ==
    /\ answer = <<>>
    /\ \E p \in todo :
           /\ \A q \in todo : p <= q
           /\ answer' = <<p, IF proc[p] = "running"
                             THEN [status |-> "online", says |-> report[p]]
                             ELSE Offline>>
           /\ todo' = todo \ {p}
    /\ UNCHANGED <<cluster, card, control, changed, economy>>

\* A port without a card and one whose last answer was None look the same.
Differs(p, c) == IF c = Offline THEN Shown(p) ELSE card[p] # c

\* Mutant: an answer is stored only if there is one.
StoreOnlineOnly ==
    /\ answer # <<>>
    /\ IF Differs(answer[1], answer[2]) /\ answer[2] # Offline
       THEN card' = [card EXCEPT ![answer[1]] = answer[2]] /\ changed' = TRUE
       ELSE UNCHANGED <<card, changed>>
    /\ answer' = <<>>
    /\ UNCHANGED <<cluster, control, todo, economy>>

\* Mutant: only a card that comes or goes counts as a change.
StoreQuietly ==
    /\ answer # <<>>
    /\ LET p == answer[1] IN
           /\ card'    = [card EXCEPT ![p] = IF Differs(p, answer[2]) THEN answer[2] ELSE @]
           /\ changed' = (changed \/ card[p].status # card'[p].status)
    /\ answer' = <<>>
    /\ UNCHANGED <<cluster, control, todo, economy>>

\* The answer is stored even if the card was removed meanwhile.
Store ==
    /\ answer # <<>>
    /\ IF Differs(answer[1], answer[2])
       THEN card' = [card EXCEPT ![answer[1]] = answer[2]] /\ changed' = TRUE
       ELSE UNCHANGED <<card, changed>>
    /\ answer' = <<>>
    /\ UNCHANGED <<cluster, control, todo, economy>>

\* _build_payload: the cards whose record is the newest, completed or not.
\* If there are several, the first of them is taken, which may be any.
Newest == {p \in Port : Shown(p) /\ \A q \in Port :
                            Shown(q) => card[q].says.v <= card[p].says.v}

\* The cards that show the job as completed and may be the ones taken.
Sources == {p \in Newest : card[p].says.by # None}

Pay(q) == paid' = [paid EXCEPT ![q] = IF Shown(q) /\ @ < 2 THEN @ + 1 ELSE @]

\* Mutant: the job is not remembered.
CreditAgain ==
    \/ \E p \in Sources : credited' = TRUE /\ Pay(card[p].says.by)
    \/ Sources # Newest /\ UNCHANGED economy
    \/ Sources = {} /\ UNCHANGED economy

\* _update_economy: a job seen as completed is credited once, to its executor
\* if that one is online, and otherwise to nobody, for good.
Credit ==
    \/ ~credited /\ \E p \in Sources : credited' = TRUE /\ Pay(card[p].says.by)
    \/ (credited \/ Sources = {} \/ Sources # Newest) /\ UNCHANGED economy

EndRound ==
    /\ todo = {} /\ answer = <<>> /\ changed
    /\ Credit
    /\ changed' = FALSE
    /\ UNCHANGED <<cluster, card, control, todo, answer>>

\* on_connect, at any time.
Connect ==
    /\ Credit
    /\ UNCHANGED <<cluster, card, control, poller>>

Poller == StartRound \/ Poll \/ Store \/ EndRound

-----------------------------------------------------------------------------
(* The operator.                                                           *)

Request ==
    /\ requests < MaxRequests
    /\ requests' = requests + 1
    /\ UNCHANGED <<report, poller, economy>>

Alive(S) == {p \in S : proc[p] # "none"}    \* _find_whisper_pid finds one

\* SIGSTOP and SIGCONT to the processes of S.
Stop(S, who) ==
    /\ proc'      = [p \in Port |-> IF p \in Alive(S) THEN "stopped" ELSE proc[p]]
    /\ stoppedBy' = [p \in Port |-> IF p \in Alive(S) THEN who ELSE stoppedBy[p]]

Continue(S) ==
    /\ proc'      = [p \in Port |-> IF p \in Alive(S) THEN "running" ELSE proc[p]]
    /\ stoppedBy' = [p \in Port |-> IF p \in Alive(S) THEN "nobody" ELSE stoppedBy[p]]

\* api_kill, api_revive: the sets are not touched.
Kill(p) ==
    /\ Request /\ Alive({p}) # {}
    /\ Stop({p}, IF stoppedBy[p] = "chaos" THEN "chaos" ELSE "kill")
    /\ UNCHANGED <<terminated, card, dynamic, partitioned, chaos>>

Revive(p) ==
    /\ Request /\ Alive({p}) # {}
    /\ Continue({p})
    /\ UNCHANGED <<terminated, card, dynamic, partitioned, chaos>>

\* api_kill_random, api_partition: cards tell who is alive.
KillRandom(S) ==
    /\ Request /\ S # {} /\ \A p \in S : Shown(p) /\ Alive({p}) # {}
    /\ Stop(S, "chaos")
    /\ chaos' = chaos \cup S
    /\ UNCHANGED <<terminated, card, dynamic, partitioned>>

LowerHalf(S) == {p \in S : 2 * Cardinality({q \in S : q <= p}) <= Cardinality(S)}

Partition ==
    LET half == Alive(LowerHalf({p \in Port : Shown(p)})) IN
        /\ Request
        /\ Stop(half, "chaos")
        /\ partitioned' = partitioned \cup half
        /\ UNCHANGED <<terminated, card, dynamic, chaos>>

\* Mutant: both sets are emptied.
HealForgetsAll ==
    /\ Request
    /\ Continue(partitioned)
    /\ partitioned' = {} /\ chaos' = {}
    /\ UNCHANGED <<terminated, card, dynamic>>

\* api_heal, api_revive_all.
Heal ==
    /\ Request
    /\ Continue(partitioned)
    /\ partitioned' = {}
    /\ UNCHANGED <<terminated, card, dynamic, chaos>>

ReviveAll ==
    /\ Request
    /\ Continue(partitioned \cup chaos)
    /\ partitioned' = {} /\ chaos' = {}
    /\ UNCHANGED <<terminated, card, dynamic>>

\* api_nodes_add: one port beyond the highest card.  A process that still
\* listens there keeps the new one from starting.
Add ==
    LET p == Greatest(Listed) + 1 IN
        /\ Request
        /\ p \in Spare
        /\ proc'    = [proc EXCEPT ![p] = IF @ = "none" THEN "running" ELSE @]
        /\ card'    = [card EXCEPT ![p] = Offline]
        /\ dynamic' = dynamic \cup {p}
        /\ UNCHANGED <<terminated, partitioned, chaos, stoppedBy>>

\* Mutant: the process is forgotten, its card stays in the list of added ones.
RemoveKeepsEntry ==
    \E p \in dynamic :
        /\ Request
        /\ \A q \in dynamic : q <= p
        /\ card'       = [card EXCEPT ![p] = Absent]
        /\ terminated' = terminated \cup Alive({p})
        /\ UNCHANGED <<proc, dynamic, partitioned, chaos, stoppedBy>>

\* api_nodes_remove: the newest one.
Remove ==
    \E p \in dynamic :
        /\ Request
        /\ \A q \in dynamic : q <= p
        /\ dynamic'    = dynamic \ {p}
        /\ card'       = [card EXCEPT ![p] = Absent]
        /\ terminated' = terminated \cup Alive({p})
        /\ UNCHANGED <<proc, partitioned, chaos, stoppedBy>>

Operator ==
    \/ \E p \in Port : Kill(p) \/ Revive(p)
    \/ \E S \in SUBSET Port : KillRandom(S)
    \/ Partition \/ Heal \/ ReviveAll
    \/ Add \/ Remove

Next ==
    \/ \E p \in Port : Work(p) \/ End(p)
    \/ Poller
    \/ Connect
    \/ Operator

Spec == Init /\ [][Next]_vars

\* The poller's thread runs, and SIGTERM ends a running process.
LiveSpec == Spec /\ WF_vars(Poller) /\ WF_vars(\E p \in Port : End(p))

-----------------------------------------------------------------------------
(* Properties.                                                             *)

\* One credit at most is paid for a job, although two providers may both
\* have completed it, cards come and go, and browsers connect meanwhile.
PaidOnce ==
    \A p \in Port : paid[p] <= 1 /\ \A q \in Port \ {p} : paid[p] + paid[q] <= 1

\* Whatever the chaos buttons stop can be resumed by them: heal and revive
\* all do not forget a provider that is still stopped.
StoppedIsListed ==
    \A p \in Port : stoppedBy[p] = "chaos" => p \in partitioned \cup chaos

\* The cards follow the providers, although an answer may be stored long
\* after it was given, and after its card was removed.
CardsFollow ==
    \A p \in Port :
        /\ <>[](proc[p] = "running" /\ p \in Static) => <>[](card[p].says = report[p])
        /\ <>[](proc[p] # "running") => <>[]~Shown(p)

\* What the cards say of the job for certain, whichever newest card is taken.
LatestDone == Sources # {} /\ Sources = Newest

\* No completion goes by unnoticed: a poll that brings the newest record of
\* the cards to completed marks the round as changed, and a changed round
\* that ends with it completed credits the job.  A removed card, which may
\* have hidden a completed record behind a newer one, marks no round, and a
\* record that stays hidden is never credited.
CreditFollows ==
    /\ [][(~LatestDone /\ LatestDone') => (changed' \/ Listed' # Listed)]_vars
    /\ (LatestDone /\ changed) ~> (credited \/ ~LatestDone)
=============================================================================
