------------------------------ MODULE JobBoard ------------------------------
(***************************************************************************)
(* What the replicated ledger promises to the users of whisper, without    *)
(* records, versions, leases, messages, crashes or restarts: a board on    *)
(* which a job is posted once, and on which every provider has, for each   *)
(* job, a register it writes at most once.  A provider writes its own      *)
(* result there after working on a job, and tells the submitter at that    *)
(* moment or never; or it learns the result of a provider that has it.     *)
(*                                                                         *)
(* A job may have more than one result: execution is at least once.  What  *)
(* is excluded is that a result comes from nowhere, is replaced or is lost,*)
(* and that a submitter is told something its author does not keep.        *)
(***************************************************************************)
CONSTANTS Node,      \* the providers
          NoNode,    \* no result yet; not a provider
          Task,      \* the jobs
          P2PTask    \* the jobs whose submitter is notified

VARIABLES
    posted,   \* jobs that have been submitted
    answer,   \* answer[n][t]: the provider whose result n has for t, if any
    told      \* notifications to submitters

vars == <<posted, answer, told>>

Init ==
    /\ posted = {}
    /\ answer = [n \in Node |-> [t \in Task |-> NoNode]]
    /\ told   = {}

\* submit_task.
Post(t) ==
    /\ t \notin posted
    /\ posted' = posted \cup {t}
    /\ UNCHANGED <<answer, told>>

\* complete_task and _notify_submitter, whose message may not be sent.
Finish(n, t) ==
    /\ t \in posted
    /\ answer[n][t] = NoNode
    /\ answer' = [answer EXCEPT ![n][t] = n]
    /\ \/ told' = told \cup [task : {t} \cap P2PTask, by : {n}]
       \/ UNCHANGED told
    /\ UNCHANGED posted

\* handle_ledger_update with a completed record: author stands by its result.
Learn(n, t, author) ==
    /\ answer[n][t] = NoNode
    /\ answer[author][t] = author
    /\ answer' = [answer EXCEPT ![n][t] = author]
    /\ UNCHANGED <<posted, told>>

Next ==
    \E t \in Task :
        \/ Post(t)
        \/ \E n \in Node : \/ Finish(n, t)
                           \/ \E author \in Node : Learn(n, t, author)

Spec == Init /\ [][Next]_vars
=============================================================================
