----------------------------- MODULE JobService -----------------------------
(***************************************************************************)
(* What the Navitab core promises of DeferredJobRunner::RunLater: one      *)
(* sequence of jobs, run one at a time in the order in which they were     *)
(* posted, until the service is closed.  Nothing is said of mutexes,       *)
(* condition variables or wake-ups; JobQueue implements this module.       *)
(***************************************************************************)
EXTENDS Naturals, Sequences

CONSTANT Jobs

VARIABLES posted,    \* every job ever posted, in posting order
          executed,  \* the jobs whose execution has begun, in order
          phase      \* "open", "closing" (Stop called), "closed" (joined)

vars == <<posted, executed, phase>>

Init ==
    /\ posted = <<>>
    /\ executed = <<>>
    /\ phase = "open"

Post(j) ==
    /\ posted' = Append(posted, j)
    /\ UNCHANGED <<executed, phase>>

Run ==
    /\ phase # "closed"
    /\ Len(executed) < Len(posted)
    /\ executed' = Append(executed, posted[Len(executed) + 1])
    /\ UNCHANGED <<posted, phase>>

Close ==
    /\ phase = "open"
    /\ phase' = "closing"
    /\ UNCHANGED <<posted, executed>>

Closed ==
    /\ phase = "closing"
    /\ phase' = "closed"
    /\ UNCHANGED <<posted, executed>>

Next ==
    \/ \E j \in Jobs : Post(j)
    \/ Run
    \/ Close
    \/ Closed

(* While open, the service keeps running jobs; closing ends.               *)
Fairness ==
    /\ WF_vars(phase = "open" /\ Run)
    /\ WF_vars(Closed)

SafeSpec == Init /\ [][Next]_vars

Spec == SafeSpec /\ Fairness
=============================================================================
