---------------------------- MODULE JobLifecycle ----------------------------
(***************************************************************************)
(* What the job-run store and its workers promise to everything that only  *)
(* reads a run's status: the API, the dashboard and the workflow           *)
(* reconciler.  A submitted run waits, is active, may go back to waiting,  *)
(* and ends once, for good.  It ends as cancelled, or with a verdict that  *)
(* some execution of the attempt it is recorded under has returned.        *)
(*                                                                         *)
(* JobRuns implements this module; WorkflowRuns relies on no more than it. *)
(***************************************************************************)
EXTENDS Naturals

CONSTANTS Jobs, Attempts

VARIABLES
    phase,      \* "absent", "waiting", "active" or the terminal status
    attempt,    \* the attempt the run is recorded under
    verdicts    \* <<job, attempt, status>>: decided by an execution, not yet recorded

lifecycle == <<phase, attempt, verdicts>>

Endings == {"succeeded", "failed", "cancelled", "timed_out"}

LifecycleInit ==
    /\ phase = [j \in Jobs |-> "absent"]
    /\ attempt = [j \in Jobs |-> 0]
    /\ verdicts = {}

Submit(j) ==
    /\ phase[j] = "absent"
    /\ phase' = [phase EXCEPT ![j] = "waiting"]
    /\ UNCHANGED <<attempt, verdicts>>

\* An attempt begins: on a waiting run, or over an attempt that lost its worker.
Start(j) ==
    /\ phase[j] \in {"waiting", "active"}
    /\ phase' = [phase EXCEPT ![j] = "active"]
    /\ \E a \in Attempts : attempt' = [attempt EXCEPT ![j] = a]
    /\ UNCHANGED verdicts

\* A worker takes a waiting run and has not begun an attempt yet.
Take(j) ==
    /\ phase[j] = "waiting"
    /\ phase' = [phase EXCEPT ![j] = "active"]
    /\ UNCHANGED <<attempt, verdicts>>

\* An execution returns; its run may have moved on, or have ended, meanwhile.
Report(j) ==
    /\ phase[j] # "absent"
    /\ \E a \in Attempts, status \in Endings :
           verdicts' = verdicts \cup {<<j, a, status>>}
    /\ UNCHANGED <<phase, attempt>>

\* Active runs go back to waiting: their lease expired, or a retry is due.  One
\* recovery statement may take several of them.
PutBack ==
    /\ \E back \in SUBSET {j \in Jobs : phase[j] = "active"} :
           phase' = [j \in Jobs |-> IF j \in back THEN "waiting" ELSE phase[j]]
    /\ UNCHANGED <<attempt, verdicts>>

\* An execution is over, its worker dead or its verdict not wanted any more.
Drop ==
    /\ \E kept \in SUBSET verdicts : verdicts' = kept
    /\ UNCHANGED <<phase, attempt>>

Finish(j) ==
    /\ phase[j] = "active"
    /\ \E status \in Endings :
           /\ <<j, attempt[j], status>> \in verdicts
           /\ phase' = [phase EXCEPT ![j] = status]
           /\ \E kept \in SUBSET verdicts : verdicts' = kept
    /\ UNCHANGED attempt

Cancel(j) ==
    /\ phase[j] \in {"waiting", "active"}
    /\ phase' = [phase EXCEPT ![j] = "cancelled"]
    /\ UNCHANGED <<attempt, verdicts>>

LifecycleNext ==
    \/ PutBack
    \/ Drop
    \/ \E j \in Jobs :
           \/ Submit(j)
           \/ Take(j)
           \/ Start(j)
           \/ Report(j)
           \/ Finish(j)
           \/ Cancel(j)

LifecycleSpec == LifecycleInit /\ [][LifecycleNext]_lifecycle
=============================================================================
