---------------------------- MODULE WorkflowRuns ----------------------------
(***************************************************************************)
(* Workflow runs: the tables and transactions of crates/postgres           *)
(* workflow_runs.rs and workflows.rs, the scheduler process that drives    *)
(* them (crates/scheduler), the fast path a worker takes when a step's job *)
(* ends, and the API operations that create, edit, stop and resume.        *)
(*                                                                         *)
(* Every store operation that runs in one transaction on locked rows is    *)
(* one action; the scheduler's tick is cut where it goes back to the       *)
(* database.  A step's job run is what JobLifecycle promises of it, seen   *)
(* through the three things a reconciliation can tell apart: waiting       *)
(* ("queued", which retry_scheduled counts as), "running" (leased too),    *)
(* and how it ended.                                                       *)
(***************************************************************************)
EXTENDS WorkflowGraph

CONSTANTS
    Runs,           \* workflow run ids
    Schedulers,     \* scheduler processes
    NoWorkflow,     \* the definition row is gone
    AdvanceLimit,   \* LIMIT of advance_workflow_runs
    GraphLimits,    \* the MAX_WORKFLOW_* limits of the API
    Scenarios,      \* deployments: which definitions, runs and faults
    MaxFaults       \* crashes, lock contention, retries, per behaviour

ASSUME AdvanceLimitPositive == AdvanceLimit \in Nat \ {0}

VARIABLES
    scenario,       \* the deployment at hand, a member of Scenarios
    live,           \* workflow_definitions, steps and dependencies
    jobDefs,        \* ids in job_definitions
    created,        \* workflow run ids in the order of created_at
    run,            \* workflow_runs
    stepRun,        \* workflow_step_runs joined with their job_runs
    automation,     \* the automation's status and next_fire_at
    sched,          \* where each scheduler is in its tick
    faults          \* faults and edits so far

workflowVars == <<scenario, live, jobDefs, created, run, stepRun, automation, sched, faults>>
tables == <<live, jobDefs, created, run, stepRun, automation>>

Active(r) == run[r].status \in {"queued", "running"}
ActiveSteps(steps) == {s \in DOMAIN steps : steps[s].status \in {"queued", "running"}}
JobIsActive(job) == job \in {"queued", "running"}
Allowed(edit) == edit \in scenario.edits /\ faults < MaxFaults
Spend == faults' = faults + 1

NewRun == [status |-> "absent", snapshot |-> NoWorkflow, deadline |-> "none", position |-> 0]

Position(wf, steps) == Max({0} \cup {StepOf(wf, s).position : s \in steps})

-----------------------------------------------------------------------------
(***************************************************************************)
(* Creating a run pins the definition it will follow and starts its        *)
(* deadline.                                                               *)
(***************************************************************************)
DeadlineFrom(seconds) == IF seconds = "none" THEN "none" ELSE "ahead"

Queued(wf) ==
    [status |-> "queued", snapshot |-> wf, deadline |-> DeadlineFrom(wf.deadline), position |-> 0]

\* generated_id: ids are not used twice.
FreshIds == {r \in scenario.runs : run[r].status = "absent"}
GeneratedId == CHOOSE r \in FreshIds : TRUE

InsertRun(r) ==
    /\ run[r].status = "absent"
    /\ live # NoWorkflow
    /\ run' = [run EXCEPT ![r] = Queued(live)]
    /\ created' = Append(created, r)

\* The API's trigger_automation: the automation's status is not asked for.
TriggerAutomation ==
    /\ "manual" \in scenario.edits
    /\ automation.status # "absent"
    /\ FreshIds # {}
    /\ InsertRun(GeneratedId)
    /\ UNCHANGED <<scenario, live, jobDefs, stepRun, automation, sched, faults>>

-----------------------------------------------------------------------------
(***************************************************************************)
(* One reconciliation: reconcile_workflow_run.  The result of the whole    *)
(* transaction on the run's row and its step rows, and the job definitions *)
(* the new job rows refer to; a missing one violates a foreign key and     *)
(* rolls everything back.                                                  *)
(***************************************************************************)
Synced(steps) ==
    [s \in DOMAIN steps |->
        IF steps[s].job = "none" THEN steps[s]
        ELSE [steps[s] EXCEPT !.status = steps[s].job]]

\* (mutant) The deadline marks the steps and leaves their jobs running.
StoppedRowsOnly(steps, status) ==
    [s \in DOMAIN steps |->
        IF s \in ActiveSteps(steps) THEN [steps[s] EXCEPT !.status = status]
                                    ELSE steps[s]]

Stopped(steps, status) ==
    [s \in DOMAIN steps |->
        IF s \in ActiveSteps(steps)
        THEN [status |-> status,
              job    |-> IF JobIsActive(steps[s].job) THEN "cancelled" ELSE steps[s].job]
        ELSE steps[s]]

NewRows(steps, ready, skipped) ==
    [s \in DOMAIN steps \cup ready \cup skipped |->
        IF s \in DOMAIN steps THEN steps[s]
        ELSE IF s \in ready THEN [status |-> "queued", job |-> "queued"]
        ELSE [status |-> "skipped", job |-> "none"]]

Advance(row, steps) ==
    LET wf      == row.snapshot
        states  == [s \in DOMAIN steps |-> steps[s].status]
        active  == ActiveSteps(steps) # {}
        failed  == \E s \in DOMAIN steps : states[s] \in {"failed", "cancelled", "timed_out"}
        whole   == DOMAIN steps = StepIds(wf)
        ready   == ReadyStepsWithPolicies(wf, states)
        stuck   == failed /\ ~active /\ ready = {}
        skipped == IF stuck THEN BlockedStepsAfterTerminalFailure(wf, states) ELSE {}
        reached == Position(wf, DOMAIN steps \cup ready \cup skipped)
        Status(s) == [row EXCEPT !.status = s]
    IN IF whole /\ \A s \in DOMAIN steps : states[s] \in {"succeeded", "skipped"}
       THEN [row |-> Status("succeeded"), steps |-> steps, needs |-> {}]
       ELSE [row   |-> IF stuck /\ skipped = {} THEN Status("failed")
                       ELSE IF ready # {} \/ row.status = "queued"
                       THEN [Status("running") EXCEPT !.position = Max({@, reached})]
                       ELSE row,
             steps |-> NewRows(steps, ready, skipped),
             needs |-> {StepOf(wf, s).job : s \in ready}]

Reconciled(row, steps) ==
    IF row.deadline = "past"
    THEN [row   |-> [row EXCEPT !.status = "timed_out"],
          steps |-> Stopped(steps, "timed_out"),
          needs |-> {}]
    ELSE Advance(row, Synced(steps))

ReconcileFails(r) == Active(r) /\ ~(Reconciled(run[r], stepRun[r]).needs \subseteq jobDefs)

ReconcileWorkflowRun(r) ==
    LET result == Reconciled(run[r], stepRun[r])
    IN /\ ~ReconcileFails(r)
       /\ run' = IF Active(r) THEN [run EXCEPT ![r] = result.row] ELSE run
       /\ stepRun' = IF Active(r) THEN [stepRun EXCEPT ![r] = result.steps] ELSE stepRun

-----------------------------------------------------------------------------
(***************************************************************************)
(* The scheduler's tick: fire the automations that are due, then advance   *)
(* the oldest active runs.  An error anywhere ends the process, which its  *)
(* supervisor starts again.                                                *)
(***************************************************************************)
AtTick(n, pc) == n \in scenario.schedulers /\ sched[n].pc = pc

\* (bound) An id is left for every scheduler that is about to fire.
RoomToFire == Cardinality(FreshIds) > Cardinality({m \in Schedulers : sched[m].pc = "fire"})

SelectDue(n) ==
    /\ AtTick(n, "idle")
    /\ sched' = [sched EXCEPT ![n].pc =
           IF automation.status = "enabled" /\ automation.fire = "due" /\ RoomToFire
           THEN "fire" ELSE "list"]
    /\ UNCHANGED <<scenario, tables, faults>>

\* The row was read without a lock: another scheduler may have fired it, and
\* the automation may have been disabled since.
FireInterval(n) ==
    /\ AtTick(n, "fire")
    /\ FreshIds # {}
    /\ InsertRun(GeneratedId)
    /\ automation' = [automation EXCEPT !.fire = "later"]
    /\ sched' = [sched EXCEPT ![n].pc = "list"]
    /\ UNCHANGED <<scenario, live, jobDefs, stepRun, faults>>

\* (mutant) Only runs that have not started are advanced.
ListQueuedOnly(n) ==
    /\ AtTick(n, "list")
    /\ LET active == SelectSeq(created, LAMBDA r : run[r].status = "queued")
       IN sched' = [sched EXCEPT ![n] = [pc |-> IF active = <<>> THEN "idle" ELSE "advance",
                                         list |-> active]]
    /\ UNCHANGED <<scenario, tables, faults>>

ListActiveRuns(n) ==
    /\ AtTick(n, "list")
    /\ LET active == SelectSeq(created, Active)
           oldest == SubSeq(active, 1, Min({Len(active), AdvanceLimit}))
       IN sched' = [sched EXCEPT ![n] = [pc |-> IF active = <<>> THEN "idle" ELSE "advance",
                                         list |-> oldest]]
    /\ UNCHANGED <<scenario, tables, faults>>

Rest(n) ==
    LET rest == Tail(sched[n].list)
    IN [pc |-> IF rest = <<>> THEN "idle" ELSE "advance", list |-> rest]

AdvanceNext(n) ==
    /\ AtTick(n, "advance")
    /\ ReconcileWorkflowRun(Head(sched[n].list))
    /\ sched' = [sched EXCEPT ![n] = Rest(n)]
    /\ UNCHANGED <<scenario, live, jobDefs, created, automation, faults>>

\* Somebody else holds the run's advisory lock: it is left for the next tick.
AdvanceSkips(n) ==
    /\ AtTick(n, "advance")
    /\ faults < MaxFaults
    /\ sched' = [sched EXCEPT ![n] = Rest(n)]
    /\ Spend
    /\ UNCHANGED <<scenario, tables>>

AdvanceFails(n) ==
    /\ AtTick(n, "advance")
    /\ ReconcileFails(Head(sched[n].list))
    /\ sched' = [sched EXCEPT ![n] = [pc |-> "down", list |-> <<>>]]
    /\ UNCHANGED <<scenario, tables, faults>>

SchedulerCrashes(n) ==
    /\ n \in scenario.schedulers
    /\ sched[n].pc \notin {"idle", "down"}
    /\ faults < MaxFaults
    /\ sched' = [sched EXCEPT ![n] = [pc |-> "down", list |-> <<>>]]
    /\ Spend
    /\ UNCHANGED <<scenario, tables>>

SchedulerRestarts(n) ==
    /\ AtTick(n, "down")
    /\ sched' = [sched EXCEPT ![n].pc = "idle"]
    /\ UNCHANGED <<scenario, tables, faults>>

\* advance_workflow_runs_for_job_run, called by the worker that saw the job end.
WorkerAdvances(r) ==
    /\ \E s \in DOMAIN stepRun[r] :
           stepRun[r][s].job # "none" /\ ~JobIsActive(stepRun[r][s].job)
    /\ Active(r)
    /\ ReconcileWorkflowRun(r)
    /\ UNCHANGED <<scenario, live, jobDefs, created, automation, sched, faults>>

-----------------------------------------------------------------------------
(***************************************************************************)
(* Operations on a run through the API.                                    *)
(***************************************************************************)
RemoveQueuedRun(r) ==
    /\ Allowed("remove")
    /\ run[r].status = "queued"
    /\ DOMAIN stepRun[r] = {}
    /\ run' = [run EXCEPT ![r].status = "removed"]
    /\ Spend
    /\ UNCHANGED <<scenario, live, jobDefs, created, stepRun, automation, sched>>

CancelRunningRun(r) ==
    /\ Allowed("cancel")
    /\ run[r].status = "running"
    /\ ActiveSteps(stepRun[r]) # {}
    /\ stepRun' = [stepRun EXCEPT ![r] = Stopped(@, "cancelled")]
    /\ run' = [run EXCEPT ![r].status = "cancelled"]
    /\ Spend
    /\ UNCHANGED <<scenario, live, jobDefs, created, automation, sched>>

\* (mutant) Resuming starts over instead of from the checkpoints.
ResumeFromScratch(r) ==
    /\ Allowed("resume")
    /\ run[r].status \in {"failed", "timed_out"}
    /\ stepRun' = [stepRun EXCEPT ![r] = <<>>]
    /\ run' = [run EXCEPT ![r] = [@ EXCEPT !.status = "running", !.position = 0]]
    /\ Spend
    /\ UNCHANGED <<scenario, live, jobDefs, created, automation, sched>>

ResumeRun(r) ==
    LET kept == {s \in DOMAIN stepRun[r] : stepRun[r][s].status = "succeeded"}
        wf   == run[r].snapshot
    IN /\ Allowed("resume")
       /\ run[r].status \in {"failed", "timed_out"}
       /\ stepRun' = [stepRun EXCEPT ![r] = Restrict(@, kept)]
       /\ run' = [run EXCEPT ![r] =
              [@ EXCEPT !.status = "running",
                        !.position = Position(wf, kept),
                        !.deadline = DeadlineFrom(IF wf.deadline = "none" THEN live.deadline
                                                                          ELSE wf.deadline)]]
       /\ Spend
       /\ UNCHANGED <<scenario, live, jobDefs, created, automation, sched>>

-----------------------------------------------------------------------------
(***************************************************************************)
(* Editing definitions.  An update is refused while a run is active; a     *)
(* create with the id of a stored workflow replaces it all the same.  The  *)
(* rows of the jobs a workflow names are share-locked while it is stored.  *)
(***************************************************************************)
StepJobs(wf) == {wf.steps[i].job : i \in DOMAIN wf.steps}

UpsertWorkflow(wf) ==
    /\ GraphFault(wf) = "none"
    /\ WithinGraphLimits(wf, GraphLimits)
    /\ StepJobs(wf) \subseteq jobDefs
    /\ live' = wf
    /\ Spend
    /\ UNCHANGED <<scenario, jobDefs, created, run, stepRun, automation, sched>>

CreateWorkflow(wf) == Allowed("create") /\ UpsertWorkflow(wf)

UpdateWorkflow(wf) ==
    /\ Allowed("update")
    /\ live # NoWorkflow
    /\ ~\E r \in Runs : Active(r)
    /\ UpsertWorkflow(wf)

\* Runs of a workflow keep its row: they refer to it.
DeleteWorkflow ==
    /\ Allowed("delete")
    /\ live # NoWorkflow
    /\ automation.status = "absent"
    /\ created = <<>>
    /\ live' = NoWorkflow
    /\ Spend
    /\ UNCHANGED <<scenario, jobDefs, created, run, stepRun, automation, sched>>

\* Only the stored workflows are asked whether they use the job; job runs
\* that refer to it keep it.
DeleteJobDefinition(d) ==
    /\ Allowed("delete_job")
    /\ d \in jobDefs
    /\ live = NoWorkflow \/ d \notin StepJobs(live)
    /\ ~\E r \in Runs : \E s \in DOMAIN stepRun[r] :
           stepRun[r][s].job # "none" /\ StepOf(run[r].snapshot, s).job = d
    /\ jobDefs' = jobDefs \ {d}
    /\ Spend
    /\ UNCHANGED <<scenario, live, created, run, stepRun, automation, sched>>

SetAutomationStatus(status) ==
    /\ Allowed("toggle")
    /\ automation.status \notin {"absent", status}
    /\ automation' = [status |-> status,
                      fire   |-> IF status = "enabled" /\ scenario.interval
                                 THEN IF automation.fire = "none" THEN "due" ELSE automation.fire
                                 ELSE "none"]
    /\ Spend
    /\ UNCHANGED <<scenario, live, jobDefs, created, run, stepRun, sched>>

-----------------------------------------------------------------------------
(***************************************************************************)
(* Time, and the jobs themselves.                                          *)
(***************************************************************************)
DeadlinePasses(r) ==
    /\ Active(r)
    /\ run[r].deadline = "ahead"
    /\ run' = [run EXCEPT ![r].deadline = "past"]
    /\ UNCHANGED <<scenario, live, jobDefs, created, stepRun, automation, sched, faults>>

FireFallsDue ==
    /\ automation.fire = "later"
    /\ FreshIds # {}
    /\ automation' = [automation EXCEPT !.fire = "due"]
    /\ UNCHANGED <<scenario, live, jobDefs, created, run, stepRun, sched, faults>>

JobMoves(r, s, from, to) ==
    /\ s \in DOMAIN stepRun[r]
    /\ stepRun[r][s].job \in from
    /\ stepRun' = [stepRun EXCEPT ![r][s].job = to]
    /\ UNCHANGED <<scenario, live, jobDefs, created, run, automation, sched>>

JobStarts(r, s) == JobMoves(r, s, {"queued"}, "running") /\ UNCHANGED faults
JobEnds(r, s) ==
    \E outcome \in {"succeeded", "failed", "timed_out"} :
        JobMoves(r, s, {"running"}, outcome) /\ UNCHANGED faults
JobWaitsAgain(r, s) ==
    faults < MaxFaults /\ JobMoves(r, s, {"running"}, "queued") /\ Spend
JobIsCancelled(r, s) ==
    Allowed("cancel_job") /\ JobMoves(r, s, {"queued", "running"}, "cancelled") /\ Spend

-----------------------------------------------------------------------------
WorkflowInit ==
    /\ scenario \in Scenarios
    /\ live = scenario.live
    /\ jobDefs = scenario.jobDefs
    /\ created = <<>>
    /\ run = [r \in Runs |-> NewRun]
    /\ stepRun = [r \in Runs |-> <<>>]
    /\ automation = [status |-> "enabled", fire |-> IF scenario.interval THEN "due" ELSE "none"]
    /\ sched = [n \in Schedulers |-> [pc |-> "idle", list |-> <<>>]]
    /\ faults = 0

SchedulerStep(n) ==
    \/ SelectDue(n) \/ FireInterval(n) \/ ListActiveRuns(n)
    \/ AdvanceNext(n) \/ AdvanceSkips(n) \/ AdvanceFails(n)
    \/ SchedulerCrashes(n) \/ SchedulerRestarts(n)

WorkflowNext ==
    \/ \E n \in Schedulers : SchedulerStep(n)
    \/ \E r \in Runs :
           \/ WorkerAdvances(r) \/ RemoveQueuedRun(r)
           \/ CancelRunningRun(r) \/ ResumeRun(r) \/ DeadlinePasses(r)
           \/ \E s \in DOMAIN stepRun[r] :
                  JobStarts(r, s) \/ JobEnds(r, s) \/ JobWaitsAgain(r, s) \/ JobIsCancelled(r, s)
    \/ \E wf \in scenario.definitions : CreateWorkflow(wf) \/ UpdateWorkflow(wf)
    \/ \E d \in jobDefs : DeleteJobDefinition(d)
    \/ \E status \in {"enabled", "disabled"} : SetAutomationStatus(status)
    \/ TriggerAutomation
    \/ DeleteWorkflow
    \/ FireFallsDue

\* What the rest of the system may do to these tables: evaluators create runs
\* (Triggers), and nothing else touches a run or its steps.
Elsewhere ==
    /\ UNCHANGED stepRun
    /\ UNCHANGED <<run, created>> \/ \E r \in Runs : InsertRun(r)

\* Schedulers, workers and API calls move a run by their own transactions alone,
\* whatever evaluators, webhooks and edits of the triggers do beside them: an
\* evaluator never touches a run that exists, nor the steps of any
\* (complete_trigger_group), and deleting an automation leaves its runs alone
\* (delete_automation).
WorkflowSpec == WorkflowInit /\ [][WorkflowNext \/ Elsewhere]_workflowVars

-----------------------------------------------------------------------------
(***************************************************************************)
(* Properties.                                                             *)
(***************************************************************************)
\* A step that was given a job has all its hard parents succeeded, in the
\* definition the run pinned, however often the run was resumed and the
\* stored definition edited (ready_steps_with_policies, resume_workflow_run).
HardParentsFirst ==
    \A r \in Runs : \A s \in DOMAIN stepRun[r] :
        stepRun[r][s].job # "none" =>
            \A d \in DepsInto(run[r].snapshot, s) :
                d.policy = "hard" =>
                    d.from \in DOMAIN stepRun[r] /\ stepRun[r][d.from].status = "succeeded"

\* No work outlives its run: once a run has ended, by finishing, failing, its
\* deadline or a cancellation, none of its steps is open and none of its jobs
\* can still be leased (reconcile_workflow_run, cancel_running_workflow_run).
EndedRunsAreQuiet ==
    \A r \in Runs : run[r].status \in RunStatuses /\ IsTerminal(run[r].status) =>
        \A s \in DOMAIN stepRun[r] :
            /\ stepRun[r][s].status \notin {"queued", "running"}
            /\ ~JobIsActive(stepRun[r][s].job)

\* A step that succeeded stays succeeded: nothing, resuming included, makes
\* a run repeat it (resume_workflow_run's checkpoints).
SucceededStepsKept ==
    [][\A r \in Runs : \A s \in DOMAIN stepRun[r] :
           stepRun[r][s].status = "succeeded" =>
               s \in DOMAIN stepRun'[r] /\ stepRun'[r][s].status = "succeeded"]_workflowVars

\* The definitions an active run still needs.
LacksDefinition(r) ==
    /\ Active(r)
    /\ ~({StepOf(run[r].snapshot, s).job :
             s \in StepIds(run[r].snapshot) \ DOMAIN stepRun[r]} \subseteq jobDefs)

\* Every run ends, as long as its jobs end and the scheduler keeps ticking,
\* unless a job definition that some active run still needs was deleted
\* (advance_workflow_runs; the scheduler's loop).
RunsEnd ==
    \A r \in Runs :
        Active(r) /\ scenario.schedulers # {}
            ~> ~Active(r) \/ \E q \in Runs : LacksDefinition(q)

StepSpace == UNION {UNION {StepIds(wf) : wf \in c.definitions} : c \in Scenarios}

(***************************************************************************)
(* Fairness.  A scheduler that is up keeps ticking and one that is down is *)
(* started again; every job run ends or is waited for again, by the        *)
(* attempts and timeouts of JobRuns.                                       *)
(***************************************************************************)
SchedulersTick ==
    \A n \in Schedulers : []<>(n \notin scenario.schedulers) \/ []<><<sched'[n] # sched[n]>>_workflowVars

JobsEnd ==
    \A r \in Runs, s \in StepSpace :
        []<>(s \in DOMAIN stepRun[r] => ~JobIsActive(stepRun[r][s].job))
=============================================================================
