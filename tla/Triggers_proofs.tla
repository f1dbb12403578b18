--------------------------- MODULE Triggers_proofs ---------------------------
(***************************************************************************)
(* Workflow runs for any definitions and edits of them, any number of      *)
(* runs, schedulers and workers, and any number of faults, whatever else   *)
(* creates runs beside them: what a step that was started rests on, what   *)
(* an ended run leaves behind, and what a resumed one keeps.               *)
(*                                                                         *)
(* Trigger events for any automations, deliveries, evaluators and faults:  *)
(* no occurrence of a schedule is skipped, no group whose events satisfy   *)
(* the condition is left without its run, and to the workflow runs the     *)
(* evaluators are what WorkflowRuns says the rest of the system may be.    *)
(***************************************************************************)
EXTENDS Triggers, TLAPS, WellFoundedInduction

StepStatuses == {"queued", "running", "succeeded", "failed", "cancelled", "timed_out", "skipped"}
JobStatuses == {"none", "queued", "running", "succeeded", "failed", "cancelled", "timed_out"}

\* A row of workflow_step_runs with its job: the step says it has succeeded
\* only if its job has, a job that may still be leased is that of an open
\* step, and only a skipped step has none.
RowOK(row) ==
    /\ DOMAIN row = {"status", "job"}
    /\ row.status \in StepStatuses /\ row.job \in JobStatuses
    /\ row.status = "succeeded" => row.job = "succeeded"
    /\ row.job = "none" <=> row.status = "skipped"
    /\ JobIsActive(row.job) => row.status \in {"queued", "running"}

RowsOK(steps) == \A s \in DOMAIN steps : RowOK(steps[s])

\* HardParentsFirst, of one run.
ParentsFirst(wf, steps) ==
    \A s \in DOMAIN steps :
        steps[s].job # "none" =>
            \A d \in DepsInto(wf, s) :
                d.policy = "hard" => d.from \in DOMAIN steps /\ steps[d.from].status = "succeeded"

\* EndedRunsAreQuiet, of one run.
Quiet(steps) ==
    \A s \in DOMAIN steps :
        steps[s].status \notin {"queued", "running"} /\ ~JobIsActive(steps[s].job)

\* SucceededStepsKept, of one run.
Keeps(steps, next) ==
    \A s \in DOMAIN steps :
        steps[s].status = "succeeded" => s \in DOMAIN next /\ next[s].status = "succeeded"

RunFields == {"status", "snapshot", "deadline", "position"}

\* A run and its steps.
RunOK(row, steps) ==
    /\ DOMAIN row = RunFields
    /\ RowsOK(steps)
    /\ ParentsFirst(row.snapshot, steps)
    /\ row.status = "absent" => DOMAIN steps = {}
    /\ row.status \in RunStatuses /\ IsTerminal(row.status) => Quiet(steps)

\* The inductive invariant.
WorkflowInv ==
    /\ DOMAIN run = Runs /\ DOMAIN stepRun = Runs
    /\ \A r \in Runs : RunOK(run[r], stepRun[r])

-----------------------------------------------------------------------------
(***************************************************************************)
(* What the transactions make of the rows of one run.                      *)
(***************************************************************************)

\* Reading the jobs brings every step up to date and loses none.
LEMMA SyncedKeeps ==
    ASSUME NEW wf, NEW steps, RowsOK(steps), ParentsFirst(wf, steps)
    PROVE  /\ DOMAIN Synced(steps) = DOMAIN steps
           /\ RowsOK(Synced(steps)) /\ ParentsFirst(wf, Synced(steps))
           /\ Keeps(steps, Synced(steps))
           /\ \A s \in DOMAIN steps :
                  Synced(steps)[s].job # "none" => Synced(steps)[s].status = Synced(steps)[s].job
<1>. DEFINE next == Synced(steps)
<1>1. DOMAIN next = DOMAIN steps  BY DEF Synced
<1>2. ASSUME NEW s \in DOMAIN steps
      PROVE  /\ RowOK(next[s]) /\ next[s].job = steps[s].job
             /\ next[s].job # "none" => next[s].status = next[s].job
             /\ steps[s].status = "succeeded" => next[s].status = "succeeded"
  <2>1. RowOK(steps[s])  BY DEF RowsOK
  <2>2. CASE steps[s].job = "none"
    <3>1. next[s] = steps[s]  BY <2>2 DEF Synced
    <3>. QED  BY <2>1, <2>2, <3>1 DEF RowOK
  <2>3. CASE steps[s].job # "none"
    <3>1. next[s] = [steps[s] EXCEPT !.status = steps[s].job]  BY <2>3 DEF Synced
    <3>2. DOMAIN next[s] = {"status", "job"} /\ next[s].status = steps[s].job /\ next[s].job = steps[s].job
      BY <2>1, <3>1 DEF RowOK
    <3>. QED  BY <2>1, <2>3, <3>2 DEF RowOK, StepStatuses, JobStatuses, JobIsActive
  <2>. QED  BY <2>2, <2>3
<1>. HIDE DEF next
<1>3. RowsOK(next) /\ Keeps(steps, next)  BY <1>1, <1>2 DEF RowsOK, Keeps
<1>4. ParentsFirst(wf, next)  BY <1>1, <1>2 DEF ParentsFirst
<1>. QED  BY <1>1, <1>2, <1>3, <1>4 DEF next

\* Stopping a run closes its open steps and cancels their jobs.
LEMMA StoppedKeeps ==
    ASSUME NEW wf, NEW steps, RowsOK(steps), ParentsFirst(wf, steps),
           NEW status \in {"cancelled", "timed_out"}
    PROVE  /\ RowsOK(Stopped(steps, status)) /\ ParentsFirst(wf, Stopped(steps, status))
           /\ Keeps(steps, Stopped(steps, status))
           /\ Quiet(Stopped(steps, status))
<1>. DEFINE next == Stopped(steps, status)
<1>1. DOMAIN next = DOMAIN steps  BY DEF Stopped
<1>2. ASSUME NEW s \in DOMAIN steps
      PROVE  /\ RowOK(next[s]) /\ (next[s].job = "none" <=> steps[s].job = "none")
             /\ steps[s].status = "succeeded" => next[s].status = "succeeded"
             /\ next[s].status \notin {"queued", "running"} /\ ~JobIsActive(next[s].job)
  <2>1. RowOK(steps[s])  BY DEF RowsOK
  <2>2. CASE s \in ActiveSteps(steps)
    <3>1. next[s] = [status |-> status,
                     job    |-> IF JobIsActive(steps[s].job) THEN "cancelled" ELSE steps[s].job]
      BY <2>2 DEF Stopped
    <3>2. steps[s].status \in {"queued", "running"}  BY <2>2 DEF ActiveSteps
    <3>. QED  BY <2>1, <3>1, <3>2 DEF RowOK, StepStatuses, JobStatuses, JobIsActive
  <2>3. CASE s \notin ActiveSteps(steps)
    <3>1. next[s] = steps[s]  BY <2>3 DEF Stopped
    <3>2. steps[s].status \notin {"queued", "running"}  BY <2>3 DEF ActiveSteps
    <3>. QED  BY <2>1, <3>1, <3>2 DEF RowOK
  <2>. QED  BY <2>2, <2>3
<1>. HIDE DEF next
<1>3. RowsOK(next) /\ Keeps(steps, next) /\ Quiet(next)  BY <1>1, <1>2 DEF RowsOK, Keeps, Quiet
<1>4. ParentsFirst(wf, next)  BY <1>1, <1>2 DEF ParentsFirst
<1>. QED  BY <1>3, <1>4 DEF next

\* New rows are for steps whose parents allow it, or that will never run.
LEMMA NewRowsKeep ==
    ASSUME NEW wf, NEW steps, RowsOK(steps), ParentsFirst(wf, steps),
           NEW ready, NEW skipped,
           \A s \in ready : \A d \in DepsInto(wf, s) :
               d.policy = "hard" => d.from \in DOMAIN steps /\ steps[d.from].status = "succeeded"
    PROVE  /\ RowsOK(NewRows(steps, ready, skipped)) /\ ParentsFirst(wf, NewRows(steps, ready, skipped))
           /\ Keeps(steps, NewRows(steps, ready, skipped))
<1>. DEFINE next == NewRows(steps, ready, skipped)
<1>1. /\ DOMAIN next = DOMAIN steps \cup ready \cup skipped
      /\ \A s \in DOMAIN steps : next[s] = steps[s]
      /\ \A s \in ready \ DOMAIN steps : next[s] = [status |-> "queued", job |-> "queued"]
      /\ \A s \in skipped \ (ready \cup DOMAIN steps) : next[s] = [status |-> "skipped", job |-> "none"]
  BY DEF NewRows
<1>. HIDE DEF next
<1>2. RowsOK(next)
  BY <1>1 DEF RowsOK, RowOK, StepStatuses, JobStatuses, JobIsActive
<1>3. Keeps(steps, next)  BY <1>1 DEF Keeps
<1>4. ParentsFirst(wf, next)
  <2>. SUFFICES ASSUME NEW s \in DOMAIN next, next[s].job # "none",
                       NEW d \in DepsInto(wf, s), d.policy = "hard"
                PROVE  d.from \in DOMAIN next /\ next[d.from].status = "succeeded"
    BY DEF ParentsFirst
  <2>1. s \in DOMAIN steps \/ s \in ready  BY <1>1
  <2>2. d.from \in DOMAIN steps /\ steps[d.from].status = "succeeded"
    BY <1>1, <2>1 DEF ParentsFirst
  <2>. QED  BY <1>1, <2>2
<1>. QED  BY <1>2, <1>3, <1>4 DEF next

\* A reconciliation that goes on, or finds the run at its end.
LEMMA AdvanceKeeps ==
    ASSUME NEW row, DOMAIN row = RunFields, row.status \in {"queued", "running"},
           NEW steps, RowsOK(steps), ParentsFirst(row.snapshot, steps),
           \A s \in DOMAIN steps : steps[s].job # "none" => steps[s].status = steps[s].job
    PROVE  /\ RunOK(Advance(row, steps).row, Advance(row, steps).steps)
           /\ Keeps(steps, Advance(row, steps).steps)
<1>. DEFINE wf      == row.snapshot
            states  == [s \in DOMAIN steps |-> steps[s].status]
            active  == ActiveSteps(steps) # {}
            failed  == \E s \in DOMAIN steps : states[s] \in {"failed", "cancelled", "timed_out"}
            whole   == DOMAIN steps = StepIds(wf)
            ready   == ReadyStepsWithPolicies(wf, states)
            stuck   == failed /\ ~active /\ ready = {}
            skipped == IF stuck THEN BlockedStepsAfterTerminalFailure(wf, states) ELSE {}
            reached == Position(wf, DOMAIN steps \cup ready \cup skipped)
            Status(s) == [row EXCEPT !.status = s]
            done    == whole /\ \A s \in DOMAIN steps : states[s] \in {"succeeded", "skipped"}
            result  == Advance(row, steps)
<1>1. /\ done => result.row = Status("succeeded") /\ result.steps = steps
      /\ ~done => /\ result.steps = NewRows(steps, ready, skipped)
                  /\ result.row = IF stuck /\ skipped = {} THEN Status("failed")
                                  ELSE IF ready # {} \/ row.status = "queued"
                                  THEN [Status("running") EXCEPT !.position = Max({@, reached})]
                                  ELSE row
  BY Zenon DEF Advance
<1>2. \A s \in {"succeeded", "failed", "running"} :
          DOMAIN Status(s) = RunFields /\ Status(s).status = s /\ Status(s).snapshot = wf
  BY DEF RunFields
<1>3. LET ran == [Status("running") EXCEPT !.position = Max({@, reached})]
      IN DOMAIN ran = RunFields /\ ran.status = "running" /\ ran.snapshot = wf
  BY DEF RunFields
<1>4. \A s \in ready : \A d \in DepsInto(wf, s) :
          d.policy = "hard" => d.from \in DOMAIN steps /\ steps[d.from].status = "succeeded"
  BY Zenon DEF ReadyStepsWithPolicies, DependencyMet
<1>5. ASSUME ~active  PROVE Quiet(steps)
  <2>. SUFFICES ASSUME NEW s \in DOMAIN steps
                PROVE  steps[s].status \notin {"queued", "running"} /\ ~JobIsActive(steps[s].job)
    BY DEF Quiet
  <2>1. steps[s].status \notin {"queued", "running"}  BY <1>5 DEF ActiveSteps
  <2>. QED  BY <2>1 DEF RowsOK, RowOK
<1>6. done => ~active  BY DEF ActiveSteps
<1>. HIDE DEF active, ready, skipped, stuck, done, result, reached, failed, Status
<1>7. CASE done
  <2>1. result.steps = steps /\ DOMAIN result.row = RunFields /\ result.row.status = "succeeded"
        /\ result.row.snapshot = wf
    BY <1>1, <1>2, <1>7
  <2>. QED  BY <2>1, <1>5, <1>6, <1>7 DEF RunOK, Keeps, result
<1>8. CASE ~done
  <2>1. /\ RowsOK(result.steps) /\ ParentsFirst(wf, result.steps) /\ Keeps(steps, result.steps)
    BY <1>1, <1>4, <1>8, NewRowsKeep
  <2>2. CASE stuck /\ skipped = {}
    <3>1. DOMAIN result.row = RunFields /\ result.row.status = "failed" /\ result.row.snapshot = wf
      BY <1>1, <1>2, <1>8, <2>2
    <3>2. ready = {} /\ ~active  BY <2>2 DEF stuck
    <3>3. result.steps = NewRows(steps, {}, {})  BY <1>1, <1>8, <2>2, <3>2
    <3>4. DOMAIN result.steps = DOMAIN steps /\ \A s \in DOMAIN steps : result.steps[s] = steps[s]
      BY <3>3 DEF NewRows
    <3>5. Quiet(result.steps)  BY <1>5, <3>2, <3>4 DEF Quiet
    <3>. QED  BY <2>1, <3>1, <3>5 DEF RunOK, result
  <2>3. CASE ~(stuck /\ skipped = {})
    <3>1. DOMAIN result.row = RunFields /\ result.row.status \in {"queued", "running"} /\ result.row.snapshot = wf
      BY <1>1, <1>3, <1>8, <2>3, Zenon
    <3>. QED  BY <2>1, <3>1 DEF RunOK, IsTerminal, result
  <2>. QED  BY <2>2, <2>3
<1>. QED  BY <1>7, <1>8

\* reconcile_workflow_run as a whole: its deadline first, then its steps.
LEMMA ReconciledKeeps ==
    ASSUME NEW row, NEW steps, RunOK(row, steps), row.status \in {"queued", "running"}
    PROVE  /\ RunOK(Reconciled(row, steps).row, Reconciled(row, steps).steps)
           /\ Keeps(steps, Reconciled(row, steps).steps)
<1>. DEFINE result == Reconciled(row, steps)
<1>1. CASE row.deadline = "past"
  <2>1. /\ result.row = [row EXCEPT !.status = "timed_out"]
        /\ result.steps = Stopped(steps, "timed_out")
    BY <1>1 DEF Reconciled
  <2>2. DOMAIN result.row = RunFields /\ result.row.status = "timed_out" /\ result.row.snapshot = row.snapshot
    BY <2>1 DEF RunOK, RunFields
  <2>3. /\ RowsOK(result.steps) /\ ParentsFirst(row.snapshot, result.steps)
        /\ Keeps(steps, result.steps) /\ Quiet(result.steps)
    BY <2>1, StoppedKeeps DEF RunOK
  <2>. QED  BY <2>2, <2>3 DEF RunOK
<1>2. CASE row.deadline # "past"
  <2>. DEFINE synced == Synced(steps)
  <2>1. result = Advance(row, synced)  BY <1>2 DEF Reconciled
  <2>2. /\ RowsOK(synced) /\ ParentsFirst(row.snapshot, synced) /\ Keeps(steps, synced)
        /\ \A s \in DOMAIN synced : synced[s].job # "none" => synced[s].status = synced[s].job
    BY SyncedKeeps, Zenon DEF RunOK
  <2>. HIDE DEF synced, result
  <2>3. RunOK(result.row, result.steps) /\ Keeps(synced, result.steps)
    BY <2>1, <2>2, AdvanceKeeps DEF RunOK
  <2>4. Keeps(steps, result.steps)  BY <2>2, <2>3 DEF Keeps
  <2>. QED  BY <2>3, <2>4 DEF result
<1>. QED  BY <1>1, <1>2

-----------------------------------------------------------------------------
(***************************************************************************)
(* What every step does.                                                   *)
(***************************************************************************)

\* A step that changes one run at most, and keeps what is true of it.
OneRun(r) ==
    /\ DOMAIN run' = DOMAIN run /\ DOMAIN stepRun' = DOMAIN stepRun
    /\ \A o \in Runs : o # r => run'[o] = run[o] /\ stepRun'[o] = stepRun[o]
    /\ r \in Runs => RunOK(run'[r], stepRun'[r]) /\ Keeps(stepRun[r], stepRun'[r])

\* What SucceededStepsKept says of one step.
StepsKept == \A r \in Runs : Keeps(stepRun[r], stepRun'[r])

\* Such a step keeps the invariant.
LEMMA OneRunKeeps ==
    ASSUME WorkflowInv, NEW r, OneRun(r)
    PROVE  WorkflowInv' /\ StepsKept
BY DEF WorkflowInv, OneRun, StepsKept, Keeps

\* A run is created: nothing refers to its id yet.
LEMMA InsertKeeps ==
    ASSUME WorkflowInv, NEW r, InsertRun(r), UNCHANGED stepRun
    PROVE  WorkflowInv' /\ StepsKept
<1>1. ASSUME r \in Runs  PROVE RunOK(run'[r], stepRun'[r]) /\ Keeps(stepRun[r], stepRun'[r])
  <2>1. run'[r] = Queued(live) /\ run[r].status = "absent"  BY <1>1 DEF InsertRun, WorkflowInv
  <2>2. DOMAIN stepRun[r] = {}  BY <1>1, <2>1 DEF WorkflowInv, RunOK
  <2>3. DOMAIN Queued(live) = RunFields /\ Queued(live).status = "queued"
    BY DEF Queued, RunFields
  <2>. QED  BY <2>1, <2>2, <2>3 DEF RunOK, RowsOK, ParentsFirst, IsTerminal, Keeps
<1>2. OneRun(r)
  BY <1>1 DEF OneRun, InsertRun, WorkflowInv
<1>. QED  BY <1>2, OneRunKeeps

\* A run is reconciled, by a scheduler or by the worker that saw a job end.
LEMMA ReconcileKeeps ==
    ASSUME WorkflowInv, NEW r, ReconcileWorkflowRun(r)
    PROVE  WorkflowInv' /\ StepsKept
<1>1. CASE ~Active(r)
  BY <1>1 DEF ReconcileWorkflowRun, WorkflowInv, StepsKept, Keeps
<1>2. CASE Active(r)
  <2>. DEFINE result == Reconciled(run[r], stepRun[r])
  <2>1. run' = [run EXCEPT ![r] = result.row] /\ stepRun' = [stepRun EXCEPT ![r] = result.steps]
    BY <1>2 DEF ReconcileWorkflowRun
  <2>2. r \in Runs => RunOK(result.row, result.steps) /\ Keeps(stepRun[r], result.steps)
    BY <1>2, ReconciledKeeps DEF WorkflowInv, Active
  <2>. HIDE DEF result
  <2>3. OneRun(r)  BY <2>1, <2>2 DEF OneRun, WorkflowInv
  <2>. QED  BY <2>3, OneRunKeeps
<1>. QED  BY <1>1, <1>2

\* A run is removed from the queue, cancelled or resumed from its checkpoints, or
\* its deadline passes.
LEMMA OperationsKeep ==
    ASSUME WorkflowInv, NEW r \in Runs, RemoveQueuedRun(r) \/ CancelRunningRun(r) \/ ResumeRun(r) \/ DeadlinePasses(r)
    PROVE  WorkflowInv' /\ StepsKept
<1>1. RunOK(run[r], stepRun[r]) /\ DOMAIN run = Runs /\ DOMAIN stepRun = Runs  BY DEF WorkflowInv
<1>2. CASE RemoveQueuedRun(r)
  <2>1. /\ DOMAIN run'[r] = RunFields /\ run'[r].status = "removed"
        /\ UNCHANGED stepRun /\ DOMAIN stepRun[r] = {}
    BY <1>1, <1>2 DEF RemoveQueuedRun, RunOK, RunFields
  <2>2. RunOK(run'[r], stepRun'[r]) /\ Keeps(stepRun[r], stepRun'[r])
    BY <2>1 DEF RunOK, RowsOK, ParentsFirst, Quiet, Keeps
  <2>3. OneRun(r)  BY <1>1, <1>2, <2>2 DEF OneRun, RemoveQueuedRun
  <2>. QED  BY <2>3, OneRunKeeps
<1>3. CASE CancelRunningRun(r)
  <2>1. /\ run' = [run EXCEPT ![r].status = "cancelled"]
        /\ stepRun' = [stepRun EXCEPT ![r] = Stopped(stepRun[r], "cancelled")]
    BY <1>3 DEF CancelRunningRun
  <2>2. /\ DOMAIN run'[r] = RunFields /\ run'[r].status = "cancelled" /\ run'[r].snapshot = run[r].snapshot
        /\ stepRun'[r] = Stopped(stepRun[r], "cancelled")
    BY <1>1, <2>1 DEF RunOK, RunFields
  <2>3. RunOK(run'[r], stepRun'[r]) /\ Keeps(stepRun[r], stepRun'[r])
    BY <1>1, <2>2, StoppedKeeps DEF RunOK
  <2>4. OneRun(r)  BY <1>1, <2>1, <2>3 DEF OneRun
  <2>. QED  BY <2>4, OneRunKeeps
<1>4. CASE ResumeRun(r)
  <2>. DEFINE kept == {s \in DOMAIN stepRun[r] : stepRun[r][s].status = "succeeded"}
  <2>1. /\ stepRun' = [stepRun EXCEPT ![r] = Restrict(stepRun[r], kept)]
        /\ run'[r].status = "running" /\ run'[r].snapshot = run[r].snapshot /\ DOMAIN run'[r] = RunFields
        /\ DOMAIN run' = DOMAIN run /\ \A o \in Runs : o # r => run'[o] = run[o]
    BY <1>1, <1>4 DEF ResumeRun, RunOK, RunFields
  <2>2. DOMAIN stepRun'[r] = kept /\ \A s \in kept : stepRun'[r][s] = stepRun[r][s]
    BY <1>1, <2>1 DEF Restrict
  <2>3. RowsOK(stepRun'[r]) /\ Keeps(stepRun[r], stepRun'[r])
    BY <1>1, <2>2 DEF RunOK, RowsOK, Keeps
  <2>4. ParentsFirst(run[r].snapshot, stepRun'[r])
    BY <1>1, <2>2 DEF RunOK, ParentsFirst
  <2>5. RunOK(run'[r], stepRun'[r])  BY <2>1, <2>3, <2>4 DEF RunOK, IsTerminal
  <2>6. OneRun(r)  BY <1>1, <2>1, <2>3, <2>5 DEF OneRun
  <2>. QED  BY <2>6, OneRunKeeps
<1>5. CASE DeadlinePasses(r)
  <2>1. /\ run' = [run EXCEPT ![r].deadline = "past"] /\ UNCHANGED stepRun
    BY <1>5 DEF DeadlinePasses
  <2>2. DOMAIN run'[r] = RunFields /\ run'[r].status = run[r].status /\ run'[r].snapshot = run[r].snapshot
    BY <1>1, <2>1 DEF RunOK, RunFields
  <2>3. RunOK(run'[r], stepRun'[r]) /\ Keeps(stepRun[r], stepRun'[r])
    BY <1>1, <2>1, <2>2 DEF RunOK, Keeps
  <2>4. OneRun(r)  BY <1>1, <2>1, <2>3 DEF OneRun
  <2>. QED  BY <2>4, OneRunKeeps
<1>. QED  BY <1>2, <1>3, <1>4, <1>5

\* A step's job moves: only one that has not ended does.
LEMMA JobMovesKeep ==
    ASSUME WorkflowInv, NEW r \in Runs, NEW s, NEW from, from \subseteq {"queued", "running"},
           NEW to \in JobStatuses \ {"none"}, JobMoves(r, s, from, to)
    PROVE  WorkflowInv' /\ StepsKept
<1>1. RunOK(run[r], stepRun[r]) /\ DOMAIN run = Runs /\ DOMAIN stepRun = Runs  BY DEF WorkflowInv
<1>2. /\ s \in DOMAIN stepRun[r] /\ stepRun[r][s].job \in {"queued", "running"}
      /\ stepRun' = [stepRun EXCEPT ![r][s].job = to] /\ run' = run
  BY DEF JobMoves
<1>3. RowOK(stepRun[r][s])  BY <1>1, <1>2 DEF RunOK, RowsOK
<1>4. /\ DOMAIN stepRun'[r] = DOMAIN stepRun[r]
      /\ \A o \in DOMAIN stepRun[r] : o # s => stepRun'[r][o] = stepRun[r][o]
      /\ DOMAIN stepRun'[r][s] = {"status", "job"}
      /\ stepRun'[r][s].status = stepRun[r][s].status /\ stepRun'[r][s].job = to
  BY <1>1, <1>2, <1>3 DEF RowOK
<1>5. RowOK(stepRun'[r][s])
  BY <1>2, <1>3, <1>4 DEF RowOK, JobIsActive
<1>6. RowsOK(stepRun'[r]) /\ Keeps(stepRun[r], stepRun'[r])
  BY <1>1, <1>4, <1>5 DEF RunOK, RowsOK, Keeps
<1>7. stepRun[r][s].job # "none"  BY <1>2
<1>8. ParentsFirst(run[r].snapshot, stepRun'[r])
  BY <1>1, <1>2, <1>4, <1>7 DEF RunOK, ParentsFirst
<1>9. ~Quiet(stepRun[r])  BY <1>2 DEF Quiet, JobIsActive
<1>10. RunOK(run'[r], stepRun'[r])
  BY <1>1, <1>2, <1>4, <1>6, <1>8, <1>9 DEF RunOK
<1>11. OneRun(r)  BY <1>1, <1>2, <1>6, <1>10 DEF OneRun
<1>. QED  BY <1>11, OneRunKeeps

\* Every step of the schedulers, the workers, the API and the rest of the system.
LEMMA StepKeepsRuns ==
    ASSUME WorkflowInv, [WorkflowNext \/ Elsewhere]_workflowVars
    PROVE  WorkflowInv' /\ StepsKept
<1>1. CASE UNCHANGED <<run, stepRun>>
  BY <1>1 DEF WorkflowInv, StepsKept, Keeps
<1>2. CASE Elsewhere
  BY <1>1, <1>2, InsertKeeps DEF Elsewhere
<1>3. ASSUME NEW n \in Schedulers, SchedulerStep(n)  PROVE WorkflowInv' /\ StepsKept
  <2>1. CASE FireInterval(n)  BY <2>1, InsertKeeps DEF FireInterval
  <2>2. CASE AdvanceNext(n)  BY <2>2, ReconcileKeeps DEF AdvanceNext
  <2>3. CASE ~FireInterval(n) /\ ~AdvanceNext(n)
    BY <1>1, <1>3, <2>3, Zenon
       DEF SchedulerStep, SelectDue, ListActiveRuns, AdvanceSkips, AdvanceFails, SchedulerCrashes, SchedulerRestarts, tables
  <2>. QED  BY <2>1, <2>2, <2>3
<1>4. ASSUME NEW r \in Runs, WorkerAdvances(r)  PROVE WorkflowInv' /\ StepsKept
  BY <1>4, ReconcileKeeps DEF WorkerAdvances
<1>5. ASSUME NEW r \in Runs, RemoveQueuedRun(r) \/ CancelRunningRun(r) \/ ResumeRun(r) \/ DeadlinePasses(r)
      PROVE  WorkflowInv' /\ StepsKept
  BY <1>5, OperationsKeep
<1>6. ASSUME NEW r \in Runs, NEW s, JobStarts(r, s) \/ JobEnds(r, s) \/ JobWaitsAgain(r, s) \/ JobIsCancelled(r, s)
      PROVE  WorkflowInv' /\ StepsKept
  <2>1. PICK from, to : /\ from \subseteq {"queued", "running"} /\ to \in JobStatuses \ {"none"}
                        /\ JobMoves(r, s, from, to)
    <3>. HIDE DEF JobMoves
    <3>1. /\ {"queued"} \subseteq {"queued", "running"} /\ {"running"} \subseteq {"queued", "running"}
          /\ {"queued", "running", "succeeded", "failed", "timed_out", "cancelled"} \subseteq JobStatuses \ {"none"}
      BY DEF JobStatuses
    <3>2. \/ JobMoves(r, s, {"queued"}, "running")
          \/ \E to \in {"queued", "succeeded", "failed", "timed_out"} : JobMoves(r, s, {"running"}, to)
          \/ JobMoves(r, s, {"queued", "running"}, "cancelled")
      BY <1>6 DEF JobStarts, JobEnds, JobWaitsAgain, JobIsCancelled
    <3>. QED  BY <3>1, <3>2
  <2>. QED  BY <2>1, JobMovesKeep, Zenon
<1>7. ASSUME \/ \E wf \in scenario.definitions : CreateWorkflow(wf) \/ UpdateWorkflow(wf)
             \/ \E d \in jobDefs : DeleteJobDefinition(d)
             \/ \E status \in {"enabled", "disabled"} : SetAutomationStatus(status)
             \/ DeleteWorkflow \/ FireFallsDue
      PROVE  UNCHANGED <<run, stepRun>>
  BY <1>7 DEF CreateWorkflow, UpdateWorkflow, UpsertWorkflow, DeleteJobDefinition, SetAutomationStatus,
              DeleteWorkflow, FireFallsDue
<1>8. CASE TriggerAutomation
  BY <1>8, InsertKeeps DEF TriggerAutomation
<1>9. CASE UNCHANGED workflowVars
  BY <1>1, <1>9 DEF workflowVars
<1>. QED  BY <1>1, <1>2, <1>3, <1>4, <1>5, <1>6, <1>7, <1>8, <1>9, Zenon DEF WorkflowNext

\* No run has been created.
LEMMA WorkflowStartsOut ==
    ASSUME WorkflowInit
    PROVE  WorkflowInv
<1>1. run = [r \in Runs |-> NewRun] /\ stepRun = [r \in Runs |-> <<>>]  BY DEF WorkflowInit
<1>2. NewRun.status = "absent" /\ DOMAIN NewRun = RunFields  BY DEF NewRun, RunFields
<1>3. "absent" \notin RunStatuses  BY DEF RunStatuses
<1>4. \A r \in Runs : run[r] = NewRun /\ DOMAIN stepRun[r] = {}  BY <1>1
<1>5. \A r \in Runs : RunOK(run[r], stepRun[r])
  BY <1>2, <1>3, <1>4 DEF RunOK, RowsOK, ParentsFirst
<1>. QED  BY <1>1, <1>5 DEF WorkflowInv

\* The inductive invariant holds of every run, whatever the definitions, the edits and
\* the faults (reconcile_workflow_run and the operations of the API).
THEOREM WorkflowInvariant == WorkflowSpec => []WorkflowInv
<1>1. WorkflowInit => WorkflowInv
  BY WorkflowStartsOut
<1>2. WorkflowInv /\ [WorkflowNext \/ Elsewhere]_workflowVars => WorkflowInv'
  BY StepKeepsRuns
<1>. QED  BY <1>1, <1>2, PTL DEF WorkflowSpec

\* A step that was given a job has all its hard parents succeeded, in the definition
\* the run pinned, for every definition, however often it was resumed and the stored
\* definition edited (ready_steps_with_policies, resume_workflow_run).
THEOREM HardParentsComeFirst == WorkflowSpec => []HardParentsFirst
<1>1. WorkflowInv => HardParentsFirst  BY DEF WorkflowInv, RunOK, ParentsFirst, HardParentsFirst
<1>. QED  BY <1>1, WorkflowInvariant, PTL

\* Once a run has ended none of its steps is open and none of its jobs can still be
\* leased, for any number of schedulers and workers that reconcile it and whatever
\* its jobs do meanwhile (reconcile_workflow_run, cancel_running_workflow_run).
THEOREM RunsEndQuietly == WorkflowSpec => []EndedRunsAreQuiet
<1>1. WorkflowInv => EndedRunsAreQuiet  BY DEF WorkflowInv, RunOK, Quiet, EndedRunsAreQuiet
<1>. QED  BY <1>1, WorkflowInvariant, PTL

\* No step of the system makes a run repeat a step that has succeeded
\* (resume_workflow_run's checkpoints).
THEOREM CheckpointsAreKept == WorkflowSpec => SucceededStepsKept
<1>1. WorkflowInv /\ [WorkflowNext \/ Elsewhere]_workflowVars =>
          [\A r \in Runs : \A s \in DOMAIN stepRun[r] :
              stepRun[r][s].status = "succeeded" =>
                  s \in DOMAIN stepRun'[r] /\ stepRun'[r][s].status = "succeeded"]_workflowVars
  BY StepKeepsRuns DEF StepsKept, Keeps
<1>. QED  BY <1>1, WorkflowInvariant, PTL DEF WorkflowSpec, SucceededStepsKept

-----------------------------------------------------------------------------
(***************************************************************************)
(* Trigger events.                                                         *)
(***************************************************************************)
EventFields == {"status", "owner", "expired", "ready", "attempts"}
TickFields == {"pc", "due", "key", "seen", "satisfied"}

Deciding(e) == ev[e].pc \in {"evaluate", "complete"}

\* The shape of the tables and of the evaluators' memory.
TriggerTypes ==
    /\ scenario \in Scenarios
    /\ DOMAIN automation = {"status", "fire"}
    /\ DOMAIN event = Deliveries /\ \A d \in Deliveries : DOMAIN event[d] = EventFields
    /\ DOMAIN ev = Evaluators /\ \A e \in Evaluators : DOMAIN ev[e] = TickFields
    /\ \A e \in Evaluators : Deciding(e) => e \in scenario.evaluators /\ ev[e].key \in Keys

\* The schedule: whatever the cursor has not reached has no event, as long as
\* there is an automation to have a cursor.
ScheduleInv ==
    /\ cursor \in Nat /\ clock \in Nat
    /\ "cron" \notin EnabledOf(graph.triggers, "webhook")
    /\ automation.status = "absent" => cursor = 0
    /\ \A e \in Evaluators : ev[e].pc = "fire" => ev[e].due \in Nat \ {0}
    /\ \A c \in Deliveries :
           c.trigger = "cron" /\ event[c].status # "absent" /\ automation.status # "absent"
               => c.key < cursor
    /\ NoOccurrenceSkipped

Evaluated(k) == {d \in Group(k) : event[d].status = "evaluated"}

\* The events an evaluator was handed that still count.
Standing(e) == {d \in ev[e].seen : event[d].status \notin {"failed", "forgotten"}}

\* An evaluator decides over what it was handed.  What others have evaluated since
\* does not satisfy the condition together with it: whoever decides last has seen
\* enough.
DecidesSoundly(e) ==
    /\ ev[e].seen \subseteq {d \in Group(ev[e].key) : event[d].status # "absent"}
    /\ Own(e) \subseteq ev[e].seen
    /\ ev[e].pc = "complete" /\ Satisfied(graph, ev[e].seen) => ev[e].satisfied
    /\ ev[e].key \notin evaluations /\ ~(Evaluated(ev[e].key) \subseteq ev[e].seen)
           => ~Satisfied(graph, Evaluated(ev[e].key) \cup Standing(e))

\* Of two evaluators on one group, the one that leased later was handed all that
\* the other was.
OneSawTheOthers(e, f) == Standing(e) \subseteq ev[f].seen \/ Standing(f) \subseteq ev[e].seen

LeftAlone == scenario.edits \cap {"toggle", "retrigger", "delete"} = {}

GroupsInv ==
    /\ automation.status = "enabled" /\ graph = scenario.graph
    /\ scenario.evaluators # {} => \A k \in Keys : run[k].status = "absent" \/ k \in evaluations
    /\ \A k \in Keys : Satisfied(graph, Evaluated(k)) => k \in evaluations
    /\ \A e \in Evaluators : Deciding(e) => DecidesSoundly(e)
    /\ \A e, f \in Evaluators :
           Deciding(e) /\ Deciding(f) /\ ev[e].key = ev[f].key => OneSawTheOthers(e, f)

-----------------------------------------------------------------------------
(***************************************************************************)
(* A condition that holds keeps holding when more triggers fire.           *)
(***************************************************************************)
\* A non-empty set of numbers has a least element.
LEMMA LeastNumber ==
    ASSUME NEW S, S \subseteq Nat, S # {}
    PROVE  \E x \in S : \A y \in S : x <= y
<1>1. PICK x \in S : \A y \in S : ~(<<y, x>> \in OpToRel(<, Nat))
  BY NatLessThanWellFounded, WFMin, Zenon
<1>2. \A y \in S : ~(y < x)
  BY <1>1 DEF OpToRel
<1>. QED  BY <1>2

\* The expressions that hold once the n-th is added to those that hold before it.
Extended(condition, fired, n, earlier) ==
    LET node == condition[n]
        holds == \/ Has(node, "trigger") /\ node.trigger \in fired
                 \/ Has(node, "all") /\ node.all \subseteq earlier
                 \/ Has(node, "any") /\ node.any \cap earlier # {}
    IN IF holds THEN earlier \cup {n} ELSE earlier

IsHolding(h, condition, fired, N) ==
    h = [n \in 0..N |-> IF n = 0 THEN {} ELSE Extended(condition, fired, n, h[n - 1])]

\* The recursion of Evaluate defines a function.
LEMMA HoldingExists ==
    ASSUME NEW condition, NEW fired, NEW N \in Nat
    PROVE  \E h : IsHolding(h, condition, fired, N)
<1>. DEFINE Bad == {m \in 0..N : ~\E h : IsHolding(h, condition, fired, m)}
<1>1. IsHolding([n \in 0..0 |-> {}], condition, fired, 0)
  BY DEF IsHolding
<1>2. ASSUME NEW m \in Nat, NEW h, IsHolding(h, condition, fired, m)
      PROVE  \E g : IsHolding(g, condition, fired, m + 1)
  <2>. DEFINE next == Extended(condition, fired, m + 1, h[m])
             g == [n \in 0..(m + 1) |-> IF n = m + 1 THEN next ELSE h[n]]
  <2>1. \A n \in 0..m : h[n] = IF n = 0 THEN {} ELSE Extended(condition, fired, n, h[n - 1])
    BY <1>2, Zenon DEF IsHolding
  <2>. HIDE DEF next
  <2>2. \A n \in 0..m : g[n] = h[n]
    OBVIOUS
  <2>3. g[m + 1] = next /\ g[m] = h[m]
    OBVIOUS
  <2>4. g = [n \in 0..(m + 1) |-> g[n]]
    OBVIOUS
  <2>. HIDE DEF g
  <2>5. ASSUME NEW n \in 0..(m + 1)
        PROVE  g[n] = IF n = 0 THEN {} ELSE Extended(condition, fired, n, g[n - 1])
    <3>1. CASE n = m + 1
      <4>1. n # 0 /\ n - 1 = m  BY <3>1
      <4>. QED  BY <3>1, <4>1, <2>3, Zenon DEF next
    <3>2. CASE n = 0
      <4>1. n \in 0..m  BY <3>2
      <4>. QED  BY <3>2, <4>1, <2>1, <2>2
    <3>3. CASE n # 0 /\ n # m + 1
      <4>1. n \in 0..m /\ n - 1 \in 0..m  BY <3>3
      <4>. QED  BY <3>3, <4>1, <2>1, <2>2, Zenon
    <3>. QED  BY <3>1, <3>2, <3>3
  <2>. QED  BY <2>4, <2>5, Zenon DEF IsHolding
<1>3. Bad = {}
  <2>. SUFFICES ASSUME Bad # {}  PROVE FALSE  OBVIOUS
  <2>1. Bad \subseteq 0..N /\ \A k \in 0..N : k \notin Bad => \E h : IsHolding(h, condition, fired, k)
    OBVIOUS
  <2>2. \A k \in Bad : ~\E h : IsHolding(h, condition, fired, k)
    OBVIOUS
  <2>. HIDE DEF Bad
  <2>3. PICK m \in Bad : \A k \in Bad : m <= k
    <3>1. Bad \subseteq Nat  BY <2>1
    <3>. QED  BY <3>1, LeastNumber, Zenon
  <2>4. m # 0  BY <1>1, <2>2, <2>3, Zenon
  <2>5. m - 1 \in 0..N /\ m - 1 \notin Bad /\ m - 1 \in Nat /\ (m - 1) + 1 = m
    BY <2>1, <2>3, <2>4
  <2>. QED  BY <1>2, <2>1, <2>2, <2>5, Zenon
<1>4. N \in 0..N  OBVIOUS
<1>. QED  BY <1>3, <1>4

\* What Evaluate decides by it.
LEMMA EvaluateHolding ==
    ASSUME NEW condition, NEW fired, Len(condition) \in Nat
    PROVE  \E h : /\ IsHolding(h, condition, fired, Len(condition))
                  /\ Evaluate(condition, fired) <=> Len(condition) \in h[Len(condition)]
<1>. DEFINE h == CHOOSE h : IsHolding(h, condition, fired, Len(condition))
<1>1. IsHolding(h, condition, fired, Len(condition))
  BY HoldingExists, Zenon
<1>2. Evaluate(condition, fired) <=> Len(condition) \in h[Len(condition)]
  BY Zenon DEF Evaluate, IsHolding, Extended
<1>. QED  BY <1>1, <1>2, Zenon

\* More triggers fired, no fewer expressions hold.
LEMMA HoldingIsMonotone ==
    ASSUME NEW condition, NEW A, NEW B, A \subseteq B, NEW N \in Nat,
           NEW g, IsHolding(g, condition, A, N), NEW h, IsHolding(h, condition, B, N)
    PROVE  g[N] \subseteq h[N]
<1>. DEFINE Bad == {m \in 0..N : ~(g[m] \subseteq h[m])}
<1>1. \A n \in 0..N : /\ g[n] = IF n = 0 THEN {} ELSE Extended(condition, A, n, g[n - 1])
                      /\ h[n] = IF n = 0 THEN {} ELSE Extended(condition, B, n, h[n - 1])
  BY Zenon DEF IsHolding
<1>2. ASSUME NEW n, NEW x, NEW y, x \subseteq y
      PROVE  Extended(condition, A, n, x) \subseteq Extended(condition, B, n, y)
  BY <1>2, Zenon DEF Extended
<1>3. SUFFICES ASSUME Bad # {}  PROVE FALSE
  <2>1. N \in 0..N  OBVIOUS
  <2>. QED  BY <2>1
<1>4. Bad \subseteq 0..N /\ Bad \subseteq Nat /\ \A k \in Bad : ~(g[k] \subseteq h[k])
  OBVIOUS
<1>5. \A k \in 0..N : k \notin Bad => g[k] \subseteq h[k]
  OBVIOUS
<1>. HIDE DEF Bad
<1>6. PICK m \in Bad : \A k \in Bad : m <= k
  BY <1>3, <1>4, LeastNumber, Zenon
<1>7. CASE m = 0  BY <1>1, <1>4, <1>6, <1>7
<1>8. CASE m # 0
  <2>1. m - 1 \in 0..N /\ m - 1 \notin Bad /\ m \in 0..N  BY <1>4, <1>6, <1>8
  <2>2. g[m - 1] \subseteq h[m - 1]  BY <1>5, <2>1
  <2>3. g[m] = Extended(condition, A, m, g[m - 1]) /\ h[m] = Extended(condition, B, m, h[m - 1])
    BY <1>1, <1>8, <2>1, Zenon
  <2>4. Extended(condition, A, m, g[m - 1]) \subseteq Extended(condition, B, m, h[m - 1])
    BY <1>2, <2>2
  <2>5. ~(g[m] \subseteq h[m])  BY <1>4, <1>6
  <2>. QED  BY <2>3, <2>4, <2>5
<1>. QED  BY <1>7, <1>8

\* More events, and a condition that was satisfied still is: there is no negation
\* in ConditionExpr.
LEMMA SatisfiedIsMonotone ==
    ASSUME NEW g, g.condition \in Seq(Range(g.condition)),
           NEW A, NEW B, A \subseteq B, Satisfied(g, A)
    PROVE  Satisfied(g, B)
<1>. DEFINE names == {g.triggers[i].name : i \in {j \in DOMAIN g.triggers : g.triggers[j].enabled}}
            a == {d.trigger : d \in A} \cap names
            b == {d.trigger : d \in B} \cap names
            N == Len(g.condition)
<1>1. a \subseteq b  OBVIOUS
<1>2. N \in Nat  OBVIOUS
<1>3. Evaluate(g.condition, a)  BY Zenon DEF Satisfied
<1>4. Satisfied(g, B) <=> Evaluate(g.condition, b)  BY Zenon DEF Satisfied
<1>. HIDE DEF a, b
<1>5. PICK x : IsHolding(x, g.condition, a, N) /\ (Evaluate(g.condition, a) <=> N \in x[N])
  BY <1>2, EvaluateHolding, Zenon
<1>6. PICK y : IsHolding(y, g.condition, b, N) /\ (Evaluate(g.condition, b) <=> N \in y[N])
  BY <1>2, EvaluateHolding, Zenon
<1>. HIDE DEF N
<1>7. x[N] \subseteq y[N]  BY <1>1, <1>2, <1>5, <1>6, HoldingIsMonotone, Zenon
<1>. QED  BY <1>3, <1>4, <1>5, <1>6, <1>7, Zenon

\* Without an event no condition is satisfied: a group that is validated has members
\* (ConditionExpr::validate).
LEMMA NothingSatisfiedByNothing ==
    ASSUME NEW g, g.condition \in Seq(Range(g.condition)), WellFormed(g.condition)
    PROVE  ~Satisfied(g, {})
<1>. DEFINE condition == g.condition
            N == Len(condition)
            names == {g.triggers[i].name : i \in {j \in DOMAIN g.triggers : g.triggers[j].enabled}}
<1>1. N \in Nat /\ DOMAIN condition = 1..N  OBVIOUS
<1>2. {d.trigger : d \in {}} \cap names = {}  OBVIOUS
<1>3. Satisfied(g, {}) <=> Evaluate(condition, {})  BY <1>2, Zenon DEF Satisfied
<1>4. \A i \in 1..N : \/ DOMAIN condition[i] = {"trigger"}
                      \/ DOMAIN condition[i] = {"all"} /\ condition[i]["all"] # {}
                      \/ DOMAIN condition[i] = {"any"} /\ condition[i]["any"] # {}
  BY <1>1, Zenon DEF WellFormed
<1>. HIDE DEF condition, N
<1>5. PICK h : IsHolding(h, condition, {}, N) /\ (Evaluate(condition, {}) <=> N \in h[N])
  BY <1>1, EvaluateHolding, Zenon DEF N
<1>6. \A n \in 0..N : h[n] = IF n = 0 THEN {} ELSE Extended(condition, {}, n, h[n - 1])
  BY <1>5, Zenon DEF IsHolding
<1>7. ASSUME NEW n \in 1..N  PROVE Extended(condition, {}, n, {}) = {}
  <2>1. "trigger" # "all" /\ "trigger" # "any" /\ "all" # "any"  OBVIOUS
  <2>2. ~(Has(condition[n], "all") /\ condition[n].all \subseteq {})
    BY <1>4, <2>1, Zenon DEF Has
  <2>3. ~(Has(condition[n], "any") /\ condition[n].any \cap {} # {})
    BY Zenon
  <2>. QED  BY <2>2, <2>3, Zenon DEF Extended
<1>. DEFINE Bad == {m \in 0..N : h[m] # {}}
<1>8. Bad = {}
  <2>. SUFFICES ASSUME Bad # {}  PROVE FALSE  OBVIOUS
  <2>1. Bad \subseteq Nat /\ Bad \subseteq 0..N /\ \A m \in 0..N : m \in Bad <=> h[m] # {}
    OBVIOUS
  <2>. HIDE DEF Bad
  <2>2. PICK m \in Bad : \A k \in Bad : m <= k  BY <2>1, LeastNumber, Zenon
  <2>3. m # 0
    <3>1. h[0] = {}  BY <1>1, <1>6
    <3>. QED  BY <2>1, <2>2, <3>1
  <2>4. m \in 1..N /\ m - 1 \in 0..N /\ m - 1 \notin Bad /\ m \in 0..N  BY <1>1, <2>1, <2>2, <2>3
  <2>5. h[m - 1] = {}  BY <2>1, <2>4
  <2>6. h[m] = Extended(condition, {}, m, h[m - 1])  BY <1>6, <2>3, <2>4, Zenon
  <2>. QED  BY <1>7, <2>1, <2>2, <2>4, <2>5, <2>6, Zenon
<1>9. h[N] = {}
  <2>1. N \in 0..N  BY <1>1
  <2>. QED  BY <1>8, <2>1
<1>. QED  BY <1>3, <1>5, <1>9, Zenon

-----------------------------------------------------------------------------
(***************************************************************************)
(* What the steps do to the tables, each as much as the invariants ask.    *)
(***************************************************************************)
\* An event row after a step that neither leases nor evaluates it.
AgesTo(old, new) ==
    /\ DOMAIN new = EventFields
    /\ new.status = "evaluated" => old.status = "evaluated"
    /\ old.status \in {"failed", "forgotten"} => new.status \in {"failed", "forgotten"}
    /\ new.status = "leased" => old.status = "leased" /\ new.owner = old.owner
    /\ old.status # "absent" => new.status # "absent"

EventsAge == DOMAIN event' = Deliveries /\ \A d \in Deliveries : AgesTo(event[d], event'[d])

\* An evaluator after a step that does not hand it a group.
TicksTo(e) ==
    /\ DOMAIN ev'[e] = TickFields
    /\ ev'[e].pc \in {"evaluate", "complete"} =>
           /\ Deciding(e) /\ ev'[e].key = ev[e].key /\ ev'[e].seen = ev[e].seen
           /\ ev'[e].pc = "complete" =>
                  \/ ev[e].pc = "complete" /\ ev'[e].satisfied = ev[e].satisfied
                  \/ automation.status = "enabled" /\ Satisfied(graph, ev[e].seen)
                         => ev'[e].satisfied

EvaluatorsTickOn == DOMAIN ev' = Evaluators /\ \A e \in Evaluators : TicksTo(e)

LEMMA SameEventsAge ==
    ASSUME TriggerTypes, UNCHANGED event
    PROVE  EventsAge
BY Zenon DEF TriggerTypes, EventsAge, AgesTo

LEMMA SameEvaluatorsTickOn ==
    ASSUME TriggerTypes, UNCHANGED ev
    PROVE  EvaluatorsTickOn
BY Zenon DEF TriggerTypes, EvaluatorsTickOn, TicksTo, Deciding

\* An event is recorded once.
LEMMA InsertedAges ==
    ASSUME TriggerTypes, NEW d, NEW c \in Deliveries
    PROVE  /\ DOMAIN Inserted(event, d) = Deliveries
           /\ AgesTo(event[c], Inserted(event, d)[c])
           /\ c # d => Inserted(event, d)[c] = event[c]
<1>1. DOMAIN Pending = EventFields /\ Pending.status = "pending"
  BY DEF Pending, NoEvent, EventFields
<1>2. CASE event[d].status = "absent"
  <2>1. Inserted(event, d) = [event EXCEPT ![d] = Pending]  BY <1>2 DEF Inserted
  <2>. QED  BY <1>1, <1>2, <2>1 DEF TriggerTypes, AgesTo
<1>3. CASE event[d].status # "absent"
  BY <1>3 DEF Inserted, TriggerTypes, AgesTo
<1>. QED  BY <1>2, <1>3

\* A tick moves to its next stage and forgets what it knew.
LEMMA GoesTicks ==
    ASSUME TriggerTypes, NEW e \in Evaluators, NEW pc, Goes(e, pc)
    PROVE  /\ DOMAIN ev' = Evaluators /\ \A f \in Evaluators : f # e => ev'[f] = ev[f]
           /\ ev'[e].pc = pc /\ DOMAIN ev'[e] = TickFields
           /\ pc \notin {"evaluate", "complete"} => EvaluatorsTickOn
<1>1. DOMAIN [Idle EXCEPT !.pc = pc] = TickFields /\ [Idle EXCEPT !.pc = pc].pc = pc
  BY DEF Idle, TickFields
<1>2. /\ DOMAIN ev' = Evaluators /\ \A f \in Evaluators : f # e => ev'[f] = ev[f]
      /\ ev'[e] = [Idle EXCEPT !.pc = pc]
  BY DEF Goes, TriggerTypes
<1>3. ASSUME NEW f \in Evaluators, pc \notin {"evaluate", "complete"}  PROVE TicksTo(f)
  <2>1. CASE f = e  BY <1>1, <1>2, <1>3, <2>1 DEF TicksTo
  <2>2. CASE f # e  BY <1>2, <2>2, Zenon DEF TriggerTypes, TicksTo, Deciding
  <2>. QED  BY <2>1, <2>2
<1>. QED  BY <1>1, <1>2, <1>3, Zenon DEF EvaluatorsTickOn

\* An evaluator turns to what it read, or gives its group up.
LEMMA TurnTicks ==
    ASSUME TriggerTypes, NEW e \in Evaluators, NEW pc, NEW due, pc \notin {"evaluate", "complete"},
           \/ ev' = [ev EXCEPT ![e] = [Idle EXCEPT !.pc = pc, !.due = due]]
           \/ ev' = [ev EXCEPT ![e].pc = pc]
    PROVE  EvaluatorsTickOn
<1>1. DOMAIN [Idle EXCEPT !.pc = pc, !.due = due] = TickFields /\ [Idle EXCEPT !.pc = pc, !.due = due].pc = pc
  BY DEF Idle, TickFields
<1>2. "pc" \in DOMAIN ev[e] /\ DOMAIN ev[e] = TickFields  BY DEF TriggerTypes, TickFields
<1>3. DOMAIN [ev[e] EXCEPT !.pc = pc] = TickFields /\ [ev[e] EXCEPT !.pc = pc].pc = pc
  BY <1>2
<1>4. /\ DOMAIN ev' = Evaluators /\ \A f \in Evaluators : f # e => ev'[f] = ev[f]
      /\ ev'[e] = [Idle EXCEPT !.pc = pc, !.due = due] \/ ev'[e] = [ev[e] EXCEPT !.pc = pc]
  BY DEF TriggerTypes
<1>5. DOMAIN ev'[e] = TickFields /\ ev'[e].pc = pc  BY <1>1, <1>3, <1>4, Zenon
<1>6. ASSUME NEW f \in Evaluators  PROVE TicksTo(f)
  <2>1. CASE f = e  BY <1>5, <2>1 DEF TicksTo
  <2>2. CASE f # e  BY <1>4, <2>2, Zenon DEF TriggerTypes, TicksTo, Deciding
  <2>. QED  BY <2>1, <2>2
<1>. QED  BY <1>4, <1>6, Zenon DEF EvaluatorsTickOn

\* The stages of a tick: a cron stage is one of an enabled automation.
LEMMA StageIsListed ==
    ASSUME NEW first \in 1..3
    PROVE  /\ Stage(first) \in {"cron", "sql", "custom", "lease"}
           /\ Stage(first) = "cron" => automation.status = "enabled"
<1>. DEFINE Listed(stage) ==
                \/ stage = 4
                \/ /\ automation.status = "enabled"
                   /\ \E i \in DOMAIN graph.triggers :
                          /\ graph.triggers[i].enabled
                          /\ CASE stage = 1 -> Has(graph.triggers[i].config, "cron")
                               [] stage = 2 -> graph.triggers[i].kind = "sql"
                               [] stage = 3 -> graph.triggers[i].kind = "custom"
            S == {i \in first..4 : Listed(i)}
            names == <<"cron", "sql", "custom", "lease">>
<1>1. \A i \in first..4 : Listed(i) => i = 4 \/ automation.status = "enabled"
  BY Zenon
<1>2. Listed(4)  OBVIOUS
<1>3. Stage(first) = names[Min(S)]  BY Zenon DEF Stage
<1>. HIDE DEF Listed
<1>4. S \subseteq 1..4 /\ 4 \in S  BY <1>2
<1>5. \A i \in S : i = 4 \/ automation.status = "enabled"  BY <1>1, Zenon
<1>. HIDE DEF S
<1>6. Min(S) \in S
  <2>1. \E x \in S : \A y \in S : x <= y
    <3>1. S \subseteq Nat /\ S # {}  BY <1>4
    <3>. QED  BY <3>1, LeastNumber, Zenon
  <2>. QED  BY <2>1, Zenon DEF Min
<1>7. Min(S) \in 1..4 /\ (Min(S) = 4 \/ automation.status = "enabled")  BY <1>4, <1>5, <1>6
<1>8. \A i \in 1..4 : names[i] \in {"cron", "sql", "custom", "lease"} /\ (names[i] = "cron" => i # 4)
  OBVIOUS
<1>. QED  BY <1>3, <1>7, <1>8

\* A step that hands out no group and evaluates none.
Quietly ==
    /\ EvaluatorsTickOn /\ EventsAge
    /\ UNCHANGED <<scenario, tables, sched, graph, evaluations>>

LEMMA SameRowAges ==
    ASSUME TriggerTypes, NEW d \in Deliveries
    PROVE  AgesTo(event[d], event[d])
BY Zenon DEF TriggerTypes, AgesTo

\* The stages that produce events.
LEMMA ProducingIsQuiet ==
    ASSUME TriggerTypes, NEW e \in Evaluators,
           \/ ReadCursor(e) \/ FireDueSchedule(e) \/ ProduceSql(e)
           \/ ClaimCustomTrigger(e) \/ CompleteCustomTrigger(e) \/ FailCustomTrigger(e)
    PROVE  Quietly
<1>. DEFINE stages == {"cron", "sql", "custom", "lease"}
<1>1. Stage(1) \in stages /\ Stage(2) \in stages /\ Stage(3) \in stages
  BY StageIsListed
<1>2. \A pc \in stages : Goes(e, pc) => EvaluatorsTickOn
  <2>. TAKE pc \in stages
  <2>1. pc \notin {"evaluate", "complete"}  OBVIOUS
  <2>. QED  BY <2>1, GoesTicks, Zenon
<1>. HIDE DEF stages
<1>3. "lease" \in stages /\ "cron" \in stages  BY DEF stages
<1>4. CASE ReadCursor(e)
  <2>1. EventsAge /\ UNCHANGED <<scenario, tables, sched, graph, evaluations>>
    BY <1>4, SameEventsAge, Zenon DEF ReadCursor, SameDefinitions, workflowVars, tables
  <2>2. EvaluatorsTickOn
    <3>1. "fire" \notin {"evaluate", "complete"}  OBVIOUS
    <3>. QED  BY <1>1, <1>2, <1>4, <3>1, TurnTicks, Zenon DEF ReadCursor
  <2>. QED  BY <2>1, <2>2, Zenon DEF Quietly
<1>5. CASE FireDueSchedule(e)
  <2>1. EvaluatorsTickOn /\ UNCHANGED <<scenario, tables, sched, graph, evaluations>>
    BY <1>1, <1>2, <1>5, Zenon DEF FireDueSchedule, SameDefinitions, workflowVars, tables
  <2>2. CASE UNCHANGED event  BY <2>1, <2>2, SameEventsAge, Zenon DEF Quietly
  <2>3. CASE event' = [d \in Deliveries |->
                   IF d.trigger = "cron" /\ d.key = ev[e].due
                   THEN Inserted(event, d)[d] ELSE event[d]]
    <3>1. DOMAIN event' = Deliveries  BY <2>3
    <3>2. \A d \in Deliveries : event'[d] = event[d] \/ event'[d] = Inserted(event, d)[d]
      BY <2>3, Zenon
    <3>3. ASSUME NEW d \in Deliveries  PROVE AgesTo(event[d], event'[d])
      BY <3>2, SameRowAges, InsertedAges, Zenon
    <3>. QED  BY <2>1, <3>1, <3>3, Zenon DEF Quietly, EventsAge
  <2>. QED  BY <1>5, <2>2, <2>3, Zenon DEF FireDueSchedule
<1>6. ASSUME NEW d \in Deliveries, event' = Inserted(event, d)  PROVE EventsAge
  BY <1>6, InsertedAges, Zenon DEF EventsAge
<1>7. CASE ProduceSql(e)
  <2>1. EvaluatorsTickOn /\ UNCHANGED <<scenario, tables, sched, graph, evaluations>>
    BY <1>1, <1>2, <1>7, Zenon DEF ProduceSql, SameDefinitions, workflowVars, tables
  <2>2. EventsAge  BY <1>6, <1>7, SameEventsAge, Zenon DEF ProduceSql
  <2>. QED  BY <2>1, <2>2, Zenon DEF Quietly
<1>8. CASE ClaimCustomTrigger(e)
  <2>1. EventsAge /\ UNCHANGED <<scenario, tables, sched, graph, evaluations>>
    BY <1>8, SameEventsAge, Zenon DEF ClaimCustomTrigger, SameDefinitions, workflowVars, tables
  <2>2. EvaluatorsTickOn
    <3>1. "plugin" \notin {"evaluate", "complete"}  OBVIOUS
    <3>. QED  BY <1>2, <1>3, <1>8, <3>1, TurnTicks, Zenon DEF ClaimCustomTrigger
  <2>. QED  BY <2>1, <2>2, Zenon DEF Quietly
<1>9. CASE CompleteCustomTrigger(e)
  <2>1. EvaluatorsTickOn /\ UNCHANGED <<scenario, tables, sched, graph, evaluations>>
    BY <1>2, <1>3, <1>9, Zenon DEF CompleteCustomTrigger, SameDefinitions, workflowVars, tables
  <2>2. EventsAge  BY <1>6, <1>9, SameEventsAge, Zenon DEF CompleteCustomTrigger
  <2>. QED  BY <2>1, <2>2, Zenon DEF Quietly
<1>10. CASE FailCustomTrigger(e)
  <2>1. EvaluatorsTickOn /\ UNCHANGED <<scenario, tables, sched, graph, evaluations>>
    BY <1>2, <1>3, <1>10, Zenon DEF FailCustomTrigger, SameDefinitions, workflowVars, tables
  <2>2. EventsAge  BY <1>10, SameEventsAge, Zenon DEF FailCustomTrigger
  <2>. QED  BY <2>1, <2>2, Zenon DEF Quietly
<1>. QED  BY <1>4, <1>5, <1>7, <1>8, <1>9, <1>10

\* Deciding, giving up, retrying and crashing.
LEMMA DecidingIsQuiet ==
    ASSUME TriggerTypes, NEW e \in Evaluators,
           \/ EvaluateGroup(e) \/ StoreFails(e) \/ CompletionFails(e)
           \/ RetryTriggerGroup(e) \/ EvaluatorCrashes(e)
    PROVE  Quietly
<1>1. "cron" \notin {"evaluate", "complete"} /\ "retry" \notin {"evaluate", "complete"}
  OBVIOUS
<1>2. Goes(e, "cron") => EvaluatorsTickOn  BY <1>1, GoesTicks, Zenon
<1>3. ev' = [ev EXCEPT ![e].pc = "retry"] => EvaluatorsTickOn  BY <1>1, TurnTicks, Zenon
<1>4. UNCHANGED event => EventsAge  BY SameEventsAge
<1>5. CASE EvaluateGroup(e)
  <2>1. EventsAge /\ UNCHANGED <<scenario, tables, sched, graph, evaluations>>
    BY <1>4, <1>5, Zenon DEF EvaluateGroup, SameDefinitions, workflowVars, tables
  <2>2. CASE automation.status # "absent"
    <3>. DEFINE verdict == automation.status = "enabled" /\ Satisfied(graph, ev[e].seen)
                next == [ev[e] EXCEPT !.pc = "complete", !.satisfied = verdict]
    <3>1. ev' = [ev EXCEPT ![e] = next]
      BY <1>5, <2>2, Zenon DEF EvaluateGroup
    <3>. HIDE DEF verdict
    <3>2. DOMAIN ev[e] = TickFields /\ ev[e].pc = "evaluate"
      BY <1>5 DEF TriggerTypes, EvaluateGroup, At
    <3>3. /\ DOMAIN next = TickFields /\ next.pc = "complete" /\ next.key = ev[e].key
          /\ next.seen = ev[e].seen
      BY <3>2 DEF TickFields
    <3>4. next.satisfied = verdict
      BY <3>2, Zenon DEF TickFields
    <3>. HIDE DEF next
    <3>5. /\ DOMAIN ev' = Evaluators /\ \A f \in Evaluators : f # e => ev'[f] = ev[f]
          /\ ev'[e] = next
      BY <3>1 DEF TriggerTypes
    <3>6. verdict => ev'[e].satisfied  BY <3>4, <3>5, Zenon
    <3>7. TicksTo(e)
      <4>1. Deciding(e)  BY <3>2 DEF Deciding
      <4>. QED  BY <3>3, <3>5, <3>6, <4>1, Zenon DEF TicksTo, verdict
    <3>8. \A f \in Evaluators : f # e => TicksTo(f)
      BY <3>5, Zenon DEF TriggerTypes, TicksTo, Deciding
    <3>9. EvaluatorsTickOn  BY <3>5, <3>7, <3>8, Zenon DEF EvaluatorsTickOn
    <3>. QED  BY <2>1, <3>9, Zenon DEF Quietly
  <2>3. CASE automation.status = "absent"
    BY <1>3, <1>5, <2>1, <2>3, Zenon DEF EvaluateGroup, Quietly
  <2>. QED  BY <2>2, <2>3
<1>6. CASE StoreFails(e)
  BY <1>3, <1>4, <1>6, Zenon DEF StoreFails, Quietly
<1>7. CASE CompletionFails(e)
  BY <1>3, <1>4, <1>7, Zenon DEF CompletionFails, Quietly, SameDefinitions, workflowVars, tables
<1>8. CASE RetryTriggerGroup(e)
  <2>1. EvaluatorsTickOn /\ UNCHANGED <<scenario, tables, sched, graph, evaluations>>
    BY <1>2, <1>8, Zenon DEF RetryTriggerGroup, SameDefinitions, workflowVars, tables
  <2>2. event' = [d \in Deliveries |->
           IF d \in Own(e)
           THEN [event[d] EXCEPT !.status = IF @ = "leased" /\ event[d].attempts >= MaxAttempts
                                           THEN "failed" ELSE "pending",
                                !.owner = "none", !.ready = FALSE]
           ELSE event[d]]
    BY <1>8 DEF RetryTriggerGroup
  <2>3. ASSUME NEW d \in Deliveries  PROVE AgesTo(event[d], event'[d])
    <3>1. CASE d \notin Own(e)
      BY <2>2, <3>1, SameRowAges
    <3>2. CASE d \in Own(e)
      <4>1. DOMAIN event[d] = EventFields /\ event[d].status = "leased"
        BY <3>2 DEF TriggerTypes, Own
      <4>2. DOMAIN event'[d] = EventFields /\ event'[d].status \in {"failed", "pending"}
        BY <2>2, <3>2, <4>1 DEF EventFields
      <4>. QED  BY <4>1, <4>2 DEF AgesTo
    <3>. QED  BY <3>1, <3>2
  <2>. QED  BY <2>1, <2>2, <2>3 DEF Quietly, EventsAge
<1>9. CASE EvaluatorCrashes(e)
  BY <1>2, <1>4, <1>9, Zenon DEF EvaluatorCrashes, Quietly
<1>. QED  BY <1>5, <1>6, <1>7, <1>8, <1>9

\* Webhooks, retention and time.
LEMMA SurroundingsAreQuiet ==
    ASSUME TriggerTypes,
           \/ \E d : Ingest(d)
           \/ \E d \in Deliveries : LeaseExpires(d) \/ BackoffPasses(d)
           \/ CleanupOldTriggerEvents \/ ClaimExpires \/ TimePasses
    PROVE  Quietly
<1>1. UNCHANGED ev => EvaluatorsTickOn  BY SameEvaluatorsTickOn
<1>2. UNCHANGED event => EventsAge  BY SameEventsAge
<1>3. ASSUME NEW d, Ingest(d)  PROVE Quietly
  <2>1. EvaluatorsTickOn /\ UNCHANGED <<scenario, tables, sched, graph, evaluations>>
    BY <1>1, <1>3, Zenon DEF Ingest, SameDefinitions, workflowVars, tables
  <2>2. EventsAge
    <3>1. event' = Inserted(event, d)  BY <1>3, Zenon DEF Ingest
    <3>2. DOMAIN event' = Deliveries  BY <3>1 DEF Inserted, TriggerTypes
    <3>3. \A c \in Deliveries : AgesTo(event[c], event'[c])
      <4>. SUFFICES ASSUME NEW c \in Deliveries  PROVE AgesTo(event[c], event'[c])
        OBVIOUS
      <4>1. AgesTo(event[c], Inserted(event, d)[c])  BY InsertedAges
      <4>. QED  BY <3>1, <4>1, Zenon
    <3>. QED  BY <3>2, <3>3, Zenon DEF EventsAge
  <2>. QED  BY <2>1, <2>2, Zenon DEF Quietly
<1>4. ASSUME NEW d \in Deliveries, LeaseExpires(d) \/ BackoffPasses(d)  PROVE Quietly
  <2>1. UNCHANGED ev /\ UNCHANGED <<scenario, tables, sched, graph, evaluations>>
    BY <1>4, Zenon DEF LeaseExpires, BackoffPasses, SameDefinitions, workflowVars, tables
  <2>2. event' = [event EXCEPT ![d].expired = TRUE] \/ event' = [event EXCEPT ![d].ready = TRUE]
    BY <1>4 DEF LeaseExpires, BackoffPasses
  <2>3. /\ DOMAIN event' = Deliveries /\ \A c \in Deliveries : c # d => event'[c] = event[c]
        /\ DOMAIN event'[d] = EventFields /\ event'[d].status = event[d].status
        /\ event'[d].owner = event[d].owner
    BY <2>2 DEF TriggerTypes, EventFields
  <2>4. EventsAge  BY <2>3, SameRowAges DEF EventsAge, AgesTo
  <2>. QED  BY <1>1, <2>1, <2>4, Zenon DEF Quietly
<1>5. CASE CleanupOldTriggerEvents
  <2>1. UNCHANGED ev /\ UNCHANGED <<scenario, tables, sched, graph, evaluations>>
    BY <1>5, Zenon DEF CleanupOldTriggerEvents
  <2>2. event' = [d \in Deliveries |->
                    IF d \in {c \in Deliveries : event[c].status \in {"evaluated", "failed"}}
                    THEN [NoEvent EXCEPT !.status = "forgotten"] ELSE event[d]]
    BY <1>5 DEF CleanupOldTriggerEvents
  <2>3. /\ DOMAIN [NoEvent EXCEPT !.status = "forgotten"] = EventFields
        /\ [NoEvent EXCEPT !.status = "forgotten"].status = "forgotten"
    BY DEF NoEvent, EventFields
  <2>4. EventsAge  BY <2>2, <2>3 DEF EventsAge, AgesTo, TriggerTypes
  <2>. QED  BY <1>1, <2>1, <2>4, Zenon DEF Quietly
<1>6. CASE ClaimExpires
  BY <1>1, <1>2, <1>6, Zenon DEF ClaimExpires, Quietly
<1>7. CASE TimePasses
  BY <1>1, <1>2, <1>7, Zenon DEF TimePasses, Quietly, workflowVars, tables
<1>. QED  BY <1>3, <1>4, <1>5, <1>6, <1>7

-----------------------------------------------------------------------------
(***************************************************************************)
(* The groups.                                                             *)
(***************************************************************************)
\* The condition of an automation that is left alone.
LEMMA GraphIsMonotone ==
    ASSUME TriggerTypes, graph = scenario.graph
    PROVE  \A A, B : A \subseteq B /\ Satisfied(graph, A) => Satisfied(graph, B)
<1>1. graph.condition \in Seq(Range(graph.condition))  BY TriggerAssumption DEF TriggerTypes
<1>. QED  BY <1>1, SatisfiedIsMonotone, Zenon

\* What a step that evaluates nothing leaves of the events.
StatusesAge ==
    \A d \in Deliveries :
        /\ event'[d].status = "evaluated" => event[d].status = "evaluated"
        /\ event[d].status \in {"failed", "forgotten"} => event'[d].status \in {"failed", "forgotten"}
        /\ event[d].status # "absent" => event'[d].status # "absent"

\* Such a step takes nothing from what an evaluator may decide, unless it takes its
\* lease, or gives it one.
LEMMA KeepsDecidingSoundly ==
    ASSUME TriggerTypes, graph = scenario.graph, UNCHANGED graph, evaluations \subseteq evaluations',
           NEW f \in Evaluators, DecidesSoundly(f),
           ev'[f].key = ev[f].key, ev'[f].seen = ev[f].seen,
           ev'[f].pc = "complete" /\ Satisfied(graph, ev[f].seen) => ev'[f].satisfied,
           StatusesAge,
           \A d \in Deliveries :
               event'[d].status = "leased" /\ event'[d].owner = OwnerOf[f]
                   => event[d].status = "leased" /\ event[d].owner = OwnerOf[f]
    PROVE  DecidesSoundly(f)'
<1>. DEFINE k == ev[f].key
            seen == ev[f].seen
            done == Evaluated(k)
            done2 == {d \in Group(k) : event'[d].status = "evaluated"}
            left == Standing(f)
            left2 == {d \in seen : event'[d].status \notin {"failed", "forgotten"}}
            own2 == {d \in Group(k) : event'[d].status = "leased" /\ event'[d].owner = OwnerOf[f]}
<1>1. /\ seen \subseteq Group(k) /\ \A d \in seen : event[d].status # "absent"
      /\ Own(f) \subseteq seen
      /\ k \notin evaluations /\ ~(done \subseteq seen) => ~Satisfied(graph, done \cup left)
  BY Zenon DEF DecidesSoundly
<1>2. seen \subseteq Deliveries /\ Group(k) \subseteq Deliveries  BY <1>1 DEF Group
<1>3. done2 \subseteq done  BY <1>2 DEF StatusesAge, Evaluated
<1>4. left2 \subseteq left  BY <1>2 DEF StatusesAge, Standing
<1>5. own2 \subseteq Own(f)  BY <1>2 DEF Own
<1>6. \A d \in seen : event'[d].status # "absent"  BY <1>1, <1>2 DEF StatusesAge
<1>7. ev'[f].pc = "complete" /\ Satisfied(graph', seen) => ev'[f].satisfied  BY Zenon
<1>8. k \notin evaluations' /\ ~(done2 \subseteq seen) => ~Satisfied(graph', done2 \cup left2)
  <2>. SUFFICES ASSUME k \notin evaluations', ~(done2 \subseteq seen)
                PROVE  ~Satisfied(graph, done2 \cup left2)
    BY Zenon
  <2>1. ~Satisfied(graph, done \cup left)
    <3>1. ~(done \subseteq seen) /\ k \notin evaluations  BY <1>3
    <3>. QED  BY <1>1, <3>1, Zenon
  <2>2. done2 \cup left2 \subseteq done \cup left  BY <1>3, <1>4
  <2>. QED  BY <2>1, <2>2, GraphIsMonotone, Zenon
<1>9. seen \subseteq {d \in Group(k) : event'[d].status # "absent"}  BY <1>1, <1>6
<1>10. own2 \subseteq seen  BY <1>1, <1>5
<1>. QED  BY <1>7, <1>8, <1>9, <1>10, Zenon DEF DecidesSoundly, Own, Evaluated, Standing

\* And it takes nothing from what two evaluators have seen of each other's.
LEMMA KeepsSeeing ==
    ASSUME NEW e, NEW f, OneSawTheOthers(e, f), StatusesAge,
           ev[e].seen \subseteq Deliveries, ev[f].seen \subseteq Deliveries,
           ev'[e].seen = ev[e].seen, ev'[f].seen = ev[f].seen
    PROVE  OneSawTheOthers(e, f)'
<1>1. Standing(e)' \subseteq Standing(e) /\ Standing(f)' \subseteq Standing(f)
  BY DEF StatusesAge, Standing
<1>. QED  BY <1>1 DEF OneSawTheOthers

\* A quiet step leaves the tables in shape.
LEMMA QuietKeepsTypes ==
    ASSUME TriggerTypes, Quietly
    PROVE  TriggerTypes'
<1>1. scenario' = scenario /\ automation' = automation  BY DEF Quietly, tables
<1>2. DOMAIN event' = Deliveries /\ \A d \in Deliveries : DOMAIN event'[d] = EventFields
  BY DEF Quietly, EventsAge, AgesTo
<1>3. DOMAIN ev' = Evaluators /\ \A e \in Evaluators : DOMAIN ev'[e] = TickFields
  BY DEF Quietly, EvaluatorsTickOn, TicksTo
<1>4. ASSUME NEW e \in Evaluators, Deciding(e)'
      PROVE  e \in scenario.evaluators /\ ev'[e].key \in Keys
  <2>1. Deciding(e) /\ ev'[e].key = ev[e].key
    BY <1>4, Zenon DEF Quietly, EvaluatorsTickOn, TicksTo, Deciding
  <2>. QED  BY <2>1, Zenon DEF TriggerTypes
<1>. QED  BY <1>1, <1>2, <1>3, <1>4, Zenon DEF TriggerTypes, Keys

\* A quiet step keeps what is known of the groups.
LEMMA QuietKeepsGroups ==
    ASSUME TriggerTypes, GroupsInv, Quietly
    PROVE  GroupsInv'
<1>1. /\ UNCHANGED <<scenario, automation, graph, run, evaluations>> /\ graph = scenario.graph
      /\ automation.status = "enabled"
  BY DEF Quietly, tables, GroupsInv
<1>2. StatusesAge
  BY DEF Quietly, EventsAge, AgesTo, StatusesAge
<1>3. ASSUME NEW e \in Evaluators, Deciding(e)'
      PROVE  /\ Deciding(e) /\ DecidesSoundly(e) /\ DecidesSoundly(e)'
             /\ ev'[e].key = ev[e].key /\ ev'[e].seen = ev[e].seen /\ ev[e].seen \subseteq Deliveries
  <2>1. Deciding(e) /\ ev'[e].key = ev[e].key /\ ev'[e].seen = ev[e].seen
    BY <1>3, Zenon DEF Quietly, EvaluatorsTickOn, TicksTo, Deciding
  <2>2. DecidesSoundly(e)  BY <2>1, Zenon DEF GroupsInv
  <2>3. ev'[e].pc = "complete" /\ Satisfied(graph, ev[e].seen) => ev'[e].satisfied
    BY <1>1, <2>2, Zenon DEF Quietly, EvaluatorsTickOn, TicksTo, DecidesSoundly
  <2>4. \A d \in Deliveries : event'[d].status = "leased" /\ event'[d].owner = OwnerOf[e]
                   => event[d].status = "leased" /\ event[d].owner = OwnerOf[e]
    BY Zenon DEF Quietly, EventsAge, AgesTo
  <2>5. evaluations \subseteq evaluations'  BY <1>1
  <2>6. DecidesSoundly(e)'
    BY <1>1, <1>2, <2>1, <2>2, <2>3, <2>4, <2>5, KeepsDecidingSoundly, Zenon
  <2>7. ev[e].seen \subseteq Deliveries  BY <2>2 DEF DecidesSoundly, Group
  <2>. QED  BY <2>1, <2>2, <2>6, <2>7
<1>4. ASSUME NEW k \in Keys, Satisfied(graph', Evaluated(k)')  PROVE k \in evaluations'
  <2>1. Evaluated(k)' \subseteq Evaluated(k)  BY <1>2 DEF StatusesAge, Evaluated, Group
  <2>2. Satisfied(graph, Evaluated(k))  BY <1>1, <1>4, <2>1, GraphIsMonotone, Zenon
  <2>. QED  BY <1>1, <2>2 DEF GroupsInv
<1>5. ASSUME NEW e \in Evaluators, NEW f \in Evaluators, Deciding(e)', Deciding(f)', ev'[e].key = ev'[f].key
      PROVE  OneSawTheOthers(e, f)'
  <2>1. OneSawTheOthers(e, f)
    BY <1>3, <1>5, Zenon DEF GroupsInv
  <2>. QED  BY <1>2, <1>3, <1>5, <2>1, KeepsSeeing, Zenon
<1>6. scenario'.evaluators # {} => \A k \in Keys : run'[k].status = "absent" \/ k \in evaluations'
  BY <1>1, Zenon DEF GroupsInv
<1>. QED  BY <1>1, <1>3, <1>4, <1>5, <1>6, Zenon DEF GroupsInv, Keys

\* Evaluators sign with names of their own.
OwnersDiffer == \A e, f \in Evaluators : OwnerOf[e] = OwnerOf[f] => e = f

\* What leasing an event does.
Leases(e, d) ==
    /\ Leasable(d) /\ e \in scenario.evaluators
    /\ DOMAIN event' = Deliveries /\ \A c \in Deliveries : c # d => event'[c] = event[c]
    /\ DOMAIN event'[d] = EventFields /\ event'[d].status = "leased" /\ event'[d].owner = OwnerOf[e]
    /\ DOMAIN ev' = Evaluators /\ \A f \in Evaluators : f # e => ev'[f] = ev[f]
    /\ DOMAIN ev'[e] = TickFields /\ ev'[e].pc = "evaluate" /\ ev'[e].key = d.key
    /\ ev'[e].seen = Known(d)
    /\ UNCHANGED <<scenario, tables, sched, graph, evaluations>>

LEMMA LeasesOrRests ==
    ASSUME TriggerTypes, NEW e \in Evaluators, LeaseTriggerGroup(e)
    PROVE  (Goes(e, "cron") /\ UNCHANGED event) \/ \E d \in Deliveries : Leases(e, d)
<1>1. UNCHANGED <<scenario, tables, sched, graph, evaluations>> /\ e \in scenario.evaluators
  BY DEF LeaseTriggerGroup, SameDefinitions, workflowVars, tables, At
<1>2. ASSUME NEW d \in Deliveries, Leasable(d),
             event' = [event EXCEPT ![d] =
                     [@ EXCEPT !.status = "leased", !.owner = OwnerOf[e], !.expired = FALSE,
                               !.attempts = Min({@ + 1, MaxAttempts})]],
             ev' = [ev EXCEPT ![e] =
                     [Idle EXCEPT !.pc = "evaluate", !.key = d.key, !.seen = Known(d)]]
      PROVE  Leases(e, d)
  <2>1. /\ DOMAIN event' = Deliveries /\ \A c \in Deliveries : c # d => event'[c] = event[c]
        /\ DOMAIN event'[d] = EventFields /\ event'[d].status = "leased"
        /\ event'[d].owner = OwnerOf[e]
    BY <1>2 DEF TriggerTypes, EventFields
  <2>2. /\ DOMAIN ev' = Evaluators /\ \A f \in Evaluators : f # e => ev'[f] = ev[f]
        /\ ev'[e] = [Idle EXCEPT !.pc = "evaluate", !.key = d.key, !.seen = Known(d)]
    BY <1>2 DEF TriggerTypes
  <2>3. DOMAIN ev'[e] = TickFields /\ ev'[e].pc = "evaluate" /\ ev'[e].key = d.key /\ ev'[e].seen = Known(d)
    BY <2>2 DEF Idle, TickFields
  <2>. QED  BY <1>1, <1>2, <2>1, <2>2, <2>3, Zenon DEF Leases
<1>3. \/ Goes(e, "cron") /\ UNCHANGED event
      \/ \E d \in Deliveries :
           /\ Leasable(d)
           /\ event' = [event EXCEPT ![d] =
                     [@ EXCEPT !.status = "leased", !.owner = OwnerOf[e], !.expired = FALSE,
                               !.attempts = Min({@ + 1, MaxAttempts})]]
           /\ ev' = [ev EXCEPT ![e] =
                     [Idle EXCEPT !.pc = "evaluate", !.key = d.key, !.seen = Known(d)]]
  BY Zenon DEF LeaseTriggerGroup
<1>. QED  BY <1>2, <1>3, Zenon

LEMMA LeaseTriggerGroupLeases ==
    ASSUME TriggerTypes, NEW e \in Evaluators, LeaseTriggerGroup(e)
    PROVE  Quietly \/ \E d \in Deliveries : Leases(e, d)
<1>1. UNCHANGED <<scenario, tables, sched, graph, evaluations>>
  BY DEF LeaseTriggerGroup, SameDefinitions, workflowVars, tables
<1>2. CASE Goes(e, "cron") /\ UNCHANGED event
  <2>1. "cron" \notin {"evaluate", "complete"}  OBVIOUS
  <2>. QED  BY <1>1, <1>2, <2>1, GoesTicks, SameEventsAge, Zenon DEF Quietly
<1>. QED  BY <1>2, LeasesOrRests, Zenon

LEMMA LeaseKeepsTypes ==
    ASSUME TriggerTypes, NEW e \in Evaluators, NEW d \in Deliveries, Leases(e, d)
    PROVE  TriggerTypes'
<1>1. scenario' = scenario /\ automation' = automation  BY DEF Leases, tables
<1>2. DOMAIN event' = Deliveries /\ \A c \in Deliveries : DOMAIN event'[c] = EventFields
  BY DEF Leases, TriggerTypes
<1>3. DOMAIN ev' = Evaluators /\ \A f \in Evaluators : DOMAIN ev'[f] = TickFields
  BY DEF Leases, TriggerTypes
<1>4. d.key \in Keys  BY DEF Keys
<1>5. ASSUME NEW f \in Evaluators, Deciding(f)'
      PROVE  f \in scenario.evaluators /\ ev'[f].key \in Keys
  <2>1. CASE f = e  BY <1>4, <2>1 DEF Leases
  <2>2. CASE f # e  BY <1>5, <2>2, Zenon DEF Leases, TriggerTypes, Deciding
  <2>. QED  BY <2>1, <2>2
<1>. QED  BY <1>1, <1>2, <1>3, <1>5, Zenon DEF TriggerTypes, Keys

\* An evaluator is handed every event of the group that still counts, so also what
\* the others on that group were handed.
LEMMA LeaseKeepsGroups ==
    ASSUME OwnersDiffer, TriggerTypes, GroupsInv,
           NEW e \in Evaluators, NEW d \in Deliveries, Leases(e, d)
    PROVE  GroupsInv'
<1>1. /\ UNCHANGED <<scenario, automation, graph, run, evaluations>> /\ graph = scenario.graph
      /\ automation.status = "enabled"
  BY DEF Leases, tables, GroupsInv
<1>2. /\ \A c \in Deliveries : c # d => event'[c] = event[c]
      /\ event[d].status \in {"pending", "leased"}
      /\ event'[d].status = "leased" /\ event'[d].owner = OwnerOf[e]
  BY DEF Leases, Leasable
<1>3. StatusesAge  BY <1>2 DEF StatusesAge
<1>4. evaluations \subseteq evaluations'  BY <1>1
<1>5. ASSUME NEW f \in Evaluators, f # e, Deciding(f)'
      PROVE  /\ Deciding(f) /\ ev'[f] = ev[f] /\ DecidesSoundly(f) /\ DecidesSoundly(f)'
             /\ ev[f].seen \subseteq Deliveries
  <2>1. ev'[f] = ev[f]  BY <1>5, Zenon DEF Leases
  <2>2. Deciding(f)  BY <1>5, <2>1, Zenon DEF Deciding
  <2>3. DecidesSoundly(f)  BY <2>2, Zenon DEF GroupsInv
  <2>4. OwnerOf[e] # OwnerOf[f]  BY <1>5, Zenon DEF OwnersDiffer
  <2>5. \A c \in Deliveries : event'[c].status = "leased" /\ event'[c].owner = OwnerOf[f]
                   => event[c].status = "leased" /\ event[c].owner = OwnerOf[f]
    BY <1>2, <2>4, Zenon
  <2>6. ev'[f].pc = "complete" /\ Satisfied(graph, ev[f].seen) => ev'[f].satisfied
    BY <2>1, <2>3, Zenon DEF DecidesSoundly
  <2>7. ev'[f].key = ev[f].key /\ ev'[f].seen = ev[f].seen  BY <2>1
  <2>8. DecidesSoundly(f)'
    BY <1>1, <1>3, <1>4, <2>3, <2>5, <2>6, <2>7, KeepsDecidingSoundly, Zenon
  <2>9. ev[f].seen \subseteq Deliveries  BY <2>3 DEF DecidesSoundly, Group
  <2>. QED  BY <2>1, <2>2, <2>3, <2>8, <2>9
<1>6. ev'[e].pc = "evaluate" /\ ev'[e].key = d.key /\ ev'[e].seen = Known(d)  BY DEF Leases
<1>7. Evaluated(d.key)' \subseteq Known(d)
  BY <1>3 DEF Evaluated, Known, StatusesAge, Group
<1>8. DecidesSoundly(e)'
  <2>1. Known(d) \subseteq {c \in Group(d.key) : event'[c].status # "absent"}
    BY <1>3 DEF Known, StatusesAge, Group
  <2>2. \A c \in Group(d.key) : event'[c].status = "leased" => c \in Known(d)
    BY <1>2 DEF Known, Group
  <2>3. Own(e)' \subseteq ev'[e].seen
    BY <1>6, <2>2 DEF Own
  <2>4. Evaluated(ev[e].key)' \subseteq ev'[e].seen  BY <1>6, <1>7, Zenon DEF Evaluated
  <2>5. ev'[e].pc # "complete"  BY <1>6
  <2>6. ev'[e].seen \subseteq {c \in Group(ev'[e].key) : event'[c].status # "absent"}
    BY <1>6, <2>1, Zenon
  <2>. QED  BY <2>3, <2>4, <2>5, <2>6, Zenon DEF DecidesSoundly, Evaluated
<1>9. ASSUME NEW f \in Evaluators, f # e, Deciding(f)', ev'[f].key = d.key
      PROVE  Standing(f)' \subseteq ev'[e].seen
  <2>1. /\ ev'[f] = ev[f] /\ ev[f].seen \subseteq {c \in Group(d.key) : event[c].status # "absent"}
    BY <1>5, <1>9, Zenon DEF DecidesSoundly
  <2>. QED  BY <1>3, <1>6, <2>1 DEF Standing, Known, StatusesAge, Group
<1>10. ASSUME NEW k \in Keys, Satisfied(graph', Evaluated(k)')  PROVE k \in evaluations'
  <2>1. Evaluated(k)' \subseteq Evaluated(k)  BY <1>3 DEF StatusesAge, Evaluated, Group
  <2>2. Satisfied(graph, Evaluated(k))  BY <1>1, <1>10, <2>1, GraphIsMonotone, Zenon
  <2>. QED  BY <1>1, <2>2 DEF GroupsInv
<1>11. ASSUME NEW f \in Evaluators, NEW g \in Evaluators, Deciding(f)', Deciding(g)', ev'[f].key = ev'[g].key
       PROVE  OneSawTheOthers(f, g)'
  <2>1. CASE f = e /\ g = e
    BY <2>1 DEF OneSawTheOthers, Standing
  <2>2. CASE f = e /\ g # e
    BY <1>6, <1>9, <1>11, <2>2, Zenon DEF OneSawTheOthers
  <2>3. CASE f # e /\ g = e
    BY <1>6, <1>9, <1>11, <2>3, Zenon DEF OneSawTheOthers
  <2>4. CASE f # e /\ g # e
    <3>1. OneSawTheOthers(f, g)
      BY <1>5, <1>11, <2>4, Zenon DEF GroupsInv
    <3>. QED  BY <1>3, <1>5, <1>11, <2>4, <3>1, KeepsSeeing, Zenon
  <2>. QED  BY <2>1, <2>2, <2>3, <2>4
<1>12. scenario'.evaluators # {} => \A k \in Keys : run'[k].status = "absent" \/ k \in evaluations'
  BY <1>1, Zenon DEF GroupsInv
<1>. QED  BY <1>1, <1>5, <1>8, <1>10, <1>11, <1>12, Zenon DEF GroupsInv, Keys

\* What completing a group does.
Completes(e) ==
    /\ At(e, "complete")
    /\ DOMAIN event' = Deliveries /\ \A d \in Deliveries \ Own(e) : event'[d] = event[d]
    /\ \A d \in Own(e) : DOMAIN event'[d] = EventFields /\ event'[d].status = "evaluated"
    /\ DOMAIN ev' = Evaluators /\ \A f \in Evaluators : f # e => ev'[f] = ev[f]
    /\ DOMAIN ev'[e] = TickFields /\ ev'[e].pc = "cron"
    /\ \/ Creates(e) /\ InsertRun(ev[e].key) /\ evaluations' = evaluations \cup {ev[e].key}
       \/ ~Creates(e) /\ UNCHANGED <<run, created, evaluations>>
    /\ UNCHANGED <<scenario, live, jobDefs, stepRun, automation, sched, graph>>

LEMMA CompleteTriggerGroupCompletes ==
    ASSUME TriggerTypes, NEW e \in Evaluators, CompleteTriggerGroup(e)
    PROVE  Completes(e)
<1>1. /\ At(e, "complete") /\ UNCHANGED <<scenario, live, jobDefs, stepRun, automation, sched, graph>>
      /\ \/ Creates(e) /\ InsertRun(ev[e].key) /\ evaluations' = evaluations \cup {ev[e].key}
         \/ ~Creates(e) /\ UNCHANGED <<run, created, evaluations>>
  BY Zenon DEF CompleteTriggerGroup
<1>2. Goes(e, "cron")  BY Zenon DEF CompleteTriggerGroup
<1>3. /\ DOMAIN ev' = Evaluators /\ \A f \in Evaluators : f # e => ev'[f] = ev[f]
      /\ DOMAIN ev'[e] = TickFields /\ ev'[e].pc = "cron"
  BY <1>2, GoesTicks, Zenon
<1>4. event' = [d \in Deliveries |->
           IF d \in Own(e) THEN [event[d] EXCEPT !.status = "evaluated", !.owner = "none"]
                           ELSE event[d]]
  BY Zenon DEF CompleteTriggerGroup
<1>5. DOMAIN event' = Deliveries /\ \A d \in Deliveries \ Own(e) : event'[d] = event[d]
  BY <1>4
<1>6. ASSUME NEW d \in Own(e)  PROVE DOMAIN event'[d] = EventFields /\ event'[d].status = "evaluated"
  <2>1. d \in Deliveries /\ DOMAIN event[d] = EventFields  BY <1>6 DEF Own, Group, TriggerTypes
  <2>. QED  BY <1>4, <1>6, <2>1 DEF EventFields
<1>. QED  BY <1>1, <1>3, <1>5, <1>6, Zenon DEF Completes

LEMMA CompleteKeepsTypes ==
    ASSUME TriggerTypes, NEW e \in Evaluators, Completes(e)
    PROVE  TriggerTypes'
<1>1. scenario' = scenario /\ automation' = automation  BY DEF Completes
<1>2. DOMAIN event' = Deliveries /\ \A c \in Deliveries : DOMAIN event'[c] = EventFields
  BY DEF Completes, TriggerTypes
<1>3. DOMAIN ev' = Evaluators /\ \A f \in Evaluators : DOMAIN ev'[f] = TickFields
  BY DEF Completes, TriggerTypes
<1>4. ASSUME NEW f \in Evaluators, Deciding(f)'
      PROVE  f \in scenario.evaluators /\ ev'[f].key \in Keys
  <2>1. f # e
    BY <1>4 DEF Completes, Deciding
  <2>. QED  BY <1>4, <2>1, Zenon DEF Completes, TriggerTypes, Deciding
<1>. QED  BY <1>1, <1>2, <1>3, <1>4, Zenon DEF TriggerTypes, Keys

\* The events an evaluator settles, with those that were settled before, satisfy the
\* condition only if the group has its run: either it has seen them all, or it knew
\* that they would not.
LEMMA CompletionIsSound ==
    ASSUME TriggerTypes, WorkflowInv, GroupsInv, NEW e \in Evaluators, Completes(e),
           ev[e].key \notin evaluations'
    PROVE  ~Satisfied(graph, Evaluated(ev[e].key) \cup Standing(e))
<1>. DEFINE k == ev[e].key
<1>1. ev[e].pc = "complete" /\ Deciding(e) /\ DecidesSoundly(e) /\ k \in Keys /\ scenario.evaluators # {}
  <2>1. ev[e].pc = "complete" /\ e \in scenario.evaluators  BY DEF Completes, At
  <2>2. Deciding(e)  BY <2>1 DEF Deciding
  <2>. QED  BY <2>1, <2>2, Zenon DEF GroupsInv, TriggerTypes
<1>2. k \notin evaluations /\ ~Creates(e)  BY Zenon DEF Completes
<1>3. run[k].status = "absent"  BY <1>1, <1>2, Zenon DEF GroupsInv
<1>4. ~ev[e].satisfied  BY <1>2, <1>3, Zenon DEF Creates
<1>5. ~Satisfied(graph, ev[e].seen)  BY <1>1, <1>4, Zenon DEF DecidesSoundly
<1>6. Standing(e) \subseteq ev[e].seen  BY DEF Standing
<1>7. CASE Evaluated(k) \subseteq ev[e].seen
  <2>1. Evaluated(k) \cup Standing(e) \subseteq ev[e].seen  BY <1>6, <1>7
  <2>2. graph = scenario.graph  BY DEF GroupsInv
  <2>. QED  BY <1>5, <2>1, <2>2, GraphIsMonotone, Zenon
<1>8. CASE ~(Evaluated(k) \subseteq ev[e].seen)
  BY <1>1, <1>2, <1>8, Zenon DEF DecidesSoundly
<1>. QED  BY <1>7, <1>8

LEMMA CompleteKeepsGroups ==
    ASSUME TriggerTypes, WorkflowInv, GroupsInv, NEW e \in Evaluators, Completes(e)
    PROVE  GroupsInv'
<1>. DEFINE k == ev[e].key
<1>1. /\ UNCHANGED <<scenario, automation, graph>> /\ graph = scenario.graph
      /\ automation.status = "enabled" /\ evaluations \subseteq evaluations'
  BY DEF Completes, GroupsInv
<1>2. /\ ev[e].pc = "complete" /\ Deciding(e) /\ DecidesSoundly(e) /\ k \in Keys
      /\ scenario.evaluators # {}
  <2>1. ev[e].pc = "complete" /\ e \in scenario.evaluators  BY DEF Completes, At
  <2>2. Deciding(e)  BY <2>1 DEF Deciding
  <2>. QED  BY <2>1, <2>2, Zenon DEF GroupsInv, TriggerTypes
<1>3. /\ Own(e) \subseteq Group(k) /\ Own(e) \subseteq Standing(e)
      /\ \A d \in Own(e) : event[d].status = "leased" /\ event'[d].status = "evaluated"
      /\ \A d \in Deliveries \ Own(e) : event'[d] = event[d]
  <2>1. Own(e) \subseteq Group(k) /\ \A d \in Own(e) : event[d].status = "leased"  BY DEF Own
  <2>2. Own(e) \subseteq ev[e].seen  BY <1>2 DEF DecidesSoundly
  <2>3. Own(e) \subseteq Standing(e)  BY <2>1, <2>2 DEF Standing
  <2>. QED  BY <2>1, <2>3 DEF Completes
<1>4. \A j : j = k => Evaluated(j)' \subseteq Evaluated(k) \cup Own(e)
  BY <1>3 DEF Evaluated, Group
<1>5. \A j : j # k => Evaluated(j)' \subseteq Evaluated(j)
  BY <1>3 DEF Evaluated, Group
<1>6. ASSUME k \notin evaluations'
      PROVE  ~Satisfied(graph, Evaluated(k) \cup Standing(e))
  BY <1>6, CompletionIsSound
<1>7. ASSUME NEW j \in Keys, Satisfied(graph', Evaluated(j)')  PROVE j \in evaluations'
  <2>1. CASE j # k
    <3>1. Satisfied(graph, Evaluated(j))  BY <1>1, <1>5, <1>7, <2>1, GraphIsMonotone, Zenon
    <3>. QED  BY <1>1, <3>1 DEF GroupsInv
  <2>2. CASE j = k
    <3>1. Evaluated(j)' \subseteq Evaluated(k) \cup Standing(e)  BY <1>3, <1>4, <2>2
    <3>2. Satisfied(graph, Evaluated(k) \cup Standing(e))
      BY <1>1, <1>7, <2>2, <3>1, GraphIsMonotone, Zenon
    <3>. QED  BY <1>6, <2>2, <3>2, Zenon
  <2>. QED  BY <2>1, <2>2
<1>8. ASSUME NEW f \in Evaluators, Deciding(f)'
      PROVE  /\ f # e /\ ev'[f] = ev[f] /\ Deciding(f) /\ DecidesSoundly(f)
             /\ ev[f].seen \subseteq Deliveries
             /\ Standing(f)' = Standing(f)
  <2>1. f # e  BY <1>8 DEF Completes, Deciding
  <2>2. ev'[f] = ev[f]  BY <2>1, Zenon DEF Completes
  <2>3. Deciding(f)  BY <1>8, <2>2, Zenon DEF Deciding
  <2>4. DecidesSoundly(f)  BY <2>3, Zenon DEF GroupsInv
  <2>5. ev[f].seen \subseteq Deliveries  BY <2>4 DEF DecidesSoundly, Group
  <2>6. Standing(f)' = Standing(f)  BY <1>3, <2>2, <2>5 DEF Standing
  <2>. QED  BY <2>1, <2>2, <2>3, <2>4, <2>5, <2>6
<1>9. ASSUME NEW f \in Evaluators, Deciding(f)'  PROVE DecidesSoundly(f)'
  <2>. DEFINE j == ev[f].key
              seen == ev[f].seen
              done == Evaluated(j)
              done2 == {d \in Group(j) : event'[d].status = "evaluated"}
              own2 == {d \in Group(j) : event'[d].status = "leased" /\ event'[d].owner = OwnerOf[f]}
  <2>1. /\ f # e /\ ev'[f] = ev[f] /\ Deciding(f) /\ DecidesSoundly(f)
        /\ seen \subseteq Deliveries /\ Standing(f)' = Standing(f)
    BY <1>8, <1>9
  <2>2. /\ seen \subseteq Group(j) /\ \A d \in seen : event[d].status # "absent"
        /\ Own(f) \subseteq seen
        /\ ev[f].pc = "complete" /\ Satisfied(graph, seen) => ev[f].satisfied
        /\ j \notin evaluations /\ ~(done \subseteq seen) => ~Satisfied(graph, done \cup Standing(f))
    BY <2>1, Zenon DEF DecidesSoundly
  <2>3. seen \subseteq {d \in Group(j) : event'[d].status # "absent"}
    BY <1>3, <2>1, <2>2
  <2>4. own2 \subseteq seen
    <3>1. own2 \subseteq Own(f)  BY <1>3 DEF Own, Group
    <3>. QED  BY <2>2, <3>1
  <2>5. ASSUME j \notin evaluations', ~(done2 \subseteq seen)
        PROVE  ~Satisfied(graph, done2 \cup Standing(f))
    <3>1. j \notin evaluations  BY <1>1, <2>5
    <3>2. CASE done2 \subseteq done \/ (done2 \subseteq done \cup Own(e) /\ Standing(e) \subseteq seen)
      <4>1. Standing(e) \subseteq seen => Own(e) \subseteq seen /\ Own(e) \subseteq Standing(f)
        BY <1>3 DEF Standing
      <4>2. ~(done \subseteq seen) /\ done2 \cup Standing(f) \subseteq done \cup Standing(f)
        BY <2>5, <3>2, <4>1
      <4>3. ~Satisfied(graph, done \cup Standing(f))  BY <2>2, <3>1, <4>2, Zenon
      <4>. QED  BY <1>1, <4>2, <4>3, GraphIsMonotone, Zenon
    <3>3. CASE j = k /\ Standing(f) \subseteq ev[e].seen
      <4>1. Standing(f) \subseteq Standing(e)  BY <3>3 DEF Standing
      <4>2. done2 \subseteq done \cup Own(e)  BY <1>3, <3>3 DEF Evaluated, Group
      <4>3. done2 \cup Standing(f) \subseteq Evaluated(k) \cup Standing(e)
        BY <1>3, <3>3, <4>1, <4>2
      <4>4. ~Satisfied(graph, Evaluated(k) \cup Standing(e))  BY <1>6, <2>5, <3>3, Zenon
      <4>. QED  BY <1>1, <4>3, <4>4, GraphIsMonotone, Zenon
    <3>4. CASE j # k
      <4>1. done2 \subseteq done  BY <1>3, <3>4 DEF Evaluated, Group
      <4>. QED  BY <3>2, <4>1
    <3>5. CASE j = k
      <4>1. OneSawTheOthers(e, f)  BY <1>2, <2>1, <3>5, Zenon DEF GroupsInv
      <4>2. done2 \subseteq done \cup Own(e)  BY <1>3, <3>5 DEF Evaluated, Group
      <4>. QED  BY <3>2, <3>3, <3>5, <4>1, <4>2, Zenon DEF OneSawTheOthers
    <3>. QED  BY <3>4, <3>5
  <2>6. Standing(f)' = {d \in seen : event'[d].status \notin {"failed", "forgotten"}}
    BY <2>1, Zenon DEF Standing
  <2>. HIDE DEF seen, j
  <2>7. ev'[f].seen = seen /\ ev'[f].key = j  BY <2>1, Zenon DEF seen, j
  <2>8. ev'[f].pc = "complete" /\ Satisfied(graph', ev'[f].seen) => ev'[f].satisfied
    BY <1>1, <2>1, <2>2, <2>7, Zenon
  <2>9. ev'[f].key \notin evaluations' /\ ~(done2 \subseteq ev'[f].seen)
           => ~Satisfied(graph', done2 \cup Standing(f)')
    BY <1>1, <2>1, <2>5, <2>7, Zenon
  <2>10. Evaluated(ev[f].key)' = done2 /\ Own(f)' = own2
    BY <2>7, Zenon DEF Evaluated, Own
  <2>11. ev'[f].seen \subseteq {d \in Group(ev'[f].key) : event'[d].status # "absent"}
    BY <2>3, <2>7, Zenon
  <2>12. Own(f)' \subseteq ev'[f].seen  BY <2>4, <2>7, <2>10, Zenon
  <2>. HIDE DEF done2
  <2>. QED  BY <2>8, <2>9, <2>10, <2>11, <2>12, Zenon DEF DecidesSoundly
<1>10. ASSUME NEW f \in Evaluators, NEW g \in Evaluators, Deciding(f)', Deciding(g)', ev'[f].key = ev'[g].key
       PROVE  OneSawTheOthers(f, g)'
  <2>1. OneSawTheOthers(f, g)  BY <1>8, <1>10, Zenon DEF GroupsInv
  <2>. QED  BY <1>8, <1>10, <2>1, Zenon DEF OneSawTheOthers
<1>11. ASSUME NEW j \in Keys  PROVE run'[j].status = "absent" \/ j \in evaluations'
  <2>1. run[j].status = "absent" \/ j \in evaluations  BY <1>2, Zenon DEF GroupsInv
  <2>2. CASE UNCHANGED run  BY <1>1, <2>1, <2>2
  <2>3. CASE InsertRun(k) /\ evaluations' = evaluations \cup {k}
    <3>1. j \in DOMAIN run  BY TriggerAssumption DEF WorkflowInv, Keys
    <3>. QED  BY <2>1, <2>3, <3>1 DEF InsertRun
  <2>. QED  BY <2>2, <2>3, Zenon DEF Completes
<1>. QED  BY <1>1, <1>7, <1>9, <1>10, <1>11, Zenon DEF GroupsInv, Keys

-----------------------------------------------------------------------------
(***************************************************************************)
(* The schedulers, the workers and the API beside the evaluators.          *)
(***************************************************************************)
AutomationMoves ==
    \/ automation' = automation
    \/ \E x : automation' = [automation EXCEPT !.fire = x]
    \/ /\ "toggle" \in scenario.edits /\ automation.status # "absent"
       /\ \E status \in {"enabled", "disabled"} : \E x : automation' = [status |-> status, fire |-> x]

\* Runs are created under ids that are generated.
RunsAppear ==
    \A r \in Runs : run[r].status = "absent" => run'[r].status = "absent" \/ r \in scenario.runs

LEMMA SameRunsAppear ==
    ASSUME UNCHANGED run
    PROVE  RunsAppear
BY DEF RunsAppear

LEMMA OneRunAppears ==
    ASSUME WorkflowInv, NEW r, DOMAIN run' = DOMAIN run, \A o \in Runs : o # r => run'[o] = run[o],
           r \in scenario.runs \/ run[r].status # "absent"
    PROVE  RunsAppear
BY DEF RunsAppear, WorkflowInv

LEMMA GeneratedRunAppears ==
    ASSUME WorkflowInv, FreshIds # {}, InsertRun(GeneratedId)
    PROVE  RunsAppear
<1>1. GeneratedId \in FreshIds  BY Zenon DEF GeneratedId
<1>2. GeneratedId \in scenario.runs  BY <1>1 DEF FreshIds
<1>3. DOMAIN run' = DOMAIN run /\ \A o \in Runs : o # GeneratedId => run'[o] = run[o]
  BY DEF InsertRun, WorkflowInv
<1>. QED  BY <1>2, <1>3, OneRunAppears, Zenon

LEMMA ReconciledRunsAppear ==
    ASSUME WorkflowInv, NEW r, ReconcileWorkflowRun(r)
    PROVE  RunsAppear
<1>1. CASE ~Active(r)  BY <1>1, SameRunsAppear, Zenon DEF ReconcileWorkflowRun
<1>2. CASE Active(r)
  <2>1. DOMAIN run' = DOMAIN run /\ \A o \in Runs : o # r => run'[o] = run[o]
    BY <1>2 DEF ReconcileWorkflowRun, WorkflowInv
  <2>2. run[r].status # "absent"  BY <1>2 DEF Active
  <2>. QED  BY <2>1, <2>2, OneRunAppears, Zenon
<1>. QED  BY <1>1, <1>2

LEMMA WorkflowLeaves ==
    ASSUME WorkflowInv, WorkflowNext
    PROVE  scenario' = scenario /\ AutomationMoves /\ RunsAppear
<1>1. ASSUME NEW n \in Schedulers, SchedulerStep(n)
      PROVE  scenario' = scenario /\ AutomationMoves /\ RunsAppear
  <2>1. CASE FireInterval(n)
    <3>1. scenario' = scenario /\ AutomationMoves
      BY <2>1, Zenon DEF FireInterval, AutomationMoves
    <3>. QED  BY <2>1, <3>1, GeneratedRunAppears, Zenon DEF FireInterval
  <2>2. CASE AdvanceNext(n)
    <3>1. scenario' = scenario /\ AutomationMoves
      BY <2>2, Zenon DEF AdvanceNext, AutomationMoves
    <3>. QED  BY <2>2, <3>1, ReconciledRunsAppear, Zenon DEF AdvanceNext
  <2>3. CASE ~FireInterval(n) /\ ~AdvanceNext(n)
    <3>1. UNCHANGED <<scenario, tables>>
      BY <1>1, <2>3, Zenon
         DEF SchedulerStep, SelectDue, ListActiveRuns, AdvanceSkips, AdvanceFails, SchedulerCrashes, SchedulerRestarts
    <3>. QED  BY <3>1, SameRunsAppear, Zenon DEF tables, AutomationMoves
  <2>. QED  BY <2>1, <2>2, <2>3
<1>2. ASSUME NEW r \in Runs, WorkerAdvances(r)
      PROVE  scenario' = scenario /\ AutomationMoves /\ RunsAppear
  BY <1>2, ReconciledRunsAppear, Zenon DEF WorkerAdvances, AutomationMoves
<1>3. ASSUME NEW r \in Runs, RemoveQueuedRun(r) \/ CancelRunningRun(r) \/ ResumeRun(r) \/ DeadlinePasses(r)
      PROVE  scenario' = scenario /\ AutomationMoves /\ RunsAppear
  <2>1. scenario' = scenario /\ automation' = automation
    BY <1>3, Zenon DEF RemoveQueuedRun, CancelRunningRun, ResumeRun, DeadlinePasses
  <2>2. run[r].status # "absent"
    BY <1>3 DEF RemoveQueuedRun, CancelRunningRun, ResumeRun, DeadlinePasses, Active
  <2>3. DOMAIN run' = DOMAIN run /\ \A o \in Runs : o # r => run'[o] = run[o]
    <3>1. DOMAIN run = Runs  BY DEF WorkflowInv
    <3>2. CASE RemoveQueuedRun(r)  BY <3>1, <3>2 DEF RemoveQueuedRun
    <3>3. CASE CancelRunningRun(r)  BY <3>1, <3>3 DEF CancelRunningRun
    <3>4. CASE ResumeRun(r)  BY <3>1, <3>4 DEF ResumeRun
    <3>5. CASE DeadlinePasses(r)  BY <3>1, <3>5 DEF DeadlinePasses
    <3>. QED  BY <1>3, <3>2, <3>3, <3>4, <3>5
  <2>. QED  BY <2>1, <2>2, <2>3, OneRunAppears, Zenon DEF AutomationMoves
<1>4. ASSUME NEW r \in Runs, NEW s, JobStarts(r, s) \/ JobEnds(r, s) \/ JobWaitsAgain(r, s) \/ JobIsCancelled(r, s)
      PROVE  scenario' = scenario /\ AutomationMoves /\ RunsAppear
  <2>1. UNCHANGED <<scenario, automation, run>>
    BY <1>4, Zenon DEF JobStarts, JobEnds, JobWaitsAgain, JobIsCancelled, JobMoves
  <2>. QED  BY <2>1, SameRunsAppear, Zenon DEF AutomationMoves
<1>5. ASSUME \/ \E wf \in scenario.definitions : CreateWorkflow(wf) \/ UpdateWorkflow(wf)
             \/ \E d \in jobDefs : DeleteJobDefinition(d)
             \/ DeleteWorkflow
      PROVE  scenario' = scenario /\ AutomationMoves /\ RunsAppear
  <2>1. UNCHANGED <<scenario, automation, run>>
    BY <1>5, Zenon DEF CreateWorkflow, UpdateWorkflow, UpsertWorkflow, DeleteJobDefinition, DeleteWorkflow
  <2>. QED  BY <2>1, SameRunsAppear, Zenon DEF AutomationMoves
<1>6. ASSUME NEW status \in {"enabled", "disabled"}, SetAutomationStatus(status)
      PROVE  scenario' = scenario /\ AutomationMoves /\ RunsAppear
  <2>1. /\ UNCHANGED <<scenario, run>> /\ "toggle" \in scenario.edits /\ automation.status # "absent"
        /\ \E x : automation' = [status |-> status, fire |-> x]
    BY <1>6, Zenon DEF SetAutomationStatus, Allowed
  <2>. QED  BY <2>1, SameRunsAppear, Zenon DEF AutomationMoves
<1>7. CASE TriggerAutomation
  BY <1>7, GeneratedRunAppears, Zenon DEF TriggerAutomation, AutomationMoves
<1>8. CASE FireFallsDue
  BY <1>8, SameRunsAppear, Zenon DEF FireFallsDue, AutomationMoves
<1>. QED  BY <1>1, <1>2, <1>3, <1>4, <1>5, <1>6, <1>7, <1>8, Zenon DEF WorkflowNext

\* Such a step keeps the shape of the tables, and what is known of the groups when
\* the automation is left alone.
LEMMA WorkflowKeepsTypes ==
    ASSUME TriggerTypes, scenario' = scenario, AutomationMoves, UNCHANGED triggerVars
    PROVE  TriggerTypes'
<1>1. DOMAIN automation' = {"status", "fire"}
  BY DEF AutomationMoves, TriggerTypes
<1>2. ev' = ev /\ event' = event  BY DEF triggerVars
<1>. QED  BY <1>1, <1>2, Zenon DEF TriggerTypes, Deciding, Keys

LEMMA WorkflowKeepsGroups ==
    ASSUME TriggerTypes, LeftAlone, GroupsInv, scenario' = scenario, AutomationMoves, RunsAppear,
           UNCHANGED triggerVars
    PROVE  GroupsInv'
<1>1. automation'.status = "enabled"
  BY DEF AutomationMoves, TriggerTypes, LeftAlone, GroupsInv
<1>2. UNCHANGED <<ev, event, graph, evaluations>>  BY DEF triggerVars
<1>3. ASSUME scenario'.evaluators # {}, NEW k \in Keys
      PROVE  run'[k].status = "absent" \/ k \in evaluations'
  <2>1. k \in Runs /\ k \notin scenario.runs
    BY <1>3, TriggerAssumption DEF TriggerTypes, Keys
  <2>2. run[k].status = "absent" \/ k \in evaluations  BY <1>3, Zenon DEF GroupsInv
  <2>. QED  BY <1>2, <2>1, <2>2, Zenon DEF RunsAppear
<1>4. \A e : (Deciding(e)' <=> Deciding(e)) /\ (DecidesSoundly(e)' <=> DecidesSoundly(e))
  BY <1>2, Zenon DEF Deciding, DecidesSoundly, Own, Evaluated, Standing
<1>5. \A e, f : OneSawTheOthers(e, f)' <=> OneSawTheOthers(e, f)
  BY <1>2, Zenon DEF OneSawTheOthers, Standing
<1>6. \A k \in Keys : Satisfied(graph', Evaluated(k)') => k \in evaluations'
  BY <1>2, Zenon DEF GroupsInv, Evaluated
<1>7. graph' = scenario'.graph  BY <1>2 DEF GroupsInv
<1>. QED  BY <1>1, <1>2, <1>3, <1>4, <1>5, <1>6, <1>7, Zenon DEF GroupsInv, Keys

\* Editing the triggers or deleting the automation keeps the shape of the tables.
LEMMA EditsKeepTypes ==
    ASSUME TriggerTypes, DeleteAutomation \/ \E g \in scenario.graphs : ReplaceAutomationTriggers(g)
    PROVE  /\ TriggerTypes' /\ UNCHANGED <<scenario, run, created, stepRun, ev>>
           /\ "delete" \in scenario.edits \/ "retrigger" \in scenario.edits
<1>1. CASE DeleteAutomation
  <2>1. UNCHANGED <<scenario, run, created, stepRun, ev>> /\ "delete" \in scenario.edits
    BY <1>1, Zenon DEF DeleteAutomation, Allowed
  <2>2. automation' = [status |-> "absent", fire |-> "none"]  BY <1>1 DEF DeleteAutomation
  <2>3. event' = [d \in Deliveries |-> IF event[d].status = "absent" THEN event[d]
                                      ELSE [NoEvent EXCEPT !.status = "forgotten"]]
    BY <1>1 DEF DeleteAutomation
  <2>4. DOMAIN automation' = {"status", "fire"}  BY <2>2
  <2>5. DOMAIN event' = Deliveries /\ \A d \in Deliveries : DOMAIN event'[d] = EventFields
    BY <2>3 DEF NoEvent, EventFields, TriggerTypes
  <2>. QED  BY <2>1, <2>4, <2>5, Zenon DEF TriggerTypes, Deciding, Keys
<1>2. ASSUME NEW g \in scenario.graphs, ReplaceAutomationTriggers(g)
      PROVE  /\ TriggerTypes' /\ UNCHANGED <<scenario, run, created, stepRun, ev>>
             /\ "retrigger" \in scenario.edits
  <2>1. UNCHANGED <<scenario, run, created, stepRun, ev, event>> /\ "retrigger" \in scenario.edits
    BY <1>2, Zenon DEF ReplaceAutomationTriggers, Allowed
  <2>2. DOMAIN automation' = {"status", "fire"}
    BY <1>2 DEF ReplaceAutomationTriggers, TriggerTypes
  <2>. QED  BY <2>1, <2>2, Zenon DEF TriggerTypes, Deciding, Keys
<1>. QED  BY <1>1, <1>2, Zenon

\* Every step of the triggers is a quiet one, a lease, a completion or an edit.
LEMMA TriggerSteps ==
    ASSUME TriggerTypes, TriggerNext
    PROVE  \/ Quietly
           \/ \E e \in Evaluators, d \in Deliveries : Leases(e, d)
           \/ \E e \in Evaluators : Completes(e)
           \/ DeleteAutomation \/ \E g \in scenario.graphs : ReplaceAutomationTriggers(g)
<1>1. ASSUME NEW e \in Evaluators, EvaluatorStep(e)
      PROVE  Quietly \/ (\E d \in Deliveries : Leases(e, d)) \/ Completes(e)
  BY <1>1, ProducingIsQuiet, DecidingIsQuiet, LeaseTriggerGroupLeases, CompleteTriggerGroupCompletes, Zenon
     DEF EvaluatorStep
<1>2. ASSUME \/ \E d : Ingest(d)
             \/ \E d \in Deliveries : LeaseExpires(d) \/ BackoffPasses(d)
             \/ CleanupOldTriggerEvents \/ ClaimExpires \/ TimePasses
      PROVE  Quietly
  BY <1>2, SurroundingsAreQuiet
<1>. QED  BY <1>1, <1>2, Zenon DEF TriggerNext

\* To the workflow runs a step of the triggers creates a run, or is none at all.
LEMMA TriggersAreElsewhere ==
    ASSUME TriggerTypes, TriggerNext
    PROVE  Elsewhere
<1>1. CASE Quietly  BY <1>1, Zenon DEF Quietly, tables, Elsewhere
<1>2. ASSUME NEW e \in Evaluators, NEW d \in Deliveries, Leases(e, d)  PROVE Elsewhere
  BY <1>2, Zenon DEF Leases, tables, Elsewhere
<1>3. ASSUME NEW e \in Evaluators, Completes(e)  PROVE Elsewhere
  <2>1. Deciding(e)  BY <1>3 DEF Completes, At, Deciding
  <2>2. ev[e].key \in Runs  BY <2>1, TriggerAssumption DEF TriggerTypes, Keys
  <2>. QED  BY <1>3, <2>2, Zenon DEF Completes, Elsewhere
<1>4. CASE DeleteAutomation \/ \E g \in scenario.graphs : ReplaceAutomationTriggers(g)
  BY <1>4, EditsKeepTypes, Zenon DEF Elsewhere
<1>. QED  BY <1>1, <1>2, <1>3, <1>4, TriggerSteps, Zenon

\* Workflow runs keep their invariant in the composed system.
LEMMA StepsKeepTypes ==
    ASSUME TriggerTypes, WorkflowInv, [Next]_vars
    PROVE  TriggerTypes' /\ [WorkflowNext \/ Elsewhere]_workflowVars
<1>1. CASE WorkflowNext /\ UNCHANGED triggerVars
  BY <1>1, WorkflowLeaves, WorkflowKeepsTypes, Zenon
<1>2. CASE TriggerNext
  <2>1. TriggerTypes'
    BY <1>2, TriggerSteps, QuietKeepsTypes, LeaseKeepsTypes, CompleteKeepsTypes, EditsKeepTypes, Zenon
  <2>. QED  BY <1>2, <2>1, TriggersAreElsewhere, Zenon
<1>3. CASE UNCHANGED vars
  <2>1. UNCHANGED workflowVars /\ UNCHANGED <<event, ev, scenario, automation>>
    BY <1>3 DEF vars, workflowVars, triggerVars
  <2>. QED  BY <2>1, Zenon DEF TriggerTypes, Deciding, Keys
<1>. QED  BY <1>1, <1>2, <1>3, Zenon DEF Next

\* The tables start out in shape.
LEMMA InitTypes ==
    ASSUME Init
    PROVE  TriggerTypes
<1>1. scenario \in Scenarios /\ DOMAIN automation = {"status", "fire"}  BY DEF Init, WorkflowInit
<1>2. event = [d \in Deliveries |-> NoEvent] /\ ev = [e \in Evaluators |-> Idle]  BY DEF Init
<1>3. DOMAIN NoEvent = EventFields /\ DOMAIN Idle = TickFields /\ Idle.pc = "cron"
  BY DEF NoEvent, EventFields, Idle, TickFields
<1>. QED  BY <1>1, <1>2, <1>3 DEF TriggerTypes, Deciding

\* The triggers and the workflow runs together are what WorkflowRuns takes the
\* system to be: to a run and its steps the evaluators, the webhooks, the edits of an
\* automation and retention do nothing but create runs (complete_trigger_group,
\* delete_automation).
THEOREM TriggersImplementWorkflow == Spec => WorkflowSpec
<1>1. Init => WorkflowInit /\ TriggerTypes /\ WorkflowInv
  <2>. SUFFICES ASSUME Init  PROVE WorkflowInit /\ TriggerTypes /\ WorkflowInv  OBVIOUS
  <2>. QED  BY InitTypes, WorkflowStartsOut DEF Init
<1>2. TriggerTypes /\ WorkflowInv /\ [Next]_vars
          => TriggerTypes' /\ WorkflowInv' /\ [WorkflowNext \/ Elsewhere]_workflowVars
  BY StepsKeepTypes, StepKeepsRuns
<1>. QED  BY <1>1, <1>2, PTL DEF Spec, WorkflowSpec

\* Both invariants, for the composed system.
THEOREM TriggersInvariant == Spec => [](TriggerTypes /\ WorkflowInv)
<1>1. Init => TriggerTypes /\ WorkflowInv
  <2>. SUFFICES ASSUME Init  PROVE TriggerTypes /\ WorkflowInv  OBVIOUS
  <2>. QED  BY InitTypes, WorkflowStartsOut DEF Init
<1>2. TriggerTypes /\ WorkflowInv /\ [Next]_vars => TriggerTypes' /\ WorkflowInv'
  BY StepsKeepTypes, StepKeepsRuns
<1>. QED  BY <1>1, <1>2, PTL DEF Spec

\* Nothing has been evaluated.
LEMMA InitGroups ==
    ASSUME Init
    PROVE  GroupsInv
<1>1. /\ automation.status = "enabled" /\ graph = scenario.graph /\ scenario \in Scenarios
      /\ run = [r \in Runs |-> NewRun] /\ event = [d \in Deliveries |-> NoEvent]
      /\ ev = [e \in Evaluators |-> Idle]
  BY DEF Init, WorkflowInit
<1>2. \A k \in Keys : run[k].status = "absent"
  <2>1. Keys \subseteq Runs  BY TriggerAssumption DEF Keys
  <2>. QED  BY <1>1, <2>1 DEF NewRun
<1>3. \A e \in Evaluators : ~Deciding(e)  BY <1>1 DEF Deciding, Idle
<1>4. \A k \in Keys : Evaluated(k) = {}  BY <1>1 DEF Evaluated, NoEvent, Group
<1>5. ~Satisfied(graph, {})
  <2>1. graph.condition \in Seq(Range(graph.condition)) /\ WellFormed(graph.condition)
    BY <1>1, TriggerAssumption, Zenon DEF BuildAutomation, ValidateReferences
  <2>. QED  BY <2>1, NothingSatisfiedByNothing
<1>. QED  BY <1>1, <1>2, <1>3, <1>4, <1>5, Zenon DEF GroupsInv

\* Every step keeps what is known of the groups while the automation is left alone.
LEMMA StepsKeepGroups ==
    ASSUME OwnersDiffer, TriggerTypes, WorkflowInv, LeftAlone => GroupsInv, [Next]_vars
    PROVE  (LeftAlone => GroupsInv)'
<1>1. scenario' = scenario
  <2>1. CASE TriggerNext
    BY <2>1, TriggerSteps, EditsKeepTypes, Zenon DEF Quietly, Leases, Completes
  <2>2. CASE WorkflowNext  BY <2>2, WorkflowLeaves
  <2>3. CASE UNCHANGED vars  BY <2>3 DEF vars, workflowVars
  <2>. QED  BY <2>1, <2>2, <2>3 DEF Next
<1>2. SUFFICES ASSUME LeftAlone, GroupsInv  PROVE GroupsInv'
  BY <1>1, Zenon DEF LeftAlone
<1>3. "delete" \notin scenario.edits /\ "retrigger" \notin scenario.edits  BY <1>2 DEF LeftAlone
<1>4. CASE TriggerNext
  BY <1>2, <1>3, <1>4, TriggerSteps, EditsKeepTypes, QuietKeepsGroups, LeaseKeepsGroups, CompleteKeepsGroups, Zenon
<1>5. CASE WorkflowNext /\ UNCHANGED triggerVars
  BY <1>2, <1>5, WorkflowLeaves, WorkflowKeepsGroups, Zenon
<1>6. CASE UNCHANGED vars
  <2>1. UNCHANGED triggerVars /\ AutomationMoves /\ RunsAppear
    BY <1>6, SameRunsAppear, Zenon DEF vars, workflowVars, AutomationMoves
  <2>. QED  BY <1>1, <1>2, <2>1, WorkflowKeepsGroups, Zenon
<1>. QED  BY <1>4, <1>5, <1>6 DEF Next

\* No trigger event is lost between evaluators that sign with names of their own: for
\* any number of them, any deliveries, crashes, slow holders and failing stores, when
\* the evaluated events of a group satisfy the condition the group has its run
\* (lease_trigger_group, complete_trigger_group).
THEOREM SatisfiedGroupsGetTheirRun ==
    ASSUME OwnersDiffer
    PROVE  Spec => []SatisfiedGroupsRun
<1>. DEFINE Inv == TriggerTypes /\ WorkflowInv /\ (LeftAlone => GroupsInv)
<1>1. Init => Inv
  <2>. SUFFICES ASSUME Init  PROVE Inv  OBVIOUS
  <2>. QED  BY InitTypes, InitGroups, WorkflowStartsOut DEF Init
<1>2. Inv /\ [Next]_vars => Inv'
  <2>. SUFFICES ASSUME TriggerTypes, WorkflowInv, LeftAlone => GroupsInv, [Next]_vars  PROVE Inv'
    BY Zenon
  <2>1. TriggerTypes' /\ WorkflowInv'  BY StepsKeepTypes, StepKeepsRuns
  <2>2. (LeftAlone => GroupsInv)'  BY StepsKeepGroups, Zenon
  <2>. QED  BY <2>1, <2>2, Zenon
<1>3. Inv => SatisfiedGroupsRun
  BY Zenon DEF LeftAlone, GroupsInv, SatisfiedGroupsRun, Evaluated
<1>. QED  BY <1>1, <1>2, <1>3, PTL DEF Spec

-----------------------------------------------------------------------------
(***************************************************************************)
(* The schedule.                                                           *)
(***************************************************************************)
\* No occurrence gains or loses its event, and nobody comes to fire one.
CronKept ==
    \A d \in Deliveries :
        d.trigger = "cron" => (event'[d].status = "absent" <=> event[d].status = "absent")
FireKept == \A e \in Evaluators : ev'[e].pc = "fire" => ev'[e] = ev[e]

LEMMA ScheduleStutters ==
    ASSUME ScheduleInv, CronKept, FireKept, cursor' = cursor, clock' \in Nat,
           "cron" \notin EnabledOf(graph'.triggers, "webhook"),
           automation'.status = "absent" <=> automation.status = "absent"
    PROVE  ScheduleInv'
<1>1. NoOccurrenceSkipped'
  BY DEF ScheduleInv, NoOccurrenceSkipped, CronKept
<1>2. \A c \in Deliveries :
           c.trigger = "cron" /\ event'[c].status # "absent" /\ automation'.status # "absent"
               => c.key < cursor'
  BY DEF ScheduleInv, CronKept
<1>3. \A e \in Evaluators : ev'[e].pc = "fire" => ev'[e].due \in Nat \ {0}
  BY Zenon DEF ScheduleInv, FireKept
<1>. QED  BY <1>1, <1>2, <1>3 DEF ScheduleInv

LEMMA SameCronKept ==
    ASSUME UNCHANGED event
    PROVE  CronKept
BY DEF CronKept

\* Other triggers' events are none of the schedule's.
LEMMA InsertedCronKept ==
    ASSUME TriggerTypes, NEW d, d.trigger # "cron", event' = Inserted(event, d)
    PROVE  CronKept
<1>1. ASSUME NEW c \in Deliveries, c.trigger = "cron"  PROVE event'[c] = event[c]
  BY <1>1, InsertedAges, Zenon
<1>. QED  BY <1>1, Zenon DEF CronKept

LEMMA OtherFireKept ==
    ASSUME NEW e, \A f \in Evaluators : f # e => ev'[f] = ev[f], ev'[e].pc # "fire"
    PROVE  FireKept
BY Zenon DEF FireKept

LEMMA GoesFireKept ==
    ASSUME TriggerTypes, NEW e \in Evaluators, NEW pc, Goes(e, pc), pc # "fire"
    PROVE  FireKept
<1>1. (\A f \in Evaluators : f # e => ev'[f] = ev[f]) /\ ev'[e].pc = pc  BY GoesTicks, Zenon
<1>2. ev'[e].pc # "fire"  BY <1>1
<1>. QED  BY <1>1, <1>2, OtherFireKept, Zenon

LEMMA TurnFireKept ==
    ASSUME TriggerTypes, NEW e \in Evaluators, NEW row, ev' = [ev EXCEPT ![e] = row], row.pc # "fire"
    PROVE  FireKept
<1>1. (\A f \in Evaluators : f # e => ev'[f] = ev[f]) /\ ev'[e] = row
  BY DEF TriggerTypes
<1>. QED  BY <1>1, OtherFireKept, Zenon

\* A tick that is not about the schedule.
LEMMA TickKeepsSchedule ==
    ASSUME TriggerTypes, ScheduleInv, NEW e \in Evaluators, EvaluatorStep(e),
           ~ReadCursor(e), ~FireDueSchedule(e)
    PROVE  ScheduleInv'
<1>1. cursor' = cursor /\ UNCHANGED <<clock, graph, automation>>
  BY Zenon DEF EvaluatorStep, ProduceSql, ClaimCustomTrigger, CompleteCustomTrigger, FailCustomTrigger,
       LeaseTriggerGroup, EvaluateGroup, StoreFails, CompleteTriggerGroup, CompletionFails,
       RetryTriggerGroup, EvaluatorCrashes, SameDefinitions, workflowVars, tables
<1>2. SUFFICES CronKept /\ FireKept
  BY <1>1, ScheduleStutters, Zenon DEF ScheduleInv
<1>3. \A pc \in {"cron", "sql", "custom", "lease"} : Goes(e, pc) => FireKept
  <2>. TAKE pc \in {"cron", "sql", "custom", "lease"}
  <2>1. pc # "fire"  OBVIOUS
  <2>. QED  BY <2>1, GoesFireKept, Zenon
<1>4. Goes(e, "cron") \/ Goes(e, "lease") => FireKept  BY <1>3
<1>5. \A d : d.trigger \in {"sql", "custom"} /\ event' = Inserted(event, d) => CronKept
  <2>. TAKE d
  <2>1. d.trigger \in {"sql", "custom"} => d.trigger # "cron"  OBVIOUS
  <2>. QED  BY <2>1, InsertedCronKept, Zenon
<1>6. ev' = [ev EXCEPT ![e].pc = "retry"] => FireKept
  <2>1. [ev[e] EXCEPT !.pc = "retry"].pc = "retry"  BY DEF TriggerTypes, TickFields
  <2>2. [ev[e] EXCEPT !.pc = "retry"].pc # "fire"  BY <2>1
  <2>. QED  BY <2>2, TurnFireKept, Zenon
<1>7. CASE ProduceSql(e)
  <2>1. Stage(3) \in {"cron", "sql", "custom", "lease"}  BY StageIsListed
  <2>. QED  BY <1>3, <1>5, <1>7, <2>1, SameCronKept, Zenon DEF ProduceSql
<1>8. CASE ClaimCustomTrigger(e)
  <2>1. \A due : [Idle EXCEPT !.pc = "plugin", !.due = due].pc # "fire"  BY DEF Idle
  <2>. QED  BY <1>4, <1>8, <2>1, SameCronKept, TurnFireKept, Zenon DEF ClaimCustomTrigger
<1>9. CASE CompleteCustomTrigger(e)
  BY <1>4, <1>5, <1>9, SameCronKept, Zenon DEF CompleteCustomTrigger
<1>10. CASE FailCustomTrigger(e) \/ EvaluatorCrashes(e)
  BY <1>4, <1>10, SameCronKept, Zenon DEF FailCustomTrigger, EvaluatorCrashes
<1>11. CASE LeaseTriggerGroup(e)
  <2>1. CASE Goes(e, "cron") /\ UNCHANGED event  BY <1>4, <2>1, SameCronKept
  <2>2. ASSUME NEW d \in Deliveries, Leases(e, d)  PROVE CronKept /\ FireKept
    <3>1. CronKept  BY <2>2 DEF Leases, Leasable, CronKept
    <3>2. FireKept
      <4>1. ev'[e].pc # "fire"  BY <2>2 DEF Leases
      <4>. QED  BY <2>2, <4>1, OtherFireKept, Zenon DEF Leases
    <3>. QED  BY <3>1, <3>2
  <2>3. (Goes(e, "cron") /\ UNCHANGED event) \/ \E d \in Deliveries : Leases(e, d)
    BY <1>11, LeasesOrRests
  <2>. QED  BY <2>1, <2>2, <2>3
<1>12. CASE EvaluateGroup(e)
  <2>1. CASE automation.status = "absent"
    BY <1>6, <1>12, <2>1, SameCronKept, Zenon DEF EvaluateGroup
  <2>2. CASE automation.status # "absent"
    <3>. DEFINE verdict == automation.status = "enabled" /\ Satisfied(graph, ev[e].seen)
                next == [ev[e] EXCEPT !.pc = "complete", !.satisfied = verdict]
    <3>1. ev' = [ev EXCEPT ![e] = next] /\ UNCHANGED event
      BY <1>12, <2>2, Zenon DEF EvaluateGroup
    <3>. HIDE DEF verdict
    <3>2. next.pc = "complete"  BY DEF TriggerTypes, TickFields
    <3>3. next.pc # "fire"  BY <3>2
    <3>. HIDE DEF next
    <3>. QED  BY <3>1, <3>3, SameCronKept, TurnFireKept, Zenon
  <2>. QED  BY <2>1, <2>2
<1>13. CASE StoreFails(e) \/ CompletionFails(e)
  BY <1>6, <1>13, SameCronKept, Zenon DEF StoreFails, CompletionFails
<1>14. CASE CompleteTriggerGroup(e)
  <2>1. Completes(e)  BY <1>14, CompleteTriggerGroupCompletes
  <2>2. \A d \in Own(e) : d \in Deliveries /\ event[d].status = "leased"  BY DEF Own, Group
  <2>3. CronKept  BY <2>1, <2>2 DEF Completes, CronKept
  <2>. QED  BY <1>4, <1>14, <2>3, Zenon DEF CompleteTriggerGroup
<1>15. CASE RetryTriggerGroup(e)
  <2>1. Quietly  BY <1>15, DecidingIsQuiet
  <2>2. \A d \in Deliveries \ Own(e) : event'[d] = event[d]  BY <1>15 DEF RetryTriggerGroup
  <2>3. \A d \in Own(e) : d \in Deliveries /\ event[d].status = "leased"  BY DEF Own, Group
  <2>4. \A d \in Deliveries : event[d].status # "absent" => event'[d].status # "absent"
    BY <2>1 DEF Quietly, EventsAge, AgesTo
  <2>5. CronKept  BY <2>2, <2>3, <2>4 DEF CronKept
  <2>. QED  BY <1>4, <1>15, <2>5, Zenon DEF RetryTriggerGroup
<1>. QED  BY <1>7, <1>8, <1>9, <1>10, <1>11, <1>12, <1>13, <1>14, <1>15, Zenon DEF EvaluatorStep

\* The cursor starts at the next occurrence, when nothing has been fired yet.
LEMMA ReadCursorKeepsSchedule ==
    ASSUME TriggerTypes, ScheduleInv, NEW e \in Evaluators, ReadCursor(e)
    PROVE  ScheduleInv'
<1>. DEFINE next == IF cursor = 0 THEN clock + 1 ELSE cursor
<1>1. UNCHANGED <<clock, graph, automation, event>>
  BY Zenon DEF ReadCursor, SameDefinitions, workflowVars
<1>2. CronKept  BY <1>1, SameCronKept
<1>3. \A pc \in {"cron", "sql", "custom", "lease"} : Goes(e, pc) => FireKept
  <2>. TAKE pc \in {"cron", "sql", "custom", "lease"}
  <2>1. pc # "fire"  OBVIOUS
  <2>. QED  BY <2>1, GoesFireKept, Zenon
<1>4. /\ Stage(1) \in {"cron", "sql", "custom", "lease"} /\ Stage(2) \in {"cron", "sql", "custom", "lease"}
      /\ Stage(1) = "cron" => automation.status = "enabled"
  BY StageIsListed
<1>5. CASE Stage(1) # "cron"
  <2>1. FireKept /\ cursor' = cursor  BY <1>3, <1>4, <1>5, Zenon DEF ReadCursor
  <2>. QED  BY <1>1, <1>2, <2>1, ScheduleStutters, Zenon DEF ScheduleInv
<1>6. CASE Stage(1) = "cron"
  <2>1. cursor \in Nat /\ clock \in Nat /\ next \in Nat \ {0}  BY DEF ScheduleInv
  <2>2. cursor' = next  BY <1>6, Zenon DEF ReadCursor
  <2>3. ev' = [ev EXCEPT ![e] = [Idle EXCEPT !.pc = "fire", !.due = next]] \/ Goes(e, Stage(2))
    BY <1>6, Zenon DEF ReadCursor
  <2>4. automation.status # "absent"  BY <1>4, <1>6
  <2>. HIDE DEF next
  <2>5. \A f \in Evaluators : ev'[f].pc = "fire" => ev'[f].due \in Nat \ {0}
    <3>1. CASE Goes(e, Stage(2))
      BY <1>3, <1>4, <3>1, Zenon DEF FireKept, ScheduleInv
    <3>2. CASE ev' = [ev EXCEPT ![e] = [Idle EXCEPT !.pc = "fire", !.due = next]]
      <4>1. (\A f \in Evaluators : f # e => ev'[f] = ev[f]) /\ ev'[e] = [Idle EXCEPT !.pc = "fire", !.due = next]
        BY <3>2 DEF TriggerTypes
      <4>2. ev'[e].due = next  BY <4>1 DEF Idle
      <4>. QED  BY <2>1, <4>1, <4>2, Zenon DEF ScheduleInv
    <3>. QED  BY <2>3, <3>1, <3>2
  <2>6. cursor = 0 => \A c \in Deliveries : c.trigger = "cron" => event[c].status = "absent"
    BY <2>4, TriggerAssumption DEF ScheduleInv
  <2>7. cursor # 0 => cursor' = cursor  BY <2>2 DEF next
  <2>8. \A c \in Deliveries : c.trigger = "cron" /\ event'[c].status # "absent" => c.key < cursor'
    BY <1>1, <2>4, <2>6, <2>7, Zenon DEF ScheduleInv
  <2>9. NoOccurrenceSkipped'
    BY <1>1, <2>6, <2>7, Zenon DEF ScheduleInv, NoOccurrenceSkipped
  <2>10. cursor' \in Nat /\ clock' \in Nat /\ automation'.status # "absent"
         /\ "cron" \notin EnabledOf(graph'.triggers, "webhook")
    BY <1>1, <2>1, <2>2, <2>4, Zenon DEF ScheduleInv
  <2>. QED  BY <2>5, <2>8, <2>9, <2>10, Zenon DEF ScheduleInv
<1>. QED  BY <1>5, <1>6

\* The cursor moves past the occurrence that is due and no further, and that one has
\* its event from then on; an evaluator that is late finds the cursor moved.
LEMMA FireKeepsSchedule ==
    ASSUME TriggerTypes, ScheduleInv, NEW e \in Evaluators, FireDueSchedule(e)
    PROVE  ScheduleInv'
<1>. DEFINE due == ev[e].due
<1>1. UNCHANGED <<clock, graph, automation>> /\ ev[e].pc = "fire"
  BY Zenon DEF FireDueSchedule, SameDefinitions, workflowVars, At
<1>2. FireKept
  <2>1. Stage(2) \in {"cron", "sql", "custom", "lease"}  BY StageIsListed
  <2>2. Stage(2) # "fire"  BY <2>1
  <2>. QED  BY <2>2, GoesFireKept, Zenon DEF FireDueSchedule
<1>3. CASE cursor # due
  <2>1. UNCHANGED <<cursor, event>>  BY <1>3, Zenon DEF FireDueSchedule
  <2>. QED  BY <1>1, <1>2, <2>1, SameCronKept, ScheduleStutters, Zenon DEF ScheduleInv
<1>4. CASE cursor = due
  <2>1. due \in Nat \ {0}  BY <1>1, Zenon DEF ScheduleInv
  <2>2. cursor' = due + 1 /\ automation.status # "absent"
    BY <1>4, <2>1 DEF FireDueSchedule, ScheduleInv
  <2>3. event' = [d \in Deliveries |->
                   IF d.trigger = "cron" /\ d.key = due THEN Inserted(event, d)[d] ELSE event[d]]
    BY <1>4, Zenon DEF FireDueSchedule
  <2>4. ASSUME NEW d \in Deliveries, d.trigger = "cron", d.key = due  PROVE event'[d].status # "absent"
    <3>1. event'[d] = Inserted(event, d)[d]  BY <2>3, <2>4, Zenon
    <3>2. Pending.status = "pending"  BY DEF Pending, NoEvent
    <3>3. CASE event[d].status = "absent"
      <4>1. event'[d] = Pending  BY <3>1, <3>3 DEF Inserted, TriggerTypes
      <4>. QED  BY <3>2, <4>1
    <3>4. CASE event[d].status # "absent"
      BY <3>1, <3>4, Zenon DEF Inserted
    <3>. QED  BY <3>3, <3>4
  <2>5. \A d \in Deliveries : d.key # due => event'[d] = event[d]  BY <2>3, Zenon
  <2>. HIDE DEF due
  <2>6. \A c \in Deliveries : c.trigger = "cron" /\ event'[c].status # "absent" => c.key <= due
    <3>. SUFFICES ASSUME NEW c \in Deliveries, c.trigger = "cron", event'[c].status # "absent", c.key # due
                  PROVE  c.key < due
      BY <2>1, TriggerAssumption
    <3>. QED  BY <1>4, <2>2, <2>5, Zenon DEF ScheduleInv
  <2>7. \A c \in Deliveries : c.trigger = "cron" /\ event'[c].status # "absent" => c.key < cursor'
    BY <2>1, <2>2, <2>6, TriggerAssumption
  <2>8. NoOccurrenceSkipped'
    <3>. SUFFICES ASSUME NEW c \in Deliveries, NEW d \in Deliveries, c.trigger = "cron", d.trigger = "cron",
                         event'[c].status # "absent", c.key < d.key, d.key < cursor'
                  PROVE  event'[d].status # "absent"
      BY Zenon DEF NoOccurrenceSkipped
    <3>1. c.key \in Nat /\ d.key \in Nat  BY TriggerAssumption
    <3>2. CASE d.key = due  BY <2>4, <3>2
    <3>3. CASE d.key # due
      <4>1. d.key < due /\ c.key # due  BY <2>1, <2>2, <3>1, <3>3
      <4>2. event'[c] = event[c] /\ event'[d] = event[d]  BY <2>5, <3>3, <4>1
      <4>3. event[d].status # "absent"
        BY <1>4, <4>1, <4>2, Zenon DEF ScheduleInv, NoOccurrenceSkipped
      <4>. QED  BY <4>2, <4>3
    <3>. QED  BY <3>2, <3>3
  <2>9. \A f \in Evaluators : ev'[f].pc = "fire" => ev'[f].due \in Nat \ {0}
    BY <1>2, Zenon DEF ScheduleInv, FireKept
  <2>10. cursor' \in Nat /\ clock' \in Nat /\ automation'.status # "absent"
         /\ "cron" \notin EnabledOf(graph'.triggers, "webhook")
    <3>1. due + 1 \in Nat  BY <2>1
    <3>. QED  BY <1>1, <2>2, <3>1, Zenon DEF ScheduleInv
  <2>. QED  BY <2>7, <2>8, <2>9, <2>10, Zenon DEF ScheduleInv
<1>. QED  BY <1>3, <1>4

\* Everything else: webhooks are not the schedule's, and deleting the automation
\* takes the cursor with it.
LEMMA SurroundingsKeepSchedule ==
    ASSUME TriggerTypes, ScheduleInv,
           \/ \E d : Ingest(d)
           \/ \E g \in scenario.graphs : ReplaceAutomationTriggers(g)
           \/ DeleteAutomation
           \/ CleanupOldTriggerEvents
           \/ \E d \in Deliveries : LeaseExpires(d) \/ BackoffPasses(d)
           \/ ClaimExpires \/ TimePasses
    PROVE  ScheduleInv'
<1>1. UNCHANGED ev => FireKept  BY DEF FireKept
<1>2. UNCHANGED event => CronKept  BY SameCronKept
<1>3. clock \in Nat /\ "cron" \notin EnabledOf(graph.triggers, "webhook")  BY DEF ScheduleInv
<1>4. ASSUME NEW d, Ingest(d)  PROVE ScheduleInv'
  <2>1. /\ UNCHANGED <<clock, graph, automation, ev, cursor>> /\ event' = Inserted(event, d)
        /\ d.trigger \in EnabledOf(graph.triggers, "webhook")
    BY <1>4, Zenon DEF Ingest, SameDefinitions, workflowVars, IngestAccepts
  <2>2. CronKept  BY <1>3, <2>1, InsertedCronKept, Zenon
  <2>. QED  BY <1>1, <1>3, <2>1, <2>2, ScheduleStutters, Zenon
<1>5. ASSUME NEW g \in scenario.graphs, ReplaceAutomationTriggers(g)  PROVE ScheduleInv'
  <2>1. UNCHANGED <<clock, ev, cursor, event>> /\ graph' = g
    BY <1>5, Zenon DEF ReplaceAutomationTriggers
  <2>2. "cron" \notin EnabledOf(graph'.triggers, "webhook")
    <3>1. scenario \in Scenarios  BY DEF TriggerTypes
    <3>. QED  BY <1>5, <2>1, <3>1, TriggerAssumption, Zenon
  <2>3. automation'.status = automation.status
    BY <1>5 DEF ReplaceAutomationTriggers, TriggerTypes
  <2>. QED  BY <1>1, <1>2, <1>3, <2>1, <2>2, <2>3, ScheduleStutters, Zenon
<1>6. CASE DeleteAutomation
  <2>1. UNCHANGED <<clock, ev>> /\ cursor' = 0 /\ graph' = [triggers |-> <<>>, condition |-> graph.condition]
        /\ automation' = [status |-> "absent", fire |-> "none"]
    BY <1>6, Zenon DEF DeleteAutomation
  <2>2. "cron" \notin EnabledOf(graph'.triggers, "webhook")
    <3>1. graph'.triggers = <<>>  BY <2>1
    <3>. QED  BY <3>1 DEF EnabledOf
  <2>3. NoOccurrenceSkipped'
    <3>1. \A d \in Deliveries : ~(d.key < 0)
      <4>1. \A d \in Deliveries : d.key \in Nat  BY TriggerAssumption, Zenon
      <4>2. \A n \in Nat : ~(n < 0)  OBVIOUS
      <4>. QED  BY <4>1, <4>2, Zenon
    <3>. QED  BY <2>1, <3>1, Zenon DEF NoOccurrenceSkipped
  <2>4. automation'.status = "absent"  BY <2>1
  <2>5. \A e \in Evaluators : ev'[e].pc = "fire" => ev'[e].due \in Nat \ {0}
    BY <2>1, Zenon DEF ScheduleInv
  <2>. QED  BY <1>3, <2>1, <2>2, <2>3, <2>4, <2>5 DEF ScheduleInv
<1>7. CASE CleanupOldTriggerEvents
  <2>1. UNCHANGED <<clock, graph, automation, ev, cursor>>
    BY <1>7, Zenon DEF CleanupOldTriggerEvents, tables
  <2>2. Quietly  BY <1>7, SurroundingsAreQuiet
  <2>3. \A d \in Deliveries : event[d].status = "absent" => event'[d] = event[d]
    BY <1>7 DEF CleanupOldTriggerEvents
  <2>4. CronKept  BY <2>2, <2>3, Zenon DEF CronKept, Quietly, EventsAge, AgesTo
  <2>. QED  BY <1>1, <1>3, <2>1, <2>4, ScheduleStutters, Zenon
<1>8. ASSUME NEW d \in Deliveries, LeaseExpires(d) \/ BackoffPasses(d)  PROVE ScheduleInv'
  <2>1. UNCHANGED <<clock, graph, automation, ev, cursor>>
    BY <1>8, Zenon DEF LeaseExpires, BackoffPasses, SameDefinitions, workflowVars, tables
  <2>2. event' = [event EXCEPT ![d].expired = TRUE] \/ event' = [event EXCEPT ![d].ready = TRUE]
    BY <1>8 DEF LeaseExpires, BackoffPasses
  <2>3. CronKept  BY <2>2 DEF CronKept, TriggerTypes, EventFields
  <2>. QED  BY <1>1, <1>3, <2>1, <2>3, ScheduleStutters, Zenon
<1>9. CASE ClaimExpires
  <2>1. UNCHANGED <<clock, graph, automation, ev, cursor, event>>
    BY <1>9, Zenon DEF ClaimExpires, tables
  <2>. QED  BY <1>1, <1>2, <1>3, <2>1, ScheduleStutters, Zenon
<1>10. CASE TimePasses
  <2>1. UNCHANGED <<graph, automation, ev, cursor, event>> /\ clock' = clock + 1
    BY <1>10, Zenon DEF TimePasses, workflowVars
  <2>2. clock' \in Nat  BY <1>3, <2>1
  <2>. QED  BY <1>1, <1>2, <1>3, <2>1, <2>2, ScheduleStutters, Zenon
<1>. QED  BY <1>4, <1>5, <1>6, <1>7, <1>8, <1>9, <1>10, Zenon

LEMMA StepsKeepSchedule ==
    ASSUME TriggerTypes, WorkflowInv, ScheduleInv, [Next]_vars
    PROVE  ScheduleInv'
<1>1. CASE TriggerNext
  <2>1. ASSUME NEW e \in Evaluators, EvaluatorStep(e)  PROVE ScheduleInv'
    BY <2>1, TickKeepsSchedule, ReadCursorKeepsSchedule, FireKeepsSchedule, Zenon
  <2>. QED  BY <1>1, <2>1, SurroundingsKeepSchedule, Zenon DEF TriggerNext
<1>2. ASSUME AutomationMoves, UNCHANGED triggerVars  PROVE ScheduleInv'
  <2>1. UNCHANGED <<clock, graph, ev, cursor, event>>  BY <1>2 DEF triggerVars
  <2>2. automation'.status = "absent" <=> automation.status = "absent"
    BY <1>2 DEF AutomationMoves, TriggerTypes
  <2>3. FireKept /\ CronKept  BY <2>1, SameCronKept DEF FireKept
  <2>. QED  BY <2>1, <2>2, <2>3, ScheduleStutters, Zenon DEF ScheduleInv
<1>3. CASE WorkflowNext /\ UNCHANGED triggerVars  BY <1>2, <1>3, WorkflowLeaves
<1>4. CASE UNCHANGED vars
  BY <1>2, <1>4, Zenon DEF vars, workflowVars, AutomationMoves
<1>. QED  BY <1>1, <1>3, <1>4 DEF Next

\* A schedule never skips an occurrence, for any number of evaluators that read the
\* cursor and fire at different times, however late, and whatever else records and
\* forgets events (produce_one, fire_due_schedule).
THEOREM NoOccurrenceIsSkipped == Spec => []NoOccurrenceSkipped
<1>1. Init => ScheduleInv
  <2>. SUFFICES ASSUME Init  PROVE ScheduleInv  OBVIOUS
  <2>1. /\ clock = 1 /\ cursor = 0 /\ graph = scenario.graph /\ scenario \in Scenarios
        /\ automation.status # "absent"
        /\ event = [d \in Deliveries |-> NoEvent] /\ ev = [e \in Evaluators |-> Idle]
    BY DEF Init, WorkflowInit
  <2>2. NoEvent.status = "absent" /\ Idle.pc # "fire"  BY DEF NoEvent, Idle
  <2>3. "cron" \notin EnabledOf(graph.triggers, "webhook")  BY <2>1, TriggerAssumption
  <2>4. \A d \in Deliveries : event[d].status = "absent"  BY <2>1, <2>2
  <2>5. \A e \in Evaluators : ev[e].pc # "fire"  BY <2>1, <2>2
  <2>. QED  BY <2>1, <2>3, <2>4, <2>5 DEF ScheduleInv, NoOccurrenceSkipped
<1>2. TriggerTypes /\ WorkflowInv /\ ScheduleInv /\ [Next]_vars => ScheduleInv'
  BY StepsKeepSchedule
<1>3. ScheduleInv => NoOccurrenceSkipped  BY DEF ScheduleInv
<1>. QED  BY <1>1, <1>2, <1>3, TriggersInvariant, PTL DEF Spec
=============================================================================
