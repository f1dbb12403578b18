------------------------------ MODULE JobRuns -------------------------------
(***************************************************************************)
(* The job runtime: the job_runs table as a queue, the worker's            *)
(* lease-and-run tick, its drain loop, the Kubernetes Jobs an attempt runs *)
(* in and the reconciler that deletes orphaned ones.                       *)
(*                                                                         *)
(* A tick is a chain of separate statements, each of them an action here;  *)
(* between any two of them leases expire, other workers lease, users       *)
(* cancel.  Time is the environment: a lease expires, a retry falls due, a *)
(* Job ends, ages or is collected at any moment.                           *)
(***************************************************************************)
EXTENDS Runner

CONSTANTS
    Runs,           \* job runs, numbered in creation order
    Job,            \* run -> id, definition and output
    PoolConfig,     \* pool -> execution pool configuration
    Slots,          \* concurrent run tasks of all workers
    WorkerOf,       \* slot -> worker id
    Modes,          \* deployments: the runner, and the runs submitted to it
    NoWorker,
    MaxConsecutiveFailures,
    MaxAttempts,    \* bound on attempts: a run that has had so many stays queued
    MaxFaults       \* bound on faults of all kinds together

\* Runs are numbered, attempts counted, and lease_owner is NULL in no lease.
ASSUME JobRunsAssumption ==
    /\ Runs \subseteq Nat
    /\ MaxAttempts \in Nat
    /\ \A s \in Slots : WorkerOf[s] # NoWorker

VARIABLES
    mode,       \* the deployment
    job,        \* the job_runs rows
    tick,       \* where each slot's tick is
    drain,      \* each worker's drain loop
    kube,       \* Kubernetes Jobs by name
    sweep,      \* the reconciler's list of active runs, once read
    stored,     \* artifacts persisted for a run, by output line
    faults      \* expiries under a worker, failed calls, crashes, evictions so far

vars == <<mode, job, tick, drain, kube, sweep, stored, faults>>

Workers  == {WorkerOf[s] : s \in Slots}
Attempts == 1..MaxAttempts
Names    == {KubernetesJobName(Job[r].id, a) : r \in Runs, a \in Attempts}

Terminal == {"succeeded", "failed", "cancelled", "timed_out"}
Statuses == Terminal \cup {"absent", "queued", "leased", "running", "retry_scheduled"}
Leased   == {"leased", "running"}

Reattaches == mode.runner = "kubernetes"

Ready   == [pc |-> "idle", run |-> 0, attempt |-> 0, fresh |-> FALSE, snap |-> <<>>,
            outcome |-> "none"]
NoJob   == [st |-> "absent", labels |-> [run |-> 0, attempt |-> 0], old |-> FALSE]
NoSweep == [on |-> FALSE, active |-> {}, during |-> {}]

Init ==
    /\ mode \in Modes
    /\ job = [r \in Runs |-> [status |-> "absent", owner |-> NoWorker,
                              lease |-> "none", attempt |-> 0, retry |-> "none"]]
    /\ tick = [s \in Slots |-> Ready]
    /\ drain = [w \in Workers |-> [accepting |-> TRUE, failures |-> 0, stopping |-> FALSE]]
    /\ kube = [n \in Names |-> NoJob]
    /\ sweep = NoSweep
    /\ stored = [r \in Runs |-> [i \in DOMAIN Job[r].output |-> "none"]]
    /\ faults = 0

-----------------------------------------------------------------------------
(***************************************************************************)
(* The drain loop.  Every permit is a slot; a finished task is folded into *)
(* the loop by absorb_run_result, which stops claiming when the queue is   *)
(* empty or too many ticks failed in a row.                                *)
(***************************************************************************)
Absorb(w, result) ==
    LET failures == IF result = "error" THEN drain[w].failures + 1 ELSE 0
    IN [drain[w] EXCEPT
            !.failures = failures,
            !.accepting = @ /\ result # "no_run" /\ failures < MaxConsecutiveFailures]

EndTick(s, result) ==
    /\ tick' = [tick EXCEPT ![s] = Ready]
    /\ drain' = [drain EXCEPT ![WorkerOf[s]] = Absorb(WorkerOf[s], result)]

At(s, pc) == tick[s].pc = pc
Go(s, pc) == tick' = [tick EXCEPT ![s].pc = pc]

Idle(w) == \A s \in Slots : WorkerOf[s] = w => At(s, "idle")

\* The pass returns once nothing is in flight; the loop polls again unless the
\* worker is shutting down.
DrainReturns(w) ==
    /\ Idle(w)
    /\ ~drain[w].accepting
    /\ ~drain[w].stopping
    /\ drain' = [drain EXCEPT ![w] = [@ EXCEPT !.accepting = TRUE, !.failures = 0]]
    /\ UNCHANGED <<mode, job, tick, kube, sweep, stored, faults>>

\* SIGTERM: claim no more, let the runs in flight end.
Shutdown(w) ==
    /\ ~drain[w].stopping
    /\ faults < MaxFaults
    /\ faults' = faults + 1
    /\ drain' = [drain EXCEPT ![w].stopping = TRUE, ![w].accepting = FALSE]
    /\ UNCHANGED <<mode, job, tick, kube, sweep, stored>>

\* The process dies (or, after a shutdown, is replaced): its ticks are gone, its
\* rows and its Kubernetes Jobs are not.
Restart(w) ==
    /\ \/ /\ faults < MaxFaults
          /\ ~Idle(w)
          /\ faults' = faults + 1
       \/ /\ drain[w].stopping
          /\ Idle(w)
          /\ UNCHANGED faults
    /\ tick' = [s \in Slots |-> IF WorkerOf[s] = w THEN Ready ELSE tick[s]]
    /\ drain' = [drain EXCEPT ![w] = [accepting |-> TRUE, failures |-> 0, stopping |-> FALSE]]
    /\ UNCHANGED <<mode, job, kube, sweep, stored>>

-----------------------------------------------------------------------------
(***************************************************************************)
(* The tick, up to a leased run.                                           *)
(***************************************************************************)
Recoverable(row) ==
    /\ row.status = "leased" \/ (~Reattaches /\ row.status = "running")
    /\ row.lease = "expired"

\* A permit is free and the pass still claims: a tick begins.
RecoverExpiredLeases(s) ==
    /\ At(s, "idle")
    /\ drain[WorkerOf[s]].accepting
    /\ job' = [r \in Runs |->
                   IF Recoverable(job[r])
                   THEN [job[r] EXCEPT !.status = "queued", !.owner = NoWorker, !.lease = "none"]
                   ELSE job[r]]
    /\ Go(s, "promote")
    /\ UNCHANGED <<mode, drain, kube, sweep, stored, faults>>

PromoteReadyRetries(s) ==
    /\ At(s, "promote")
    /\ job' = [r \in Runs |->
                   IF job[r].status = "retry_scheduled" /\ job[r].retry = "ready"
                   THEN [job[r] EXCEPT !.status = "queued", !.retry = "none"]
                   ELSE job[r]]
    /\ Go(s, "lease")
    /\ UNCHANGED <<mode, drain, kube, sweep, stored, faults>>

Limit(r) == PoolConfig[Job[r].pool].maxConcurrent

\* (mutant) No adoption: only queued runs are candidates.
LeasableQueuedOnly(r) ==
    /\ job[r].status = "queued"
    /\ Limit(r) > 0

\* The candidates CTE's condition.
Leasable(r) ==
    /\ \/ job[r].status = "queued"
       \/ Reattaches /\ job[r].status = "running" /\ job[r].lease = "expired"
    /\ Limit(r) > 0

\* The rows the count(*) subquery finds.
Counted(r) == job[r].status \in Leased /\ job[r].lease = "live"

(***************************************************************************)
(* One statement in two steps.  It reads as of its start, but takes the    *)
(* pool's advisory lock and re-checks the row it locks when it gets there: *)
(* the count it compares with the limit is the older one.                  *)
(***************************************************************************)
LeaseSnapshot(s) ==
    /\ At(s, "lease")
    /\ tick' = [tick EXCEPT ![s].pc = "leasing",
                            ![s].snap = [candidates |-> {r \in Runs : Leasable(r)},
                                         active     |-> {r \in Runs : Counted(r)}]]
    /\ UNCHANGED <<mode, job, drain, kube, sweep, stored, faults>>

HasCapacity(r, snap) ==
    Cardinality({a \in snap.active : Job[a].pool = Job[r].pool}) < Limit(r)

Claimable(s) ==
    {r \in tick[s].snap.candidates :
        /\ Leasable(r)
        /\ HasCapacity(r, tick[s].snap)
        /\ job[r].status = "queued" => job[r].attempt < MaxAttempts}

\* The candidate rows and the pool are locked while the statement runs: statements
\* of other workers that get there meanwhile skip them and find nothing.
LeaseNextQueuedRun(s) ==
    /\ At(s, "leasing")
    /\ \E r \in Claimable(s), skipped \in SUBSET {q \in Slots \ {s} : At(q, "leasing")} :
           LET taken == [tick[s] EXCEPT !.pc = "save", !.run = r, !.snap = <<>>,
                                        !.attempt = job[r].attempt,
                                        !.fresh = job[r].status # "running"]
           IN /\ \A older \in Claimable(s) : r <= older
              /\ job' = [job EXCEPT ![r].status = IF @ = "running" THEN "running" ELSE "leased",
                                    ![r].owner = WorkerOf[s],
                                    ![r].lease = "live"]
              /\ tick' = [q \in Slots |-> IF q = s THEN taken
                                          ELSE IF q \in skipped THEN Ready ELSE tick[q]]
              /\ drain' = [w \in Workers |-> IF \E q \in skipped : WorkerOf[q] = w
                                             THEN Absorb(w, "no_run") ELSE drain[w]]
    /\ UNCHANGED <<mode, kube, sweep, stored, faults>>

LeaseNothing(s) ==
    /\ At(s, "leasing")
    /\ Claimable(s) = {}
    /\ EndTick(s, "no_run")
    /\ UNCHANGED <<mode, job, kube, sweep, stored, faults>>

-----------------------------------------------------------------------------
(***************************************************************************)
(* The tick, from the lease to the execution.  A run leased as `leased` is *)
(* started: its attempt number grows in memory and save_run writes the row.*)
(* A run adopted while `running` keeps its attempt and skips the write.    *)
(***************************************************************************)
\* (mutant) The upsert without its guard on ended runs.
SavedOverTerminal(row, attempt) ==
    [row EXCEPT !.status = "running", !.attempt = attempt]

\* The upsert's conflict branch.  It names the run by id alone: whose lease the
\* row carries, if any, is neither checked nor written.
Saved(row, attempt) ==
    IF row.status \in Terminal
    THEN row
    ELSE [row EXCEPT !.status = "running", !.attempt = attempt]

\* The definition and its pool are read first; without them the run stays leased.
SaveRun(s) ==
    /\ At(s, "save")
    /\ LET r       == tick[s].run
           attempt == IF tick[s].fresh THEN tick[s].attempt + 1 ELSE tick[s].attempt
       IN IF ~Job[r].found
          THEN EndTick(s, "error") /\ UNCHANGED job
          ELSE /\ job' = IF tick[s].fresh THEN [job EXCEPT ![r] = Saved(@, attempt)] ELSE job
               /\ tick' = [tick EXCEPT ![s].pc = "beat", ![s].attempt = attempt]
               /\ UNCHANGED drain
    /\ UNCHANGED <<mode, kube, sweep, stored, faults>>

\* heartbeat_run matches the owner's name and the status, not the expiry: it
\* revives a lease that has expired and that nobody has taken yet.
Owned(s) ==
    /\ job[tick[s].run].owner = WorkerOf[s]
    /\ job[tick[s].run].status \in Leased

Beat(s, pc) ==
    IF Owned(s)
    THEN /\ job' = [job EXCEPT ![tick[s].run].lease = "live"]
         /\ Go(s, pc)
         /\ UNCHANGED drain
    ELSE EndTick(s, "error") /\ UNCHANGED job

HeartbeatRun(s) ==
    /\ At(s, "beat")
    /\ Beat(s, "execute")
    /\ UNCHANGED <<mode, kube, sweep, stored, faults>>

-----------------------------------------------------------------------------
(***************************************************************************)
(* Execution.  Kubernetes creates the attempt's Job, or finds it under the *)
(* same name and checks whose it is; the local runners start a child that  *)
(* dies with the tick.                                                     *)
(***************************************************************************)
NameOf(s)    == KubernetesJobName(Job[tick[s].run].id, tick[s].attempt)
LabelsOf(s)  == JobLabels(Job[tick[s].run].id, tick[s].attempt)
Cancelled(s) == job[tick[s].run].status = "cancelled"

Reported(s, outcome) ==
    tick' = [tick EXCEPT ![s].pc = "report", ![s].outcome = outcome]

RunnerAccepts(r) ==
    /\ PolicyAdmits(PoolConfig[Job[r].pool], Job[r])
    /\ mode.runner = "wasm" => WasmAccepts(Job[r])
    /\ mode.runner = "kubernetes" => InputsFit(Job[r].inputs)

CreateJob(s) ==
    /\ At(s, "execute")
    /\ Reattaches
    /\ LET existing == kube[NameOf(s)] IN
       IF \/ ~RunnerAccepts(tick[s].run)
          \/ /\ existing.st # "absent"
             /\ ~SameIdentity(existing.labels, Job[tick[s].run].id, tick[s].attempt)
       THEN EndTick(s, "error") /\ UNCHANGED <<kube, sweep>>
       ELSE /\ kube' = IF existing.st # "absent" THEN kube
                       ELSE [kube EXCEPT ![NameOf(s)] =
                                 [st |-> "active", labels |-> LabelsOf(s), old |-> FALSE]]
            /\ sweep' = [sweep EXCEPT !.during = IF sweep.on THEN @ \cup {NameOf(s)} ELSE {}]
            /\ Go(s, "wait")
            /\ UNCHANGED drain
    /\ UNCHANGED <<mode, job, stored, faults>>

StartProcess(s) ==
    /\ At(s, "execute")
    /\ ~Reattaches
    /\ IF Cancelled(s)
       THEN Reported(s, "cancelled") /\ UNCHANGED drain
       ELSE IF RunnerAccepts(tick[s].run)
       THEN Go(s, "wait") /\ UNCHANGED drain
       ELSE EndTick(s, "error")
    /\ UNCHANGED <<mode, job, kube, sweep, stored, faults>>

\* The heartbeat task beside the execution; losing the lease ends the tick and
\* leaves whatever runs in Kubernetes running.
HeartbeatTask(s) ==
    /\ At(s, "wait")
    /\ ~(Owned(s) /\ job[tick[s].run].lease = "live")
    /\ Beat(s, "wait")
    /\ UNCHANGED <<mode, kube, sweep, stored, faults>>

\* One round of wait_for_job: cancellation first, then the Job's status.
PollJob(s) ==
    /\ At(s, "wait")
    /\ Reattaches
    /\ \/ /\ Cancelled(s)
          /\ kube' = [kube EXCEPT ![NameOf(s)] = NoJob]
          /\ Reported(s, "cancelled")
          /\ UNCHANGED drain
       \/ /\ ~Cancelled(s)
          /\ kube[NameOf(s)].st = "absent"
          /\ EndTick(s, "error")
          /\ UNCHANGED kube
       \/ /\ ~Cancelled(s)
          /\ kube[NameOf(s)].st # "absent"
          /\ \E late \in BOOLEAN :
                 /\ JobOutcome(kube[NameOf(s)].st, late) # "waiting"
                 /\ Reported(s, JobOutcome(kube[NameOf(s)].st, late))
          /\ UNCHANGED <<kube, drain>>
    /\ UNCHANGED <<mode, job, sweep, stored, faults>>

\* The local runners.  Only the process runner looks for a cancellation while the
\* child runs; only the WASI runner has a timeout, and it is an error, not an
\* outcome.
PollProcess(s) ==
    /\ At(s, "wait")
    /\ ~Reattaches
    /\ \/ /\ mode.runner = "process"
          /\ Cancelled(s)
          /\ Reported(s, "cancelled")
          /\ UNCHANGED drain
       \/ /\ \E install, command \in {"succeeded", "failed"} :
                 /\ Job[tick[s].run].deps = {} => install = "succeeded"
                 /\ Reported(s, ProcessReport(install, command))
          /\ UNCHANGED drain
       \/ /\ mode.runner = "wasm"
          /\ EndTick(s, "error")
    /\ UNCHANGED <<mode, job, kube, sweep, stored, faults>>

\* The last renewal before anything is persisted.
FinalHeartbeat(s) ==
    /\ At(s, "report")
    /\ Beat(s, "persist")
    /\ UNCHANGED <<mode, kube, sweep, stored, faults>>

-----------------------------------------------------------------------------
(***************************************************************************)
(* The tick, from the report to the row.                                   *)
(***************************************************************************)
Collected(r, cut) ==
    IF Reattaches
    THEN SplitArtifactMarkers(Job[r].output, cut).artifacts
    ELSE CollectLocalArtifacts(Job[r].output).artifacts

\* Artifacts are stored one by one; the first name the domain rejects stops it.
PersistedUpTo(r, collected) ==
    {i \in collected : \A k \in collected : k <= i => Job[r].output[k].plain}

StoreArtifacts(r, kept, cut) ==
    [stored EXCEPT ![r] =
        [i \in DOMAIN @ |->
            IF i \in kept
            THEN IF cut /\ i = Len(Job[r].output) THEN "partial" ELSE "whole"
            ELSE @[i]]]

RetryDecision(r, attempt, status) ==
    IF attempt < Job[r].retries THEN "retry_scheduled" ELSE status

FinalStatus(r, attempt, outcome, rejected) ==
    IF rejected THEN "failed"
    ELSE IF outcome \in {"succeeded", "cancelled"} THEN outcome
    ELSE RetryDecision(r, attempt, outcome)

PersistReport(s) ==
    /\ At(s, "persist")
    /\ \E cut \in (IF Reattaches THEN BOOLEAN ELSE {FALSE}) :
           LET r         == tick[s].run
               collected == IF tick[s].outcome = "cancelled" THEN {} ELSE Collected(r, cut)
               kept      == PersistedUpTo(r, collected)
               final     == FinalStatus(r, tick[s].attempt, tick[s].outcome, kept # collected)
           IN /\ stored' = StoreArtifacts(r, kept, cut)
              /\ tick' = [tick EXCEPT ![s].pc = "finish", ![s].outcome = final]
    /\ UNCHANGED <<mode, job, drain, kube, sweep, faults>>

Finishes(s) ==
    /\ job[tick[s].run].attempt = tick[s].attempt
    /\ job[tick[s].run].owner = WorkerOf[s]
    /\ job[tick[s].run].status = "running"

FinishRunningAttempt(s) ==
    /\ At(s, "finish")
    /\ job' = IF ~Finishes(s) THEN job
              ELSE [job EXCEPT ![tick[s].run] =
                        [@ EXCEPT !.status = tick[s].outcome, !.owner = NoWorker,
                                  !.lease = "none",
                                  !.retry = IF tick[s].outcome = "retry_scheduled"
                                            THEN "waiting" ELSE "none"]]
    /\ EndTick(s, "finished")
    /\ UNCHANGED <<mode, kube, sweep, stored, faults>>

\* Any statement, object-store or Kubernetes call of a tick may fail: the tick
\* returns with the row, its lease and the Job as they are.
CallFails(s) ==
    /\ ~At(s, "idle")
    /\ faults < MaxFaults
    /\ faults' = faults + 1
    /\ EndTick(s, "error")
    /\ UNCHANGED <<mode, job, kube, sweep, stored>>

-----------------------------------------------------------------------------
(***************************************************************************)
(* The reconciler: list the active runs, then list the Jobs and delete,    *)
(* one call each, those of no active run that have outlived the grace      *)
(* period.  A call that fails ends the pass.                               *)
(***************************************************************************)
\* (mutant) Every run ever created counts as active.
SweepListsEveryRun ==
    /\ Reattaches
    /\ ~sweep.on
    /\ sweep' = [on |-> TRUE, during |-> {},
                 active |-> {Job[r].id.long : r \in {q \in Runs : job[q].status # "absent"}}]
    /\ UNCHANGED <<mode, job, tick, drain, kube, stored, faults>>

SweepList ==
    /\ Reattaches
    /\ ~sweep.on
    /\ sweep' = [on |-> TRUE, during |-> {},
                 active |-> {Job[r].id.long : r \in {q \in Runs : job[q].status \in Leased}}]
    /\ UNCHANGED <<mode, job, tick, drain, kube, stored, faults>>

\* (mutant) No grace period.
OrphanedAtAnyAge(n) ==
    /\ kube[n].st # "absent"
    /\ kube[n].labels.run \notin sweep.active

Orphaned(n) ==
    /\ kube[n].st # "absent"
    /\ kube[n].labels.run \notin sweep.active
    /\ kube[n].old

SweepDelete ==
    /\ sweep.on
    /\ \E deleted \in SUBSET {n \in Names : Orphaned(n)} :
           /\ deleted # {n \in Names : Orphaned(n)} => faults < MaxFaults
           /\ faults' = IF deleted = {n \in Names : Orphaned(n)} THEN faults
                        ELSE faults + 1
           /\ kube' = [n \in Names |-> IF n \in deleted THEN NoJob ELSE kube[n]]
    /\ sweep' = NoSweep
    /\ UNCHANGED <<mode, job, tick, drain, stored>>

-----------------------------------------------------------------------------
(***************************************************************************)
(* The API's side of the table, and time.                                  *)
(***************************************************************************)
CreateRun(r) ==
    /\ job[r].status = "absent"
    /\ r \in mode.runs
    /\ job' = [job EXCEPT ![r].status = "queued"]
    /\ UNCHANGED <<mode, tick, drain, kube, sweep, stored, faults>>

\* (mutant) The cancellation leaves the lease columns alone.
CancelKeepsLease(r) ==
    /\ job[r].status \in {"queued", "leased", "running", "retry_scheduled"}
    /\ job' = [job EXCEPT ![r] = [@ EXCEPT !.status = "cancelled", !.retry = "none"]]
    /\ UNCHANGED <<mode, tick, drain, kube, sweep, stored, faults>>

CancelRun(r) ==
    /\ job[r].status \in {"queued", "leased", "running", "retry_scheduled"}
    /\ job' = [job EXCEPT ![r] = [@ EXCEPT !.status = "cancelled", !.owner = NoWorker,
                                           !.lease = "none", !.retry = "none"]]
    /\ UNCHANGED <<mode, tick, drain, kube, sweep, stored, faults>>

\* A lease nobody renews any more runs out; one whose worker is merely slow may.
Attended(r) == \E s \in Slots : tick[s].run = r /\ Owned(s)

LeaseExpires(r) ==
    /\ job[r].lease = "live"
    /\ IF Attended(r) THEN faults < MaxFaults /\ faults' = faults + 1 ELSE UNCHANGED faults
    /\ job' = [job EXCEPT ![r].lease = "expired"]
    /\ UNCHANGED <<mode, tick, drain, kube, sweep, stored>>

RetryFallsDue(r) ==
    /\ job[r].retry = "waiting"
    /\ job' = [job EXCEPT ![r].retry = "ready"]
    /\ UNCHANGED <<mode, tick, drain, kube, sweep, stored, faults>>

JobEnds(n) ==
    /\ kube[n].st = "active"
    /\ \E install, command \in {"succeeded", "failed"}, deadline \in BOOLEAN :
           kube' = [kube EXCEPT ![n].st =
                        IF deadline THEN "deadline" ELSE WrapperExit(install, command)]
    /\ UNCHANGED <<mode, job, tick, drain, sweep, stored, faults>>

\* The grace period of a Job outlasts a reconciler pass that was under way when
\* the Job was created.
JobAges(n) ==
    /\ kube[n].st # "absent"
    /\ ~kube[n].old
    /\ n \notin sweep.during
    /\ kube' = [kube EXCEPT ![n].old = TRUE]
    /\ UNCHANGED <<mode, job, tick, drain, sweep, stored, faults>>

\* ttlSecondsAfterFinished, or an operator's hand.
JobEvicted(n) ==
    /\ kube[n].st \in {"succeeded", "failed", "deadline"}
    /\ faults < MaxFaults
    /\ faults' = faults + 1
    /\ kube' = [kube EXCEPT ![n] = NoJob]
    /\ UNCHANGED <<mode, job, tick, drain, sweep, stored>>

-----------------------------------------------------------------------------
TickStep(s) ==
    \/ RecoverExpiredLeases(s)
    \/ PromoteReadyRetries(s)
    \/ LeaseSnapshot(s)
    \/ LeaseNextQueuedRun(s)
    \/ LeaseNothing(s)
    \/ SaveRun(s)
    \/ HeartbeatRun(s)
    \/ CreateJob(s)
    \/ StartProcess(s)
    \/ HeartbeatTask(s)
    \/ PollJob(s)
    \/ PollProcess(s)
    \/ FinalHeartbeat(s)
    \/ PersistReport(s)
    \/ FinishRunningAttempt(s)

Next ==
    \/ \E s \in Slots : TickStep(s) \/ CallFails(s)
    \/ \E w \in Workers : DrainReturns(w) \/ Shutdown(w) \/ Restart(w)
    \/ SweepList
    \/ SweepDelete
    \/ \E r \in Runs : CreateRun(r) \/ CancelRun(r) \/ LeaseExpires(r) \/ RetryFallsDue(r)
    \/ \E n \in Names : JobEnds(n) \/ JobAges(n) \/ JobEvicted(n)

Spec == Init /\ [][Next]_vars

(***************************************************************************)
(* Fairness, with ENABLED written out.  The executor polls a tick's task   *)
(* until it returns and a tick always has a step; a drain pass that has    *)
(* ended is followed by the next, a worker that was shut down by its       *)
(* replacement; the reconciler's interval keeps firing; Jobs outlive the   *)
(* grace period.  Nothing is assumed of users, pods, retries and faults.   *)
(***************************************************************************)
CanStep(s) == At(s, "idle") => drain[WorkerOf[s]].accepting

KeepsGoing(s)    == []<>~CanStep(s) \/ []<><<tick'[s] # tick[s]>>_vars
KeepsPolling(w)  == []<>(drain[w].accepting \/ ~Idle(w))
KeepsSweeping    == []<>(Reattaches => sweep.on) /\ []<>~sweep.on
GracePeriodsPass ==
    []<>(\A n \in Names : kube[n].st = "absent" \/ kube[n].old \/ n \in sweep.during)

Fairness ==
    /\ \A s \in Slots : KeepsGoing(s)
    /\ \A w \in Workers : KeepsPolling(w)
    /\ KeepsSweeping
    /\ GracePeriodsPass

FairSpec == Spec /\ Fairness

-----------------------------------------------------------------------------
(***************************************************************************)
(* Properties                                                              *)
(***************************************************************************)
\* A row has lease columns exactly as long as someone may act on them: a run that
\* waits, or has ended, is nobody's, whichever of recover_expired_leases, cancel_run,
\* finish_running_attempt and a late save came last (job_runs.rs, repositories.rs).
LeaseColumns ==
    \A r \in Runs :
        /\ job[r].lease # "none" => job[r].status \in Leased
        /\ job[r].lease # "none" <=> job[r].owner # NoWorker
        /\ job[r].retry # "none" => job[r].status \in {"retry_scheduled", "running"}

PhaseOf(row) ==
    IF row.status \in {"queued", "retry_scheduled"} THEN "waiting"
    ELSE IF row.status \in Leased THEN "active"
    ELSE row.status

\* What executions have decided and not yet written.
HeldVerdicts ==
    {<<tick[s].run, tick[s].attempt, tick[s].outcome>> :
        s \in {q \in Slots : At(q, "finish") /\ tick[q].outcome \in Terminal}}

Lifecycle == INSTANCE JobLifecycle WITH
    Jobs     <- Runs,
    Attempts <- Attempts,
    phase    <- [r \in Runs |-> PhaseOf(job[r])],
    attempt  <- [r \in Runs |-> job[r].attempt],
    verdicts <- HeldVerdicts

\* The table and its workers implement the lifecycle: whatever the order of late
\* saves, stale finishes, adoptions and cancellations, a run that has ended never
\* changes again (repositories.rs save, job_runs.rs finish_running_attempt and
\* cancel_run), and it ends with what an execution of its recorded attempt returned.
ImplementsLifecycle == Lifecycle!LifecycleSpec

\* The reconciler never deletes the unfinished Job a worker is waiting on under a
\* live lease of its own (internal.rs reconcile_orphaned_jobs): the list of active
\* runs it works from is older than the Jobs it lists, and only the grace period
\* covers the difference.
SweepSparesRunning ==
    [][SweepDelete =>
           \A s \in Slots :
               /\ At(s, "wait")
               /\ Finishes(s)
               /\ job[tick[s].run].lease = "live"
               /\ kube[NameOf(s)].st = "active"
               => kube'[NameOf(s)] = kube[NameOf(s)]]_vars

\* Every artifact a Kubernetes attempt leaves in storage is complete: a payload
\* the log limit cut short is never persisted (internal.rs split_artifact_markers).
StoredArtifactsWhole ==
    \A r \in Runs : \A i \in DOMAIN stored[r] : stored[r][i] # "partial"

\* A lease that has run out does not stay that way: some worker's next tick requeues
\* or adopts the run, its own worker renews it, or the run ends (execution.rs
\* execute_one_queued_run_inner, job_runs.rs recover_expired_leases_for_runner).
ExpiredIsReclaimed ==
    \A r \in Runs : job[r].lease = "expired" ~> job[r].lease # "expired"

\* Once a run is cancelled its Kubernetes Jobs are deleted, whether the worker that
\* waited for one sees the cancellation (internal.rs cleanup_cancelled_job) or stops
\* waiting first, or creates it only after the cancellation, and leaves it to the
\* reconciler.
CancelledJobsGo ==
    \A r \in Runs :
        job[r].status = "cancelled" ~>
            \A a \in Attempts : kube[KubernetesJobName(Job[r].id, a)].st = "absent"

\* repositories.rs:15-19 says of `save`: a cancellation racing the worker "would
\* otherwise leave a `running` row with no lease, which no recovery query can
\* reclaim".  A running row always carries a lease.
RunningHasLease ==
    \A r \in Runs : job[r].status = "running" => job[r].lease # "none"

\* docs/operations.md:61: "Worker leasing enforces execution-pool concurrency".  No
\* pool ever has more live leases than its max_concurrent_jobs.
PoolLimitHolds ==
    \A r \in Runs :
        Cardinality({q \in Runs : Counted(q) /\ Job[q].pool = Job[r].pool}) <= Limit(r)
=============================================================================
