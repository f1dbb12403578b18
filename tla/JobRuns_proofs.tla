--------------------------- MODULE JobRuns_proofs ---------------------------
(***************************************************************************)
(* Proofs about JobRuns for any number of runs, slots and workers, any     *)
(* definitions, pools and deployments, and any bounds: the inductive       *)
(* invariant of the queue, the lease columns of a row, the artifacts an    *)
(* attempt stores, and that the queue implements JobLifecycle.             *)
(***************************************************************************)
EXTENDS JobRuns, TLAPS

(***************************************************************************)
(* The inductive invariant: what every row and every tick looks like, and  *)
(* that a tick which has taken a run works on one that exists.             *)
(***************************************************************************)
Rows == [status : Statuses, owner : Workers \cup {NoWorker}, lease : {"none", "live", "expired"},
         attempt : 0..MaxAttempts, retry : {"none", "waiting", "ready"}]

\* LeaseColumns needs the third conjunct: a run put back by its expired lease has
\* no retry pending, so a late save over a scheduled retry must not meet a lease.
RowOK(row) ==
    /\ row.lease # "none" => row.status \in Leased
    /\ row.lease # "none" <=> row.owner # NoWorker
    /\ row.lease # "none" => row.retry = "none"
    /\ row.retry # "none" => row.status \in {"retry_scheduled", "running"}
    /\ row.status = "running" => row.attempt \in Attempts

GoodRows == {row \in Rows : RowOK(row)}

Snapshots == [candidates : SUBSET Runs, active : SUBSET Runs]

Started == {"beat", "execute", "wait", "report", "persist", "finish"}
Taken   == Started \cup {"save"}

Ticks == [pc : Taken \cup {"idle", "promote", "lease", "leasing"}, run : Runs \cup {0},
          attempt : 0..MaxAttempts, fresh : BOOLEAN, snap : Snapshots \cup {<<>>},
          outcome : Terminal \cup {"none", "retry_scheduled"}]

\* A started attempt is one of the bounded attempts; an execution reports an
\* ending, which the retry decision may turn into a scheduled retry.
TickOK(t) ==
    /\ t.pc = "leasing" => t.snap \in Snapshots
    /\ t.pc \in Taken => t.run \in Runs
    /\ t.pc = "save" => IF t.fresh THEN t.attempt < MaxAttempts ELSE t.attempt \in Attempts
    /\ t.pc \in Started => t.attempt \in Attempts
    /\ t.pc \in {"report", "persist"} => t.outcome \in Terminal
    /\ t.pc = "finish" => t.outcome \in Terminal \cup {"retry_scheduled"}

GoodTicks == {t \in Ticks : TickOK(t)}

Labels == {JobLabels(Job[r].id, a) : r \in Runs, a \in Attempts} \cup {NoJob.labels}
Kubes  == [st : {"absent", "active", "succeeded", "failed", "deadline"}, labels : Labels,
           old : BOOLEAN]

Present == \A s \in Slots : tick[s].pc \in Taken => job[tick[s].run].status # "absent"

JobInv ==
    /\ job \in [Runs -> GoodRows]
    /\ tick \in [Slots -> GoodTicks]
    /\ kube \in [Names -> Kubes]
    /\ Present

-----------------------------------------------------------------------------
\* An idle slot satisfies the tick invariant.
LEMMA ReadyIsGood == Ready \in GoodTicks
BY JobRunsAssumption DEF Ready, GoodTicks, Ticks, TickOK, Taken, Started

\* Ending one tick keeps every tick in the invariant and takes no run.
LEMMA EndTickGood ==
    ASSUME JobInv, NEW s \in Slots, NEW result, EndTick(s, result)
    PROVE  /\ tick' \in [Slots -> GoodTicks]
           /\ \A q \in Slots : tick'[q] = tick[q] \/ tick'[q] = Ready
BY ReadyIsGood DEF JobInv, EndTick

\* As long as no row disappears and ticks keep their run or take none, every taken
\* run stays present.
LEMMA PresenceKept ==
    ASSUME JobInv, tick' \in [Slots -> GoodTicks],
           \A r \in Runs : job[r].status # "absent" => job'[r].status # "absent",
           \A q \in Slots : tick'[q].pc \in Taken => tick[q].pc \in Taken /\ tick'[q].run = tick[q].run
    PROVE  Present'
BY DEF JobInv, Present, GoodTicks, TickOK

\* The usual step of a tick: one slot moves on with the run it has.
LEMMA SlotMoves ==
    ASSUME JobInv, NEW s \in Slots, NEW t \in GoodTicks, tick' = [tick EXCEPT ![s] = t],
           t.pc \in Taken => tick[s].pc \in Taken /\ t.run = tick[s].run,
           \A r \in Runs : job[r].status # "absent" => job'[r].status # "absent"
    PROVE  tick' \in [Slots -> GoodTicks] /\ Present'
<1>1. tick' \in [Slots -> GoodTicks]
  BY DEF JobInv
<1>2. \A q \in Slots : tick'[q].pc \in Taken => tick[q].pc \in Taken /\ tick'[q].run = tick[q].run
  BY DEF JobInv
<1>. QED  BY <1>1, <1>2, PresenceKept

\* The other one: it ends.
LEMMA SlotEnds ==
    ASSUME JobInv, NEW s \in Slots, NEW result, EndTick(s, result), UNCHANGED job
    PROVE  tick' \in [Slots -> GoodTicks] /\ Present'
<1>1. \A q \in Slots : tick'[q].pc \in Taken => tick[q].pc \in Taken /\ tick'[q].run = tick[q].run
  BY EndTickGood DEF Ready, Taken, Started
<1>. QED  BY <1>1, EndTickGood, PresenceKept

\* Runs are absent before they are created, slots idle, Jobs not there.
LEMMA InitJobInv == Init => JobInv
<1>. SUFFICES ASSUME Init PROVE JobInv  OBVIOUS
<1>1. job \in [Runs -> GoodRows]
  BY JobRunsAssumption DEF Init, GoodRows, Rows, RowOK, Statuses, Leased
<1>2. tick \in [Slots -> GoodTicks]
  BY ReadyIsGood DEF Init
<1>3. kube \in [Names -> Kubes]
  BY DEF Init, NoJob, Kubes, Labels
<1>4. Present
  BY DEF Init, Present, Ready, Taken, Started
<1>. QED  BY <1>1, <1>2, <1>3, <1>4 DEF JobInv
-----------------------------------------------------------------------------
(***************************************************************************)
(* Every action keeps the invariant.                                       *)
(***************************************************************************)
\* The ticks that look for a run.
LEMMA SearchMoves ==
    ASSUME JobInv, NEW s \in Slots, NEW pc \in {"promote", "lease"}, Go(s, pc),
           \A r \in Runs : job[r].status # "absent" => job'[r].status # "absent"
    PROVE  tick' \in [Slots -> GoodTicks] /\ Present'
<1>. DEFINE t == [tick[s] EXCEPT !.pc = pc]
<1>1. tick[s] \in GoodTicks  BY DEF JobInv
<1>2. tick' = [tick EXCEPT ![s] = t]  BY <1>1 DEF Go, JobInv
<1>3. t \in Ticks /\ t.pc = pc  BY <1>1 DEF GoodTicks, Ticks
<1>. HIDE DEF t
<1>4. t \in GoodTicks /\ t.pc \notin Taken  BY <1>3 DEF GoodTicks, TickOK, Taken, Started
<1>. QED  BY <1>2, <1>4, SlotMoves, Zenon

\* Recovery puts back rows whose lease has expired.
LEMMA RecoverKeeps ==
    ASSUME JobInv, NEW s \in Slots, RecoverExpiredLeases(s)
    PROVE  JobInv'
<1>1. ASSUME NEW r \in Runs
      PROVE  job'[r] \in GoodRows /\ (job[r].status # "absent" => job'[r].status # "absent")
  <2>1. job[r] \in GoodRows  BY DEF JobInv
  <2>2. CASE Recoverable(job[r])
    <3>. DEFINE row == [job[r] EXCEPT !.status = "queued", !.owner = NoWorker, !.lease = "none"]
    <3>1. job'[r] = row  BY <2>2, Zenon DEF RecoverExpiredLeases
    <3>2. /\ row \in Rows /\ row.status = "queued" /\ row.owner = NoWorker /\ row.lease = "none"
          /\ row.retry = job[r].retry
      BY <2>1, Zenon DEF GoodRows, Rows, Statuses
    <3>. HIDE DEF row
    <3>3. job[r].retry = "none"  BY <2>1, <2>2 DEF Recoverable, GoodRows, RowOK
    <3>. QED  BY <3>1, <3>2, <3>3 DEF GoodRows, RowOK
  <2>3. CASE ~Recoverable(job[r])
    BY <2>1, <2>3, Zenon DEF RecoverExpiredLeases
  <2>. QED  BY <2>2, <2>3
<1>2. job' \in [Runs -> GoodRows]
  BY <1>1, Zenon DEF RecoverExpiredLeases
<1>3. tick' \in [Slots -> GoodTicks] /\ Present'
  BY <1>1, SearchMoves, Zenon DEF RecoverExpiredLeases
<1>. QED  BY <1>2, <1>3, Zenon DEF JobInv, RecoverExpiredLeases

\* Promotion queues the retries that have fallen due.
LEMMA PromoteKeeps ==
    ASSUME JobInv, NEW s \in Slots, PromoteReadyRetries(s)
    PROVE  JobInv'
<1>1. ASSUME NEW r \in Runs
      PROVE  job'[r] \in GoodRows /\ (job[r].status # "absent" => job'[r].status # "absent")
  <2>1. job[r] \in GoodRows  BY DEF JobInv
  <2>2. CASE job[r].status = "retry_scheduled" /\ job[r].retry = "ready"
    <3>. DEFINE row == [job[r] EXCEPT !.status = "queued", !.retry = "none"]
    <3>1. job'[r] = row  BY <2>2, Zenon DEF PromoteReadyRetries
    <3>2. /\ row \in Rows /\ row.status = "queued" /\ row.retry = "none"
          /\ row.lease = job[r].lease /\ row.owner = job[r].owner
      BY <2>1, Zenon DEF GoodRows, Rows, Statuses
    <3>. HIDE DEF row
    <3>3. job[r].lease = "none" /\ job[r].owner = NoWorker
      BY <2>1, <2>2 DEF GoodRows, RowOK, Leased
    <3>. QED  BY <3>1, <3>2, <3>3 DEF GoodRows, RowOK
  <2>3. CASE ~(job[r].status = "retry_scheduled" /\ job[r].retry = "ready")
    BY <2>1, <2>3, Zenon DEF PromoteReadyRetries
  <2>. QED  BY <2>2, <2>3
<1>2. job' \in [Runs -> GoodRows]
  BY <1>1, Zenon DEF PromoteReadyRetries
<1>3. tick' \in [Slots -> GoodTicks] /\ Present'
  BY <1>1, SearchMoves, Zenon DEF PromoteReadyRetries
<1>. QED  BY <1>2, <1>3, Zenon DEF JobInv, PromoteReadyRetries

\* The snapshot is of existing rows.
LEMMA SnapshotKeeps ==
    ASSUME JobInv, NEW s \in Slots, LeaseSnapshot(s)
    PROVE  JobInv'
<1>. DEFINE snap == [candidates |-> {r \in Runs : Leasable(r)}, active |-> {r \in Runs : Counted(r)}]
            t    == [tick[s] EXCEPT !.pc = "leasing", !.snap = snap]
<1>1. snap \in Snapshots  BY DEF Snapshots
<1>2. tick[s] \in GoodTicks  BY DEF JobInv
<1>3. tick' = [tick EXCEPT ![s] = t]  BY <1>2, Zenon DEF LeaseSnapshot, JobInv
<1>. HIDE DEF snap
<1>4. t \in Ticks /\ t.pc = "leasing" /\ t.snap = snap
  BY <1>1, <1>2, Zenon DEF GoodTicks, Ticks
<1>. HIDE DEF t
<1>5. t \in GoodTicks /\ t.pc \notin Taken
  BY <1>1, <1>4 DEF GoodTicks, TickOK, Taken, Started
<1>. QED  BY <1>3, <1>5, SlotMoves, Zenon DEF JobInv, LeaseSnapshot

\* Leasing: the row it takes is queued, or running under an expired lease.
LEMMA LeaseKeeps ==
    ASSUME JobInv, NEW s \in Slots, LeaseNextQueuedRun(s)
    PROVE  JobInv'
<1>1. PICK r \in Claimable(s), skipped \in SUBSET {q \in Slots \ {s} : At(q, "leasing")} :
          /\ job' = [job EXCEPT ![r].status = IF @ = "running" THEN "running" ELSE "leased",
                                ![r].owner = WorkerOf[s], ![r].lease = "live"]
          /\ tick' = [q \in Slots |->
                        IF q = s THEN [tick[s] EXCEPT !.pc = "save", !.run = r, !.snap = <<>>,
                                                      !.attempt = job[r].attempt,
                                                      !.fresh = job[r].status # "running"]
                        ELSE IF q \in skipped THEN Ready ELSE tick[q]]
  BY Zenon DEF LeaseNextQueuedRun
<1>2. /\ r \in Runs
      /\ job[r].status = "queued" \/ (job[r].status = "running" /\ job[r].lease = "expired")
      /\ job[r].status = "queued" => job[r].attempt < MaxAttempts
  BY DEF LeaseNextQueuedRun, At, Claimable, Leasable, JobInv, GoodTicks, TickOK, Snapshots
<1>3. job[r] \in GoodRows /\ tick[s] \in GoodTicks
  BY <1>2 DEF JobInv
<1>4. job' \in [Runs -> GoodRows] /\ job'[r].status # "absent"
  <2>. DEFINE row == [job[r] EXCEPT !.status = IF @ = "running" THEN "running" ELSE "leased",
                                    !.owner = WorkerOf[s], !.lease = "live"]
  <2>1. job' = [job EXCEPT ![r] = row]
    BY <1>1, <1>2, <1>3, Zenon DEF JobInv, GoodRows, Rows
  <2>2. /\ row \in Rows /\ row.owner = WorkerOf[s] /\ row.lease = "live"
        /\ row.status = IF job[r].status = "running" THEN "running" ELSE "leased"
        /\ row.attempt = job[r].attempt /\ row.retry = job[r].retry
    BY <1>3, Zenon DEF GoodRows, Rows, Statuses, Workers
  <2>. HIDE DEF row
  <2>3. job[r].retry = "none"
    BY <1>2, <1>3 DEF GoodRows, RowOK
  <2>4. row \in GoodRows /\ row.status # "absent"
    BY <1>2, <1>3, <2>2, <2>3, JobRunsAssumption DEF GoodRows, RowOK, Leased
  <2>. QED  BY <1>2, <2>1, <2>4 DEF JobInv
<1>5. tick'[s] \in GoodTicks /\ tick'[s].run = r
  <2>. DEFINE fresh   == job[r].status # "running"
              attempt == job[r].attempt
              t       == [tick[s] EXCEPT !.pc = "save", !.run = r, !.snap = <<>>,
                                         !.attempt = attempt, !.fresh = fresh]
  <2>1. tick'[s] = t  BY <1>1
  <2>2. /\ fresh \in BOOLEAN /\ attempt \in 0..MaxAttempts
        /\ IF fresh THEN attempt < MaxAttempts ELSE attempt \in Attempts
    BY <1>2, <1>3 DEF GoodRows, Rows, RowOK
  <2>. HIDE DEF fresh, attempt
  <2>3. t \in Ticks /\ t.pc = "save" /\ t.run = r /\ t.fresh = fresh /\ t.attempt = attempt
    BY <1>2, <1>3, <2>2, Zenon DEF GoodTicks, Ticks, Taken
  <2>. HIDE DEF t
  <2>4. TickOK(t)
    BY <1>2, <2>2, <2>3 DEF TickOK, Started
  <2>. QED  BY <2>1, <2>3, <2>4 DEF GoodTicks
<1>6. tick' \in [Slots -> GoodTicks] /\ \A q \in Slots \ {s} : tick'[q] = tick[q] \/ tick'[q] = Ready
  BY <1>1, <1>5, ReadyIsGood DEF JobInv
<1>7. Present'
  <2>. SUFFICES ASSUME NEW q \in Slots, tick'[q].pc \in Taken
               PROVE  job'[tick'[q].run].status # "absent"
    BY DEF Present
  <2>1. CASE q = s
    BY <2>1, <1>4, <1>5
  <2>2. CASE q # s
    <3>1. tick'[q] = tick[q]  BY <1>6, <2>2 DEF Ready, Taken, Started
    <3>2. tick[q].run \in Runs /\ job[tick[q].run].status # "absent"
      BY <3>1 DEF JobInv, Present, GoodTicks, TickOK
    <3>3. tick[q].run # r => job'[tick[q].run] = job[tick[q].run]
      BY <1>1, <1>2, <3>2 DEF JobInv
    <3>. QED  BY <1>4, <3>1, <3>2, <3>3
  <2>. QED  BY <2>1, <2>2
<1>. QED  BY <1>4, <1>6, <1>7 DEF LeaseNextQueuedRun, JobInv

\* The upsert of a started attempt over any row but an absent one.
LEMMA SavedRow ==
    ASSUME NEW row \in GoodRows, NEW attempt \in Attempts, row.status # "absent"
    PROVE  Saved(row, attempt) \in GoodRows /\ Saved(row, attempt).status # "absent"
<1>1. CASE row.status \in Terminal
  BY <1>1 DEF Saved
<1>2. CASE row.status \notin Terminal
  <2>. DEFINE new == [row EXCEPT !.status = "running", !.attempt = attempt]
  <2>1. Saved(row, attempt) = new  BY <1>2 DEF Saved
  <2>2. attempt \in 0..MaxAttempts  BY JobRunsAssumption DEF Attempts
  <2>3. new \in Rows /\ new.status = "running" /\ new.attempt = attempt
    BY <2>2, Zenon DEF GoodRows, Rows, Statuses
  <2>4. RowOK(new)
    BY <2>3 DEF GoodRows, Rows, RowOK, Leased
  <2>. QED  BY <2>1, <2>3, <2>4 DEF GoodRows
<1>. QED  BY <1>1, <1>2

\* The save of the started attempt: whatever the row has become, short of an ending,
\* it is running now, and the lease it carries, if any, is the one it had.
LEMMA SaveKeeps ==
    ASSUME JobInv, NEW s \in Slots, SaveRun(s)
    PROVE  JobInv'
<1>. DEFINE r       == tick[s].run
            attempt == IF tick[s].fresh THEN tick[s].attempt + 1 ELSE tick[s].attempt
            t       == [tick[s] EXCEPT !.pc = "beat", !.attempt = attempt]
<1>1. /\ tick[s] \in GoodTicks /\ tick[s].pc = "save"
      /\ r \in Runs /\ job[r] \in GoodRows /\ job[r].status # "absent"
  BY DEF JobInv, SaveRun, At, GoodTicks, TickOK, Present, Taken
<1>2. CASE ~Job[r].found
  BY <1>2, SlotEnds DEF SaveRun, JobInv
<1>3. CASE Job[r].found
  <2>1. attempt \in Attempts
    BY <1>1, JobRunsAssumption DEF GoodTicks, Ticks, TickOK, Attempts
  <2>2. /\ job' = IF tick[s].fresh THEN [job EXCEPT ![r] = Saved(job[r], attempt)] ELSE job
        /\ tick' = [tick EXCEPT ![s] = t]
    BY <1>1, <1>3, Zenon DEF SaveRun, JobInv, GoodTicks, Ticks
  <2>. HIDE DEF attempt
  <2>3. Saved(job[r], attempt) \in GoodRows /\ Saved(job[r], attempt).status # "absent"
    BY <1>1, <2>1, SavedRow
  <2>4. /\ job' \in [Runs -> GoodRows]
        /\ \A q \in Runs : job[q].status # "absent" => job'[q].status # "absent"
    BY <1>1, <2>2, <2>3 DEF JobInv
  <2>5. t \in GoodTicks /\ t.run = r
    <3>1. attempt \in 0..MaxAttempts  BY <2>1, JobRunsAssumption DEF Attempts
    <3>2. t \in Ticks /\ t.pc = "beat" /\ t.run = r /\ t.attempt = attempt
      BY <1>1, <3>1, Zenon DEF GoodTicks, Ticks, Taken, Started
    <3>. HIDE DEF t
    <3>. QED  BY <1>1, <2>1, <3>2 DEF GoodTicks, TickOK, Taken, Started
  <2>6. tick' \in [Slots -> GoodTicks] /\ Present'
    BY <1>1, <2>2, <2>4, <2>5, SlotMoves, Zenon DEF Taken
  <2>. QED  BY <2>4, <2>6 DEF SaveRun, JobInv
<1>. QED  BY <1>2, <1>3

\* A heartbeat renews the lease of a row that carries the worker's name, and so has
\* one; or ends the tick.
LEMMA BeatKeeps ==
    ASSUME JobInv, NEW s \in Slots, NEW pc \in Started, tick[s].pc \in Started, Beat(s, pc),
           pc = "wait" \/ pc = "execute" \/ (pc = "persist" /\ tick[s].pc = "report"),
           UNCHANGED kube
    PROVE  JobInv'
<1>. DEFINE r == tick[s].run
            t == [tick[s] EXCEPT !.pc = pc]
<1>1. tick[s] \in GoodTicks /\ r \in Runs /\ job[r] \in GoodRows
  BY DEF JobInv, GoodTicks, TickOK, Taken
<1>2. CASE ~Owned(s)
  BY <1>2, SlotEnds DEF Beat, JobInv
<1>3. CASE Owned(s)
  <2>1. job' = [job EXCEPT ![r] = [job[r] EXCEPT !.lease = "live"]] /\ tick' = [tick EXCEPT ![s] = t]
    BY <1>1, <1>3 DEF Beat, Go, JobInv, GoodTicks, Ticks, GoodRows, Rows
  <2>2. [job[r] EXCEPT !.lease = "live"] \in GoodRows
    BY <1>1, <1>3, JobRunsAssumption DEF Owned, GoodRows, Rows, RowOK
  <2>3. /\ job' \in [Runs -> GoodRows]
        /\ \A q \in Runs : job[q].status # "absent" => job'[q].status # "absent"
    BY <1>1, <2>1, <2>2 DEF JobInv, GoodRows, Rows
  <2>4. t \in GoodTicks /\ t.run = r
    BY <1>1 DEF GoodTicks, Ticks, TickOK, Taken, Started
  <2>5. tick' \in [Slots -> GoodTicks] /\ Present'
    BY <1>1, <2>1, <2>3, <2>4, SlotMoves, Zenon DEF Taken
  <2>. QED  BY <2>3, <2>5 DEF JobInv
<1>. QED  BY <1>2, <1>3

\* A slot that has started an attempt moves to its next stage, with the report of
\* the execution or its final status where that stage needs one.
LEMMA StageMoves ==
    ASSUME JobInv, NEW s \in Slots, tick[s].pc \in Started, NEW pc \in Started, NEW outcome,
           outcome \in Terminal \cup {"none", "retry_scheduled"},
           tick' = [tick EXCEPT ![s] = [tick[s] EXCEPT !.pc = pc, !.outcome = outcome]],
           pc \in {"report", "persist"} => outcome \in Terminal,
           pc = "finish" => outcome \in Terminal \cup {"retry_scheduled"},
           UNCHANGED job
    PROVE  tick' \in [Slots -> GoodTicks] /\ Present'
<1>. DEFINE t == [tick[s] EXCEPT !.pc = pc, !.outcome = outcome]
<1>1. tick[s] \in GoodTicks  BY DEF JobInv
<1>2. /\ t \in Ticks /\ t.pc = pc /\ t.outcome = outcome
      /\ t.run = tick[s].run /\ t.attempt = tick[s].attempt
  BY <1>1, Zenon DEF GoodTicks, Ticks, Taken
<1>3. tick' = [tick EXCEPT ![s] = t]  OBVIOUS
<1>. HIDE DEF t
<1>4. t \in GoodTicks
  BY <1>1, <1>2 DEF GoodTicks, TickOK, Taken, Started
<1>. QED  BY <1>2, <1>3, <1>4, SlotMoves, Zenon DEF Taken

\* To wait for what was started: no report yet.
LEMMA WaitMoves ==
    ASSUME JobInv, NEW s \in Slots, tick[s].pc = "execute", Go(s, "wait"), UNCHANGED job
    PROVE  tick' \in [Slots -> GoodTicks] /\ Present'
<1>1. tick[s] \in GoodTicks  BY DEF JobInv
<1>2. tick' = [tick EXCEPT ![s] = [tick[s] EXCEPT !.pc = "wait", !.outcome = tick[s].outcome]]
  BY <1>1, Zenon DEF Go, JobInv, GoodTicks, Ticks
<1>3. tick[s].outcome \in Terminal \cup {"none", "retry_scheduled"}
  BY <1>1 DEF GoodTicks, Ticks
<1>. QED  BY <1>2, <1>3, StageMoves, Zenon DEF Started

\* To the report of an execution.
LEMMA ReportMoves ==
    ASSUME JobInv, NEW s \in Slots, tick[s].pc \in {"execute", "wait"}, NEW outcome \in Terminal,
           Reported(s, outcome), UNCHANGED job
    PROVE  tick' \in [Slots -> GoodTicks] /\ Present'
<1>1. tick[s] \in GoodTicks  BY DEF JobInv
<1>2. tick' = [tick EXCEPT ![s] = [tick[s] EXCEPT !.pc = "report", !.outcome = outcome]]
  BY <1>1, Zenon DEF Reported, JobInv, GoodTicks, Ticks
<1>. QED  BY <1>2, StageMoves, Zenon DEF Started

\* The name of a started attempt's Job is one of the names.
LEMMA NameOfStarted ==
    ASSUME JobInv, NEW s \in Slots, tick[s].pc \in Started
    PROVE  /\ NameOf(s) \in Names
           /\ kube[NameOf(s)] \in Kubes
           /\ LabelsOf(s) \in Labels
BY DEF JobInv, NameOf, LabelsOf, Names, Labels, GoodTicks, TickOK, Taken

\* Starting the execution: a Job is created or found, a child process started.
LEMMA ExecuteKeeps ==
    ASSUME JobInv, NEW s \in Slots, CreateJob(s) \/ StartProcess(s)
    PROVE  JobInv'
<1>1. CASE CreateJob(s)
  <2>1. tick[s].pc = "execute" /\ tick[s].pc \in Started /\ UNCHANGED job
    BY <1>1 DEF CreateJob, At, Started
  <2>2. kube' \in [Names -> Kubes]
    <3>1. CASE UNCHANGED kube
      BY <3>1 DEF JobInv
    <3>2. CASE kube' = [kube EXCEPT ![NameOf(s)] =
                            [st |-> "active", labels |-> LabelsOf(s), old |-> FALSE]]
      <4>1. [st |-> "active", labels |-> LabelsOf(s), old |-> FALSE] \in Kubes
        BY <2>1, NameOfStarted DEF Kubes
      <4>. QED  BY <3>2, <4>1, Zenon DEF JobInv
    <3>. QED  BY <1>1, <3>1, <3>2 DEF CreateJob
  <2>3. EndTick(s, "error") \/ Go(s, "wait")
    BY <1>1 DEF CreateJob
  <2>4. tick' \in [Slots -> GoodTicks] /\ Present'
    BY <2>1, <2>3, SlotEnds, WaitMoves
  <2>. QED  BY <1>1, <2>2, <2>4 DEF JobInv, CreateJob
<1>2. CASE StartProcess(s)
  <2>1. tick[s].pc = "execute" /\ UNCHANGED job /\ UNCHANGED kube
    BY <1>2 DEF StartProcess, At
  <2>2. EndTick(s, "error") \/ Go(s, "wait") \/ Reported(s, "cancelled")
    BY <1>2 DEF StartProcess
  <2>3. tick' \in [Slots -> GoodTicks] /\ Present'
    BY <2>1, <2>2, SlotEnds, WaitMoves, ReportMoves DEF Terminal
  <2>. QED  BY <2>1, <2>3 DEF JobInv
<1>. QED  BY <1>1, <1>2

\* What a Job's status, or a child's exit, is reported as.
LEMMA OutcomesEnd ==
    /\ \A st \in {"active", "succeeded", "failed", "deadline"}, late \in BOOLEAN :
           JobOutcome(st, late) # "waiting" => JobOutcome(st, late) \in Terminal
    /\ \A install, command \in {"succeeded", "failed"} : ProcessReport(install, command) \in Terminal
BY DEF JobOutcome, ProcessReport, Terminal

\* Waiting for the execution: a report, or the tick ends.
LEMMA PollKeeps ==
    ASSUME JobInv, NEW s \in Slots, PollJob(s) \/ PollProcess(s)
    PROVE  JobInv'
<1>1. tick[s].pc = "wait" /\ tick[s].pc \in Started /\ UNCHANGED job
  BY DEF PollJob, PollProcess, At, Started
<1>2. kube' \in [Names -> Kubes]
  <2>1. UNCHANGED kube \/ kube' = [kube EXCEPT ![NameOf(s)] = NoJob]
    BY DEF PollJob, PollProcess
  <2>2. NoJob \in Kubes  BY DEF NoJob, Kubes, Labels
  <2>. QED  BY <2>1, <2>2 DEF JobInv
<1>3. EndTick(s, "error") \/ \E outcome \in Terminal : Reported(s, outcome)
  <2>1. CASE PollJob(s)
    <3>1. CASE EndTick(s, "error") \/ Reported(s, "cancelled")
      BY <3>1 DEF Terminal
    <3>2. CASE /\ kube[NameOf(s)].st # "absent"
               /\ \E late \in BOOLEAN :
                      /\ JobOutcome(kube[NameOf(s)].st, late) # "waiting"
                      /\ Reported(s, JobOutcome(kube[NameOf(s)].st, late))
      <4>1. kube[NameOf(s)].st \in {"active", "succeeded", "failed", "deadline"}
        BY <1>1, <3>2, NameOfStarted DEF Kubes
      <4>. QED  BY <3>2, <4>1, OutcomesEnd
    <3>. QED  BY <2>1, <3>1, <3>2 DEF PollJob
  <2>2. CASE PollProcess(s)
    <3>1. CASE EndTick(s, "error") \/ Reported(s, "cancelled")
      BY <3>1 DEF Terminal
    <3>2. CASE \E install, command \in {"succeeded", "failed"} :
                   Reported(s, ProcessReport(install, command))
      BY <3>2, OutcomesEnd
    <3>. QED  BY <2>2, <3>1, <3>2 DEF PollProcess
  <2>. QED  BY <2>1, <2>2
<1>4. tick' \in [Slots -> GoodTicks] /\ Present'
  BY <1>1, <1>3, SlotEnds, ReportMoves
<1>. QED  BY <1>1, <1>2, <1>4 DEF JobInv

\* The retry decision turns an ending into an ending or a scheduled retry.
LEMMA FinalStatusType ==
    ASSUME NEW r, NEW attempt, NEW outcome \in Terminal, NEW rejected \in BOOLEAN
    PROVE  FinalStatus(r, attempt, outcome, rejected) \in Terminal \cup {"retry_scheduled"}
BY DEF FinalStatus, RetryDecision, Terminal

\* Persisting the report settles the final status.
LEMMA PersistKeeps ==
    ASSUME JobInv, NEW s \in Slots, PersistReport(s)
    PROVE  /\ JobInv'
           /\ \E final \in Terminal \cup {"retry_scheduled"} :
                  tick' = [tick EXCEPT ![s] = [tick[s] EXCEPT !.pc = "finish", !.outcome = final]]
<1>1. tick[s].pc = "persist" /\ tick[s] \in GoodTicks /\ UNCHANGED job /\ UNCHANGED kube
  BY DEF PersistReport, At, JobInv
<1>2. tick[s].outcome \in Terminal
  BY <1>1 DEF GoodTicks, TickOK
<1>3. PICK unkept \in BOOLEAN :
          tick' = [tick EXCEPT ![s].pc = "finish",
                               ![s].outcome = FinalStatus(tick[s].run, tick[s].attempt,
                                                          tick[s].outcome, unkept)]
  BY Zenon DEF PersistReport
<1>. DEFINE final == FinalStatus(tick[s].run, tick[s].attempt, tick[s].outcome, unkept)
<1>4. final \in Terminal \cup {"retry_scheduled"}
  BY <1>2, FinalStatusType, Zenon
<1>5. tick' = [tick EXCEPT ![s].pc = "finish", ![s].outcome = final]
  BY <1>3
<1>. HIDE DEF final
<1>6. tick' = [tick EXCEPT ![s] = [tick[s] EXCEPT !.pc = "finish", !.outcome = final]]
  BY <1>1, <1>5, Zenon DEF JobInv, GoodTicks, Ticks
<1>7. tick' \in [Slots -> GoodTicks] /\ Present'
  BY <1>1, <1>4, <1>6, StageMoves, Zenon DEF Started
<1>. QED  BY <1>1, <1>4, <1>6, <1>7, Zenon DEF JobInv

\* The guarded write of a finished attempt: the row is nobody's afterwards.
LEMMA FinishedRow ==
    ASSUME NEW row \in GoodRows, NEW outcome \in Terminal \cup {"retry_scheduled"}
    PROVE  [row EXCEPT !.status = outcome, !.owner = NoWorker, !.lease = "none",
                       !.retry = IF outcome = "retry_scheduled" THEN "waiting" ELSE "none"]
               \in GoodRows
<1>. DEFINE retry == IF outcome = "retry_scheduled" THEN "waiting" ELSE "none"
            new   == [row EXCEPT !.status = outcome, !.owner = NoWorker, !.lease = "none", !.retry = retry]
<1>1. /\ retry \in {"none", "waiting", "ready"}
      /\ retry # "none" => outcome = "retry_scheduled"
  OBVIOUS
<1>. HIDE DEF retry
<1>2. new \in Rows /\ new.status = outcome /\ new.owner = NoWorker /\ new.lease = "none" /\ new.retry = retry
  BY <1>1, Zenon DEF GoodRows, Rows, Statuses
<1>. HIDE DEF new
<1>3. RowOK(new)  BY <1>1, <1>2 DEF RowOK, Terminal
<1>4. new \in GoodRows  BY <1>2, <1>3 DEF GoodRows
<1>. QED  BY <1>4 DEF new, retry

\* The last statement of a tick writes its verdict and clears the lease columns.
LEMMA FinishKeeps ==
    ASSUME JobInv, NEW s \in Slots, FinishRunningAttempt(s)
    PROVE  JobInv'
<1>. DEFINE r   == tick[s].run
            row == [job[r] EXCEPT !.status = tick[s].outcome, !.owner = NoWorker, !.lease = "none",
                                  !.retry = IF tick[s].outcome = "retry_scheduled" THEN "waiting" ELSE "none"]
<1>1. /\ r \in Runs /\ job[r] \in GoodRows
      /\ tick[s].outcome \in Terminal \cup {"retry_scheduled"}
  BY DEF JobInv, FinishRunningAttempt, At, GoodTicks, TickOK, Taken, Started
<1>2. row \in GoodRows  BY <1>1, FinishedRow, Zenon
<1>3. row.status # "absent"  BY <1>1 DEF GoodRows, Rows, Terminal
<1>4. job' = job \/ job' = [job EXCEPT ![r] = row]
  BY DEF FinishRunningAttempt
<1>. HIDE DEF row
<1>5. /\ job' \in [Runs -> GoodRows]
      /\ \A q \in Runs : job[q].status # "absent" => job'[q].status # "absent"
  BY <1>1, <1>2, <1>3, <1>4 DEF JobInv
<1>6. EndTick(s, "finished") /\ UNCHANGED kube
  BY DEF FinishRunningAttempt
<1>7. \A q \in Slots : tick'[q].pc \in Taken => tick[q].pc \in Taken /\ tick'[q].run = tick[q].run
  BY <1>6, EndTickGood DEF Ready, Taken, Started
<1>8. Present'  BY <1>5, <1>6, <1>7, EndTickGood, PresenceKept
<1>. QED  BY <1>5, <1>6, <1>8, EndTickGood DEF JobInv

\* The steps that only end ticks, or touch none.
LEMMA TicksDropped ==
    ASSUME JobInv, tick' \in [Slots -> GoodTicks], UNCHANGED job, kube' \in [Names -> Kubes],
           \A q \in Slots : tick'[q] = tick[q] \/ tick'[q] = Ready
    PROVE  JobInv'
<1>1. \A q \in Slots : tick'[q].pc \in Taken => tick[q].pc \in Taken /\ tick'[q].run = tick[q].run
  BY DEF Ready, Taken, Started
<1>. QED  BY <1>1, PresenceKept DEF JobInv

\* A call of a tick fails, or a worker process drains, stops or starts again.
LEMMA LifeStepsKeep ==
    ASSUME JobInv,
           \/ \E s \in Slots : CallFails(s) \/ LeaseNothing(s)
           \/ \E w \in Workers : DrainReturns(w) \/ Shutdown(w) \/ Restart(w)
    PROVE  JobInv'
<1>1. ASSUME NEW s \in Slots, CallFails(s) \/ LeaseNothing(s)  PROVE JobInv'
  <2>1. (EndTick(s, "error") \/ EndTick(s, "no_run")) /\ UNCHANGED <<job, kube>>
    BY <1>1 DEF CallFails, LeaseNothing
  <2>. QED  BY <2>1, EndTickGood, TicksDropped DEF JobInv
<1>2. ASSUME NEW w \in Workers, DrainReturns(w) \/ Shutdown(w)  PROVE JobInv'
  BY <1>2, TicksDropped, Zenon DEF DrainReturns, Shutdown, JobInv
<1>3. ASSUME NEW w \in Workers, Restart(w)  PROVE JobInv'
  BY <1>3, TicksDropped, ReadyIsGood DEF Restart, JobInv
<1>. QED  BY <1>1, <1>2, <1>3

\* The Jobs change by themselves, or the reconciler deletes some.
LEMMA KubeStepsKeep ==
    ASSUME JobInv, SweepList \/ SweepDelete \/ \E n \in Names : JobEnds(n) \/ JobAges(n) \/ JobEvicted(n)
    PROVE  JobInv'
<1>1. UNCHANGED <<job, tick>>
  BY DEF SweepList, SweepDelete, JobEnds, JobAges, JobEvicted
<1>2. NoJob \in Kubes  BY DEF NoJob, Kubes, Labels
<1>3. kube' \in [Names -> Kubes]
  <2>1. CASE SweepList  BY <2>1 DEF SweepList, JobInv
  <2>2. CASE SweepDelete  BY <2>2, <1>2 DEF SweepDelete, JobInv
  <2>3. ASSUME NEW n \in Names, JobEnds(n)  PROVE kube' \in [Names -> Kubes]
    <3>1. PICK st \in {"succeeded", "failed", "deadline"} : kube' = [kube EXCEPT ![n].st = st]
      BY <2>3, Zenon DEF JobEnds, WrapperExit
    <3>. QED  BY <3>1 DEF JobInv, Kubes
  <2>4. ASSUME NEW n \in Names, JobAges(n)  PROVE kube' \in [Names -> Kubes]
    BY <2>4, Zenon DEF JobAges, JobInv, Kubes
  <2>5. ASSUME NEW n \in Names, JobEvicted(n)  PROVE kube' \in [Names -> Kubes]
    BY <2>5, <1>2 DEF JobEvicted, JobInv
  <2>. QED  BY <2>1, <2>2, <2>3, <2>4, <2>5
<1>. QED  BY <1>1, <1>3 DEF JobInv, Present

\* One row changes, under the ticks that work on it.
LEMMA RowChanges ==
    ASSUME JobInv, NEW r \in Runs, NEW row \in GoodRows, row.status # "absent",
           job' = [job EXCEPT ![r] = row], UNCHANGED <<tick, kube>>
    PROVE  JobInv'
<1>1. job' \in [Runs -> GoodRows] /\ \A q \in Runs : job[q].status # "absent" => job'[q].status # "absent"
  BY DEF JobInv
<1>. QED  BY <1>1, PresenceKept DEF JobInv

\* The API and the clock touch one row.
LEMMA TableStepsKeep ==
    ASSUME JobInv, NEW r \in Runs, CreateRun(r) \/ CancelRun(r) \/ LeaseExpires(r) \/ RetryFallsDue(r)
    PROVE  JobInv'
<1>1. job[r] \in GoodRows /\ UNCHANGED <<tick, kube>>
  BY DEF JobInv, CreateRun, CancelRun, LeaseExpires, RetryFallsDue
<1>2. CASE CreateRun(r)
  <2>. DEFINE row == [job[r] EXCEPT !.status = "queued"]
  <2>1. job' = [job EXCEPT ![r] = row]  BY <1>1, <1>2 DEF CreateRun, JobInv, GoodRows, Rows
  <2>2. /\ row \in Rows /\ row.status = "queued" /\ row.lease = job[r].lease
        /\ row.owner = job[r].owner /\ row.retry = job[r].retry
    BY <1>1 DEF GoodRows, Rows, Statuses
  <2>. HIDE DEF row
  <2>3. job[r].lease = "none" /\ job[r].owner = NoWorker /\ job[r].retry = "none"
    BY <1>1, <1>2 DEF CreateRun, GoodRows, RowOK, Leased
  <2>4. row \in GoodRows  BY <2>2, <2>3 DEF GoodRows, RowOK
  <2>. QED  BY <1>1, <2>1, <2>2, <2>4, RowChanges, Zenon
<1>3. CASE CancelRun(r)
  <2>. DEFINE row == [job[r] EXCEPT !.status = "cancelled", !.owner = NoWorker, !.lease = "none", !.retry = "none"]
  <2>1. job' = [job EXCEPT ![r] = row]  BY <1>3 DEF CancelRun
  <2>2. /\ row \in Rows /\ row.status = "cancelled" /\ row.lease = "none"
        /\ row.owner = NoWorker /\ row.retry = "none"
    BY <1>1, Zenon DEF GoodRows, Rows, Statuses, Terminal
  <2>. HIDE DEF row
  <2>3. row \in GoodRows  BY <2>2 DEF GoodRows, RowOK
  <2>. QED  BY <1>1, <2>1, <2>2, <2>3, RowChanges, Zenon
<1>4. CASE LeaseExpires(r)
  <2>. DEFINE row == [job[r] EXCEPT !.lease = "expired"]
  <2>1. job' = [job EXCEPT ![r] = row]  BY <1>1, <1>4 DEF LeaseExpires, JobInv, GoodRows, Rows
  <2>2. /\ row \in Rows /\ row.lease = "expired" /\ row.status = job[r].status
        /\ row.owner = job[r].owner /\ row.retry = job[r].retry /\ row.attempt = job[r].attempt
    BY <1>1 DEF GoodRows, Rows
  <2>. HIDE DEF row
  <2>3. row \in GoodRows /\ row.status # "absent"
    BY <1>1, <1>4, <2>2 DEF LeaseExpires, GoodRows, RowOK, Leased
  <2>. QED  BY <1>1, <2>1, <2>3, RowChanges, Zenon
<1>5. CASE RetryFallsDue(r)
  <2>. DEFINE row == [job[r] EXCEPT !.retry = "ready"]
  <2>1. job' = [job EXCEPT ![r] = row]  BY <1>1, <1>5 DEF RetryFallsDue, JobInv, GoodRows, Rows
  <2>2. /\ row \in Rows /\ row.retry = "ready" /\ row.status = job[r].status
        /\ row.owner = job[r].owner /\ row.lease = job[r].lease /\ row.attempt = job[r].attempt
    BY <1>1 DEF GoodRows, Rows
  <2>. HIDE DEF row
  <2>3. row \in GoodRows /\ row.status # "absent"
    BY <1>1, <1>5, <2>2 DEF RetryFallsDue, GoodRows, RowOK
  <2>. QED  BY <1>1, <2>1, <2>3, RowChanges, Zenon
<1>. QED  BY <1>2, <1>3, <1>4, <1>5

\* Every step of a tick.
LEMMA TickKeeps ==
    ASSUME JobInv, NEW s \in Slots, TickStep(s)
    PROVE  JobInv'
<1>1. CASE HeartbeatRun(s)
  BY <1>1, BeatKeeps DEF HeartbeatRun, At, Started
<1>2. CASE HeartbeatTask(s)
  BY <1>2, BeatKeeps DEF HeartbeatTask, At, Started
<1>3. CASE FinalHeartbeat(s)
  BY <1>3, BeatKeeps DEF FinalHeartbeat, At, Started
<1>4. CASE LeaseNothing(s)
  BY <1>4, LifeStepsKeep
<1>. QED
  BY <1>1, <1>2, <1>3, <1>4, RecoverKeeps, PromoteKeeps, SnapshotKeeps, LeaseKeeps, SaveKeeps,
     ExecuteKeeps, PollKeeps, PersistKeeps, FinishKeeps, Zenon DEF TickStep

\* Every step keeps the invariant.
LEMMA NextKeeps == JobInv /\ [Next]_vars => JobInv'
<1>. SUFFICES ASSUME JobInv, [Next]_vars PROVE JobInv'  OBVIOUS
<1>1. CASE UNCHANGED vars
  BY <1>1 DEF vars, JobInv, Present
<1>2. CASE Next
  BY <1>2, TickKeeps, LifeStepsKeep, KubeStepsKeep, TableStepsKeep DEF Next
<1>. QED  BY <1>1, <1>2

\* The invariant holds of every behaviour of the queue and its workers, with any
\* number of runs, workers and slots and whatever expires, fails or crashes.
THEOREM JobInvariant == Spec => []JobInv
BY InitJobInv, NextKeeps, PTL DEF Spec

\* A waiting or ended run is nobody's, and an owned run has a lease: the lease
\* columns of job_runs agree with the status after any sequence of recoveries,
\* leases, saves, heartbeats, finishes and cancellations.
THEOREM LeaseColumnsHold == Spec => []LeaseColumns
<1>1. JobInv => LeaseColumns
  BY DEF JobInv, GoodRows, RowOK, LeaseColumns
<1>. QED  BY <1>1, JobInvariant, PTL
-----------------------------------------------------------------------------
(***************************************************************************)
(* Artifacts.  What is stored is stored by PersistReport, from what the    *)
(* runner collected: of a log that was cut short, never the last line.     *)
(***************************************************************************)
StoredInv == DOMAIN stored = Runs /\ StoredArtifactsWhole

\* The domain's name check drops artifacts and adds none.
LEMMA PersistedIsCollected ==
    ASSUME NEW r, NEW collected
    PROVE  PersistedUpTo(r, collected) \subseteq collected
BY DEF PersistedUpTo

\* A marker the log limit cut short is not collected: only pods are read through a
\* limited log, and split_artifact_markers skips its last line.
LEMMA CutIsNotCollected ==
    ASSUME NEW r \in Runs, NEW cut \in (IF Reattaches THEN BOOLEAN ELSE {FALSE}), cut
    PROVE  Len(Job[r].output) \notin Collected(r, cut)
BY Zenon DEF Collected, SplitArtifactMarkers

\* One report is persisted.
LEMMA PersistStoresWhole ==
    ASSUME JobInv, StoredInv, NEW s \in Slots, PersistReport(s)
    PROVE  StoredInv'
<1>. DEFINE r == tick[s].run
<1>1. r \in Runs
  BY DEF JobInv, PersistReport, At, GoodTicks, TickOK, Taken, Started
<1>2. PICK cut \in (IF Reattaches THEN BOOLEAN ELSE {FALSE}) :
          LET collected == IF tick[s].outcome = "cancelled" THEN {} ELSE Collected(r, cut)
          IN stored' = StoreArtifacts(r, PersistedUpTo(r, collected), cut)
  BY Zenon DEF PersistReport
<1>. DEFINE collected == IF tick[s].outcome = "cancelled" THEN {} ELSE Collected(r, cut)
            kept      == PersistedUpTo(r, collected)
<1>3. stored' = StoreArtifacts(r, kept, cut)  BY <1>2, Zenon
<1>4. cut => Len(Job[r].output) \notin kept
  BY <1>1, CutIsNotCollected, PersistedIsCollected, Zenon
<1>. HIDE DEF kept
<1>5. DOMAIN stored' = Runs  BY <1>3 DEF StoreArtifacts, StoredInv
<1>6. ASSUME NEW q \in Runs, NEW i \in DOMAIN stored'[q]  PROVE stored'[q][i] # "partial"
  <2>1. CASE q # r  BY <2>1, <1>3, <1>6 DEF StoreArtifacts, StoredInv, StoredArtifactsWhole
  <2>2. CASE q = r
    <3>1. stored'[r] = [k \in DOMAIN stored[r] |->
                          IF k \in kept
                          THEN IF cut /\ k = Len(Job[r].output) THEN "partial" ELSE "whole"
                          ELSE stored[r][k]]
      BY <1>1, <1>3, Zenon DEF StoreArtifacts, StoredInv
    <3>. QED  BY <2>2, <3>1, <1>1, <1>4, <1>6 DEF StoredInv, StoredArtifactsWhole
  <2>. QED  BY <2>1, <2>2
<1>. QED  BY <1>5, <1>6 DEF StoredInv, StoredArtifactsWhole

\* Every artifact a Kubernetes attempt leaves in storage is complete, whatever the
\* output, its size limits and the artifacts earlier attempts stored
\* (internal.rs split_artifact_markers).
THEOREM ArtifactsAreWhole == Spec => []StoredArtifactsWhole
<1>1. Init => StoredInv
  BY DEF Init, StoredInv, StoredArtifactsWhole
<1>2. JobInv /\ StoredInv /\ [Next]_vars => StoredInv'
  <2>. SUFFICES ASSUME JobInv, StoredInv, [Next]_vars PROVE StoredInv'  OBVIOUS
  <2>1. CASE UNCHANGED stored  BY <2>1 DEF StoredInv, StoredArtifactsWhole
  <2>2. CASE \E s \in Slots : PersistReport(s)  BY <2>2, PersistStoresWhole
  <2>3. UNCHANGED stored \/ \E s \in Slots : PersistReport(s)
    BY Zenon DEF vars, Next, TickStep, CallFails, DrainReturns, Shutdown, Restart, SweepList, SweepDelete,
           CreateRun, CancelRun, LeaseExpires, RetryFallsDue, JobEnds, JobAges, JobEvicted,
           RecoverExpiredLeases, PromoteReadyRetries, LeaseSnapshot, LeaseNextQueuedRun, LeaseNothing,
           SaveRun, HeartbeatRun, CreateJob, StartProcess, HeartbeatTask, PollJob, PollProcess,
           FinalHeartbeat, FinishRunningAttempt
  <2>. QED  BY <2>1, <2>2, <2>3
<1>3. StoredInv => StoredArtifactsWhole  BY DEF StoredInv
<1>. QED  BY <1>1, <1>2, <1>3, JobInvariant, PTL DEF Spec

(***************************************************************************)
(* The queue and its workers implement JobLifecycle: a row's phase is its  *)
(* status, and the verdicts held are those of ticks that have yet to write *)
(* one.                                                                    *)
(***************************************************************************)

\* Ticks that are not at their last statement, before and after, hold no verdict.
LEMMA HeldSame ==
    ASSUME \A q \in Slots : tick'[q] = tick[q] \/ (tick[q].pc # "finish" /\ tick'[q].pc # "finish")
    PROVE  HeldVerdicts' = HeldVerdicts
BY DEF HeldVerdicts, At

\* A tick that ends takes its verdict with it.
LEMMA HeldShrinks ==
    ASSUME \A q \in Slots : tick'[q] = tick[q] \/ tick'[q].pc # "finish"
    PROVE  HeldVerdicts' \subseteq HeldVerdicts
BY DEF HeldVerdicts, At

\* A step that moves no phase, no attempt and no verdict is a stuttering step.
LEMMA Stutters ==
    ASSUME \A r \in Runs : PhaseOf(job'[r]) = PhaseOf(job[r]) /\ job'[r].attempt = job[r].attempt,
           HeldVerdicts' = HeldVerdicts
    PROVE  UNCHANGED Lifecycle!lifecycle
BY DEF Lifecycle!lifecycle, PhaseOf, Leased

\* One that only loses verdicts is a Drop.
LEMMA Drops ==
    ASSUME \A r \in Runs : PhaseOf(job'[r]) = PhaseOf(job[r]) /\ job'[r].attempt = job[r].attempt,
           HeldVerdicts' \subseteq HeldVerdicts
    PROVE  Lifecycle!LifecycleNext
BY DEF Lifecycle!LifecycleNext, Lifecycle!Drop, PhaseOf, Leased

\* A tick that is not at its last statement ends, or moves on to another one.
LEMMA HeldBySlot ==
    ASSUME JobInv, NEW s \in Slots, tick[s].pc # "finish",
           \/ \E result : EndTick(s, result)
           \/ \E pc \in Started \ {"finish"} : Go(s, pc)
           \/ \E outcome : Reported(s, outcome)
           \/ PromoteReadyRetries(s)
           \/ LeaseSnapshot(s)
           \/ RecoverExpiredLeases(s)
    PROVE  HeldVerdicts' = HeldVerdicts
<1>1. tick \in [Slots -> Ticks]  BY DEF JobInv, GoodTicks
<1>2. \A q \in Slots : q # s => tick'[q] = tick[q]
  BY <1>1, Zenon DEF EndTick, Go, Reported, PromoteReadyRetries, LeaseSnapshot, RecoverExpiredLeases
<1>3. tick'[s].pc # "finish"
  <2>1. CASE \E result : EndTick(s, result)  BY <1>1, <2>1 DEF EndTick, Ready
  <2>2. CASE \E pc \in Started \ {"finish"} : Go(s, pc)  BY <1>1, <2>2 DEF Go, Ticks
  <2>3. CASE \E outcome : Reported(s, outcome)  BY <1>1, <2>3, Zenon DEF Reported, Ticks
  <2>4. CASE PromoteReadyRetries(s)  BY <1>1, <2>4, Zenon DEF PromoteReadyRetries, Go, Ticks
  <2>5. CASE LeaseSnapshot(s)  BY <1>1, <2>5 DEF LeaseSnapshot, Ticks
  <2>6. CASE RecoverExpiredLeases(s)  BY <1>1, <2>6, Zenon DEF RecoverExpiredLeases, Go, Ticks
  <2>. QED  BY <2>1, <2>2, <2>3, <2>4, <2>5, <2>6
<1>. QED  BY <1>2, <1>3, HeldSame

\* Recovery puts back several active runs at once.
LEMMA RecoverPutsBack ==
    ASSUME JobInv, NEW s \in Slots, RecoverExpiredLeases(s)
    PROVE  Lifecycle!LifecycleNext
<1>. DEFINE back == {r \in Runs : Recoverable(job[r])}
<1>1. HeldVerdicts' = HeldVerdicts
  BY HeldBySlot, Zenon DEF RecoverExpiredLeases, At
<1>2. \A r \in Runs : job[r] \in Rows
  BY DEF JobInv, GoodRows
<1>3. \A r \in back : PhaseOf(job[r]) = "active"
  BY DEF Recoverable, PhaseOf, Leased
<1>4. ASSUME NEW r \in Runs
      PROVE  /\ PhaseOf(job'[r]) = IF r \in back THEN "waiting" ELSE PhaseOf(job[r])
             /\ job'[r].attempt = job[r].attempt
  <2>1. CASE r \in back
    <3>1. job'[r] = [job[r] EXCEPT !.status = "queued", !.owner = NoWorker, !.lease = "none"]
      BY <2>1, Zenon DEF RecoverExpiredLeases
    <3>2. job'[r].status = "queued" /\ job'[r].attempt = job[r].attempt
      BY <1>2, <3>1 DEF Rows
    <3>. QED  BY <2>1, <3>2 DEF PhaseOf
  <2>2. CASE r \notin back
    BY <2>2, Zenon DEF RecoverExpiredLeases
  <2>. QED  BY <2>1, <2>2
<1>. HIDE DEF back
<1>5. back \in SUBSET {j \in Runs : [r \in Runs |-> PhaseOf(job[r])][j] = "active"}
  BY <1>3 DEF back
<1>6. Lifecycle!PutBack
  BY <1>1, <1>4, <1>5 DEF Lifecycle!PutBack
<1>. QED  BY <1>6 DEF Lifecycle!LifecycleNext

\* Promotion moves no phase: a scheduled retry and a queued run both wait.
LEMMA PromoteStutters ==
    ASSUME JobInv, NEW s \in Slots, PromoteReadyRetries(s)
    PROVE  UNCHANGED Lifecycle!lifecycle
<1>1. HeldVerdicts' = HeldVerdicts
  BY HeldBySlot, Zenon DEF PromoteReadyRetries, At
<1>2. ASSUME NEW r \in Runs
      PROVE  PhaseOf(job'[r]) = PhaseOf(job[r]) /\ job'[r].attempt = job[r].attempt
  <2>1. job[r] \in Rows  BY DEF JobInv, GoodRows
  <2>2. CASE job[r].status = "retry_scheduled" /\ job[r].retry = "ready"
    <3>1. job'[r] = [job[r] EXCEPT !.status = "queued", !.retry = "none"]
      BY <2>2, Zenon DEF PromoteReadyRetries
    <3>2. job'[r].status = "queued" /\ job'[r].attempt = job[r].attempt
      BY <2>1, <3>1 DEF Rows
    <3>. QED  BY <2>2, <3>2 DEF PhaseOf
  <2>3. CASE ~(job[r].status = "retry_scheduled" /\ job[r].retry = "ready")
    BY <2>3, Zenon DEF PromoteReadyRetries
  <2>. QED  BY <2>2, <2>3
<1>. QED  BY <1>1, <1>2, Stutters

\* So do a snapshot, an empty search, heartbeats and everything that happens to an
\* execution: they touch a lease at most.
LEMMA ExecutionStutters ==
    ASSUME JobInv, NEW s \in Slots,
           \/ LeaseSnapshot(s) \/ LeaseNothing(s)
           \/ HeartbeatRun(s) \/ HeartbeatTask(s) \/ FinalHeartbeat(s)
           \/ CreateJob(s) \/ StartProcess(s) \/ PollJob(s) \/ PollProcess(s)
    PROVE  UNCHANGED Lifecycle!lifecycle
<1>1. tick[s].pc # "finish"
  BY DEF LeaseSnapshot, LeaseNothing, HeartbeatRun, HeartbeatTask, FinalHeartbeat, CreateJob,
         StartProcess, PollJob, PollProcess, At
<1>2. \/ LeaseSnapshot(s)
      \/ \E result : EndTick(s, result)
      \/ \E pc \in Started \ {"finish"} : Go(s, pc)
      \/ \E outcome : Reported(s, outcome)
  <2>1. CASE LeaseSnapshot(s) \/ LeaseNothing(s)  BY <2>1 DEF LeaseNothing
  <2>2. CASE HeartbeatRun(s) \/ HeartbeatTask(s) \/ FinalHeartbeat(s)
    BY <2>2 DEF HeartbeatRun, HeartbeatTask, FinalHeartbeat, Beat, Started
  <2>3. CASE CreateJob(s) \/ StartProcess(s)
    BY <2>3 DEF CreateJob, StartProcess, Started
  <2>4. CASE PollJob(s) \/ PollProcess(s)
    BY <2>4, Zenon DEF PollJob, PollProcess
  <2>. QED  BY <2>1, <2>2, <2>3, <2>4
<1>3. HeldVerdicts' = HeldVerdicts
  BY <1>1, <1>2, HeldBySlot, Zenon
<1>4. job' = job \/ job' = [job EXCEPT ![tick[s].run].lease = "live"]
  BY DEF LeaseSnapshot, LeaseNothing, HeartbeatRun, HeartbeatTask, FinalHeartbeat, Beat, CreateJob,
         StartProcess, PollJob, PollProcess
<1>5. ASSUME NEW r \in Runs
      PROVE  job'[r].status = job[r].status /\ job'[r].attempt = job[r].attempt
  <2>1. job[r] \in Rows /\ job \in [Runs -> GoodRows]  BY DEF JobInv, GoodRows
  <2>. QED  BY <1>4, <2>1 DEF Rows
<1>6. \A r \in Runs : PhaseOf(job'[r]) = PhaseOf(job[r])
  BY <1>5 DEF PhaseOf
<1>. QED  BY <1>3, <1>5, <1>6, Stutters

\* How the phase function changes when one run's phase does.
LEMMA OnePhase ==
    ASSUME NEW r \in Runs, NEW p, PhaseOf(job'[r]) = p,
           \A q \in Runs : q # r => job'[q] = job[q]
    PROVE  [q \in Runs |-> PhaseOf(job'[q])] = [[q \in Runs |-> PhaseOf(job[q])] EXCEPT ![r] = p]
BY Zenon DEF PhaseOf, Leased

\* Leasing a queued run is Take; adopting a running one moves nothing.
LEMMA LeaseTakes ==
    ASSUME JobInv, NEW s \in Slots, LeaseNextQueuedRun(s)
    PROVE  Lifecycle!LifecycleNext \/ UNCHANGED Lifecycle!lifecycle
<1>1. PICK r \in Claimable(s), skipped \in SUBSET {q \in Slots \ {s} : At(q, "leasing")} :
          /\ job' = [job EXCEPT ![r].status = IF @ = "running" THEN "running" ELSE "leased",
                                ![r].owner = WorkerOf[s], ![r].lease = "live"]
          /\ tick' = [q \in Slots |->
                        IF q = s THEN [tick[s] EXCEPT !.pc = "save", !.run = r, !.snap = <<>>,
                                                      !.attempt = job[r].attempt,
                                                      !.fresh = job[r].status # "running"]
                        ELSE IF q \in skipped THEN Ready ELSE tick[q]]
  BY Zenon DEF LeaseNextQueuedRun
<1>2. r \in Runs /\ job[r].status \in {"queued", "running"}
  BY DEF LeaseNextQueuedRun, At, Claimable, Leasable, JobInv, GoodTicks, TickOK, Snapshots
<1>3. job \in [Runs -> Rows] /\ tick \in [Slots -> Ticks]
  BY DEF JobInv, GoodRows, GoodTicks
<1>4. HeldVerdicts' = HeldVerdicts
  <2>1. tick[s].pc = "leasing"  BY DEF LeaseNextQueuedRun, At
  <2>2. tick'[s].pc = "save"  BY <1>1, <1>3, Zenon DEF Ticks
  <2>3. \A q \in skipped : tick[q].pc = "leasing" /\ tick'[q].pc = "idle"
    BY <1>1 DEF Ready, At
  <2>4. \A q \in Slots : q # s /\ q \notin skipped => tick'[q] = tick[q]  BY <1>1
  <2>. QED  BY <2>1, <2>2, <2>3, <2>4, HeldSame
<1>5. /\ \A q \in Runs : q # r => job'[q] = job[q]
      /\ job'[r].status = IF job[r].status = "running" THEN "running" ELSE "leased"
      /\ job'[r].attempt = job[r].attempt
  BY <1>1, <1>2, <1>3 DEF Rows
<1>6. PhaseOf(job'[r]) = "active"  BY <1>5 DEF PhaseOf, Leased
<1>7. CASE job[r].status = "running"
  <2>1. PhaseOf(job[r]) = "active"  BY <1>7 DEF PhaseOf, Leased
  <2>. QED  BY <1>4, <1>5, <1>6, <2>1, Stutters
<1>8. CASE job[r].status = "queued"
  <2>1. PhaseOf(job[r]) = "waiting"  BY <1>8 DEF PhaseOf
  <2>2. [q \in Runs |-> PhaseOf(job'[q])] = [[q \in Runs |-> PhaseOf(job[q])] EXCEPT ![r] = "active"]
    BY <1>2, <1>5, <1>6, OnePhase
  <2>3. [q \in Runs |-> job'[q].attempt] = [q \in Runs |-> job[q].attempt]
    BY <1>2, <1>5
  <2>4. Lifecycle!Take(r)
    BY <1>2, <1>4, <2>1, <2>2, <2>3 DEF Lifecycle!Take
  <2>. QED  BY <1>2, <2>4 DEF Lifecycle!LifecycleNext
<1>. QED  BY <1>2, <1>7, <1>8

\* Saving a started attempt is Start, on whatever the run has become, unless it has
\* ended; an adopted attempt is not saved.
LEMMA SaveStarts ==
    ASSUME JobInv, NEW s \in Slots, SaveRun(s)
    PROVE  Lifecycle!LifecycleNext \/ UNCHANGED Lifecycle!lifecycle
<1>. DEFINE r       == tick[s].run
            number  == IF tick[s].fresh THEN tick[s].attempt + 1 ELSE tick[s].attempt
<1>1. /\ tick[s] \in GoodTicks /\ tick[s].pc = "save"
      /\ r \in Runs /\ job[r] \in GoodRows /\ job[r].status # "absent"
      /\ job \in [Runs -> Rows] /\ tick \in [Slots -> Ticks]
  BY DEF JobInv, SaveRun, At, GoodTicks, GoodRows, TickOK, Present, Taken
<1>2. HeldVerdicts' = HeldVerdicts
  <2>1. tick'[s].pc # "finish"  BY <1>1 DEF SaveRun, EndTick, Ready, Ticks
  <2>2. \A q \in Slots : q # s => tick'[q] = tick[q]  BY <1>1 DEF SaveRun, EndTick
  <2>. QED  BY <1>1, <2>1, <2>2, HeldSame
<1>3. CASE UNCHANGED job
  BY <1>2, <1>3, Stutters
<1>4. CASE ~UNCHANGED job
  <2>1. tick[s].fresh /\ job' = [job EXCEPT ![r] = Saved(job[r], number)]
    BY <1>4 DEF SaveRun
  <2>2. number \in Attempts
    BY <1>1, JobRunsAssumption DEF GoodTicks, Ticks, TickOK, Attempts
  <2>. HIDE DEF number
  <2>3. job[r].status \notin Terminal
    BY <1>1, <1>4, <2>1 DEF Saved
  <2>4. job' = [job EXCEPT ![r] = [job[r] EXCEPT !.status = "running", !.attempt = number]]
    BY <2>1, <2>3 DEF Saved
  <2>5. /\ \A q \in Runs : q # r => job'[q] = job[q]
        /\ job'[r].status = "running" /\ job'[r].attempt = number
    BY <1>1, <2>4 DEF Rows
  <2>6. PhaseOf(job'[r]) = "active"  BY <2>5 DEF PhaseOf, Leased
  <2>7. PhaseOf(job[r]) \in {"waiting", "active"}
    BY <1>1, <2>3 DEF PhaseOf, Leased, Terminal, Rows, Statuses
  <2>8. [q \in Runs |-> PhaseOf(job'[q])] = [[q \in Runs |-> PhaseOf(job[q])] EXCEPT ![r] = "active"]
    BY <1>1, <2>5, <2>6, OnePhase
  <2>9. [q \in Runs |-> job'[q].attempt] = [[q \in Runs |-> job[q].attempt] EXCEPT ![r] = number]
    BY <1>1, <2>5, Zenon
  <2>10. PICK j \in Runs : j = r  BY <1>1
  <2>11. Lifecycle!Start(j)
    BY <1>1, <1>2, <2>2, <2>7, <2>8, <2>9, <2>10, Zenon DEF Lifecycle!Start
  <2>. QED  BY <2>11 DEF Lifecycle!LifecycleNext
<1>. QED  BY <1>3, <1>4

\* Persisting an ending is Report; a retry that will be scheduled is no verdict.
LEMMA PersistReports ==
    ASSUME JobInv, NEW s \in Slots, PersistReport(s)
    PROVE  Lifecycle!LifecycleNext \/ UNCHANGED Lifecycle!lifecycle
<1>1. PICK final \in Terminal \cup {"retry_scheduled"} :
          tick' = [tick EXCEPT ![s] = [tick[s] EXCEPT !.pc = "finish", !.outcome = final]]
  BY PersistKeeps, Zenon
<1>2. /\ tick[s].pc = "persist" /\ tick \in [Slots -> Ticks] /\ UNCHANGED job
      /\ tick[s].run \in Runs /\ tick[s].attempt \in Attempts /\ job[tick[s].run].status # "absent"
  BY DEF PersistReport, At, JobInv, GoodTicks, TickOK, Taken, Started, Present
<1>3. /\ \A q \in Slots : q # s => tick'[q] = tick[q]
      /\ tick'[s].pc = "finish" /\ tick'[s].outcome = final
      /\ tick'[s].run = tick[s].run /\ tick'[s].attempt = tick[s].attempt
  BY <1>1, <1>2 DEF Ticks
<1>4. CASE final \in Terminal
  <2>1. HeldVerdicts' = HeldVerdicts \cup {<<tick[s].run, tick[s].attempt, final>>}
    BY <1>2, <1>3, <1>4 DEF HeldVerdicts, At
  <2>2. PhaseOf(job[tick[s].run]) # "absent"
    BY <1>2 DEF PhaseOf, Leased
  <2>3. final \in Lifecycle!Endings  BY <1>4 DEF Terminal, Lifecycle!Endings
  <2>4. Lifecycle!Report(tick[s].run)
    BY <1>2, <2>1, <2>2, <2>3 DEF Lifecycle!Report
  <2>. QED  BY <1>2, <2>4 DEF Lifecycle!LifecycleNext
<1>5. CASE final = "retry_scheduled"
  <2>1. HeldVerdicts' = HeldVerdicts
    BY <1>2, <1>3, <1>5 DEF HeldVerdicts, At, Terminal
  <2>. QED  BY <1>2, <2>1, Stutters
<1>. QED  BY <1>4, <1>5

\* The guarded write is Finish with the verdict the tick holds, or puts the run back
\* for its retry; a write that matches no row loses the verdict.
LEMMA FinishEnds ==
    ASSUME JobInv, NEW s \in Slots, FinishRunningAttempt(s)
    PROVE  Lifecycle!LifecycleNext
<1>1. PICK r \in Runs, outcome \in Terminal \cup {"retry_scheduled"} :
          r = tick[s].run /\ outcome = tick[s].outcome
  BY DEF JobInv, FinishRunningAttempt, At, GoodTicks, TickOK, Taken, Started
<1>2. job \in [Runs -> Rows] /\ tick \in [Slots -> Ticks]
  BY DEF JobInv, GoodRows, GoodTicks
<1>3. EndTick(s, "finished") /\ tick[s].pc = "finish"
  BY DEF FinishRunningAttempt, At
<1>4. (\A q \in Slots : q # s => tick'[q] = tick[q]) /\ tick'[s].pc = "idle"
  BY <1>2, <1>3 DEF EndTick, Ready
<1>5. HeldVerdicts' \subseteq HeldVerdicts
  BY <1>4, HeldShrinks
<1>6. CASE ~Finishes(s)
  BY <1>5, <1>6, Drops DEF FinishRunningAttempt
<1>7. CASE Finishes(s)
  <2>1. /\ \A q \in Runs : q # r => job'[q] = job[q]
        /\ job'[r].status = outcome /\ job'[r].attempt = job[r].attempt
    BY <1>1, <1>2, <1>7 DEF FinishRunningAttempt, Rows
  <2>2. PhaseOf(job[r]) = "active"
    BY <1>1, <1>7 DEF Finishes, PhaseOf, Leased
  <2>3. [q \in Runs |-> job'[q].attempt] = [q \in Runs |-> job[q].attempt]
    BY <2>1
  <2>4. CASE outcome \in Terminal
    <3>1. PhaseOf(job'[r]) = outcome
      BY <2>1, <2>4 DEF PhaseOf, Leased, Terminal
    <3>2. [q \in Runs |-> PhaseOf(job'[q])] = [[q \in Runs |-> PhaseOf(job[q])] EXCEPT ![r] = outcome]
      BY <2>1, <3>1, OnePhase
    <3>3. <<r, job[r].attempt, outcome>> \in HeldVerdicts
      BY <1>1, <1>3, <1>7, <2>4 DEF HeldVerdicts, At, Finishes
    <3>4. outcome \in Lifecycle!Endings  BY <2>4 DEF Terminal, Lifecycle!Endings
    <3>5. Lifecycle!Finish(r)
      BY <1>5, <2>2, <2>3, <3>2, <3>3, <3>4, Zenon DEF Lifecycle!Finish
    <3>. QED  BY <3>5 DEF Lifecycle!LifecycleNext
  <2>5. CASE outcome = "retry_scheduled"
    <3>1. PhaseOf(job'[r]) = "waiting"
      BY <2>1, <2>5 DEF PhaseOf
    <3>2. HeldVerdicts' = HeldVerdicts
      <4>1. tick[s].outcome \notin Terminal  BY <1>1, <2>5 DEF Terminal
      <4>2. \A q \in Slots : (tick'[q].pc = "finish" /\ tick'[q].outcome \in Terminal)
                                 <=> (tick[q].pc = "finish" /\ tick[q].outcome \in Terminal)
        BY <1>4, <4>1
      <4>3. \A q \in Slots : tick[q].pc = "finish" /\ tick[q].outcome \in Terminal => tick'[q] = tick[q]
        BY <1>4, <4>1
      <4>. QED  BY <4>2, <4>3 DEF HeldVerdicts, At
    <3>3. \A q \in Runs : PhaseOf(job'[q]) = IF q \in {r} THEN "waiting" ELSE PhaseOf(job[q])
      BY <2>1, <3>1
    <3>4. {r} \in SUBSET {j \in Runs : [q \in Runs |-> PhaseOf(job[q])][j] = "active"}
      BY <2>2
    <3>5. Lifecycle!PutBack
      BY <2>3, <3>2, <3>3, <3>4, Zenon DEF Lifecycle!PutBack
    <3>. QED  BY <3>5 DEF Lifecycle!LifecycleNext
  <2>. QED  BY <2>4, <2>5
<1>. QED  BY <1>6, <1>7

\* Failed calls and dead workers drop verdicts; the drain loop's own steps and the
\* Jobs' do nothing.
LEMMA LifeStepsDrop ==
    ASSUME JobInv,
           \/ \E s \in Slots : CallFails(s)
           \/ \E w \in Workers : DrainReturns(w) \/ Shutdown(w) \/ Restart(w)
           \/ SweepList \/ SweepDelete
           \/ \E n \in Names : JobEnds(n) \/ JobAges(n) \/ JobEvicted(n)
    PROVE  Lifecycle!LifecycleNext
<1>1. UNCHANGED job
  BY Zenon DEF CallFails, DrainReturns, Shutdown, Restart, SweepList, SweepDelete, JobEnds, JobAges, JobEvicted
<1>2. \A q \in Slots : tick'[q] = tick[q] \/ tick'[q] = Ready
  <2>1. ASSUME NEW s \in Slots, CallFails(s)
        PROVE  \A q \in Slots : tick'[q] = tick[q] \/ tick'[q] = Ready
    BY <2>1, EndTickGood DEF CallFails
  <2>2. ASSUME NEW w \in Workers, Restart(w)
        PROVE  \A q \in Slots : tick'[q] = tick[q] \/ tick'[q] = Ready
    BY <2>2 DEF Restart
  <2>3. CASE \/ \E w \in Workers : DrainReturns(w) \/ Shutdown(w)
             \/ SweepList \/ SweepDelete
             \/ \E n \in Names : JobEnds(n) \/ JobAges(n) \/ JobEvicted(n)
    BY <2>3, Zenon DEF DrainReturns, Shutdown, SweepList, SweepDelete, JobEnds, JobAges, JobEvicted
  <2>. QED  BY <2>1, <2>2, <2>3
<1>3. HeldVerdicts' \subseteq HeldVerdicts
  BY <1>2, HeldShrinks DEF Ready
<1>. QED  BY <1>1, <1>3, Drops

\* Creating a run is Submit and cancelling one is Cancel; a lease that expires or a
\* retry that falls due moves no phase.
LEMMA TableSteps ==
    ASSUME JobInv, NEW r \in Runs, CreateRun(r) \/ CancelRun(r) \/ LeaseExpires(r) \/ RetryFallsDue(r)
    PROVE  Lifecycle!LifecycleNext \/ UNCHANGED Lifecycle!lifecycle
<1>1. job \in [Runs -> Rows] /\ UNCHANGED tick
  BY DEF JobInv, GoodRows, CreateRun, CancelRun, LeaseExpires, RetryFallsDue
<1>2. HeldVerdicts' = HeldVerdicts
  BY <1>1, HeldSame
<1>3. /\ \A q \in Runs : q # r => job'[q] = job[q]
      /\ job'[r].attempt = job[r].attempt
  BY <1>1, Zenon DEF CreateRun, CancelRun, LeaseExpires, RetryFallsDue, Rows
<1>4. [q \in Runs |-> job'[q].attempt] = [q \in Runs |-> job[q].attempt]
  BY <1>3
<1>5. CASE CreateRun(r)
  <2>1. job[r].status = "absent" /\ job'[r].status = "queued"
    BY <1>1, <1>5 DEF CreateRun, Rows
  <2>2. PhaseOf(job[r]) = "absent" /\ PhaseOf(job'[r]) = "waiting"
    BY <2>1 DEF PhaseOf, Leased
  <2>3. Lifecycle!Submit(r)
    BY <1>2, <1>3, <1>4, <2>2, OnePhase DEF Lifecycle!Submit
  <2>. QED  BY <2>3 DEF Lifecycle!LifecycleNext
<1>6. CASE CancelRun(r)
  <2>1. job[r].status \in {"queued", "leased", "running", "retry_scheduled"} /\ job'[r].status = "cancelled"
    BY <1>1, <1>6 DEF CancelRun, Rows
  <2>2. PhaseOf(job[r]) \in {"waiting", "active"} /\ PhaseOf(job'[r]) = "cancelled"
    BY <2>1 DEF PhaseOf, Leased
  <2>3. Lifecycle!Cancel(r)
    BY <1>2, <1>3, <1>4, <2>2, OnePhase DEF Lifecycle!Cancel
  <2>. QED  BY <2>3 DEF Lifecycle!LifecycleNext
<1>7. CASE LeaseExpires(r) \/ RetryFallsDue(r)
  <2>1. job'[r].status = job[r].status
    BY <1>1, <1>7 DEF LeaseExpires, RetryFallsDue, Rows
  <2>2. PhaseOf(job'[r]) = PhaseOf(job[r])  BY <2>1 DEF PhaseOf
  <2>. QED  BY <1>2, <1>3, <2>2, Stutters
<1>. QED  BY <1>5, <1>6, <1>7

\* Every step of the queue is a step of JobLifecycle or leaves its variables alone.
LEMMA StepImplements ==
    JobInv /\ [Next]_vars => [Lifecycle!LifecycleNext]_Lifecycle!lifecycle
<1>. SUFFICES ASSUME JobInv, [Next]_vars
              PROVE  Lifecycle!LifecycleNext \/ UNCHANGED Lifecycle!lifecycle
  OBVIOUS
<1>1. CASE UNCHANGED vars
  <2>1. UNCHANGED <<job, tick>>  BY <1>1 DEF vars
  <2>. QED  BY <2>1, HeldSame, Stutters
<1>2. ASSUME NEW s \in Slots, TickStep(s)
      PROVE  Lifecycle!LifecycleNext \/ UNCHANGED Lifecycle!lifecycle
  BY <1>2, RecoverPutsBack, PromoteStutters, ExecutionStutters, LeaseTakes, SaveStarts,
     PersistReports, FinishEnds DEF TickStep
<1>. QED  BY <1>1, <1>2, LifeStepsDrop, TableSteps DEF Next

\* The queue implements the lifecycle: with any number of workers, whatever the
\* order of late saves, stale finishes, adoptions, crashes and cancellations, a run
\* that has ended keeps its status for good, and unless it was cancelled that status
\* is one an execution of its recorded attempt returned.
THEOREM QueueImplementsLifecycle == Spec => ImplementsLifecycle
<1>1. Init => Lifecycle!LifecycleInit
  <2>. SUFFICES ASSUME Init PROVE Lifecycle!LifecycleInit  OBVIOUS
  <2>1. \A r \in Runs : PhaseOf(job[r]) = "absent" /\ job[r].attempt = 0
    BY DEF Init, PhaseOf, Leased
  <2>2. HeldVerdicts = {}
    BY DEF Init, HeldVerdicts, At, Ready
  <2>. QED  BY <2>1, <2>2 DEF Lifecycle!LifecycleInit
<1>. QED  BY <1>1, StepImplements, JobInvariant, PTL DEF Spec, ImplementsLifecycle, Lifecycle!LifecycleSpec
=============================================================================
