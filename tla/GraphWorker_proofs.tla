-------------------------- MODULE GraphWorker_proofs --------------------------
(***************************************************************************)
(* The fencing of a run's log, for any number of workers, any worker ids,  *)
(* and any number of leases and events; and that what the graph workers do *)
(* to the row of their run is what RunLease allows, for every definition,  *)
(* inbox, request and number of workers, so that they are fenced too.      *)
(*                                                                         *)
(* From there on, the invariant EffectInv of what the workers have in mind, *)
(* the steps that leave the log alone, and what an event does to the fold. *)
(***************************************************************************)
EXTENDS GraphWorker, Decide_proofs

\* No worker holds an epoch the row has not handed out.
HeldIsPast == \A w \in Workers : held[w] <= epoch

\* The newest event was written under an epoch already handed out, and the
\* worker holding that epoch, if there is one, is the one that wrote it.
AuthorHolds ==
  /\ lastEpoch <= epoch
  /\ \A w \in Workers :
       held[w] # 0 /\ held[w] = lastEpoch => lastBy = w

\* The inductive invariant: OneHolderPerEpoch needs to know that a new epoch
\* is above every held one, FencedAppend needs to know who wrote last.
LeaseInv ==
  /\ LeaseTypeOK
  /\ HeldIsPast
  /\ OneHolderPerEpoch
  /\ FreeMeansUnheld
  /\ AuthorHolds

\* The row create_ir_run writes satisfies the invariant.
LEMMA LeaseInitInv == LeaseInit => LeaseInv
  BY LeaseAssumption
  DEF LeaseInit, LeaseInv, LeaseTypeOK, HeldIsPast, OneHolderPerEpoch,
      FreeMeansUnheld, AuthorHolds, Statuses, Leasable

\* The status trigger only writes statuses.
LEMMA ProjectStatusType ==
  ASSUME NEW was \in Statuses, NEW kind \in EventKinds
  PROVE  ProjectStatus(was, kind) \in Statuses
  BY DEF ProjectStatus, Statuses, Leasable, Terminal

\* Every statement on the row preserves the invariant.
LEMMA LeaseStepInv == LeaseInv /\ [LeaseNext]_leaseVars => LeaseInv'
<1> SUFFICES ASSUME LeaseInv, [LeaseNext]_leaseVars PROVE LeaseInv'
  OBVIOUS
<1> USE LeaseAssumption
  DEF LeaseInv, LeaseTypeOK, HeldIsPast, OneHolderPerEpoch, FreeMeansUnheld,
      AuthorHolds, Current
<1>1. CASE ExpireLease
  BY <1>1 DEF ExpireLease
<1>2. ASSUME NEW w \in Workers, TakeLease(w)
      PROVE  LeaseInv'
  <2>1. /\ held' = [held EXCEPT ![w] = epoch + 1]
        /\ epoch' = epoch + 1
        /\ \A v \in Workers : held[v] < epoch + 1
    BY <1>2 DEF TakeLease
  <2>2. LeaseTypeOK'
    BY <1>2, <2>1 DEF TakeLease
  <2>3. HeldIsPast' /\ OneHolderPerEpoch'
    BY <2>1
  <2>4. FreeMeansUnheld' /\ AuthorHolds'
    BY <1>2, <2>1 DEF TakeLease
  <2> QED BY <2>2, <2>3, <2>4
<1>3. ASSUME NEW w \in Workers, NEW kind \in EventKinds, AppendEvent(w, kind)
      PROVE  LeaseInv'
  <2>1. status' \in Statuses
    BY <1>3, ProjectStatusType DEF AppendEvent, WriteEvent
  <2>2. LeaseTypeOK'
    BY <1>3, <2>1 DEF AppendEvent, WriteEvent
  <2>3. HeldIsPast' /\ OneHolderPerEpoch' /\ FreeMeansUnheld'
    BY <1>3 DEF AppendEvent, WriteEvent
  <2>4. AuthorHolds'
    BY <1>3 DEF AppendEvent, WriteEvent
  <2> QED BY <2>2, <2>3, <2>4
<1>4. ASSUME NEW w \in Workers, ExtendLease(w)
      PROVE  LeaseInv'
  BY <1>4 DEF ExtendLease
<1>5. ASSUME NEW w \in Workers, ReleaseLease(w)
      PROVE  LeaseInv'
  <2>1. /\ held' = [held EXCEPT ![w] = 0]
        /\ UNCHANGED <<status, epoch, position, lastEpoch, lastBy>>
    BY <1>5 DEF ReleaseLease
  <2>2. LeaseTypeOK'
    BY <1>5, <2>1 DEF ReleaseLease
  <2>3. HeldIsPast' /\ OneHolderPerEpoch' /\ AuthorHolds'
    BY <2>1
  <2>4. FreeMeansUnheld'
    <3>1. CASE StillHeld(w)
      BY <2>1, <3>1 DEF StillHeld
    <3>2. CASE ~StillHeld(w)
      BY <1>5, <2>1, <3>2 DEF ReleaseLease
    <3> QED BY <3>1, <3>2
  <2> QED BY <2>2, <2>3, <2>4
<1>6. ASSUME NEW w \in Workers, DropLease(w)
      PROVE  LeaseInv'
  BY <1>6 DEF DropLease, rowVars
<1>7. CASE UNCHANGED leaseVars
  BY <1>7 DEF leaseVars, rowVars
<1> QED BY <1>1, <1>2, <1>3, <1>4, <1>5, <1>6, <1>7 DEF LeaseNext

\* Every reachable state of the row and its workers satisfies the invariant.
THEOREM LeaseInvariant == LeaseSpec => []LeaseInv
  BY LeaseInitInv, LeaseStepInv, PTL DEF LeaseSpec

\* The columns and the workers' epochs keep their types; in particular the
\* status trigger never writes anything but a status.
THEOREM LeaseTypes == LeaseSpec => []LeaseTypeOK
<1>1. LeaseInv => LeaseTypeOK
  BY DEF LeaseInv
<1> QED BY <1>1, LeaseInvariant, PTL

\* Leasing a run never puts two workers under one epoch.
THEOREM OneHolder == LeaseSpec => []OneHolderPerEpoch
<1>1. LeaseInv => OneHolderPerEpoch
  BY DEF LeaseInv
<1> QED BY <1>1, LeaseInvariant, PTL

\* Releasing a lease never leaves a worker that may still write.
THEOREM ReleaseIsSafe == LeaseSpec => []FreeMeansUnheld
<1>1. LeaseInv => FreeMeansUnheld
  BY DEF LeaseInv
<1> QED BY <1>1, LeaseInvariant, PTL

\* Appending is fenced: no superseded worker ever writes to the log, and the
\* events of one epoch have one author.
THEOREM Fencing == LeaseSpec => LogIsFenced
<1>1. LeaseInv /\ [LeaseNext]_leaseVars => [FencedAppend]_leaseVars
  <2> SUFFICES ASSUME LeaseInv, LeaseNext PROVE FencedAppend
    BY DEF leaseVars
  <2> USE DEF LeaseInv, LeaseTypeOK, HeldIsPast, AuthorHolds
  <2>1. CASE ExpireLease
    BY <2>1 DEF ExpireLease, FencedAppend
  <2>2. ASSUME NEW w \in Workers, TakeLease(w) PROVE FencedAppend
    BY <2>2 DEF TakeLease, FencedAppend
  <2>3. ASSUME NEW w \in Workers, NEW kind \in EventKinds, AppendEvent(w, kind)
        PROVE  FencedAppend
    BY <2>3 DEF AppendEvent, WriteEvent, Current, FencedAppend
  <2>4. ASSUME NEW w \in Workers, ExtendLease(w) PROVE FencedAppend
    BY <2>4 DEF ExtendLease, FencedAppend
  <2>5. ASSUME NEW w \in Workers, ReleaseLease(w) PROVE FencedAppend
    BY <2>5 DEF ReleaseLease, FencedAppend
  <2>6. ASSUME NEW w \in Workers, DropLease(w) PROVE FencedAppend
    BY <2>6 DEF DropLease, rowVars, FencedAppend
  <2> QED BY <2>1, <2>2, <2>3, <2>4, <2>5, <2>6 DEF LeaseNext
<1> QED BY <1>1, LeaseInvariant, PTL DEF LeaseSpec, LogIsFenced

(***************************************************************************)
(* The workers take the steps of RunLease.                                 *)
(***************************************************************************)

\* The status trigger tells at most seven kinds of event apart: whatever is
\* appended, some kind of EventKinds moves the row the same way.
LEMMA AnyKindIsAKind ==
  ASSUME NEW w \in Workers, NEW kind, AppendEvent(w, kind)
  PROVE  \E k \in EventKinds : AppendEvent(w, k)
<1>1. CASE kind \in {"started", "node_started", "resumed", "suspended"}
                      \cup Terminal
  <2>1. kind \in EventKinds
    BY <1>1 DEF EventKinds, Terminal
  <2> QED BY <2>1
<1>2. CASE kind \notin {"started", "node_started", "resumed", "suspended"}
                         \cup Terminal
  <2>1. ProjectStatus(status, kind) = status
    BY <1>2 DEF ProjectStatus
  <2>2. ProjectStatus(status, "node_finished") = status
    BY DEF ProjectStatus, Terminal
  <2>3. AppendEvent(w, "node_finished")
    BY <2>1, <2>2 DEF AppendEvent, WriteEvent
  <2> QED BY <2>3 DEF EventKinds
<1> QED BY <1>1, <1>2

\* Every step of a worker, of a client and of the clock is a statement of
\* RunLease or leaves the row alone.
LEMMA StepImplementsLease == [Next]_vars => [LeaseNext]_leaseVars
<1> SUFFICES ASSUME [Next]_vars PROVE [LeaseNext]_leaseVars
  OBVIOUS
<1>1. ASSUME NEW w \in Workers, Advance(w)
      PROVE  [LeaseNext]_leaseVars
  <2>1. CASE LeaseRun(w)
    BY <2>1 DEF LeaseRun, LeaseNext
  <2>2. CASE Fold(w) \/ ReadInbox(w) \/ ConsumeSignal(w) \/ RunNode(w)
               \/ PerformEffect(w) \/ CompensateEffect(w)
    BY <2>2, Zenon DEF Fold, ReadInbox, ConsumeSignal, RunNode, PerformEffect,
                CompensateEffect
  <2>3. CASE AnswerSignal(w)
    <3>1. CASE AppendEvent(w, "resumed")
      BY <3>1 DEF LeaseNext, EventKinds
    <3>2. CASE UNCHANGED leaseVars
      BY <3>2
    <3> QED BY <2>3, <3>1, <3>2 DEF AnswerSignal, Record
  <2>4. CASE AppendStep(w)
    <3>1. CASE DropLease(w)
      BY <3>1 DEF LeaseNext
    <3>2. CASE UNCHANGED leaseVars
      BY <3>2
    <3>3. CASE AppendEvent(w, Head(wk[w].queue).kind)
      BY <3>3, AnyKindIsAKind DEF LeaseNext
    <3> QED BY <2>4, <3>1, <3>2, <3>3 DEF AppendStep, Record
  <2>5. CASE Heartbeat(w)
    BY <2>5 DEF Heartbeat, LeaseNext
  <2>6. CASE Release(w)
    BY <2>6 DEF Release, LeaseNext
  <2> QED BY <1>1, <2>1, <2>2, <2>3, <2>4, <2>5, <2>6 DEF Advance
<1>2. ASSUME NEW w \in Workers, LeaseToRecord(w)
      PROVE  [LeaseNext]_leaseVars
  BY <1>2 DEF LeaseToRecord, LeaseNext
<1>3. ASSUME NEW w \in Workers, Yield(w)
      PROVE  [LeaseNext]_leaseVars
  BY <1>3 DEF Yield
<1>4. ASSUME NEW w \in Workers, Crash(w)
      PROVE  [LeaseNext]_leaseVars
  BY <1>4 DEF Crash, LeaseNext
<1>5. ASSUME NEW signal \in Signals, Deliver(signal)
      PROVE  [LeaseNext]_leaseVars
  BY <1>5 DEF Deliver
<1>6. CASE Expire
  BY <1>6 DEF Expire, LeaseNext
<1>7. CASE Tick
  BY <1>7 DEF Tick
<1>8. CASE UNCHANGED vars
  BY <1>8 DEF vars
<1> QED BY <1>1, <1>2, <1>3, <1>4, <1>5, <1>6, <1>7, <1>8 DEF Next

\* Graph workers advancing a run implement the fenced row.
THEOREM WorkersImplementLease == Spec => LeaseSpec
<1>1. Init => LeaseInit
  BY DEF Init
<1> QED BY <1>1, StepImplementsLease, PTL DEF Spec, LeaseSpec

\* No worker that was superseded, whatever step of its pass it was in, writes
\* another event to the run's log.
THEOREM WorkersAreFenced == Spec => LogIsFenced
  BY WorkersImplementLease, Fencing, PTL

-----------------------------------------------------------------------------
(* The row's projections *)

WaitAfter(s, e) == CASE e.kind = "suspended" -> e.wait
                     [] e.kind = "resumed" -> NoWait
                     [] OTHER -> s.waitingOn

\* What one event does to the fields the row projects, if the log still folds;
\* if it does not, the wait is left alone.
LEMMA ApplyProjects ==
  ASSUME NEW s, NEW e, s = [f \in Fields |-> s[f]]
  PROVE  LET t == Apply(s, e) IN
         /\ t = [f \in Fields |-> t[f]]
         /\ t.ok => /\ s.ok
                    /\ t.status = ProjectStatus(s.status, e.kind)
                    /\ t.waitingOn = WaitAfter(s, e)
         /\ ~t.ok => t.waitingOn = s.waitingOn
<1> DEFINE t == Apply(s, e)
           Recorded == t = [f \in Fields |-> t[f]]
           Still(status_, wait) ==
             /\ t.ok => t.status = status_ /\ t.waitingOn = wait
             /\ ~t.ok => t.waitingOn = s.waitingOn
           Projected == /\ t.ok => /\ t.status = ProjectStatus(s.status, e.kind)
                                   /\ t.waitingOn = WaitAfter(s, e)
                        /\ ~t.ok => t.waitingOn = s.waitingOn
<1> USE DEF Fields, FinalStatuses, Terminal, Unfoldable
<1>1. CASE ~s.ok \/ IsTerminal(s)
  BY <1>1, Zenon DEF Apply
<1> SUFFICES ASSUME s.ok, ~IsTerminal(s) PROVE Recorded /\ Projected
  BY <1>1
<1>2. CASE e.kind = "started"
  <2>1. t = Started(s)
    BY <1>2 DEF Apply
  <2>2. Recorded /\ Still("running", s.waitingOn)
    BY <2>1, Zenon DEF Started
  <2> QED BY <1>2, <2>2 DEF ProjectStatus, WaitAfter
<1>3. CASE e.kind = "node_started"
  <2>1. t = NodeStarted(s, e.node)
    BY <1>3 DEF Apply
  <2>2. Recorded /\ Still("running", s.waitingOn)
    BY <2>1, Zenon DEF NodeStarted
  <2> QED BY <1>3, <2>2 DEF ProjectStatus, WaitAfter
<1>4. CASE e.kind = "suspended"
  <2>1. t = Suspended(s, e.wait)
    BY <1>4 DEF Apply
  <2>2. Recorded /\ Still("waiting", e.wait)
    BY <2>1, Zenon DEF Suspended
  <2> QED BY <1>4, <2>2 DEF ProjectStatus, WaitAfter
<1>5. CASE e.kind = "resumed"
  <2>1. t = Resumed(s)
    BY <1>5 DEF Apply
  <2>2. Recorded /\ Still("running", NoWait)
    BY <2>1, Zenon DEF Resumed
  <2> QED BY <1>5, <2>2 DEF ProjectStatus, WaitAfter
<1>6. CASE e.kind \in Terminal
  <2>1. t = Ended(s, e.kind)
    BY <1>6 DEF Apply
  <2>2. Recorded /\ Still(e.kind, s.waitingOn)
    BY <2>1 DEF Ended
  <2> QED BY <1>6, <2>2 DEF ProjectStatus, WaitAfter
<1>7. CASE e.kind \notin {"started", "node_started", "suspended", "resumed"}
                           \cup Terminal
  <2>1. Recorded /\ Still(s.status, s.waitingOn)
    <3>1. CASE e.kind = "node_finished"
      <4>1. t = NodeFinished(s, e.node, e.control)
        BY <3>1 DEF Apply
      <4> QED BY <4>1, Zenon DEF NodeFinished
    <3>2. CASE e.kind = "node_failed"
      <4>1. t = NodeFailed(s, e.node, e.failure)
        BY <3>2 DEF Apply
      <4> QED BY <4>1, Zenon DEF NodeFailed
    <3>3. CASE e.kind = "effect_claimed"
      <4>1. t = EffectClaimed(s, e.node, e.attempt, e.key)
        BY <3>3 DEF Apply
      <4> QED BY <4>1, Zenon DEF EffectClaimed
    <3>4. CASE e.kind = "effect_finalized"
      <4>1. t = EffectFinalized(s, e.node)
        BY <3>4 DEF Apply
      <4> QED BY <4>1, Zenon DEF EffectFinalized
    <3>5. CASE e.kind = "effect_abandoned"
      BY <3>5 DEF Apply, EffectAbandoned
    <3>6. CASE e.kind = "effect_uncertain"
      <4>1. t = EffectUncertain(s, e.node)
        BY <3>6 DEF Apply
      <4> QED BY <4>1, Zenon DEF EffectUncertain
    <3>7. CASE e.kind = "iteration_started"
      <4>1. t = IterationStarted(s, e.region)
        BY <3>7 DEF Apply
      <4> QED BY <4>1, Zenon DEF IterationStarted
    <3>8. CASE e.kind = "iteration_finished"
      <4>1. t = IterationFinished(s, e.region, e.record)
        BY <3>8 DEF Apply
      <4> QED BY <4>1, Zenon DEF IterationFinished
    <3>9. CASE e.kind = "loop_stopped"
      BY <3>9 DEF Apply, LoopStopped
    <3>10. CASE e.kind = "cancellation_requested"
      BY <3>10, Zenon DEF Apply, CancellationRequested
    <3>11. CASE e.kind = "compensated"
      BY <3>11 DEF Apply, Compensated
    <3>12. CASE e.kind \notin EventKinds
      BY <1>7, <3>12, Zenon DEF Apply, EventKinds
    <3> QED BY <1>7, <3>1, <3>2, <3>3, <3>4, <3>5, <3>6, <3>7, <3>8, <3>9,
               <3>10, <3>11, <3>12 DEF EventKinds
  <2> QED BY <1>7, <2>1 DEF ProjectStatus, WaitAfter
<1> QED BY <1>2, <1>3, <1>4, <1>5, <1>6, <1>7

\* The invariant behind RowAgrees: the fold keeps its fields.
RowInv ==
  /\ st = [f \in Fields |-> st[f]]
  /\ RowAgrees

\* An appended event moves the row and the fold alike.
LEMMA RecordKeepsRow ==
  ASSUME RowInv, NEW w \in Workers, NEW e, Record(w, e)
  PROVE  RowInv'
<1>1. /\ st' = Apply(st, e)
      /\ status' = ProjectStatus(status, e.kind)
      /\ wake' = WakeAfter(e)
  BY DEF Record, AppendEvent, WriteEvent
<1>2. /\ st' = [f \in Fields |-> st'[f]]
      /\ st'.ok => /\ st.ok
                   /\ st'.status = ProjectStatus(st.status, e.kind)
                   /\ st'.waitingOn = WaitAfter(st, e)
  BY <1>1, ApplyProjects DEF RowInv
<1> SUFFICES ASSUME st'.ok
             PROVE  /\ status' = st'.status
                    /\ wake' = IF st'.status = "waiting"
                                    /\ st'.waitingOn.kind = "timer"
                               THEN <<st'.waitingOn.left>> ELSE <<>>
  BY <1>2 DEF RowInv, RowAgrees
<1>3. status' = st'.status
  BY <1>1, <1>2 DEF RowInv, RowAgrees
<1>4. CASE e.kind = "suspended"
  <2>1. st'.status = "waiting" /\ st'.waitingOn = e.wait
    BY <1>2, <1>4 DEF ProjectStatus, WaitAfter, Terminal
  <2>2. wake' = IF e.wait.kind = "timer" THEN <<e.wait.left>> ELSE <<>>
    BY <1>1, <1>4 DEF WakeAfter, Terminal
  <2> QED BY <1>3, <2>1, <2>2
<1>5. CASE e.kind \in {"started", "node_started", "resumed"} \cup Terminal
  <2>1. ProjectStatus(st.status, e.kind) \in {"running"} \cup Terminal
    BY <1>5 DEF ProjectStatus, Terminal
  <2>2. st'.status # "waiting"
    BY <1>2, <2>1 DEF Terminal
  <2>3. wake' = <<>>
    BY <1>1, <1>5 DEF WakeAfter, Terminal
  <2> QED BY <1>3, <2>2, <2>3
<1>6. CASE e.kind \notin {"started", "node_started", "resumed", "suspended"}
                           \cup Terminal
  <2>1. st'.status = st.status /\ st'.waitingOn = st.waitingOn
    BY <1>2, <1>6 DEF ProjectStatus, WaitAfter, Terminal
  <2>2. wake' = wake
    BY <1>1, <1>6 DEF WakeAfter, Terminal
  <2> QED BY <1>2, <1>3, <2>1, <2>2 DEF RowInv, RowAgrees
<1> QED BY <1>4, <1>5, <1>6

\* Time runs down the row's wake time and the fold's timer together.
LEMMA TickKeepsRow == RowInv /\ Tick => RowInv'
<1> SUFFICES ASSUME RowInv, Tick PROVE RowInv'
  OBVIOUS
<1>1. /\ st' = Older(st)
      /\ wake' = IF wake # <<>> /\ wake[1] > 0 THEN <<wake[1] - 1>> ELSE wake
      /\ status' = status
  BY DEF Tick, leaseVars, rowVars
<1>2. /\ st' = [f \in Fields |-> st'[f]]
      /\ st'.ok = st.ok
      /\ st'.status = st.status
      /\ st'.waitingOn =
           IF st.waitingOn.kind = "timer" /\ st.waitingOn.left > 0
           THEN Timer(st.waitingOn.left - 1) ELSE st.waitingOn
  BY <1>1, Zenon DEF Older, RowInv, Fields
<1>3. CASE st.ok /\ st.status = "waiting" /\ st.waitingOn.kind = "timer"
  <2>1. wake = <<st.waitingOn.left>>
    BY <1>3 DEF RowInv, RowAgrees
  <2>2. /\ st'.waitingOn.kind = "timer"
        /\ wake' = <<st'.waitingOn.left>>
    BY <1>1, <1>2, <1>3, <2>1 DEF Timer
  <2> QED BY <1>1, <1>2, <1>3, <2>2 DEF RowInv, RowAgrees
<1>4. CASE ~(st.status = "waiting" /\ st.waitingOn.kind = "timer")
  <2>1. ~(st'.status = "waiting" /\ st'.waitingOn.kind = "timer")
    BY <1>2, <1>4
  <2> QED BY <1>1, <1>2, <1>4, <2>1 DEF RowInv, RowAgrees
<1>5. CASE ~st.ok
  BY <1>2, <1>5 DEF RowInv, RowAgrees
<1> QED BY <1>3, <1>4, <1>5

\* Every other step leaves the columns and the fold alone.
LEMMA StepKeepsRow == RowInv /\ [Next]_vars => RowInv'
<1> SUFFICES ASSUME RowInv, [Next]_vars PROVE RowInv'
  OBVIOUS
<1>1. ASSUME UNCHANGED <<st, status, wake>> PROVE RowInv'
  BY <1>1 DEF RowInv, RowAgrees
<1>2. ASSUME NEW w \in Workers, Advance(w) PROVE RowInv'
  <2>1. CASE AnswerSignal(w)
    <3>1. CASE Record(w, [kind |-> "resumed"])
      BY <3>1, RecordKeepsRow
    <3>2. CASE UNCHANGED <<leaseVars, st, wake>>
      BY <3>2, <1>1 DEF leaseVars, rowVars
    <3> QED BY <2>1, <3>1, <3>2 DEF AnswerSignal
  <2>2. CASE AppendStep(w)
    <3>1. CASE Record(w, Head(wk[w].queue))
      BY <3>1, RecordKeepsRow
    <3>2. CASE (DropLease(w) \/ UNCHANGED leaseVars) /\ UNCHANGED <<st, wake>>
      BY <3>2, <1>1 DEF DropLease, leaseVars, rowVars
    <3> QED BY <2>2, <3>1, <3>2 DEF AppendStep
  <2>3. CASE LeaseRun(w) \/ Heartbeat(w) \/ Release(w)
    BY <2>3, <1>1 DEF LeaseRun, Heartbeat, Release, TakeLease, ExtendLease,
                      DropLease, ReleaseLease, rowVars, runVars
  <2>4. CASE Fold(w) \/ ReadInbox(w) \/ ConsumeSignal(w) \/ RunNode(w)
               \/ PerformEffect(w) \/ CompensateEffect(w)
    <3>1. UNCHANGED <<leaseVars, st, wake>>
      BY <2>4, Zenon DEF Fold, ReadInbox, ConsumeSignal, RunNode, PerformEffect,
                  CompensateEffect, runVars
    <3> QED BY <3>1, <1>1 DEF leaseVars, rowVars
  <2> QED BY <1>2, <2>1, <2>2, <2>3, <2>4 DEF Advance
<1>3. ASSUME NEW w \in Workers, LeaseToRecord(w) \/ Yield(w) \/ Crash(w)
      PROVE  RowInv'
  BY <1>1, <1>3 DEF LeaseToRecord, Yield, Crash, TakeLease, DropLease,
                    leaseVars, rowVars, runVars
<1>4. ASSUME NEW signal \in Signals, Deliver(signal) PROVE RowInv'
  BY <1>1, <1>4 DEF Deliver, leaseVars, rowVars
<1>5. CASE Expire
  BY <1>1, <1>5 DEF Expire, ExpireLease, runVars
<1>6. CASE Tick
  BY <1>6, TickKeepsRow
<1>7. CASE UNCHANGED vars
  BY <1>1, <1>7 DEF vars, leaseVars, rowVars, runVars
<1> QED BY <1>2, <1>3, <1>4, <1>5, <1>6, <1>7 DEF Next

\* An admitted run's row agrees with its admission event.
LEMMA InitRow == Init => RowInv
<1> SUFFICES ASSUME Init PROVE RowInv
  OBVIOUS
<1>1. st = [f \in Fields |-> st[f]]
  BY Zenon DEF Init, Admitted, Fields
<1>2. st.status = "queued"
  BY Zenon DEF Init, Admitted
<1> QED BY <1>1, <1>2 DEF Init, LeaseInit, RowInv, RowAgrees

\* As long as a run's log folds, the status and the wake time the trigger
\* projects from it are those of the fold, whatever the definition, the
\* requests, the signals and the interleaving of the workers.
THEOREM RowIsTheFold == Spec => []RowAgrees
<1>1. RowInv => RowAgrees
  BY DEF RowInv
<1> QED BY <1>1, InitRow, StepKeepsRow, PTL DEF Spec

-----------------------------------------------------------------------------
(* Readings *)

\* The invariant behind ReadingsAreFresh: in an iteration or outside one, a
\* node that has not finished offers no reading.
Unread(s) ==
  /\ DOMAIN s.control = Nodes
  /\ \A n \in Nodes \ s.finished : s.control[n] = NoControl

\* An event leaves a reading only with the node's end, and takes the node's
\* end back only together with its reading.
LEMMA ApplyKeepsUnread ==
  ASSUME NEW s, NEW e, Shaped(s), Unread(s)
  PROVE  Unread(Apply(s, e))
<1> DEFINE t == Apply(s, e)
<1>1. CASE t.control = s.control /\ t.finished = s.finished
  BY <1>1 DEF Unread
<1>2. CASE ~s.ok \/ IsTerminal(s)
  <2>1. t = Unfoldable(s)
    BY <1>2 DEF Apply
  <2> QED BY <1>1, <2>1, Zenon DEF Unfoldable, Shaped, Fields
<1>3. CASE s.ok /\ ~IsTerminal(s) /\ e.kind = "node_finished"
  <2>1. t = NodeFinished(s, e.node, e.control)
    BY <1>3 DEF Apply, FinalStatuses
  <2>2. CASE e.node \notin s.running
    <3>1. t = Unfoldable(s)
      BY <2>1, <2>2 DEF NodeFinished
    <3> QED BY <1>1, <3>1, Zenon DEF Unfoldable, Shaped, Fields
  <2>3. CASE e.node \in s.running
    <3> DEFINE reading == [port \in DOMAIN s.control[e.node] |->
                             IF e.control[port] = <<>> THEN s.control[e.node][port]
                             ELSE e.control[port]]
    <3>1. /\ t.finished = s.finished \cup {e.node}
          /\ t.control = [s.control EXCEPT ![e.node] = reading]
      BY <2>1, <2>3, Zenon DEF NodeFinished, Shaped, Fields
    <3> HIDE DEF reading
    <3> QED BY <3>1 DEF Unread
  <2> QED BY <2>2, <2>3
<1>4. CASE s.ok /\ ~IsTerminal(s) /\ e.kind = "iteration_started"
  <2>1. t = IterationStarted(s, e.region)
    BY <1>4 DEF Apply, FinalStatuses
  <2>2. CASE s.loops[e.region].started > s.loops[e.region].finished
    <3>1. t = Unfoldable(s)
      BY <2>1, <2>2 DEF IterationStarted
    <3> QED BY <1>1, <3>1, Zenon DEF Unfoldable, Shaped, Fields
  <2>3. CASE ~(s.loops[e.region].started > s.loops[e.region].finished)
    <3> DEFINE members == Def.members[e.region]
    <3>1. /\ t.finished = s.finished \ members
          /\ t.control = [n \in Nodes |-> IF n \in members THEN NoControl ELSE s.control[n]]
      BY <2>1, <2>3, Zenon DEF IterationStarted, Shaped, Fields
    <3> QED BY <3>1 DEF Unread
  <2> QED BY <2>2, <2>3
<1>5. CASE /\ s.ok /\ ~IsTerminal(s)
           /\ e.kind \notin {"node_finished", "iteration_started"}
  <2> SUFFICES t.control = s.control /\ t.finished = s.finished
    BY <1>1
  <2> USE DEF Shaped, Fields
  <2>1. CASE e.kind \in {"started", "node_started", "node_failed"}
    <3>1. \/ t = Started(s) \/ t = NodeStarted(s, e.node)
          \/ t = NodeFailed(s, e.node, e.failure)
      BY <1>5, <2>1 DEF Apply, FinalStatuses
    <3> QED BY <3>1, Zenon DEF Started, NodeStarted, NodeFailed, Unfoldable
  <2>2. CASE e.kind \in EffectKinds
    <3>1. \/ t = EffectClaimed(s, e.node, e.attempt, e.key)
          \/ t = EffectFinalized(s, e.node)
          \/ t = EffectAbandoned(s, e.node) \/ t = EffectUncertain(s, e.node)
      BY <1>5, <2>2 DEF Apply, EffectKinds, FinalStatuses
    <3> QED BY <3>1, Zenon DEF EffectClaimed, EffectFinalized, EffectAbandoned,
                               EffectUncertain, Unfoldable
  <2>3. CASE e.kind \in {"iteration_finished", "loop_stopped"}
    <3>1. \/ t = IterationFinished(s, e.region, e.record)
          \/ t = LoopStopped(s, e.region, e.reason)
      BY <1>5, <2>3 DEF Apply, FinalStatuses
    <3> QED BY <3>1, Zenon DEF IterationFinished, LoopStopped, Unfoldable
  <2>4. CASE e.kind \in {"suspended", "resumed", "cancellation_requested",
                         "compensated"} \cup FinalStatuses
    <3>1. \/ t = Suspended(s, e.wait) \/ t = Resumed(s)
          \/ t = CancellationRequested(s) \/ t = Compensated(s, e.node)
          \/ t = Ended(s, e.kind)
      BY <1>5, <2>4, Zenon DEF Apply, FinalStatuses
    <3> QED BY <3>1, Zenon DEF Suspended, Resumed, CancellationRequested,
                               Compensated, Ended, Unfoldable
  <2>5. CASE e.kind \notin EffectKinds \cup PlainKinds
    <3>1. t = Unfoldable(s)
      BY <1>5, <2>5 DEF Apply, EffectKinds, PlainKinds, LoopKinds, FinalStatuses
    <3> QED BY <3>1, Zenon DEF Unfoldable
  <2> QED BY <1>5, <2>1, <2>2, <2>3, <2>4, <2>5 DEF PlainKinds, LoopKinds
<1> QED BY <1>2, <1>3, <1>4, <1>5

\* The fold moves by an event or by time alone.
LEMMA FoldSteps ==
  ASSUME [Next]_vars
  PROVE  UNCHANGED st \/ st' = Older(st) \/ \E e : st' = Apply(st, e)
<1>1. ASSUME NEW w \in Workers, Advance(w)
      PROVE  UNCHANGED st \/ \E e : st' = Apply(st, e)
  <2>1. ASSUME NEW e, Record(w, e) PROVE \E x : st' = Apply(st, x)
    BY <2>1 DEF Record
  <2>2. CASE AnswerSignal(w)
    BY <2>1, <2>2, Zenon DEF AnswerSignal
  <2>3. CASE AppendStep(w)
    BY <2>1, <2>3, Zenon DEF AppendStep
  <2>4. CASE ~AnswerSignal(w) /\ ~AppendStep(w)
    BY <1>1, <2>4, Zenon DEF Advance, LeaseRun, Fold, ReadInbox, ConsumeSignal, RunNode,
                PerformEffect, CompensateEffect, Heartbeat, Release, runVars
  <2> QED BY <2>2, <2>3, <2>4
<1>2. ASSUME NEW w \in Workers, LeaseToRecord(w) \/ Yield(w) \/ Crash(w)
      PROVE  UNCHANGED st
  BY <1>2 DEF LeaseToRecord, Yield, Crash, runVars
<1>3. CASE \/ Expire \/ UNCHANGED vars
           \/ \E signal \in Signals : Deliver(signal)
  BY <1>3, Zenon DEF Expire, Deliver, vars, runVars
<1>4. CASE Tick
  BY <1>4 DEF Tick
<1> QED BY <1>1, <1>2, <1>3, <1>4 DEF Next

\* While an iteration is open no member that has not finished in it offers a
\* reading, for every definition, whatever its routes restart and however many
\* workers, crashes and takeovers an iteration spans (RunState::apply).
THEOREM ReadingsStayFresh == Spec => []ReadingsAreFresh
<1> DEFINE Inv == RowInv /\ Unread(st)
<1>1. Init => Inv
  <2> SUFFICES ASSUME Init PROVE Inv
    OBVIOUS
  <2>1. RowInv
    BY InitRow
  <2>2. st.control = [n \in Nodes |-> NoControl]
    BY Zenon DEF Init, Admitted
  <2> QED BY <2>1, <2>2 DEF Unread
<1>2. Inv /\ [Next]_vars => Inv'
  <2> SUFFICES ASSUME Inv, [Next]_vars PROVE Inv'
    OBVIOUS
  <2>1. RowInv'
    BY StepKeepsRow
  <2>2. CASE UNCHANGED st
    BY <2>1, <2>2 DEF Unread
  <2>3. CASE st' = Older(st)
    <3>1. st'.control = st.control /\ st'.finished = st.finished
      BY <2>3, Zenon DEF Older, RowInv, Fields
    <3> QED BY <2>1, <3>1 DEF Unread
  <2>4. ASSUME NEW e, st' = Apply(st, e) PROVE Inv'
    <3>1. Unread(Apply(st, e))
      BY ApplyKeepsUnread DEF RowInv, Shaped
    <3> QED BY <2>1, <2>4, <3>1 DEF Unread
  <2> QED BY <2>2, <2>3, <2>4, FoldSteps
<1>3. Inv => ReadingsAreFresh
  BY DefAssumption, Zenon DEF Unread, ReadingsAreFresh
<1> QED BY <1>1, <1>2, <1>3, PTL DEF Spec

-----------------------------------------------------------------------------
(***************************************************************************)
(* What a worker of a run remembers between two of its steps, and that the *)
(* steps that leave the log alone keep it true: for every definition, every *)
(* number of workers, every inbox and however many crashes and lost leases. *)
(*                                                                         *)
(* Only the worker that holds the row's epoch writes to the log, so what it *)
(* folded is still the log when it writes: everything it has decided, opened *)
(* or is about to record still fits the fold (Fits).  A worker that was    *)
(* replaced can no longer write, but one that was replaced while it was    *)
(* calling the executor may still make its effect take place (Asked); what *)
(* the log says of that effect must already allow for it (Charged).        *)
(***************************************************************************)

\* A worker inside Executor::perform_effect for n, or about to call it.
AsksFor(me, n) ==
  me.pc = "execute" /\ me.plan.do = "perform" /\ me.plan.node = n

Asked(n) == \E w \in Workers : AsksFor(wk[w], n)

\* What a worker's plan is compared with: the fold, the ledger's rows, and of
\* the world outside what was refused, what happened, whether undoing failed
\* and what is being asked for.
View == [s |-> st, rows |-> DOMAIN ledger, refused |-> world.refused,
         did |-> world.did, stuck |-> world.stuck,
         asked |-> {n \in Effects : Asked(n)}]

\* Some worker was refused n; if n must not be repeated, it has not taken
\* place and nobody is asking for it.
Refused(x, n) ==
  /\ n \in x.refused
  /\ Def.idem[n] = "non_idempotent" => x.did[n] = 0 /\ n \notin x.asked

\* What is true of the run when its holder is about to record e.
EventFits(x, e) ==
  /\ e.kind = "node_started" => e.node \in Nat
  /\ e.kind = "effect_claimed" =>
       /\ Writable(x.s)
       /\ e.node \in Effects /\ e.attempt \in Nat /\ e.key = FreshKey(e.node, 0)
       /\ NewEffect(x.s, e.node) \/ RepeatedEffect(x.s, e.node)
  /\ e.kind = "effect_finalized" =>
       /\ Writable(x.s) /\ e.node \in Effects /\ HasClaim(x.s, e.node)
       /\ RowOf(e) \in x.rows
  /\ e.kind = "effect_abandoned" =>
       /\ Writable(x.s) /\ e.node \in Effects /\ HasClaim(x.s, e.node)
       /\ Refused(x, e.node)
  /\ e.kind = "effect_uncertain" =>
       Writable(x.s) /\ e.node \in Effects /\ HasClaim(x.s, e.node)
  /\ e.kind \in {"iteration_started", "iteration_finished", "loop_stopped"} =>
       e.region \in Regions
  /\ e.kind = "suspended" => e.wait.kind # "none"
  /\ e.kind = "resumed" =>
       x.s.waitingOn.kind = "timer" /\ x.s.waitingOn.left = 0
  /\ e.kind = "compensated" => NextUndone(x.s, e.node)
  /\ e.kind = "cancelled" => NothingOwed(x.s)
  /\ e.kind = "failed" =>
       x.s.outstanding = <<>> /\ (Owed(x.s) = {} \/ x.stuck)
  /\ e.kind = "completed" => AllDone(x.s)

\* The events a worker has ready are those of one of its plans.
OpeningFits(x, me) ==
  \/ /\ me.plan.do = "start_node" /\ me.plan.node \in Nat
     /\ me.queue = <<NodeEvent("node_started", me.plan.node)>>
  \/ /\ me.plan.do = "perform" /\ EventFits(x, Claim(me.plan))
     /\ \/ me.queue = <<Claim(me.plan)>>
        \/ /\ me.queue = <<NodeEvent("node_started", me.plan.node),
                           Claim(me.plan)>>
           /\ me.plan.node \notin x.s.running

ExecuteFits(x, me) ==
  \/ me.plan.do = "start_node"
  \/ /\ me.plan.do = "perform"
     /\ EventFits(x, EffectEvent("effect_finalized", me.plan))
  \/ me.plan.do = "compensate" /\ NextUndone(x.s, me.plan.node)

ClosingFits(x, me) ==
  LET e == me.queue[1]
      f == me.queue[2]
  IN
  /\ EventFits(x, e)
  /\ \/ me.queue = <<e>>
     \/ /\ me.queue = <<e, f>>
        /\ e.kind \in {"effect_finalized", "effect_abandoned"}
        /\ f.kind \in {"node_finished", "node_failed"}

Stage(x, me) ==
  /\ me.pc = "opening" => OpeningFits(x, me)
  /\ me.pc = "execute" => ExecuteFits(x, me)
  /\ me.pc = "closing" => ClosingFits(x, me)

\* The wait a worker read is the one the log is in, though a timer may have
\* run down since.
WaitFits(x, me) ==
  \/ me.wait = x.s.waitingOn
  \/ /\ me.wait.kind = "timer" /\ x.s.waitingOn.kind = "timer"
     /\ me.wait.left # 0

Undecided(me) == me.pc = "inbox" \/ (me.pc = "answer" /\ ~me.resumed)

\* What the holder of the lease is doing fits the log.
Fits(x, me) ==
  /\ Stage(x, me)
  /\ Undecided(me) => Stage(x, CarryOut(me.plan)) /\ WaitFits(x, me)
  /\ me.pc = "consume" => me.resumed

\* A row of ir_run_signals.
Mail == {[kind |-> m.kind, subject |-> m.subject,
          authorities |-> m.authorities, outcome |-> o, resumes |-> r] :
           m \in Signals, o \in {"pending", "refused", "resumed"}, r \in Nat}

MemoryFields == {"pc", "plan", "queue", "wait", "todo", "resumed"}

\* A worker's memory, whether it still holds the lease or not.
Remembers(me, mail) ==
  /\ me = [f \in MemoryFields |-> me[f]]
  /\ me.todo \subseteq mail
  /\ me.pc \in {"answer", "consume"} => me.todo # {}
  /\ me.plan.do = "perform" =>
       /\ me.plan.node \in Effects /\ me.plan.attempt \in Nat
       /\ me.plan.key = FreshKey(me.plan.node, 0)

Holds(w) == held[w] # 0 /\ held[w] = epoch

WorkInv ==
  /\ wk = [w \in Workers |-> wk[w]]
  /\ asks \subseteq Requests
  /\ inbox \in Seq(Mail)
  /\ \A w \in Workers :
       /\ Remembers(wk[w], DOMAIN inbox)
       /\ wk[w].pc # "idle" => held[w] # 0
       /\ Holds(w) => Fits(View, wk[w])

-----------------------------------------------------------------------------

\* What the executor's side is made of.
WorldOK ==
  /\ world = [f \in {"did", "keys", "undone", "refused", "stuck"} |-> world[f]]
  /\ world.did \in [Effects -> Nat]
  /\ world.keys = [n \in Effects |-> world.keys[n]]

OnLog(s, n) == n \in s.completed \/ HasClaim(s, n) \/ InDoubt(s, n)

\* An effect that took place, or that some worker may still make take place,
\* is on the log or was refused; one that must not be repeated is on the log,
\* and has not both happened and somebody left to ask for it.
Charged(n) ==
  /\ world.did[n] > 0 \/ Asked(n) => n \in world.refused \/ OnLog(st, n)
  /\ Def.idem[n] = "non_idempotent" =>
       /\ world.did[n] > 0 \/ Asked(n) => OnLog(st, n)
       /\ \A v, w \in Workers : AsksFor(wk[v], n) /\ AsksFor(wk[w], n) => v = w
       /\ Asked(n) => world.did[n] = 0
       /\ world.did[n] <= 1
  /\ Def.idem[n] = "keyed" =>
       \/ world.did[n] = 0
       \/ world.did[n] = 1 /\ FreshKey(n, 0) \in world.keys[n]

\* The part of the invariant that is about effects.
EffectsSafe ==
  /\ FoldOK(st)
  /\ WorldOK
  /\ \A n \in Effects : Charged(n)
  /\ LedgerFinalizes
  /\ EndsSettled

\* The inductive invariant.
EffectInv ==
  /\ LeaseInv
  /\ RowInv
  /\ WorkInv
  /\ EffectsSafe

-----------------------------------------------------------------------------
(* What stays true while the log does not change *)

\* t is s, some time later.
Later(s, t) ==
  /\ t.ok = s.ok /\ t.status = s.status
  /\ t.running = s.running /\ t.finished = s.finished
  /\ t.outstanding = s.outstanding /\ t.completed = s.completed
  /\ t.finalized = s.finalized /\ t.uncertain = s.uncertain
  /\ t.compensated = s.compensated /\ t.cancel = s.cancel
  /\ \A r \in Regions : t.loops[r].stopped = s.loops[r].stopped
  /\ \/ t.waitingOn = s.waitingOn
     \/ /\ s.waitingOn.kind = "timer" /\ t.waitingOn.kind = "timer"
        /\ s.waitingOn.left # 0

\* From x to y the log was not written, no effect was asked for that was not
\* asked for before, and only what was asked for took place.
LogUntouched(x, y) ==
  /\ Later(x.s, y.s)
  /\ x.rows = y.rows
  /\ x.refused \subseteq y.refused
  /\ x.stuck => y.stuck
  /\ y.asked \subseteq x.asked
  /\ \A n \in Effects \ x.asked : y.did[n] = x.did[n]

\* An event that fitted the log still fits it while nobody writes to it.
LEMMA EventStillFits ==
  ASSUME NEW x, NEW y, NEW e, LogUntouched(x, y), EventFits(x, e)
  PROVE  EventFits(y, e)
<1> USE DEF LogUntouched, Later
<1>1. /\ Writable(y.s) = Writable(x.s)
      /\ Owed(y.s) = Owed(x.s)
      /\ \A n : HasClaim(y.s, n) = HasClaim(x.s, n)
  BY DEF Writable, IsTerminal, Owed, HasClaim
<1>2. \A n : /\ NewEffect(x.s, n) => NewEffect(y.s, n)
             /\ RepeatedEffect(x.s, n) => RepeatedEffect(y.s, n)
             /\ NextUndone(x.s, n) => NextUndone(y.s, n)
  BY <1>1 DEF NewEffect, RepeatedEffect, NextUndone
<1>3. /\ NothingOwed(x.s) => NothingOwed(y.s)
      /\ AllDone(x.s) => AllDone(y.s)
  BY <1>1 DEF NothingOwed, AllDone
<1>4. \A n \in Effects : Refused(x, n) => Refused(y, n)
  BY DEF Refused
<1> HIDE DEF LogUntouched, Later
<1>5. /\ x.rows = y.rows
      /\ y.s.outstanding = x.s.outstanding
      /\ x.stuck => y.stuck
      /\ x.s.waitingOn.kind = "timer" /\ x.s.waitingOn.left = 0 =>
           y.s.waitingOn = x.s.waitingOn
  BY DEF LogUntouched, Later
<1> QED BY <1>1, <1>2, <1>3, <1>4, <1>5, Zenon DEF EventFits

\* So does everything else a worker has decided on.
LEMMA StillFits ==
  ASSUME NEW x, NEW y, NEW me, LogUntouched(x, y), Fits(x, me)
  PROVE  Fits(y, me)
<1>1. ASSUME NEW m, Stage(x, m) PROVE Stage(y, m)
  <2>1. OpeningFits(x, m) => OpeningFits(y, m)
    <3>1. y.s.running = x.s.running
      BY DEF LogUntouched, Later
    <3> QED BY <3>1, EventStillFits DEF OpeningFits
  <2>2. ExecuteFits(x, m) => ExecuteFits(y, m)
    <3>1. NextUndone(x.s, m.plan.node) => NextUndone(y.s, m.plan.node)
      BY DEF LogUntouched, Later, NextUndone, Owed
    <3> QED BY <3>1, EventStillFits DEF ExecuteFits
  <2>3. ClosingFits(x, m) => ClosingFits(y, m)
    BY EventStillFits DEF ClosingFits
  <2> QED BY <1>1, <2>1, <2>2, <2>3 DEF Stage
<1>2. WaitFits(x, me) => WaitFits(y, me)
  BY DEF LogUntouched, Later, WaitFits
<1> QED BY <1>1, <1>2 DEF Fits

\* A worker that moves without writing to the log, and without asking for an
\* effect, leaves what everybody else is doing fitting.
LEMMA WorkKept ==
  ASSUME WorkInv, NEW w \in Workers, NEW me,
         wk' = [wk EXCEPT ![w] = me],
         LogUntouched(View, View'),
         asks' \subseteq asks, inbox' \in Seq(Mail),
         DOMAIN inbox \subseteq DOMAIN inbox',
         Remembers(me, DOMAIN inbox'),
         me.pc # "idle" => held'[w] # 0,
         Holds(w)' => Fits(View', me),
         \A v \in Workers \ {w} :
           held'[v] = held[v] /\ (Holds(v)' => Holds(v))
  PROVE  WorkInv'
<1>1. wk' = [v \in Workers |-> wk'[v]] /\ asks' \subseteq Requests
  BY DEF WorkInv
<1>2. ASSUME NEW v \in Workers
      PROVE  /\ Remembers(wk'[v], DOMAIN inbox')
             /\ wk'[v].pc # "idle" => held'[v] # 0
             /\ Holds(v)' => Fits(View', wk'[v])
  <2>1. CASE v = w
    <3>1. wk'[v] = me
      BY <2>1 DEF WorkInv
    <3> QED BY <2>1, <3>1
  <2>2. CASE v # w
    <3>1. wk'[v] = wk[v]
      BY <2>2 DEF WorkInv
    <3>2. Remembers(wk[v], DOMAIN inbox')
      BY DEF WorkInv, Remembers
    <3>3. Holds(v)' => Fits(View, wk[v])
      BY <2>2 DEF WorkInv
    <3>4. Holds(v)' => Fits(View', wk[v])
      BY <3>3, StillFits
    <3> QED BY <2>2, <3>1, <3>2, <3>4 DEF WorkInv
  <2> QED BY <2>1, <2>2
<1> QED BY <1>1, <1>2 DEF WorkInv

\* Where the log, the ledger and the world stay as they are and nobody starts
\* asking, effects stay accounted for.
LEMMA SafeKept ==
  ASSUME EffectsSafe, UNCHANGED <<st, ledger, world>>,
         \A v \in Workers, n \in Effects :
           AsksFor(wk'[v], n) => AsksFor(wk[v], n)
  PROVE  EffectsSafe' /\ LogUntouched(View, View')
<1>1. \A n \in Effects : Asked(n)' => Asked(n)
  BY DEF Asked
<1>2. ASSUME NEW n \in Effects PROVE Charged(n)'
  <2>1. Charged(n)
    BY DEF EffectsSafe
  <2> QED BY <1>1, <2>1 DEF Charged
<1>3. LedgerFinalizes' /\ EndsSettled' /\ WorldOK' /\ FoldOK(st)'
  BY DEF EffectsSafe, LedgerFinalizes, EndsSettled, WorldOK
<1>4. LogUntouched(View, View')
  BY <1>1, Zenon DEF LogUntouched, Later, View
<1> QED BY <1>2, <1>3, <1>4 DEF EffectsSafe

\* The two together.
LEMMA WorkerMoves ==
  ASSUME WorkInv, EffectsSafe, NEW w \in Workers, NEW me,
         wk' = [wk EXCEPT ![w] = me],
         UNCHANGED <<st, ledger, world>>,
         asks' \subseteq asks, inbox' \in Seq(Mail),
         DOMAIN inbox \subseteq DOMAIN inbox',
         Remembers(me, DOMAIN inbox'),
         ~(me.pc = "execute" /\ me.plan.do = "perform"),
         me.pc # "idle" => held'[w] # 0,
         Holds(w)' => Fits(View, me),
         \A v \in Workers \ {w} :
           held'[v] = held[v] /\ (Holds(v)' => Holds(v))
  PROVE  WorkInv' /\ EffectsSafe'
<1>1. \A v \in Workers, n \in Effects :
        AsksFor(wk'[v], n) => AsksFor(wk[v], n)
  BY DEF WorkInv, AsksFor
<1>2. EffectsSafe' /\ LogUntouched(View, View')
  BY <1>1, SafeKept
<1>3. Holds(w)' => Fits(View', me)
  BY <1>2, StillFits
<1>4. WorkInv'
  BY <1>2, <1>3, WorkKept, Zenon
<1> QED BY <1>2, <1>4

-----------------------------------------------------------------------------
(* Plans *)

Typed(d) ==
  d.do = "perform" =>
    d.node \in Effects /\ d.attempt \in Nat /\ d.key = FreshKey(d.node, 0)

\* A worker that has just made a plan has not called the executor for it.
Planned(me) ==
  /\ me.pc \in {"opening", "execute", "closing", "release"}
  /\ ~(me.pc = "execute" /\ me.plan.do = "perform")

\* A worker that has just been given pc, plan and queue.
Fresh(me, pc, plan, queue) ==
  /\ me = [f \in MemoryFields |-> me[f]]
  /\ me.pc = pc /\ me.plan = plan /\ me.queue = queue
  /\ me.todo = {} /\ me.resumed = FALSE

\* The memory a worker has at each point where it starts on something.
LEMMA FreshAt ==
  ASSUME NEW pc
  PROVE  Fresh(At(pc), pc, Idle, <<>>)
  BY Zenon DEF At, Idling, MemoryFields, Fresh

\* Its queue is what is left to write before the pass is over.
LEMMA FreshClosing ==
  ASSUME NEW q
  PROVE  Fresh(Closing(q), "closing", Idle, q)
  BY Zenon DEF At, Idling, MemoryFields, Fresh, Closing

\* Its plan is the decision it is about to carry out.
LEMMA FreshExecute ==
  ASSUME NEW d
  PROVE  Fresh([At("execute") EXCEPT !.plan = d], "execute", d, <<>>)
  BY Zenon DEF At, Idling, MemoryFields, Fresh

\* Both, when the decision is carried out after the queue is written.
LEMMA FreshOpening ==
  ASSUME NEW q, NEW d
  PROVE  Fresh([Opening(q) EXCEPT !.plan = d], "opening", d, q)
  BY Zenon DEF At, Idling, MemoryFields, Fresh, Opening

\* A worker that holds no signal remembers nothing of the inbox that could be stale.
LEMMA FreshRemembers ==
  ASSUME NEW me, NEW pc, NEW q, NEW d, NEW mail, Fresh(me, pc, d, q),
         pc \notin {"answer", "consume"}, Typed(d)
  PROVE  Remembers(me, mail)
  BY DEF Fresh, Remembers, Typed

\* What CarryOut makes of a decision.
LEMMA CarryOutIs ==
  ASSUME NEW d
  PROVE  LET c == CarryOut(d) IN
         \/ /\ d.do \in {"start_node", "perform"}
            /\ Fresh(c, "opening", d, c.queue)
         \/ d.do = "compensate" /\ Fresh(c, "execute", d, <<>>)
         \/ Fresh(c, "closing", Idle, c.queue)
         \/ Fresh(c, "release", Idle, <<>>)
<1> DEFINE c == CarryOut(d)
<1>1. ASSUME NEW q, NEW me, NEW pc, NEW plan, Fresh(me, pc, plan, q)
      PROVE  me.queue = q
  BY <1>1 DEF Fresh
<1>2. CASE d.do \in {"start_node", "perform"}
  <2>1. PICK q : c = [Opening(q) EXCEPT !.plan = d]
    BY <1>2, Zenon DEF CarryOut
  <2>2. Fresh(c, "opening", d, q)
    BY <2>1, FreshOpening
  <2> QED BY <1>1, <1>2, <2>2
<1>3. CASE d.do = "compensate"
  <2>1. c = [At("execute") EXCEPT !.plan = d]
    BY <1>3 DEF CarryOut
  <2>2. Fresh(c, "execute", d, <<>>)
    BY <2>1, FreshExecute
  <2> QED BY <1>3, <2>2
<1>4. CASE d.do \notin {"start_node", "perform", "compensate"}
  <2>1. c = At("release") \/ \E q : c = Closing(q)
    BY <1>4, Zenon DEF CarryOut
  <2>2. Fresh(c, "release", Idle, <<>>) \/ \E q : Fresh(c, "closing", Idle, q)
    BY <2>1, FreshAt, FreshClosing
  <2> QED BY <1>1, <2>2
<1> QED BY <1>2, <1>3, <1>4, Zenon

\* Nor does one that starts to carry out a decision.
LEMMA CarryOutRemembers ==
  ASSUME NEW d, NEW mail, Typed(d)
  PROVE  Remembers(CarryOut(d), mail) /\ Planned(CarryOut(d))
<1> DEFINE c == CarryOut(d)
<1>1. Typed(Idle) /\ Idle.do = "idle"
  BY DEF Typed, Idle
<1>2. PICK pc \in {"opening", "execute", "closing", "release"} :
        \/ /\ Fresh(c, pc, d, c.queue)
           /\ pc = "execute" => d.do = "compensate"
        \/ Fresh(c, pc, Idle, c.queue)
  BY CarryOutIs, Zenon DEF Fresh
<1>3. pc \notin {"answer", "consume"}
  BY <1>2
<1>4. Remembers(c, mail)
  BY <1>1, <1>2, <1>3, FreshRemembers
<1>5. Planned(c)
  BY <1>1, <1>2 DEF Planned, Fresh
<1> QED BY <1>4, <1>5

\* A worker about to write one event is where it should be if the event fits.
LEMMA ClosingStage ==
  ASSUME NEW x, NEW e, EventFits(x, e)
  PROVE  Stage(x, Closing(<<e>>))
<1> DEFINE me == Closing(<<e>>)
<1>1. me.pc = "closing" /\ me.queue = <<e>>
  BY FreshClosing, Zenon DEF Fresh
<1> HIDE DEF me
<1>2. me.queue[1] = e
  BY <1>1
<1>3. ClosingFits(x, me)
  BY <1>1, <1>2 DEF ClosingFits
<1> QED BY <1>1, <1>3 DEF Stage, me

\* A grounded decision is carried out by events that fit.
LEMMA GroundedStage ==
  ASSUME NEW x, NEW d, Foldable(x.s), Writable(x.s), Grounded(x.s, d)
  PROVE  Stage(x, CarryOut(d))
<1> DEFINE c == CarryOut(d)
<1>1. ASSUME NEW e, EventFits(x, e), c = Closing(<<e>>) PROVE Stage(x, c)
  BY <1>1, ClosingStage
<1>2. CASE d.do \in {"idle", "control_missing"}
  <2>1. c = At("release")
    BY <1>2 DEF CarryOut
  <2>2. c.pc = "release"
    BY <2>1, FreshAt, Zenon DEF Fresh
  <2> QED BY <2>2 DEF Stage
<1>3. CASE d.do = "start"
  <2>1. c = Closing(<<[kind |-> "started"]>>)
    BY <1>3 DEF CarryOut
  <2>2. EventFits(x, [kind |-> "started"])
    BY DEF EventFits
  <2> QED BY <1>1, <2>1, <2>2
<1>4. CASE d.do = "time_out"
  <2>1. c = Closing(<<Failed(d.node, "budget_exhaustion")>>)
    BY <1>4 DEF CarryOut
  <2>2. EventFits(x, Failed(d.node, "budget_exhaustion"))
    BY Zenon DEF EventFits, Failed
  <2> QED BY <1>1, <2>1, <2>2
<1>a. ASSUME NEW q, c = [Opening(q) EXCEPT !.plan = d]
      PROVE  c.pc = "opening" /\ c.plan = d /\ c.queue = q
  <2>1. Fresh(c, "opening", d, q)
    BY <1>a, FreshOpening
  <2> HIDE DEF c
  <2> QED BY <2>1 DEF Fresh
<1>5. CASE d.do = "start_node" /\ d.node \in Nat
  <2> DEFINE q == <<NodeEvent("node_started", d.node)>>
  <2>1. c = [Opening(q) EXCEPT !.plan = d]
    BY <1>5 DEF CarryOut
  <2> HIDE DEF c, q
  <2>2. c.pc = "opening" /\ c.plan = d /\ c.queue = q
    BY <2>1, <1>a
  <2>3. Stage(x, c)
    BY <1>5, <2>2, Zenon DEF Stage, OpeningFits, q
  <2> QED BY <2>3 DEF c
<1>6. CASE d.do = "perform" /\ Performs(x.s, d)
  <2> DEFINE q == IF d.opened THEN <<Claim(d)>>
                  ELSE <<NodeEvent("node_started", d.node), Claim(d)>>
  <2>1. c = [Opening(q) EXCEPT !.plan = d]
    BY <1>6 DEF CarryOut
  <2>2. d.opened = (d.node \in x.s.running)
    BY <1>6 DEF Performs, Perform
  <2>3. EventFits(x, Claim(d))
    BY <1>6, Zenon DEF Performs, EventFits, Claim
  <2>4. \/ q = <<Claim(d)>>
        \/ /\ q = <<NodeEvent("node_started", d.node), Claim(d)>>
           /\ d.node \notin x.s.running
    BY <2>2, Zenon
  <2> HIDE DEF c, q
  <2>5. c.pc = "opening" /\ c.plan = d /\ c.queue = q
    BY <2>1, <1>a
  <2>6. OpeningFits(x, c)
    BY <1>6, <2>3, <2>4, <2>5, Zenon DEF OpeningFits
  <2> QED BY <2>5, <2>6 DEF Stage, c
<1>7. CASE d.do = "halt" /\ x.s.outstanding # <<>>
                         /\ d.node = Head(x.s.outstanding).node
  <2> DEFINE e == EffectEvent("effect_uncertain", d)
  <2>1. c = Closing(<<e>>)
    BY <1>7 DEF CarryOut
  <2>2. /\ 1 \in DOMAIN x.s.outstanding
        /\ x.s.outstanding[1].node = d.node
        /\ x.s.outstanding[1] \in Claims
    BY <1>7 DEF Foldable
  <2>3. HasClaim(x.s, d.node) /\ d.node \in Effects
    BY <2>2 DEF HasClaim, Claims
  <2>4. EventFits(x, e)
    BY <2>3, Zenon DEF EventFits, EffectEvent
  <2> HIDE DEF e
  <2> QED BY <1>1, <2>1, <2>4
<1>8. CASE d.do = "compensate" /\ NextUndone(x.s, d.node)
  <2>1. c = [At("execute") EXCEPT !.plan = d]
    BY <1>8 DEF CarryOut
  <2>2. c.pc = "execute" /\ c.plan = d
    BY <2>1, FreshExecute, Zenon DEF Fresh
  <2> QED BY <1>8, <2>2, Zenon DEF Stage, ExecuteFits
<1>9. CASE d.do = "cancel" /\ NothingOwed(x.s)
  <2>1. c = Closing(<<[kind |-> "cancelled"]>>)
    BY <1>9 DEF CarryOut
  <2>2. EventFits(x, [kind |-> "cancelled"])
    BY <1>9, Zenon DEF EventFits
  <2> QED BY <1>1, <2>1, <2>2
<1>10. CASE d.do = "fail" /\ NothingOwed(x.s)
  <2>1. c = Closing(<<[kind |-> "failed"]>>)
    BY <1>10 DEF CarryOut
  <2>2. EventFits(x, [kind |-> "failed"])
    BY <1>10 DEF EventFits, NothingOwed
  <2> QED BY <1>1, <2>1, <2>2
<1>11. CASE d.do \in {"stop_loop", "start_iteration", "finish_iteration"}
              /\ d.region \in Regions
  <2>1. PICK e : /\ c = Closing(<<e>>)
                 /\ e.kind \in {"iteration_started", "iteration_finished",
                                "loop_stopped"}
                 /\ e.region = d.region
    <3>1. CASE d.do = "stop_loop"
      BY <3>1 DEF CarryOut
    <3>2. CASE d.do = "start_iteration"
      BY <3>2 DEF CarryOut
    <3>3. CASE d.do = "finish_iteration"
      BY <3>3 DEF CarryOut
    <3> QED BY <1>11, <3>1, <3>2, <3>3, Zenon
  <2>2. EventFits(x, e)
    BY <1>11, <2>1, Zenon DEF EventFits
  <2> QED BY <1>1, <2>1, <2>2
<1>12. CASE d.do = "suspend" /\ d.wait.kind = "gate"
  <2> DEFINE e == [kind |-> "suspended", wait |-> d.wait]
  <2>1. c = Closing(<<e>>)
    BY <1>12 DEF CarryOut
  <2>2. EventFits(x, e)
    BY <1>12, Zenon DEF EventFits
  <2> QED BY <1>1, <2>1, <2>2
<1>13. CASE d.do = "resume_wait" /\ x.s.waitingOn.kind = "timer"
                                 /\ x.s.waitingOn.left = 0
  <2>1. c = Closing(<<[kind |-> "resumed"]>>)
    BY <1>13 DEF CarryOut
  <2>2. EventFits(x, [kind |-> "resumed"])
    BY <1>13 DEF EventFits
  <2> QED BY <1>1, <2>1, <2>2
<1>14. CASE d.do = "complete" /\ AllDone(x.s)
  <2>1. c = Closing(<<[kind |-> "completed"]>>)
    BY <1>14 DEF CarryOut
  <2>2. EventFits(x, [kind |-> "completed"])
    BY <1>14, Zenon DEF EventFits
  <2> QED BY <1>1, <2>1, <2>2
<1> QED BY <1>2, <1>3, <1>4, <1>5, <1>6, <1>7, <1>8, <1>9, <1>10, <1>11, <1>12,
           <1>13, <1>14, Zenon DEF Grounded

\* What a worker decides on a log that folds fits the log.
LEMMA DecisionFits ==
  ASSUME NEW x, Foldable(x.s), x.s.ok
  PROVE  Stage(x, CarryOut(Decide(x.s))) /\ Typed(Decide(x.s))
<1> DEFINE d == Decide(x.s)
<1>1. Grounded(x.s, d)
  BY DecideIsGrounded
<1>2. Typed(d)
  BY <1>1, Zenon DEF Grounded, Performs, Typed
<1>3. CASE IsTerminal(x.s)
  <2>1. d = Idle
    BY <1>3 DEF Decide, DecideNext, Idle
  <2>2. CarryOut(d) = At("release")
    BY <2>1 DEF CarryOut, Idle
  <2>3. CarryOut(d).pc = "release"
    BY <2>2, FreshAt, Zenon DEF Fresh
  <2> QED BY <1>2, <2>3 DEF Stage
<1>4. CASE ~IsTerminal(x.s)
  BY <1>1, <1>2, <1>4, GroundedStage DEF Writable
<1> QED BY <1>3, <1>4
-----------------------------------------------------------------------------
(* Steps that neither write to the log nor call the executor for an effect *)

\* A worker that waits for nothing and has nothing to write fits any log.
LEMMA RestFits ==
  ASSUME NEW x, NEW me, me.pc \in {"idle", "leased", "fold", "beat", "release"}
  PROVE  Fits(x, me)
  BY DEF Fits, Stage, Undecided

\* So does one that just made a plan, if the plan does.
LEMMA PlannedFits ==
  ASSUME NEW x, NEW me, Planned(me), Stage(x, me)
  PROVE  Fits(x, me)
  BY DEF Fits, Planned, Undecided

\* A worker at one of those points remembers nothing.
LEMMA RestRemembers ==
  ASSUME NEW pc \in {"idle", "leased", "fold", "beat", "release"}, NEW mail
  PROVE  /\ Remembers(At(pc), mail)
         /\ At(pc).pc = pc
         /\ At(pc).plan.do # "perform"
<1>1. Fresh(At(pc), pc, Idle, <<>>)
  BY FreshAt
<1>2. Typed(Idle) /\ Idle.do # "perform"
  BY DEF Typed, Idle
<1>3. pc \notin {"answer", "consume"}
  OBVIOUS
<1>4. Remembers(At(pc), mail)
  BY <1>1, <1>2, <1>3, FreshRemembers
<1> QED BY <1>1, <1>2, <1>4 DEF Fresh

\* A worker with events ready to be written.
LEMMA ClosingRemembers ==
  ASSUME NEW q, NEW mail
  PROVE  /\ Remembers(Closing(q), mail)
         /\ Closing(q).pc = "closing" /\ Closing(q).queue = q
         /\ Planned(Closing(q))
<1> DEFINE me == Closing(q)
<1>1. Fresh(me, "closing", Idle, q)
  BY FreshClosing
<1>2. Typed(Idle)
  BY DEF Typed, Idle
<1> HIDE DEF me
<1>3. Remembers(me, mail)
  BY <1>1, <1>2, FreshRemembers
<1>4. me.pc = "closing" /\ me.queue = q /\ Planned(me)
  BY <1>1 DEF Fresh, Planned
<1> QED BY <1>3, <1>4 DEF me

\* Neither does one between passes.
LEMMA IdlingRemembers ==
  ASSUME NEW mail
  PROVE  Remembers(Idling, mail) /\ Idling.pc = "idle"
  BY Zenon DEF Idling, Remembers, MemoryFields, Idle

\* The statements that keep the epoch: nobody else's lease is touched.
LEMMA SameEpoch ==
  ASSUME LeaseInv, NEW w \in Workers, epoch' = epoch,
         held' = held \/ held' = [held EXCEPT ![w] = 0]
  PROVE  /\ \A v \in Workers \ {w} :
              held'[v] = held[v] /\ (Holds(v)' => Holds(v))
         /\ Holds(w)' => Holds(w) /\ held' = held
  BY DEF LeaseInv, LeaseTypeOK, Holds

\* A worker moves within its pass or ends it.
LEMMA PassMoves ==
  ASSUME LeaseInv, WorkInv, EffectsSafe, NEW w \in Workers, NEW me,
         wk' = [wk EXCEPT ![w] = me],
         UNCHANGED <<st, ledger, world, asks, epoch>>,
         inbox' \in Seq(Mail), DOMAIN inbox' = DOMAIN inbox,
         held' = held \/ (held' = [held EXCEPT ![w] = 0] /\ me.pc = "idle"),
         wk[w].pc # "idle",
         Remembers(me, DOMAIN inbox),
         ~(me.pc = "execute" /\ me.plan.do = "perform"),
         Holds(w) => Fits(View, me)
  PROVE  WorkInv' /\ EffectsSafe'
<1>1. /\ \A v \in Workers \ {w} :
           held'[v] = held[v] /\ (Holds(v)' => Holds(v))
      /\ Holds(w)' => Holds(w) /\ held' = held
  BY SameEpoch
<1>2. me.pc # "idle" => held'[w] # 0
  BY DEF WorkInv
<1> QED BY <1>1, <1>2, WorkerMoves, Zenon

\* Taking the lease leaves nobody else holding it.
LEMMA TakeMoves ==
  ASSUME LeaseInv, WorkInv, EffectsSafe, NEW w \in Workers, NEW me,
         TakeLease(w), wk' = [wk EXCEPT ![w] = me],
         UNCHANGED <<st, ledger, world, inbox>>, asks' \subseteq asks,
         Remembers(me, DOMAIN inbox),
         ~(me.pc = "execute" /\ me.plan.do = "perform"),
         Fits(View, me)
  PROVE  WorkInv' /\ EffectsSafe'
<1>1. \A v \in Workers \ {w} : held'[v] = held[v] /\ ~Holds(v)'
  BY DEF LeaseInv, LeaseTypeOK, HeldIsPast, TakeLease, Holds
<1>2. held'[w] # 0
  BY DEF LeaseInv, LeaseTypeOK, TakeLease
<1>3. inbox' \in Seq(Mail) /\ DOMAIN inbox \subseteq DOMAIN inbox'
  BY DEF WorkInv
<1> QED BY <1>1, <1>2, <1>3, WorkerMoves, Zenon

\* Nobody moves: what the workers are doing still fits.
LEMMA NobodyMoves ==
  ASSUME WorkInv, UNCHANGED <<wk, held, epoch, asks>>,
         LogUntouched(View, View'),
         inbox' \in Seq(Mail), DOMAIN inbox \subseteq DOMAIN inbox'
  PROVE  WorkInv'
<1>1. ASSUME NEW v \in Workers
      PROVE  /\ Remembers(wk'[v], DOMAIN inbox')
             /\ wk'[v].pc # "idle" => held'[v] # 0
             /\ Holds(v)' => Fits(View', wk'[v])
  <2>1. Remembers(wk[v], DOMAIN inbox')
    BY DEF WorkInv, Remembers
  <2>2. Holds(v) => Fits(View', wk[v])
    BY StillFits DEF WorkInv
  <2> QED BY <2>1, <2>2 DEF WorkInv, Holds
<1> QED BY <1>1 DEF WorkInv

\* A worker takes the lease of a run: it starts with no plan (lease_next_run).
LEMMA LeaseRunKeeps ==
  ASSUME EffectInv, NEW w \in Workers, LeaseRun(w)
  PROVE  WorkInv' /\ EffectsSafe'
<1> DEFINE me == At("leased")
<1>1. Remembers(me, DOMAIN inbox) /\ me.pc = "leased"
  BY RestRemembers
<1>2. /\ TakeLease(w) /\ wk' = [wk EXCEPT ![w] = me]
      /\ UNCHANGED <<st, ledger, world, inbox, asks>>
  BY DEF LeaseRun, Become, runVars
<1> HIDE DEF me
<1>3. Fits(View, me)
  BY <1>1, RestFits
<1> QED BY <1>1, <1>2, <1>3, TakeMoves, Zenon DEF EffectInv

\* Whoever records a cancellation or a suspension takes the lease to write it.
LEMMA LeaseToRecordKeeps ==
  ASSUME EffectInv, NEW w \in Workers, LeaseToRecord(w)
  PROVE  WorkInv' /\ EffectsSafe'
<1>1. PICK e \in asks : asks' = asks \ {e} /\ wk' = [wk EXCEPT ![w] = Closing(<<e>>)]
  BY Zenon DEF LeaseToRecord, Become
<1>2. TakeLease(w) /\ UNCHANGED <<st, ledger, world, inbox>>
  BY DEF LeaseToRecord
<1> DEFINE me == Closing(<<e>>)
<1>3. Remembers(me, DOMAIN inbox) /\ Planned(me)
  BY ClosingRemembers
<1>4. EventFits(View, e)
  BY RequestAssumption DEF EffectInv, WorkInv, EventFits
<1>5. Stage(View, me)
  BY <1>4, ClosingStage
<1> HIDE DEF me
<1>6. Fits(View, me)
  BY <1>3, <1>5, PlannedFits
<1>7. wk' = [wk EXCEPT ![w] = me] /\ asks' \subseteq asks
  BY <1>1 DEF me
<1> QED BY <1>2, <1>3, <1>6, <1>7, TakeMoves, Zenon DEF EffectInv, Planned

\* A worker folds the log and decides: what it decides fits the log it has read.
LEMMA FoldKeeps ==
  ASSUME EffectInv, NEW w \in Workers, Fold(w)
  PROVE  WorkInv' /\ EffectsSafe'
<1> USE DEF EffectInv
<1> DEFINE d == IF st.ok THEN Decide(st) ELSE Idle
           waits == [At("inbox") EXCEPT !.plan = d, !.wait = st.waitingOn]
           me == IF MaxSignals = 0 \/ ~st.ok THEN CarryOut(d) ELSE waits
<1>1. /\ wk' = [wk EXCEPT ![w] = me]
      /\ wk[w].pc # "idle"
      /\ UNCHANGED <<st, ledger, world, asks, inbox, epoch, held>>
  BY Zenon DEF Fold, Pc, Become, leaseVars, rowVars, runVars
<1>2. View.s = st
  BY DEF View
<1>3. Stage(View, CarryOut(d)) /\ Typed(d)
  <2>1. CASE st.ok
    <3>1. Foldable(View.s) /\ View.s.ok
      BY <1>2, <2>1 DEF EffectsSafe, FoldOK
    <3>2. d = Decide(View.s)
      BY <1>2, <2>1
    <3> HIDE DEF d
    <3> QED BY <3>1, <3>2, DecisionFits
  <2>2. CASE ~st.ok
    <3>1. d = Idle
      BY <2>2
    <3>2. CarryOut(d) = At("release")
      BY <3>1 DEF CarryOut, Idle
    <3>3. CarryOut(d).pc = "release"
      BY <3>2, RestRemembers
    <3> QED BY <3>1, <3>3 DEF Stage, Typed, Idle
  <2> QED BY <2>1, <2>2
<1> HIDE DEF d
<1>4. /\ Remembers(me, DOMAIN inbox) /\ Fits(View, me)
      /\ ~(me.pc = "execute" /\ me.plan.do = "perform")
  <2>1. CASE me = CarryOut(d)
    <3>1. Remembers(CarryOut(d), DOMAIN inbox) /\ Planned(CarryOut(d))
      BY <1>3, CarryOutRemembers
    <3> HIDE DEF me
    <3> QED BY <1>3, <2>1, <3>1, PlannedFits DEF Planned
  <2>2. CASE me = waits
    <3>1. /\ waits.pc = "inbox" /\ waits.plan = d /\ waits.wait = st.waitingOn
          /\ waits.todo = {}
          /\ waits = [f \in MemoryFields |-> waits[f]]
      BY Zenon DEF At, Idling, MemoryFields
    <3> HIDE DEF me, waits
    <3>2. Remembers(waits, DOMAIN inbox)
      BY <1>3, <3>1 DEF Remembers, Typed
    <3>3. Fits(View, waits)
      BY <1>2, <1>3, <3>1 DEF Fits, Stage, WaitFits
    <3> QED BY <2>2, <3>1, <3>2, <3>3
  <2> QED BY <2>1, <2>2
<1> HIDE DEF me
<1>5. inbox' \in Seq(Mail)
  BY <1>1 DEF WorkInv
<1> QED BY <1>1, <1>4, <1>5, PassMoves, Zenon

\* A worker reads the inbox of the run it has folded.
LEMMA ReadInboxKeeps ==
  ASSUME EffectInv, NEW w \in Workers, ReadInbox(w)
  PROVE  WorkInv' /\ EffectsSafe'
<1> USE DEF EffectInv
<1> DEFINE was == wk[w]
           reads == [was EXCEPT !.pc = "answer", !.todo = Pending]
           me == IF Pending = {} THEN CarryOut(was.plan) ELSE reads
<1>1. /\ wk' = [wk EXCEPT ![w] = me]
      /\ was.pc = "inbox"
      /\ UNCHANGED <<st, ledger, world, asks, inbox, epoch, held>>
  BY DEF ReadInbox, Pc, Become, leaseVars, rowVars, runVars
<1>2. Remembers(was, DOMAIN inbox) /\ (Holds(w) => Fits(View, was))
  BY DEF WorkInv
<1> HIDE DEF was
<1>3. Typed(was.plan)
  BY <1>2 DEF Remembers, Typed
<1>4. Holds(w) => Stage(View, CarryOut(was.plan)) /\ WaitFits(View, was)
  BY <1>1, <1>2 DEF Fits, Undecided
<1>5. /\ Remembers(me, DOMAIN inbox) /\ (Holds(w) => Fits(View, me))
      /\ ~(me.pc = "execute" /\ me.plan.do = "perform")
  <2>1. CASE me = CarryOut(was.plan)
    <3> HIDE DEF me
    <3>1. Remembers(me, DOMAIN inbox) /\ Planned(me)
      BY <1>3, <2>1, CarryOutRemembers
    <3> QED BY <1>4, <2>1, <3>1, PlannedFits DEF Planned
  <2>2. CASE me = reads /\ Pending # {}
    <3>1. /\ reads = [f \in MemoryFields |-> reads[f]]
          /\ reads.pc = "answer" /\ reads.todo = Pending
          /\ reads.plan = was.plan /\ reads.wait = was.wait
      BY <1>2, Zenon DEF Remembers, MemoryFields
    <3>2. Pending \subseteq DOMAIN inbox
      BY DEF Pending
    <3> HIDE DEF me, reads
    <3>3. Remembers(reads, DOMAIN inbox)
      BY <1>2, <2>2, <3>1, <3>2 DEF Remembers
    <3>4. Holds(w) => Fits(View, reads)
      BY <1>4, <3>1 DEF Fits, Stage, WaitFits
    <3> QED BY <2>2, <3>1, <3>3, <3>4
  <2> QED BY <2>1, <2>2
<1> HIDE DEF me
<1>6. inbox' \in Seq(Mail) /\ wk[w].pc # "idle"
  BY <1>1 DEF WorkInv, was
<1> QED BY <1>1, <1>5, <1>6, PassMoves, Zenon

\* Done with a signal, the worker takes the next, folds again, or goes on to
\* what it decided; only a worker that resumed nothing does the last.
LEMMA NextSignalFits ==
  ASSUME NEW x, NEW was, NEW mail, NEW holds \in BOOLEAN, mail \subseteq Nat,
         Remembers(was, mail), was.pc \in {"answer", "consume"},
         holds => Fits(x, was)
  PROVE  LET me == NextSignal(was) IN
         /\ Remembers(me, mail)
         /\ holds => Fits(x, me)
         /\ ~(me.pc = "execute" /\ me.plan.do = "perform")
<1> DEFINE me == NextSignal(was)
           i == FirstSignal(was)
           goes == [was EXCEPT !.pc = "answer", !.todo = @ \ {i}]
           Goal == /\ Remembers(me, mail)
                   /\ holds => Fits(x, me)
                   /\ ~(me.pc = "execute" /\ me.plan.do = "perform")
<1> SUFFICES Goal
  OBVIOUS
<1>1. Typed(was.plan) /\ was.todo # {}
  BY DEF Remembers, Typed
<1>2. CASE was.todo # {i}
  <2>1. me = goes
    BY <1>2 DEF NextSignal
  <2>2. /\ goes = [f \in MemoryFields |-> goes[f]]
        /\ goes.pc = "answer" /\ goes.todo = was.todo \ {i}
        /\ goes.plan = was.plan /\ goes.wait = was.wait
        /\ goes.resumed = was.resumed
    BY Zenon DEF Remembers, MemoryFields
  <2> HIDE DEF goes, me, i
  <2>3. goes.todo # {} /\ goes.todo \subseteq mail
    BY <1>1, <1>2, <2>2 DEF Remembers
  <2>4. Remembers(goes, mail)
    BY <2>2, <2>3 DEF Remembers
  <2>5. holds => Fits(x, goes)
    BY <2>2 DEF Fits, Stage, Undecided, WaitFits
  <2> QED BY <2>1, <2>2, <2>4, <2>5
<1>3. CASE was.todo = {i} /\ was.resumed
  <2>1. me = At("fold")
    BY <1>3 DEF NextSignal
  <2>2. Remembers(At("fold"), mail) /\ At("fold").pc = "fold"
    BY RestRemembers
  <2> HIDE DEF me
  <2> QED BY <2>1, <2>2, RestFits
<1>4. CASE was.todo = {i} /\ ~was.resumed
  <2>1. me = CarryOut(was.plan)
    BY <1>4 DEF NextSignal
  <2> HIDE DEF me, i
  <2>2. Remembers(me, mail) /\ Planned(me)
    BY <1>1, <2>1, CarryOutRemembers
  <2>3. holds => Stage(x, me)
    BY <1>4, <2>1 DEF Fits, Undecided
  <2> QED BY <2>2, <2>3, PlannedFits DEF Planned
<1> QED BY <1>2, <1>3, <1>4
\* The signal a worker is at is in the inbox.
LEMMA FirstSignalIsThere ==
  ASSUME WorkInv, NEW w \in Workers, wk[w].pc \in {"answer", "consume"}
  PROVE  FirstSignal(wk[w]) \in DOMAIN inbox /\ DOMAIN inbox \subseteq Nat
<1>1. DOMAIN inbox \subseteq Nat
  BY DEF WorkInv
<1>2. wk[w].todo \subseteq DOMAIN inbox /\ wk[w].todo # {}
  BY DEF WorkInv, Remembers
<1> QED BY <1>1, <1>2, LeastIsLeast DEF FirstSignal

\* A row of the inbox that is marked, or counted, is still a row.
LEMMA MailStays ==
  ASSUME NEW m \in Mail, NEW o \in {"pending", "refused", "resumed"}
  PROVE  /\ [m EXCEPT !.outcome = o] \in Mail
         /\ [m EXCEPT !.resumes = @ + 1] \in Mail
<1>1. PICK k \in Signals, p \in {"pending", "refused", "resumed"}, r \in Nat :
        m = [kind |-> k.kind, subject |-> k.subject,
             authorities |-> k.authorities, outcome |-> p, resumes |-> r]
  BY DEF Mail
<1>2. [m EXCEPT !.outcome = o] =
        [kind |-> k.kind, subject |-> k.subject,
         authorities |-> k.authorities, outcome |-> o, resumes |-> r]
  BY <1>1
<1>3. [m EXCEPT !.resumes = @ + 1] =
        [kind |-> k.kind, subject |-> k.subject,
         authorities |-> k.authorities, outcome |-> p, resumes |-> r + 1]
  BY <1>1
<1> QED BY <1>1, <1>2, <1>3 DEF Mail

\* So the inbox stays one under either statement.
LEMMA InboxStays ==
  ASSUME WorkInv, NEW i \in DOMAIN inbox,
         \/ \E o \in {"refused", "resumed"} : Consume(i, o)
         \/ inbox' = [inbox EXCEPT ![i].resumes = @ + 1]
  PROVE  inbox' \in Seq(Mail) /\ DOMAIN inbox' = DOMAIN inbox
<1>1. inbox \in Seq(Mail) /\ inbox[i] \in Mail
  BY DEF WorkInv
<1>2. inbox[i].outcome \in {"pending", "refused", "resumed"}
  BY <1>1 DEF Mail
<1>3. PICK m \in Mail : inbox' = [inbox EXCEPT ![i] = m]
  <2>1. CASE inbox' = [inbox EXCEPT ![i].resumes = @ + 1]
    BY <1>1, <2>1, MailStays, Zenon
  <2>2. ASSUME NEW o \in {"refused", "resumed"}, Consume(i, o)
        PROVE  \E m \in Mail : inbox' = [inbox EXCEPT ![i] = m]
    <3> DEFINE p == IF inbox[i].outcome = "pending" THEN o
                    ELSE inbox[i].outcome
    <3>1. p \in {"pending", "refused", "resumed"}
      BY <1>2
    <3>2. inbox' = [inbox EXCEPT ![i] = [inbox[i] EXCEPT !.outcome = p]]
      BY <2>2 DEF Consume
    <3> HIDE DEF p
    <3> QED BY <1>1, <3>1, <3>2, MailStays, Zenon
  <2> QED BY <2>1, <2>2
<1> QED BY <1>1, <1>3

\* answer_signals, where it resumes the run.
Resumes(w) ==
  /\ ~wk[w].resumed
  /\ Verdict(wk[w].wait, inbox[FirstSignal(wk[w])]) = "resumed"
  /\ Record(w, [kind |-> "resumed"])
  /\ inbox' = [inbox EXCEPT ![FirstSignal(wk[w])].resumes = @ + 1]
  /\ wk' = [wk EXCEPT ![w] = [wk[w] EXCEPT !.pc = "consume", !.resumed = TRUE]]

\* answer_signals, where it does not.
LEMMA AnswerKeeps ==
  ASSUME EffectInv, NEW w \in Workers, AnswerSignal(w), ~Resumes(w)
  PROVE  WorkInv' /\ EffectsSafe'
<1> USE DEF EffectInv
<1> DEFINE was == wk[w]
           i == FirstSignal(was)
<1>1. was.pc = "answer"
  BY DEF AnswerSignal, Pc
<1>2. i \in DOMAIN inbox /\ DOMAIN inbox \subseteq Nat
  BY <1>1, FirstSignalIsThere
<1>3. Remembers(was, DOMAIN inbox) /\ (Holds(w) => Fits(View, was))
  BY DEF WorkInv
<1>4. /\ UNCHANGED <<st, ledger, world, asks, epoch, held>>
      /\ \/ /\ wk' = [wk EXCEPT ![w] = NextSignal(was)]
            /\ inbox' = inbox \/ Consume(i, "refused")
         \/ /\ wk' = [wk EXCEPT ![w] = CarryOut(was.plan)]
            /\ inbox' = inbox /\ ~Current(w)
  BY DEF AnswerSignal, Become, Resumes, leaseVars, rowVars
<1> HIDE DEF was, i
<1>5. inbox' \in Seq(Mail) /\ DOMAIN inbox' = DOMAIN inbox
  <2>1. CASE inbox' = inbox
    BY <2>1 DEF WorkInv
  <2>2. CASE Consume(i, "refused")
    BY <1>2, <2>2, InboxStays
  <2> QED BY <1>4, <2>1, <2>2
<1>6. wk[w].pc # "idle"
  BY <1>1 DEF was
<1>7. CASE wk' = [wk EXCEPT ![w] = NextSignal(was)]
  <2> DEFINE me == NextSignal(was)
  <2>1. /\ Remembers(me, DOMAIN inbox) /\ (Holds(w) => Fits(View, me))
        /\ ~(me.pc = "execute" /\ me.plan.do = "perform")
    BY <1>1, <1>2, <1>3, NextSignalFits, Zenon DEF Holds
  <2>2. wk' = [wk EXCEPT ![w] = me]
    BY <1>7
  <2> HIDE DEF me
  <2> QED BY <1>4, <1>5, <1>6, <2>1, <2>2, PassMoves, Zenon
<1>8. CASE wk' = [wk EXCEPT ![w] = CarryOut(was.plan)] /\ ~Current(w)
  <2> DEFINE me == CarryOut(was.plan)
  <2>1. Typed(was.plan)
    BY <1>3 DEF Remembers, Typed
  <2>2. Remembers(me, DOMAIN inbox) /\ Planned(me)
    BY <2>1, CarryOutRemembers
  <2>3. wk' = [wk EXCEPT ![w] = me] /\ ~Holds(w)
    BY <1>8 DEF Holds, Current
  <2> HIDE DEF me
  <2> QED BY <1>4, <1>5, <1>6, <2>2, <2>3, PassMoves, Zenon DEF Planned
<1> QED BY <1>4, <1>7, <1>8

\* A worker marks the signal it has answered as consumed.
LEMMA ConsumeKeeps ==
  ASSUME EffectInv, NEW w \in Workers, ConsumeSignal(w)
  PROVE  WorkInv' /\ EffectsSafe'
<1> USE DEF EffectInv
<1> DEFINE was == wk[w]
           me == NextSignal(was)
<1>1. /\ was.pc = "consume"
      /\ Consume(FirstSignal(was), "resumed")
      /\ wk' = [wk EXCEPT ![w] = me]
      /\ UNCHANGED <<st, ledger, world, asks, epoch, held>>
  BY DEF ConsumeSignal, Pc, Become, leaseVars, rowVars
<1>2. FirstSignal(was) \in DOMAIN inbox /\ DOMAIN inbox \subseteq Nat
  BY <1>1, FirstSignalIsThere
<1>3. Remembers(was, DOMAIN inbox) /\ (Holds(w) => Fits(View, was))
  BY DEF WorkInv
<1>4. inbox' \in Seq(Mail) /\ DOMAIN inbox' = DOMAIN inbox
  BY <1>1, <1>2, InboxStays
<1>5. wk[w].pc # "idle"
  BY <1>1
<1> HIDE DEF was
<1>6. /\ Remembers(me, DOMAIN inbox) /\ (Holds(w) => Fits(View, me))
      /\ ~(me.pc = "execute" /\ me.plan.do = "perform")
  BY <1>1, <1>2, <1>3, NextSignalFits, Zenon DEF Holds
<1> HIDE DEF me
<1> QED BY <1>1, <1>4, <1>5, <1>6, PassMoves, Zenon
\* A worker that ends its pass, or is between two steps of it.
LEMMA RestKeeps ==
  ASSUME EffectInv, NEW w \in Workers, wk[w].pc # "idle",
         UNCHANGED <<st, ledger, world, asks, inbox, epoch>>,
         \/ /\ held' = held
            /\ \E pc \in {"fold", "beat", "release"} : Become(w, At(pc))
         \/ held' = [held EXCEPT ![w] = 0] /\ Become(w, Idling)
  PROVE  WorkInv' /\ EffectsSafe'
<1> USE DEF EffectInv
<1>1. inbox' \in Seq(Mail) /\ DOMAIN inbox' = DOMAIN inbox
  BY DEF WorkInv
<1>2. ASSUME NEW pc \in {"fold", "beat", "release"}, Become(w, At(pc)),
             held' = held
      PROVE  WorkInv' /\ EffectsSafe'
  <2> DEFINE me == At(pc)
  <2>1. Remembers(me, DOMAIN inbox) /\ me.pc = pc
    BY RestRemembers
  <2>2. wk' = [wk EXCEPT ![w] = me]
    BY <1>2 DEF Become
  <2> HIDE DEF me
  <2>3. Fits(View, me)
    BY <2>1, RestFits
  <2> QED BY <1>1, <1>2, <2>1, <2>2, <2>3, PassMoves, Zenon
<1>3. CASE held' = [held EXCEPT ![w] = 0] /\ Become(w, Idling)
  <2> DEFINE me == Idling
  <2>1. Remembers(me, DOMAIN inbox) /\ me.pc = "idle"
    BY IdlingRemembers
  <2>2. wk' = [wk EXCEPT ![w] = me]
    BY <1>3 DEF Become
  <2> HIDE DEF me
  <2>3. Fits(View, me)
    BY <2>1, RestFits
  <2> QED BY <1>1, <1>3, <2>1, <2>2, <2>3, PassMoves, Zenon
<1> QED BY <1>2, <1>3

\* An append that is turned away, by the epoch or by the ledger.
LEMMA RefusedAppendKeeps ==
  ASSUME EffectInv, NEW w \in Workers, AppendStep(w),
         ~Current(w) \/ LedgerRefuses(Head(wk[w].queue))
  PROVE  WorkInv' /\ EffectsSafe'
<1>1. wk[w].pc # "idle" /\ UNCHANGED <<st, ledger, world, asks, inbox, epoch>>
  BY DEF AppendStep, Pc, DropLease, leaseVars, rowVars
<1>2. \/ held' = held /\ Become(w, At("release"))
      \/ held' = [held EXCEPT ![w] = 0] /\ Become(w, Idling)
  BY DEF AppendStep, DropLease, leaseVars
<1> QED BY <1>1, <1>2, RestKeeps

\* A worker renews its lease, ends its pass, or stops in the middle of it.
LEMMA PassEndKeeps ==
  ASSUME EffectInv, NEW w \in Workers,
         Heartbeat(w) \/ Release(w) \/ Yield(w) \/ Crash(w)
  PROVE  WorkInv' /\ EffectsSafe'
<1>1. wk[w].pc # "idle" /\ UNCHANGED <<st, ledger, world, asks, inbox, epoch>>
  BY DEF Heartbeat, Release, Yield, Crash, Pc, DropLease, ExtendLease,
         ReleaseLease, leaseVars, rowVars, runVars
<1>2. \/ held' = held /\ \E pc \in {"fold", "beat", "release"} : Become(w, At(pc))
      \/ held' = [held EXCEPT ![w] = 0] /\ Become(w, Idling)
  BY DEF Heartbeat, Release, Yield, Crash, DropLease, ExtendLease,
         ReleaseLease, leaseVars
<1> QED BY <1>1, <1>2, RestKeeps, Zenon

\* A worker runs a node that asks nothing of the executor.
LEMMA RunNodeKeeps ==
  ASSUME EffectInv, NEW w \in Workers, RunNode(w)
  PROVE  WorkInv' /\ EffectsSafe'
<1> USE DEF EffectInv
<1>1. /\ wk[w].pc # "idle"
      /\ UNCHANGED <<st, ledger, world, asks, inbox, epoch, held>>
  BY Zenon DEF RunNode, Pc, leaseVars, rowVars, runVars
<1>2. PICK e : e.kind \in {"node_finished", "node_failed"}
                 /\ Become(w, Closing(<<e>>))
  <2> DEFINE n == wk[w].plan.node
             finished(c) == [kind |-> "node_finished", node |-> n, control |-> c]
  <2>1. /\ \A c : finished(c).kind = "node_finished"
        /\ \A f : Failed(n, f).kind = "node_failed"
    BY DEF Failed
  <2>2. \/ \E c : Become(w, Closing(<<finished(c)>>))
        \/ \E f : Become(w, Closing(<<Failed(n, f)>>))
    BY Zenon DEF RunNode
  <2> HIDE DEF n, finished
  <2> QED BY <2>1, <2>2
<1> DEFINE me == Closing(<<e>>)
<1>3. Remembers(me, DOMAIN inbox) /\ Planned(me)
  BY ClosingRemembers
<1>4. EventFits(View, e)
  BY <1>2, Zenon DEF EventFits
<1>5. Stage(View, me)
  BY <1>4, ClosingStage
<1>6. wk' = [wk EXCEPT ![w] = me]
  BY <1>2 DEF Become
<1> HIDE DEF me
<1>7. Fits(View, me)
  BY <1>3, <1>5, PlannedFits
<1>8. inbox' \in Seq(Mail) /\ DOMAIN inbox' = DOMAIN inbox
  BY <1>1 DEF WorkInv
<1> QED BY <1>1, <1>3, <1>6, <1>7, <1>8, PassMoves, Zenon DEF Planned

-----------------------------------------------------------------------------
(* What an event that fits the fold does to it *)

\* p is the list q of members of S with n put at its end.
Appended(S, q, n, p) ==
  /\ p \in Seq(S)
  /\ \A i \in DOMAIN p : \/ i \in DOMAIN q /\ p[i] = q[i]
                         \/ p[i] = n
  /\ \A i \in DOMAIN q : i \in DOMAIN p /\ p[i] = q[i]
  /\ Len(q) + 1 \in DOMAIN p /\ p[Len(q) + 1] = n

\* That is what Append makes.
LEMMA AppendedIs ==
  ASSUME NEW S, NEW q \in Seq(S), NEW n \in S, NEW p, p = Append(q, n)
  PROVE  Appended(S, q, n, p)
<1>1. /\ p \in Seq(S)
      /\ \A i \in DOMAIN p : \/ i \in DOMAIN q /\ p[i] = q[i]
                             \/ i = Len(q) + 1 /\ p[i] = n
      /\ \A i \in DOMAIN q : i \in DOMAIN p /\ p[i] = q[i]
      /\ Len(q) + 1 \in DOMAIN p /\ p[Len(q) + 1] = n
  BY AppendIs
<1> QED BY <1>1, Zenon DEF Appended

\* The fold stays one when an event that fits is applied.
LEMMA FoldMoves ==
  ASSUME NEW x, NEW e, NEW s, NEW t, x.s = s, Shaped(s),
         FoldOK(s), EventFits(x, e) \/ e.kind = "resumed", t = Apply(s, e)
  PROVE  FoldOK(t)
<1>0. /\ Foldable(s) /\ LoopsShaped(s.loops)
      /\ s.uncertain \in Seq(Effects)
      /\ s.completed = Listed(s.finalized)
      /\ Once(s.finalized)
      /\ \A i \in DOMAIN s.outstanding : s.outstanding[i].node \notin s.completed
  BY DEF FoldOK
<1>1. CASE e.kind \notin EffectKinds
  <2>1. e.kind \in LoopKinds => e.region \in Regions
    BY Zenon DEF EventFits, LoopKinds
  <2>2. /\ SameEffects(s, t) /\ LoopsShaped(t.loops)
        /\ t.running \subseteq s.running \cup {e.node}
        /\ e.kind # "node_started" => t.running \subseteq s.running
    BY <1>0, <1>1, <2>1, ApplyPlain, Zenon
  <2>3. t.running \subseteq Nat
    BY <1>0, <2>2, Zenon DEF EventFits, Foldable
  <2> QED BY <1>0, <2>2, <2>3, Zenon DEF FoldOK, Foldable, SameEffects
<1> SUFFICES ASSUME e.kind \in EffectKinds PROVE FoldOK(t)
  BY <1>1
<1>2. Writable(s) /\ e.node \in Effects
  BY Zenon DEF EventFits, EffectKinds
<1>3. ASSUME SameCourse(s, t), t.completed = s.completed,
             t.finalized = s.finalized, t.uncertain \in Seq(Effects),
             t.outstanding \in Seq(Claims),
             \A i \in DOMAIN t.outstanding :
               t.outstanding[i].node \notin s.completed
      PROVE  FoldOK(t)
  BY <1>0, <1>3, Zenon DEF FoldOK, Foldable, SameCourse
<1>4. CASE e.kind = "effect_claimed"
  <2> DEFINE c == [node |-> e.node, attempt |-> e.attempt, key |-> e.key]
  <2>1. /\ SameCourse(s, t) /\ t.outstanding = Append(s.outstanding, c)
        /\ t.completed = s.completed /\ t.finalized = s.finalized
        /\ t.uncertain = s.uncertain
    BY <1>2, <1>4, ApplyEffect, Zenon
  <2>2. c \in Claims /\ c.node = e.node
    BY <1>4, ClaimIsOne, Zenon DEF EventFits
  <2>3. e.node \notin s.completed
    <3>1. CASE NewEffect(s, e.node)
      BY <3>1, Zenon DEF NewEffect
    <3>2. CASE RepeatedEffect(s, e.node)
      <4>1. /\ 1 \in DOMAIN s.outstanding
            /\ e.node = s.outstanding[1].node
        BY <1>0, <3>2 DEF RepeatedEffect, Foldable
      <4> QED BY <1>0, <4>1
    <3> QED BY <1>4, <3>1, <3>2, Zenon DEF EventFits
  <2> HIDE DEF c
  <2>4. s.outstanding \in Seq(Claims)
    BY <1>0 DEF Foldable
  <2>5. /\ t.outstanding \in Seq(Claims)
        /\ \A i \in DOMAIN t.outstanding :
             t.outstanding[i].node \notin s.completed
    <3>1. /\ t.outstanding \in Seq(Claims)
          /\ \A i \in DOMAIN t.outstanding :
               \/ /\ i \in DOMAIN s.outstanding
                  /\ t.outstanding[i] = s.outstanding[i]
               \/ t.outstanding[i] = c
      <4>1. Appended(Claims, s.outstanding, c, t.outstanding)
        BY <2>1, <2>2, <2>4, AppendedIs, Zenon
      <4> QED BY <4>1, Zenon DEF Appended
    <3> QED BY <1>0, <2>2, <2>3, <3>1, Zenon
  <2> QED BY <1>0, <1>3, <2>1, <2>5, Zenon
<1>5. CASE e.kind = "effect_finalized"
  <2>1. HasClaim(s, e.node)
    BY <1>5, Zenon DEF EventFits
  <2>2. OtherClaims(s, e.node) # s.outstanding
    <3>1. PICK u : u.outstanding = OtherClaims(s, e.node)
      <4>1. [outstanding |-> OtherClaims(s, e.node)].outstanding
              = OtherClaims(s, e.node)
        OBVIOUS
      <4> QED BY <4>1, Zenon
    <3>2. Closes(s, e.node, u)
      BY <3>1 DEF Closes
    <3> QED BY <2>1, <3>1, <3>2, ClosedClaims, Zenon
  <2>3. /\ SameCourse(s, t)
        /\ t.outstanding = OtherClaims(s, e.node)
        /\ t.completed = s.completed \cup {e.node}
        /\ t.finalized = Append(s.finalized, e.node)
        /\ t.uncertain = s.uncertain
    <3>1. t = EffectFinalized(s, e.node)
      BY <1>2, <1>5 DEF Apply, FinalStatuses, Writable
    <3> QED BY <2>2, <3>1, Zenon DEF EffectFinalized, Shaped, Fields, SameCourse
  <2>4. /\ t.outstanding \in Seq(Claims)
        /\ \A i \in DOMAIN t.outstanding :
             /\ t.outstanding[i].node # e.node
             /\ t.outstanding[i].node \notin s.completed
    <3>1. Closes(s, e.node, t)
      BY <2>3 DEF Closes
    <3>2. t.outstanding \in Seq(Claims)
      BY <3>1, ClosedClaims, Zenon
    <3>3. \A i \in DOMAIN t.outstanding : t.outstanding[i].node # e.node
      <4>1. ~HasClaim(t, e.node)
        BY <3>1, ClosedClaims, Zenon
      <4> QED BY <4>1, Zenon DEF HasClaim
    <3>4. \A i \in DOMAIN t.outstanding :
            t.outstanding[i].node \notin s.completed
      BY <3>1, ClosedClaims, Zenon
    <3> QED BY <3>2, <3>3, <3>4, Zenon
  <2>5. e.node \notin s.completed
    BY <1>0, <2>1, Zenon DEF HasClaim
  <2>6. s.finalized \in Seq(Effects)
    BY <1>0 DEF Foldable
  <2>7. /\ t.finalized \in Seq(Effects)
        /\ t.completed = Listed(t.finalized)
        /\ Once(t.finalized)
    <3>1. t.finalized \in Seq(Effects)
      BY <1>2, <2>3, <2>6, AppendedIs, Zenon DEF Appended
    <3>2. /\ Listed(t.finalized) = Listed(s.finalized) \cup {e.node}
          /\ Once(s.finalized) /\ e.node \notin Listed(s.finalized) =>
               Once(t.finalized)
      BY <1>2, <2>3, <2>6, AppendLists, Zenon
    <3> QED BY <1>0, <2>3, <2>5, <3>1, <3>2, Zenon
  <2> QED BY <1>0, <2>3, <2>4, <2>7, Zenon
      DEF FoldOK, Foldable, SameCourse
<1>6. CASE e.kind \in {"effect_abandoned", "effect_uncertain"}
  <2>1. /\ SameCourse(s, t)
        /\ t.outstanding = OtherClaims(s, e.node)
        /\ t.completed = s.completed /\ t.finalized = s.finalized
        /\ t.uncertain = s.uncertain \/ t.uncertain = Append(s.uncertain, e.node)
    BY <1>2, <1>6, ApplyEffect, Zenon
  <2>2. /\ t.outstanding \in Seq(Claims)
        /\ \A i \in DOMAIN t.outstanding :
             t.outstanding[i].node \notin s.completed
    <3>1. Closes(s, e.node, t)
      BY <2>1, Zenon DEF Closes
    <3> QED BY <3>1, ClosedClaims, Zenon
  <2>3. t.uncertain \in Seq(Effects)
    <3>1. CASE t.uncertain = Append(s.uncertain, e.node)
      <4>1. s.uncertain \in Seq(Effects)
        BY <1>0, Zenon DEF Foldable
      <4>2. Appended(Effects, s.uncertain, e.node, t.uncertain)
        BY <1>2, <3>1, <4>1, AppendedIs, Zenon
      <4> QED BY <4>2, Zenon DEF Appended
    <3> QED BY <1>0, <2>1, <3>1, Zenon
  <2> QED BY <1>3, <2>1, <2>2, <2>3
<1> QED BY <1>4, <1>5, <1>6 DEF EffectKinds
\* What the log says of effects after an event about one.
LEMMA LogMoves ==
  ASSUME NEW x, NEW e, NEW s, NEW t, x.s = s, Shaped(s), FoldOK(s),
         EventFits(x, e), t = Apply(s, e), e.kind \in EffectKinds
  PROVE  /\ Writable(s) /\ SameCourse(s, t)
         /\ \A m : OnLog(s, m) /\ (m # e.node \/ e.kind # "effect_abandoned")
                     => OnLog(t, m)
         /\ e.kind = "effect_claimed" => HasClaim(t, e.node)
         /\ e.kind # "effect_claimed" =>
              /\ e.node \notin s.completed
              /\ \A m : HasClaim(t, m) => HasClaim(s, m)
         /\ e.kind = "effect_finalized" =>
              t.completed = s.completed \cup {e.node}
         /\ e.kind # "effect_finalized" => t.completed = s.completed
<1>1. Writable(s) /\ e.node \in Effects
  BY Zenon DEF EventFits, EffectKinds
<1>2. /\ s.outstanding \in Seq(Claims) /\ s.uncertain \in Seq(Effects)
      /\ \A i \in DOMAIN s.outstanding : s.outstanding[i].node \notin s.completed
  BY Zenon DEF FoldOK, Foldable
<1>3. CASE e.kind = "effect_claimed"
  <2> DEFINE c == [node |-> e.node, attempt |-> e.attempt, key |-> e.key]
  <2>1. /\ SameCourse(s, t) /\ t.outstanding = Append(s.outstanding, c)
        /\ t.completed = s.completed /\ t.uncertain = s.uncertain
    BY <1>1, <1>3, ApplyEffect, Zenon
  <2>2. c \in Claims /\ c.node = e.node
    BY <1>3, ClaimIsOne, Zenon DEF EventFits
  <2> HIDE DEF c
  <2>3. /\ \A i \in DOMAIN s.outstanding :
             i \in DOMAIN t.outstanding /\ t.outstanding[i] = s.outstanding[i]
        /\ Len(s.outstanding) + 1 \in DOMAIN t.outstanding
        /\ t.outstanding[Len(s.outstanding) + 1] = c
    <3>1. Appended(Claims, s.outstanding, c, t.outstanding)
      BY <1>2, <2>1, <2>2, AppendedIs, Zenon
    <3> QED BY <3>1, Zenon DEF Appended
  <2>4. \A m : HasClaim(s, m) => HasClaim(t, m)
    BY <2>3 DEF HasClaim
  <2>5. HasClaim(t, e.node)
    BY <2>2, <2>3 DEF HasClaim
  <2> QED BY <1>1, <1>3, <2>1, <2>4, <2>5, Zenon DEF OnLog, InDoubt
<1> SUFFICES ASSUME e.kind # "effect_claimed"
             PROVE  /\ SameCourse(s, t)
                    /\ \A m : OnLog(s, m)
                                /\ (m # e.node \/ e.kind # "effect_abandoned")
                              => OnLog(t, m)
                    /\ e.node \notin s.completed
                    /\ \A m : HasClaim(t, m) => HasClaim(s, m)
                    /\ e.kind = "effect_finalized" =>
                         t.completed = s.completed \cup {e.node}
                    /\ e.kind # "effect_finalized" => t.completed = s.completed
  BY <1>1, <1>3, Zenon
<1>4. HasClaim(s, e.node) /\ e.node \notin s.completed
  <2>1. HasClaim(s, e.node)
    BY Zenon DEF EventFits, EffectKinds
  <2> QED BY <1>2, <2>1, Zenon DEF HasClaim
<1>5. /\ SameCourse(s, t) /\ Closes(s, e.node, t)
      /\ e.kind = "effect_finalized" =>
           t.completed = s.completed \cup {e.node} /\ t.uncertain = s.uncertain
      /\ e.kind = "effect_abandoned" =>
           t.completed = s.completed /\ t.uncertain = s.uncertain
      /\ e.kind = "effect_uncertain" =>
           /\ t.completed = s.completed
           /\ t.uncertain = Append(s.uncertain, e.node)
  <2>1. CASE e.kind = "effect_finalized"
    <3>1. t = EffectFinalized(s, e.node)
      BY <1>1, <2>1 DEF Apply, FinalStatuses, Writable
    <3>2. PICK u : Closes(s, e.node, u)
      <4>1. [outstanding |-> OtherClaims(s, e.node)].outstanding
              = OtherClaims(s, e.node)
        OBVIOUS
      <4> QED BY <4>1, Zenon DEF Closes
    <3>3. OtherClaims(s, e.node) # s.outstanding
      BY <1>4, <3>2, ClosedClaims DEF Closes
    <3> QED BY <2>1, <3>1, <3>3, Zenon
        DEF EffectFinalized, Shaped, Fields, SameCourse, Closes
  <2>2. CASE e.kind = "effect_abandoned"
    <3>1. t = EffectAbandoned(s, e.node)
      BY <1>1, <2>2 DEF Apply, FinalStatuses, Writable
    <3> QED BY <2>2, <3>1
        DEF EffectAbandoned, Shaped, Fields, SameCourse, Closes
  <2>3. CASE e.kind = "effect_uncertain"
    <3>1. t = EffectUncertain(s, e.node)
      BY <1>1, <2>3 DEF Apply, FinalStatuses, Writable
    <3> QED BY <2>3, <3>1, Zenon
        DEF EffectUncertain, Shaped, Fields, SameCourse, Closes
  <2> QED BY <2>1, <2>2, <2>3, Zenon DEF EffectKinds
<1>6. \A m : /\ m # e.node => (HasClaim(t, m) <=> HasClaim(s, m))
             /\ HasClaim(t, m) => HasClaim(s, m)
  <2>1. ~HasClaim(t, e.node)
    BY <1>5, ClosedClaims, Zenon
  <2>2. \A m : m # e.node => (HasClaim(t, m) <=> HasClaim(s, m))
    BY <1>5, ClosedClaims, Zenon
  <2> QED BY <2>1, <2>2, Zenon
<1>7. \A m : InDoubt(s, m) => InDoubt(t, m)
  <2>1. CASE t.uncertain = s.uncertain
    BY <2>1 DEF InDoubt
  <2>2. CASE t.uncertain = Append(s.uncertain, e.node)
    <3>1. \A i \in DOMAIN s.uncertain :
            i \in DOMAIN t.uncertain /\ t.uncertain[i] = s.uncertain[i]
      <4>1. Appended(Effects, s.uncertain, e.node, t.uncertain)
        BY <1>1, <1>2, <2>2, AppendedIs, Zenon
      <4> QED BY <4>1, Zenon DEF Appended
    <3> QED BY <3>1, Zenon DEF InDoubt
  <2> QED BY <1>5, <2>1, <2>2, Zenon DEF EffectKinds
<1>8. e.kind = "effect_uncertain" => InDoubt(t, e.node)
  <2> SUFFICES ASSUME e.kind = "effect_uncertain" PROVE InDoubt(t, e.node)
    OBVIOUS
  <2>1. /\ Len(s.uncertain) + 1 \in DOMAIN t.uncertain
        /\ t.uncertain[Len(s.uncertain) + 1] = e.node
    <3>1. t.uncertain = Append(s.uncertain, e.node)
      BY <1>5, Zenon
    <3>2. Appended(Effects, s.uncertain, e.node, t.uncertain)
      BY <1>1, <1>2, <3>1, AppendedIs, Zenon
    <3> QED BY <3>2, Zenon DEF Appended
  <2> QED BY <2>1, Zenon DEF InDoubt
<1>9. s.completed \subseteq t.completed
  BY <1>5, Zenon DEF EffectKinds
<1>10. \A m : OnLog(s, m) /\ (m # e.node \/ e.kind # "effect_abandoned")
                => OnLog(t, m)
  BY <1>5, <1>6, <1>7, <1>8, <1>9, Zenon DEF OnLog, EffectKinds
<1> QED BY <1>4, <1>5, <1>6, <1>10, Zenon DEF EffectKinds
=============================================================================
