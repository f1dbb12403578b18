----------------------------- MODULE GraphWorker -----------------------------
(***************************************************************************)
(* Graph workers advancing one run: lease it, fold its log, answer its     *)
(* inbox, decide, carry the decision out, heartbeat, and so on until there *)
(* is nothing to do.  Every statement against the database, and every call *)
(* to the executor, is a step of its own: between any two of them the      *)
(* worker may die, or pause while its lease expires and another worker     *)
(* takes the run over.                                                     *)
(*                                                                         *)
(* The executor is the world outside the run.  It survives every crash,    *)
(* and it is where "the effect happened twice" is observed.                *)
(***************************************************************************)
EXTENDS RunLease, Decide

CONSTANTS
  Signals,      \* what may be delivered to the run's inbox
  MaxSignals,   \* bound: deliveries in all, duplicates included
  Requests,     \* events asked for from outside, each recorded at most once
  MaxFaults,    \* bound: crashes, lost leases, yields, unclear answers
  MaxFailures   \* bound: how often the executor fails one node

\* Only two kinds of event are asked for from outside; a suspension says what
\* to wait for.
ASSUME RequestAssumption ==
  \A e \in Requests :
    \/ e.kind = "cancellation_requested"
    \/ e.kind = "suspended" /\ e.wait.kind \in {"gate", "timer", "event"}

VARIABLES
  st,       \* the fold of the run's log
  ledger,   \* ir_effect_claims: the outcome in each row, by node and attempt
  wake,     \* ir_runs.wake_at_millis, as time left; empty is NULL
  inbox,    \* ir_run_signals, in the order of their ids
  wk,       \* what each worker holds in memory
  world,    \* what happened outside the run
  asks,     \* requests not recorded yet
  faults,   \* faults left
  quiet     \* the last fold found nothing to do and nothing changed since

runVars == <<st, ledger, wake, inbox, world, asks>>
vars == <<leaseVars, runVars, wk, faults, quiet>>

\* A worker between passes.
Idling == [pc |-> "idle", plan |-> Idle, queue |-> <<>>, wait |-> NoWait,
           todo |-> {}, resumed |-> FALSE]

Pc(w) == wk[w].pc
Become(w, record) == wk' = [wk EXCEPT ![w] = record]
At(pc) == [Idling EXCEPT !.pc = pc]

Pending == {i \in DOMAIN inbox : inbox[i].outcome = "pending"}

-----------------------------------------------------------------------------
(* What the database does with an appended event *)

RowOf(e) == <<e.node, e.attempt>>

\* The ledger trigger refuses to reopen an attempt that is finalized.
LedgerRefuses(e) ==
  /\ e.kind = "effect_claimed"
  /\ RowOf(e) \in DOMAIN ledger
  /\ ledger[RowOf(e)] = "finalized"

Inserted(row, outcome) ==
  [r \in DOMAIN ledger \cup {row} |-> IF r = row THEN outcome ELSE ledger[r]]

\* An UPDATE: it matches the row or it changes nothing.
Updated(row, outcome) ==
  [r \in DOMAIN ledger |-> IF r = row THEN outcome ELSE ledger[r]]

\* A ledger that only ever finalizes the first attempt.
LedgerAfterFirstOnly(e) ==
  CASE e.kind = "effect_claimed" -> Inserted(RowOf(e), "claimed")
    [] e.kind = "effect_finalized" /\ e.attempt = 0 ->
         Updated(RowOf(e), "finalized")
    [] OTHER -> ledger

\* The ledger trigger: one row per attempt, inserted by its first claim.
LedgerAfter(e) ==
  CASE e.kind = "effect_claimed" -> Inserted(RowOf(e), "claimed")
    [] e.kind = "effect_finalized" -> Updated(RowOf(e), "finalized")
    [] e.kind = "effect_abandoned" -> Updated(RowOf(e), "abandoned")
    [] e.kind = "effect_uncertain" -> Updated(RowOf(e), "uncertain")
    [] OTHER -> ledger

\* A projection that leaves the wake time of a wait that is over.
WakeAfterStale(e) ==
  IF e.kind = "suspended" /\ e.wait.kind = "timer" THEN <<e.wait.left>>
  ELSE wake

\* The status trigger rewrites the wake time whenever it writes the status.
WakeAfter(e) ==
  CASE e.kind = "suspended" ->
         IF e.wait.kind = "timer" THEN <<e.wait.left>> ELSE <<>>
    [] e.kind \in {"started", "node_started", "resumed"} \cup Terminal -> <<>>
    [] OTHER -> wake

\* An event lands: the log, the row and the two projections move together.
Record(w, e) ==
  /\ AppendEvent(w, e.kind)
  /\ st' = Apply(st, e)
  /\ ledger' = LedgerAfter(e)
  /\ wake' = WakeAfter(e)
  /\ quiet' = FALSE

-----------------------------------------------------------------------------
(* Carrying a decision out: the events written before the executor is      *)
(* called ("opening"), the call ("execute"), the events after ("closing")  *)

Opening(events) == [At("opening") EXCEPT !.queue = events]
Closing(events) == [At("closing") EXCEPT !.queue = events]

NodeEvent(kind, n) == [kind |-> kind, node |-> n]
Failed(n, failure) ==
  [kind |-> "node_failed", node |-> n, failure |-> failure]
EffectEvent(kind, d) ==
  [kind |-> kind, node |-> d.node, attempt |-> d.attempt]
Claim(d) == [kind |-> "effect_claimed", node |-> d.node,
             attempt |-> d.attempt, key |-> d.key]

\* perform_effect that asks the far side first and claims afterwards.
CarryOutUnclaimed(d) ==
  CASE d.do = "start" -> Closing(<<[kind |-> "started"]>>)
    [] d.do = "perform" ->
         [Opening(<<NodeEvent("node_started", d.node)>>) EXCEPT !.plan = d]
    [] OTHER -> At("release")

CarryOut(d) ==
  CASE d.do = "start" -> Closing(<<[kind |-> "started"]>>)
    [] d.do = "start_node" ->
         [Opening(<<NodeEvent("node_started", d.node)>>) EXCEPT !.plan = d]
    [] d.do = "perform" ->
         [Opening(IF d.opened THEN <<Claim(d)>>
                  ELSE <<NodeEvent("node_started", d.node), Claim(d)>>)
            EXCEPT !.plan = d]
    [] d.do = "compensate" -> [At("execute") EXCEPT !.plan = d]
    [] d.do = "halt" -> Closing(<<EffectEvent("effect_uncertain", d)>>)
    [] d.do = "stop_loop" ->
         Closing(<<[kind |-> "loop_stopped", region |-> d.region,
                    reason |-> d.reason]>>)
    [] d.do = "start_iteration" ->
         Closing(<<[kind |-> "iteration_started", region |-> d.region]>>)
    [] d.do = "finish_iteration" ->
         Closing(<<[kind |-> "iteration_finished", region |-> d.region,
                    record |-> d.record]>>)
    [] d.do = "time_out" ->
         Closing(<<Failed(d.node, "budget_exhaustion")>>)
    [] d.do = "cancel" -> Closing(<<[kind |-> "cancelled"]>>)
    [] d.do = "suspend" ->
         Closing(<<[kind |-> "suspended", wait |-> d.wait]>>)
    [] d.do = "resume_wait" -> Closing(<<[kind |-> "resumed"]>>)
    [] d.do = "complete" -> Closing(<<[kind |-> "completed"]>>)
    [] d.do = "fail" -> Closing(<<[kind |-> "failed"]>>)
    [] OTHER -> At("release")  \* idle, or a reading is missing

-----------------------------------------------------------------------------
(* A pass *)

\* A query that leaves waking to signals.
HasWorkSignalsOnly == status = "waiting" => Pending # {}

\* lease_next_ir_run: a waiting run is taken only when its timer is due or
\* its inbox holds something.
HasWork == status = "waiting" => wake = <<0>> \/ Pending # {}

LeaseRun(w) ==
  /\ Pc(w) = "idle"
  /\ ~quiet
  /\ HasWork
  /\ TakeLease(w)
  /\ Become(w, At("leased"))
  /\ UNCHANGED <<runVars, faults, quiet>>

\* A cancellation or a suspension asked for from outside is an event like any
\* other: whoever records it takes the lease to do so.
LeaseToRecord(w) ==
  /\ Pc(w) = "idle"
  /\ HasWork
  /\ TakeLease(w)
  /\ st.ok /\ st.status \in {"queued", "running"}
  /\ \E e \in asks : /\ e.kind = "suspended" => st.status = "running"
                     /\ asks' = asks \ {e}
                     /\ Become(w, Closing(<<e>>))
  /\ UNCHANGED <<st, ledger, wake, inbox, world, faults, quiet>>

\* Fold the log and, on that snapshot, decide.  Nothing else is read from the
\* snapshot but what the run waits on.  A log that does not fold is an error.
Fold(w) ==
  /\ Pc(w) \in {"leased", "fold"}
  /\ \E d \in {IF st.ok THEN Decide(st) ELSE Idle} :
       /\ Become(w, IF MaxSignals = 0 \/ ~st.ok THEN CarryOut(d)
                    ELSE [At("inbox") EXCEPT !.plan = d,
                                             !.wait = st.waitingOn])
       /\ quiet' = /\ CarryOut(d).pc = "release"
                   /\ Pending = {} \/ st.waitingOn = NoWait \/ ~st.ok
  /\ UNCHANGED <<leaseVars, runVars, faults>>

\* pending_ir_run_signals.
ReadInbox(w) ==
  /\ Pc(w) = "inbox"
  /\ Become(w, IF Pending = {} THEN CarryOut(wk[w].plan)
               ELSE [wk[w] EXCEPT
                       !.pc = "answer", !.todo = Pending])
  /\ UNCHANGED <<leaseVars, runVars, faults, quiet>>

\* wait::resume without the gate's authority check.
VerdictUngated(wait, signal) ==
  CASE wait.kind = "none" -> "not_waiting"
    [] wait.kind = "timer" /\ signal.kind = "timer" ->
         IF wait.left = 0 THEN "resumed" ELSE "refused"
    [] wait.kind = "event" /\ signal.kind = "event" ->
         IF wait.name = signal.subject THEN "resumed" ELSE "refused"
    [] wait.kind = "gate" /\ signal.kind = "human" ->
         IF wait.to = signal.subject THEN "resumed" ELSE "refused"
    [] OTHER -> "refused"

\* wait::resume.
Verdict(wait, signal) ==
  CASE wait.kind = "none" -> "not_waiting"
    [] wait.kind = "timer" /\ signal.kind = "timer" ->
         IF wait.left = 0 THEN "resumed" ELSE "refused"
    [] wait.kind = "event" /\ signal.kind = "event" ->
         IF wait.name = signal.subject THEN "resumed" ELSE "refused"
    [] wait.kind = "gate" /\ signal.kind = "human" ->
         IF wait.to = signal.subject /\ signal.subject \in signal.authorities
         THEN "resumed" ELSE "refused"
    [] OTHER -> "refused"

\* The signals it read are answered in the order of their ids.
FirstSignal(me) == Least(me.todo)

\* The worker after it is done with the first of them.
NextSignal(me) ==
  IF me.todo # {FirstSignal(me)}
  THEN [me EXCEPT !.pc = "answer", !.todo = @ \ {FirstSignal(me)}]
  ELSE IF me.resumed THEN At("fold")
  ELSE CarryOut(me.plan)

\* consume_ir_run_signal: only a signal nobody consumed.
Consume(i, outcome) ==
  inbox' = [inbox EXCEPT ![i].outcome = IF @ = "pending" THEN outcome ELSE @]

\* answer_signals, one signal: kept, refused, or tried as the answer to what
\* the snapshot waits on.  A refused append drops the rest of the inbox and
\* goes on to the decision.
AnswerSignal(w) ==
  LET me == wk[w]
      i == FirstSignal(me)
      verdict == IF me.resumed THEN "refused" ELSE Verdict(me.wait, inbox[i])
  IN
  /\ Pc(w) = "answer"
  /\ UNCHANGED <<world, asks, faults>>
  /\ \/ /\ verdict = "not_waiting"
        /\ Become(w, NextSignal(me))
        /\ UNCHANGED <<leaseVars, st, ledger, wake, inbox, quiet>>
     \/ /\ verdict = "refused"
        /\ Consume(i, "refused")
        /\ Become(w, NextSignal(me))
        /\ UNCHANGED <<leaseVars, st, ledger, wake, quiet>>
     \/ /\ verdict = "resumed" /\ Current(w)
        /\ Record(w, [kind |-> "resumed"])
        /\ inbox' = [inbox EXCEPT ![i].resumes = @ + 1]
        /\ Become(w, [me EXCEPT !.pc = "consume", !.resumed = TRUE])
     \/ /\ verdict = "resumed" /\ ~Current(w)
        /\ Become(w, CarryOut(me.plan))
        /\ UNCHANGED <<leaseVars, st, ledger, wake, inbox, quiet>>

\* The signal that resumed the run is marked, in a statement of its own.
ConsumeSignal(w) ==
  /\ Pc(w) = "consume"
  /\ Consume(FirstSignal(wk[w]), "resumed")
  /\ Become(w, NextSignal(wk[w]))
  /\ UNCHANGED <<leaseVars, st, ledger, wake, world, asks, faults, quiet>>

\* An append without the epoch in its predicate.
AppendStepUnfenced(w) ==
  LET me == wk[w]
      e == Head(me.queue)
  IN
  /\ Pc(w) \in {"opening", "closing"}
  /\ WriteEvent(w, e.kind)
  /\ st' = Apply(st, e)
  /\ ledger' = LedgerAfter(e)
  /\ wake' = WakeAfter(e)
  /\ Become(w, CASE Len(me.queue) > 1 -> [me EXCEPT !.queue = Tail(@)]
                 [] me.pc = "opening" ->
                      [me EXCEPT !.queue = <<>>, !.pc = "execute"]
                 [] OTHER -> At("beat"))
  /\ quiet' = FALSE
  /\ UNCHANGED <<held, inbox, world, asks, faults>>

\* The next event of the plan.  A superseded epoch ends the pass without
\* releasing; an error of the database releases.
AppendStep(w) ==
  LET me == wk[w]
      e == Head(me.queue)
      rest == [me EXCEPT !.queue = Tail(@)]
  IN
  /\ Pc(w) \in {"opening", "closing"}
  /\ UNCHANGED <<inbox, world, asks, faults>>
  /\ IF ~Current(w)
     THEN /\ DropLease(w)
          /\ Become(w, Idling)
          /\ UNCHANGED <<st, ledger, wake, quiet>>
     ELSE IF LedgerRefuses(e)
     THEN /\ Become(w, At("release"))
          /\ UNCHANGED <<leaseVars, st, ledger, wake, quiet>>
     ELSE /\ Record(w, e)
          /\ Become(w, CASE Len(me.queue) > 1 -> rest
                         [] Len(me.queue) = 1 /\ me.pc = "opening" ->
                              [rest EXCEPT !.pc = "execute"]
                         [] OTHER -> At("beat"))

-----------------------------------------------------------------------------
(* The executor *)

\* Executor::run_node: the node finishes with some readings, or fails.
RunNode(w) ==
  LET n == wk[w].plan.node IN
  /\ Pc(w) = "execute" /\ wk[w].plan.do = "start_node"
  /\ \/ \E control \in Def.reports[n] :
          Become(w, Closing(<<[kind |-> "node_finished", node |-> n,
                               control |-> control]>>))
     \/ \E failure \in Def.fails[n] :
          /\ Len(st.failures[n]) < MaxFailures
          /\ Become(w, Closing(<<Failed(n, failure)>>))
  /\ UNCHANGED <<leaseVars, runVars, faults, quiet>>

\* The effect takes place, unless the far side has acted on its key before.
TakesPlace(d) ==
  IF d.key # NoKey /\ d.key \in world.keys[d.node] THEN world
  ELSE [world EXCEPT !.did[d.node] = @ + 1,
                     !.keys[d.node] = @ \cup {d.key}]

\* Executor::perform_effect: performed; refused, which an honest executor says
\* only of an effect that has not taken place; or nobody knows.
PerformEffect(w) ==
  LET d == wk[w].plan IN
  /\ Pc(w) = "execute" /\ d.do = "perform"
  /\ \/ /\ world' = TakesPlace(d)
        /\ Become(w, Closing(
             <<EffectEvent("effect_finalized", d),
               [kind |-> "node_finished", node |-> d.node,
                control |-> NoControl]>>))
        /\ UNCHANGED faults
     \/ /\ world.did[d.node] = 0
        /\ \E failure \in Def.fails[d.node] :
             Become(w, Closing(<<EffectEvent("effect_abandoned", d),
                                 Failed(d.node, failure)>>))
        /\ world' = [world EXCEPT !.refused = @ \cup {d.node}]
        /\ UNCHANGED faults
     \/ /\ faults > 0
        /\ faults' = faults - 1
        /\ world' \in {world, TakesPlace(d)}
        /\ Become(w, At("beat"))
  /\ UNCHANGED <<leaseVars, st, ledger, wake, inbox, asks, quiet>>

\* Executor::compensate, called before anything is written.  One that failed,
\* or may have, ends the run.
CompensateEffect(w) ==
  LET n == wk[w].plan.node
      undo == [world EXCEPT !.undone[n] = @ + 1]
  IN
  /\ Pc(w) = "execute" /\ wk[w].plan.do = "compensate"
  /\ \/ /\ world' = undo
        /\ Become(w, Closing(<<NodeEvent("compensated", n)>>))
        /\ UNCHANGED faults
     \/ /\ faults > 0
        /\ faults' = faults - 1
        /\ world' \in {[world EXCEPT !.stuck = TRUE],
                       [undo EXCEPT !.stuck = TRUE]}
        /\ Become(w, Closing(<<[kind |-> "failed"]>>))
  /\ UNCHANGED <<leaseVars, st, ledger, wake, inbox, asks, quiet>>

-----------------------------------------------------------------------------
(* The end of a step and of a pass *)

Heartbeat(w) ==
  /\ Pc(w) = "beat"
  /\ \/ /\ ExtendLease(w)
        /\ Become(w, At("fold"))
     \/ /\ ~StillHeld(w)
        /\ DropLease(w)
        /\ Become(w, Idling)
  /\ UNCHANGED <<runVars, faults, quiet>>

\* steps_per_lease is spent: the pass ends with work left.
Yield(w) ==
  /\ Pc(w) = "fold" /\ faults > 0
  /\ faults' = faults - 1
  /\ Become(w, At("release"))
  /\ UNCHANGED <<leaseVars, runVars, quiet>>

Release(w) ==
  /\ Pc(w) = "release"
  /\ ReleaseLease(w)
  /\ Become(w, Idling)
  /\ UNCHANGED <<runVars, faults, quiet>>

Crash(w) ==
  /\ Pc(w) # "idle" /\ faults > 0
  /\ faults' = faults - 1
  /\ DropLease(w)
  /\ Become(w, Idling)
  /\ UNCHANGED <<runVars, quiet>>

HolderAlive == \E w \in Workers : held[w] # 0 /\ Current(w)

\* The lease of a dead worker runs out; a slow worker's may too.
Expire ==
  /\ ExpireLease
  /\ IF HolderAlive THEN faults > 0 /\ faults' = faults - 1
                    ELSE UNCHANGED faults
  /\ UNCHANGED <<runVars, wk, quiet>>

-----------------------------------------------------------------------------
(* Outside *)

\* deliver_ir_run_signal.
Deliver(signal) ==
  /\ Len(inbox) < MaxSignals
  /\ inbox' = Append(inbox, [kind |-> signal.kind, subject |-> signal.subject,
                             authorities |-> signal.authorities,
                             outcome |-> "pending", resumes |-> 0])
  /\ quiet' = FALSE
  /\ UNCHANGED <<leaseVars, st, ledger, wake, world, asks, wk, faults>>

\* Time passes, where the run remembers a time.
Tick ==
  /\ ~IsTerminal(st)
  /\ st' = Older(st)
  /\ wake' = IF wake # <<>> /\ wake[1] > 0 THEN <<wake[1] - 1>> ELSE wake
  /\ st' # st
  /\ quiet' = FALSE
  /\ UNCHANGED <<leaseVars, ledger, inbox, world, asks, wk, faults>>

-----------------------------------------------------------------------------
Init ==
  /\ LeaseInit
  /\ st = Admitted
  /\ ledger = <<>>
  /\ wake = <<>>
  /\ inbox = <<>>
  /\ wk = [w \in Workers |-> Idling]
  /\ world = [did |-> [n \in Effects |-> 0], keys |-> [n \in Effects |-> {}],
              undone |-> [n \in Effects |-> 0], refused |-> {},
              stuck |-> FALSE]
  /\ asks = Requests
  /\ faults = MaxFaults
  /\ quiet = FALSE

\* The steps of a worker that is left alone.
Advance(w) ==
  \/ LeaseRun(w) \/ Fold(w) \/ ReadInbox(w) \/ AnswerSignal(w)
  \/ ConsumeSignal(w) \/ AppendStep(w) \/ RunNode(w) \/ PerformEffect(w)
  \/ CompensateEffect(w) \/ Heartbeat(w) \/ Release(w)

Next ==
  \/ \E w \in Workers :
       Advance(w) \/ LeaseToRecord(w) \/ Yield(w) \/ Crash(w)
  \/ \E signal \in Signals : Deliver(signal)
  \/ Expire
  \/ Tick

Spec == Init /\ [][Next]_vars

\* Weak fairness of Advance(w), with ENABLED written out: a worker inside a
\* pass always has a step, one between passes has one when there is a lease to
\* take.  Each of its steps changes its record, and what else does (crashes,
\* yields, requests) is bounded.
CanAdvance(w) ==
  Pc(w) = "idle" =>
    status \in Leasable /\ LeaseFree /\ epoch < MaxEpoch /\ ~quiet /\ HasWork

KeepsGoing(w) == []<>~CanAdvance(w) \/ []<><<wk'[w] # wk[w]>>_vars

\* Workers keep going, the leases of dead workers run out, time passes.
FairSpec ==
  /\ Spec
  /\ \A w \in Workers : KeepsGoing(w)
  /\ WF_vars(Expire /\ ~HolderAlive)
  /\ WF_vars(Tick)

-----------------------------------------------------------------------------
(* Properties *)

\* The log of a run that is advanced only by workers always folds, whatever
\* crashed in between: RunState::fold never returns an error.
LogFolds == st.ok

\* An effect the definition does not call idempotent takes place at most once,
\* across crashes, takeovers and unclear answers: a non-idempotent one because
\* decide_outstanding_effect stops the run, a keyed one because the retry
\* presents the key of the claim.
ProtectedEffectOnce ==
  \A n \in Effects : Def.idem[n] # "idempotent" => world.did[n] <= 1

\* Whatever took place outside is on the log: finalized, claimed and open, or
\* uncertain.  The exception is an effect some worker was refused, where a
\* slower one may still be asking for it.
EffectsAccountedFor ==
  \A n \in Effects : world.did[n] > 0 =>
    \/ n \in st.completed \cup world.refused
    \/ \E i \in DOMAIN st.outstanding : st.outstanding[i].node = n
    \/ \E i \in DOMAIN st.uncertain : st.uncertain[i] = n

\* A run ends with no claim open; a failed or cancelled one has undone every
\* reversible effect it finalized, unless undoing one is what failed; a
\* completed one finished every node and is sure of every effect.
EndsSettled ==
  /\ IsTerminal(st) => st.outstanding = <<>>
  /\ st.status \in {"failed", "cancelled"} => Owed(st) = {} \/ world.stuck
  /\ st.status = "completed" =>
       /\ Nodes \subseteq st.finished
       /\ st.uncertain = <<>>
       /\ \A r \in Regions : st.loops[r].stopped = "condition_false"

\* Compensations are recorded in the reverse of the order of the effects.
CompensatedInReverse ==
  [][\A n \in st'.compensated \ st.compensated :
       \A i, j \in DOMAIN st.finalized :
         /\ i < j
         /\ st.finalized[i] = n
         /\ st.finalized[j] \in Def.reversible
         => st.finalized[j] \in st.compensated]_vars

\* Once a cancellation is on the log no effect is claimed that was not open
\* already, not even by a worker that decided before it.
NoNewEffectOnceCancelled ==
  [][st.cancel /\ Len(st'.outstanding) > Len(st.outstanding) =>
       LET c == st'.outstanding[Len(st'.outstanding)]
       IN  \E i \in DOMAIN st.outstanding : st.outstanding[i].node = c.node
    ]_vars

\* The columns the status trigger maintains say what the fold of the log says:
\* the lease query and the API read the one, the workers act on the other.
RowAgrees ==
  st.ok =>
    /\ status = st.status
    /\ wake = IF st.status = "waiting" /\ st.waitingOn.kind = "timer"
              THEN <<st.waitingOn.left>> ELSE <<>>

\* The ledger has a finalized attempt of exactly the effects the fold calls
\* completed.
LedgerFinalizes ==
  \A n \in Effects :
    n \in st.completed <=>
      \E row \in DOMAIN ledger : row[1] = n /\ ledger[row] = "finalized"

\* The ledger lists a claim as open exactly when the fold does.
LedgerAgrees ==
  \A n \in Effects :
    (\E row \in DOMAIN ledger : row[1] = n /\ ledger[row] = "claimed")
      <=> \E i \in DOMAIN st.outstanding : st.outstanding[i].node = n

\* A node downstream of a loop starts only once the loop has stopped because
\* its condition is false: one iteration's output is not the loop's, and nothing
\* goes on from a loop that stopped for any other reason.
DownstreamWaitsForLoop ==
  \A r \in Regions : \A n \in (st.running \cup st.finished) \ Def.members[r] :
    Def.pred[n] \cap Def.members[r] # {} =>
      st.loops[r].stopped = "condition_false"

\* A loop goes round no more often than declared, and says why it stopped: a
\* false condition only on a reading that says so, the iteration budget only
\* when that is spent and the condition still holds.
LoopStopsForItsReason ==
  \A r \in Regions :
    LET p == st.loops[r]
        go == st.control[Def.continuedBy[r]].go
    IN  /\ p.started <= Def.budget[r].iterations
        /\ p.stopped = "condition_false" => go = <<FALSE>> /\ ~IsOpen(st, r)
        /\ p.stopped = "iterations" =>
             go = <<TRUE>> /\ p.finished = Def.budget[r].iterations

\* While an iteration is open, a member that has not finished in it offers no
\* reading: nothing left over from the iteration before can be acted on.
ReadingsAreFresh ==
  \A r \in Regions : IsOpen(st, r) =>
    \A n \in Def.members[r] \ st.finished : st.control[n] = NoControl

\* The signal is what the wait is for, from someone who may give it.
Answers(wait, signal) ==
  \/ /\ wait.kind = "event" /\ signal.kind = "event"
     /\ signal.subject = wait.name
  \/ /\ wait.kind = "gate" /\ signal.kind = "human"
     /\ signal.subject = wait.to
     /\ wait.to \in signal.authorities

\* A wait ends only by what it waits for: a timer that is due, the event it
\* names, or a decision delivered by someone who holds the gate's authority.
ResumedForItsReason ==
  [][st.waitingOn # NoWait /\ st'.waitingOn = NoWait =>
       \/ st.waitingOn.kind = "timer" /\ st.waitingOn.left = 0
       \/ \E i \in DOMAIN inbox : Answers(st.waitingOn, inbox[i])]_vars

\* An event or a decision is not turned away while the run waits for exactly
\* that.  (A timer signal may be: the stored wake time does its work.)
NotRefusedWhileAwaited ==
  [][\A i \in DOMAIN inbox :
       /\ inbox[i].outcome = "pending" /\ inbox'[i].outcome = "refused"
       => ~Answers(st.waitingOn, inbox[i])]_vars

\* One signal resumes the run at most once.
SignalResumesOnce == \A i \in DOMAIN inbox : inbox[i].resumes <= 1

\* A timer that is waited for wakes the run, with no signal and no worker that
\* remembers it: the stored wake time makes the run leasable again.
TimerWakes == st.waitingOn.kind = "timer" ~> st.waitingOn.kind # "timer"

\* Every run ends.
RunEnds == <>IsTerminal(st)
=============================================================================
