------------------------------- MODULE Decide -------------------------------
(***************************************************************************)
(* The decision core: a pure function from a folded run to the one thing   *)
(* the worker may do next.  Each rule of `decide_next` is a set with at    *)
(* most one decision; the rules are tried in the code's order and the      *)
(* first that has something to say is the answer.                          *)
(***************************************************************************)
EXTENDS RunState

Least(S) == CHOOSE x \in S : \A y \in S : x <= y

\* The first element, in canonical order, for which Rule says something.
FirstOf(S, Rule(_)) ==
  LET speaks == {x \in S : Rule(x) # {}}
  IN  IF speaks = {} THEN {} ELSE Rule(Least(speaks))

Idle == [do |-> "idle"]
Fail(reason) == [do |-> "fail", reason |-> reason]
StartNode(n) == [do |-> "start_node", node |-> n]
StopLoop(r, reason) == [do |-> "stop_loop", region |-> r, reason |-> reason]

-----------------------------------------------------------------------------
(* Effects *)

NoKey == <<>>

\* key_for: what the key is derived from; different lists, different keys.
KeyFor(n, attempt) ==
  CASE Def.keySource[n] = "run" -> <<0>>
    [] Def.keySource[n] = "run_node" -> <<0, n>>
    [] Def.keySource[n] = "run_node_attempt" -> <<0, n, attempt>>

\* EffectAttempt::claim: only a keyed effect carries a key.
FreshKey(n, attempt) ==
  IF Def.idem[n] = "keyed" THEN KeyFor(n, attempt) ELSE NoKey

\* A retry that opens the node again.
PerformReopens(s, n, attempt, key) ==
  [do |-> "perform", node |-> n, attempt |-> attempt, key |-> key,
   opened |-> FALSE]

\* PerformEffect and RetryClaimedEffect, with what perform_effect reads from
\* the snapshot: the attempt's key and whether the node is already open.
Perform(s, n, attempt, key) ==
  [do |-> "perform", node |-> n, attempt |-> attempt, key |-> key,
   opened |-> n \in s.running]

\* A recovery that repeats whatever it finds.
OutstandingRuleRepeats(s) ==
  IF s.outstanding = <<>> THEN {}
  ELSE LET c == Head(s.outstanding)
       IN  {Perform(s, c.node, c.attempt, c.key)}

\* decide_outstanding_effect, with EffectAttempt::recovered.
OutstandingRule(s) ==
  IF s.outstanding = <<>> THEN {}
  ELSE LET c == Head(s.outstanding) IN
       CASE Def.idem[c.node] = "idempotent" ->
              {Perform(s, c.node, c.attempt + 1, c.key)}
         [] Def.idem[c.node] = "keyed" ->
              {Perform(s, c.node, c.attempt, c.key)}
         [] Def.idem[c.node] = "non_idempotent" ->
              {[do |-> "halt", node |-> c.node, attempt |-> c.attempt]}

UncertainRule(s) ==
  IF s.uncertain = <<>> THEN {} ELSE {Fail("effect_uncertain")}

\* pending_compensations, as positions in the finalization order.
Owed(s) ==
  {i \in DOMAIN s.finalized :
     s.finalized[i] \in Def.reversible \ s.compensated}

\* A list in the order the effects were done, not undone.
CompensateOldest(s) ==
  IF Owed(s) = {} THEN {}
  ELSE {[do |-> "compensate", node |-> s.finalized[Least(Owed(s))]]}

\* The first of pending_compensations: the most recent.
Compensate(s) ==
  IF Owed(s) = {} THEN {}
  ELSE LET i == CHOOSE j \in Owed(s) : \A k \in Owed(s) : k <= j
       IN  {[do |-> "compensate", node |-> s.finalized[i]]}

SafeToStop(s) == s.outstanding = <<>>

CancelRule(s) ==
  IF ~s.cancel THEN {}
  ELSE IF Owed(s) # {} THEN Compensate(s)
  ELSE IF SafeToStop(s) THEN {[do |-> "cancel"]} ELSE {}

-----------------------------------------------------------------------------
(* Waiting, starting, deadlines *)

WaitRule(s) ==
  IF s.status # "waiting" THEN {}
  ELSE IF s.waitingOn.kind = "timer" /\ s.waitingOn.left = 0
       THEN {[do |-> "resume_wait"]}
       ELSE {Idle}

StartRule(s) == IF s.status = "queued" THEN {[do |-> "start"]} ELSE {}

TimeOutRule(s) ==
  FirstOf(s.running,
          LAMBDA n : IF Def.wall[n] > 0 /\ s.age[n] >= Def.wall[n]
                     THEN {[do |-> "time_out", node |-> n]} ELSE {})

\* A run without a deadline.
DeadlineRuleNever(s) == {}

DeadlineRule(s) ==
  IF Def.runWall > 0 /\ s.runAge >= Def.runWall
  THEN {Fail("budget_exhausted")} ELSE {}

-----------------------------------------------------------------------------
(* Loops *)

IsOpen(s, r) == s.loops[r].started > s.loops[r].finished
HasStopped(s, r) == s.loops[r].stopped # "no"

\* loops::exhausted.  Workers record no tokens and no cost, so those two
\* budgets are never reached.
Exhausted(s, r) ==
  IF s.spentWall >= Def.budget[r].wall THEN {"wall_time"}
  ELSE IF Def.budget[r].effects > 0 /\ s.spentEffects >= Def.budget[r].effects
  THEN {"effects"}
  ELSE {}

NonProgress(s, r) ==
  LET p == s.loops[r]
      moved == p.last # <<>> /\ p.previous # <<>> /\ p.last # p.previous
      forward == CASE Def.direction[r] = "decreasing" -> p.last[1] < p.previous[1]
                   [] Def.direction[r] = "increasing" -> p.last[1] > p.previous[1]
  IN  Def.measuredBy[r] # {} /\ (p.stalled >= 2 \/ (moved /\ ~forward))

\* A loop that stopped counts as done, whatever stopped it.
LoopRuleOfForgiving(s, r) ==
  IF HasStopped(s, r) THEN {}
  ELSE IF s.loops[r].failedInvariant THEN {StopLoop(r, "invariant_failed")}
  ELSE {}

\* decide_loop, for one region.
LoopRuleOf(s, r) ==
  IF s.loops[r].stopped = "condition_false" THEN {}
  ELSE IF HasStopped(s, r) THEN {Fail("loop_stopped")}
  ELSE IF Exhausted(s, r) # {}
  THEN {StopLoop(r, CHOOSE b \in Exhausted(s, r) : TRUE)}
  ELSE IF s.loops[r].failedInvariant THEN {StopLoop(r, "invariant_failed")}
  ELSE IF NonProgress(s, r) THEN {StopLoop(r, "non_progress")}
  ELSE {}

LoopRule(s) == FirstOf(Regions, LAMBDA r : LoopRuleOf(s, r))

\* loops::repair and apply_repair.
Repair(s, r, n) ==
  LET failure == LastFailure(s, n)
      route == Def.routes[r][failure]
  IN
  IF failure \notin DOMAIN Def.routes[r] THEN Fail("node")
  ELSE CASE route.do = "retry" ->
              IF FailureCount(s, n, failure) > route.attempts
              THEN StopLoop(r, "repair_exhausted")
              ELSE StartNode(route.node)
         [] route.do = "repair" -> StartNode(route.node)
         [] route.do = "escalate" ->
              [do |-> "suspend", wait |-> Gate(n, route.to)]
         [] route.do = "reject" -> Fail("node")

\* decide_failure, for the first failure nobody has answered.
FailureRule(s) ==
  FirstOf(Unresolved(s),
          LAMBDA n :
            IF \E r \in RegionsOf(n) : ~HasStopped(s, r)
            THEN {Repair(s, r, n) : r \in RegionsOf(n)}
            ELSE {Fail("node")})

RegionReachable(s, r) ==
  Def.pred[Def.entry[r]] \ Def.members[r] \subseteq s.finished

IterationsExhausted(s, r) ==
  s.loops[r].started >= Def.budget[r].iterations

StartIteration(r) == [do |-> "start_iteration", region |-> r]

\* finish_iteration reads the record from the snapshot; a reading nobody
\* reported makes it an error of the worker and nothing is written.
FinishIteration(s, r) ==
  LET invariants == {s.control[n].inv : n \in Def.invariantsBy[r]}
      measures == {s.control[n].measure : n \in Def.measuredBy[r]}
  IN
  IF <<>> \in invariants \/ <<>> \in measures THEN [do |-> "control_missing"]
  ELSE [do |-> "finish_iteration", region |-> r,
        record |-> [held |-> <<FALSE>> \notin invariants,
                    measure |-> IF measures = {} THEN <<>>
                                ELSE CHOOSE m \in measures : TRUE,
                    wall |-> s.loops[r].age]]

\* decide_one_loop with the count checked before the continuation is read.
IterationRuleOfCountFirst(s, r) ==
  LET go == s.control[Def.continuedBy[r]].go IN
  IF HasStopped(s, r) THEN {}
  ELSE IF IsOpen(s, r)
  THEN IF Def.exit[r] \in s.finished THEN {FinishIteration(s, r)} ELSE {}
  ELSE IF s.loops[r].finished = 0
  THEN IF RegionReachable(s, r) THEN {StartIteration(r)} ELSE {}
  ELSE IF IterationsExhausted(s, r) THEN {StopLoop(r, "iterations")}
  ELSE IF go = <<>> THEN {Fail("control_missing")}
  ELSE IF go = <<FALSE>> THEN {StopLoop(r, "condition_false")}
  ELSE {StartIteration(r)}

\* decide_one_loop.
IterationRuleOf(s, r) ==
  LET go == s.control[Def.continuedBy[r]].go IN
  IF HasStopped(s, r) THEN {}
  ELSE IF IsOpen(s, r)
  THEN IF Def.exit[r] \in s.finished THEN {FinishIteration(s, r)} ELSE {}
  ELSE IF s.loops[r].finished = 0
  THEN IF RegionReachable(s, r) THEN {StartIteration(r)} ELSE {}
  ELSE IF go = <<>> THEN {Fail("control_missing")}
  ELSE IF go = <<FALSE>> THEN {StopLoop(r, "condition_false")}
  ELSE IF IterationsExhausted(s, r) THEN {StopLoop(r, "iterations")}
  ELSE {StartIteration(r)}

IterationRule(s) == FirstOf(Regions, LAMBDA r : IterationRuleOf(s, r))

-----------------------------------------------------------------------------
(* Ordinary nodes *)

\* predecessor_is_settled.
Settled(s, n, p) ==
  /\ p \in s.finished
  /\ \A r \in RegionsOf(p) : n \in Def.members[r] \/ HasStopped(s, r)

\* next_ready_node, before the first is taken.
Ready(s) ==
  {n \in Nodes \ (s.finished \cup s.running) :
     /\ \A r \in RegionsOf(n) : ~HasStopped(s, r) /\ IsOpen(s, r)
     /\ \A p \in Def.pred[n] : Settled(s, n, p)}

NodeRule(s) ==
  FirstOf(Ready(s),
          LAMBDA n : IF n \in Effects \ s.completed
                     THEN {Perform(s, n, 0, FreshKey(n, 0))}
                     ELSE {StartNode(n)})

EndRule(s) ==
  IF s.running = {} /\ Nodes \subseteq s.finished
  THEN {[do |-> "complete"]} ELSE {Idle}

-----------------------------------------------------------------------------
Only(S) == CHOOSE x \in S : TRUE

\* The answer of the first rule, of a sequence of rules, that has one.
FirstAnswer(rules) ==
  Only(rules[Least({i \in DOMAIN rules : rules[i] # {}})])

\* decide_next with cancellation left for when there is nothing else to do.
DecideNextCancelLast(s) ==
  IF IsTerminal(s) THEN Idle
  ELSE FirstAnswer(
         <<OutstandingRule(s), UncertainRule(s), WaitRule(s), StartRule(s),
           TimeOutRule(s), DeadlineRule(s), LoopRule(s), FailureRule(s),
           IterationRule(s), NodeRule(s), CancelRule(s), EndRule(s)>>)

DecideNext(s) ==
  IF IsTerminal(s) THEN Idle
  ELSE FirstAnswer(
         <<OutstandingRule(s), UncertainRule(s), CancelRule(s), WaitRule(s),
           StartRule(s), TimeOutRule(s), DeadlineRule(s), LoopRule(s),
           FailureRule(s), IterationRule(s), NodeRule(s), EndRule(s)>>)

\* A failure that ends the run with its effects standing.
DecideFailsFirst(s) == DecideNext(s)

\* decide: a run about to fail compensates first.
Decide(s) ==
  LET next == DecideNext(s) IN
  IF next.do = "fail" /\ Owed(s) # {} THEN Only(Compensate(s)) ELSE next
=============================================================================
