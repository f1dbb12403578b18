------------------------------ MODULE RunState ------------------------------
(***************************************************************************)
(* What a run's log means: `RunState::fold`, one event at a time.  The     *)
(* state of a run is never stored; every worker rebuilds it by folding the *)
(* log, so the fold of the whole log is the fold of its last event over    *)
(* the fold of the rest, and one record here stands for the log.           *)
(*                                                                         *)
(* A run executes a definition, the constant Def.  Nodes and regions are   *)
(* numbers, in the canonical order of their identifiers.  An effect node   *)
(* declares one effect, so the node names it.  Digests, outputs, names and *)
(* details are left out; recorded times are kept as how long ago they      *)
(* were, which is all that any decision asks of them.                      *)
(***************************************************************************)
EXTENDS Integers, Sequences, FiniteSets

CONSTANT Def

Nodes == Def.nodes
Regions == Def.regions
Effects == {n \in Nodes : Def.kind[n] = "effect"}

Idempotencies == {"idempotent", "keyed", "non_idempotent"}
KeySources == {"run", "run_node", "run_node_attempt"}
FailureKinds ==
  {"missing_evidence", "stale_reference", "schema_mismatch",
   "arithmetic_mismatch", "verifier_unavailable", "policy_denial",
   "budget_exhaustion", "non_progress", "unsafe_effect",
   "interpretation_residual"}

\* What the types and the admission checks guarantee of a definition, as far as
\* the runtime relies on it: regions do not overlap, budgets bound every loop,
\* a loop is continued by one of its own nodes on a Boolean.  Nothing is checked
\* of the node a route names.
ASSUME DefAssumption ==
  /\ Nodes \subseteq Nat /\ IsFiniteSet(Nodes)
  /\ Regions \subseteq Nat /\ IsFiniteSet(Regions)
  /\ Def.kind \in [Nodes -> {"plain", "effect"}]
  /\ Def.pred \in [Nodes -> SUBSET Nodes]
  /\ Def.idem \in [Effects -> Idempotencies]
  /\ Def.keySource \in [Effects -> KeySources]
  /\ Def.reversible \subseteq Effects
  /\ Def.wall \in [Nodes -> Nat] /\ Def.runWall \in Nat
  /\ Def.fails \in [Nodes -> SUBSET FailureKinds]
  /\ \A n \in Nodes : \A control \in Def.reports[n] :
       control.go \in {<<>>, <<TRUE>>, <<FALSE>>}
  /\ \A r \in Regions :
       /\ Def.members[r] \subseteq Nodes
       /\ {Def.entry[r], Def.exit[r], Def.continuedBy[r]} \subseteq Def.members[r]
       /\ Def.budget[r].iterations \in Nat \ {0} /\ Def.budget[r].wall > 0
       /\ \A q \in Regions \ {r} : Def.members[q] \cap Def.members[r] = {}
       /\ \A failure \in DOMAIN Def.routes[r] :
            LET route == Def.routes[r][failure] IN
            /\ route.do \in {"retry", "repair", "escalate", "reject"}
            /\ route.do \in {"retry", "repair"} => route.node \in Nat

RegionsOf(n) == {r \in Regions : n \in Def.members[r]}

\* Two things admission does not check.  A loop answers its failures inside:
\* any identifier loads as a route's node.
RoutesStayInside ==
  \A r \in Regions : \A failure \in DOMAIN Def.routes[r] :
    LET route == Def.routes[r][failure] IN
    route.do \in {"retry", "repair"} => route.node \in Def.members[r]

\* A loop is entered by its entry: the boundary check is of data edges, a
\* control edge may cross anywhere and a member may be without predecessors.
EnteredByEntry ==
  \A r \in Regions : \A n \in Def.members[r] \ {Def.entry[r]} :
    Def.pred[n] # {} /\ Def.pred[n] \subseteq Def.members[r]

FinalStatuses == {"completed", "failed", "cancelled"}
IsTerminal(s) == s.status \in FinalStatuses

\* A node's control readings: a continuation, an invariant, a measure.  An
\* empty sequence is a port nothing was reported on.
NoControl == [go |-> <<>>, inv |-> <<>>, measure |-> <<>>]

NoWait == [kind |-> "none"]
Gate(n, to) == [kind |-> "gate", node |-> n, to |-> to]
Timer(left) == [kind |-> "timer", left |-> left]
EventWait(name) == [kind |-> "event", name |-> name]

FreshLoop ==
  [started |-> 0, finished |-> 0, stopped |-> "no", stalled |-> 0,
   previous |-> <<>>, last |-> <<>>, failedInvariant |-> FALSE, age |-> 0]

\* RunState::fold of the admission event alone.
Admitted ==
  [ok |-> TRUE,
   status |-> "queued",
   running |-> {},
   finished |-> {},
   failures |-> [n \in Nodes |-> <<>>],
   control |-> [n \in Nodes |-> NoControl],
   outstanding |-> <<>>,
   completed |-> {},
   finalized |-> <<>>,
   uncertain |-> <<>>,
   compensated |-> {},
   loops |-> [r \in Regions |-> FreshLoop],
   waitingOn |-> NoWait,
   cancel |-> FALSE,
   spentWall |-> 0,
   spentEffects |-> 0,
   age |-> [n \in Nodes |-> 0],
   runAge |-> 0]

-----------------------------------------------------------------------------
(* One operator per kind of event *)

\* FoldError: a history no run could have produced.  It sticks.
Unfoldable(s) == [s EXCEPT !.ok = FALSE]

Started(s) == [s EXCEPT !.status = "running", !.runAge = 0]

NodeStarted(s, n) ==
  IF n \in s.running THEN Unfoldable(s)
  ELSE [s EXCEPT !.status = "running", !.running = @ \cup {n}, !.age[n] = 0]

NodeFinished(s, n, control) ==
  IF n \notin s.running THEN Unfoldable(s)
  ELSE [s EXCEPT !.running = @ \ {n},
                 !.finished = @ \cup {n},
                 !.age[n] = 0,
                 !.control[n] =
                   [port \in DOMAIN @ |->
                      IF control[port] = <<>> THEN @[port] ELSE control[port]]]

NodeFailed(s, n, failure) ==
  [s EXCEPT !.running = @ \ {n},
            !.age[n] = 0,
            !.failures[n] = Append(@, failure)]

\* `outstanding.retain`: the open claims that are not n's, in their order.
OtherClaims(s, n) ==
  LET q == s.outstanding
      Kept[i \in 0..Len(q)] ==
        IF i = 0 THEN <<>>
        ELSE IF q[i].node = n THEN Kept[i - 1] ELSE Append(Kept[i - 1], q[i])
  IN  Kept[Len(q)]

EffectClaimed(s, n, attempt, key) ==
  [s EXCEPT !.outstanding =
              Append(@, [node |-> n, attempt |-> attempt, key |-> key]),
            !.spentEffects = @ + 1]

EffectFinalized(s, n) ==
  IF OtherClaims(s, n) = s.outstanding THEN Unfoldable(s)
  ELSE [s EXCEPT !.outstanding = OtherClaims(s, n),
                 !.completed = @ \cup {n},
                 !.finalized = Append(@, n)]

EffectAbandoned(s, n) == [s EXCEPT !.outstanding = OtherClaims(s, n)]

EffectUncertain(s, n) ==
  [s EXCEPT !.outstanding = OtherClaims(s, n),
            !.uncertain = Append(@, n)]

\* An opening that leaves last time's readings in place.
IterationStartedStale(s, r) ==
  LET members == Def.members[r] IN
  [s EXCEPT !.loops[r].started = @ + 1,
            !.loops[r].age = 0,
            !.finished = @ \ members,
            !.running = @ \ members,
            !.failures = [n \in Nodes |-> IF n \in members THEN <<>> ELSE @[n]]]

IterationStarted(s, r) ==
  LET members == Def.members[r] IN
  IF s.loops[r].started > s.loops[r].finished THEN Unfoldable(s)
  ELSE
  [s EXCEPT !.loops[r].started = @ + 1,
            !.loops[r].age = 0,
            !.finished = @ \ members,
            !.running = @ \ members,
            !.age = [n \in Nodes |-> IF n \in members THEN 0 ELSE @[n]],
            !.failures = [n \in Nodes |-> IF n \in members THEN <<>> ELSE @[n]],
            !.control =
              [n \in Nodes |-> IF n \in members THEN NoControl ELSE @[n]]]

\* record is [held, measure, wall]: whether every invariant held, the measure
\* or nothing, and the wall time the iteration took.
IterationFinished(s, r, record) ==
  LET was == s.loops[r]
      read == record.measure # <<>>
  IN
  IF was.finished >= was.started THEN Unfoldable(s)
  ELSE
  [s EXCEPT !.loops[r] =
              [was EXCEPT
                 !.finished = @ + 1,
                 !.age = 0,
                 !.stalled = IF ~read THEN @
                             ELSE IF was.last = record.measure THEN @ + 1
                             ELSE 0,
                 !.previous = IF read THEN was.last ELSE @,
                 !.last = IF read THEN record.measure ELSE @,
                 !.failedInvariant = ~record.held],
            !.spentWall = @ + record.wall]

LoopStopped(s, r, reason) == [s EXCEPT !.loops[r].stopped = reason]

Suspended(s, wait) == [s EXCEPT !.status = "waiting", !.waitingOn = wait]

Resumed(s) ==
  IF s.waitingOn = NoWait THEN Unfoldable(s)
  ELSE [s EXCEPT !.status = "running", !.waitingOn = NoWait]

CancellationRequested(s) == [s EXCEPT !.cancel = TRUE]

Compensated(s, n) == [s EXCEPT !.compensated = @ \cup {n}]

Ended(s, status) == [s EXCEPT !.status = status]

-----------------------------------------------------------------------------
\* RunState::apply.  Positions are handed out by the row, in order, so the
\* position check never fires; an event after the end does, and a kind nobody
\* knows does not load.
Apply(s, e) ==
  IF ~s.ok \/ IsTerminal(s) THEN Unfoldable(s)
  ELSE CASE e.kind = "started" -> Started(s)
         [] e.kind = "node_started" -> NodeStarted(s, e.node)
         [] e.kind = "node_finished" -> NodeFinished(s, e.node, e.control)
         [] e.kind = "node_failed" -> NodeFailed(s, e.node, e.failure)
         [] e.kind = "effect_claimed" ->
              EffectClaimed(s, e.node, e.attempt, e.key)
         [] e.kind = "effect_finalized" -> EffectFinalized(s, e.node)
         [] e.kind = "effect_abandoned" -> EffectAbandoned(s, e.node)
         [] e.kind = "effect_uncertain" -> EffectUncertain(s, e.node)
         [] e.kind = "iteration_started" -> IterationStarted(s, e.region)
         [] e.kind = "iteration_finished" ->
              IterationFinished(s, e.region, e.record)
         [] e.kind = "loop_stopped" -> LoopStopped(s, e.region, e.reason)
         [] e.kind = "suspended" -> Suspended(s, e.wait)
         [] e.kind = "resumed" -> Resumed(s)
         [] e.kind = "cancellation_requested" -> CancellationRequested(s)
         [] e.kind = "compensated" -> Compensated(s, e.node)
         [] e.kind \in FinalStatuses -> Ended(s, e.kind)
         [] OTHER -> Unfoldable(s)

FailureCount(s, n, kind) ==
  Cardinality({i \in DOMAIN s.failures[n] : s.failures[n][i] = kind})

\* unresolved_failures: failed, neither running again nor finished.
Unresolved(s) ==
  {n \in Nodes : /\ n \notin s.running \cup s.finished
                 /\ s.failures[n] # <<>>}

LastFailure(s, n) == s.failures[n][Len(s.failures[n])]

-----------------------------------------------------------------------------
\* Time passing, for what the log remembers a time of.  Ages stop at the
\* budget they are compared with.
UpTo(cap, age) == IF age < cap THEN age + 1 ELSE age

Older(s) ==
  [s EXCEPT
     !.age = [n \in Nodes |-> IF n \in s.running THEN UpTo(Def.wall[n], @[n])
                                                 ELSE @[n]],
     !.runAge = IF s.status = "queued" THEN @ ELSE UpTo(Def.runWall, @),
     !.loops = [r \in Regions |->
                  IF @[r].started > @[r].finished
                  THEN [@[r] EXCEPT !.age = UpTo(Def.budget[r].wall, @)]
                  ELSE @[r]],
     !.waitingOn = IF @.kind = "timer" /\ @.left > 0
                   THEN Timer(@.left - 1) ELSE @]
=============================================================================
