---------------------------- MODULE WorkflowGraph ----------------------------
(***************************************************************************)
(* The workflow-local dependency graph: crates/core/src/domain/            *)
(* workflow_graph.rs, the definition types of workflow.rs beside it, and   *)
(* the limits crates/api puts on a graph before it is stored.              *)
(*                                                                         *)
(* A workflow is a record: `id`, `steps`, a sequence of records            *)
(* [id, workflow, position, job, timeout], `deps`, a sequence of records   *)
(* [from, to, policy], and `deadline`.  Step ids are numbers, whose order  *)
(* stands for the order of the ids' text.                                  *)
(***************************************************************************)
EXTENDS Naturals, Sequences, FiniteSets, FiniteSetsExt, Functions

RunStatuses == {"queued", "running", "removed", "succeeded", "failed",
                "cancelled", "timed_out", "skipped"}

IsTerminal(status) == status \in RunStatuses \ {"queued", "running"}

StepIds(wf) == {wf.steps[i].id : i \in DOMAIN wf.steps}
StepOf(wf, id) == wf.steps[CHOOSE i \in DOMAIN wf.steps : wf.steps[i].id = id]
DepsInto(wf, id) == {wf.deps[i] : i \in {j \in DOMAIN wf.deps : wf.deps[j].to = id}}
Parents(wf, id) == {d.from : d \in DepsInto(wf, id)}
Children(wf, id) == {c \in StepIds(wf) : id \in Parents(wf, c)}

-----------------------------------------------------------------------------
(***************************************************************************)
(* WorkflowGraph::sort, Kahn's algorithm: take the step with the least     *)
(* (position, id) of those whose parents have all been taken.  Taken[n] is *)
(* what the loop has after n rounds; a round with nothing ready is the end *)
(* of the loop.                                                            *)
(***************************************************************************)
Earlier(wf, a, b) ==
    LET p == StepOf(wf, a).position
        q == StepOf(wf, b).position
    IN p < q \/ (p = q /\ a <= b)

Sort(wf) ==
    LET Ready(taken) == {s \in StepIds(wf) \ Range(taken) :
                            Parents(wf, s) \subseteq Range(taken)}
        First(ready) == CHOOSE s \in ready : \A t \in ready : Earlier(wf, s, t)
        Taken[n \in 0..Len(wf.steps)] ==
            IF n = 0 THEN <<>>
            ELSE IF Ready(Taken[n - 1]) = {} THEN Taken[n - 1]
            ELSE Append(Taken[n - 1], First(Ready(Taken[n - 1])))
    IN Taken[Len(wf.steps)]

(***************************************************************************)
(* WorkflowGraph::new: the first fault in the order the constructor looks, *)
(* or "none".                                                              *)
(***************************************************************************)
StepFault(wf, i) ==
    CASE wf.steps[i].workflow # wf.id -> "another_workflow"
      [] \E j \in 1..(i - 1) : wf.steps[j].id = wf.steps[i].id -> "duplicate_step"
      [] OTHER -> "none"

DependencyFault(wf, i) ==
    LET d == wf.deps[i]
    IN CASE d.from \notin StepIds(wf) \/ d.to \notin StepIds(wf) -> "unknown_step"
         [] d.from = d.to -> "self_dependency"
         [] \E j \in 1..(i - 1) : wf.deps[j].from = d.from /\ wf.deps[j].to = d.to
                -> "duplicate_dependency"
         [] OTHER -> "none"

GraphFault(wf) ==
    LET badSteps == {i \in DOMAIN wf.steps : StepFault(wf, i) # "none"}
        badDeps  == {i \in DOMAIN wf.deps : DependencyFault(wf, i) # "none"}
    IN CASE badSteps # {} -> StepFault(wf, Min(badSteps))
         [] badSteps = {} /\ badDeps # {} -> DependencyFault(wf, Min(badDeps))
         [] badSteps = {} /\ badDeps = {} ->
                IF Len(Sort(wf)) # Len(wf.steps) THEN "cycle" ELSE "none"

-----------------------------------------------------------------------------
(***************************************************************************)
(* What a reconciliation asks of the graph.  `states` maps each started    *)
(* step to its status; a step that has not started is not in its domain.   *)
(***************************************************************************)
\* (mutant) Any end of the parent releases the step.
DependencyMetOnceEnded(dep, states) ==
    dep.from \in DOMAIN states /\ IsTerminal(states[dep.from])

DependencyMet(dep, states) ==
    /\ dep.from \in DOMAIN states
    /\ IF dep.policy = "hard" THEN states[dep.from] = "succeeded"
                              ELSE IsTerminal(states[dep.from])

ReadyStepsWithPolicies(wf, states) ==
    {s \in StepIds(wf) \ DOMAIN states :
        \A d \in DepsInto(wf, s) : DependencyMet(d, states)}

BlockedStepsAfterTerminalFailure(wf, states) ==
    {s \in StepIds(wf) \ DOMAIN states :
        \E d \in DepsInto(wf, s) :
            /\ d.policy = "hard"
            /\ d.from \in DOMAIN states
            /\ states[d.from] \in {"failed", "cancelled", "timed_out", "skipped"}}

-----------------------------------------------------------------------------
(***************************************************************************)
(* validate_workflow_graph_limits of the API: fan-out, fan-in and depth,   *)
(* the depth of a step being one more than its deepest parent's, taken     *)
(* along the topological order.                                            *)
(***************************************************************************)
Depths(wf) ==
    LET order == Sort(wf)
        Deepen(s, depth) ==
            [c \in StepIds(wf) |-> IF c \in Children(wf, s)
                                   THEN Max({depth[c], depth[s] + 1})
                                   ELSE depth[c]]
    IN MapThenFoldSet(Deepen, [s \in StepIds(wf) |-> 1], LAMBDA i : order[i], Max, DOMAIN order)

WithinGraphLimits(wf, limits) ==
    /\ Len(wf.steps) \in 1..limits.steps
    /\ Len(wf.deps) <= limits.deps
    /\ \A s \in StepIds(wf) :
           /\ Cardinality(Children(wf, s)) <= limits.fanOut
           /\ Cardinality(Parents(wf, s)) <= limits.fanIn
           /\ Depths(wf)[s] <= limits.depth
=============================================================================
