------------------------------ MODULE Admission ------------------------------
(***************************************************************************)
(* Admission of a definition: crates/ir/src admission.rs, and the checks   *)
(* of its graph in node.rs, effect.rs, capability.rs, region.rs,           *)
(* loop_region.rs and graph.rs.                                            *)
(*                                                                         *)
(* A definition is a record: `caps` (capability -> grant), `budget`,       *)
(* `nodes`, `edges`, `branches` and `regions` (functions from numbered     *)
(* identifiers), `control` (pairs of nodes), `inputs` and `outputs` (the   *)
(* graph's own ports), `boundaries`, `contracts` and the assurance `mode`. *)
(***************************************************************************)
EXTENDS Schema, Assurance

CONSTANTS NoCapability, NoRegion

-----------------------------------------------------------------------------
(***************************************************************************)
(* Nodes and effects.                                                      *)
(***************************************************************************)
NodeKinds == {"pure_computation", "proposer", "verifier", "effect", "human_gate",
              "memory_read", "memory_write", "sub_workflow", "region_entry", "region_exit"}

EffectKinds == {"network", "filesystem", "secret_access", "publication",
                "memory_write", "external_side_effect"}

MayHold ==
    [model_provider  |-> {"proposer"},
     tool            |-> {"proposer", "effect"},
     container_image |-> {"proposer", "verifier", "effect"},
     verifier        |-> {"verifier"},
     network         |-> {"proposer", "verifier", "effect"},
     filesystem      |-> {"proposer", "verifier", "effect"},
     secret          |-> {"proposer", "effect"},
     memory_space    |-> {"memory_read", "memory_write"},
     data_residency  |-> NodeKinds]

MayPerform(kind) ==
    CASE kind = "effect" -> EffectKinds
      [] kind = "memory_write" -> {"memory_write"}
      [] kind \in {"proposer", "verifier"} -> {"network", "filesystem", "secret_access"}
      [] OTHER -> {}

RequiresEffect(kind) == kind \in {"effect", "memory_write"}

Resources == {"wall", "tokens", "cost", "effects"}

BudgetWithin(budget, parent) == \A r \in Resources : budget[r] <= parent[r]

\* Effect::check.
EffectFault(e) ==
    Checks(<<Unless(e.idempotency = "keyed" => e.key, "missing_idempotency_key"),
             Unless(e.reversible => e.compensation, "missing_compensation")>>)

CapabilityFault(node, caps, c) ==
    IF c \notin DOMAIN caps THEN "not_granted"
    ELSE Unless(node.kind \in MayHold[caps[c]], "not_permitted_for_kind")

DeclaredEffectFault(node, i) ==
    LET e == node.effects[i]
    IN Checks(<<EffectFault(e),
                Unless(\A j \in 1..(i - 1) : node.effects[j].id # e.id, "effect_duplicate"),
                Unless(e.kind \in MayPerform(node.kind),
                       IF MayPerform(node.kind) = {} THEN "effect_not_allowed"
                                                     ELSE "effect_kind_not_allowed"),
                Unless(e.cap \in Range(node.caps), "effect_undeclared")>>)

NodeFault(node, caps) ==
    Checks(<<Along(node.caps, LAMBDA c : CapabilityFault(node, caps, c)),
             Unless(node.provider \in {NoCapability} \cup Range(node.caps), "not_granted"),
             Unless(RequiresEffect(node.kind) => node.effects # <<>>, "effect_required"),
             First(DOMAIN node.effects, LAMBDA i : DeclaredEffectFault(node, i)),
             Unless(node.kind = "sub_workflow" => node.sub, "missing_sub_workflow"),
             Unless(node.effects # <<>> => node.budget.effects > 0, "empty_budget"),
             Unless(node.kind = "proposer" => node.budget.tokens > 0, "empty_budget")>>)

-----------------------------------------------------------------------------
(***************************************************************************)
(* Regions and loops.  A loop specification is the field `loop` of its     *)
(* region, an empty sequence for a plain one.                              *)
(***************************************************************************)
PermitsCycles(region) == region.loop # <<>>

Narrows(caps, parent) ==
    \A c \in DOMAIN caps : c \in DOMAIN parent /\ parent[c] = caps[c]

ParentFault(region, caps, budget) ==
    Checks(<<Unless(Narrows(region.caps, caps), "capability_widens_parent"),
             Unless(BudgetWithin(region.budget, budget), "budget_widens_parent")>>)

LoopBudgetFault(budget) ==
    Unless(budget.iterations > 0 /\ budget.wall > 0, "unbounded_budget")

LoopSpecFault(spec) ==
    Checks(<<LoopBudgetFault(spec.budget),
             First(DOMAIN spec.repairs,
                   LAMBDA i : Checks(<<
                       Unless(\A j \in 1..(i - 1) : spec.repairs[j].failure # spec.repairs[i].failure,
                              "duplicate_route"),
                       Unless(spec.repairs[i].route = "retry" => spec.repairs[i].attempts > 0,
                              "retry_without_attempts")>>))>>)

OutputKind(d, node, port) ==
    IF node \in DOMAIN d.nodes /\ port \in DOMAIN d.nodes[node].outputs
    THEN d.nodes[node].outputs[port].schema.kind
    ELSE "none"

\* Each of the nodes a loop asks is inside it and answers in the right type.
LoopRoleFault(d, region, role) ==
    Checks(<<Unless(role.node \in region.nodes, "node_outside_loop"),
             Unless(OutputKind(d, role.node, role.port) = role.kind, "wrong_loop_port")>>)

LoopFault(d, region) ==
    LET spec == region.loop[1]
    IN Checks(<<LoopSpecFault(spec), Along(spec.roles, LAMBDA r : LoopRoleFault(d, region, r))>>)

BoundaryNodeFault(d, region, node, kind) ==
    IF node \notin region.nodes THEN "boundary_outside_region"
    ELSE Unless(d.nodes[node].kind = kind, "wrong_boundary_kind")

\* A node belongs to one region at most.
MemberFault(d, r, node) ==
    IF node \notin DOMAIN d.nodes THEN "region_unknown_node"
    ELSE Unless(\A q \in DOMAIN d.regions : q < r => node \notin d.regions[q].nodes,
                "overlapping_membership")

\* check_no_cyclic_nesting: following `parent` never comes round again.
RECURSIVE NestingFault(_, _, _, _)
NestingFault(d, start, at, seen) ==
    LET parent == d.regions[at].parent
    IN IF parent = NoRegion THEN Ok
       ELSE IF parent \in seen \/ parent = start THEN "cyclic_nesting"
       ELSE IF parent \notin DOMAIN d.regions THEN "unknown_parent"
       ELSE NestingFault(d, start, parent, seen \cup {parent})

RegionFault(d, r) ==
    LET region  == d.regions[r]
        members == First(region.nodes, LAMBDA n : MemberFault(d, r, n))
    IN IF members # Ok THEN members
       ELSE Checks(<<
         BoundaryNodeFault(d, region, region.entry, "region_entry"),
         BoundaryNodeFault(d, region, region.exit, "region_exit"),
         IF region.parent = NoRegion THEN ParentFault(region, d.caps, d.budget)
         ELSE IF region.parent \in DOMAIN d.regions
         THEN ParentFault(region, d.regions[region.parent].caps, d.regions[region.parent].budget)
         ELSE "unknown_parent",
         NestingFault(d, r, r, {}),
         IF PermitsCycles(region) THEN LoopFault(d, region) ELSE Ok>>)

-----------------------------------------------------------------------------
(***************************************************************************)
(* Edges.  An endpoint is [side, at, name]: a port of the node `at` when   *)
(* its side is "node", and of the graph itself when it is "in" or "out".   *)
(* `names` maps the fields or arms of a combination to source positions.   *)
(***************************************************************************)
EndpointNode(end) == IF end.side = "node" THEN {end.at} ELSE {}
NodesOf(ends) == UNION {EndpointNode(ends[i]) : i \in DOMAIN ends}

RegionOf(d, node) == {r \in DOMAIN d.regions : node \in d.regions[r].nodes}

SourceFault(d, end) ==
    CASE end.side = "out" -> "output_used_as_source"
      [] end.side = "in" -> Unless(end.name \in DOMAIN d.inputs, "unknown_graph_port")
      [] OTHER -> IF end.at \notin DOMAIN d.nodes THEN "unknown_node"
                  ELSE Unless(end.name \in DOMAIN d.nodes[end.at].outputs, "unknown_port")

TargetFault(d, end) ==
    CASE end.side = "in" -> "input_used_as_target"
      [] end.side = "out" -> Unless(end.name \in DOMAIN d.outputs, "unknown_graph_port")
      [] OTHER -> IF end.at \notin DOMAIN d.nodes THEN "unknown_node"
                  ELSE Unless(end.name \in DOMAIN d.nodes[end.at].inputs, "unknown_port")

SourcePort(d, end) == IF end.side = "in" THEN d.inputs[end.name] ELSE d.nodes[end.at].outputs[end.name]
TargetPort(d, end) == IF end.side = "out" THEN d.outputs[end.name] ELSE d.nodes[end.at].inputs[end.name]

\* Every source is named, and nothing else is.
CoversFault(names, count) ==
    LET named == {names[n] : n \in DOMAIN names}
    IN IF ~(named \subseteq 1..count) THEN "source_index_out_of_range"
       ELSE Unless(Cardinality(named) = count, "provenance_lost")

\* The lists of a concatenation after the first are held against the first.
ConcatFault(schemas) ==
    IF \E i \in DOMAIN schemas : schemas[i].kind # "list" THEN "concat_not_lists"
    ELSE Unless(\A i \in DOMAIN schemas : Satisfies(schemas[i].item, schemas[1].item), "schema")

CombineFault(edge, schemas) ==
    CASE edge.combine = "forward" -> Unless(Len(schemas) = 1, "forwards_many")
      [] edge.combine = "record"  -> CoversFault(edge.names, Len(schemas))
      [] edge.combine = "concat"  -> ConcatFault(schemas)
      [] edge.combine = "select"  -> IF edge.tag = "" THEN "selection_not_recorded"
                                     ELSE CoversFault(edge.names, Len(schemas))

DeliveredSchema(edge, schemas) ==
    CASE edge.combine = "forward" -> schemas[1]
      [] edge.combine = "record"  -> Record([n \in DOMAIN edge.names |-> Required(schemas[edge.names[n]])])
      [] edge.combine = "concat"  ->
             List(schemas[1].item,
                  Bounds(FoldLeft(LAMBDA sum, s : sum + s.range.min, 0, schemas),
                         FoldLeft(LAMBDA sum, s : sum + s.range.max, 0, schemas)))
      [] edge.combine = "select"  -> Union(edge.tag, [n \in DOMAIN edge.names |-> schemas[edge.names[n]]])

Promises(class, requires) ==
    /\ class.level >= requires.level
    /\ requires.contract \in {NoContract, class.contract}

TrustFault(d, edge) ==
    IF edge.verifier = NoCapability THEN Ok
    ELSE IF edge.verifier \notin DOMAIN d.nodes THEN "unknown_node"
    ELSE Unless(d.nodes[edge.verifier].kind = "verifier", "not_a_verifier")

TrustPromise(edge, classes) ==
    IF edge.verifier = NoCapability THEN MeetAll(classes)
    ELSE [level |-> 2, contract |-> edge.contract]

EdgeRegionFault(d, edge) ==
    LET Escapes(s, t) == \E r \in RegionOf(d, s) :
                             ~(EndpointNode(t) \cap d.regions[r].nodes # {}) /\ s # d.regions[r].exit
        Bypasses(s, t) == \E r \in RegionOf(d, t) :
                             ~(EndpointNode(s) \cap d.regions[r].nodes # {}) /\ t # d.regions[r].entry
    IN IF \E s \in NodesOf(edge.sources), i \in DOMAIN edge.targets : Escapes(s, edge.targets[i])
       THEN "value_escapes_region"
       ELSE Unless(~\E t \in NodesOf(edge.targets), i \in DOMAIN edge.sources :
                       Bypasses(edge.sources[i], t), "value_bypasses_region_entry")

EdgeFault(d, edge) ==
    LET ends      == Checks(<<Unless(edge.sources # <<>> /\ edge.targets # <<>>, "dangling"),
                              Along(edge.sources, LAMBDA s : SourceFault(d, s))>>)
        schemas   == [i \in DOMAIN edge.sources |-> SourcePort(d, edge.sources[i]).schema]
        classes   == [i \in DOMAIN edge.sources |-> SourcePort(d, edge.sources[i]).produces]
        delivered == DeliveredSchema(edge, schemas)
        promise   == TrustPromise(edge, classes)
        Delivery(t) ==
            IF TargetFault(d, t) # Ok THEN TargetFault(d, t)
            ELSE Checks(<<Unless(Satisfies(delivered, TargetPort(d, t).schema), "schema"),
                          Unless(Promises(promise, TargetPort(d, t).requires), "trust_too_weak")>>)
    IN IF ends # Ok THEN ends
       ELSE IF CombineFault(edge, schemas) # Ok THEN CombineFault(edge, schemas)
       ELSE IF TrustFault(d, edge) # Ok THEN TrustFault(d, edge)
       ELSE IF Along(edge.targets, Delivery) # Ok THEN Along(edge.targets, Delivery)
       ELSE EdgeRegionFault(d, edge)

-----------------------------------------------------------------------------
(***************************************************************************)
(* Branches: an arm for every value of the selector, and no other.         *)
(***************************************************************************)
Selectable(schema) ==
    CASE schema.kind = "enumeration" -> schema.members
      [] schema.kind = "union" -> DOMAIN schema.variants
      [] OTHER -> {}

BranchFault(d, branch) ==
    LET ok      == branch.selector.side # "out" /\ SourceFault(d, branch.selector) = Ok
        schema  == SourcePort(d, branch.selector).schema
        members == Selectable(schema)
        arms    == DOMAIN branch.arms
    IN IF ~ok THEN "branch_not_selectable"
       ELSE IF schema.kind \notin {"enumeration", "union"} THEN "branch_not_selectable"
       ELSE IF ~(members \subseteq arms) THEN "branch_not_exhaustive"
       ELSE IF ~(arms \subseteq members) THEN "branch_arm_unreachable"
       ELSE Unless(\A a \in arms : branch.arms[a] \in DOMAIN d.nodes, "unknown_node")

(***************************************************************************)
(* Cycles.  find_cycle is a depth-first search that shares `visited` with  *)
(* the searches before it and returns at the first cycle it closes; a      *)
(* cycle inside one loop region is passed over and the search from that    *)
(* node is not taken up again.                                             *)
(***************************************************************************)
\* A control edge may name a node the graph does not declare: nothing checks it.
Ordered(d) == DOMAIN d.nodes \cup {c[1] : c \in d.control} \cup {c[2] : c \in d.control}

Adjacency(d) ==
    LET fed(n) == {e \in DOMAIN d.edges : n \in NodesOf(d.edges[e].sources)}
    IN [n \in Ordered(d) |-> UNION {NodesOf(d.edges[e].targets) : e \in fed(n)}
                             \cup {c[2] : c \in {k \in d.control : k[1] = n}}]

RECURSIVE FindCycle(_, _, _, _)
FindCycle(next, node, visited, stack) ==
    LET path == Append(stack, node)
        RECURSIVE Scan(_, _)
        Scan(todo, seen) ==
            IF todo = {} THEN [visited |-> seen, cycle |-> <<>>]
            ELSE LET t    == Min(todo)
                     deep == FindCycle(next, t, seen, path)
                 IN IF t \in Range(path)
                    THEN [visited |-> seen,
                          cycle   |-> SubSeq(path, CHOOSE i \in DOMAIN path : path[i] = t, Len(path))]
                    ELSE IF t \in seen THEN Scan(todo \ {t}, seen)
                    ELSE IF deep.cycle # <<>> THEN deep
                    ELSE Scan(todo \ {t}, deep.visited)
    IN Scan(next[node], visited \cup {node})

InsideOneLoop(d, cycle) ==
    \E r \in DOMAIN d.regions :
        PermitsCycles(d.regions[r]) /\ Range(cycle) \subseteq d.regions[r].nodes

RECURSIVE CycleFrom(_, _, _, _)
CycleFrom(d, next, starts, visited) ==
    LET start == Min(starts)
        found == FindCycle(next, start, visited, <<>>)
    IN IF starts = {} THEN Ok
       ELSE IF start \in visited THEN CycleFrom(d, next, starts \ {start}, visited)
       ELSE IF found.cycle # <<>> /\ ~InsideOneLoop(d, found.cycle) THEN "undeclared_cycle"
       ELSE CycleFrom(d, next, starts \ {start}, found.visited)

CycleFault(d) == CycleFrom(d, Adjacency(d), DOMAIN d.nodes, {})

(***************************************************************************)
(* Graph::check.                                                           *)
(***************************************************************************)
GraphCheck(d) ==
    LET nodes    == First(DOMAIN d.nodes, LAMBDA n : NodeFault(d.nodes[n], d.caps))
        regions  == First(DOMAIN d.regions, LAMBDA r : RegionFault(d, r))
        edges    == First(DOMAIN d.edges, LAMBDA e : EdgeFault(d, d.edges[e]))
        branches == First(DOMAIN d.branches, LAMBDA b : BranchFault(d, d.branches[b]))
    IN IF nodes # Ok THEN nodes
       ELSE IF regions # Ok THEN regions
       ELSE IF edges # Ok THEN edges
       ELSE IF branches # Ok THEN branches
       ELSE CycleFault(d)

-----------------------------------------------------------------------------
(***************************************************************************)
(* The checks of the graph, then the protected boundaries, then the        *)
(* contracts, and the stable code each fault is reported under.            *)
(***************************************************************************)
NodeCode(fault) ==
    CASE fault \in {"not_granted", "not_permitted_for_kind"} -> "capability_ungranted"
      [] fault = "empty_budget" -> "budget_invalid"
      [] fault = "missing_sub_workflow" -> "graph_invalid"
      [] OTHER -> "effect_undeclared"

RegionCode(fault) ==
    CASE fault \in {"region_unknown_node", "wrong_boundary_kind", "boundary_outside_region",
                    "unknown_parent", "overlapping_membership", "cyclic_nesting"} -> "graph_invalid"
      [] fault = "budget_widens_parent" -> "budget_invalid"
      [] fault = "capability_widens_parent" -> "capability_ungranted"
      [] OTHER -> "repetition_unbounded"

EdgeCode(fault) ==
    CASE fault \in {"schema", "concat_not_lists", "source_index_out_of_range"} -> "port_incompatible"
      [] fault \in {"provenance_lost", "selection_not_recorded"} -> "provenance_missing"
      [] fault \in {"trust_too_weak", "not_a_verifier"} -> "trust_edge_illegal"
      [] OTHER -> "graph_invalid"

GraphRefusal(d) ==
    LET nodes   == First(DOMAIN d.nodes, LAMBDA n : NodeFault(d.nodes[n], d.caps))
        regions == First(DOMAIN d.regions, LAMBDA r : RegionFault(d, r))
        fault   == GraphCheck(d)
    IN CASE fault = Ok -> Ok
         [] nodes # Ok -> NodeCode(fault)
         [] nodes = Ok /\ regions # Ok -> RegionCode(fault)
         [] fault = "undeclared_cycle" -> "repetition_unbounded"
         [] OTHER -> EdgeCode(fault)

\* check_boundaries: a boundary names a node, and the effect it protects is
\* one that node declares.
BoundaryFault(d, i) ==
    LET b == d.boundaries[i]
    IN IF \E j \in 1..(i - 1) : d.boundaries[j].id = b.id THEN "boundary_invalid"
       ELSE IF b.node \notin DOMAIN d.nodes THEN "boundary_invalid"
       ELSE Unless(b.crossing = "effect" =>
                       \E k \in DOMAIN d.nodes[b.node].effects : d.nodes[b.node].effects[k].id = b.effect,
                   "effect_undeclared")

\* `encodes` says the definition has a canonical encoding, and so a digest.
Admit(d) ==
    IF ~d.encodes THEN "schema_invalid"
    ELSE Checks(<<GraphRefusal(d),
                  First(DOMAIN d.boundaries, LAMBDA i : BoundaryFault(d, i)),
                  ContractsFault(d)>>)

Admitted(d) == Admit(d) = Ok
=============================================================================
