---------------------------- MODULE MCAssurance ----------------------------
(***************************************************************************)
(* One plan for each question: a text and a contract; a producer and a     *)
(* consumer; what was gathered about a run and a boundary that asks for    *)
(* it; a pinned proposal and snapshot; a few documents.                    *)
(***************************************************************************)
EXTENDS AssurancePlane

NoPlan == [asks |-> {}, definitions |-> {}, runs |-> {}, assemblies |-> {}, crossings |-> {},
           routes |-> {}, documents |-> {}, values |-> {}]

-----------------------------------------------------------------------------
(***************************************************************************)
(* Texts.                                                                  *)
(***************************************************************************)
Word(text) == [text |-> text, folded |-> text, value |-> [kind |-> "none"], binds |-> FALSE, ends |-> "no"]
Name(text, folded) == [Word(text) EXCEPT !.folded = folded]
Ending(word, ends) == [word EXCEPT !.ends = ends]
Number(text, units, scale) ==
    [Word(text) EXCEPT !.value = [kind |-> "number", amount |-> [units |-> units, scale |-> scale]]]

Acme == Name("Acme", "acme")
Beta == Name("Beta", "beta")
Five == Number("5", 5, 0)

Bought(ends) == <<Acme, Word("acquired"), Ending(Beta, ends)>>
Hedged == <<Word("reportedly")>> \o Bought("stop")
Paid   == <<Acme, Word("paid"), Ending(Five, "stop")>>
Scaled == <<Acme, Word("paid"), Five, [Word("million") EXCEPT !.binds = TRUE, !.ends = "stop"]>>
Wrapped == <<Ending(Word("reportedly"), "wrap")>> \o Bought("stop")

Texts == {Bought("stop"), Bought("ask"), Hedged, Paid, Scaled, Paid \o Hedged, Bought("stop") \o Scaled}

\* The last sentence may be one of several; each asserts what it asserts.
MCAsserts(text) ==
    LET bought == <<"acme", "acquired", "beta">>
        paid   == <<"acme", "paid", "5">>
    IN CASE text \in {Bought("stop"), Bought("stop") \o Scaled} -> {bought}
         [] text \in {Paid, Paid \o Hedged} -> {paid}
         [] OTHER -> {}

Phrase(verb) == <<<<"{from}", verb, "{to}">>>>
Ast == [relations |-> [acquired |-> [phrasings |-> Phrase("acquired"), to |-> "company"],
                       paid     |-> [phrasings |-> Phrase("paid"), to |-> "number"]],
        cues |-> {"reportedly"}, policy |-> [currency |-> "", order |-> ""]]

MCContracts ==
    [deals |-> [mine |-> TRUE, compiles |-> TRUE, ast |-> Ast],
     theirs |-> [mine |-> FALSE, compiles |-> TRUE, ast |-> Ast]]

BoughtIt == [subject |-> Acme, predicate |-> "acquired", object |-> Beta]
PaidFive == [subject |-> Acme, predicate |-> "paid", object |-> Five]

MCRawProposals ==
    {[prop |-> p, span |-> k, quote |-> Acme, rationale |-> r] :
        p \in {BoughtIt, PaidFive}, k \in 1..2, r \in BOOLEAN}

Question(n, text, contract) ==
    [n |-> n, text |-> text, question |-> "what happened", authority |-> "medium", contract |-> contract]

AskPlans ==
    {[NoPlan EXCEPT !.asks = {Question(1, text, "deals")}] : text \in Texts}
    \cup {[NoPlan EXCEPT !.asks = {Question(1, Bought("stop"), c), Question(2, Hedged, "deals")}] :
             c \in {NoContract, "theirs"}}
    \cup {[NoPlan EXCEPT !.asks = {Question(1, <<>>, "deals")}]}

-----------------------------------------------------------------------------
(***************************************************************************)
(* Definitions.                                                            *)
(***************************************************************************)
Budget == [r \in Resources |-> 1]

Node(kind, inputs, outputs) ==
    [kind |-> kind, inputs |-> inputs, outputs |-> outputs, caps |-> <<>>, effects |-> <<>>,
     budget |-> Budget, provider |-> NoCapability, sub |-> FALSE]

Takes(schema) == [p |-> [schema |-> schema, requires |-> Unverified]]
Gives(schema) == [p |-> [schema |-> schema, produces |-> Unverified]]
NoPorts == <<>>

Port(n) == [side |-> "node", at |-> n, name |-> "p"]

Wire(combine, from, to) ==
    [sources |-> from, targets |-> to, combine |-> combine,
     names |-> [n \in {ToString(i) : i \in DOMAIN from} |-> CHOOSE i \in DOMAIN from : ToString(i) = n],
     tag |-> "which", verifier |-> NoCapability, contract |-> NoContract]

Definition(nodes, edges, control, regions) ==
    [caps |-> <<>>, budget |-> Budget, nodes |-> nodes, edges |-> edges, branches |-> <<>>, regions |-> regions,
     control |-> control, inputs |-> NoPorts, outputs |-> NoPorts, boundaries |-> <<>>, contracts |-> <<>>,
     mode |-> "verify", encodes |-> TRUE, digest |-> "d"]

Fields(r) == Record([f |-> [schema |-> Integer(Bounds(0, 1)), required |-> r]])

Schemas ==
    {BoolSchema, Json, Integer(Bounds(0, 1)), Integer(Bounds(0, 2)), Enumeration({"a"}), Enumeration({"a", "b"}),
     List(BoolSchema, Bounds(0, 1)), List(BoolSchema, Bounds(1, 2)), Fields(TRUE), Fields(FALSE),
     Record([f |-> Required(Integer(Bounds(0, 2))), g |-> Optional(BoolSchema)]),
     Union("which", [a |-> BoolSchema]), ArtifactRef("deals"), ArtifactRef(NoContract), Prose,
     UnitSchema, Decimal(1), ForPortValueType.validation_result}

Pipe(from, to) ==
    Definition(<<Node("pure_computation", NoPorts, Gives(from)), Node("pure_computation", Takes(to), NoPorts)>>,
               <<Wire("forward", <<Port(1)>>, <<Port(2)>>)>>, {}, <<>>)

Joined(combine, a, b, to) ==
    Definition(<<Node("pure_computation", NoPorts, Gives(a)), Node("pure_computation", NoPorts, Gives(b)),
                 Node("pure_computation", Takes(to), NoPorts)>>,
               <<Wire(combine, <<Port(1), Port(2)>>, <<Port(3)>>)>>, {}, <<>>)

Lists == {s \in Schemas : s.kind = "list"}

Definitions ==
    {Pipe(a, b) : a \in Schemas, b \in Schemas}
    \cup {Joined("concat", a, b, to) : a \in Lists, b \in Lists, to \in Lists \cup {List(BoolSchema, Bounds(0, 4))}}
    \cup {Joined("select", BoolSchema, Fields(r), Union("which", [n \in {"1", "2"} |-> IF n = "1" THEN BoolSchema ELSE Fields(s)])) :
             r \in BOOLEAN, s \in BOOLEAN}
    \cup {Joined("record", BoolSchema, Fields(r), Record([n \in {"1"} |-> Required(BoolSchema)])) : r \in BOOLEAN}

DefinitionPlans == {[NoPlan EXCEPT !.definitions = {d}, !.runs = {"run"}] : d \in Definitions}

\* Two of them start from a loop's own cycle: x -> entry -> exit -> entry.
InLoop(extra) ==
    LET region == [nodes |-> {2, 3}, entry |-> 2, exit |-> 3, parent |-> NoRegion, caps |-> <<>>, budget |-> Budget,
                   loop |-> <<[budget |-> [iterations |-> 2, wall |-> 1], repairs |-> <<>>, roles |-> <<>>]>>]
        kinds  == <<"pure_computation", "region_entry", "region_exit", "pure_computation">>
    IN Definition([n \in 1..4 |-> Node(kinds[n], NoPorts, NoPorts)], <<>>,
                  {<<1, 2>>, <<2, 3>>, <<3, 2>>} \cup extra, <<region>>)

LoopPlans ==
    {[NoPlan EXCEPT !.definitions = {InLoop(extra)}, !.runs = {"run"}] :
        extra \in {{}, {<<3, 4>>}, {<<3, 4>>, <<4, 3>>}}}

-----------------------------------------------------------------------------
(***************************************************************************)
(* Certificates and crossings.                                             *)
(***************************************************************************)
Subject ==
    [Definition(<<Node("pure_computation", NoPorts, NoPorts)>>, <<>>, {}, <<>>) EXCEPT
        !.contracts = <<[id |-> "safety", obligations |-> <<"tested", "reviewed">>],
                        [id |-> "style", obligations |-> <<"tested">>]>>]

Blob(n) == [is |-> "blob", bytes |-> n]

Obligation(contract, id, state, by) ==
    [contract |-> contract, id |-> id, state |-> state, evidence |-> by,
     authority |-> IF state = "waived" THEN "lead" ELSE Unset]

Gathered(id, os, by, verifiers) ==
    [id |-> id, run |-> "run", events |-> <<[kind |-> "iteration_started", region |-> 1],
                                           [kind |-> "loop_stopped", region |-> 1]>>,
     stopped |-> 1 :> "condition_false", verifiers |-> verifiers, evidence |-> by, obligations |-> os]

Both == <<[content |-> Blob(1), at |-> 0], [content |-> Blob(2), at |-> 1]>>
Tested(contract, state) == Obligation(contract, "tested", state, {Blob(1)})
Reviewed(state) == Obligation("safety", "reviewed", state, {Blob(2)})

Whole    == Gathered("a", <<Tested("safety", "discharged"), Reviewed("discharged")>>, Both, <<>>)
Borrowed == Gathered("b", <<Tested("style", "discharged"), Reviewed("discharged")>>, Both, <<>>)
Waived   == Gathered("b", <<Tested("safety", "waived"), Reviewed("discharged"), Tested("style", "discharged")>>, Both, <<>>)
Open     == Gathered("b", <<Tested("safety", "discharged"), Reviewed("residual")>>, Both, <<>>)
Broken   == Gathered("b", <<Tested("safety", "discharged"), Reviewed("failed")>>, Both, <<>>)
Partial  == Gathered("b", <<Tested("safety", "discharged"), Reviewed("discharged")>>, <<Both[1]>>, <<>>)

Gate(minimum, contract, approval, maxAge) ==
    [minimum |-> minimum, contract |-> contract, approval |-> approval, maxAge |-> maxAge]

Policy(gate, waivers) ==
    [mode |-> "enforce", contracts |-> <<>>, verifiers |-> <<>>, boundaries |-> [release |-> gate],
     waivers |-> waivers, routes |-> <<>>]

Release(gate, waivers) == [policy |-> Policy(gate, waivers), definition |-> Subject, boundary |-> "release"]

Releases ==
    {Release(Gate("accepted", "safety", Unset, 1), {}),
     Release(Gate("conditional", NoContract, "tested", Unset), {"lead"})}

CertificatePlans ==
    {[NoPlan EXCEPT !.definitions = {Subject}, !.runs = {"run"}, !.assemblies = as, !.crossings = Releases] :
        as \in {{Whole}, {Borrowed}, {Waived}, {Open}, {Broken}, {Partial}}}

\* Values under two certificates meet on their way to a protected place.
Route(parts, provenance, hop) ==
    [policy |-> [Policy(Gate("accepted", "safety", Unset, 1), {}) EXCEPT
                    !.routes = <<[into |-> "ledger", minimum |-> 1, contract |-> "safety"]>>],
     into |-> "ledger", definition |-> Subject, parts |-> parts, provenance |-> provenance, hop |-> hop]

Part(id, contract) == [certificate |-> id, contract |-> contract]

Routes ==
    {Route(<<Part("a", "safety"), Part("b", c)>>, v, h) :
        c \in {"safety", "style"}, v \in {"complete", "lost"}, h \in {"none", "weakened", "opaque"}}

\* Meeting any number of classes is folding Meet over them (meet_all).
Classes == {Unverified} \cup [level : {1, 2}, contract : {"safety", "style"}]

ASSUME MeetAllFolds ==
    /\ MeetAll(<<>>) = Unverified
    /\ \A n \in 1..4 : \A cs \in [1..n -> Classes] : MeetAll(cs) = FoldLeft(Meet, cs[1], Tail(cs))

RoutePlans ==
    {[NoPlan EXCEPT !.definitions = {Subject}, !.runs = {"run"}, !.assemblies = {Whole, other}, !.routes = Routes] :
        other \in {Borrowed, Waived, Open, Broken, [Whole EXCEPT !.id = "b"]}}

\* Two contracts name an obligation alike, and only one of them is settled.
Shadowed == Gathered("a", <<Tested("style", "discharged"), Tested("safety", "residual")>>, Both, <<>>)
ProjectionPlans ==
    {[NoPlan EXCEPT !.definitions = {Subject}, !.runs = {"run"}, !.assemblies = {Shadowed}]}

-----------------------------------------------------------------------------
(***************************************************************************)
(* Pinned proposals and snapshots.                                         *)
(***************************************************************************)
Whole1(text) == [start |-> 1, end |-> Len(text), hash |-> text]

Pinned(authority, text, excerpt, status) ==
    [is |-> "snapshot",
     document |-> [valid |-> TRUE, floor |-> "medium", book |-> FromContract(Ast),
                   sources |-> <<[id |-> "s", authority |-> authority, text |-> text]>>,
                   evidence |-> <<[id |-> "e", source |-> "s", span |-> Whole1(text), excerpt |-> excerpt]>>,
                   claims |-> <<[id |-> "c", prop |-> BoughtIt, authority |-> "high", status |-> status]>>]]

Snapshots ==
    {Pinned("high", Bought("stop"), Bought("stop"), "candidate"),
     Pinned("low", Bought("stop"), Bought("stop"), "candidate"),
     Pinned("high", Hedged, Hedged, "candidate"),
     Pinned("high", Hedged, Bought("stop"), "candidate"),
     Pinned("high", Hedged, Hedged, "active")}

CiteIt(e) == [rule |-> "cite", evidence |-> e, prop |-> BoughtIt]
TrustIt(premise) == [rule |-> "trust", premise |-> premise, floor |-> "low"]
SumUp(claimed, a, b) ==
    [rule |-> "arith", op |-> "sum", operands |-> <<a, b>>, claimed |-> claimed, prop |-> BoughtIt]
Q(units, scale) == [units |-> units, scale |-> scale]

Derivations ==
    {CiteIt("e"), TrustIt(CiteIt("e")), TrustIt(CiteIt("f")), TrustIt(TrustIt(CiteIt("e"))),
     TrustIt(TrustIt(TrustIt(CiteIt("e")))), [rule |-> "attest", claim |-> "c"],
     [rule |-> "interpret", premise |-> CiteIt("e"), prop |-> BoughtIt, rationale |-> TRUE],
     SumUp(Q(15, 1), Q(1, 0), Q(5, 1)), SumUp(Q(6, 0), Q(1, 0), Q(5, 1)), SumUp(Q(90, 0), Q(60, 0), Q(30, 0))}

PinnedProposal(derivation) ==
    [is |-> "proposal", version |-> ProposalSchema,
     proposal |-> [goal |-> BoughtIt, encodes |-> TRUE, derivation |-> derivation]]

Redecided(p, s, verdict) ==
    Gathered("a", <<Obligation("style", "tested", "discharged", {p})>>,
             <<[content |-> p, at |-> 0], [content |-> s, at |-> 0]>>,
             <<[name |-> ClaimReasoning, version |-> ClaimReasoningRules, environment |-> "", inputs |-> <<p, s>>,
                outputs |-> {}, trust |-> "deterministic", verdict |-> verdict]>>)

KernelPlans ==
    {[NoPlan EXCEPT !.definitions = {Subject}, !.runs = {"run"},
                    !.assemblies = {Redecided(PinnedProposal(dv), s, "accepted")}] :
        dv \in Derivations, s \in Snapshots}

-----------------------------------------------------------------------------
(***************************************************************************)
(* Documents.                                                              *)
(***************************************************************************)
Spelled(text, as) == [t |-> "text", text |-> [i \in DOMAIN text |-> [char |-> text[i], as |-> as]]]
KeyA(as) == Spelled(<<"a">>, as)
KeyB == Spelled(<<"A">>, "plain")
T(t) == [t |-> t]
One == [t |-> "int", int |-> 1]
Two == [t |-> "int", int |-> 2]

Pair == Map((<<"a">> :> Num(1)) @@ (<<"A">> :> Num(2)))

Document1(tokens, meaning) == [tokens |-> tokens, meaning |-> meaning]

DocumentsRead ==
    {Document1(<<T("{"), KeyB, T(":"), Two, T(","), KeyA("plain"), T(":"), One, T("}")>>, <<Pair>>),
     Document1(<<T("{"), T("blank"), KeyA("code"), T(":"), One, T(","), KeyB, T(":"), Two, T("}")>>, <<Pair>>),
     Document1(<<T("{"), KeyA("plain"), T(":"), One, T(","), KeyA("code"), T(":"), Two, T("}")>>, <<>>),
     Document1(<<T("["), One, T(","), Two, T("]")>>, <<Lst(<<Num(1), Num(2)>>)>>),
     Document1(<<Spelled(<<"a", "combining">>, "plain")>>, <<>>),
     Document1(<<One, Two>>, <<>>)}

Str(c) == [s |-> "str", text |-> <<c>>]
Entry(k, v) == [key |-> Str(k), value |-> [s |-> "int", int |-> v]]
Values ==
    {[value |-> [s |-> "struct", entries |-> <<Entry("a", 1), Entry("A", 2)>>], meaning |-> <<Pair>>],
     [value |-> [s |-> "map", entries |-> <<Entry("a", 1), Entry("a", 2)>>], meaning |-> <<>>],
     [value |-> [s |-> "seq", items |-> <<[s |-> "int", int |-> 1], [s |-> "float"]>>], meaning |-> <<>>],
     [value |-> [s |-> "newtype_variant", variant |-> <<"a">>, inner |-> [s |-> "none"]],
      meaning |-> <<Map(<<"a">> :> Null)>>]}

DocumentPlans == {[NoPlan EXCEPT !.documents = DocumentsRead, !.values = Values]}

-----------------------------------------------------------------------------
MCPlans == AskPlans \cup DefinitionPlans \cup LoopPlans \cup CertificatePlans \cup RoutePlans \cup KernelPlans \cup DocumentPlans

\* A hedge on the line before the statement.
MCWrapped == {[NoPlan EXCEPT !.asks = {Question(1, Wrapped, "deals")}]}

\* A node that leads into a loop, and round through a node outside it.
MCUndeclared ==
    {[NoPlan EXCEPT !.definitions = {InLoop({<<1, 4>>, <<4, 1>>})}, !.runs = {"run"}]}

MCProjection == ProjectionPlans

MCAltered == [is |-> "altered"]
=============================================================================
