--------------------------- MODULE AssurancePlane ---------------------------
(***************************************************************************)
(* The assurance plane: the handlers of crates/api/src/assurance.rs over   *)
(* the tables of Boundaries, the object store, exported bundles and their  *)
(* replay, beside the questions of Reasoning and the canonical documents   *)
(* of Canonical.                                                           *)
(*                                                                         *)
(* A plan also has asks and documents.  A document is [tokens, meaning],   *)
(* its meaning empty when its author's is not one value.                   *)
(***************************************************************************)
EXTENDS Admission, Boundaries, Reasoning, Canonical

CONSTANT Altered        \* bytes that are not what was stored

VARIABLES
    objects,        \* the object store, digest -> bytes
    reports,        \* what the last replay said of an exported certificate
    filed           \* documents read: [meaning, bytes]

vars == <<askVars, boundaryVars, objects, reports, filed>>

Init ==
    /\ BoundaryInit
    /\ AskInit(plan.asks)
    /\ objects = <<>> /\ reports = {} /\ filed = {}

-----------------------------------------------------------------------------
\* A node's output or a verifier's input is put under its digest's key.
PutObject(e) ==
    /\ objects' = (e :> e) @@ objects
    /\ UNCHANGED <<askVars, boundaryVars, reports, filed>>

CountOutstandingObligations == Cardinality({k \in DOMAIN obligations : IsOutstanding(obligations[k])})

-----------------------------------------------------------------------------
\* get_certificate_bundle, and capsulet-replay on what it returns: the bytes
\* found are put under the digest that was cited.
ExportAndReplay(id) ==
    LET cert == certificates[id]
        bundle == BuildBundle(cert, objects)
    IN /\ ReadsBack(cert)
       /\ Cites(cert.body) \subseteq digests \cap DOMAIN objects
       /\ reports' = {[bundle |-> bundle, said |-> ReplayBundle(bundle).outcome]}
       /\ UNCHANGED <<askVars, boundaryVars, objects, filed>>

\* The object store loses or damages what it holds.
DamageObject(e) ==
    /\ objects' \in {[objects EXCEPT ![e] = Altered], [k \in DOMAIN objects \ {e} |-> objects[k]]}
    /\ UNCHANGED <<askVars, boundaryVars, reports, filed>>

-----------------------------------------------------------------------------
\* A document is read and its value kept, under the digest of its encoding.
FileDocument(doc) ==
    LET read == FromJsonSlice(doc.tokens)
    IN /\ read.error = ""
       /\ filed' = filed \cup {[meaning |-> doc.meaning, bytes |-> Write(read.value)]}
       /\ UNCHANGED <<askVars, boundaryVars, objects, reports>>

\* A program's value is encoded.
FileValue(x) ==
    /\ ToCanonicalBytes(x.value) # <<>>
    /\ filed' = filed \cup {[meaning |-> x.meaning, bytes |-> ToCanonicalBytes(x.value)]}
    /\ UNCHANGED <<askVars, boundaryVars, objects, reports>>

Stored(a) == {a.evidence[i].content : i \in DOMAIN a.evidence}

Next ==
    \/ AskNext /\ UNCHANGED <<boundaryVars, objects, reports, filed>>
    \/ BoundaryNext({d \in plan.definitions : Admitted(d)}) /\ UNCHANGED <<askVars, objects, reports, filed>>
    \/ \E a \in plan.assemblies : \E e \in Stored(a) : PutObject(e)
    \/ \E id \in DOMAIN certificates : ExportAndReplay(id)
    \/ \E e \in DOMAIN objects : DamageObject(e)
    \/ \E doc \in plan.documents : FileDocument(doc)
    \/ \E x \in plan.values : FileValue(x)

Spec == Init /\ [][Next]_vars

-----------------------------------------------------------------------------
(***************************************************************************)
(* Properties.                                                             *)
(***************************************************************************)
\* Every value a producer's declared schema allows can be read by the port
\* the edge delivers it to, in every definition that was stored: for a value
\* forwarded as it is, and for each value of a record or a selection
\* (Graph::check_edge and ValueSchema::check_satisfies).
AdmittedEdgesFit ==
    \A d \in versions : \A e \in DOMAIN d.edges :
        LET edge    == d.edges[e]
            schemas == [i \in DOMAIN edge.sources |-> SourcePort(d, edge.sources[i]).schema]
        IN \A i \in DOMAIN edge.targets : \A v \in ValuesOf(DeliveredSchema(edge, schemas)) :
               Reads(TargetPort(d, edge.targets[i]).schema, v)

\* The nodes of a cycle.
RECURSIVE ReachedFrom(_, _)
ReachedFrom(next, seen) ==
    LET more == seen \cup UNION {next[n] : n \in seen}
    IN IF more = seen THEN seen ELSE ReachedFrom(next, more)

\* In a stored definition every node that can come round to itself does so
\* inside a loop region (Graph::check_cycles).
AdmittedCyclesAreDeclared ==
    \A d \in versions :
        LET next == Adjacency(d)
        IN \A n \in DOMAIN d.nodes :
              \/ n \notin ReachedFrom(next, next[n])
              \/ \E r \in DOMAIN d.regions : PermitsCycles(d.regions[r]) /\ n \in d.regions[r].nodes

\* A replay that says "reproduced" saw the bytes the certificate was issued
\* on, every one of them, and the deterministic verifiers it names decide the
\* same again from those bytes, although the object store may have lost or
\* altered any of them since (replay, get_certificate_bundle).
ReproducedMeansIntact ==
    \A r \in reports : r.said = "reproduced" =>
        /\ VerifySeal(r.bundle.certificate)
        /\ BundleChecks(r.bundle)
        /\ \A v \in Range(r.bundle.certificate.body.verifiers) : v.trust = "deterministic" =>
              Decide(v.inputs[1].proposal, Rebuild(v.inputs[2].document)) = v.verdict

\* The sum of decimals, at the finest scale.
Exactly(q) == q.units * 10 ^ (MaxScale - q.scale)

\* What a pinned snapshot supports: an assertion of a source at or above the
\* snapshot's own floor, an active claim, or a sum that is what it is said
\* to be.
Supports(doc, proposal) ==
    LET goal == proposal.goal
        step == proposal.derivation
    IN \/ \E i \in DOMAIN doc.sources : /\ AuthorityRank[doc.sources[i].authority] >= AuthorityRank[doc.floor]
                                       /\ Folded(goal) \in Asserts(doc.sources[i].text)
       \/ \E i \in DOMAIN doc.claims : doc.claims[i].status = "active" /\ doc.claims[i].prop = goal
       \/ step.rule = "arith" /\ Exactly(step.claimed) = FoldLeft(LAMBDA sum, q : sum + Exactly(q), 0, step.operands)

\* An accepted claim-reasoning verdict that replays is supported by the
\* snapshot it was decided on: the proposal's own floor, its citations and its
\* arithmetic cannot make more of it (the rules of crates/kernel/src/lib.rs).
KernelIsSound ==
    \A r \in reports : r.said = "reproduced" =>
        \A v \in Range(r.bundle.certificate.body.verifiers) :
            v.trust = "deterministic" /\ v.verdict = "accepted" =>
                Supports(v.inputs[2].document, v.inputs[1].proposal)

\* One meaning has one encoding and one encoding one meaning, whatever the
\* order, spacing and spelling it was written in; what has no single meaning is
\* never read; and the stored encoding reads back as what it was
\* (from_json_slice, to_canonical_bytes and verify_canonical).
OneDigestPerMeaning ==
    \A a \in filed :
        /\ a.meaning # <<>>
        /\ VerifyCanonical(a.bytes).error = "" /\ VerifyCanonical(a.bytes).value = a.meaning[1]
        /\ \A b \in filed : (a.meaning = b.meaning) <=> (a.bytes = b.bytes)

\* The obligations table agrees with the certificates it projects: as many
\* outstanding obligations as the certificates' own bytes have (the header of
\* crates/postgres/src/assurance.rs).
ProjectionAgrees ==
    CountOutstandingObligations =
        FoldFunction(+, 0, [id \in DOMAIN certificates |-> Len(Residuals(certificates[id].body))])
=============================================================================
