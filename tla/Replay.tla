------------------------------- MODULE Replay -------------------------------
(***************************************************************************)
(* Checking a certificate again from its evidence: crates/kernel/src       *)
(* replay.rs, bundle.rs, snapshot_document.rs and family.rs.               *)
(*                                                                         *)
(* Bytes are values and a digest is the value digested.  Bytes that hold a *)
(* document have a field `is`: a "proposal" with its schema version, a     *)
(* "snapshot", or something else.  An evidence map is a function from      *)
(* digests to bytes, which need not be the bytes digested.                 *)
(***************************************************************************)
EXTENDS Assurance, Kernel

BundleSchema == <<"capsulet.bundle", 1>>
ProposalSchema == <<"capsulet.kernel.proposal", 1>>

ClaimReasoning == "claim-reasoning"
ClaimReasoningRules == "7"

ReadCompatible(found, expected) == found # Unset /\ found = expected

DeterministicFamilies == {ClaimReasoning}

-----------------------------------------------------------------------------
(***************************************************************************)
(* Pinned documents.  `valid` says that identifiers, scopes, spans,        *)
(* phrasings and cues are well formed; a later record replaces an earlier  *)
(* one with its identifier.                                                *)
(***************************************************************************)
LastById(docs) ==
    [id \in {docs[i].id : i \in DOMAIN docs} |-> docs[Max({i \in DOMAIN docs : docs[i].id = id})]]

KnownAuthority(value) == value \in DOMAIN AuthorityRank

KnownStatus(value) == value \in {"candidate", "active", "rejected", "superseded", "contradicted", "expired"}

Rebuilds(doc) ==
    /\ doc.valid
    /\ doc.floor # Unset => KnownAuthority(doc.floor)
    /\ \A i \in DOMAIN doc.sources : KnownAuthority(doc.sources[i].authority)
    /\ \A i \in DOMAIN doc.claims : KnownAuthority(doc.claims[i].authority) /\ KnownStatus(doc.claims[i].status)

Rebuild(doc) ==
    LET sources  == LastById(doc.sources)
        evidence == LastById(doc.evidence)
        claims   == LastById(doc.claims)
    IN [evidence |-> [id \in DOMAIN evidence |-> [source |-> evidence[id].source, span |-> evidence[id].span,
                                                  excerpt |-> evidence[id].excerpt]],
        sources  |-> [id \in DOMAIN sources |-> sources[id].authority],
        contents |-> {[source |-> doc.sources[i].id, text |-> doc.sources[i].text] : i \in DOMAIN doc.sources},
        claims   |-> [id \in DOMAIN claims |-> [prop |-> claims[id].prop, status |-> claims[id].status]],
        floor    |-> IF doc.floor = Unset THEN "low" ELSE doc.floor,
        book     |-> doc.book]

\* Proposal::read: the version is looked at before the shape.
ReadProposal(bytes) ==
    IF bytes.is # "proposal" THEN "malformed"
    ELSE IF ~ReadCompatible(bytes.version, ProposalSchema) THEN "unreadable" ELSE "read"

Decide(proposal, snap) == Check(proposal, snap).verdict

DecideOn(proposal, snapshot) ==
    IF ReadProposal(proposal) # "read" THEN ReadProposal(proposal)
    ELSE IF snapshot.is # "snapshot" THEN "malformed"
    ELSE IF ~Rebuilds(snapshot.document) THEN "malformed"
    ELSE Decide(proposal.proposal, Rebuild(snapshot.document))

Redecide(identity, inputs, evidence) ==
    IF identity # ClaimReasoning \/ Len(inputs) # 2 THEN "malformed"
    ELSE IF {inputs[1], inputs[2]} \ DOMAIN evidence # {} THEN "missing"
    ELSE DecideOn(evidence[inputs[1]], evidence[inputs[2]])

-----------------------------------------------------------------------------
(***************************************************************************)
(* Replay.  A finding names what differs; a note what could not, or need   *)
(* not, be checked.                                                        *)
(***************************************************************************)
CheckEvidence(body, evidence) ==
    [missing  |-> Cites(body) \ DOMAIN evidence,
     tampered |-> {e \in Cites(body) \cap DOMAIN evidence : evidence[e] # e}]

\* The first record whose pinned proposal is in a schema this build cannot
\* read ends the replay.
VerifierFinding(r, again) ==
    IF r.trust = "oracle" THEN Ok
    ELSE IF r.name \notin DeterministicFamilies THEN "unknown_deterministic_verifier"
    ELSE CASE again = "missing" -> "family_inputs_missing"
           [] again = "malformed" -> "family_inputs_malformed"
           [] OTHER -> Unless(again = r.verdict, "family_disagrees")

VerifierNote(r, finding) ==
    IF r.trust = "oracle" THEN {"oracle_not_re_executed"}
    ELSE (IF finding = Ok THEN {"family_re_decided"} ELSE {})
         \cup (IF r.version # ClaimReasoningRules THEN {"family_rules_differ"} ELSE {})

CheckVerifiers(body, evidence) ==
    LET Again(r) == IF r.trust = "deterministic" /\ r.name \in DeterministicFamilies
                    THEN Redecide(r.name, r.inputs, evidence) ELSE "not_asked"
        Checked(answers) ==
            [unreadable |-> \E a \in answers : a.again = "unreadable",
             findings   |-> {VerifierFinding(a.record, a.again) : a \in answers} \ {Ok},
             notes      |-> UNION {VerifierNote(a.record, VerifierFinding(a.record, a.again)) : a \in answers}]
    IN Checked({[record |-> r, again |-> Again(r)] : r \in Range(body.verifiers)})

IsDisqualifying(finding) ==
    finding \in {"seal_broken", "unknown_deterministic_verifier", "family_disagrees", "family_inputs_malformed"}

DowngradeIfUnusable(o, unusable) ==
    IF RestsOn(o) \cap unusable = {} THEN o ELSE [o EXCEPT !.state = "failed"]

Unreadable == [outcome |-> "unreadable", verdict |-> "unverified", findings |-> {}, notes |-> {}]

\* (mutant) The recomputed verdict alone decides: what was found is reported
\* and does not count.
ReplayByVerdict(body, sealed, bytes, verifiers) ==
    LET recomputed == UnderMode(body.mode, body.obligations)
    IN [outcome |-> IF recomputed = body.verdict THEN "reproduced" ELSE "diverged", verdict |-> recomputed,
        findings |-> {}, notes |-> verifiers.notes]

\* What was found of the seal, the bytes and the verifiers, put together.
ReplayWith(body, sealed, bytes, verifiers) ==
    LET findings  == (IF sealed THEN {} ELSE {"seal_broken"})
                     \cup (IF bytes.missing = {} THEN {} ELSE {"evidence_missing"})
                     \cup (IF bytes.tampered = {} THEN {} ELSE {"evidence_tampered"})
                     \cup verifiers.findings
        unusable  == bytes.missing \cup bytes.tampered
        usable    == [i \in DOMAIN body.obligations |-> DowngradeIfUnusable(body.obligations[i], unusable)]
        recomputed == IF \E f \in findings : IsDisqualifying(f) THEN "rejected" ELSE UnderMode(body.mode, usable)
        same      == recomputed = body.verdict
    IN IF ~ReadCompatible(body.schema, CertificateSchema) \/ verifiers.unreadable THEN Unreadable
       ELSE [outcome  |-> IF same /\ findings = {} THEN "reproduced" ELSE "diverged",
             verdict  |-> recomputed,
             findings |-> findings \cup (IF same THEN {} ELSE {"verdict_differs"}),
             notes    |-> verifiers.notes
                          \cup (IF body.kernel # KernelVersion THEN {"kernel_version_differs"} ELSE {})
                          \cup (IF body.evidence = <<>> /\ body.verifiers = <<>> THEN {"nothing_was_rechecked"} ELSE {})]

ReplayCertificate(cert, evidence) ==
    ReplayWith(cert.body, VerifySeal(cert), CheckEvidence(cert.body, evidence), CheckVerifiers(cert.body, evidence))

-----------------------------------------------------------------------------
(***************************************************************************)
(* Bundles: [schema, certificate, blobs], the blobs under the digests the  *)
(* certificate cites.  Reading one checks that it is complete and carries  *)
(* nothing else; whether a blob is what it was is left to the replay.      *)
(***************************************************************************)
BuildBundle(cert, evidence) ==
    [schema |-> BundleSchema, certificate |-> cert, blobs |-> [e \in Cites(cert.body) |-> evidence[e]]]

IsComplete(bundle) == DOMAIN bundle.blobs = Cites(bundle.certificate.body)

BundleReads(bundle) ==
    /\ ReadsBack(bundle.certificate)
    /\ ReadCompatible(bundle.schema, BundleSchema)
    /\ IsComplete(bundle)

BundleChecks(bundle) == IsComplete(bundle) /\ \A e \in DOMAIN bundle.blobs : bundle.blobs[e] = e

\* capsulet-replay: read the bundle, replay the certificate from its blobs.
ReplayBundle(bundle) ==
    IF ~BundleReads(bundle) THEN Unreadable ELSE ReplayCertificate(bundle.certificate, bundle.blobs)
=============================================================================
