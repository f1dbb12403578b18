------------------------------- MODULE Kernel -------------------------------
(***************************************************************************)
(* The claim-reasoning kernel: crates/kernel/src lib.rs, ir.rs, error.rs   *)
(* and snapshot.rs, with the span check of crates/core/src/domain/memory.rs *)
(* and the proposer's derivation, crates/proposer/src.                     *)
(*                                                                         *)
(* A snapshot is [evidence, sources, contents, claims, floor, book]:       *)
(* functions from identifiers to evidence [source, span, excerpt], to the  *)
(* source's authority and to claims, a set of contents [source, text] and  *)
(* the phrasebook.  A content's digest is its text; a span is [start, end, *)
(* hash] over words.  A proposition is [subject, predicate, object].       *)
(***************************************************************************)
EXTENDS Phrasing

CONSTANTS
    MaxDepth,           \* MAX_DERIVATION_DEPTH
    MaxExcerpt,         \* MAX_CITED_EXCERPT_BYTES, in words
    NoSpan

AuthorityRank == [low |-> 0, medium |-> 1, high |-> 2]

Stricter(a, b) == IF AuthorityRank[a] >= AuthorityRank[b] THEN a ELSE b

\* verify_evidence_span
VerifyEvidenceSpan(evidence, content) ==
    /\ evidence.source = content.source
    /\ evidence.span.hash = content.text
    /\ evidence.span.end <= Len(content.text)
    /\ SubSeq(content.text, evidence.span.start, evidence.span.end) = evidence.excerpt

-----------------------------------------------------------------------------
(***************************************************************************)
(* Rules.  A derivation step gives [judgment, errors, residuals]: judgment *)
(* is optional, [kind, source, prop]; a residual is the evidence it cites. *)
(***************************************************************************)
Concluded(kind, source, prop, residuals) ==
    [judgment |-> Some([kind |-> kind, source |-> source, prop |-> prop]),
     errors |-> <<>>, residuals |-> residuals]

Refused(inner, code) ==
    [judgment |-> None, errors |-> Append(inner.errors, code), residuals |-> inner.residuals]

Start == [judgment |-> None, errors |-> <<>>, residuals |-> <<>>]

\* A reading that could be another is left open.
ValueResiduals(rule, ambiguous) == IF ambiguous THEN <<{rule.evidence}>> ELSE <<>>

\* What a span in which both terms may occur says of them.
ReadSpan(rule, ev, object, stated) ==
    IF ~ContainsTerm(ev.excerpt, rule.prop.subject) \/ object = None THEN Refused(Start, "term_not_in_span")
    ELSE IF stated # None THEN Concluded("says", ev.source, rule.prop, ValueResiduals(rule, stated[1]))
    ELSE Concluded("mentions", ev.source, rule.prop, ValueResiduals(rule, object[1]))

CiteEvidence(rule, ev, snap) ==
    LET contents == {c \in snap.contents : c.source = ev.source /\ c.text = ev.span.hash}
    IN IF ev.span = NoSpan THEN Refused(Start, "provenance_failed")
       ELSE IF contents = {} THEN Refused(Start, "source_content_missing")
       ELSE IF ~VerifyEvidenceSpan(ev, CHOOSE c \in contents : TRUE) THEN Refused(Start, "provenance_failed")
       ELSE IF Len(ev.excerpt) > MaxExcerpt THEN Refused(Start, "cited_span_too_long")
       ELSE ReadSpan(rule, ev, ObjectIn(snap.book, ev.excerpt, rule.prop), StatementIn(snap.book, ev.excerpt, rule.prop))

DeriveCite(rule, snap) ==
    IF rule.evidence \notin DOMAIN snap.evidence THEN Refused(Start, "dangling_evidence")
    ELSE CiteEvidence(rule, snap.evidence[rule.evidence], snap)

DeriveAttest(rule, snap) ==
    IF rule.claim \notin DOMAIN snap.claims THEN Refused(Start, "dangling_claim")
    ELSE IF snap.claims[rule.claim].status # "active" THEN Refused(Start, "claim_not_active")
    ELSE Concluded("holds", rule.claim, snap.claims[rule.claim].prop, <<>>)

\* (mutant) The proposer's own floor is the one that counts.
TrustAsAsked(rule, inner, snap) ==
    LET j == inner.judgment[1]
    IN IF AuthorityRank[snap.sources[j.source]] < AuthorityRank[rule.floor] THEN Refused(inner, "authority_below_floor")
       ELSE [inner EXCEPT !.judgment = Some([j EXCEPT !.kind = "holds"])]

DeriveTrust(rule, inner, snap) ==
    LET j == inner.judgment[1]
    IN IF j.kind = "mentions" THEN Refused(inner, "relation_not_stated")
       ELSE IF j.kind = "holds" THEN Refused(inner, "trust_premise_not_attributed")
       ELSE IF rule.floor \notin DOMAIN AuthorityRank THEN Refused(inner, "unknown_authority")
       ELSE IF j.source \notin DOMAIN snap.sources THEN Refused(inner, "dangling_source")
       ELSE IF AuthorityRank[snap.sources[j.source]] < AuthorityRank[Stricter(rule.floor, snap.floor)]
            THEN Refused(inner, "authority_below_floor")
       ELSE [inner EXCEPT !.judgment = Some([j EXCEPT !.kind = "holds"])]

\* The proposition is the rule's own: nothing relates it to the operands.
DeriveArith(rule) ==
    LET computed == ApplyOp(rule.op, rule.operands)
    IN IF rule.operands = <<>> THEN Refused(Start, "arith_no_operands")
       ELSE IF computed = None THEN Refused(Start, "arith_not_exact")
       ELSE IF ~SameQuantity(computed[1], rule.claimed) THEN Refused(Start, "arith_mismatch")
       ELSE Concluded("holds", "arithmetic", rule.prop, <<>>)

RECURSIVE CitedEvidence(_)
CitedEvidence(rule) ==
    CASE rule.rule = "cite" -> {rule.evidence}
      [] rule.rule \in {"trust", "interpret"} -> CitedEvidence(rule.premise)
      [] OTHER -> {}

DeriveInterpret(rule, inner) ==
    IF ~rule.rationale THEN Refused(inner, "interpretation_without_a_rationale")
    ELSE [inner EXCEPT !.judgment = Some([kind |-> "holds", source |-> "reading", prop |-> rule.prop]),
                       !.residuals = Append(@, CitedEvidence(rule.premise))]

DeriveFrom(rule, inner, snap) ==
    IF inner.judgment = None THEN inner
    ELSE IF rule.rule = "trust" THEN DeriveTrust(rule, inner, snap) ELSE DeriveInterpret(rule, inner)

RECURSIVE Derive(_, _)
Derive(rule, snap) ==
    CASE rule.rule = "cite" -> DeriveCite(rule, snap)
      [] rule.rule = "attest" -> DeriveAttest(rule, snap)
      [] rule.rule = "arith" -> DeriveArith(rule)
      [] rule.rule \in {"trust", "interpret"} ->
            DeriveFrom(rule, Derive(rule.premise, snap), snap)

RECURSIVE Depth(_)
Depth(rule) == IF rule.rule \in {"trust", "interpret"} THEN 1 + Depth(rule.premise) ELSE 1

ExceedsDepthBound(rule) == Depth(rule) > MaxDepth

ReachesGoal(judgment, goal) ==
    /\ judgment.kind = "holds"
    /\ judgment.prop.predicate = goal.predicate
    /\ judgment.prop.subject.text = goal.subject.text
    /\ judgment.prop.object.text = goal.object.text

Refusal(code) == [verdict |-> "rejected", residuals |-> <<>>, errors |-> <<code>>]

Verdict(out, goal) ==
    LET errors == IF out.judgment # None /\ ~ReachesGoal(out.judgment[1], goal)
                  THEN Append(out.errors, "goal_not_derived") ELSE out.errors
    IN [verdict   |-> IF out.judgment = None \/ errors # <<>> THEN "rejected"
                      ELSE IF out.residuals = <<>> THEN "accepted" ELSE "conditional",
        residuals |-> out.residuals,
        errors    |-> errors]

\* check: `encodes` says the proposal has a canonical encoding.
Check(proposal, snap) ==
    IF ExceedsDepthBound(proposal.derivation) THEN Refusal("derivation_too_deep")
    ELSE IF ~proposal.encodes THEN Refusal("proposal_not_encodable")
    ELSE Verdict(Derive(proposal.derivation, snap), proposal.goal)

-----------------------------------------------------------------------------
(***************************************************************************)
(* The proposer.                                                           *)
(***************************************************************************)
\* The spans cut at every line break and every full stop, question mark or
\* exclamation mark, and at the end of the text.
ChunkIntoSpans(text) ==
    LET cuts == SetToSortSeq({i \in DOMAIN text : text[i].ends # "no" \/ i = Len(text)}, LAMBDA a, b : a < b)
    IN [k \in DOMAIN cuts |-> [start |-> IF k = 1 THEN 1 ELSE cuts[k - 1] + 1, end |-> cuts[k], hash |-> text]]

AlphabetOf(evidence) == {e \in DOMAIN evidence : evidence[e].span # NoSpan}

\* A fact the text states is trusted; one it mentions, or a quotation, is read.
BuildProposal(raw, excerpt, book) ==
    LET goal   == raw.prop
        quotes == [subject |-> raw.quote, predicate |-> "quotes", object |-> raw.quote]
        Cite(p) == [rule |-> "cite", evidence |-> raw.evidence, prop |-> p]
        occur  == ContainsTerm(excerpt, goal.subject) /\ ObjectIn(book, excerpt, goal) # None
    IN [goal |-> goal, encodes |-> TRUE,
        derivation |-> IF StatementIn(book, excerpt, goal) # None
                       THEN [rule |-> "trust", premise |-> Cite(goal), floor |-> "low"]
                       ELSE [rule |-> "interpret", premise |-> Cite(IF occur THEN goal ELSE quotes),
                             prop |-> goal, rationale |-> raw.rationale]]
=============================================================================
