------------------------------ MODULE Assurance ------------------------------
(***************************************************************************)
(* What a certificate says and what it lets through: crates/ir/src         *)
(* correctness/, coverage.rs, trust.rs and assurance.rs, the run evidence  *)
(* of crates/runtime/src/certify.rs and the sealing of                     *)
(* crates/kernel/src/workflow.rs.                                          *)
(*                                                                         *)
(* A digest is the value digested.  An obligation is [contract, id, state, *)
(* evidence, authority]; a certificate body is [id, definition, mode,      *)
(* verifiers, evidence, obligations, loops, verdict, schema, kernel], its  *)
(* evidence a sequence of [content, at]; a certificate is [body,           *)
(* replay_digest].                                                         *)
(***************************************************************************)
EXTENDS Trust

CONSTANT Unset          \* an optional field that is not there

-----------------------------------------------------------------------------
(***************************************************************************)
(* Modes, obligations and verdicts.                                        *)
(***************************************************************************)
EvaluatesObligations(mode) == mode \in {"verify", "enforce"}

EnforcesBoundaries(mode) == mode = "enforce"

Strictest(a, b) ==
    LET order == [observe |-> 0, verify |-> 1, enforce |-> 2]
    IN IF order[a] >= order[b] THEN a ELSE b

ObligationStates == {"discharged", "assumed", "waived", "residual", "failed"}

RestsOn(o) == IF o.state \in {"discharged", "residual"} THEN o.evidence ELSE {}

IsOutstanding(o) == o.state \in {"assumed", "waived", "residual"}

HasFailed(o) == o.state = "failed"

VerdictRank(v) ==
    CASE v = "rejected" -> 0
      [] v = "unverified" -> 1
      [] v = "conditional" -> 2
      [] v = "accepted" -> 3

VerdictMeets(v, minimum) == VerdictRank(v) >= VerdictRank(minimum)

FromObligations(os) ==
    CASE os = <<>> -> "unverified"
      [] \E o \in Range(os) : HasFailed(o) -> "rejected"
      [] os # <<>> /\ (\A o \in Range(os) : ~HasFailed(o)) /\ (\E o \in Range(os) : IsOutstanding(o)) -> "conditional"
      [] OTHER -> "accepted"

UnderMode(mode, os) == IF EvaluatesObligations(mode) THEN FromObligations(os) ELSE "unverified"

\* A residual counts only against its own contract, a failure against all.
ForContract(mode, contract, os) ==
    LET own == {o \in Range(os) : o.contract = contract}
    IN CASE ~EvaluatesObligations(mode) -> "unverified"
         [] EvaluatesObligations(mode) /\ (\E o \in Range(os) : HasFailed(o)) -> "rejected"
         [] OTHER -> IF own = {} THEN "unverified"
                     ELSE IF \E o \in own : IsOutstanding(o) THEN "conditional" ELSE "accepted"

-----------------------------------------------------------------------------
(***************************************************************************)
(* Certificates.                                                           *)
(***************************************************************************)
CertificateSchema == <<"capsulet.certificate", 1>>
KernelVersion == "this build"

Cites(body) == {body.evidence[i].content : i \in DOMAIN body.evidence}

Carries(body, digest) == digest \in Cites(body)

Residuals(body) == SelectSeq(body.obligations, IsOutstanding)

CertificateFault(body) ==
    LET Key(i)   == <<body.obligations[i].contract, body.obligations[i].id>>
        Fault(i) == IF \E j \in 1..(i - 1) : Key(j) = Key(i) THEN "duplicate_obligation"
                    ELSE Unless(\A e \in RestsOn(body.obligations[i]) : Carries(body, e), "missing_evidence")
    IN IF UnderMode(body.mode, body.obligations) # body.verdict THEN "verdict_not_justified"
       ELSE First(DOMAIN body.obligations, Fault)

Seal(body) == [body |-> body, replay_digest |-> body]

VerifySeal(cert) == cert.replay_digest = cert.body

\* Deserialising a certificate checks the seal and the body again.
ReadsBack(cert) == VerifySeal(cert) /\ CertificateFault(cert.body) = Ok

(***************************************************************************)
(* Assembling one from a run.  `events` are the run's recorded events,     *)
(* `stopped` its fold's stop reason for a region, Unset while it runs.     *)
(***************************************************************************)
LoopOutcomes(events, stopped) ==
    LET Of(r)   == [region |-> r, stopped |-> stopped[r],
                    iterations |-> Len(SelectSeq(events, LAMBDA e : e.kind = "iteration_finished" /\ e.region = r))]
        loops   == SelectSeq(events, LAMBDA e : e.kind \in {"iteration_started", "loop_stopped", "iteration_finished"})
        regions == FoldLeft(LAMBDA acc, e : IF Contains(acc, e.region) THEN acc ELSE Append(acc, e.region), <<>>, loops)
        ended   == SelectSeq(regions, LAMBDA r : stopped[r] # Unset)
    IN [i \in DOMAIN ended |-> Of(ended[i])]

CheckObligations(os, evidence, verifiers) ==
    LET carried == {evidence[i].content : i \in DOMAIN evidence}
                       \cup UNION {verifiers[i].outputs : i \in DOMAIN verifiers}
    IN Along(os, LAMBDA o : Unless(RestsOn(o) \subseteq carried, "unknown_evidence"))

\* The verdict is derived from the obligations; the rest of the body is the
\* assembly's own.
Certify(assembly) ==
    LET body == [assembly EXCEPT !.verdict = UnderMode(assembly.mode, assembly.obligations)]
    IN [fault |-> CertificateFault(body), certificate |-> Seal(body)]

\* check_contracts: no contract twice, no obligation twice in one contract.
ContractFault(d, i) ==
    LET c == d.contracts[i]
    IN Unless(/\ \A j \in 1..(i - 1) : d.contracts[j].id # c.id
              /\ IsInjective(c.obligations), "contract_invalid")

ContractsFault(d) == First(DOMAIN d.contracts, LAMBDA i : ContractFault(d, i))

-----------------------------------------------------------------------------
(***************************************************************************)
(* Coverage: which of a contract's declared obligations the certificate    *)
(* accounts for, under that contract's name.                               *)
(***************************************************************************)
\* (mutant) An obligation of another contract with the same name counts.
AccountedForByName(body, contract, statement) ==
    \E o \in Range(body.obligations) : o.id = statement

AccountedFor(body, contract, statement) ==
    \E o \in Range(body.obligations) : o.contract = contract /\ o.id = statement

CoverageOf(declared, body) ==
    {s \in Range(declared.obligations) : ~AccountedFor(body, declared.id, s)}

ContractsNamed(d, contract) == {i \in DOMAIN d.contracts : d.contracts[i].id = contract}

\* Definition::contract is the first of that name.
Uncovered(d, contract, body) ==
    IF ContractsNamed(d, contract) = {} THEN "contract_not_in_definition"
    ELSE Unless(CoverageOf(d.contracts[Min(ContractsNamed(d, contract))], body) = {}, "contract_not_covered")

-----------------------------------------------------------------------------
(***************************************************************************)
(* Trust: an admitted record of what one certificate established.          *)
(***************************************************************************)
AdmitRecord(raw, certs, d, provenance) ==
    LET found == {c \in certs : c.replay_digest = raw.certificate}
        body  == (CHOOSE c \in found : TRUE).body
        fault == IF raw.contract = NoContract THEN "missing_contract"
                 ELSE IF found = {} THEN "certificate_not_found"
                 ELSE IF d.encodes /\ body.definition # d.digest THEN "certificate_not_for_this_definition"
                 ELSE Uncovered(d, raw.contract, body)
    IN IF fault # Ok THEN [fault |-> fault]
       ELSE [fault |-> Ok, contract |-> raw.contract, certificate |-> raw.certificate,
             verdict |-> body.verdict, residuals |-> Len(Residuals(body)), provenance |-> provenance]

Justifies(record) ==
    CASE record.verdict = "accepted" /\ record.residuals = 0 /\ record.provenance = "complete" ->
             [level |-> 2, contract |-> record.contract]
      [] record.verdict \in {"rejected", "unverified"} -> Unverified
      [] OTHER -> [level |-> 1, contract |-> record.contract]

Weakened(class) == IF class.level = 2 THEN [class EXCEPT !.level = 1] ELSE Unverified

AfterOpaqueHop(class) == Unverified

CheckTrustRoute(policy, into, class) ==
    LET routes == SelectSeq(policy.routes, LAMBDA r : r.into = into)
    IN IF routes = <<>> THEN Ok
       ELSE IF class.level < routes[1].minimum THEN "verdict_below_minimum"
       ELSE Unless(routes[1].contract \in {NoContract, class.contract}, "contract_mismatch")

-----------------------------------------------------------------------------
(***************************************************************************)
(* Boundaries.  A policy is [mode, contracts, verifiers, boundaries,       *)
(* waivers, routes]; what it asks of one boundary is [minimum, contract,   *)
(* approval, maxAge].                                                      *)
(***************************************************************************)
EffectiveMode(policy, declared) == Strictest(policy.mode, declared)

UnmetVerifier(req, records) ==
    LET named    == SelectSeq(records, LAMBDA r : r.name = req.name)
        version  == SelectSeq(named, LAMBDA r : req.version \in {Unset, r.version})
        selected == SelectSeq(version, LAMBDA r : req.environment \in {Unset, r.environment})
    IN CASE named = <<>> -> "missing_verifier"
         [] named # <<>> /\ version = <<>> -> "verifier_version_mismatch"
         [] version # <<>> /\ selected = <<>> -> "verifier_environment_mismatch"
         [] OTHER -> Along(selected, LAMBDA r : Unless(VerdictMeets(r.verdict, req.minimum), "verifier_did_not_pass"))

NewestEvidence(body) == Max({body.evidence[i].at : i \in DOMAIN body.evidence})

AgeFault(maxAge, body, now) ==
    IF maxAge = Unset THEN Ok
    ELSE IF body.evidence = <<>> THEN "certificate_undatable"
    ELSE Unless(now - NewestEvidence(body) <= maxAge, "certificate_stale")

WaiverFault(policy, o) ==
    Unless(o.state = "waived" => o.authority \in policy.waivers, "waiver_not_authorised")

\* An approval is any discharged obligation of that name, whichever contract
\* it belongs to.
ApprovalFault(approval, body) ==
    Unless(approval # Unset => \E o \in Range(body.obligations) : o.id = approval /\ o.state = "discharged",
           "missing_approval")

Gated(required, body) ==
    IF required.contract = NoContract THEN body.verdict
    ELSE ForContract(body.mode, required.contract, body.obligations)

\* What stands between a certificate and a governed boundary, in order.
CrossingFault(policy, d, required, cert, now, revoked) ==
    LET body      == cert.body
        contracts == (IF required.contract = NoContract THEN <<>> ELSE <<required.contract>>) \o policy.contracts
    IN IF ~d.encodes \/ body.definition # d.digest THEN "certificate_not_for_this_definition"
       ELSE IF cert.replay_digest \in revoked THEN "certificate_revoked"
       ELSE Checks(<<AgeFault(required.maxAge, body, now),
                     Along(contracts, LAMBDA c : Uncovered(d, c, body)),
                     Along(policy.verifiers, LAMBDA r : UnmetVerifier(r, body.verifiers)),
                     Along(body.obligations, LAMBDA o : WaiverFault(policy, o)),
                     ApprovalFault(required.approval, body),
                     Unless(VerdictMeets(Gated(required, body), required.minimum), "verdict_below_minimum")>>)

\* `certs` holds the certificate presented, or nothing.
DecideBoundary(policy, declared, d, certs, boundary, now, revoked) ==
    IF ~EnforcesBoundaries(EffectiveMode(policy, declared)) THEN "not_enforced"
    ELSE IF boundary \notin DOMAIN policy.boundaries THEN "boundary_not_governed"
    ELSE IF certs = {} THEN "no_certificate"
    ELSE LET fault == CrossingFault(policy, d, policy.boundaries[boundary],
                                    CHOOSE c \in certs : TRUE, now, revoked)
         IN IF fault = Ok THEN "allowed" ELSE fault
=============================================================================
