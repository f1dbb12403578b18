----------------------------- MODULE Boundaries -----------------------------
(***************************************************************************)
(* From a stored definition to what a protected boundary lets through: the *)
(* tables of crates/postgres/src ir_definitions.rs, ir_runs.rs and         *)
(* assurance.rs, the certifying of a run, revocation, crossings and        *)
(* routed values.                                                          *)
(*                                                                         *)
(* A plan is what may happen in one behaviour: definitions, run            *)
(* identifiers, assemblies, crossings and routes among it.  An assembly is *)
(* what the caller has gathered about a run: [id, run, events, stopped,    *)
(* verifiers, evidence, obligations].                                      *)
(***************************************************************************)
EXTENDS Assurance

CONSTANTS
    Plans,
    MaxNow          \* ticks of the clock

IsList(s) == s \in Seq(Range(s))

(***************************************************************************)
(* What the types of the code say of a plan: lists are lists, an           *)
(* obligation is in one of its states, evidence has a time.  A digest is   *)
(* that of one definition.  A route is of a definition that has a digest,  *)
(* as every definition that was admitted has.                              *)
(***************************************************************************)
ASSUME PlanAssumption ==
    \A p \in Plans :
        /\ \A d \in p.definitions : IsList(d.contracts)
        /\ \A a \in p.assemblies :
              /\ IsList(a.obligations) /\ \A o \in Range(a.obligations) : o.state \in ObligationStates
              /\ IsList(a.evidence) /\ \A e \in Range(a.evidence) : e.at \in Int
        /\ \A x \in p.crossings : IsList(x.policy.contracts) /\ IsList(x.policy.verifiers)
        /\ \A x \in p.routes : x.definition.encodes /\ x.hop \in {"none", "weakened", "opaque"}
        /\ \A d \in p.definitions, x \in p.crossings \cup p.routes :
              d.encodes /\ x.definition.encodes /\ d.digest = x.definition.digest => d = x.definition

VARIABLES
    plan,
    versions,       \* ir_definition_versions, by their digests
    irRuns,         \* ir_runs: run -> [definition, mode]
    certificates,   \* assurance_certificates: id -> certificate
    obligations,    \* assurance_obligations: <<certificate, obligation>> -> row
    digests,        \* assurance_evidence
    revoked,
    now,
    crossed,        \* what was last let through: [crossing, certificate, at, revoked]
    routed          \* the value last routed: [parts, definition, class]

tableVars == <<versions, irRuns, certificates, obligations, digests>>
boundaryVars == <<plan, tableVars, revoked, now, crossed, routed>>

BoundaryInit ==
    /\ plan \in Plans
    /\ versions = {} /\ digests = {} /\ revoked = {} /\ crossed = {} /\ routed = {}
    /\ irRuns = <<>> /\ certificates = <<>> /\ obligations = <<>>
    /\ now = 0

-----------------------------------------------------------------------------
\* INSERT ... ON CONFLICT DO NOTHING: rows are added where the table has none.
InsertRows(table, rows) ==
    [k \in DOMAIN table \cup DOMAIN rows |-> IF k \in DOMAIN table THEN table[k] ELSE rows[k]]

Row(key, value) == [k \in {key} |-> value]

\* insert_ir_definition_version: a digest is stored once.
InsertIrDefinitionVersion(d) == versions' = versions \cup {d}

\* register_definition: nothing unadmitted is stored.
RegisterDefinition(d, admissible) ==
    /\ d \in admissible
    /\ InsertIrDefinitionVersion(d)
    /\ UNCHANGED <<plan, irRuns, certificates, obligations, digests, revoked, now, crossed, routed>>

\* create_ir_run: the row and its first event, unless there is a row.
CreateIrRun(id, digest, mode) ==
    /\ id \notin DOMAIN irRuns
    /\ irRuns' = InsertRows(irRuns, Row(id, [definition |-> digest, mode |-> mode]))

\* start_ir_run: a run of a stored definition, in the definition's own mode.
StartIrRun(id, d) ==
    /\ d \in versions
    /\ CreateIrRun(id, d.digest, d.mode)
    /\ UNCHANGED <<plan, versions, certificates, obligations, digests, revoked, now, crossed, routed>>

\* evidence_of: the subject is the run's own, the loops those of its log.
EvidenceOf(a) ==
    [id |-> a.id, definition |-> irRuns[a.run].definition, mode |-> irRuns[a.run].mode,
     verifiers |-> a.verifiers, evidence |-> a.evidence, obligations |-> a.obligations,
     loops |-> LoopOutcomes(a.events, a.stopped), verdict |-> "unverified",
     schema |-> CertificateSchema, kernel |-> KernelVersion]

\* The rows of a certificate: one for each obligation identifier, the first.
ObligationRows(cert) ==
    LET os == cert.body.obligations
        First1(key) == os[Min({i \in DOMAIN os : os[i].id = key})]
    IN [k \in {<<cert.body.id, os[i].id>> : i \in DOMAIN os} |-> First1(k[2])]

\* insert_assurance_certificate: every row only where there is none.
InsertCertificate(cert) ==
    /\ certificates' = InsertRows(certificates, Row(cert.body.id, cert))
    /\ obligations' = InsertRows(obligations, ObligationRows(cert))
    /\ digests' = digests \cup Cites(cert.body)

IssueCertificate(a) ==
    /\ a.run \in DOMAIN irRuns
    /\ CheckObligations(a.obligations, a.evidence, a.verifiers) = Ok
    /\ Certify(EvidenceOf(a)).fault = Ok
    /\ InsertCertificate(Certify(EvidenceOf(a)).certificate)
    /\ UNCHANGED <<plan, versions, irRuns, revoked, now, crossed, routed>>

-----------------------------------------------------------------------------
Revoke(id) ==
    /\ revoked' = revoked \cup {certificates[id].replay_digest}
    /\ UNCHANGED <<plan, tableVars, now, crossed, routed>>

Tick ==
    /\ now < MaxNow
    /\ now' = now + 1
    /\ UNCHANGED <<plan, tableVars, revoked, crossed, routed>>

\* A crossing is [policy, definition, boundary]; `ids` holds the certificate
\* presented for it, or nothing.
Cross(x, ids) ==
    LET presented == {certificates[id] : id \in ids}
    IN /\ DecideBoundary(x.policy, x.definition.mode, x.definition, presented, x.boundary, now, revoked) = "allowed"
       /\ crossed' = {[crossing |-> x, certificate |-> CHOOSE c \in presented : TRUE,
                         at |-> now, revoked |-> revoked]}
       /\ UNCHANGED <<plan, tableVars, revoked, now, routed>>

\* What a hop on the way makes of a value's class.
AfterHop(hop, class) ==
    CASE hop = "none" -> class
      [] hop = "weakened" -> Weakened(class)
      [] hop = "opaque" -> AfterOpaqueHop(class)

\* A value combined from others reaches a protected place.  A route is
\* [policy, into, definition, parts, provenance, hop], a part the certificate
\* and the contract its record names.
RouteValue(x) ==
    LET Named(p) == AdmitRecord([contract |-> p.contract, certificate |-> certificates[p.certificate].replay_digest],
                                Range(certificates), x.definition, x.provenance)
        Class(records) == AfterHop(x.hop, MeetAll([i \in DOMAIN records |-> Justifies(records[i])]))
        Routed(class) ==
            /\ CheckTrustRoute(x.policy, x.into, class) = Ok
            /\ routed' = {[definition |-> x.definition, class |-> class,
                           parts |-> {certificates[p.certificate] : p \in Range(x.parts)}]}
    IN /\ \A p \in Range(x.parts) : p.certificate \in DOMAIN certificates
       /\ \A p \in Range(x.parts) : Named(p).fault = Ok
       /\ Routed(Class([i \in DOMAIN x.parts |-> Named(x.parts[i])]))
       /\ UNCHANGED <<plan, tableVars, revoked, now, crossed>>

\* `admissible` holds the definitions admission lets through.
BoundaryNext(admissible) ==
    \/ \E d \in plan.definitions : RegisterDefinition(d, admissible)
    \/ \E d \in plan.definitions, id \in plan.runs : StartIrRun(id, d)
    \/ \E a \in plan.assemblies : IssueCertificate(a)
    \/ \E id \in DOMAIN certificates : Revoke(id)
    \/ \E x \in plan.crossings : \E ids \in {{}} \cup {{id} : id \in DOMAIN certificates} : Cross(x, ids)
    \/ \E x \in plan.routes : RouteValue(x)
    \/ plan.crossings # {} /\ Tick

\* What a boundary relies on admission for.
ContractsAdmitted(d) == d.encodes /\ ContractsFault(d) = Ok

WellContracted == {d \in plan.definitions : ContractsAdmitted(d)}

BoundarySpec == BoundaryInit /\ [][BoundaryNext(WellContracted)]_boundaryVars

-----------------------------------------------------------------------------
(***************************************************************************)
(* Properties.                                                             *)
(***************************************************************************)
\* Every obligation the definition's contract declares is discharged under
\* that contract's name by evidence the certificate carries.
Earned(body, d, contract) ==
    /\ \E k \in Range(d.contracts) : k.id = contract
    /\ \A k \in Range(d.contracts) : k.id = contract =>
          \A s \in Range(k.obligations) : \E o \in Range(body.obligations) :
              o.contract = contract /\ o.id = s /\ o.state = "discharged" /\ o.evidence \subseteq Cites(body)

\* What was let through a governed boundary that asks for an accepted contract
\* had a certificate of that very definition, not revoked then and with young
\* enough evidence, that earned the contract, whatever else it holds; and a
\* value that arrives as verified under a contract is combined only of values
\* whose certificates, of that definition, earned it, with no opaque hop
\* (decide_boundary and VerificationRecord::admit with coverage,
\* for_contract, TrustClass::meet_all and CertificateBody::check).
CrossingIsEarned ==
    /\ \A c \in crossed :
          LET asked == c.crossing.policy.boundaries[c.crossing.boundary]
              body  == c.certificate.body
          IN /\ body.definition = c.crossing.definition.digest
             /\ c.certificate.replay_digest \notin c.revoked
             /\ asked.maxAge # Unset => \E i \in DOMAIN body.evidence : c.at - body.evidence[i].at <= asked.maxAge
             /\ asked.contract # NoContract /\ asked.minimum = "accepted" =>
                   Earned(body, c.crossing.definition, asked.contract)
    /\ \A v \in routed : v.class.level = 2 =>
          \A cert \in v.parts : cert.body.definition = v.definition.digest /\ Earned(cert.body, v.definition, v.class.contract)
=============================================================================
