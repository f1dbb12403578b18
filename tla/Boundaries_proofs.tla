-------------------------- MODULE Boundaries_proofs --------------------------
(***************************************************************************)
(* Protected boundaries for any definitions, runs, assemblies, policies    *)
(* and routes, and any order of registering, certifying, revoking and      *)
(* crossing: what was let through was earned.                              *)
(***************************************************************************)
EXTENDS Boundaries, TLAPS, SequenceTheorems, WellFoundedInduction

-----------------------------------------------------------------------------
(***************************************************************************)
(* Numbers and lists.                                                      *)
(***************************************************************************)
\* A non-empty set of numbers has a least element, and Min is it.
LEMMA MinIsLeast ==
  ASSUME NEW S, S \subseteq Nat, S # {}
  PROVE  Min(S) \in S /\ \A y \in S : Min(S) <= y
<1>1. PICK x \in S : \A y \in S : ~(<<y, x>> \in OpToRel(<, Nat))
  BY NatLessThanWellFounded, WFMin, Zenon
<1>2. \A y \in S : ~(y < x)
  BY <1>1 DEF OpToRel
<1>3. \A y \in S : x <= y
  BY <1>2
<1>. QED  BY <1>3, Zenon DEF Min

\* The positions of a list.
LEMMA ListPositions ==
  ASSUME NEW s, IsList(s)
  PROVE  /\ Len(s) \in Nat /\ DOMAIN s = 1..Len(s) /\ DOMAIN s \subseteq Nat
         /\ \A i \in DOMAIN s : s[i] \in Range(s)
         /\ \A x \in Range(s) : \E i \in DOMAIN s : s[i] = x
         /\ s = <<>> \/ 1 \in DOMAIN s
<1>1. Len(s) \in Nat /\ DOMAIN s = 1..Len(s) /\ (s = <<>> \/ 1 \in DOMAIN s)
  BY DEF IsList
<1>2. DOMAIN s \subseteq Nat
  BY <1>1
<1>. QED  BY <1>1, <1>2, Zenon DEF Range

\* The dates of a list have a latest one, and Max is it.
LEMMA LatestOf ==
  ASSUME NEW s, IsList(s), s # << >>, \A e \in Range(s) : e.at \in Int
  PROVE  \E i \in DOMAIN s : Max({s[j].at : j \in DOMAIN s}) = s[i].at
<1>. DEFINE Latest(n, i) == i \in 1..n /\ \A j \in 1..n : s[j].at <= s[i].at
            late == {n \in 1..Len(s) : ~\E i \in 1..Len(s) : Latest(n, i)}
<1>1. /\ Len(s) \in Nat /\ DOMAIN s = 1..Len(s) /\ 1 \in DOMAIN s
      /\ \A i \in 1..Len(s) : s[i].at \in Int
  BY ListPositions, Zenon
<1>2. late = {}
  <2>. SUFFICES ASSUME late # {} PROVE FALSE
    OBVIOUS
  <2>1. late \subseteq Nat
    BY <1>1
  <2>2. PICK n \in late : \A m \in late : n <= m
    <3>. HIDE DEF late
    <3>. QED  BY <2>1, MinIsLeast, Zenon
  <2>3. CASE n = 1
    <3>1. Latest(1, 1)
      BY <1>1
    <3>. QED  BY <1>1, <2>2, <2>3, <3>1
  <2>4. CASE n # 1
    <3>1. n - 1 \in 1..Len(s) /\ n \in 1..Len(s) /\ ~(n <= n - 1)
      BY <1>1, <2>2, <2>4
    <3>2. PICK i \in 1..Len(s) : Latest(n - 1, i)
      BY <2>2, <3>1
    <3>3. \A j \in 1..n : j \in 1..(n - 1) \/ j = n
      BY <3>1
    <3>4. i \in 1..n /\ n \in 1..n /\ s[i].at \in Int /\ s[n].at \in Int /\ \A j \in 1..n : s[j].at \in Int
      BY <1>1, <3>1, <3>2
    <3>5. CASE s[n].at <= s[i].at
      <4>1. \A j \in 1..n : s[j].at <= s[i].at
        BY <3>2, <3>3, <3>5
      <4>2. Latest(n, i)
        BY <3>4, <4>1
      <4>. QED  BY <2>2, <3>2, <4>2
    <3>6. CASE ~(s[n].at <= s[i].at)
      <4>1. \A j \in 1..n : s[j].at <= s[n].at
        BY <3>2, <3>3, <3>4, <3>6
      <4>2. Latest(n, n)
        BY <3>4, <4>1
      <4>. QED  BY <2>2, <3>1, <4>2
    <3>. QED  BY <3>5, <3>6
  <2>. QED  BY <2>3, <2>4
<1>3. PICK i \in 1..Len(s) : Latest(Len(s), i)
  <2>1. Len(s) \in 1..Len(s)
    BY <1>1
  <2>2. Len(s) \notin late
    BY <1>2, Zenon
  <2>. QED  BY <2>1, <2>2, Zenon
<1>. DEFINE dates == {s[j].at : j \in DOMAIN s}
<1>4. s[i].at \in dates /\ \A d \in dates : s[i].at >= d
  BY <1>1, <1>3
<1>. HIDE DEF dates
<1>5. Max(dates) \in dates
  BY <1>4, Zenon DEF Max
<1>. QED  BY <1>5 DEF dates

-----------------------------------------------------------------------------
(***************************************************************************)
(* What a check that passes has found.                                     *)
(***************************************************************************)
\* Checks passes when all of them do, and otherwise says what one of them says.
LEMMA ChecksPass ==
  ASSUME NEW s, IsList(s)
  PROVE  /\ Checks(s) = Ok => \A i \in DOMAIN s : s[i] = Ok
         /\ Checks(s) = Ok \/ \E i \in DOMAIN s : Checks(s) = s[i]
<1>. DEFINE bad == {i \in DOMAIN s : s[i] # Ok}
<1>1. Checks(s) = IF bad = {} THEN Ok ELSE s[Min(bad)]
  BY Zenon DEF Checks, Along, First
<1>2. bad \subseteq Nat
  BY ListPositions
<1>. HIDE DEF bad
<1>3. bad # {} => Min(bad) \in bad
  BY <1>2, MinIsLeast, Zenon
<1>. QED  BY <1>1, <1>3, Zenon DEF bad

\* What a boundary's checks say of contracts, of verifiers and of waivers.
SaidOfContracts(s, d, body) == Along(s, LAMBDA c : Uncovered(d, c, body))
SaidOfVerifiers(s, records) == Along(s, LAMBDA r : UnmetVerifier(r, records))
SaidOfWaivers(s, policy) == Along(s, LAMBDA o : WaiverFault(policy, o))

\* Every contract of a list that passes is covered (coverage).
LEMMA ContractsCovered ==
  ASSUME NEW s, IsList(s), NEW d, NEW body
  PROVE  /\ SaidOfContracts(s, d, body) = Ok => \A i \in DOMAIN s : Uncovered(d, s[i], body) = Ok
         /\ SaidOfContracts(s, d, body) # "allowed"
<1>. DEFINE bad == {i \in DOMAIN s : Uncovered(d, s[i], body) # Ok}
<1>1. SaidOfContracts(s, d, body) = IF bad = {} THEN Ok ELSE Uncovered(d, s[Min(bad)], body)
  BY Zenon DEF SaidOfContracts, Along, First
<1>2. bad \subseteq Nat
  BY ListPositions
<1>. HIDE DEF bad
<1>3. bad # {} => Min(bad) \in bad
  BY <1>2, MinIsLeast, Zenon
<1>4. \A c : Uncovered(d, c, body) # "allowed"
  BY DEF Uncovered, Unless, Ok
<1>5. Ok # "allowed"
  BY DEF Ok
<1>. QED  BY <1>1, <1>3, <1>4, <1>5, Zenon DEF bad

\* What is said of verifiers and of waivers is never "allowed".
LEMMA VerifiersSpeak ==
  ASSUME NEW s, NEW records
  PROVE  SaidOfVerifiers(s, records) # "allowed"
<1>1. ASSUME NEW r PROVE UnmetVerifier(r, records) # "allowed"
  <2>. DEFINE named    == SelectSeq(records, LAMBDA q : q.name = r.name)
              version  == SelectSeq(named, LAMBDA q : r.version \in {Unset, q.version})
              selected == SelectSeq(version, LAMBDA q : r.environment \in {Unset, q.environment})
              said     == Along(selected, LAMBDA q : Unless(VerdictMeets(q.verdict, r.minimum), "verifier_did_not_pass"))
  <2>1. said \in {Ok, "verifier_did_not_pass"}
    BY DEF Along, First, Unless
  <2>2. UnmetVerifier(r, records) =
            CASE named = <<>> -> "missing_verifier"
              [] named # <<>> /\ version = <<>> -> "verifier_version_mismatch"
              [] version # <<>> /\ selected = <<>> -> "verifier_environment_mismatch"
              [] OTHER -> said
    BY Zenon DEF UnmetVerifier
  <2>. HIDE DEF said, named, version, selected
  <2>. QED  BY <2>1, <2>2 DEF Ok
<1>2. Ok # "allowed"
  BY DEF Ok
<1>. QED  BY <1>1, <1>2, Zenon DEF SaidOfVerifiers, Along, First

LEMMA WaiversSpeak ==
  ASSUME NEW s, NEW policy
  PROVE  SaidOfWaivers(s, policy) # "allowed"
<1>1. \A o : WaiverFault(policy, o) # "allowed"
  BY DEF WaiverFault, Unless, Ok
<1>2. Ok # "allowed"
  BY DEF Ok
<1>. QED  BY <1>1, <1>2, Zenon DEF SaidOfWaivers, Along, First

\* A list over any set is one.
LEMMA ListOver ==
  ASSUME NEW X, NEW s \in Seq(X)
  PROVE  IsList(s)
<1>1. Len(s) \in Nat /\ DOMAIN s = 1..Len(s) /\ s = [i \in 1..Len(s) |-> s[i]]
  OBVIOUS
<1>2. \A i \in 1..Len(s) : s[i] \in Range(s)
  BY <1>1 DEF Range
<1>. QED  BY <1>1, <1>2, SeqDef DEF IsList

\* What stands between a certificate and a boundary, when nothing does
\* (decide_boundary).
LEMMA CrossingPasses ==
  ASSUME NEW policy, NEW d, NEW required, NEW cert, NEW t, NEW gone, IsList(policy.contracts)
  PROVE  /\ CrossingFault(policy, d, required, cert, t, gone) # "allowed"
         /\ CrossingFault(policy, d, required, cert, t, gone) = Ok =>
               /\ d.encodes /\ cert.body.definition = d.digest
               /\ cert.replay_digest \notin gone
               /\ AgeFault(required.maxAge, cert.body, t) = Ok
               /\ required.contract # NoContract => Uncovered(d, required.contract, cert.body) = Ok
               /\ VerdictMeets(Gated(required, cert.body), required.minimum)
<1>. DEFINE contracts == (IF required.contract = NoContract THEN <<>> ELSE <<required.contract>>) \o policy.contracts
            f1 == AgeFault(required.maxAge, cert.body, t)
            f2 == SaidOfContracts(contracts, d, cert.body)
            f3 == SaidOfVerifiers(policy.verifiers, cert.body.verifiers)
            f4 == SaidOfWaivers(cert.body.obligations, policy)
            f5 == ApprovalFault(required.approval, cert.body)
            f6 == Unless(VerdictMeets(Gated(required, cert.body), required.minimum), "verdict_below_minimum")
            all == <<f1, f2, f3, f4, f5, f6>>
<1>1. CrossingFault(policy, d, required, cert, t, gone) =
          IF ~d.encodes \/ cert.body.definition # d.digest THEN "certificate_not_for_this_definition"
          ELSE IF cert.replay_digest \in gone THEN "certificate_revoked" ELSE Checks(all)
  BY Zenon DEF CrossingFault, SaidOfContracts, SaidOfVerifiers, SaidOfWaivers
<1>2. IsList(contracts)
  <2>. DEFINE X == Range(policy.contracts) \cup {required.contract}
  <2>1. policy.contracts \in Seq(X)
    BY SeqDef DEF IsList
  <2>2. <<>> \in Seq(X) /\ <<required.contract>> \in Seq(X)
    OBVIOUS
  <2>. HIDE DEF X
  <2>3. contracts \in Seq(X)
    BY <2>1, <2>2, ConcatProperties
  <2>. QED  BY <2>3, ListOver, Zenon
<1>3. required.contract # NoContract => 1 \in DOMAIN contracts /\ contracts[1] = required.contract
  BY DEF IsList
<1>4. f2 # "allowed" /\ (f2 = Ok => \A i \in DOMAIN contracts : Uncovered(d, contracts[i], cert.body) = Ok)
  <2>. HIDE DEF contracts
  <2>. QED  BY <1>2, ContractsCovered, Zenon
<1>5. f1 # "allowed"
  BY DEF AgeFault, Unless, Ok
<1>6. f3 # "allowed" /\ f4 # "allowed"
  BY VerifiersSpeak, WaiversSpeak, Zenon
<1>7. f5 # "allowed"
  BY DEF ApprovalFault, Unless, Ok
<1>8. f6 # "allowed" /\ (f6 = Ok => VerdictMeets(Gated(required, cert.body), required.minimum))
  BY DEF Unless, Ok
<1>. HIDE DEF contracts, f1, f2, f3, f4, f5, f6
<1>9. IsList(all)
  <2>1. all \in Seq({f1, f2, f3, f4, f5, f6})
    OBVIOUS
  <2>. QED  BY <2>1, ListOver, Zenon
<1>10. /\ DOMAIN all = 1..6 /\ all[1] = f1 /\ all[2] = f2 /\ all[6] = f6
       /\ \A i \in DOMAIN all : all[i] # "allowed"
  BY <1>4, <1>5, <1>6, <1>7, <1>8
<1>. HIDE DEF all
<1>11. Checks(all) # "allowed" /\ (Checks(all) = Ok => f1 = Ok /\ f2 = Ok /\ f6 = Ok)
  BY <1>9, <1>10, ChecksPass DEF Ok
<1>12. "certificate_not_for_this_definition" # Ok /\ "certificate_revoked" # Ok
  BY DEF Ok
<1>. QED  BY <1>1, <1>3, <1>4, <1>8, <1>11, <1>12 DEF f1

\* A boundary lets through only a certificate that nothing stands against.
LEMMA AllowedMeansPassed ==
  ASSUME NEW policy, NEW declared, NEW d, NEW certs, NEW boundary, NEW t, NEW gone, IsList(policy.contracts),
         DecideBoundary(policy, declared, d, certs, boundary, t, gone) = "allowed"
  PROVE  certs # {} /\ CrossingFault(policy, d, policy.boundaries[boundary], CHOOSE c \in certs : TRUE, t, gone) = Ok
<1>. DEFINE c == CHOOSE c \in certs : TRUE
            fault == CrossingFault(policy, d, policy.boundaries[boundary], c, t, gone)
<1>1. \A k : CrossingFault(policy, d, policy.boundaries[boundary], k, t, gone) # "allowed"
  BY CrossingPasses
<1>2. certs # {} /\ (IF fault = Ok THEN "allowed" ELSE fault) = "allowed"
  BY DEF DecideBoundary
<1>. QED  BY <1>1, <1>2, Zenon

\* A certificate that passes its own check (CertificateBody::check): its
\* verdict is the one its obligations give, and it carries the evidence they
\* rest on.
LEMMA BodyChecked ==
  ASSUME NEW body, IsList(body.obligations), CertificateFault(body) = Ok
  PROVE  /\ body.verdict = UnderMode(body.mode, body.obligations)
         /\ \A o \in Range(body.obligations) : RestsOn(o) \subseteq Cites(body)
<1>. DEFINE Twice(i) == \E j \in 1..(i - 1) : <<body.obligations[j].contract, body.obligations[j].id>> =
                                              <<body.obligations[i].contract, body.obligations[i].id>>
            Fault(i) == IF Twice(i) THEN "duplicate_obligation"
                        ELSE Unless(\A e \in RestsOn(body.obligations[i]) : Carries(body, e), "missing_evidence")
            bad == {i \in DOMAIN body.obligations : Fault(i) # Ok}
<1>1. /\ UnderMode(body.mode, body.obligations) = body.verdict
      /\ bad = {} \/ Fault(Min(bad)) = Ok
  BY Zenon DEF CertificateFault, First, Ok
<1>2. bad \subseteq Nat
  BY ListPositions
<1>3. bad = {}
  <2>. HIDE DEF bad
  <2>1. bad # {} => Min(bad) \in bad
    BY <1>2, MinIsLeast, Zenon
  <2>. QED  BY <1>1, <2>1, Zenon DEF bad
<1>4. \A i \in DOMAIN body.obligations : \A e \in RestsOn(body.obligations[i]) : Carries(body, e)
  BY <1>3 DEF Unless, Ok
<1>5. \A o \in Range(body.obligations) : \A e \in RestsOn(o) : Carries(body, e)
  BY <1>4, Zenon DEF Range
<1>. QED  BY <1>1, <1>5 DEF Carries

-----------------------------------------------------------------------------
(***************************************************************************)
(* From checks to contracts that were earned.                              *)
(***************************************************************************)
\* An admitted definition declares a contract once (check_contracts).
LEMMA ContractsOnce ==
  ASSUME NEW d, IsList(d.contracts), ContractsFault(d) = Ok
  PROVE  \A k, l \in Range(d.contracts) : k.id = l.id => k = l
<1>. DEFINE bad == {i \in DOMAIN d.contracts : ContractFault(d, i) # Ok}
<1>1. bad = {} \/ ContractFault(d, Min(bad)) = Ok
  BY Zenon DEF ContractsFault, First
<1>2. bad \subseteq Nat /\ DOMAIN d.contracts \subseteq Nat /\ DOMAIN d.contracts = 1..Len(d.contracts)
      /\ Len(d.contracts) \in Nat
  BY ListPositions
<1>3. bad = {}
  <2>. HIDE DEF bad
  <2>1. bad # {} => Min(bad) \in bad
    BY <1>2, MinIsLeast, Zenon
  <2>. QED  BY <1>1, <2>1, Zenon DEF bad
<1>4. \A i \in DOMAIN d.contracts : \A j \in 1..(i - 1) : d.contracts[j].id # d.contracts[i].id
  BY <1>3 DEF ContractFault, Unless, Ok
<1>5. \A i, j \in DOMAIN d.contracts : d.contracts[i].id = d.contracts[j].id => i = j
  BY <1>2, <1>4
<1>. QED  BY <1>5, Zenon DEF Range

\* A contract all of whose declared obligations the certificate accounts for,
\* each of them discharged on evidence it carries, is earned.
LEMMA EarnedFrom ==
  ASSUME NEW d, IsList(d.contracts), ContractsFault(d) = Ok, NEW body, NEW contract,
         Uncovered(d, contract, body) = Ok,
         \A o \in Range(body.obligations) :
             o.contract = contract => o.state = "discharged" /\ RestsOn(o) \subseteq Cites(body)
  PROVE  Earned(body, d, contract)
<1>. DEFINE named == ContractsNamed(d, contract)
            first == d.contracts[Min(named)]
<1>1. named # {} /\ CoverageOf(first, body) = {}
  BY DEF Uncovered, Unless, Ok
<1>2. named \subseteq Nat
  BY ListPositions DEF ContractsNamed
<1>3. Min(named) \in named
  BY <1>1, <1>2, MinIsLeast, Zenon
<1>4. first \in Range(d.contracts) /\ first.id = contract
  BY <1>3, Zenon DEF ContractsNamed, Range
<1>. HIDE DEF first, named
<1>5. \A k \in Range(d.contracts) : k.id = contract => k = first
  BY <1>4, ContractsOnce, Zenon
<1>6. \A s \in Range(first.obligations) : \E o \in Range(body.obligations) : o.contract = contract /\ o.id = s
  BY <1>1, <1>4, Zenon DEF CoverageOf, AccountedFor
<1>7. \A o \in Range(body.obligations) : o.contract = contract => o.state = "discharged" /\ o.evidence \subseteq Cites(body)
  BY DEF RestsOn
<1>. QED  BY <1>4, <1>5, <1>6, <1>7, Zenon DEF Earned

\* An obligation that has neither failed nor is outstanding is discharged.
LEMMA DischargedOtherwise ==
  ASSUME NEW o, o.state \in ObligationStates, ~HasFailed(o), ~IsOutstanding(o)
  PROVE  o.state = "discharged"
  BY DEF ObligationStates, HasFailed, IsOutstanding

\* A contract's own verdict is accepted only when all its obligations are
\* discharged (AssuranceVerdict::for_contract).
LEMMA AcceptedForContract ==
  ASSUME NEW mode, NEW contract, NEW os, \A o \in Range(os) : o.state \in ObligationStates,
         VerdictMeets(ForContract(mode, contract, os), "accepted")
  PROVE  \A o \in Range(os) : o.contract = contract => o.state = "discharged"
<1>. DEFINE own == {o \in Range(os) : o.contract = contract}
            verdict == ForContract(mode, contract, os)
<1>1. verdict \in {"unverified", "rejected", "conditional", "accepted"}
  BY DEF ForContract
<1>2. verdict = "accepted"
  <2>1. VerdictMeets(verdict, "accepted")
    OBVIOUS
  <2>. HIDE DEF verdict
  <2>2. VerdictRank("accepted") = 3 /\ VerdictRank("unverified") = 1
        /\ VerdictRank("rejected") = 0 /\ VerdictRank("conditional") = 2
    BY DEF VerdictRank
  <2>. QED  BY <1>1, <2>1, <2>2 DEF VerdictMeets
<1>3. (\A o \in Range(os) : ~HasFailed(o)) /\ \A o \in own : ~IsOutstanding(o)
  BY <1>2 DEF ForContract
<1>. QED  BY <1>3, DischargedOtherwise, Zenon

\* A certificate's own verdict is accepted only when all its obligations are
\* discharged (AssuranceVerdict::from_obligations).
LEMMA AcceptedUnderMode ==
  ASSUME NEW mode, NEW os, \A o \in Range(os) : o.state \in ObligationStates,
         UnderMode(mode, os) = "accepted"
  PROVE  \A o \in Range(os) : o.state = "discharged"
<1>1. FromObligations(os) = "accepted"
  BY DEF UnderMode
<1>2. \A o \in Range(os) : ~HasFailed(o) /\ ~IsOutstanding(o)
  BY <1>1 DEF FromObligations
<1>. QED  BY <1>2, DischargedOtherwise, Zenon

\* Classes that meet in a verified one are verified, and about its contract
\* (TrustClass::meet_all).
LEMMA MeetIsWeakest ==
  ASSUME NEW cs, MeetAll(cs).level = 2
  PROVE  \A i \in DOMAIN cs : cs[i].contract = MeetAll(cs).contract /\ 2 <= cs[i].level
<1>. DEFINE Weakest(c) == \A b \in Range(cs) : b.contract = c.contract /\ c.level <= b.level
            m == MeetAll(cs)
<1>1. m = IF \E c \in Range(cs) : Weakest(c) THEN CHOOSE c \in Range(cs) : Weakest(c) ELSE Unverified
  BY Zenon DEF MeetAll
<1>2. Unverified.level # 2
  BY DEF Unverified
<1>3. Weakest(m)
  <2>. HIDE DEF Weakest
  <2>. QED  BY <1>1, <1>2, Zenon
<1>. QED  BY <1>3 DEF Range

\* Only a record of an accepted certificate justifies the verified class
\* (VerificationRecord::justifies).
LEMMA VerifiedByRecord ==
  ASSUME NEW record, 2 <= Justifies(record).level
  PROVE  record.verdict = "accepted" /\ Justifies(record).contract = record.contract
<1>. DEFINE whole == record.verdict = "accepted" /\ record.residuals = 0 /\ record.provenance = "complete"
<1>1. CASE whole
  BY <1>1 DEF Justifies
<1>2. CASE ~whole
  <2>1. Justifies(record).level \in {0, 1}
    <3>1. CASE record.verdict \in {"rejected", "unverified"}
      BY <1>2, <3>1 DEF Justifies, Unverified
    <3>2. CASE record.verdict \notin {"rejected", "unverified"}
      BY <1>2, <3>2 DEF Justifies
    <3>. QED  BY <3>1, <3>2
  <2>. QED  BY <2>1
<1>. QED  BY <1>1, <1>2

\* An admitted record says what a certificate of that digest says, which is of
\* that definition and covers the contract (VerificationRecord::admit).
LEMMA RecordAdmitted ==
  ASSUME NEW raw, NEW certs, NEW d, NEW provenance, AdmitRecord(raw, certs, d, provenance).fault = Ok
  PROVE  \E c \in certs :
            /\ c.replay_digest = raw.certificate
            /\ d.encodes => c.body.definition = d.digest
            /\ Uncovered(d, raw.contract, c.body) = Ok
            /\ AdmitRecord(raw, certs, d, provenance).verdict = c.body.verdict
            /\ AdmitRecord(raw, certs, d, provenance).contract = raw.contract
<1>. DEFINE found == {c \in certs : c.replay_digest = raw.certificate}
            chosen == CHOOSE c \in found : TRUE
            fault == IF raw.contract = NoContract THEN "missing_contract"
                     ELSE IF found = {} THEN "certificate_not_found"
                     ELSE IF d.encodes /\ chosen.body.definition # d.digest THEN "certificate_not_for_this_definition"
                     ELSE Uncovered(d, raw.contract, chosen.body)
            record == [fault |-> Ok, contract |-> raw.contract, certificate |-> raw.certificate,
                       verdict |-> chosen.body.verdict, residuals |-> Len(Residuals(chosen.body)),
                       provenance |-> provenance]
<1>1. AdmitRecord(raw, certs, d, provenance) = IF fault # Ok THEN [fault |-> fault] ELSE record
  BY Zenon DEF AdmitRecord
<1>2. fault = Ok
  <2>. HIDE DEF fault, record
  <2>. QED  BY <1>1
<1>3. found # {} /\ (d.encodes => chosen.body.definition = d.digest) /\ Uncovered(d, raw.contract, chosen.body) = Ok
  <2>. HIDE DEF found, chosen
  <2>. QED  BY <1>2 DEF Ok
<1>4. chosen \in found
  BY <1>3, Zenon
<1>5. AdmitRecord(raw, certs, d, provenance) = record
  BY <1>1, <1>2, Zenon
<1>. HIDE DEF chosen
<1>6. record.verdict = chosen.body.verdict /\ record.contract = raw.contract
  OBVIOUS
<1>. HIDE DEF record
<1>. QED  BY <1>3, <1>4, <1>5, <1>6, Zenon

-----------------------------------------------------------------------------
(***************************************************************************)
(* The tables.                                                             *)
(***************************************************************************)
\* A certificate as the table holds it: sealed, of a stored definition, and
\* passing its own check.
SoundCertificate(c, stored) ==
    /\ VerifySeal(c)
    /\ CertificateFault(c.body) = Ok
    /\ IsList(c.body.obligations) /\ \A o \in Range(c.body.obligations) : o.state \in ObligationStates
    /\ IsList(c.body.evidence) /\ \A e \in Range(c.body.evidence) : e.at \in Int
    /\ \E d \in stored : d.digest = c.body.definition

\* Runs and certificates are of stored definitions, and those were admitted.
BoundaryInv ==
    /\ plan \in Plans
    /\ \A d \in versions : d \in plan.definitions /\ ContractsAdmitted(d)
    /\ \A r \in DOMAIN irRuns : \E d \in versions : d.digest = irRuns[r].definition
    /\ \A id \in DOMAIN certificates : SoundCertificate(certificates[id], versions)
    /\ CrossingIsEarned

\* A certificate stays sound when more definitions are stored.
LEMMA StaysSound ==
  ASSUME NEW c, NEW S, NEW T, S \subseteq T, SoundCertificate(c, S)
  PROVE  SoundCertificate(c, T)
  BY Zenon DEF SoundCertificate

\* A sound certificate earned a contract it covers, all of whose obligations
\* in it are discharged, if the definition presented with it has the digest
\* it names.
LEMMA SoundEarns ==
  ASSUME BoundaryInv, NEW c, SoundCertificate(c, versions), NEW x \in plan.crossings \cup plan.routes,
         x.definition.encodes, c.body.definition = x.definition.digest, NEW contract,
         Uncovered(x.definition, contract, c.body) = Ok,
         \A o \in Range(c.body.obligations) : o.contract = contract => o.state = "discharged"
  PROVE  Earned(c.body, x.definition, contract)
<1>1. PICK d \in versions : d.digest = c.body.definition
  BY Zenon DEF SoundCertificate
<1>2. d \in plan.definitions /\ d.encodes /\ ContractsFault(d) = Ok /\ plan \in Plans
  BY <1>1, Zenon DEF BoundaryInv, ContractsAdmitted
<1>3. d = x.definition /\ IsList(d.contracts)
  BY <1>1, <1>2, PlanAssumption, Zenon
<1>4. \A o \in Range(c.body.obligations) : RestsOn(o) \subseteq Cites(c.body)
  BY BodyChecked, Zenon DEF SoundCertificate
<1>. QED  BY <1>2, <1>3, <1>4, EarnedFrom, Zenon

\* register_definition and start_ir_run.
LEMMA RegisterKeeps ==
  ASSUME BoundaryInv, NEW d \in plan.definitions, RegisterDefinition(d, WellContracted)
  PROVE  BoundaryInv'
<1>1. /\ ContractsAdmitted(d) /\ versions' = versions \cup {d}
      /\ UNCHANGED <<plan, irRuns, certificates, crossed, routed>>
  BY DEF RegisterDefinition, InsertIrDefinitionVersion, WellContracted
<1>2. \A v \in versions' : v \in plan'.definitions /\ ContractsAdmitted(v)
  BY <1>1, Zenon DEF BoundaryInv
<1>3. \A r \in DOMAIN irRuns' : \E v \in versions' : v.digest = irRuns'[r].definition
  BY <1>1, Zenon DEF BoundaryInv
<1>4. \A id \in DOMAIN certificates' : SoundCertificate(certificates'[id], versions')
  BY <1>1, StaysSound DEF BoundaryInv
<1>5. CrossingIsEarned'
  BY <1>1 DEF BoundaryInv, CrossingIsEarned
<1>. QED  BY <1>1, <1>2, <1>3, <1>4, <1>5 DEF BoundaryInv

LEMMA StartKeeps ==
  ASSUME BoundaryInv, NEW d, NEW id, StartIrRun(id, d)
  PROVE  BoundaryInv'
<1>1. /\ d \in versions
      /\ irRuns' = InsertRows(irRuns, Row(id, [definition |-> d.digest, mode |-> d.mode]))
      /\ UNCHANGED <<plan, versions, certificates, crossed, routed>>
  BY DEF StartIrRun, CreateIrRun
<1>2. \A r \in DOMAIN irRuns' : irRuns'[r].definition = d.digest \/ (r \in DOMAIN irRuns /\ irRuns'[r] = irRuns[r])
  BY <1>1 DEF InsertRows, Row
<1>3. \A r \in DOMAIN irRuns' : \E v \in versions' : v.digest = irRuns'[r].definition
  BY <1>1, <1>2, Zenon DEF BoundaryInv
<1>4. CrossingIsEarned'
  BY <1>1 DEF BoundaryInv, CrossingIsEarned
<1>. QED  BY <1>1, <1>3, <1>4 DEF BoundaryInv

\* certify and insert_assurance_certificate.
LEMMA IssueKeeps ==
  ASSUME BoundaryInv, NEW a \in plan.assemblies, IssueCertificate(a)
  PROVE  BoundaryInv'
<1>. DEFINE gathered == EvidenceOf(a)
            body == [gathered EXCEPT !.verdict = UnderMode(gathered.mode, gathered.obligations)]
            cert == Seal(body)
<1>1. /\ a.run \in DOMAIN irRuns
      /\ CertificateFault(body) = Ok
      /\ certificates' = InsertRows(certificates, Row(cert.body.id, cert))
      /\ UNCHANGED <<plan, versions, irRuns, crossed, routed>>
  BY DEF IssueCertificate, Certify, InsertCertificate
<1>2. body.obligations = a.obligations /\ body.evidence = a.evidence /\ body.definition = irRuns[a.run].definition
  BY DEF EvidenceOf
<1>. HIDE DEF body
<1>3. cert.body = body /\ VerifySeal(cert)
  BY DEF Seal, VerifySeal
<1>4. \E d \in versions : d.digest = body.definition
  BY <1>1, <1>2, Zenon DEF BoundaryInv
<1>5. /\ IsList(body.obligations) /\ \A o \in Range(body.obligations) : o.state \in ObligationStates
      /\ IsList(body.evidence) /\ \A e \in Range(body.evidence) : e.at \in Int
  BY <1>2, PlanAssumption, Zenon DEF BoundaryInv
<1>6. SoundCertificate(cert, versions)
  BY <1>1, <1>3, <1>4, <1>5, Zenon DEF SoundCertificate
<1>. HIDE DEF cert
<1>7. \A id \in DOMAIN certificates' :
          certificates'[id] = cert \/ (id \in DOMAIN certificates /\ certificates'[id] = certificates[id])
  BY <1>1 DEF InsertRows, Row
<1>8. \A id \in DOMAIN certificates' : SoundCertificate(certificates'[id], versions')
  BY <1>1, <1>6, <1>7, Zenon DEF BoundaryInv
<1>9. CrossingIsEarned'
  BY <1>1 DEF BoundaryInv, CrossingIsEarned
<1>. QED  BY <1>1, <1>8, <1>9 DEF BoundaryInv

\* What is let through now was earned (decide_boundary).
LEMMA CrossEarned ==
  ASSUME BoundaryInv, NEW x \in plan.crossings, NEW c, SoundCertificate(c, versions),
         CrossingFault(x.policy, x.definition, x.policy.boundaries[x.boundary], c, now, revoked) = Ok
  PROVE  LET asked == x.policy.boundaries[x.boundary]
         IN /\ c.body.definition = x.definition.digest
            /\ c.replay_digest \notin revoked
            /\ asked.maxAge # Unset => \E i \in DOMAIN c.body.evidence : now - c.body.evidence[i].at <= asked.maxAge
            /\ asked.contract # NoContract /\ asked.minimum = "accepted" => Earned(c.body, x.definition, asked.contract)
<1>. DEFINE asked == x.policy.boundaries[x.boundary]
<1>1. IsList(x.policy.contracts)
  BY PlanAssumption, Zenon DEF BoundaryInv
<1>2. /\ x.definition.encodes /\ c.body.definition = x.definition.digest
      /\ c.replay_digest \notin revoked
      /\ AgeFault(asked.maxAge, c.body, now) = Ok
      /\ asked.contract # NoContract => Uncovered(x.definition, asked.contract, c.body) = Ok
      /\ VerdictMeets(Gated(asked, c.body), asked.minimum)
  BY <1>1, CrossingPasses, Zenon
<1>. HIDE DEF asked
<1>3. ASSUME asked.maxAge # Unset
      PROVE  \E i \in DOMAIN c.body.evidence : now - c.body.evidence[i].at <= asked.maxAge
  <2>1. c.body.evidence # <<>> /\ now - NewestEvidence(c.body) <= asked.maxAge
    BY <1>2, <1>3 DEF AgeFault, Unless, Ok
  <2>2. PICK i \in DOMAIN c.body.evidence : NewestEvidence(c.body) = c.body.evidence[i].at
    BY <2>1, LatestOf, Zenon DEF NewestEvidence, SoundCertificate
  <2>. QED  BY <2>1, <2>2, Zenon
<1>4. ASSUME asked.contract # NoContract, asked.minimum = "accepted"
      PROVE  Earned(c.body, x.definition, asked.contract)
  <2>1. VerdictMeets(ForContract(c.body.mode, asked.contract, c.body.obligations), "accepted")
    BY <1>2, <1>4, Zenon DEF Gated
  <2>2. \A o \in Range(c.body.obligations) : o.contract = asked.contract => o.state = "discharged"
    BY <2>1, AcceptedForContract, Zenon DEF SoundCertificate
  <2>. QED  BY <1>2, <1>4, <2>2, SoundEarns, Zenon
<1>. QED  BY <1>2, <1>3, <1>4, Zenon DEF asked

LEMMA CrossKeeps ==
  ASSUME BoundaryInv, NEW x \in plan.crossings, NEW ids \in {{}} \cup {{id} : id \in DOMAIN certificates}, Cross(x, ids)
  PROVE  BoundaryInv'
<1>. DEFINE presented == {certificates[id] : id \in ids}
            c == CHOOSE c \in presented : TRUE
            asked == x.policy.boundaries[x.boundary]
            made == [crossing |-> x, certificate |-> c, at |-> now, revoked |-> revoked]
<1>1. /\ DecideBoundary(x.policy, x.definition.mode, x.definition, presented, x.boundary, now, revoked) = "allowed"
      /\ crossed' = {made}
      /\ UNCHANGED <<plan, versions, irRuns, certificates, routed>>
  BY DEF Cross, tableVars
<1>2. IsList(x.policy.contracts)
  BY PlanAssumption, Zenon DEF BoundaryInv
<1>3. presented # {} /\ CrossingFault(x.policy, x.definition, asked, c, now, revoked) = Ok
  <2>. HIDE DEF presented
  <2>. QED  BY <1>1, <1>2, AllowedMeansPassed
<1>4. PICK id \in DOMAIN certificates : presented = {certificates[id]}
  BY <1>3
<1>5. c = certificates[id]
  BY <1>4
<1>. HIDE DEF presented, c
<1>6. SoundCertificate(c, versions)
  BY <1>5, Zenon DEF BoundaryInv
<1>7. /\ c.body.definition = x.definition.digest
      /\ c.replay_digest \notin revoked
      /\ asked.maxAge # Unset => \E i \in DOMAIN c.body.evidence : now - c.body.evidence[i].at <= asked.maxAge
      /\ asked.contract # NoContract /\ asked.minimum = "accepted" => Earned(c.body, x.definition, asked.contract)
  BY <1>3, <1>6, CrossEarned, Zenon
<1>8. made.crossing = x /\ made.certificate = c /\ made.at = now /\ made.revoked = revoked
  OBVIOUS
<1>. HIDE DEF made
<1>9. CrossingIsEarned'
  BY <1>1, <1>7, <1>8, Zenon DEF BoundaryInv, CrossingIsEarned
<1>. QED  BY <1>1, <1>9 DEF BoundaryInv

\* A class is verified after a hop only where there was none.
LEMMA VerifiedAfterHop ==
  ASSUME NEW hop \in {"none", "weakened", "opaque"}, NEW class, AfterHop(hop, class).level = 2
  PROVE  AfterHop(hop, class) = class
<1>1. Unverified.level # 2
  BY DEF Unverified
<1>2. CASE hop = "none"
  BY <1>2 DEF AfterHop
<1>3. CASE hop = "opaque"
  BY <1>1, <1>3 DEF AfterHop, AfterOpaqueHop
<1>4. CASE hop = "weakened"
  <2>1. Weakened(class).level = 2
    BY <1>4 DEF AfterHop
  <2>2. CASE class.level = 2
    BY <2>1, <2>2 DEF Weakened
  <2>3. CASE class.level # 2
    BY <1>1, <2>1, <2>3 DEF Weakened
  <2>. QED  BY <2>2, <2>3
<1>. QED  BY <1>2, <1>3, <1>4

\* A verified value is combined of parts that earned its contract.
LEMMA RouteKeeps ==
  ASSUME BoundaryInv, NEW x \in plan.routes, RouteValue(x)
  PROVE  BoundaryInv'
<1>. DEFINE Raw(p) == [contract |-> p.contract, certificate |-> certificates[p.certificate].replay_digest]
            Named(p) == AdmitRecord(Raw(p), Range(certificates), x.definition, x.provenance)
            records == [i \in DOMAIN x.parts |-> Named(x.parts[i])]
            classes == [i \in DOMAIN records |-> Justifies(records[i])]
            class == AfterHop(x.hop, MeetAll(classes))
            parts == {certificates[p.certificate] : p \in Range(x.parts)}
            made == [definition |-> x.definition, class |-> class, parts |-> parts]
<1>1. /\ \A p \in Range(x.parts) : p.certificate \in DOMAIN certificates /\ Named(p).fault = Ok
      /\ routed' = {made}
      /\ UNCHANGED <<plan, versions, irRuns, certificates, crossed>>
  BY DEF RouteValue, tableVars
<1>2. x.hop \in {"none", "weakened", "opaque"} /\ x.definition.encodes
  BY PlanAssumption, Zenon DEF BoundaryInv
<1>3. ASSUME class.level = 2, NEW cert \in parts
      PROVE  cert.body.definition = x.definition.digest /\ Earned(cert.body, x.definition, class.contract)
  <2>1. PICK i \in DOMAIN x.parts : cert = certificates[x.parts[i].certificate]
    BY Zenon DEF Range
  <2>. DEFINE p == x.parts[i]
  <2>2. p \in Range(x.parts)
    BY Zenon DEF Range
  <2>3. p.certificate \in DOMAIN certificates /\ Named(p).fault = Ok
    BY <1>1, <2>2, Zenon
  <2>4. i \in DOMAIN classes /\ classes[i] = Justifies(Named(p))
    OBVIOUS
  <2>5. class = MeetAll(classes)
    <3>. HIDE DEF classes
    <3>. QED  BY <1>2, <1>3, VerifiedAfterHop
  <2>6. classes[i].contract = class.contract /\ 2 <= classes[i].level
    <3>. HIDE DEF classes
    <3>. QED  BY <1>3, <2>4, <2>5, MeetIsWeakest
  <2>. HIDE DEF classes, class, p
  <2>7. Named(p).verdict = "accepted" /\ Named(p).contract = class.contract
    <3>. HIDE DEF Named
    <3>. QED  BY <2>4, <2>6, VerifiedByRecord
  <2>8. PICK k \in Range(certificates) :
            /\ k.replay_digest = Raw(p).certificate
            /\ k.body.definition = x.definition.digest
            /\ Uncovered(x.definition, Raw(p).contract, k.body) = Ok
            /\ Named(p).verdict = k.body.verdict
            /\ Named(p).contract = Raw(p).contract
    <3>. HIDE DEF Raw
    <3>. QED  BY <1>2, <2>3, RecordAdmitted
  <2>9. SoundCertificate(k, versions) /\ SoundCertificate(cert, versions)
    BY <2>1, <2>3, Zenon DEF BoundaryInv, Range, p
  <2>10. k.body = cert.body
    BY <2>1, <2>8, <2>9 DEF SoundCertificate, VerifySeal, p
  <2>11. UnderMode(k.body.mode, k.body.obligations) = "accepted"
    BY <2>7, <2>8, <2>9, BodyChecked, Zenon DEF SoundCertificate
  <2>12. \A o \in Range(k.body.obligations) : o.state = "discharged"
    BY <2>9, <2>11, AcceptedUnderMode, Zenon DEF SoundCertificate
  <2>13. Raw(p).contract = class.contract
    BY <2>7, <2>8, Zenon
  <2>14. Earned(k.body, x.definition, class.contract)
    <3>. HIDE DEF Raw, Named
    <3>. QED  BY <1>2, <2>8, <2>9, <2>12, <2>13, SoundEarns, Zenon
  <2>. QED  BY <2>8, <2>10, <2>14, Zenon
<1>. HIDE DEF class, parts
<1>4. made.definition = x.definition /\ made.class = class /\ made.parts = parts
  OBVIOUS
<1>. HIDE DEF made
<1>5. CrossingIsEarned'
  BY <1>1, <1>3, <1>4, Zenon DEF BoundaryInv, CrossingIsEarned
<1>. QED  BY <1>1, <1>5 DEF BoundaryInv

-----------------------------------------------------------------------------
\* Every step keeps the invariant.
LEMMA StepKeepsBoundaries ==
  ASSUME BoundaryInv, [BoundaryNext(WellContracted)]_boundaryVars
  PROVE  BoundaryInv'
<1>1. CASE \E d \in plan.definitions : RegisterDefinition(d, WellContracted)
  BY <1>1, RegisterKeeps
<1>2. CASE \E d \in plan.definitions, id \in plan.runs : StartIrRun(id, d)
  BY <1>2, StartKeeps
<1>3. CASE \E a \in plan.assemblies : IssueCertificate(a)
  BY <1>3, IssueKeeps
<1>4. CASE \/ \E id \in DOMAIN certificates : Revoke(id)
           \/ plan.crossings # {} /\ Tick
           \/ UNCHANGED boundaryVars
  <2>1. UNCHANGED <<plan, versions, irRuns, certificates, crossed, routed>>
    BY <1>4 DEF Revoke, Tick, boundaryVars, tableVars
  <2>2. CrossingIsEarned'
    BY <2>1 DEF BoundaryInv, CrossingIsEarned
  <2>. QED  BY <2>1, <2>2 DEF BoundaryInv
<1>5. CASE \E x \in plan.crossings : \E ids \in {{}} \cup {{id} : id \in DOMAIN certificates} : Cross(x, ids)
  BY <1>5, CrossKeeps
<1>6. CASE \E x \in plan.routes : RouteValue(x)
  BY <1>6, RouteKeeps
<1>. QED  BY <1>1, <1>2, <1>3, <1>4, <1>5, <1>6 DEF BoundaryNext

\* Definitions, runs and certificates in any order of registering, certifying,
\* revoking and crossing: what the tables hold was admitted, checked and sealed.
THEOREM BoundaryInvariant == BoundarySpec => []BoundaryInv
<1>1. BoundaryInit => BoundaryInv
  BY DEF BoundaryInit, BoundaryInv, CrossingIsEarned
<1>2. BoundaryInv /\ [BoundaryNext(WellContracted)]_boundaryVars => BoundaryInv'
  BY StepKeepsBoundaries
<1>. QED  BY <1>1, <1>2, PTL DEF BoundarySpec

\* For every definition, assembly, policy and route: what a boundary that asks
\* for an accepted contract let through had a certificate of that definition,
\* not revoked and young enough, that earned the contract, and a value routed as
\* verified is combined only of such (decide_boundary, VerificationRecord::admit
\* and TrustClass::meet_all).
THEOREM CrossingsAreEarned == BoundarySpec => []CrossingIsEarned
<1>1. BoundaryInv => CrossingIsEarned
  BY DEF BoundaryInv
<1>. QED  BY <1>1, BoundaryInvariant, PTL
=============================================================================
