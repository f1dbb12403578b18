------------------------------- MODULE Memory -------------------------------
(***************************************************************************)
(* The memory graph and its ingestion: the handlers of crates/api/src      *)
(* memory.rs and ingestion.rs, the constructors of crates/core/src/domain  *)
(* memory.rs, memory_graph.rs and ingestion.rs, and the statements of      *)
(* crates/postgres/src memory.rs and ingestion.rs, behind the middleware   *)
(* of Projects.                                                            *)
(*                                                                         *)
(* A request is [n, token, op, header, id, row].  A row is [project,       *)
(* status, refs, evidence, claims, preferred, says]: `refs` the records it *)
(* refers to by foreign key, as <<kind, id>>; `evidence` and `claims` the  *)
(* arrays of identifiers no key checks; `says` its content.  An identifier *)
(* is a sequence of parts, a name its normalized identity.  A connector    *)
(* says [title, topics, facts, chunks, type].                              *)
(***************************************************************************)
EXTENDS Projects, Sequences, Functions

CONSTANTS
    MemoryBatches,      \* memory requests in flight together, and the tables before: [requests, stored]
    SafeIdPart(_),      \* safe_id_part, on an identifier or a project
    ClaimLimit,         \* claims listed when looking for conflicts
    CanonicalLimit      \* canonical entities listed by an ingestion run

VARIABLES
    mem,                \* kind -> id -> row
    outputs,            \* ingestion_run_outputs: <<run, kind, id>>
    work                \* request -> what its handler holds between two statements

memVars == <<mem, outputs, work>>
allVars == <<vars, memVars>>

MemoryKinds == {"source", "evidence", "entity", "claim", "event", "relationship", "contract", "subgraph", "member",
                "canonical", "resolution", "conflict", "trace", "attachment", "edge", "connector", "run"}

Blank == [project |-> NoProject, status |-> "", refs |-> {}, evidence |-> {}, claims |-> {}, preferred |-> {}, says |-> <<>>]

\* `row` the record found or built, `rivals` what it is still to be filed
\* against, `canonical` its subject's canonical entity, `plan` the upserts
\* still to be made, each [kind, id, row].
Idle == [row |-> Blank, rivals |-> {}, canonical |-> {}, plan |-> <<>>]

\* The operations handled here.
MemoryOps ==
    {"createMemorySource", "createMemoryEvidence", "createMemoryEntity", "createMemoryClaim", "createMemoryEvent",
     "createMemoryRelationship", "createMemoryContract", "createMemorySubgraph", "createMemorySubgraphMember",
     "createCanonicalEntity", "createEntityResolution", "createSummaryTrace", "createEntityGraphAttachment",
     "createSubgraphEdge", "createIngestionConnector", "activateMemorySubgraph", "confirmEntityResolution",
     "rejectEntityResolution", "resolveClaimConflict", "dismissClaimConflict", "approveIngestionReviewClaim",
     "rejectIngestionReviewClaim", "runIngestionConnector"}

MemoryTables(stored) == [k \in MemoryKinds |-> IF k \in DOMAIN stored THEN stored[k] ELSE [i \in {} |-> Blank]]

\* A connector says how many chunks its text has, and its topics and facts in order.
Configures(row) ==
    /\ row.says.chunks \in Nat
    /\ row.says.topics \in Seq(Range(row.says.topics))
    /\ row.says.facts \in Seq(Range(row.says.facts))

IsRow(kind, row) == DOMAIN row = DOMAIN Blank /\ (kind = "connector" => Configures(row))

\* What an ingestion run counts.
Counted == {"source", "evidence", "entity", "claim"}

\* As many records bear a run's name as the run counts.
Vouches(tables, run) ==
    \A kind \in Counted : \A i \in 1..tables["run"][run].says[kind] : <<kind, run, i>> \in DOMAIN tables[kind]

\* What tables hold, and what a request about memory carries, are rows; a run
\* that was stored before vouches for its memory.
ASSUME MemoryBatchAssumption ==
    /\ \A batch \in Batches : \A q \in batch.requests : q.op \notin MemoryOps
    /\ \A batch \in MemoryBatches :
          /\ \A kind \in MemoryKinds : \A id \in DOMAIN MemoryTables(batch.stored)[kind] :
                IsRow(kind, MemoryTables(batch.stored)[kind][id])
          /\ \A run \in DOMAIN MemoryTables(batch.stored)["run"] : Vouches(MemoryTables(batch.stored), run)
          /\ \A q \in batch.requests :
                q.op \in MemoryOps /\ IsRow(IF q.op = "createIngestionConnector" THEN "connector" ELSE "", q.row)

MemInit ==
    \/ /\ Init
       /\ mem = [k \in MemoryKinds |-> [i \in {} |-> Blank]]
       /\ outputs = {}
       /\ work = [q \in DOMAIN at |-> Idle]
    \/ /\ \E batch \in MemoryBatches :
             /\ at = [q \in batch.requests |-> Arrived]
             /\ work = [q \in batch.requests |-> Idle]
             /\ mem = MemoryTables(batch.stored)
       /\ rows = [k \in Kinds |-> [i \in Ids |-> NoRow]]
       /\ members = Members0
       /\ accounts = Accounts0
       /\ audit = {}
       /\ faults = 0
       /\ outputs = {}

Stored(kind, id) == id \in DOMAIN mem[kind]

\* in_scope, of a row that was found.
InScope(q, row) == row.project = Context(q).project

-----------------------------------------------------------------------------
(***************************************************************************)
(* Constructors: what makes a record invalid.                              *)
(***************************************************************************)
ClaimStatuses == {"candidate", "active", "rejected", "superseded", "contradicted", "expired"}
ResolutionStatuses == {"candidate", "confirmed", "rejected"}
ConflictStatuses == {"candidate", "resolved", "dismissed"}

Claim(row) == row.evidence # {} /\ row.status \in ClaimStatuses
Event(row) == row.evidence # {}
Relationship(row) == row.evidence # {}

EntityResolution(row) ==
    /\ row.status \in ResolutionStatuses
    /\ row.status = "confirmed" => row.evidence # {}

ClaimConflict(row) ==
    /\ row.status \in ConflictStatuses
    /\ Cardinality(row.claims) >= 2
    /\ row.preferred \subseteq row.claims
    /\ row.status = "resolved" => row.preferred # {}

SubgraphEdge(row) == Cardinality(row.refs) = 2 /\ row.claims \cup row.evidence # {}
SummaryTrace(row) == row.claims \cup row.evidence # {}

WithResolution(conflict, preferred) == [conflict EXCEPT !.status = "resolved", !.preferred = preferred]
Dismissed(conflict) == [conflict EXCEPT !.status = "dismissed", !.preferred = {}]

\* A draft has a parent and nothing else yet.
Draft(row) == [row EXCEPT !.status = "draft", !.refs = {r \in @ : r[1] = "subgraph"}, !.says = <<>>]

\* `row` carries the owner, the contract, the permissions and the summary claim
\* the request gives.
ActivateSubgraph(subgraph, row) ==
    [subgraph EXCEPT !.status = "active", !.says = row.says,
                     !.refs = {r \in @ : r[1] = "subgraph"} \cup row.refs]

Valid(kind, row) ==
    CASE kind = "claim" -> Claim(row)
      [] kind = "event" -> Event(row)
      [] kind = "relationship" -> Relationship(row)
      [] kind = "resolution" -> EntityResolution(row)
      [] kind = "conflict" -> ClaimConflict(row)
      [] kind = "edge" -> SubgraphEdge(row)
      [] kind = "trace" -> SummaryTrace(row)
      [] OTHER -> TRUE

-----------------------------------------------------------------------------
(***************************************************************************)
(* Upserts: the tables afterwards, or nothing when the statement fails or  *)
(* affects no row.                                                         *)
(***************************************************************************)
\* The conflict clause skips a row of another project, and scope_guard reports it.
UpsertScoped(kind, id, row, holds) ==
    IF holds /\ (Stored(kind, id) => mem[kind][id].project = row.project)
    THEN {[mem EXCEPT ![kind] = [i \in DOMAIN @ \cup {id} |-> IF i = id THEN row ELSE @[i]]]} ELSE {}

Refers(row) == \A r \in row.refs : Stored(r[1], r[2])

UpsertMemorySource(id, row) == UpsertScoped("source", id, row, TRUE)
UpsertMemoryEvidence(id, row) == UpsertScoped("evidence", id, row, Refers(row))
UpsertMemoryEntity(id, row) == UpsertScoped("entity", id, row, TRUE)
UpsertMemoryClaim(id, row) == UpsertScoped("claim", id, row, Refers(row))
UpsertMemoryEvent(id, row) == UpsertScoped("event", id, row, TRUE)
UpsertMemoryRelationship(id, row) == UpsertScoped("relationship", id, row, Refers(row))
UpsertMemoryContract(id, row) == UpsertScoped("contract", id, row, TRUE)
UpsertMemorySubgraph(id, row) == UpsertScoped("subgraph", id, row, Refers(row))
UpsertMemoryCanonicalEntity(id, row) == UpsertScoped("canonical", id, row, TRUE)
UpsertMemorySubgraphEdge(id, row) == UpsertScoped("edge", id, row, Refers(row))
UpsertMemorySummaryTrace(id, row) == UpsertScoped("trace", id, row, Refers(row))
UpsertIngestionConnector(id, row) == UpsertScoped("connector", id, row, TRUE)
UpsertIngestionRun(id, row) == UpsertScoped("run", id, row, Refers(row))

\* The unique indexes: no other row may agree on these.
SameMember(row) == {o \in DOMAIN mem["member"] : LET m == mem["member"][o]
                                                 IN <<m.refs, m.says, m.status>> = <<row.refs, row.says, row.status>>}

\* One resolution of an entity in a subgraph is confirmed, in whatever project.
SameConfirmed(row) ==
    LET Of(r) == {x \in r.refs : x[1] \in {"subgraph", "entity"}}
    IN {o \in DOMAIN mem["resolution"] : /\ {row.status, mem["resolution"][o].status} = {"confirmed"}
                                         /\ Of(mem["resolution"][o]) = Of(row)}

SameCandidate(row) ==
    LET Of(r) == <<r.project, {x \in r.refs : x[1] = "entity"}, r.says, r.claims>>
    IN {o \in DOMAIN mem["conflict"] : /\ {row.status, mem["conflict"][o].status} = {"candidate"}
                                       /\ Of(mem["conflict"][o]) = Of(row)}

SamePrimary(row) ==
    LET Of(r) == <<r.project, {x \in r.refs : x[1] = "canonical"}>>
    IN {o \in DOMAIN mem["attachment"] : /\ {row.status, mem["attachment"][o].status} = {"primary"}
                                         /\ Of(mem["attachment"][o]) = Of(row)}

UpsertMemorySubgraphMember(id, row) ==
    UpsertScoped("member", id, row, Refers(row) /\ SameMember(row) \subseteq {id})

UpsertMemoryEntityResolution(id, row) ==
    UpsertScoped("resolution", id, row, Refers(row) /\ SameConfirmed(row) \subseteq {id})

UpsertMemoryClaimConflict(id, row) ==
    UpsertScoped("conflict", id, row, Refers(row) /\ SameCandidate(row) \subseteq {id})

UpsertMemoryEntityGraphAttachment(id, row) ==
    UpsertScoped("attachment", id, row, Refers(row) /\ SamePrimary(row) \subseteq {id})

Upsert(kind, id, row) ==
    CASE kind = "source" -> UpsertMemorySource(id, row)
      [] kind = "evidence" -> UpsertMemoryEvidence(id, row)
      [] kind = "entity" -> UpsertMemoryEntity(id, row)
      [] kind = "claim" -> UpsertMemoryClaim(id, row)
      [] kind = "event" -> UpsertMemoryEvent(id, row)
      [] kind = "relationship" -> UpsertMemoryRelationship(id, row)
      [] kind = "contract" -> UpsertMemoryContract(id, row)
      [] kind = "subgraph" -> UpsertMemorySubgraph(id, row)
      [] kind = "member" -> UpsertMemorySubgraphMember(id, row)
      [] kind = "canonical" -> UpsertMemoryCanonicalEntity(id, row)
      [] kind = "resolution" -> UpsertMemoryEntityResolution(id, row)
      [] kind = "conflict" -> UpsertMemoryClaimConflict(id, row)
      [] kind = "trace" -> UpsertMemorySummaryTrace(id, row)
      [] kind = "attachment" -> UpsertMemoryEntityGraphAttachment(id, row)
      [] kind = "edge" -> UpsertMemorySubgraphEdge(id, row)
      [] kind = "connector" -> UpsertIngestionConnector(id, row)
      [] kind = "run" -> UpsertIngestionRun(id, row)

-----------------------------------------------------------------------------
(***************************************************************************)
(* Handlers.  The guards of each are its role, its record's validity and   *)
(* what it finds; then come its upserts.                                   *)
(***************************************************************************)
Steps(q, pc, ops) == At(q, pc) /\ q.op \in ops /\ UNCHANGED <<members, accounts, rows, audit, faults, outputs>>

\* The record a request builds, in its own project.
Built(q) == [q.row EXCEPT !.project = Context(q).project]

Refused(q, status) == Respond(q, status) /\ UNCHANGED <<mem, work>>

Holds(q, pc, held) == at' = [at EXCEPT ![q].pc = pc] /\ work' = [work EXCEPT ![q] = held] /\ UNCHANGED mem

\* One upsert: the step after it, or the error it ends the request with.
Saves(q, kind, id, row, refused, Then) ==
    \/ Upsert(kind, id, row) = {} /\ Refused(q, refused)
    \/ mem' \in Upsert(kind, id, row) /\ Then

Answers(q, status) == Respond(q, status) /\ UNCHANGED work

\* Look the identifier up, then write; a record of another project looks missing.
CreateChecked(q, op, kind, row) ==
    \/ /\ Steps(q, "handle", {op})
       /\ IF ~May(q, MemoryWriteRole) THEN Refused(q, 403)
          ELSE IF ~Valid(kind, row) THEN Refused(q, 400)
          ELSE IF Stored(kind, q.id) /\ ~InScope(q, mem[kind][q.id]) THEN Refused(q, 404)
          ELSE Holds(q, "write", [Idle EXCEPT !.row = row])
    \/ /\ Steps(q, "write", {op})
       /\ Saves(q, kind, q.id, work[q].row, 500, Answers(q, 201))

\* Write at once: only the statement guards the scope.
CreateGuarded(q, op, kind, role, refused) ==
    /\ Steps(q, "handle", {op})
    /\ IF ~May(q, role) THEN Refused(q, 403)
       ELSE IF ~Valid(kind, q.row) THEN Refused(q, 400)
       ELSE Saves(q, kind, q.id, Built(q), refused, Answers(q, 201))

CreateSource(q) == CreateChecked(q, "createMemorySource", "source", Built(q))
CreateEvidence(q) == CreateChecked(q, "createMemoryEvidence", "evidence", Built(q))
CreateEntity(q) == CreateChecked(q, "createMemoryEntity", "entity", Built(q))
CreateClaim(q) == CreateChecked(q, "createMemoryClaim", "claim", Built(q))
CreateEvent(q) == CreateChecked(q, "createMemoryEvent", "event", Built(q))
CreateRelationship(q) == CreateChecked(q, "createMemoryRelationship", "relationship", Built(q))
CreateContract(q) == CreateChecked(q, "createMemoryContract", "contract", Built(q))
CreateSubgraph(q) == CreateChecked(q, "createMemorySubgraph", "subgraph", Draft(Built(q)))
CreateSubgraphMember(q) == CreateGuarded(q, "createMemorySubgraphMember", "member", MemoryWriteRole, 500)
CreateCanonicalEntity(q) == CreateGuarded(q, "createCanonicalEntity", "canonical", MemoryWriteRole, 500)
CreateEntityResolution(q) == CreateGuarded(q, "createEntityResolution", "resolution", MemoryWriteRole, 500)
CreateSummaryTrace(q) == CreateGuarded(q, "createSummaryTrace", "trace", MemoryWriteRole, 500)
CreateEntityGraphAttachment(q) == CreateGuarded(q, "createEntityGraphAttachment", "attachment", MemoryWriteRole, 500)
CreateSubgraphEdge(q) == CreateGuarded(q, "createSubgraphEdge", "edge", MemoryWriteRole, 500)
CreateConnector(q) == CreateGuarded(q, "createIngestionConnector", "connector", IngestionWriteRole, 404)

CreateMemory(q) ==
    \/ CreateSource(q) \/ CreateEvidence(q) \/ CreateEntity(q) \/ CreateClaim(q) \/ CreateEvent(q)
    \/ CreateRelationship(q) \/ CreateContract(q) \/ CreateSubgraph(q) \/ CreateSubgraphMember(q)
    \/ CreateCanonicalEntity(q) \/ CreateEntityResolution(q) \/ CreateSummaryTrace(q)
    \/ CreateEntityGraphAttachment(q) \/ CreateSubgraphEdge(q) \/ CreateConnector(q)

\* list_memory_summary_traces: of any project.
ListMemorySummaryTraces(subgraph, claims) ==
    {t \in DOMAIN mem["trace"] : mem["trace"][t].refs = {<<"subgraph", subgraph>>} \cup claims}

Activate(q) ==
    LET claims == {r \in q.row.refs : r[1] = "claim"}
    IN \/ /\ Steps(q, "handle", {"activateMemorySubgraph"})
          /\ IF ~May(q, MemoryWriteRole) THEN Refused(q, 403)
             ELSE Holds(q, "find", [Idle EXCEPT !.rivals = ListMemorySummaryTraces(q.id, claims)])
       \/ /\ Steps(q, "find", {"activateMemorySubgraph"})
          /\ IF ~Stored("subgraph", q.id) THEN Refused(q, 404)
             ELSE IF ~InScope(q, mem["subgraph"][q.id]) THEN Refused(q, 404)
             ELSE IF work[q].rivals = {} THEN Refused(q, 400)
             ELSE Holds(q, "write", [Idle EXCEPT !.row = ActivateSubgraph(mem["subgraph"][q.id], q.row)])
       \/ /\ Steps(q, "write", {"activateMemorySubgraph"})
          /\ Saves(q, "subgraph", q.id, work[q].row, 500, Answers(q, 200))

-----------------------------------------------------------------------------
(***************************************************************************)
(* Reviews: read the record, check that it awaits review, write it back    *)
(* with its new status.                                                    *)
(***************************************************************************)
ReviewFinds(q, ops, kind, role, reviewed) ==
    /\ Steps(q, "handle", ops)
    /\ IF ~May(q, role) THEN Refused(q, 403)
       ELSE IF ~Stored(kind, q.id) THEN Refused(q, 404)
       ELSE IF ~InScope(q, mem[kind][q.id]) THEN Refused(q, 404)
       ELSE IF mem[kind][q.id].status # "candidate" \/ ~Valid(kind, reviewed) THEN Refused(q, 400)
       ELSE Holds(q, "write", [Idle EXCEPT !.row = reviewed])

ReviewEntityResolution(q) ==
    LET ops == {"confirmEntityResolution", "rejectEntityResolution"}
        to  == IF q.op = "confirmEntityResolution" THEN "confirmed" ELSE "rejected"
    IN \/ ReviewFinds(q, ops, "resolution", MemoryWriteRole, [mem["resolution"][q.id] EXCEPT !.status = to])
       \/ Steps(q, "write", ops) /\ Saves(q, "resolution", q.id, work[q].row, 500, Answers(q, 200))

ReviewClaimConflict(q) ==
    LET ops == {"resolveClaimConflict", "dismissClaimConflict"}
        reviewed == IF q.op = "resolveClaimConflict" THEN WithResolution(mem["conflict"][q.id], q.row.preferred)
                    ELSE Dismissed(mem["conflict"][q.id])
    IN \/ ReviewFinds(q, ops, "conflict", MemoryWriteRole, reviewed)
       \/ Steps(q, "write", ops) /\ Saves(q, "conflict", q.id, work[q].row, 500, Answers(q, 200))

\* LIMIT over the rows of a project, the newest first: any so many of them.
ListUpTo(limit, ids) == IF Cardinality(ids) <= limit THEN {ids} ELSE {s \in SUBSET ids : Cardinality(s) = limit}

OfProject(kind, project) == {i \in DOMAIN mem[kind] : mem[kind][i].project = project}

Contradicts(a, b) == a.refs = b.refs /\ a.says[1] = b.says[1] /\ a.says[2] # b.says[2]

\* The active claims listed that give the reviewed claim's subject and
\* predicate another object.
Rivals(id, reviewed, listed) ==
    {c \in listed \ {id} : mem["claim"][c].status = "active" /\ Contradicts(mem["claim"][c], reviewed)}

\* The canonical entity of the newest resolution of the claim's subject that
\* is not rejected.
CanonicalEntities(claim) ==
    {{x \in mem["resolution"][r].refs : x[1] = "canonical"} :
        r \in {r \in OfProject("resolution", claim.project) :
                  claim.refs \subseteq mem["resolution"][r].refs /\ mem["resolution"][r].status # "rejected"}}

Subject(claim) == (CHOOSE r \in claim.refs : r[1] = "entity")[2]

ConflictId(claim, ids) ==
    <<"conflict", SafeIdPart(Subject(claim)), SafeIdPart(claim.says[1]), {SafeIdPart(i) : i \in ids}>>

Conflict(claim, ids, canonical) ==
    [Blank EXCEPT !.project = claim.project, !.status = "candidate", !.refs = claim.refs \cup canonical,
                  !.claims = ids, !.says = <<claim.says[1]>>]

DetectClaimConflicts(q) ==
    LET reviewed == work[q].row
        approves == {"approveIngestionReviewClaim"}
    IN \/ /\ Steps(q, "list", approves)
          /\ \E listed \in ListUpTo(ClaimLimit, OfProject("claim", reviewed.project)) :
                Holds(q, "canonical", [work[q] EXCEPT !.rivals = Rivals(q.id, reviewed, listed)])
       \/ /\ Steps(q, "canonical", approves)
          /\ \E c \in IF CanonicalEntities(reviewed) = {} THEN {{}} ELSE CanonicalEntities(reviewed) :
                Holds(q, "file", [work[q] EXCEPT !.canonical = c])
       \/ /\ Steps(q, "file", approves)
          /\ work[q].rivals = {}
          /\ Answers(q, 200)
          /\ UNCHANGED mem
       \/ /\ Steps(q, "file", approves)
          /\ \E r \in work[q].rivals :
                Saves(q, "conflict", ConflictId(reviewed, {r, q.id}), Conflict(reviewed, {r, q.id}, work[q].canonical), 500,
                      work' = [work EXCEPT ![q].rivals = @ \ {r}] /\ UNCHANGED at)

\* (mutant) Conflicts are looked for before the claim is made active.
ReviewDetectsFirst(q) ==
    LET ops == {"approveIngestionReviewClaim", "rejectIngestionReviewClaim"}
        to  == IF q.op = "approveIngestionReviewClaim" THEN "active" ELSE "rejected"
        reviewed == [mem["claim"][q.id] EXCEPT !.status = to]
    IN \/ /\ ReviewFinds(q, ops, "claim", IngestionWriteRole, reviewed)
       \/ /\ Steps(q, "write", ops)
          /\ Holds(q, "late", [work[q] EXCEPT !.rivals = Rivals(q.id, work[q].row, OfProject("claim", work[q].row.project))])
       \/ /\ Steps(q, "late", ops)
          /\ Saves(q, "claim", q.id, work[q].row, 500,
                   IF to = "active" THEN Proceed(q, "canonical") /\ UNCHANGED work ELSE Answers(q, 200))

ReviewClaim(q) ==
    LET ops == {"approveIngestionReviewClaim", "rejectIngestionReviewClaim"}
        to  == IF q.op = "approveIngestionReviewClaim" THEN "active" ELSE "rejected"
    IN \/ ReviewFinds(q, ops, "claim", IngestionWriteRole, [mem["claim"][q.id] EXCEPT !.status = to])
       \/ /\ Steps(q, "write", ops)
          /\ Saves(q, "claim", q.id, work[q].row, 500,
                   IF to = "active" THEN Proceed(q, "list") /\ UNCHANGED work ELSE Answers(q, 200))

-----------------------------------------------------------------------------
(***************************************************************************)
(* Ingestion: a connector's text becomes a source, its evidence, entities  *)
(* and candidate claims, each stored by a statement of its own.            *)
(***************************************************************************)
ContentTypes == {"text/plain", "text/markdown", "application/json"}

ValidateConfig(config) == config.title # "" /\ config.chunks > 0 /\ config.type \in ContentTypes

Piece(kind, run, i, row) == [kind |-> kind, id |-> <<kind, run, i>>, row |-> row]

\* The headings, or the title of a text that has none.
ExtractEntities(config) == IF config.topics = <<>> THEN <<config.title>> ELSE config.topics

\* Every fact is about the first entity and cites the first chunk.
ExtractClaims(run, blank, facts) ==
    [i \in DOMAIN facts |->
        Piece("claim", run, i, [blank EXCEPT !.status = "candidate", !.refs = {<<"entity", <<"entity", run, 1>>>>},
                                             !.evidence = {<<"evidence", run, 1>>}, !.says = facts[i]])]

RunLocalTextIngestion(run, connector) ==
    LET blank    == [Blank EXCEPT !.project = connector.project]
        config   == connector.says
        names    == ExtractEntities(config)
    IN <<Piece("source", run, 1, blank)>>
       \o [i \in 1..config.chunks |-> Piece("evidence", run, i, [blank EXCEPT !.refs = {<<"source", <<"source", run, 1>>>>}])]
       \o [i \in DOMAIN names |-> Piece("entity", run, i, [blank EXCEPT !.says = <<names[i]>>])]
       \o ExtractClaims(run, blank, config.facts)

Pieces(plan, kind) == {plan[i].id : i \in {i \in DOMAIN plan : plan[i].kind = kind}}

\* The run as it is stored: it has succeeded, and counts what it made.
SucceededRun(q, connector) ==
    LET config == connector.says
    IN [Blank EXCEPT !.project = Context(q).project, !.status = "succeeded", !.refs = {<<"connector", q.id>>},
                     !.says = [source |-> 1, evidence |-> config.chunks, entity |-> Len(ExtractEntities(config)),
                               claim |-> Len(config.facts)]]

\* generated_id: no other run has it.
RunId(q) == <<"run", q.n>>

IngestionSubgraphId(project) == <<"global", SafeIdPart(project)>>

\* Entities with a name of a canonical entity's.
ResolutionCandidates(q, made, listed) ==
    LET entities == {i \in DOMAIN made : made[i].kind = "entity"}
        matches  == {m \in entities \X listed : made[m[1]].row.says[1] \in Range(mem["canonical"][m[2]].says)}
        Resolution(m) ==
            [id  |-> <<"resolution", RunId(q), made[m[1]].id, m[2]>>,
             row |-> [Blank EXCEPT !.project = Context(q).project, !.status = "candidate",
                                   !.evidence = Pieces(made, "evidence"),
                                   !.refs = {<<"subgraph", IngestionSubgraphId(Context(q).project)>>,
                                             <<"entity", made[m[1]].id>>, <<"canonical", m[2]>>}]]
    IN {Resolution(m) : m \in matches}

Recorded(q, connector) == <<[kind |-> "run", id |-> RunId(q), row |-> SucceededRun(q, connector)]>>

\* (mutant) The run is stored before the memory it made.
RunFirst(q, connector) == Recorded(q, connector) \o RunLocalTextIngestion(RunId(q), connector)

\* persist_output: the memory, the candidate resolutions, then the run.
PersistOutput(q, connector) ==
    RunLocalTextIngestion(RunId(q), connector) \o <<[kind |-> "candidates", id |-> RunId(q), row |-> Blank]>>

RunConnector(q) ==
    /\ Steps(q, "handle", {"runIngestionConnector"})
    /\ IF ~May(q, "operator") THEN Refused(q, 403)
       ELSE IF ~Stored("connector", q.id) THEN Refused(q, 404)
       ELSE IF ~InScope(q, mem["connector"][q.id]) THEN Refused(q, 404)
       ELSE IF mem["connector"][q.id].status # "enabled" \/ ~ValidateConfig(mem["connector"][q.id].says) THEN Refused(q, 400)
       ELSE Holds(q, "persist", [Idle EXCEPT
                !.row  = mem["connector"][q.id],
                !.plan = PersistOutput(q, mem["connector"][q.id])])

\* persist_entity_resolution_candidates: the canonical entities listed now
\* decide what is left to do before the run is stored.
ListCanonical(q) ==
    \E listed \in ListUpTo(CanonicalLimit, OfProject("canonical", Context(q).project)) :
        LET ensure == [kind |-> "ensure", id |-> IngestionSubgraphId(Context(q).project), row |-> Blank]
        IN Holds(q, "persist", [work[q] EXCEPT
                !.plan   = (IF listed = {} THEN <<>> ELSE <<ensure>>) \o Recorded(q, work[q].row),
                !.rivals = ResolutionCandidates(q, RunLocalTextIngestion(RunId(q), work[q].row), listed)])

\* ensure_ingestion_subgraph: found under its identifier in any project, or
\* drafted.
EnsureIngestionSubgraph(q, id) ==
    LET draft == [kind |-> "subgraph", id |-> id, row |-> Draft([Blank EXCEPT !.project = Context(q).project])]
    IN Holds(q, "persist", [work[q] EXCEPT !.plan = IF Stored("subgraph", id) THEN Tail(@) ELSE <<draft>> \o Tail(@)])

ProposeResolution(q) ==
    \E r \in work[q].rivals :
        Saves(q, "resolution", r.id, r.row, 500, work' = [work EXCEPT ![q].rivals = @ \ {r}] /\ UNCHANGED at)

\* The output records, one insert each; nothing is inserted twice.
RecordOutputs(q) ==
    LET made == RunLocalTextIngestion(RunId(q), work[q].row)
        left == {<<RunId(q), made[i].kind, made[i].id>> : i \in DOMAIN made} \ outputs
    IN IF left = {} THEN Answers(q, 201) /\ UNCHANGED outputs
       ELSE /\ outputs' = outputs \cup {CHOOSE o \in left : TRUE}
            /\ UNCHANGED <<at, work>>

Persist(q) ==
    /\ At(q, "persist")
    /\ UNCHANGED <<members, accounts, rows, audit, faults>>
    /\ IF work[q].plan = <<>> THEN RecordOutputs(q) /\ UNCHANGED mem
       ELSE /\ UNCHANGED outputs
            /\ LET next == Head(work[q].plan)
               IN CASE next.kind = "candidates" -> ListCanonical(q)
                    [] next.kind = "ensure" -> EnsureIngestionSubgraph(q, next.id)
                    [] next.kind = "run" /\ work[q].rivals # {} -> ProposeResolution(q)
                    [] OTHER -> Saves(q, next.kind, next.id, next.row, 500,
                                      work' = [work EXCEPT ![q].plan = Tail(@)] /\ UNCHANGED at)

-----------------------------------------------------------------------------
MemNext ==
    \/ Next /\ UNCHANGED memVars
    \/ \E q \in DOMAIN at : CreateMemory(q)
    \/ \E q \in DOMAIN at : Activate(q)
    \/ \E q \in DOMAIN at : ReviewEntityResolution(q)
    \/ \E q \in DOMAIN at : ReviewClaimConflict(q)
    \/ \E q \in DOMAIN at : ReviewClaim(q)
    \/ \E q \in DOMAIN at : DetectClaimConflicts(q)
    \/ \E q \in DOMAIN at : RunConnector(q)
    \/ \E q \in DOMAIN at : Persist(q)

MemSpec == MemInit /\ [][MemNext]_allVars

-----------------------------------------------------------------------------
(***************************************************************************)
(* Properties.                                                             *)
(***************************************************************************)
\* When two claims that contradict each other have both been approved, and
\* both reviews have been answered, a conflict between them is on file,
\* although neither review saw the other begin: each makes its claim active
\* before it lists the active ones (review_claim, detect_claim_conflicts).
\* A claim that something has written since is no longer the one reviewed.
ReviewedConflictsFound ==
    \A q, r \in DOMAIN at :
        /\ {q.op, r.op} = {"approveIngestionReviewClaim"}
        /\ at[q].status = 200 /\ at[r].status = 200
        /\ mem["claim"][q.id] = work[q].row /\ mem["claim"][r.id] = work[r].row
        /\ q.id # r.id /\ work[q].row.project = work[r].row.project /\ Contradicts(work[q].row, work[r].row)
        => \E c \in DOMAIN mem["conflict"] : mem["conflict"][c].claims = {q.id, r.id}

\* A stored ingestion run has stored everything it counts, whichever statement
\* failed in between (the order of persist_output).  There may be more under its
\* name: the identifiers of other requests are theirs to choose.
RunsVouchForTheirMemory == \A run \in DOMAIN mem["run"] : Vouches(mem, run)

\* A record stays in the project it was created in and is written only by a
\* request of that project, however the lookups and writes of two projects that
\* use one identifier interleave: job definitions and workflows (see Projects)
\* and everything of the memory graph (require_scope and the conflict clauses
\* of the upserts).
RecordsKeepTheirProject ==
    /\ ScopedRowsKeepTheirProject
    /\ [][\A kind \in MemoryKinds : \A id \in DOMAIN mem[kind] :
             mem'[kind][id] # mem[kind][id] =>
                /\ mem'[kind][id].project = mem[kind][id].project
                /\ \E q \in DOMAIN at : (at'[q] # at[q] \/ work'[q] # work[q]) /\ InScope(q, mem[kind][id])]_allVars
=============================================================================
