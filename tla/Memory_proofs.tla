--------------------------- MODULE Memory_proofs ----------------------------
(***************************************************************************)
(* Proofs about Projects and Memory together, for any requests in flight,  *)
(* any tokens, memberships and accounts, and any records stored before:    *)
(* what a stored workflow refers to, who may have written a record, that a *)
(* record stays in its project, and that a stored ingestion run has stored *)
(* what it counts.                                                         *)
(***************************************************************************)
EXTENDS Memory, TLAPS

(***************************************************************************)
(* Requests.  A request whose handler runs has been let through by         *)
(* require_auth, with the context and the principal it still has: nothing  *)
(* after the middleware changes them.                                      *)
(***************************************************************************)
RequestFields == DOMAIN Arrived

Handling == {"handle", "write", "assign", "agent", "find", "list", "canonical", "file", "persist"}

Admitted(q, r) ==
    r.pc \in Handling =>
        /\ Authorized(EndpointContracts[q.op], r.context, r.principal)
        /\ r.principal.admin => r.context.role = "admin"

Names(q) == q.op \in {"createWorkflow", "updateWorkflow"} => q.ref \in Ids

RequestInv == \A q \in DOMAIN at : DOMAIN at[q] = RequestFields /\ Admitted(q, at[q]) /\ Names(q)

\* Only q moves.
Alone(q) ==
    /\ DOMAIN at' = DOMAIN at
    /\ \A o \in DOMAIN at : o # q => at'[o] = at[o]
    /\ DOMAIN at'[q] = RequestFields

\* q moves to pc and keeps what the middleware gave it.
MovesTo(q, pc) ==
    /\ Alone(q)
    /\ at'[q].pc = pc
    /\ at'[q].context = at[q].context
    /\ at'[q].principal = at[q].principal

\* The fields of a request.
LEMMA ArrivedFields == RequestFields = {"pc", "principal", "context", "seen", "status"}
BY DEF RequestFields, Arrived

\* The ways handlers move their request.
LEMMA HandlersMove ==
    ASSUME RequestInv, NEW q \in DOMAIN at
    PROVE  /\ \A status : Respond(q, status) => MovesTo(q, "respond")
           /\ \A pc : Proceed(q, pc) => MovesTo(q, pc)
           /\ \A seen : at' = [at EXCEPT ![q].pc = "write", ![q].seen = seen] => MovesTo(q, "write")
           /\ \A pc : \A status : at' = [at EXCEPT ![q].pc = pc, ![q].status = status] => MovesTo(q, pc)
<1>1. DOMAIN at[q] = {"pc", "principal", "context", "seen", "status"}
  BY ArrivedFields DEF RequestInv
<1>2. ASSUME NEW status, Respond(q, status)  PROVE MovesTo(q, "respond")
  BY <1>1, <1>2, ArrivedFields DEF Respond, MovesTo, Alone
<1>3. ASSUME NEW pc, Proceed(q, pc)  PROVE MovesTo(q, pc)
  BY <1>1, <1>3, ArrivedFields DEF Proceed, MovesTo, Alone
<1>4. ASSUME NEW seen, at' = [at EXCEPT ![q].pc = "write", ![q].seen = seen]  PROVE MovesTo(q, "write")
  BY <1>1, <1>4, ArrivedFields DEF MovesTo, Alone
<1>5. ASSUME NEW pc, NEW status, at' = [at EXCEPT ![q].pc = pc, ![q].status = status]  PROVE MovesTo(q, pc)
  BY <1>1, <1>5, ArrivedFields DEF MovesTo, Alone
<1>. QED  BY <1>2, <1>3, <1>4, <1>5, Zenon

\* A step of q that leaves the invariant alone.
LEMMA RequestMoves ==
    ASSUME RequestInv, NEW q \in DOMAIN at, Alone(q),
           \/ at'[q].pc \notin Handling
           \/ Admitted(q, at[q])' 
           \/ at[q].pc \in Handling /\ at'[q].context = at[q].context /\ at'[q].principal = at[q].principal
    PROVE  RequestInv'
BY DEF RequestInv, Alone, Admitted
-----------------------------------------------------------------------------
(***************************************************************************)
(* What a step of the record handlers does to its request.  Only requests  *)
(* for the operations handled here wait here to write.                     *)
(***************************************************************************)
RecordOps == {"createJobDefinition", "updateJobDefinition", "deleteJobDefinition", "createWorkflow",
              "updateWorkflow", "deleteWorkflow", "createAutomation", "updateAutomation", "enableAutomation",
              "deleteAutomation", "createTriggerPlugin", "createGraph", "createAgent", "startAgentRun",
              "createJobRun"}

RecordMove(q) ==
    \/ /\ Alone(q)
       /\ \/ at'[q].pc \in {"hydrate", "done", "respond"}
          \/ at'[q].pc = "handle" /\ Admitted(q, at[q])'
    \/ /\ at[q].pc \in Handling
       /\ \/ MovesTo(q, "write") /\ q.op \in RecordOps
          \/ MovesTo(q, "assign") \/ MovesTo(q, "agent")

\* The middleware lets a request through only when it is authorized, and an
\* administrator of the platform is one in whatever project it names.
LEMMA MiddlewareMoves ==
    ASSUME RequestInv, NEW q \in DOMAIN at, Authenticate(q) \/ Authorize(q) \/ Answer(q) \/ StoreFails(q)
    PROVE  RecordMove(q)
<1>1. DOMAIN at[q] = {"pc", "principal", "context", "seen", "status"}
  BY ArrivedFields DEF RequestInv
<1>2. CASE Authenticate(q)
  <2>1. \/ \E status : at' = [at EXCEPT ![q].pc = "done", ![q].status = status]
        \/ \E principal : at' = [at EXCEPT ![q].pc = "hydrate", ![q].principal = principal]
    <3>1. \/ Refuse(q, 401)
          \/ \E principal : at' = [at EXCEPT ![q].pc = "hydrate", ![q].principal = principal]
      BY <1>2, ZenonT(30) DEF Authenticate
    <3>. QED  BY <3>1, Zenon DEF Refuse
  <2>2. ASSUME NEW status, at' = [at EXCEPT ![q].pc = "done", ![q].status = status]
        PROVE  RecordMove(q)
    <3>1. Alone(q) /\ at'[q].pc = "done"  BY <1>1, <2>2, ArrivedFields DEF Alone
    <3>. QED  BY <3>1 DEF RecordMove
  <2>3. ASSUME NEW principal, at' = [at EXCEPT ![q].pc = "hydrate", ![q].principal = principal]
        PROVE  RecordMove(q)
    <3>1. Alone(q) /\ at'[q].pc = "hydrate"  BY <1>1, <2>3, ArrivedFields DEF Alone
    <3>. QED  BY <3>1 DEF RecordMove
  <2>. QED  BY <2>1, <2>2, <2>3, Zenon
<1>3. CASE Authorize(q)
  <2>. DEFINE principal == Hydrate(at[q].principal, StoredMemberships(at[q].principal))
              endpoint  == EndpointContracts[q.op]
              context   == EndpointProjectContext(endpoint, q.header, q.header, principal)
  <2>1. \/ at' = [at EXCEPT ![q] = [[at[q] EXCEPT !.principal = principal, !.context = context]
                                       EXCEPT !.pc = "done", !.status = 403]]
        \/ /\ Authorized(endpoint, context, principal)
           /\ at' = [at EXCEPT ![q] = [[at[q] EXCEPT !.principal = principal, !.context = context]
                                          EXCEPT !.pc = "handle"]]
    BY <1>3, Zenon DEF Authorize
  <2>2. principal.admin => context.role = "admin"
    BY DEF EndpointProjectContext, ProjectContext
  <2>. HIDE DEF principal, endpoint, context
  <2>3. CASE at' = [at EXCEPT ![q] = [[at[q] EXCEPT !.principal = principal, !.context = context]
                                         EXCEPT !.pc = "done", !.status = 403]]
    BY <1>1, <2>3, ArrivedFields, Zenon DEF RecordMove, Alone
  <2>4. CASE /\ Authorized(endpoint, context, principal)
             /\ at' = [at EXCEPT ![q] = [[at[q] EXCEPT !.principal = principal, !.context = context]
                                            EXCEPT !.pc = "handle"]]
    <3>1. Alone(q) /\ at'[q].pc = "handle" /\ at'[q].principal = principal /\ at'[q].context = context
      BY <1>1, <2>4, ArrivedFields, Zenon DEF Alone
    <3>2. Admitted(q, at[q])'
      BY <2>2, <2>4, <3>1 DEF Admitted, endpoint
    <3>. QED  BY <3>1, <3>2 DEF RecordMove
  <2>. QED  BY <2>1, <2>3, <2>4
<1>4. CASE Answer(q)
  BY <1>1, <1>4, ArrivedFields DEF Answer, RecordMove, Alone
<1>5. CASE StoreFails(q)
  <2>1. PICK pc \in {"done", "respond"} : at' = [at EXCEPT ![q].pc = pc, ![q].status = 500]
    BY <1>1, <1>5, ZenonT(30) DEF StoreFails
  <2>2. MovesTo(q, pc)  BY <1>1, <2>1, ArrivedFields DEF MovesTo, Alone
  <2>. QED  BY <2>2 DEF RecordMove, MovesTo
<1>. QED  BY <1>2, <1>3, <1>4, <1>5

\* The handlers of memberships and service accounts answer at once.
LEMMA ManagementMoves ==
    ASSUME RequestInv, NEW q \in DOMAIN at,
           \/ ListProjectMemberships(q) \/ UpsertProjectMembership(q) \/ DeleteProjectMembership(q)
           \/ CreateServiceAccount(q) \/ RevokeServiceAccount(q)
    PROVE  RecordMove(q) /\ UNCHANGED rows
<1>1. UNCHANGED rows /\ \E status : Respond(q, status)
  BY DEF ListProjectMemberships, UpsertProjectMembership, DeleteProjectMembership, CreateServiceAccount,
         RevokeServiceAccount
<1>. QED  BY <1>1, HandlersMove, Zenon DEF RecordMove, MovesTo
-----------------------------------------------------------------------------
(***************************************************************************)
(* What a step does to the tables of job definitions and workflows: it     *)
(* leaves both alone, or one request that waits to write upserts or        *)
(* deletes one row of one of them and is answered.                         *)
(***************************************************************************)
ScopedKinds == {"job_definition", "workflow"}

WriteOps == {<<"createJobDefinition", "job_definition">>, <<"updateJobDefinition", "job_definition">>,
             <<"createWorkflow", "workflow">>, <<"updateWorkflow", "workflow">>}

Tables == DOMAIN rows = Kinds /\ \A k \in Kinds : DOMAIN rows[k] = Ids

Spared(k) == rows'[k] = rows[k]

ScopedWrite(q, kind) ==
    /\ <<q.op, kind>> \in WriteOps
    /\ rows[kind][q.id] = NoRow \/ rows[kind][q.id].project = Context(q).project
    /\ rows'[kind] = [rows[kind] EXCEPT ![q.id] = Row(q, Context(q).project)]
    /\ kind = "workflow" => Owned(q, "job_definition", q.ref)

ScopedDelete(q, kind) ==
    /\ Referrers(kind, q.id) = {}
    /\ rows[kind][q.id].project = Context(q).project
    /\ rows'[kind] = [rows[kind] EXCEPT ![q.id] = NoRow]

ScopedChange(q, kind) ==
    /\ at[q].pc = "write" /\ at'[q].pc = "respond"
    /\ \A k \in ScopedKinds \ {kind} : Spared(k)
    /\ ScopedWrite(q, kind) \/ ScopedDelete(q, kind)

TablesMove(q) ==
    /\ Tables'
    /\ (\A k \in ScopedKinds : Spared(k)) \/ (\E kind \in ScopedKinds : ScopedChange(q, kind))

\* An upsert in the request's project, or its refusal.
LEMMA UpsertedMoves ==
    ASSUME RequestInv, Tables, NEW q \in DOMAIN at, NEW kind \in ScopedKinds, NEW status,
           at[q].pc = "write", <<q.op, kind>> \in WriteOps, kind = "workflow" => Owned(q, "job_definition", q.ref),
           Upserted(q, kind, status)
    PROVE  RecordMove(q) /\ TablesMove(q)
<1>1. \E answer : Respond(q, answer)
  BY DEF Upserted
<1>2. RecordMove(q) /\ at'[q].pc = "respond"
  BY <1>1, HandlersMove, Zenon DEF RecordMove, MovesTo
<1>3. CASE UNCHANGED rows
  BY <1>2, <1>3 DEF TablesMove, Tables, Spared
<1>4. CASE /\ rows[kind][q.id] = NoRow \/ rows[kind][q.id].project = Context(q).project
           /\ rows' = [rows EXCEPT ![kind][q.id] = Row(q, Context(q).project)]
  <2>1. kind \in Kinds  BY DEF ScopedKinds, Kinds
  <2>2. /\ Tables'
        /\ rows'[kind] = [rows[kind] EXCEPT ![q.id] = Row(q, Context(q).project)]
        /\ \A k \in Kinds \ {kind} : rows'[k] = rows[k]
    BY <1>4, <2>1 DEF Tables
  <2>3. ScopedChange(q, kind)
    BY <1>2, <1>4, <2>2 DEF ScopedChange, ScopedWrite, ScopedKinds, Kinds, Spared
  <2>. QED  BY <1>2, <2>2, <2>3 DEF TablesMove
<1>. QED  BY <1>3, <1>4 DEF Upserted, UpsertInProject

\* A delete in the request's project, or its refusal.
LEMMA DeletedMoves ==
    ASSUME RequestInv, Tables, NEW q \in DOMAIN at, NEW kind \in ScopedKinds, at[q].pc = "write",
           DeleteRow(q, kind, rows[kind][q.id].project = Context(q).project)
    PROVE  RecordMove(q) /\ TablesMove(q)
<1>1. \E answer : Respond(q, answer)
  BY DEF DeleteRow
<1>2. RecordMove(q) /\ at'[q].pc = "respond"
  BY <1>1, HandlersMove, Zenon DEF RecordMove, MovesTo
<1>3. CASE UNCHANGED rows
  BY <1>2, <1>3 DEF TablesMove, Tables, Spared
<1>4. CASE /\ Referrers(kind, q.id) = {}
           /\ rows[kind][q.id].project = Context(q).project
           /\ rows' = [rows EXCEPT ![kind][q.id] = NoRow]
  <2>1. kind \in Kinds  BY DEF ScopedKinds, Kinds
  <2>2. /\ Tables'
        /\ rows'[kind] = [rows[kind] EXCEPT ![q.id] = NoRow]
        /\ \A k \in Kinds \ {kind} : rows'[k] = rows[k]
    BY <1>4, <2>1 DEF Tables
  <2>3. ScopedChange(q, kind)
    BY <1>2, <1>4, <2>2 DEF ScopedChange, ScopedDelete, ScopedKinds, Kinds, Spared
  <2>. QED  BY <1>2, <2>2, <2>3 DEF TablesMove
<1>. QED  BY <1>3, <1>4 DEF DeleteRow

\* The checks of a handler.
LEMMA CheckMoves ==
    ASSUME RequestInv, Tables, NEW q \in DOMAIN at, at[q].pc = "handle", q.op \in RecordOps,
           NEW role, NEW ok, Check(q, role, ok)
    PROVE  RecordMove(q) /\ TablesMove(q)
<1>1. UNCHANGED rows /\ (Proceed(q, "write") \/ \E answer : Respond(q, answer))
  BY DEF Check
<1>2. RecordMove(q)
  BY <1>1, HandlersMove, Zenon DEF RecordMove, MovesTo, Handling
<1>. QED  BY <1>1, <1>2 DEF TablesMove, Tables, Spared

\* The handlers of job definitions and workflows.
LEMMA DefinitionMoves ==
    ASSUME RequestInv, Tables, NEW q \in DOMAIN at,
           \/ CreateJobDefinition(q) \/ UpdateJobDefinition(q) \/ DeleteJobDefinition(q)
           \/ CreateWorkflow(q) \/ UpdateWorkflow(q) \/ DeleteWorkflow(q)
    PROVE  RecordMove(q) /\ TablesMove(q)
<1>1. PICK op \in {"createJobDefinition", "updateJobDefinition", "deleteJobDefinition", "createWorkflow",
                   "updateWorkflow", "deleteWorkflow"} :
          /\ q.op = op
          /\ \/ /\ at[q].pc = "handle"
                /\ \E role : \E ok : Check(q, role, ok)
             \/ /\ at[q].pc = "write"
                /\ \/ op \in {"createJobDefinition", "updateJobDefinition"}
                      /\ \E status : Upserted(q, "job_definition", status)
                   \/ op \in {"createWorkflow", "updateWorkflow"} /\ \E status : WriteWorkflow(q, status)
                   \/ DeleteRow(q, "job_definition", rows["job_definition"][q.id].project = Context(q).project)
                   \/ DeleteRow(q, "workflow", rows["workflow"][q.id].project = Context(q).project)
  <2>1. CASE CreateJobDefinition(q)  BY <2>1, Zenon DEF CreateJobDefinition, Enters, Writes, At
  <2>2. CASE UpdateJobDefinition(q)  BY <2>2, Zenon DEF UpdateJobDefinition, Enters, Writes, At
  <2>3. CASE DeleteJobDefinition(q)  BY <2>3, Zenon DEF DeleteJobDefinition, Enters, Writes, At
  <2>4. CASE CreateWorkflow(q)  BY <2>4, Zenon DEF CreateWorkflow, Enters, Writes, At
  <2>5. CASE UpdateWorkflow(q)  BY <2>5, Zenon DEF UpdateWorkflow, Enters, Writes, At
  <2>6. CASE DeleteWorkflow(q)  BY <2>6, Zenon DEF DeleteWorkflow, Enters, Writes, At
  <2>. QED  BY <2>1, <2>2, <2>3, <2>4, <2>5, <2>6, Zenon
<1>2. q.op \in RecordOps
  BY <1>1 DEF RecordOps
<1>3. CASE at[q].pc = "handle"
  BY <1>1, <1>2, <1>3, CheckMoves
<1>4. CASE /\ at[q].pc = "write" /\ op \in {"createJobDefinition", "updateJobDefinition"}
           /\ \E status : Upserted(q, "job_definition", status)
  <2>1. <<q.op, "job_definition">> \in WriteOps /\ "job_definition" \in ScopedKinds
    BY <1>1, <1>4 DEF WriteOps, ScopedKinds
  <2>. QED  BY <1>4, <2>1, UpsertedMoves
<1>5. CASE /\ at[q].pc = "write" /\ op \in {"createWorkflow", "updateWorkflow"}
           /\ \E status : WriteWorkflow(q, status)
  <2>1. <<q.op, "workflow">> \in WriteOps /\ "workflow" \in ScopedKinds
    BY <1>1, <1>5 DEF WriteOps, ScopedKinds
  <2>2. PICK status : WriteWorkflow(q, status)  BY <1>5
  <2>3. CASE LockWorkflowJobs(q) /\ Upserted(q, "workflow", status)
    BY <1>5, <2>1, <2>3, UpsertedMoves DEF LockWorkflowJobs
  <2>4. CASE Respond(q, 404) /\ UNCHANGED rows
    <3>1. RecordMove(q)  BY <2>4, HandlersMove, Zenon DEF RecordMove, MovesTo
    <3>. QED  BY <2>4, <3>1 DEF TablesMove, Tables, Spared
  <2>. QED  BY <2>2, <2>3, <2>4 DEF WriteWorkflow
<1>6. CASE /\ at[q].pc = "write"
           /\ \/ DeleteRow(q, "job_definition", rows["job_definition"][q.id].project = Context(q).project)
              \/ DeleteRow(q, "workflow", rows["workflow"][q.id].project = Context(q).project)
  BY <1>6, DeletedMoves, Zenon DEF ScopedKinds
<1>. QED  BY <1>1, <1>3, <1>4, <1>5, <1>6

\* One row of another table changes.
LEMMA ElsewhereMoves ==
    ASSUME Tables, NEW kind \in Kinds \ ScopedKinds, NEW id, NEW row, rows' = [rows EXCEPT ![kind][id] = row]
    PROVE  Tables' /\ \A k \in ScopedKinds : Spared(k)
BY DEF Tables, Spared, ScopedKinds, Kinds

\* The handlers that write by identifier alone write other tables.
LEMMA OtherHandlersMove ==
    ASSUME RequestInv, Tables, NEW q \in DOMAIN at,
           \/ CreateAutomation(q) \/ UpdateAutomation(q) \/ SetAutomationStatus(q) \/ DeleteAutomation(q)
           \/ CreateTriggerPlugin(q) \/ CreateGraph(q) \/ CreateAgent(q) \/ StartAgentRun(q) \/ CreateRun(q)
    PROVE  RecordMove(q) /\ TablesMove(q)
<1>. DEFINE ops    == {"createAutomation", "updateAutomation", "enableAutomation", "deleteAutomation",
                       "createTriggerPlugin", "createGraph", "createAgent", "startAgentRun", "createJobRun"}
            others == {"automation", "plugin", "graph", "agent", "agent_run", "job_run"}
            Elsewhere == \/ UNCHANGED rows
                         \/ \E kind \in others : \E id : \E row : rows' = [rows EXCEPT ![kind][id] = row]
            Onward == \/ \E answer : Respond(q, answer)
                      \/ Proceed(q, "assign") \/ Proceed(q, "agent")
                      \/ q.op = "createAgent" /\ \E seen : at' = [at EXCEPT ![q].pc = "write", ![q].seen = seen]
<1>1. at[q].pc \in {"handle", "write", "assign", "agent"}
  BY Zenon DEF CreateAutomation, UpdateAutomation, SetAutomationStatus, DeleteAutomation, CreateTriggerPlugin,
         CreateGraph, CreateAgent, StartAgentRun, CreateRun, Enters, Writes, Assigns, At
<1>2. \/ at[q].pc = "handle" /\ q.op \in ops /\ \E role : \E ok : Check(q, role, ok)
      \/ Onward /\ Elsewhere
  <2>1. \A kind \in others :
            /\ WriteThenAssign(q, kind) => Proceed(q, "assign") /\ Elsewhere
            /\ rows' = UpsertById(q, kind, rows) => Elsewhere
            /\ Assigned(q, kind) => Onward /\ Elsewhere
            /\ DeleteRow(q, kind, TRUE) => Onward /\ Elsewhere
    <3>. TAKE kind \in others
    <3>1. rows' = UpsertById(q, kind, rows) => Elsewhere  BY Zenon DEF UpsertById
    <3>2. WriteThenAssign(q, kind) => Proceed(q, "assign") /\ Elsewhere  BY <3>1, Zenon DEF WriteThenAssign
    <3>3. Assigned(q, kind) => Onward /\ Elsewhere  BY Zenon DEF Assigned, AssignProject
    <3>4. DeleteRow(q, kind, TRUE) => Onward /\ Elsewhere  BY Zenon DEF DeleteRow
    <3>. QED  BY <3>1, <3>2, <3>3, <3>4, Zenon
  <2>2. CASE CreateAutomation(q)  BY <2>1, <2>2, Zenon DEF CreateAutomation, Enters, Writes, Assigns, At
  <2>3. CASE UpdateAutomation(q)  BY <2>1, <2>3, Zenon DEF UpdateAutomation, Enters, Writes, At
  <2>4. CASE SetAutomationStatus(q)  BY <2>4, Zenon DEF SetAutomationStatus, Enters, Writes, At
  <2>5. CASE DeleteAutomation(q)  BY <2>1, <2>5, Zenon DEF DeleteAutomation, Enters, Writes, At
  <2>6. CASE CreateTriggerPlugin(q)  BY <2>1, <2>6, Zenon DEF CreateTriggerPlugin, Enters, Writes, Assigns, At
  <2>7. CASE CreateGraph(q)  BY <2>1, <2>7, Zenon DEF CreateGraph, Enters, Writes, Assigns, At
  <2>8. CASE CreateAgent(q)  BY <2>1, <2>8, Zenon DEF CreateAgent, Enters, Writes, Assigns, At
  <2>9. CASE StartAgentRun(q)  BY <2>1, <2>9, Zenon DEF StartAgentRun, Enters, Writes, Assigns, At
  <2>10. CASE CreateRun(q)
    <3>1. rows' = SaveRun(q, rows) => Elsewhere  BY Zenon DEF SaveRun
    <3>2. UNCHANGED rows => Elsewhere  OBVIOUS
    <3>3. "job_run" \in others /\ "createJobRun" \in ops  OBVIOUS
    <3>4. (\E answer : Respond(q, answer)) \/ Proceed(q, "assign") => Onward  OBVIOUS
    <3>. HIDE DEF ops, others, Elsewhere, Onward
    <3>. QED  BY <2>1, <2>10, <3>1, <3>2, <3>3, <3>4, ZenonT(30) DEF CreateRun, Enters, Writes, Assigns, At
  <2>. HIDE DEF ops, others, Elsewhere, Onward
  <2>. QED  BY <2>2, <2>3, <2>4, <2>5, <2>6, <2>7, <2>8, <2>9, <2>10
<1>3. CASE at[q].pc = "handle" /\ q.op \in ops /\ \E role : \E ok : Check(q, role, ok)
  <2>1. q.op \in RecordOps  BY <1>3 DEF RecordOps
  <2>. QED  BY <1>3, <2>1, CheckMoves
<1>4. CASE Onward /\ Elsewhere
  <2>1. RecordMove(q)
    BY <1>1, <1>4, HandlersMove, Zenon DEF RecordMove, MovesTo, Handling, RecordOps
  <2>2. others = Kinds \ ScopedKinds  BY DEF Kinds, ScopedKinds
  <2>3. Tables' /\ \A k \in ScopedKinds : Spared(k)
    <3>1. CASE UNCHANGED rows  BY <3>1 DEF Tables, Spared
    <3>2. CASE \E kind \in others : \E id : \E row : rows' = [rows EXCEPT ![kind][id] = row]
      BY <2>2, <3>2, ElsewhereMoves, Zenon
    <3>. QED  BY <1>4, <3>1, <3>2, Zenon
  <2>. QED  BY <2>1, <2>3 DEF TablesMove
<1>. QED  BY <1>2, <1>3, <1>4, Zenon

\* Every step of Projects.
LEMMA RecordsMove ==
    ASSUME RequestInv, Tables, Next
    PROVE  UNCHANGED <<at, rows>> \/ \E q \in DOMAIN at : RecordMove(q) /\ TablesMove(q)
<1>1. ASSUME NEW a \in DOMAIN accounts, Expire(a)  PROVE UNCHANGED <<at, rows>>
  BY <1>1 DEF Expire
<1>2. ASSUME NEW q \in DOMAIN at, Authenticate(q) \/ Authorize(q) \/ Answer(q) \/ StoreFails(q)
      PROVE  RecordMove(q) /\ TablesMove(q)
  <2>1. UNCHANGED rows
    BY <1>2 DEF Authenticate, Authorize, Answer, StoreFails
  <2>. QED  BY <1>2, <2>1, MiddlewareMoves DEF TablesMove, Tables, Spared
<1>3. ASSUME NEW q \in DOMAIN at,
             \/ ListProjectMemberships(q) \/ UpsertProjectMembership(q) \/ DeleteProjectMembership(q)
             \/ CreateServiceAccount(q) \/ RevokeServiceAccount(q)
      PROVE  RecordMove(q) /\ TablesMove(q)
  BY <1>3, ManagementMoves DEF TablesMove, Tables, Spared
<1>. QED  BY <1>1, <1>2, <1>3, DefinitionMoves, OtherHandlersMove, Zenon DEF Next

\* Such a step keeps what is known of requests.
LEMMA RecordMoveKeeps ==
    ASSUME RequestInv, NEW q \in DOMAIN at, RecordMove(q)
    PROVE  RequestInv'
<1>1. Alone(q)
  BY DEF RecordMove, MovesTo
<1>2. \/ at'[q].pc \notin Handling
      \/ Admitted(q, at[q])'
      \/ at[q].pc \in Handling /\ at'[q].context = at[q].context /\ at'[q].principal = at[q].principal
  BY DEF RecordMove, MovesTo, Handling
<1>. QED  BY <1>1, <1>2, RequestMoves

-----------------------------------------------------------------------------
(***************************************************************************)
(* The registry: the permissions it asks of the operations that write job  *)
(* definitions and workflows.                                              *)
(***************************************************************************)
DefinitionOps == {"createJobDefinition", "updateJobDefinition"}
WorkflowOps   == {"createWorkflow", "updateWorkflow"}

\* The entries of ENDPOINTS that name such an operation.
LEMMA RegistryEntries ==
    ASSUME NEW e \in Endpoints, NEW op \in DefinitionOps \cup WorkflowOps, op \in e.operations
    PROVE  /\ e.ownership = "selected"
           /\ e.permission = IF op \in DefinitionOps THEN <<"jobs", "write">> ELSE <<"workflows", "write">>
<1>. USE DEF Endpoint, DefinitionOps, WorkflowOps
<1>1. e \notin PublicEndpoints  BY DEF PublicEndpoints
<1>2. e \notin IdentityEndpoints  BY DEF IdentityEndpoints
<1>3. e \notin GraphEndpoints  BY DEF GraphEndpoints
<1>4. e \notin AssuranceEndpoints  BY DEF AssuranceEndpoints
<1>5. e \notin MemoryEndpoints  BY DEF MemoryEndpoints
<1>6. e \notin MemoryGraphEndpoints  BY DEF MemoryGraphEndpoints
<1>7. e \notin SubgraphEndpoints  BY DEF SubgraphEndpoints
<1>8. e \notin ConflictEndpoints  BY DEF ConflictEndpoints
<1>9. e \notin IngestionEndpoints  BY DEF IngestionEndpoints
<1>10. e \notin AutomationEndpoints  BY DEF AutomationEndpoints
<1>11. e \notin WorkflowRunEndpoints  BY DEF WorkflowRunEndpoints
<1>12. e \notin JobRunEndpoints  BY DEF JobRunEndpoints
<1>13. CASE e \in DefinitionEndpoints  BY <1>13 DEF DefinitionEndpoints
<1>14. CASE e \in WorkflowEndpoints  BY <1>14 DEF WorkflowEndpoints
<1>. QED
  BY <1>1, <1>2, <1>3, <1>4, <1>5, <1>6, <1>7, <1>8, <1>9, <1>10, <1>11, <1>12, <1>13, <1>14, Zenon DEF Endpoints

\* What the registry answers for them.
LEMMA RegistryAsks ==
    ASSUME NEW op \in DefinitionOps \cup WorkflowOps
    PROVE  /\ EndpointContracts[op].ownership = "selected"
           /\ EndpointContracts[op].permission =
                  IF op \in DefinitionOps THEN <<"jobs", "write">> ELSE <<"workflows", "write">>
<1>1. \E e \in Endpoints : op \in e.operations
  <2>1. CASE op \in DefinitionOps
    <3>1. \E e \in DefinitionEndpoints : op \in e.operations
      BY <2>1 DEF DefinitionOps, DefinitionEndpoints, Endpoint
    <3>. QED  BY <3>1, Zenon DEF Endpoints
  <2>2. CASE op \in WorkflowOps
    <3>1. \E e \in WorkflowEndpoints : op \in e.operations
      BY <2>2 DEF WorkflowOps, WorkflowEndpoints, Endpoint
    <3>. QED  BY <3>1, Zenon DEF Endpoints
  <2>. QED  BY <2>1, <2>2
<1>2. EndpointContracts[op] \in Endpoints /\ op \in EndpointContracts[op].operations
  BY <1>1, Zenon DEF EndpointContracts
<1>. QED  BY <1>2, RegistryEntries, Zenon

\* An administrator may write both, a viewer neither.
LEMMA WriteRoles ==
    ASSUME NEW permission \in {<<"jobs", "write">>, <<"workflows", "write">>}
    PROVE  AllowedTo("admin", permission) /\ ~AllowedTo("viewer", permission)
<1>1. permission[2] = "write" /\ permission \notin {<<"public", "access">>, <<"auth", "read">>}
  OBVIOUS
<1>2. MinimumProjectRole(permission) = "admin"
  BY <1>1 DEF MinimumProjectRole
<1>. QED  BY <1>2 DEF AllowedTo, Rank, Anyone
-----------------------------------------------------------------------------
(***************************************************************************)
(* The tables of job definitions and workflows.                            *)
(***************************************************************************)
WorkflowStays(id) ==
    Exists("workflow", id) =>
        /\ rows["workflow"][id].ref \in Ids
        /\ Exists("job_definition", rows["workflow"][id].ref)
        /\ rows["job_definition"][rows["workflow"][id].ref].project = rows["workflow"][id].project

RowsInv == Tables /\ (\A id \in Ids : WorkflowStays(id)) /\ WritersWereAllowed

\* What ScopedRowsKeepTheirProject says of one step.
RowsScoped ==
    \A kind \in {"job_definition", "workflow"}, id \in Ids :
        Exists(kind, id) /\ rows'[kind][id] # rows[kind][id] =>
            /\ rows'[kind][id].project \in {NoProject, rows[kind][id].project}
            /\ \E q \in DOMAIN at : at'[q] # at[q] /\ Context(q).project = rows[kind][id].project

PermissionOf(kind) == IF kind = "job_definition" THEN <<"jobs", "write">> ELSE <<"workflows", "write">>

\* A request that writes one of them was admitted, so its role may.
LEMMA WriterIsAllowed ==
    ASSUME RequestInv, NEW q \in DOMAIN at, at[q].pc = "write", NEW kind \in ScopedKinds, <<q.op, kind>> \in WriteOps
    PROVE  /\ AllowedTo(Context(q).role, PermissionOf(kind))
           /\ Row(q, Context(q).project) # NoRow
           /\ kind = "workflow" => q.ref \in Ids
<1>1. /\ q.op \in DefinitionOps \cup WorkflowOps
      /\ q.op \in DefinitionOps <=> kind = "job_definition"
      /\ kind = "workflow" => q.op \in {"createWorkflow", "updateWorkflow"}
  BY DEF WriteOps, DefinitionOps, WorkflowOps, ScopedKinds
<1>2. EndpointContracts[q.op].ownership # "unscoped" /\ EndpointContracts[q.op].permission = PermissionOf(kind)
  BY <1>1, RegistryAsks DEF PermissionOf
<1>3. /\ Authorized(EndpointContracts[q.op], Context(q), at[q].principal)
      /\ at[q].principal.admin => Context(q).role = "admin"
  BY DEF RequestInv, Admitted, Handling, Context
<1>4. at[q].principal.admin \/ AllowedTo(Context(q).role, PermissionOf(kind))
  BY <1>2, <1>3 DEF Authorized
<1>5. AllowedTo("admin", PermissionOf(kind)) /\ ~AllowedTo("viewer", PermissionOf(kind))
  BY WriteRoles, Zenon DEF PermissionOf
<1>6. AllowedTo(Context(q).role, PermissionOf(kind)) /\ Context(q).role # "viewer"
  BY <1>3, <1>4, <1>5, Zenon
<1>7. Row(q, Context(q).project) # NoRow
  <2>1. Row(q, Context(q).project).role = Context(q).role /\ NoRow.role = "viewer"
    BY DEF Row, NoRow
  <2>. QED  BY <1>6, <2>1
<1>8. kind = "workflow" => q.ref \in Ids
  BY <1>1, Zenon DEF RequestInv, Names
<1>. QED  BY <1>6, <1>7, <1>8

\* A write or a delete keeps every stored workflow's job definition, in its
\* project: the write looks it up again, the delete spares what is referred to.
LEMMA ChangeKeepsRows ==
    ASSUME RequestInv, RowsInv, NEW q \in DOMAIN at, Tables', NEW kind \in ScopedKinds, ScopedChange(q, kind)
    PROVE  RowsInv' /\ RowsScoped
<1>. DEFINE row == Row(q, Context(q).project)
<1>1. row.project = Context(q).project /\ row.ref = q.ref /\ row.role = Context(q).role /\ NoRow.project = NoProject
  BY DEF Row, NoRow
<1>2. /\ \A k \in ScopedKinds : DOMAIN rows[k] = Ids /\ DOMAIN rows'[k] = Ids
      /\ {"job_definition", "workflow"} = ScopedKinds
  BY DEF RowsInv, Tables, Kinds, ScopedKinds
<1>. HIDE DEF row
<1>3. at'[q] # at[q]
  BY DEF ScopedChange
<1>4. CASE ScopedWrite(q, kind)
  <2>1. /\ AllowedTo(row.role, PermissionOf(kind)) /\ row # NoRow
        /\ kind = "workflow" => q.ref \in Ids
    BY <1>1, <1>4, WriterIsAllowed, Zenon DEF ScopedChange, ScopedWrite, row
  <2>2. /\ \A id \in Ids : rows'[kind][id] = IF id = q.id THEN row ELSE rows[kind][id]
        /\ \A k \in ScopedKinds \ {kind} : rows'[k] = rows[k]
        /\ rows[kind][q.id] = NoRow \/ rows[kind][q.id].project = row.project
        /\ kind = "workflow" => Exists("job_definition", row.ref)
                                /\ rows["job_definition"][row.ref].project = row.project
    BY <1>1, <1>2, <1>4, Zenon DEF ScopedChange, ScopedWrite, Spared, row, Owned
  <2>3. RowsScoped
    BY <1>1, <1>2, <1>3, <2>2 DEF RowsScoped, Exists
  <2>4. WritersWereAllowed'
    BY <1>2, <2>1, <2>2 DEF RowsInv, WritersWereAllowed, Exists, PermissionOf
  <2>5. ASSUME NEW id \in Ids  PROVE WorkflowStays(id)'
    <3>1. CASE kind = "workflow"
      BY <1>1, <1>2, <2>1, <2>2, <3>1 DEF RowsInv, WorkflowStays, Exists
    <3>2. CASE kind = "job_definition"
      BY <1>1, <1>2, <2>1, <2>2, <3>2 DEF RowsInv, WorkflowStays, Exists
    <3>. QED  BY <1>2, <3>1, <3>2
  <2>. QED  BY <2>3, <2>4, <2>5 DEF RowsInv
<1>5. CASE ScopedDelete(q, kind)
  <2>1. /\ \A id \in Ids : rows'[kind][id] = IF id = q.id THEN NoRow ELSE rows[kind][id]
        /\ \A k \in ScopedKinds \ {kind} : rows'[k] = rows[k]
        /\ rows[kind][q.id].project = Context(q).project
    BY <1>2, <1>5, Zenon DEF ScopedChange, ScopedDelete, Spared
  <2>2. RowsScoped
    BY <1>1, <1>2, <1>3, <2>1, Zenon DEF RowsScoped, Exists
  <2>3. WritersWereAllowed'
    BY <1>2, <2>1 DEF RowsInv, WritersWereAllowed, Exists
  <2>4. ASSUME NEW id \in Ids  PROVE WorkflowStays(id)'
    <3>1. CASE kind = "workflow"
      BY <1>2, <2>1, <3>1 DEF RowsInv, WorkflowStays, Exists
    <3>2. CASE kind = "job_definition"
      <4>1. Exists("workflow", id) => rows["workflow"][id].ref # q.id
        <5>1. <<"workflow", "job_definition">> \in
                  {<<"workflow", "job_definition">>, <<"job_run", "job_definition">>,
                   <<"automation", "workflow">>, <<"agent", "graph">>, <<"agent_run", "agent">>}
          OBVIOUS
        <5>2. "workflow" \in Kinds  BY DEF Kinds
        <5>. QED  BY <1>5, <3>2, <5>1, <5>2, Zenon DEF ScopedDelete, Referrers
      <4>2. rows'["workflow"] = rows["workflow"]  BY <1>2, <2>1, <3>2
      <4>. QED  BY <1>2, <2>1, <3>2, <4>1, <4>2 DEF RowsInv, WorkflowStays, Exists
    <3>. QED  BY <1>2, <3>1, <3>2
  <2>. QED  BY <2>2, <2>3, <2>4 DEF RowsInv
<1>. QED  BY <1>4, <1>5 DEF ScopedChange

\* So does a step that leaves both tables alone.
LEMMA SparedKeepsRows ==
    ASSUME RowsInv, Tables', \A k \in ScopedKinds : Spared(k)
    PROVE  RowsInv' /\ RowsScoped
<1>1. rows'["job_definition"] = rows["job_definition"] /\ rows'["workflow"] = rows["workflow"]
  BY DEF ScopedKinds, Spared
<1>2. WritersWereAllowed' /\ \A id \in Ids : WorkflowStays(id)'
  BY <1>1 DEF RowsInv, WritersWereAllowed, WorkflowStays, Exists
<1>3. RowsScoped
  BY <1>1 DEF RowsScoped
<1>. QED  BY <1>2, <1>3 DEF RowsInv

(***************************************************************************)
(* Memory.  The record a handler holds between its statements, and every   *)
(* upsert an ingestion still has to make, is in the request's own project. *)
(***************************************************************************)
Planned == {"source", "evidence", "entity", "claim", "resolution", "subgraph", "run"}

PlanItem(e, project) ==
    \/ e.kind \in {"candidates", "ensure"}
    \/ e.kind \in Planned /\ DOMAIN e.row = DOMAIN Blank /\ e.row.project = project

PlanOK(plan, project) == \E S : plan \in Seq(S) /\ \A e \in S : PlanItem(e, project)

HeldAt == {"write", "list", "canonical", "file"}

Ingests(q) == q.op = "runIngestionConnector"

HoldsOwn(q, held) == DOMAIN held.row = DOMAIN Blank /\ held.row.project = Context(q).project

OwnRows(S, project) == \A r \in S : DOMAIN r.row = DOMAIN Blank /\ r.row.project = project

HoldsRun(q, held) ==
    /\ Ingests(q) /\ HoldsOwn(q, held) /\ Configures(held.row)
    /\ PlanOK(held.plan, Context(q).project) /\ OwnRows(held.rivals, Context(q).project)

WorkOK(q) ==
    /\ DOMAIN work[q] = DOMAIN Idle
    /\ at[q].pc \in HeldAt /\ q.op \in MemoryOps => HoldsOwn(q, work[q])
    /\ at[q].pc = "persist" => HoldsRun(q, work[q])

\* The row a request about memory carries is one.
Asks(q) == q.op \in MemoryOps => IsRow(IF q.op = "createIngestionConnector" THEN "connector" ELSE "", q.row)

WorkInv == DOMAIN work = DOMAIN at /\ \A q \in DOMAIN at : WorkOK(q) /\ Asks(q)

MemInv ==
    /\ DOMAIN mem = MemoryKinds
    /\ \A kind \in MemoryKinds : \A id \in DOMAIN mem[kind] : IsRow(kind, mem[kind][id])

\* What RecordsKeepTheirProject says of one step.
MemoryScoped ==
    \A kind \in MemoryKinds : \A id \in DOMAIN mem[kind] :
        mem'[kind][id] # mem[kind][id] =>
            /\ mem'[kind][id].project = mem[kind][id].project
            /\ \E q \in DOMAIN at : (at'[q] # at[q] \/ work'[q] # work[q]) /\ InScope(q, mem[kind][id])

Upserts(kind, id, row) ==
    /\ Stored(kind, id) => mem[kind][id].project = row.project
    /\ mem' = [mem EXCEPT ![kind] = [i \in DOMAIN @ \cup {id} |-> IF i = id THEN row ELSE @[i]]]

\* Every table's upsert has the scope guard.
LEMMA UpsertsAreScoped ==
    ASSUME NEW kind \in MemoryKinds, NEW id, NEW row, mem' \in Upsert(kind, id, row)
    PROVE  Upserts(kind, id, row)
<1>1. ASSUME NEW holds, mem' \in UpsertScoped(kind, id, row, holds)  PROVE Upserts(kind, id, row)
  BY <1>1, Zenon DEF UpsertScoped, Upserts
<1>2. \E holds : Upsert(kind, id, row) = UpsertScoped(kind, id, row, holds)
  <2>. USE DEF Upsert
  <2>1. CASE kind = "source"  BY <2>1, Zenon DEF UpsertMemorySource
  <2>2. CASE kind = "evidence"  BY <2>2, Zenon DEF UpsertMemoryEvidence
  <2>3. CASE kind = "entity"  BY <2>3, Zenon DEF UpsertMemoryEntity
  <2>4. CASE kind = "claim"  BY <2>4, Zenon DEF UpsertMemoryClaim
  <2>5. CASE kind = "event"  BY <2>5, Zenon DEF UpsertMemoryEvent
  <2>6. CASE kind = "relationship"  BY <2>6, Zenon DEF UpsertMemoryRelationship
  <2>7. CASE kind = "contract"  BY <2>7, Zenon DEF UpsertMemoryContract
  <2>8. CASE kind = "subgraph"  BY <2>8, Zenon DEF UpsertMemorySubgraph
  <2>9. CASE kind = "member"  BY <2>9, Zenon DEF UpsertMemorySubgraphMember
  <2>10. CASE kind = "canonical"  BY <2>10, Zenon DEF UpsertMemoryCanonicalEntity
  <2>11. CASE kind = "resolution"  BY <2>11, Zenon DEF UpsertMemoryEntityResolution
  <2>12. CASE kind = "conflict"  BY <2>12, Zenon DEF UpsertMemoryClaimConflict
  <2>13. CASE kind = "trace"  BY <2>13, Zenon DEF UpsertMemorySummaryTrace
  <2>14. CASE kind = "attachment"  BY <2>14, Zenon DEF UpsertMemoryEntityGraphAttachment
  <2>15. CASE kind = "edge"  BY <2>15, Zenon DEF UpsertMemorySubgraphEdge
  <2>16. CASE kind = "connector"  BY <2>16, Zenon DEF UpsertIngestionConnector
  <2>17. CASE kind = "run"  BY <2>17, Zenon DEF UpsertIngestionRun
  <2>. QED
    BY <2>1, <2>2, <2>3, <2>4, <2>5, <2>6, <2>7, <2>8, <2>9, <2>10, <2>11, <2>12, <2>13, <2>14, <2>15, <2>16, <2>17, Zenon
       DEF MemoryKinds
<1>. QED  BY <1>1, <1>2
\* An upsert of a row in some project touches no row of another.
LEMMA UpsertsKeep ==
    ASSUME MemInv, NEW kind \in MemoryKinds, NEW id, NEW row, IsRow(kind, row), Upserts(kind, id, row)
    PROVE  /\ MemInv'
           /\ \A k \in MemoryKinds : \A i \in DOMAIN mem[k] :
                  mem'[k][i] # mem[k][i] => mem[k][i].project = row.project /\ mem'[k][i].project = row.project
<1>1. /\ DOMAIN mem' = MemoryKinds
      /\ mem'[kind] = [i \in DOMAIN mem[kind] \cup {id} |-> IF i = id THEN row ELSE mem[kind][i]]
      /\ \A k \in MemoryKinds \ {kind} : mem'[k] = mem[k]
  BY DEF Upserts, MemInv
<1>3. \A i \in DOMAIN mem'[kind] : IsRow(kind, mem'[kind][i])
  <2>1. DOMAIN mem'[kind] = DOMAIN mem[kind] \cup {id}  BY <1>1
  <2>2. ASSUME NEW i \in DOMAIN mem'[kind]  PROVE IsRow(kind, mem'[kind][i])
    BY <1>1, <2>1, Zenon DEF MemInv
  <2>. QED  BY <2>2
<1>4. MemInv'
  BY <1>1, <1>3, Zenon DEF MemInv
<1>5. ASSUME NEW k \in MemoryKinds, NEW i \in DOMAIN mem[k], mem'[k][i] # mem[k][i]
      PROVE  mem[k][i].project = row.project /\ mem'[k][i].project = row.project
  <2>1. k = kind /\ i = id /\ mem'[k][i] = row  BY <1>1, <1>5
  <2>. QED  BY <2>1 DEF Upserts, Stored
<1>. QED  BY <1>4, <1>5

\* One request moves on, holding what it should, and upserts at most one row, in its
\* own project.
MemoryMove(q) ==
    /\ UNCHANGED at \/ \E pc : MovesTo(q, pc)
    /\ DOMAIN work' = DOMAIN work /\ \A o \in DOMAIN at : o # q => work'[o] = work[o]
    /\ WorkOK(q)'
    /\ \/ UNCHANGED mem
       \/ \E kind \in MemoryKinds : \E id : \E row :
              /\ IsRow(kind, row)
              /\ row.project = Context(q).project
              /\ Upserts(kind, id, row)
              /\ at'[q] # at[q] \/ work'[q] # work[q]

\* A handler of the memory API that moves as MemoryMove says keeps the invariant, and
\* changes rows of its own project only.
LEMMA MemoryMoves ==
    ASSUME RequestInv, WorkInv, MemInv, NEW q \in DOMAIN at, at[q].pc \in Handling, MemoryMove(q)
    PROVE  RequestInv' /\ WorkInv' /\ MemInv' /\ MemoryScoped
<1>1. RequestInv' /\ DOMAIN at' = DOMAIN at /\ \A o \in DOMAIN at : o # q => at'[o] = at[o]
  <2>1. CASE UNCHANGED at  BY <2>1 DEF RequestInv
  <2>2. CASE \E pc : MovesTo(q, pc)
    BY <2>2, RequestMoves DEF MovesTo, Alone
  <2>. QED  BY <2>1, <2>2 DEF MemoryMove
<1>2. WorkInv'
  <2>1. ASSUME NEW o \in DOMAIN at, o # q  PROVE WorkOK(o)'
    <3>1. at'[o] = at[o] /\ work'[o] = work[o] /\ WorkOK(o)
      BY <1>1, <2>1 DEF MemoryMove, WorkInv
    <3>. QED  BY <3>1 DEF WorkOK, HoldsRun, HoldsOwn, Context
  <2>. QED  BY <1>1, <2>1 DEF MemoryMove, WorkInv
<1>3. MemInv' /\ MemoryScoped
  <2>1. CASE UNCHANGED mem  BY <2>1 DEF MemInv, MemoryScoped
  <2>2. ASSUME NEW kind \in MemoryKinds, NEW id, NEW row, IsRow(kind, row), row.project = Context(q).project,
               Upserts(kind, id, row), at'[q] # at[q] \/ work'[q] # work[q]
        PROVE  MemInv' /\ MemoryScoped
    BY <2>2, UpsertsKeep DEF MemoryScoped, InScope
  <2>. QED  BY <2>1, <2>2 DEF MemoryMove
<1>. QED  BY <1>1, <1>2, <1>3

\* A request that is answered holds nothing that matters.
LEMMA AnsweredOK ==
    ASSUME WorkInv, NEW q \in DOMAIN at, MovesTo(q, "respond"), UNCHANGED work
    PROVE  WorkOK(q)'
BY DEF WorkInv, WorkOK, MovesTo, Alone, HeldAt

\* A handler that refuses, or that moves on with something held, writes nothing.
LEMMA RefusedMoves ==
    ASSUME RequestInv, WorkInv, NEW q \in DOMAIN at, NEW status, Refused(q, status)
    PROVE  MemoryMove(q)
<1>1. MovesTo(q, "respond") /\ UNCHANGED <<mem, work>>
  BY HandlersMove, Zenon DEF Refused
<1>. QED  BY <1>1, AnsweredOK DEF MemoryMove

\* Keeping the rows it has read or built is such a move.
LEMMA HoldsMoves ==
    ASSUME RequestInv, WorkInv, NEW q \in DOMAIN at, NEW pc, NEW held, Holds(q, pc, held),
           DOMAIN held = DOMAIN Idle,
           pc \in HeldAt /\ q.op \in MemoryOps => HoldsOwn(q, held),
           pc = "persist" => HoldsRun(q, held)
    PROVE  MemoryMove(q)
<1>1. MovesTo(q, pc) /\ UNCHANGED mem
  BY HandlersMove, Zenon DEF Holds, Proceed
<1>2. work'[q] = held /\ DOMAIN work' = DOMAIN work /\ \A o \in DOMAIN at : o # q => work'[o] = work[o]
  BY DEF Holds, WorkInv
<1>3. WorkOK(q)'
  BY <1>1, <1>2 DEF WorkOK, MovesTo, Alone, HoldsRun, HoldsOwn, Context
<1>. QED  BY <1>1, <1>2, <1>3 DEF MemoryMove

\* A handler whose upsert is its last statement.
LEMMA SavedMoves ==
    ASSUME RequestInv, WorkInv, MemInv, NEW q \in DOMAIN at, at[q].pc \in Handling, NEW kind \in MemoryKinds,
           NEW id, NEW row, NEW refused, NEW status, IsRow(kind, row), row.project = Context(q).project,
           Saves(q, kind, id, row, refused, Answers(q, status))
    PROVE  MemoryMove(q)
<1>1. CASE Refused(q, refused)
  BY <1>1, RefusedMoves
<1>2. CASE mem' \in Upsert(kind, id, row) /\ Answers(q, status)
  <2>1. MovesTo(q, "respond") /\ UNCHANGED work
    BY <1>2, HandlersMove, Zenon DEF Answers
  <2>2. WorkOK(q)' /\ at'[q] # at[q]
    BY <2>1, AnsweredOK DEF MovesTo, Handling
  <2>. QED  BY <1>2, <2>1, <2>2, UpsertsAreScoped DEF MemoryMove
<1>. QED  BY <1>1, <1>2 DEF Saves
-----------------------------------------------------------------------------
(***************************************************************************)
(* The handlers.                                                           *)
(***************************************************************************)

\* The columns every memory row has.
LEMMA BlankFields ==
    /\ DOMAIN Blank = {"project", "status", "refs", "evidence", "claims", "preferred", "says"}
    /\ DOMAIN Idle = {"row", "rivals", "canonical", "plan"}
BY DEF Blank, Idle

\* What a request builds is a row of its own project.
LEMMA BuiltIsOwn ==
    ASSUME WorkInv, NEW q \in DOMAIN at, q.op \in MemoryOps
    PROVE  /\ DOMAIN Built(q) = DOMAIN Blank /\ Built(q).project = Context(q).project
           /\ q.op = "createIngestionConnector" => IsRow("connector", Built(q))
<1>1. DOMAIN q.row = {"project", "status", "refs", "evidence", "claims", "preferred", "says"}
  BY BlankFields DEF WorkInv, Asks, IsRow
<1>2. /\ DOMAIN Built(q) = DOMAIN Blank /\ Built(q).project = Context(q).project
      /\ Built(q).says = q.row.says
  BY <1>1, BlankFields DEF Built
<1>3. q.op = "createIngestionConnector" => Configures(q.row)
  BY DEF WorkInv, Asks, IsRow
<1>. QED  BY <1>2, <1>3 DEF IsRow, Configures

\* So is its draft.
LEMMA DraftIsOwn ==
    ASSUME NEW row, DOMAIN row = DOMAIN Blank
    PROVE  DOMAIN Draft(row) = DOMAIN Blank /\ Draft(row).project = row.project
BY BlankFields DEF Draft

\* A record is held by the handler that found or built it.
LEMMA IdleWith ==
    ASSUME NEW row
    PROVE  /\ DOMAIN [Idle EXCEPT !.row = row] = DOMAIN Idle
           /\ [Idle EXCEPT !.row = row].row = row
BY BlankFields

\* Look the identifier up, then write.
LEMMA CheckedMoves ==
    ASSUME RequestInv, WorkInv, MemInv, NEW q \in DOMAIN at, NEW op \in MemoryOps,
           NEW kind \in MemoryKinds \ {"connector"}, NEW row, CreateChecked(q, op, kind, row),
           q.op = op => DOMAIN row = DOMAIN Blank /\ row.project = Context(q).project
    PROVE  at[q].pc \in Handling /\ MemoryMove(q)
<1>1. q.op \in MemoryOps /\ DOMAIN row = DOMAIN Blank /\ row.project = Context(q).project
  BY DEF CreateChecked, Steps
<1>2. CASE /\ at[q].pc = "handle"
           /\ (\E status : Refused(q, status)) \/ Holds(q, "write", [Idle EXCEPT !.row = row])
  <2>1. CASE \E status : Refused(q, status)
    BY <1>2, <2>1, RefusedMoves DEF Handling
  <2>2. CASE Holds(q, "write", [Idle EXCEPT !.row = row])
    <3>. DEFINE held == [Idle EXCEPT !.row = row]
    <3>1. DOMAIN held = DOMAIN Idle /\ held.row = row  BY IdleWith
    <3>2. Holds(q, "write", held)  BY <2>2
    <3>. HIDE DEF held
    <3>3. HoldsOwn(q, held)  BY <1>1, <3>1 DEF HoldsOwn
    <3>. QED  BY <1>2, <3>1, <3>2, <3>3, HoldsMoves DEF Handling
  <2>. QED  BY <1>2, <2>1, <2>2
<1>3. CASE at[q].pc = "write" /\ Saves(q, kind, q.id, work[q].row, 500, Answers(q, 201))
  <2>1. IsRow(kind, work[q].row) /\ work[q].row.project = Context(q).project
    BY <1>1, <1>3 DEF WorkInv, WorkOK, HoldsOwn, HeldAt, IsRow
  <2>2. at[q].pc \in Handling  BY <1>3 DEF Handling
  <2>. QED  BY <1>3, <2>1, <2>2, SavedMoves
<1>. QED  BY <1>2, <1>3 DEF CreateChecked, Steps, At

\* Write at once.
LEMMA GuardedMoves ==
    ASSUME RequestInv, WorkInv, MemInv, NEW q \in DOMAIN at, NEW op \in MemoryOps, NEW kind \in MemoryKinds,
           NEW role, NEW refused, CreateGuarded(q, op, kind, role, refused),
           kind = "connector" => op = "createIngestionConnector"
    PROVE  at[q].pc \in Handling /\ MemoryMove(q)
<1>1. q.op = op /\ at[q].pc = "handle"
  BY DEF CreateGuarded, Steps, At
<1>2. IsRow(kind, Built(q)) /\ Built(q).project = Context(q).project
  BY <1>1, BuiltIsOwn DEF IsRow
<1>3. at[q].pc \in Handling  BY <1>1 DEF Handling
<1>4. CASE \E status : Refused(q, status)
  BY <1>3, <1>4, RefusedMoves
<1>5. CASE Saves(q, kind, q.id, Built(q), refused, Answers(q, 201))
  BY <1>2, <1>3, <1>5, SavedMoves
<1>. QED  BY <1>4, <1>5 DEF CreateGuarded

\* The handlers that create memory rows move so,
LEMMA CreateMemoryMoves ==
    ASSUME RequestInv, WorkInv, MemInv, NEW q \in DOMAIN at, CreateMemory(q)
    PROVE  at[q].pc \in Handling /\ MemoryMove(q)
<1>1. CASE CreateSubgraph(q)
  <2>1. q.op = "createMemorySubgraph" =>
            DOMAIN Draft(Built(q)) = DOMAIN Blank /\ Draft(Built(q)).project = Context(q).project
    BY BuiltIsOwn, DraftIsOwn DEF MemoryOps
  <2>. QED  BY <1>1, <2>1, CheckedMoves, Zenon DEF CreateSubgraph, MemoryOps, MemoryKinds
<1>2. CASE \/ CreateSource(q) \/ CreateEvidence(q) \/ CreateEntity(q) \/ CreateClaim(q) \/ CreateEvent(q)
           \/ CreateRelationship(q) \/ CreateContract(q)
  <2>1. q.op \in MemoryOps => DOMAIN Built(q) = DOMAIN Blank /\ Built(q).project = Context(q).project
    BY BuiltIsOwn
  <2>2. \E op \in MemoryOps, kind \in MemoryKinds \ {"connector"} : CreateChecked(q, op, kind, Built(q))
    BY <1>2 DEF CreateSource, CreateEvidence, CreateEntity, CreateClaim, CreateEvent, CreateRelationship,
                CreateContract, MemoryOps, MemoryKinds
  <2>. QED  BY <2>1, <2>2, CheckedMoves, Zenon
<1>3. CASE \/ CreateSubgraphMember(q) \/ CreateCanonicalEntity(q) \/ CreateEntityResolution(q)
           \/ CreateSummaryTrace(q) \/ CreateEntityGraphAttachment(q) \/ CreateSubgraphEdge(q)
           \/ CreateConnector(q)
  <2>1. \E op \in MemoryOps, kind \in MemoryKinds, role \in {MemoryWriteRole, IngestionWriteRole},
           refused \in {404, 500} :
            CreateGuarded(q, op, kind, role, refused) /\ (kind = "connector" => op = "createIngestionConnector")
    BY <1>3 DEF CreateSubgraphMember, CreateCanonicalEntity, CreateEntityResolution, CreateSummaryTrace,
                CreateEntityGraphAttachment, CreateSubgraphEdge, CreateConnector, MemoryOps, MemoryKinds
  <2>. QED  BY <2>1, GuardedMoves, Zenon
<1>. QED  BY <1>1, <1>2, <1>3 DEF CreateMemory
\* The handler writes the record it holds and answers.
LEMMA HeldSavedMoves ==
    ASSUME RequestInv, WorkInv, MemInv, NEW q \in DOMAIN at, q.op \in MemoryOps, at[q].pc = "write",
           NEW kind \in MemoryKinds \ {"connector"}, NEW refused, NEW status,
           Saves(q, kind, q.id, work[q].row, refused, Answers(q, status))
    PROVE  at[q].pc \in Handling /\ MemoryMove(q)
<1>1. IsRow(kind, work[q].row) /\ work[q].row.project = Context(q).project
  BY DEF WorkInv, WorkOK, HoldsOwn, HeldAt, IsRow
<1>2. at[q].pc \in Handling  BY DEF Handling
<1>. QED  BY <1>1, <1>2, SavedMoves

\* The handler goes on with a record of its project.
LEMMA HoldsRowMoves ==
    ASSUME RequestInv, WorkInv, NEW q \in DOMAIN at, NEW row, Holds(q, "write", [Idle EXCEPT !.row = row]),
           DOMAIN row = DOMAIN Blank, row.project = Context(q).project
    PROVE  MemoryMove(q)
<1>. DEFINE held == [Idle EXCEPT !.row = row]
<1>1. DOMAIN held = DOMAIN Idle /\ held.row = row  BY IdleWith
<1>2. Holds(q, "write", held)  OBVIOUS
<1>. HIDE DEF held
<1>3. HoldsOwn(q, held)  BY <1>1 DEF HoldsOwn
<1>. QED  BY <1>1, <1>2, <1>3, HoldsMoves

\* the one that activates a subgraph does,
LEMMA ActivateMoves ==
    ASSUME RequestInv, WorkInv, MemInv, NEW q \in DOMAIN at, Activate(q)
    PROVE  at[q].pc \in Handling /\ MemoryMove(q)
<1>1. q.op = "activateMemorySubgraph" /\ q.op \in MemoryOps /\ at[q].pc \in {"handle", "find", "write"}
  BY DEF Activate, Steps, At, MemoryOps
<1>2. at[q].pc \in Handling  BY <1>1 DEF Handling
<1>3. CASE \E status : Refused(q, status)
  BY <1>2, <1>3, RefusedMoves
<1>4. CASE \E rivals : Holds(q, "find", [Idle EXCEPT !.rivals = rivals])
  <2>1. PICK rivals : Holds(q, "find", [Idle EXCEPT !.rivals = rivals])  BY <1>4, Zenon
  <2>2. DOMAIN [Idle EXCEPT !.rivals = rivals] = DOMAIN Idle  BY BlankFields
  <2>. QED  BY <1>2, <2>1, <2>2, HoldsMoves DEF HeldAt
<1>5. CASE /\ Stored("subgraph", q.id) /\ InScope(q, mem["subgraph"][q.id])
           /\ Holds(q, "write", [Idle EXCEPT !.row = ActivateSubgraph(mem["subgraph"][q.id], q.row)])
  <2>1. DOMAIN mem["subgraph"][q.id] = {"project", "status", "refs", "evidence", "claims", "preferred", "says"}
    BY <1>5, BlankFields DEF MemInv, IsRow, Stored, MemoryKinds
  <2>. DEFINE row == ActivateSubgraph(mem["subgraph"][q.id], q.row)
  <2>2. DOMAIN row = DOMAIN Blank /\ row.project = Context(q).project
    BY <1>5, <2>1, BlankFields DEF ActivateSubgraph, InScope
  <2>. HIDE DEF row
  <2>3. Holds(q, "write", [Idle EXCEPT !.row = row])  BY <1>5 DEF row
  <2>. QED  BY <1>2, <2>2, <2>3, HoldsRowMoves
<1>6. CASE at[q].pc = "write" /\ Saves(q, "subgraph", q.id, work[q].row, 500, Answers(q, 200))
  BY <1>1, <1>6, HeldSavedMoves, ZenonT(30) DEF MemoryKinds
<1>. QED  BY <1>3, <1>4, <1>5, <1>6, Zenon DEF Activate, Steps, At

\* A review reads a record of its project and goes on with the record changed.
LEMMA ReviewFindsMoves ==
    ASSUME RequestInv, WorkInv, MemInv, NEW q \in DOMAIN at, NEW ops \in SUBSET MemoryOps, NEW kind, NEW role,
           NEW reviewed, ReviewFinds(q, ops, kind, role, reviewed),
           Stored(kind, q.id) => DOMAIN reviewed = DOMAIN Blank /\ reviewed.project = mem[kind][q.id].project
    PROVE  at[q].pc \in Handling /\ MemoryMove(q)
<1>1. at[q].pc \in Handling  BY DEF ReviewFinds, Steps, At, Handling
<1>2. CASE \E status : Refused(q, status)
  BY <1>1, <1>2, RefusedMoves
<1>3. CASE /\ Stored(kind, q.id) /\ InScope(q, mem[kind][q.id])
           /\ Holds(q, "write", [Idle EXCEPT !.row = reviewed])
  BY <1>1, <1>3, HoldsRowMoves DEF InScope
<1>. QED  BY <1>2, <1>3 DEF ReviewFinds

\* The record with its new status is a row of the same project.
LEMMA ReviewedIsOwn ==
    ASSUME MemInv, NEW kind \in MemoryKinds, NEW id \in DOMAIN mem[kind]
    PROVE  /\ \A to : /\ DOMAIN [mem[kind][id] EXCEPT !.status = to] = DOMAIN Blank
                      /\ [mem[kind][id] EXCEPT !.status = to].project = mem[kind][id].project
           /\ \A preferred : /\ DOMAIN WithResolution(mem[kind][id], preferred) = DOMAIN Blank
                             /\ WithResolution(mem[kind][id], preferred).project = mem[kind][id].project
           /\ DOMAIN Dismissed(mem[kind][id]) = DOMAIN Blank
           /\ Dismissed(mem[kind][id]).project = mem[kind][id].project
<1>1. DOMAIN mem[kind][id] = {"project", "status", "refs", "evidence", "claims", "preferred", "says"}
  BY BlankFields DEF MemInv, IsRow
<1>. QED  BY <1>1, BlankFields DEF WithResolution, Dismissed

\* and so do the two that review a resolution or a conflict.
LEMMA ReviewMoves ==
    ASSUME RequestInv, WorkInv, MemInv, NEW q \in DOMAIN at, ReviewEntityResolution(q) \/ ReviewClaimConflict(q)
    PROVE  at[q].pc \in Handling /\ MemoryMove(q)
<1>1. CASE ReviewEntityResolution(q)
  <2>. DEFINE ops == {"confirmEntityResolution", "rejectEntityResolution"}
              to  == IF q.op = "confirmEntityResolution" THEN "confirmed" ELSE "rejected"
              reviewed == [mem["resolution"][q.id] EXCEPT !.status = to]
  <2>1. ops \in SUBSET MemoryOps /\ "resolution" \in MemoryKinds \ {"connector"}
    BY DEF MemoryOps, MemoryKinds
  <2>2. \/ ReviewFinds(q, ops, "resolution", MemoryWriteRole, reviewed)
        \/ /\ Steps(q, "write", ops)
           /\ Saves(q, "resolution", q.id, work[q].row, 500, Answers(q, 200))
    BY <1>1, Zenon DEF ReviewEntityResolution
  <2>3. Stored("resolution", q.id) =>
            DOMAIN reviewed = DOMAIN Blank /\ reviewed.project = mem["resolution"][q.id].project
    <3>1. "resolution" \in MemoryKinds  BY <2>1
    <3>2. SUFFICES ASSUME q.id \in DOMAIN mem["resolution"]
          PROVE  DOMAIN reviewed = DOMAIN Blank /\ reviewed.project = mem["resolution"][q.id].project
      BY Zenon DEF Stored
    <3>. QED  BY <3>1, <3>2, ReviewedIsOwn
  <2>. HIDE DEF ops, to, reviewed
  <2>4. CASE ReviewFinds(q, ops, "resolution", MemoryWriteRole, reviewed)
    BY <2>1, <2>3, <2>4, ReviewFindsMoves, Zenon
  <2>5. CASE Steps(q, "write", ops) /\ Saves(q, "resolution", q.id, work[q].row, 500, Answers(q, 200))
    <3>1. q.op \in MemoryOps /\ at[q].pc = "write"  BY <2>1, <2>5 DEF Steps, At
    <3>. QED  BY <2>1, <2>5, <3>1, HeldSavedMoves, Zenon
  <2>. QED  BY <2>2, <2>4, <2>5
<1>2. CASE ReviewClaimConflict(q)
  <2>. DEFINE ops == {"resolveClaimConflict", "dismissClaimConflict"}
              reviewed == IF q.op = "resolveClaimConflict"
                          THEN WithResolution(mem["conflict"][q.id], q.row.preferred)
                          ELSE Dismissed(mem["conflict"][q.id])
  <2>1. ops \in SUBSET MemoryOps /\ "conflict" \in MemoryKinds \ {"connector"}
    BY DEF MemoryOps, MemoryKinds
  <2>2. \/ ReviewFinds(q, ops, "conflict", MemoryWriteRole, reviewed)
        \/ /\ Steps(q, "write", ops)
           /\ Saves(q, "conflict", q.id, work[q].row, 500, Answers(q, 200))
    BY <1>2, Zenon DEF ReviewClaimConflict
  <2>3. Stored("conflict", q.id) =>
            DOMAIN reviewed = DOMAIN Blank /\ reviewed.project = mem["conflict"][q.id].project
    <3>1. "conflict" \in MemoryKinds  BY <2>1
    <3>2. SUFFICES ASSUME q.id \in DOMAIN mem["conflict"]
          PROVE  DOMAIN reviewed = DOMAIN Blank /\ reviewed.project = mem["conflict"][q.id].project
      BY Zenon DEF Stored
    <3>3. CASE q.op = "resolveClaimConflict"  BY <3>1, <3>2, <3>3, ReviewedIsOwn
    <3>4. CASE q.op # "resolveClaimConflict"  BY <3>1, <3>2, <3>4, ReviewedIsOwn
    <3>. QED  BY <3>3, <3>4
  <2>. HIDE DEF ops, reviewed
  <2>4. CASE ReviewFinds(q, ops, "conflict", MemoryWriteRole, reviewed)
    BY <2>1, <2>3, <2>4, ReviewFindsMoves, Zenon
  <2>5. CASE Steps(q, "write", ops) /\ Saves(q, "conflict", q.id, work[q].row, 500, Answers(q, 200))
    <3>1. q.op \in MemoryOps /\ at[q].pc = "write"  BY <2>1, <2>5 DEF Steps, At
    <3>. QED  BY <2>1, <2>5, <3>1, HeldSavedMoves, Zenon
  <2>. QED  BY <2>2, <2>4, <2>5
<1>. QED  BY <1>1, <1>2
\* A review that makes the claim active goes on to look for conflicts, and
\* still holds the claim.
LEMMA ReviewClaimMoves ==
    ASSUME RequestInv, WorkInv, MemInv, NEW q \in DOMAIN at, ReviewClaim(q)
    PROVE  at[q].pc \in Handling /\ MemoryMove(q)
<1>. DEFINE ops == {"approveIngestionReviewClaim", "rejectIngestionReviewClaim"}
            to  == IF q.op = "approveIngestionReviewClaim" THEN "active" ELSE "rejected"
            reviewed == [mem["claim"][q.id] EXCEPT !.status = to]
<1>1. ops \in SUBSET MemoryOps /\ "claim" \in MemoryKinds \ {"connector"}
  BY DEF MemoryOps, MemoryKinds
<1>2. \/ ReviewFinds(q, ops, "claim", IngestionWriteRole, reviewed)
      \/ /\ Steps(q, "write", ops)
         /\ \/ Saves(q, "claim", q.id, work[q].row, 500, Answers(q, 200))
            \/ Saves(q, "claim", q.id, work[q].row, 500, Proceed(q, "list") /\ UNCHANGED work)
  <2>1. CASE q.op = "approveIngestionReviewClaim"
    BY <2>1, Zenon DEF ReviewClaim, Saves
  <2>2. CASE q.op # "approveIngestionReviewClaim"
    <3>1. "active" # "rejected"  OBVIOUS
    <3>. QED  BY <2>2, <3>1, Zenon DEF ReviewClaim, Saves
  <2>. QED  BY <2>1, <2>2
<1>3. Stored("claim", q.id) => DOMAIN reviewed = DOMAIN Blank /\ reviewed.project = mem["claim"][q.id].project
  <2>1. SUFFICES ASSUME q.id \in DOMAIN mem["claim"]
        PROVE  DOMAIN reviewed = DOMAIN Blank /\ reviewed.project = mem["claim"][q.id].project
    BY Zenon DEF Stored
  <2>2. "claim" \in MemoryKinds  BY <1>1
  <2>. QED  BY <2>1, <2>2, ReviewedIsOwn
<1>. HIDE DEF ops, to, reviewed
<1>4. CASE ReviewFinds(q, ops, "claim", IngestionWriteRole, reviewed)
  BY <1>1, <1>3, <1>4, ReviewFindsMoves, Zenon
<1>5. CASE Steps(q, "write", ops) /\ Saves(q, "claim", q.id, work[q].row, 500, Answers(q, 200))
  <2>1. q.op \in MemoryOps /\ at[q].pc = "write"  BY <1>1, <1>5 DEF Steps, At
  <2>. QED  BY <1>1, <1>5, <2>1, HeldSavedMoves, Zenon
<1>6. CASE /\ Steps(q, "write", ops)
           /\ Saves(q, "claim", q.id, work[q].row, 500, Proceed(q, "list") /\ UNCHANGED work)
  <2>1. q.op \in MemoryOps /\ at[q].pc = "write"  BY <1>1, <1>6 DEF Steps, At
  <2>2. at[q].pc \in Handling  BY <2>1 DEF Handling
  <2>3. CASE Refused(q, 500)
    BY <2>2, <2>3, RefusedMoves
  <2>4. CASE mem' \in Upsert("claim", q.id, work[q].row) /\ Proceed(q, "list") /\ UNCHANGED work
    <3>1. DOMAIN work[q] = DOMAIN Idle /\ HoldsOwn(q, work[q])
      BY <2>1 DEF WorkInv, WorkOK, HeldAt
    <3>2. MovesTo(q, "list")
      BY <2>4, HandlersMove, Zenon
    <3>3. WorkOK(q)' /\ at'[q] # at[q]
      BY <2>1, <2>4, <3>1, <3>2 DEF WorkOK, MovesTo, Alone, HoldsOwn, Context
    <3>4. IsRow("claim", work[q].row) /\ work[q].row.project = Context(q).project
      BY <3>1 DEF HoldsOwn, IsRow
    <3>5. Upserts("claim", q.id, work[q].row)
      BY <1>1, <2>4, UpsertsAreScoped
    <3>. QED  BY <1>1, <2>2, <2>4, <3>2, <3>3, <3>4, <3>5 DEF MemoryMove
  <2>. QED  BY <1>6, <2>3, <2>4 DEF Saves
<1>. QED  BY <1>2, <1>4, <1>5, <1>6

\* The handler changes one of the lists it holds.
LEMMA HeldWith ==
    ASSUME NEW held, DOMAIN held = DOMAIN Idle, NEW x
    PROVE  /\ DOMAIN [held EXCEPT !.rivals = x] = DOMAIN Idle /\ [held EXCEPT !.rivals = x].row = held.row
           /\ [held EXCEPT !.rivals = x].rivals = x /\ [held EXCEPT !.rivals = x].plan = held.plan
           /\ DOMAIN [held EXCEPT !.canonical = x] = DOMAIN Idle /\ [held EXCEPT !.canonical = x].row = held.row
           /\ DOMAIN [held EXCEPT !.plan = x] = DOMAIN Idle /\ [held EXCEPT !.plan = x].row = held.row
           /\ [held EXCEPT !.plan = x].plan = x /\ [held EXCEPT !.plan = x].rivals = held.rivals
BY BlankFields

\* An upsert in the middle of a handler: the handler stays, with less left to do.
LEMMA StaysMoves ==
    ASSUME RequestInv, WorkInv, MemInv, NEW q \in DOMAIN at, NEW kind \in MemoryKinds, NEW id, NEW row, NEW refused,
           NEW held, IsRow(kind, row), row.project = Context(q).project,
           DOMAIN held = DOMAIN Idle, held # work[q],
           at[q].pc \in HeldAt /\ q.op \in MemoryOps => HoldsOwn(q, held),
           at[q].pc = "persist" => HoldsRun(q, held),
           Saves(q, kind, id, row, refused, work' = [work EXCEPT ![q] = held] /\ UNCHANGED at)
    PROVE  MemoryMove(q)
<1>1. CASE Refused(q, refused)
  BY <1>1, RefusedMoves
<1>2. CASE mem' \in Upsert(kind, id, row) /\ work' = [work EXCEPT ![q] = held] /\ UNCHANGED at
  <2>1. work'[q] = held /\ DOMAIN work' = DOMAIN work /\ \A o \in DOMAIN at : o # q => work'[o] = work[o]
    BY <1>2 DEF WorkInv
  <2>2. WorkOK(q)'
    BY <1>2, <2>1 DEF WorkOK, HoldsRun, HoldsOwn, Context
  <2>3. Upserts(kind, id, row)
    BY <1>2, UpsertsAreScoped
  <2>. QED  BY <1>2, <2>1, <2>2, <2>3 DEF MemoryMove
<1>. QED  BY <1>1, <1>2 DEF Saves

\* So it does in a run, which goes on with what it holds.
LEMMA RunStaysMoves ==
    ASSUME RequestInv, WorkInv, MemInv, NEW q \in DOMAIN at, at[q].pc = "persist",
           NEW kind \in MemoryKinds, NEW id, NEW row, NEW held, IsRow(kind, row), row.project = Context(q).project,
           DOMAIN held = DOMAIN Idle, held # work[q], HoldsRun(q, held),
           Saves(q, kind, id, row, 500, work' = [work EXCEPT ![q] = held] /\ UNCHANGED at)
    PROVE  MemoryMove(q)
<1>1. at[q].pc \notin HeldAt  BY DEF HeldAt
<1>. QED  BY <1>1, StaysMoves

\* The conflict a review files is a row of the claim's project.
LEMMA ConflictIsOwn ==
    ASSUME NEW claim, NEW ids, NEW canonical
    PROVE  DOMAIN Conflict(claim, ids, canonical) = DOMAIN Blank /\ Conflict(claim, ids, canonical).project = claim.project
BY DEF Conflict, Blank

\* Looking for conflicts, the handler keeps the claim it reviewed.
LEMMA DetectMoves ==
    ASSUME RequestInv, WorkInv, MemInv, NEW q \in DOMAIN at, DetectClaimConflicts(q)
    PROVE  at[q].pc \in Handling /\ MemoryMove(q)
<1>1. q.op \in MemoryOps /\ at[q].pc \in {"list", "canonical", "file"}
  BY DEF DetectClaimConflicts, Steps, At, MemoryOps
<1>2. at[q].pc \in Handling /\ at[q].pc \in HeldAt /\ at[q].pc # "persist"  BY <1>1 DEF Handling, HeldAt
<1>3. DOMAIN work[q] = DOMAIN Idle /\ HoldsOwn(q, work[q])
  BY <1>1, <1>2 DEF WorkInv, WorkOK
<1>4. CASE \E x : Holds(q, "canonical", [work[q] EXCEPT !.rivals = x])
  <2>1. PICK x : Holds(q, "canonical", [work[q] EXCEPT !.rivals = x])  BY <1>4, Zenon
  <2>2. HoldsOwn(q, [work[q] EXCEPT !.rivals = x])  BY <1>3, HeldWith DEF HoldsOwn
  <2>. QED  BY <1>2, <1>3, <2>1, <2>2, HeldWith, HoldsMoves
<1>5. CASE \E c : Holds(q, "file", [work[q] EXCEPT !.canonical = c])
  <2>1. PICK c : Holds(q, "file", [work[q] EXCEPT !.canonical = c])  BY <1>5, Zenon
  <2>2. HoldsOwn(q, [work[q] EXCEPT !.canonical = c])  BY <1>3, HeldWith DEF HoldsOwn
  <2>. QED  BY <1>2, <1>3, <2>1, <2>2, HeldWith, HoldsMoves
<1>6. CASE Answers(q, 200) /\ UNCHANGED mem
  <2>1. Refused(q, 200)  BY <1>6 DEF Answers, Refused
  <2>. QED  BY <1>2, <2>1, RefusedMoves
<1>7. CASE \E r \in work[q].rivals :
               Saves(q, "conflict", ConflictId(work[q].row, {r, q.id}),
                     Conflict(work[q].row, {r, q.id}, work[q].canonical), 500,
                     work' = [work EXCEPT ![q].rivals = @ \ {r}] /\ UNCHANGED at)
  <2>1. PICK r \in work[q].rivals :
               Saves(q, "conflict", ConflictId(work[q].row, {r, q.id}),
                     Conflict(work[q].row, {r, q.id}, work[q].canonical), 500,
                     work' = [work EXCEPT ![q].rivals = @ \ {r}] /\ UNCHANGED at)
    BY <1>7, Zenon
  <2>. DEFINE held == [work[q] EXCEPT !.rivals = work[q].rivals \ {r}]
              row == Conflict(work[q].row, {r, q.id}, work[q].canonical)
              id  == ConflictId(work[q].row, {r, q.id})
  <2>2. Saves(q, "conflict", id, row, 500, work' = [work EXCEPT ![q] = held] /\ UNCHANGED at)
    <3>1. work' = [work EXCEPT ![q].rivals = @ \ {r}] => work' = [work EXCEPT ![q] = held]
      OBVIOUS
    <3>. QED  BY <2>1, <3>1 DEF Saves
  <2>3. IsRow("conflict", row) /\ row.project = Context(q).project
    BY <1>3, ConflictIsOwn DEF HoldsOwn, IsRow
  <2>4. DOMAIN held = DOMAIN Idle /\ held.row = work[q].row /\ held.rivals = work[q].rivals \ {r}
    BY <1>3, HeldWith
  <2>5. held # work[q]  BY <2>1, <2>4, Zenon
  <2>6. HoldsOwn(q, held)  BY <1>3, <2>4 DEF HoldsOwn
  <2>7. "conflict" \in MemoryKinds  BY DEF MemoryKinds
  <2>. HIDE DEF held, row, id
  <2>. QED  BY <1>2, <2>2, <2>3, <2>4, <2>5, <2>6, <2>7, StaysMoves, Zenon
<1>. QED  BY <1>4, <1>5, <1>6, <1>7, Zenon DEF DetectClaimConflicts
-----------------------------------------------------------------------------
(***************************************************************************)
(* Ingestion: every upsert of a plan is in the connector's project.        *)
(***************************************************************************)

\* Two plans for one project make one plan for it.
LEMMA PlanJoins ==
    ASSUME NEW project, NEW s, PlanOK(s, project), NEW t, PlanOK(t, project)
    PROVE  PlanOK(s \o t, project)
<1>1. PICK S : s \in Seq(S) /\ \A e \in S : PlanItem(e, project)  BY DEF PlanOK
<1>2. PICK T : t \in Seq(T) /\ \A e \in T : PlanItem(e, project)  BY DEF PlanOK
<1>3. s \in Seq(S \cup T) /\ t \in Seq(S \cup T)
  BY <1>1, <1>2
<1>4. s \o t \in Seq(S \cup T)
  BY <1>3
<1>. QED  BY <1>1, <1>2, <1>4 DEF PlanOK

\* One item, or what is left after the first.
LEMMA PlanParts ==
    ASSUME NEW project
    PROVE  /\ \A e : PlanItem(e, project) => PlanOK(<<e>>, project)
           /\ PlanOK(<<>>, project)
           /\ \A s : PlanOK(s, project) /\ s # <<>> =>
                  PlanItem(Head(s), project) /\ PlanOK(Tail(s), project) /\ Tail(s) # s
<1>0. ASSUME NEW S, NEW s \in Seq(S), \A x \in S : PlanItem(x, project)  PROVE PlanOK(s, project)
  BY <1>0 DEF PlanOK
<1>1. ASSUME NEW e, PlanItem(e, project)  PROVE PlanOK(<<e>>, project)
  <2>1. PICK S : S = {e}  BY Zenon
  <2>2. <<e>> \in Seq(S) /\ \A x \in S : PlanItem(x, project)  BY <1>1, <2>1
  <2>. QED  BY <1>0, <2>2, Zenon
<1>2. PlanOK(<<>>, project)
  <2>1. PICK S : S = {}  BY Zenon
  <2>2. <<>> \in Seq(S) /\ \A x \in S : PlanItem(x, project)  BY <2>1
  <2>. QED  BY <1>0, <2>2, Zenon
<1>3. ASSUME NEW s, PlanOK(s, project), s # <<>>
      PROVE  PlanItem(Head(s), project) /\ PlanOK(Tail(s), project) /\ Tail(s) # s
  <2>1. PICK S : s \in Seq(S) /\ \A e \in S : PlanItem(e, project)  BY <1>3 DEF PlanOK
  <2>2. PICK t : t = Tail(s)  BY Zenon
  <2>3. Head(s) \in S /\ t \in Seq(S) /\ Len(t) = Len(s) - 1 /\ Len(s) \in Nat
    BY <1>3, <2>1, <2>2
  <2>4. t # s  BY <2>3
  <2>. QED  BY <2>1, <2>2, <2>3, <2>4, Zenon DEF PlanOK
<1>. QED  BY <1>1, <1>2, <1>3

\* A row made from a blank one of the project.
LEMMA BlankOf ==
    ASSUME NEW project, NEW blank, blank = [Blank EXCEPT !.project = project]
    PROVE  /\ DOMAIN blank = DOMAIN Blank /\ blank.project = project
           /\ \A x : /\ DOMAIN [blank EXCEPT !.refs = x] = DOMAIN Blank
                     /\ [blank EXCEPT !.refs = x].project = project
                     /\ DOMAIN [blank EXCEPT !.says = x] = DOMAIN Blank
                     /\ [blank EXCEPT !.says = x].project = project
           /\ \A x, y, z :
                 /\ DOMAIN [blank EXCEPT !.status = "candidate", !.refs = x, !.evidence = y, !.says = z] = DOMAIN Blank
                 /\ [blank EXCEPT !.status = "candidate", !.refs = x, !.evidence = y, !.says = z].project = project
<1>1. DOMAIN blank = {"project", "status", "refs", "evidence", "claims", "preferred", "says"} /\ blank.project = project
  BY Zenon DEF Blank
<1>. QED  BY <1>1, BlankFields

\* A row of a run's memory, in a project.
PieceFor(e, project) == e.kind \in Counted /\ DOMAIN e.row = DOMAIN Blank /\ e.row.project = project

PiecesFor(s, project) == \E S : s \in Seq(S) /\ \A e \in S : PieceFor(e, project)

Has(s, kind, run, n) == \E i \in DOMAIN s : s[i].kind = kind /\ s[i].id = <<kind, run, n>>

\* What the run of a connector counts.
Count(connector) ==
    [source |-> 1, evidence |-> connector.says.chunks, entity |-> Len(ExtractEntities(connector.says)),
     claim |-> Len(connector.says.facts)]

\* What two sequences in a row are.
LEMMA JoinIs ==
    ASSUME NEW S, NEW s \in Seq(S), NEW t \in Seq(S), NEW p, p = s \o t
    PROVE  /\ p \in Seq(S) /\ Len(p) = Len(s) + Len(t) /\ Len(s) \in Nat /\ Len(t) \in Nat
           /\ \A i \in 1..Len(s) : p[i] = s[i]
           /\ \A i \in 1..Len(t) : p[Len(s) + i] = t[i]
<1>1. Len(s) \in Nat /\ Len(t) \in Nat  OBVIOUS
<1>2. p \in Seq(S) /\ Len(p) = Len(s) + Len(t)  OBVIOUS
<1>3. ASSUME NEW i \in 1..Len(s)  PROVE p[i] = s[i]  BY <1>1
<1>4. ASSUME NEW i \in 1..Len(t)  PROVE p[Len(s) + i] = t[i]  BY <1>1
<1>. QED  BY <1>1, <1>2, <1>3, <1>4

\* A sequence of numbered pieces of one kind.
LEMMA NumberedPieces ==
    ASSUME NEW project, NEW run, NEW kind \in Counted, NEW n \in Nat, NEW s, s = [i \in 1..n |-> s[i]],
           \A i \in 1..n : \E row : /\ s[i] = Piece(kind, run, i, row)
                                  /\ DOMAIN row = DOMAIN Blank /\ row.project = project
    PROVE  PiecesFor(s, project) /\ \A i \in 1..n : Has(s, kind, run, i)
<1>1. ASSUME NEW i \in 1..n
      PROVE  PieceFor(s[i], project) /\ s[i].kind = kind /\ s[i].id = <<kind, run, i>>
  <2>1. PICK row : s[i] = Piece(kind, run, i, row) /\ DOMAIN row = DOMAIN Blank /\ row.project = project
    OBVIOUS
  <2>. QED  BY <2>1 DEF PieceFor, Piece
<1>2. PICK S : S = {s[i] : i \in 1..n}  BY Zenon
<1>3. s \in Seq(S)  BY <1>2
<1>4. \A e \in S : PieceFor(e, project)  BY <1>1, <1>2, Zenon
<1>5. DOMAIN s = 1..n  BY Zenon
<1>. QED  BY <1>1, <1>3, <1>4, <1>5, Zenon DEF PiecesFor, Has

\* Two sequences of pieces in a row have the pieces of both.
LEMMA PiecesJoin ==
    ASSUME NEW project, NEW s, NEW t, PiecesFor(s, project), PiecesFor(t, project), NEW p, p = s \o t
    PROVE  /\ PiecesFor(p, project)
           /\ \A kind, run, n : Has(s, kind, run, n) \/ Has(t, kind, run, n) => Has(p, kind, run, n)
<1>1. PICK S : s \in Seq(S) /\ \A e \in S : PieceFor(e, project)  BY DEF PiecesFor
<1>2. PICK T : t \in Seq(T) /\ \A e \in T : PieceFor(e, project)  BY DEF PiecesFor
<1>3. PICK U : U = S \cup T  BY Zenon
<1>4. s \in Seq(U) /\ t \in Seq(U) /\ \A e \in U : PieceFor(e, project)  BY <1>1, <1>2, <1>3
<1>5. /\ p \in Seq(U) /\ Len(p) = Len(s) + Len(t) /\ Len(s) \in Nat /\ Len(t) \in Nat
      /\ \A i \in 1..Len(s) : p[i] = s[i]
      /\ \A i \in 1..Len(t) : p[Len(s) + i] = t[i]
  BY <1>4, JoinIs
<1>6. DOMAIN p = 1..Len(p) /\ DOMAIN s = 1..Len(s) /\ DOMAIN t = 1..Len(t)  BY <1>4, <1>5
<1>7. \A i \in DOMAIN s : i \in DOMAIN p /\ p[i] = s[i]  BY <1>5, <1>6
<1>8. \A i \in DOMAIN t : Len(s) + i \in DOMAIN p /\ p[Len(s) + i] = t[i]  BY <1>5, <1>6
<1>. QED  BY <1>4, <1>5, <1>7, <1>8, Zenon DEF PiecesFor, Has

\* What a run makes of a connector's text: rows of the connector's project, as
\* many of each kind as it counts, and numbered under its name.
LEMMA MadeIs ==
    ASSUME NEW run, NEW connector, Configures(connector)
    PROVE  LET made == RunLocalTextIngestion(run, connector)
           IN /\ PiecesFor(made, connector.project)
              /\ \A kind \in Counted : \A n \in 1..Count(connector)[kind] : Has(made, kind, run, n)
<1>. DEFINE project == connector.project
            blank   == [Blank EXCEPT !.project = connector.project]
            config  == connector.says
            names   == ExtractEntities(config)
            source  == <<Piece("source", run, 1, blank)>>
            chunks  == [i \in 1..config.chunks |-> Piece("evidence", run, i, [blank EXCEPT !.refs = {<<"source", <<"source", run, 1>>>>}])]
            entities == [i \in DOMAIN names |-> Piece("entity", run, i, [blank EXCEPT !.says = <<names[i]>>])]
            claims  == ExtractClaims(run, blank, config.facts)
            made    == ((source \o chunks) \o entities) \o claims
<1>1. PICK b : b = blank  BY Zenon
<1>2. /\ DOMAIN b = DOMAIN Blank /\ b.project = project
      /\ \A x : /\ DOMAIN [b EXCEPT !.refs = x] = DOMAIN Blank /\ [b EXCEPT !.refs = x].project = project
                /\ DOMAIN [b EXCEPT !.says = x] = DOMAIN Blank /\ [b EXCEPT !.says = x].project = project
      /\ \A x, y, z :
            /\ DOMAIN [b EXCEPT !.status = "candidate", !.refs = x, !.evidence = y, !.says = z] = DOMAIN Blank
            /\ [b EXCEPT !.status = "candidate", !.refs = x, !.evidence = y, !.says = z].project = project
  BY <1>1, BlankOf
<1>3. {"source", "evidence", "entity", "claim"} = Counted  BY DEF Counted
<1>4. PiecesFor(source, project) /\ \A n \in 1..1 : Has(source, "source", run, n)
  <2>1. PICK e, s : e = Piece("source", run, 1, b) /\ s = source  BY Zenon
  <2>2. s = [i \in 1..1 |-> s[i]] /\ \A i \in 1..1 : s[i] = e /\ i = 1
    <3>1. s = <<e>>  BY <1>1, <2>1
    <3>. QED  BY <3>1
  <2>3. \A i \in 1..1 : \E row : /\ s[i] = Piece("source", run, i, row)
                                /\ DOMAIN row = DOMAIN Blank /\ row.project = project
    BY <1>2, <2>1, <2>2, Zenon
  <2>4. PiecesFor(s, project) /\ \A n \in 1..1 : Has(s, "source", run, n)
    <3>. HIDE DEF source, project
    <3>. QED  BY <1>3, <2>2, <2>3, NumberedPieces, Zenon
  <2>. QED  BY <2>1, <2>4, Zenon
<1>5. /\ config.chunks \in Nat /\ PiecesFor(chunks, project)
      /\ \A n \in 1..config.chunks : Has(chunks, "evidence", run, n)
  <2>1. config.chunks \in Nat  BY DEF Configures
  <2>2. chunks = [i \in 1..config.chunks |-> chunks[i]]  BY Zenon
  <2>3. \A i \in 1..config.chunks : \E row : /\ chunks[i] = Piece("evidence", run, i, row)
                                           /\ DOMAIN row = DOMAIN Blank /\ row.project = project
    BY <1>1, <1>2, Zenon
  <2>. HIDE DEF chunks
  <2>. QED  BY <1>3, <2>1, <2>2, <2>3, NumberedPieces, Zenon
<1>6. /\ Len(names) \in Nat /\ PiecesFor(entities, project)
      /\ \A n \in 1..Len(names) : Has(entities, "entity", run, n)
  <2>1. names \in Seq(Range(names)) \/ names \in Seq({config.title})
    <3>1. CASE config.topics = <<>>
      <4>1. names = <<config.title>>  BY <3>1 DEF ExtractEntities
      <4>. QED  BY <4>1
    <3>2. CASE config.topics # <<>>
      <4>1. names = config.topics  BY <3>2 DEF ExtractEntities
      <4>. QED  BY <4>1 DEF Configures
    <3>. QED  BY <3>1, <3>2
  <2>2. Len(names) \in Nat /\ DOMAIN names = 1..Len(names)  BY <2>1
  <2>3. DOMAIN entities = DOMAIN names /\ entities = [i \in DOMAIN names |-> entities[i]]  BY Zenon
  <2>4. \A i \in DOMAIN names : \E row : /\ entities[i] = Piece("entity", run, i, row)
                                       /\ DOMAIN row = DOMAIN Blank /\ row.project = project
    BY <1>1, <1>2, Zenon
  <2>. HIDE DEF entities, names
  <2>. QED  BY <1>3, <2>2, <2>3, <2>4, NumberedPieces, Zenon
<1>7. /\ Len(config.facts) \in Nat /\ PiecesFor(claims, project)
      /\ \A n \in 1..Len(config.facts) : Has(claims, "claim", run, n)
  <2>1. PICK facts : facts = config.facts  BY Zenon
  <2>2. facts \in Seq(Range(facts))  BY <2>1 DEF Configures
  <2>3. Len(facts) \in Nat /\ DOMAIN facts = 1..Len(facts)  BY <2>2
  <2>4. claims = [i \in DOMAIN facts |-> claims[i]]
    BY <2>1, Zenon DEF ExtractClaims
  <2>5. \A i \in DOMAIN facts : \E row : /\ claims[i] = Piece("claim", run, i, row)
                                       /\ DOMAIN row = DOMAIN Blank /\ row.project = project
    <3>1. claims = ExtractClaims(run, b, facts)  BY <1>1, <2>1, Zenon
    <3>. HIDE DEF claims, project
    <3>2. ASSUME NEW i \in DOMAIN facts
          PROVE  \E row : claims[i] = Piece("claim", run, i, row) /\ DOMAIN row = DOMAIN Blank /\ row.project = project
      <4>1. PICK row : row = [b EXCEPT !.status = "candidate", !.refs = {<<"entity", <<"entity", run, 1>>>>},
                                       !.evidence = {<<"evidence", run, 1>>}, !.says = facts[i]]
        BY Zenon
      <4>2. claims[i] = Piece("claim", run, i, row)  BY <3>1, <4>1, Zenon DEF ExtractClaims
      <4>3. DOMAIN row = DOMAIN Blank /\ row.project = project  BY <1>2, <4>1
      <4>. QED  BY <4>2, <4>3, Zenon
    <3>. QED  BY <3>2, Zenon
  <2>. HIDE DEF claims
  <2>. QED  BY <1>3, <2>1, <2>3, <2>4, <2>5, NumberedPieces, Zenon
<1>8. RunLocalTextIngestion(run, connector) = made
  BY Zenon DEF RunLocalTextIngestion
<1>9. Count(connector) = [source |-> 1, evidence |-> config.chunks, entity |-> Len(names), claim |-> Len(config.facts)]
  BY DEF Count
<1>. HIDE DEF source, chunks, entities, claims, project, names, config
<1>10. PICK p, r : p = source \o chunks /\ r = p \o entities  BY Zenon
<1>11. PICK m : m = r \o claims /\ m = made  BY <1>10, Zenon
<1>12. /\ PiecesFor(p, project)
       /\ \A kind, x, n : Has(source, kind, x, n) \/ Has(chunks, kind, x, n) => Has(p, kind, x, n)
  BY <1>4, <1>5, <1>10, PiecesJoin, Zenon
<1>13. /\ PiecesFor(r, project)
       /\ \A kind, x, n : Has(p, kind, x, n) \/ Has(entities, kind, x, n) => Has(r, kind, x, n)
  BY <1>6, <1>10, <1>12, PiecesJoin, Zenon
<1>14. /\ PiecesFor(m, project)
       /\ \A kind, x, n : Has(r, kind, x, n) \/ Has(claims, kind, x, n) => Has(m, kind, x, n)
  BY <1>7, <1>11, <1>13, PiecesJoin, Zenon
<1>15. ASSUME NEW kind \in Counted, NEW n \in 1..Count(connector)[kind]  PROVE Has(m, kind, run, n)
  <2>1. CASE kind = "source"
    <3>1. n \in 1..1  BY <1>9, <1>15, <2>1
    <3>. QED  BY <1>4, <1>12, <1>13, <1>14, <2>1, <3>1, Zenon
  <2>2. CASE kind = "evidence"
    <3>1. n \in 1..config.chunks  BY <1>9, <1>15, <2>2
    <3>. QED  BY <1>5, <1>12, <1>13, <1>14, <2>2, <3>1, Zenon
  <2>3. CASE kind = "entity"
    <3>1. n \in 1..Len(names)  BY <1>9, <1>15, <2>3
    <3>. QED  BY <1>6, <1>13, <1>14, <2>3, <3>1, Zenon
  <2>4. CASE kind = "claim"
    <3>1. n \in 1..Len(config.facts)  BY <1>9, <1>15, <2>4
    <3>. QED  BY <1>7, <1>14, <2>4, <3>1, Zenon
  <2>. QED  BY <1>15, <2>1, <2>2, <2>3, <2>4, Zenon DEF Counted
<1>. HIDE DEF made
<1>. QED  BY <1>8, <1>11, <1>14, <1>15, Zenon DEF project

\* Such a plan is one for the connector's project.
LEMMA MadeIsOwn ==
    ASSUME NEW run, NEW connector, Configures(connector)
    PROVE  PlanOK(RunLocalTextIngestion(run, connector), connector.project)
<1>1. PICK S : RunLocalTextIngestion(run, connector) \in Seq(S) /\ \A e \in S : PieceFor(e, connector.project)
  BY MadeIs, Zenon DEF PiecesFor
<1>2. \A e \in S : PlanItem(e, connector.project)
  BY <1>1 DEF PieceFor, PlanItem, Planned, Counted
<1>. QED  BY <1>1, <1>2, Zenon DEF PlanOK

\* The resolutions a run proposes are in its own project.
LEMMA ResolutionsAreOwn ==
    ASSUME NEW q, NEW made, NEW listed
    PROVE  OwnRows(ResolutionCandidates(q, made, listed), Context(q).project)
<1>. DEFINE project  == Context(q).project
            entities == {i \in DOMAIN made : made[i].kind = "entity"}
            matches  == {m \in entities \X listed : made[m[1]].row.says[1] \in Range(mem["canonical"][m[2]].says)}
            Proposal(m) == [Blank EXCEPT !.project = Context(q).project, !.status = "candidate",
                                    !.evidence = Pieces(made, "evidence"),
                                    !.refs = {<<"subgraph", IngestionSubgraphId(Context(q).project)>>,
                                              <<"entity", made[m[1]].id>>, <<"canonical", m[2]>>}]
            Resolution(m) == [id |-> <<"resolution", RunId(q), made[m[1]].id, m[2]>>, row |-> Proposal(m)]
            all == {Resolution(m) : m \in matches}
<1>1. ASSUME NEW m  PROVE DOMAIN Resolution(m).row = DOMAIN Blank /\ Resolution(m).row.project = project
  <2>1. DOMAIN Proposal(m) = DOMAIN Blank /\ Proposal(m).project = project
    BY DEF Blank
  <2>. HIDE DEF Proposal
  <2>. QED  BY <2>1
<1>2. ResolutionCandidates(q, made, listed) = all
  BY Zenon DEF ResolutionCandidates
<1>3. OwnRows(all, project)
  <2>. HIDE DEF matches, Resolution
  <2>. QED  BY <1>1 DEF OwnRows
<1>. HIDE DEF all, project
<1>. QED  BY <1>2, <1>3 DEF project

\* What is left to plan once a run's memory is there.
LEMMA RecordedIsOwn ==
    ASSUME NEW q, NEW connector, NEW listed
    PROVE  LET ensure == [kind |-> "ensure", id |-> IngestionSubgraphId(Context(q).project), row |-> Blank]
           IN PlanOK((IF listed = {} THEN <<>> ELSE <<ensure>>) \o Recorded(q, connector), Context(q).project)
<1>. DEFINE ensure == [kind |-> "ensure", id |-> IngestionSubgraphId(Context(q).project), row |-> Blank]
            first  == IF listed = {} THEN <<>> ELSE <<ensure>>
            item   == [kind |-> "run", id |-> RunId(q), row |-> SucceededRun(q, connector)]
<1>1. DOMAIN SucceededRun(q, connector) = DOMAIN Blank /\ SucceededRun(q, connector).project = Context(q).project
  BY DEF SucceededRun, Blank
<1>2. PlanItem(item, Context(q).project) /\ PlanItem(ensure, Context(q).project)
  BY <1>1 DEF PlanItem, Planned
<1>3. Recorded(q, connector) = <<item>>  BY DEF Recorded
<1>. HIDE DEF item, ensure
<1>4. PlanOK(first, Context(q).project)  BY <1>2, PlanParts
<1>. HIDE DEF first
<1>5. PlanOK(first \o Recorded(q, connector), Context(q).project)
  BY <1>2, <1>3, <1>4, PlanParts, PlanJoins, Zenon
<1>. QED  BY <1>5 DEF first, ensure

\* A connector's run starts with the connector found and a plan in its project.
LEMMA RunConnectorMoves ==
    ASSUME RequestInv, WorkInv, MemInv, NEW q \in DOMAIN at, RunConnector(q)
    PROVE  at[q].pc \in Handling /\ MemoryMove(q)
<1>1. at[q].pc \in Handling  BY DEF RunConnector, Steps, At, Handling
<1>2. CASE \E status : Refused(q, status)
  BY <1>1, <1>2, RefusedMoves
<1>. DEFINE connector == mem["connector"][q.id]
            plan == PersistOutput(q, connector)
            held == [Idle EXCEPT !.row = connector, !.plan = plan]
<1>3. CASE Stored("connector", q.id) /\ InScope(q, connector) /\ Holds(q, "persist", held)
  <2>1. DOMAIN connector = DOMAIN Blank /\ Configures(connector) /\ connector.project = Context(q).project
    BY <1>3 DEF MemInv, IsRow, Stored, MemoryKinds, InScope
  <2>2. PlanOK(plan, Context(q).project)
    <3>. DEFINE item == [kind |-> "candidates", id |-> RunId(q), row |-> Blank]
    <3>1. PlanItem(item, Context(q).project)  BY DEF PlanItem
    <3>. HIDE DEF item
    <3>2. plan = RunLocalTextIngestion(RunId(q), connector) \o <<item>>
      BY Zenon DEF PersistOutput, item
    <3>. HIDE DEF plan, connector
    <3>3. PlanOK(RunLocalTextIngestion(RunId(q), connector), Context(q).project)
      BY <2>1, MadeIsOwn
    <3>. QED  BY <3>1, <3>2, <3>3, PlanParts, PlanJoins, Zenon
  <2>. HIDE DEF plan, connector
  <2>3. DOMAIN held = DOMAIN Idle /\ held.row = connector /\ held.plan = plan /\ held.rivals = {}
    BY DEF Idle
  <2>. HIDE DEF held
  <2>4. Ingests(q)  BY DEF RunConnector, Steps, Ingests
  <2>5. HoldsRun(q, held)  BY <2>1, <2>2, <2>3, <2>4 DEF HoldsRun, HoldsOwn, OwnRows
  <2>. QED  BY <1>1, <1>3, <2>3, <2>5, HoldsMoves DEF HeldAt
<1>. QED  BY <1>2, <1>3, Zenon DEF RunConnector

\* A run goes on with another plan of its project.
LEMMA ReplannedMoves ==
    ASSUME RequestInv, WorkInv, NEW q \in DOMAIN at, at[q].pc = "persist", NEW held, Holds(q, "persist", held),
           DOMAIN held = DOMAIN Idle, held.row = work[q].row, PlanOK(held.plan, Context(q).project),
           OwnRows(held.rivals, Context(q).project)
    PROVE  MemoryMove(q)
<1>1. HoldsRun(q, held)
  BY DEF WorkInv, WorkOK, HoldsRun, HoldsOwn
<1>. QED  BY <1>1, HoldsMoves DEF HeldAt

\* The kinds of statement an ingestion run makes.
LEMMA PersistCases ==
    ASSUME NEW q, Persist(q)
    PROVE  LET next == Head(work[q].plan)
           IN \/ work[q].plan = <<>> /\ RecordOutputs(q) /\ UNCHANGED mem
              \/ work[q].plan # <<>> /\ next.kind = "candidates" /\ ListCanonical(q)
              \/ work[q].plan # <<>> /\ next.kind = "ensure" /\ EnsureIngestionSubgraph(q, next.id)
              \/ work[q].plan # <<>> /\ next.kind = "run" /\ ProposeResolution(q)
              \/ /\ work[q].plan # <<>> /\ next.kind \notin {"candidates", "ensure"}
                 /\ Saves(q, next.kind, next.id, next.row, 500, work' = [work EXCEPT ![q].plan = Tail(@)] /\ UNCHANGED at)
<1>. DEFINE next == Head(work[q].plan)
<1>1. CASE work[q].plan = <<>>  BY <1>1, Zenon DEF Persist
<1>2. CASE work[q].plan # <<>> /\ next.kind = "candidates"
  <2>1. next.kind # "ensure" /\ next.kind # "run"  BY <1>2
  <2>. QED  BY <1>2, <2>1, Zenon DEF Persist
<1>3. CASE work[q].plan # <<>> /\ next.kind = "ensure"
  <2>1. next.kind # "candidates" /\ next.kind # "run"  BY <1>3
  <2>. QED  BY <1>3, <2>1, Zenon DEF Persist
<1>4. CASE work[q].plan # <<>> /\ next.kind = "run" /\ work[q].rivals # {}
  <2>1. next.kind # "candidates" /\ next.kind # "ensure"  BY <1>4
  <2>. QED  BY <1>4, <2>1, Zenon DEF Persist
<1>5. CASE work[q].plan # <<>> /\ next.kind \notin {"candidates", "ensure"} /\ ~(next.kind = "run" /\ work[q].rivals # {})
  <2>1. next.kind # "candidates" /\ next.kind # "ensure"  BY <1>5
  <2>. QED  BY <1>5, <2>1, Zenon DEF Persist
<1>. QED  BY <1>1, <1>2, <1>3, <1>4, <1>5, Zenon

\* Each statement of an ingestion run.
LEMMA PersistMoves ==
    ASSUME RequestInv, WorkInv, MemInv, NEW q \in DOMAIN at, Persist(q)
    PROVE  at[q].pc \in Handling /\ MemoryMove(q)
<1>1. at[q].pc = "persist"  BY DEF Persist, At
<1>2. at[q].pc \in Handling  BY <1>1 DEF Handling
<1>3. /\ DOMAIN work[q] = DOMAIN Idle /\ HoldsRun(q, work[q])
      /\ PlanOK(work[q].plan, Context(q).project) /\ OwnRows(work[q].rivals, Context(q).project)
  BY <1>1 DEF WorkInv, WorkOK, HoldsRun
<1>. DEFINE next == Head(work[q].plan)
            rest == Tail(work[q].plan)
<1>4. CASE work[q].plan = <<>> /\ RecordOutputs(q) /\ UNCHANGED mem
  <2>1. CASE Answers(q, 201)
    <3>1. Refused(q, 201)  BY <1>4, <2>1 DEF Answers, Refused
    <3>. QED  BY <1>2, <3>1, RefusedMoves
  <2>2. CASE UNCHANGED <<at, work>>
    <3>1. WorkOK(q)'
      BY <1>4, <2>2 DEF WorkInv, WorkOK, HoldsRun, HoldsOwn, Context
    <3>. QED  BY <1>2, <1>4, <2>2, <3>1 DEF MemoryMove
  <2>. QED  BY <1>4, <2>1, <2>2, Zenon DEF RecordOutputs
<1>5. CASE ListCanonical(q)
  <2>1. PICK plan, rivals : /\ Holds(q, "persist", [work[q] EXCEPT !.plan = plan, !.rivals = rivals])
                            /\ PlanOK(plan, Context(q).project) /\ OwnRows(rivals, Context(q).project)
    <3>. DEFINE ensure == [kind |-> "ensure", id |-> IngestionSubgraphId(Context(q).project), row |-> Blank]
                made   == RunLocalTextIngestion(RunId(q), work[q].row)
    <3>1. PICK listed : Holds(q, "persist", [work[q] EXCEPT
                            !.plan   = (IF listed = {} THEN <<>> ELSE <<ensure>>) \o Recorded(q, work[q].row),
                            !.rivals = ResolutionCandidates(q, made, listed)])
      BY <1>5, Zenon DEF ListCanonical
    <3>2. PlanOK((IF listed = {} THEN <<>> ELSE <<ensure>>) \o Recorded(q, work[q].row), Context(q).project)
      BY RecordedIsOwn, Zenon
    <3>3. OwnRows(ResolutionCandidates(q, made, listed), Context(q).project)
      BY ResolutionsAreOwn, Zenon
    <3>. QED  BY <3>1, <3>2, <3>3, Zenon
  <2>. DEFINE held == [work[q] EXCEPT !.plan = plan, !.rivals = rivals]
  <2>2. DOMAIN held = DOMAIN Idle /\ held.row = work[q].row /\ held.plan = plan /\ held.rivals = rivals
    BY <1>3, BlankFields
  <2>3. Holds(q, "persist", held)  BY <2>1
  <2>. HIDE DEF held
  <2>. QED  BY <1>1, <1>2, <2>1, <2>2, <2>3, ReplannedMoves
<1>6. ASSUME work[q].plan # <<>>
      PROVE  PlanItem(next, Context(q).project) /\ PlanOK(rest, Context(q).project) /\ rest # work[q].plan
  BY <1>3, <1>6, PlanParts, Zenon
<1>7. CASE work[q].plan # <<>> /\ EnsureIngestionSubgraph(q, next.id)
  <2>. DEFINE blank == [Blank EXCEPT !.project = Context(q).project]
              draft == [kind |-> "subgraph", id |-> next.id, row |-> Draft(blank)]
  <2>1. PlanItem(draft, Context(q).project)
    <3>1. DOMAIN blank = DOMAIN Blank /\ blank.project = Context(q).project  BY BlankOf
    <3>. HIDE DEF blank
    <3>2. DOMAIN Draft(blank) = DOMAIN Blank /\ Draft(blank).project = Context(q).project  BY <3>1, DraftIsOwn
    <3>. QED  BY <3>2 DEF PlanItem, Planned
  <2>. HIDE DEF draft
  <2>2. PlanOK(<<draft>> \o rest, Context(q).project)
    <3>1. PlanOK(<<draft>>, Context(q).project)  BY <2>1, PlanParts
    <3>. QED  BY <1>6, <1>7, <3>1, PlanJoins
  <2>3. PICK plan : plan \in {rest, <<draft>> \o rest} /\ Holds(q, "persist", [work[q] EXCEPT !.plan = plan])
    <3>. DEFINE left == IF Stored("subgraph", next.id) THEN rest ELSE <<draft>> \o rest
    <3>1. Holds(q, "persist", [work[q] EXCEPT !.plan = left])
      BY <1>7 DEF EnsureIngestionSubgraph, draft
    <3>2. left \in {rest, <<draft>> \o rest}  OBVIOUS
    <3>. HIDE DEF left
    <3>. QED  BY <3>1, <3>2, Zenon
  <2>. HIDE DEF rest
  <2>4. PlanOK(plan, Context(q).project)  BY <1>6, <1>7, <2>2, <2>3, Zenon
  <2>. DEFINE held == [work[q] EXCEPT !.plan = plan]
  <2>5. DOMAIN held = DOMAIN Idle /\ held.row = work[q].row /\ held.plan = plan /\ held.rivals = work[q].rivals
    BY <1>3, HeldWith
  <2>6. Holds(q, "persist", held)  BY <2>3
  <2>. HIDE DEF held
  <2>. QED  BY <1>1, <1>2, <1>3, <2>4, <2>5, <2>6, ReplannedMoves, Zenon
<1>8. CASE /\ work[q].plan # <<>> /\ next.kind \notin {"candidates", "ensure"}
           /\ Saves(q, next.kind, next.id, next.row, 500, work' = [work EXCEPT ![q].plan = Tail(@)] /\ UNCHANGED at)
  <2>. DEFINE held == [work[q] EXCEPT !.plan = rest]
  <2>1. Saves(q, next.kind, next.id, next.row, 500, work' = [work EXCEPT ![q] = held] /\ UNCHANGED at)
    <3>1. work' = [work EXCEPT ![q].plan = Tail(@)] => work' = [work EXCEPT ![q] = held]
      OBVIOUS
    <3>. QED  BY <1>8, <3>1, Zenon DEF Saves
  <2>2. next.kind \in MemoryKinds /\ IsRow(next.kind, next.row) /\ next.row.project = Context(q).project
    <3>. HIDE DEF next
    <3>. QED  BY <1>6, <1>8 DEF PlanItem, Planned, MemoryKinds, IsRow
  <2>. HIDE DEF rest, next
  <2>3. DOMAIN held = DOMAIN Idle /\ held.row = work[q].row /\ held.plan = rest /\ held.rivals = work[q].rivals
    BY <1>3, HeldWith
  <2>. HIDE DEF held
  <2>4. HoldsRun(q, held) /\ held # work[q]
    BY <1>3, <1>6, <1>8, <2>3 DEF HoldsRun, HoldsOwn
  <2>5. MemoryMove(q)  BY <1>1, <2>1, <2>2, <2>3, <2>4, RunStaysMoves
  <2>. QED  BY <1>2, <2>5, Zenon
<1>9. CASE ProposeResolution(q)
  <2>1. PICK r \in work[q].rivals :
            Saves(q, "resolution", r.id, r.row, 500, work' = [work EXCEPT ![q].rivals = @ \ {r}] /\ UNCHANGED at)
    BY <1>9, Zenon DEF ProposeResolution
  <2>. DEFINE held == [work[q] EXCEPT !.rivals = work[q].rivals \ {r}]
  <2>2. Saves(q, "resolution", r.id, r.row, 500, work' = [work EXCEPT ![q] = held] /\ UNCHANGED at)
    <3>1. work' = [work EXCEPT ![q].rivals = @ \ {r}] => work' = [work EXCEPT ![q] = held]
      OBVIOUS
    <3>. QED  BY <2>1, <3>1 DEF Saves
  <2>3. "resolution" \in MemoryKinds /\ IsRow("resolution", r.row) /\ r.row.project = Context(q).project
    BY <1>3 DEF OwnRows, IsRow, MemoryKinds
  <2>4. /\ DOMAIN held = DOMAIN Idle /\ held.row = work[q].row /\ held.plan = work[q].plan
        /\ held.rivals = work[q].rivals \ {r}
    BY <1>3, HeldWith
  <2>. HIDE DEF held
  <2>5. held # work[q]  BY <2>1, <2>4, Zenon
  <2>6. HoldsRun(q, held)  BY <1>3, <2>4, Zenon DEF HoldsRun, HoldsOwn, OwnRows
  <2>7. PICK id, row : id = r.id /\ row = r.row  BY Zenon
  <2>8. /\ Saves(q, "resolution", id, row, 500, work' = [work EXCEPT ![q] = held] /\ UNCHANGED at)
        /\ IsRow("resolution", row) /\ row.project = Context(q).project
    BY <2>2, <2>3, <2>7, Zenon
  <2>9. MemoryMove(q)  BY <1>1, <2>3, <2>4, <2>5, <2>6, <2>8, RunStaysMoves
  <2>. QED  BY <1>2, <2>9, Zenon
<1>10. \/ work[q].plan = <<>> /\ RecordOutputs(q) /\ UNCHANGED mem
       \/ ListCanonical(q)
       \/ ProposeResolution(q)
       \/ work[q].plan # <<>> /\ EnsureIngestionSubgraph(q, next.id)
       \/ /\ work[q].plan # <<>> /\ next.kind \notin {"candidates", "ensure"}
          /\ Saves(q, next.kind, next.id, next.row, 500, work' = [work EXCEPT ![q].plan = Tail(@)] /\ UNCHANGED at)
  BY PersistCases, Zenon
<1>. HIDE DEF next, rest
<1>. QED  BY <1>4, <1>5, <1>7, <1>8, <1>9, <1>10
-----------------------------------------------------------------------------
(***************************************************************************)
(* The invariant.                                                          *)
(***************************************************************************)
RecordInv == RequestInv /\ RowsInv /\ WorkInv /\ MemInv

\* A step of Projects holds nothing that is about memory.
LEMMA RecordMoveHolds ==
    ASSUME WorkInv, NEW q \in DOMAIN at, RecordMove(q), UNCHANGED work
    PROVE  WorkInv'
<1>1. DOMAIN at' = DOMAIN at /\ \A o \in DOMAIN at : o # q => at'[o] = at[o]
  BY DEF RecordMove, MovesTo, Alone
<1>2. at'[q].pc \notin {"list", "canonical", "file", "persist"} /\ (at'[q].pc = "write" => q.op \notin MemoryOps)
  BY DEF RecordMove, MovesTo, RecordOps, MemoryOps
<1>3. WorkOK(q)'
  BY <1>2 DEF WorkInv, WorkOK, HeldAt
<1>4. ASSUME NEW o \in DOMAIN at, o # q  PROVE WorkOK(o)'
  BY <1>1, <1>4 DEF WorkInv, WorkOK, HoldsRun, HoldsOwn, Context
<1>. QED  BY <1>1, <1>3, <1>4 DEF WorkInv

\* What every step does.
LEMMA StepKeepsRecords ==
    ASSUME RecordInv, [MemNext]_allVars
    PROVE  RecordInv' /\ RowsScoped /\ MemoryScoped
<1>. USE DEF RecordInv
<1>1. Tables  BY DEF RowsInv
<1>2. ASSUME UNCHANGED rows  PROVE RowsInv' /\ RowsScoped
  BY <1>1, <1>2, SparedKeepsRows DEF Tables, Spared
<1>3. ASSUME UNCHANGED mem  PROVE MemInv' /\ MemoryScoped
  BY <1>3 DEF MemInv, MemoryScoped
<1>4. ASSUME UNCHANGED at  PROVE RequestInv'
  BY <1>4 DEF RequestInv
<1>5. ASSUME UNCHANGED <<at, work>>  PROVE WorkInv'
  BY <1>5 DEF WorkInv, WorkOK, HoldsRun, HoldsOwn, Context
<1>6. CASE UNCHANGED allVars
  BY <1>2, <1>3, <1>4, <1>5, <1>6 DEF allVars, vars, memVars
<1>7. CASE Next /\ UNCHANGED memVars
  <2>1. UNCHANGED <<mem, work>>  BY <1>7 DEF memVars
  <2>2. CASE UNCHANGED <<at, rows>>
    BY <1>2, <1>3, <1>4, <1>5, <2>1, <2>2
  <2>3. ASSUME NEW q \in DOMAIN at, RecordMove(q), TablesMove(q)
        PROVE  RecordInv' /\ RowsScoped /\ MemoryScoped
    <3>1. RequestInv'  BY <2>3, RecordMoveKeeps
    <3>2. WorkInv'  BY <2>1, <2>3, RecordMoveHolds
    <3>3. RowsInv' /\ RowsScoped
      BY <2>3, ChangeKeepsRows, SparedKeepsRows DEF TablesMove
    <3>. QED  BY <1>3, <2>1, <3>1, <3>2, <3>3
  <2>. QED  BY <1>1, <1>7, <2>2, <2>3, RecordsMove
<1>8. ASSUME NEW q \in DOMAIN at,
             \/ CreateMemory(q) \/ Activate(q) \/ ReviewEntityResolution(q) \/ ReviewClaimConflict(q)
             \/ ReviewClaim(q) \/ DetectClaimConflicts(q) \/ RunConnector(q) \/ Persist(q)
      PROVE  RecordInv' /\ RowsScoped /\ MemoryScoped
  <2>1. at[q].pc \in Handling /\ MemoryMove(q)
    BY <1>8, CreateMemoryMoves, ActivateMoves, ReviewMoves, ReviewClaimMoves, DetectMoves, RunConnectorMoves, PersistMoves
  <2>2. RequestInv' /\ WorkInv' /\ MemInv' /\ MemoryScoped
    BY <2>1, MemoryMoves
  <2>3. UNCHANGED rows
    <3>1. ASSUME NEW pc, NEW ops, Steps(q, pc, ops)  PROVE UNCHANGED rows
      BY <3>1 DEF Steps
    <3>2. ASSUME NEW op, NEW kind, NEW row, CreateChecked(q, op, kind, row)  PROVE UNCHANGED rows
      BY <3>1, <3>2, Zenon DEF CreateChecked
    <3>3. ASSUME NEW op, NEW kind, NEW role, NEW refused, CreateGuarded(q, op, kind, role, refused)
          PROVE  UNCHANGED rows
      BY <3>1, <3>3, Zenon DEF CreateGuarded
    <3>4. CASE CreateMemory(q)
      <4>1. CASE \/ CreateSource(q) \/ CreateEvidence(q) \/ CreateEntity(q) \/ CreateClaim(q) \/ CreateEvent(q)
                 \/ CreateRelationship(q) \/ CreateContract(q) \/ CreateSubgraph(q)
        BY <3>2, <4>1, Zenon
           DEF CreateSource, CreateEvidence, CreateEntity, CreateClaim, CreateEvent, CreateRelationship, CreateContract,
               CreateSubgraph
      <4>2. CASE \/ CreateSubgraphMember(q) \/ CreateCanonicalEntity(q) \/ CreateEntityResolution(q)
                 \/ CreateSummaryTrace(q) \/ CreateEntityGraphAttachment(q) \/ CreateSubgraphEdge(q)
                 \/ CreateConnector(q)
        BY <3>3, <4>2
           DEF CreateSubgraphMember, CreateCanonicalEntity, CreateEntityResolution, CreateSummaryTrace,
               CreateEntityGraphAttachment, CreateSubgraphEdge, CreateConnector
      <4>. QED  BY <3>4, <4>1, <4>2, Zenon DEF CreateMemory
    <3>5. CASE Activate(q)  BY <3>1, <3>5, Zenon DEF Activate
    <3>6. CASE ReviewEntityResolution(q)  BY <3>1, <3>6, Zenon DEF ReviewEntityResolution, ReviewFinds
    <3>7. CASE ReviewClaimConflict(q)  BY <3>1, <3>7, Zenon DEF ReviewClaimConflict, ReviewFinds
    <3>8. CASE ReviewClaim(q)  BY <3>1, <3>8, Zenon DEF ReviewClaim, ReviewFinds
    <3>9. CASE DetectClaimConflicts(q)  BY <3>1, <3>9, Zenon DEF DetectClaimConflicts
    <3>10. CASE RunConnector(q)  BY <3>1, <3>10, Zenon DEF RunConnector
    <3>11. CASE Persist(q)  BY <3>11 DEF Persist
    <3>. QED  BY <1>8, <3>4, <3>5, <3>6, <3>7, <3>8, <3>9, <3>10, <3>11
  <2>. QED  BY <1>2, <2>2, <2>3
<1>. QED  BY <1>6, <1>7, <1>8, Zenon DEF MemNext

\* The requests have just arrived, and what is stored is what requests leave.
LEMMA InitRecords == MemInit => RecordInv
<1>1. Arrived.pc = "authenticate" /\ Arrived.pc \notin Handling /\ Arrived.pc \notin HeldAt /\ Arrived.pc # "persist"
  BY DEF Arrived, Handling, HeldAt
<1>2. ASSUME NEW requests, at = [q \in requests |-> Arrived], work = [q \in DOMAIN at |-> Idle]
      PROVE  /\ (\A q \in requests : Asks(q)) => WorkInv
             /\ (\A q \in requests : Names(q)) => RequestInv
  BY <1>1, <1>2 DEF WorkInv, WorkOK, RequestInv, RequestFields, Admitted
<1>3. CASE /\ Init
           /\ mem = [k \in MemoryKinds |-> [i \in {} |-> Blank]]
           /\ work = [q \in DOMAIN at |-> Idle]
  <2>1. PICK batch \in Batches : at = [q \in batch.requests |-> Arrived] /\ rows = StoredRows(batch)
    BY <1>3 DEF Init
  <2>2. \A q \in batch.requests : Asks(q) /\ Names(q)
    BY <2>1, BatchAssumption, MemoryBatchAssumption, Zenon DEF Asks, Names
  <2>3. Tables
    BY <2>1 DEF Tables, StoredRows
  <2>4. WritersWereAllowed /\ \A id \in Ids : WorkflowStays(id)
    BY <2>1, BatchAssumption, Zenon DEF WritersWereAllowed, WorkflowStays, Exists
  <2>5. MemInv
    BY <1>3 DEF MemInv
  <2>. QED  BY <1>2, <1>3, <2>1, <2>2, <2>3, <2>4, <2>5 DEF RecordInv, RowsInv
<1>4. CASE \E batch \in MemoryBatches :
              /\ at = [q \in batch.requests |-> Arrived]
              /\ work = [q \in batch.requests |-> Idle]
              /\ mem = MemoryTables(batch.stored)
              /\ rows = [k \in Kinds |-> [i \in Ids |-> NoRow]]
  <2>1. PICK batch \in MemoryBatches :
              /\ at = [q \in batch.requests |-> Arrived]
              /\ work = [q \in batch.requests |-> Idle]
              /\ mem = MemoryTables(batch.stored)
              /\ rows = [k \in Kinds |-> [i \in Ids |-> NoRow]]
    BY <1>4
  <2>2. \A q \in batch.requests : Asks(q) /\ Names(q)
    <3>1. "createWorkflow" \notin MemoryOps /\ "updateWorkflow" \notin MemoryOps  BY DEF MemoryOps
    <3>. QED  BY <2>1, <3>1, MemoryBatchAssumption, Zenon DEF Asks, Names
  <2>3. Tables /\ WritersWereAllowed /\ \A id \in Ids : WorkflowStays(id)
    BY <2>1 DEF Tables, WritersWereAllowed, WorkflowStays, Exists, Kinds
  <2>4. MemInv
    <3>1. DOMAIN mem = MemoryKinds  BY <2>1 DEF MemoryTables
    <3>. QED  BY <2>1, <3>1, MemoryBatchAssumption, Zenon DEF MemInv
  <2>5. work = [q \in DOMAIN at |-> Idle]  BY <2>1
  <2>. QED  BY <1>2, <2>1, <2>2, <2>3, <2>4, <2>5 DEF RecordInv, RowsInv
<1>. QED  BY <1>3, <1>4, Zenon DEF MemInit

\* Whatever is in flight: a request whose handler runs was admitted in its
\* context, what its handler holds between two statements is in its project,
\* and the tables of records are in order.
THEOREM RecordInvariant == MemSpec => []RecordInv
<1>1. RecordInv /\ [MemNext]_allVars => RecordInv'
  BY StepKeepsRecords
<1>. QED  BY <1>1, InitRecords, PTL DEF MemSpec

\* The job definitions of a stored workflow's steps exist, in its project,
\* although they were checked by an earlier statement (lock_workflow_jobs and
\* the foreign key), for every interleaving of any number of requests.
THEOREM WorkflowsKeepTheirJobs == MemSpec => []StepsStayInProject
<1>1. RecordInv => StepsStayInProject
  BY Zenon DEF RecordInv, RowsInv, WorkflowStays, StepsStayInProject
<1>. QED  BY <1>1, RecordInvariant, PTL

\* The last writer of a job definition or workflow had, in its project, a role
\* the registry asks for (require_auth), whatever the memberships became since.
THEOREM WritersHadTheRole == MemSpec => []WritersWereAllowed
<1>1. RecordInv => WritersWereAllowed
  BY DEF RecordInv, RowsInv
<1>. QED  BY <1>1, RecordInvariant, PTL

\* No interleaving of the requests of two projects moves a record from one to
\* the other or lets a request of one write a record of the other
\* (require_scope and the conflict clauses of the upserts).
THEOREM RecordsStayPut == MemSpec => RecordsKeepTheirProject
<1>1. RecordInv /\ [MemNext]_allVars => RowsScoped /\ MemoryScoped
  BY StepKeepsRecords
<1>. QED
  BY <1>1, RecordInvariant, PTL DEF MemSpec, RecordsKeepTheirProject, ScopedRowsKeepTheirProject, RowsScoped, MemoryScoped
-----------------------------------------------------------------------------
(***************************************************************************)
(* What a stored run vouches for.  A run first stores what it made of the  *)
(* text, one statement each, and plans its own row only then; nothing is   *)
(* deleted, so that what is stored stays there while it goes on.           *)
(***************************************************************************)
Made(q) == RunLocalTextIngestion(RunId(q), work[q].row)

IsPiece(e) == e.kind \in Counted

LookForCandidates(q) == [kind |-> "candidates", id |-> RunId(q), row |-> Blank]

\* What q's run made is stored or comes before the look for candidates.
StoringIn(S, s, q) ==
    /\ s \in Seq(S) /\ \A e \in S : IsPiece(e)
    /\ work[q].plan = s \o <<LookForCandidates(q)>>
    /\ \A i \in DOMAIN Made(q) : Stored(Made(q)[i].kind, Made(q)[i].id) \/ \E j \in DOMAIN s : s[j] = Made(q)[i]

Storing(q) == \E S : \E s : StoringIn(S, s, q)

\* What q's run made is stored; its own row, when planned, counts that.
Late(e, q) == e.kind # "candidates" /\ (e.kind = "run" => e.id = RunId(q) /\ e.row.says = Count(work[q].row))

Later(plan, q) == \E S : plan \in Seq(S) /\ \A e \in S : Late(e, q)

AllStored(q) == \A i \in DOMAIN Made(q) : Stored(Made(q)[i].kind, Made(q)[i].id)

Recording(q) == AllStored(q) /\ Later(work[q].plan, q)

Promises(q) == at[q].pc = "persist" => Storing(q) \/ Recording(q)

VouchInv == RunsVouchForTheirMemory /\ \A q \in DOMAIN at : Promises(q)

\* Nothing is deleted.
Grows == \A kind \in MemoryKinds : DOMAIN mem[kind] \in SUBSET DOMAIN mem'[kind]

\* What a run counts has tables.
LEMMA CountedAreKinds == Counted \in SUBSET MemoryKinds /\ "run" \in MemoryKinds /\ "run" \notin Counted
BY DEF Counted, MemoryKinds

\* A run's memory is all of kinds it counts.
LEMMA MadeArePieces ==
    ASSUME NEW run, NEW connector, Configures(connector)
    PROVE  \E S : RunLocalTextIngestion(run, connector) \in Seq(S) /\ \A e \in S : IsPiece(e)
BY MadeIs, Zenon DEF PiecesFor, PieceFor, IsPiece

\* A run goes on vouching while tables grow.
LEMMA VouchesStill ==
    ASSUME Grows, NEW run, Vouches(mem, run), mem'["run"][run] = mem["run"][run]
    PROVE  Vouches(mem', run)
BY CountedAreKinds, Zenon DEF Vouches, Grows

\* A row that counts what a run made vouches for it once that is stored.
LEMMA StoredVouches ==
    ASSUME NEW tables, NEW run, NEW connector, Configures(connector), NEW made, made = RunLocalTextIngestion(run, connector),
           \A i \in DOMAIN made : made[i].id \in DOMAIN tables[made[i].kind],
           tables["run"][run].says = Count(connector)
    PROVE  Vouches(tables, run)
<1>1. \A kind \in Counted : \A n \in 1..Count(connector)[kind] : Has(made, kind, run, n)  BY MadeIs
<1>2. \A kind \in Counted : \A n \in 1..Count(connector)[kind] : <<kind, run, n>> \in DOMAIN tables[kind]
  <2>1. ASSUME NEW kind \in Counted, NEW n \in 1..Count(connector)[kind]
        PROVE  <<kind, run, n>> \in DOMAIN tables[kind]
    <3>1. PICK i \in DOMAIN made : made[i].kind = kind /\ made[i].id = <<kind, run, n>>
      BY <1>1, <2>1, Zenon DEF Has
    <3>2. made[i].id \in DOMAIN tables[made[i].kind]  BY <3>1, Zenon
    <3>. QED  BY <3>1, <3>2
  <2>. QED  BY <2>1
<1>. QED  BY <1>2, Zenon DEF Vouches

\* A request that stays as it is keeps its promise while tables grow.
LEMMA PromisesStill ==
    ASSUME WorkInv, Grows, NEW q \in DOMAIN at, Promises(q), at'[q].pc = at[q].pc, work'[q].row = work[q].row,
           work'[q].plan = work[q].plan
    PROVE  Promises(q)'
<1>. SUFFICES ASSUME at[q].pc = "persist"  PROVE (Storing(q) \/ Recording(q))'
  BY DEF Promises
<1>1. Made(q)' = Made(q)
  BY DEF Made, RunId
<1>2. Configures(work[q].row)  BY DEF WorkInv, WorkOK, HoldsRun
<1>3. \E S : Made(q) \in Seq(S) /\ \A e \in S : IsPiece(e)
  BY <1>2, MadeArePieces DEF Made
<1>4. ASSUME NEW i \in DOMAIN Made(q), Stored(Made(q)[i].kind, Made(q)[i].id)
      PROVE  Stored(Made(q)[i].kind, Made(q)[i].id)'
  <2>1. PICK S : Made(q) \in Seq(S) /\ \A e \in S : IsPiece(e)  BY <1>3
  <2>2. PICK e : e = Made(q)[i]  BY Zenon
  <2>3. e.kind \in MemoryKinds  BY <2>1, <2>2, CountedAreKinds DEF IsPiece
  <2>4. e.id \in DOMAIN mem'[e.kind]  BY <1>4, <2>2, <2>3, Zenon DEF Stored, Grows
  <2>. QED  BY <1>1, <2>2, <2>4 DEF Stored
<1>5. CASE Storing(q)
  <2>1. PICK S, s : StoringIn(S, s, q)  BY <1>5 DEF Storing
  <2>2. StoringIn(S, s, q)'
    <3>1. work'[q].plan = s \o <<LookForCandidates(q)'>>
      BY <2>1 DEF StoringIn, LookForCandidates
    <3>2. \A i \in DOMAIN Made(q)' : Stored(Made(q)[i].kind, Made(q)[i].id)' \/ \E j \in DOMAIN s : s[j] = Made(q)'[i]
      BY <1>1, <1>4, <2>1, Zenon DEF StoringIn
    <3>. QED  BY <2>1, <3>1, <3>2 DEF StoringIn
  <2>. QED  BY <2>2 DEF Storing
<1>6. CASE Recording(q)
  <2>1. AllStored(q)'
    BY <1>1, <1>4, <1>6, Zenon DEF Recording, AllStored
  <2>2. Later(work[q].plan, q)'
    BY <1>1, <1>6 DEF Recording, Later, Late
  <2>. QED  BY <2>1, <2>2 DEF Recording
<1>. QED  BY <1>5, <1>6 DEF Promises

\* A handler's upsert deletes nothing.
LEMMA MovesGrow ==
    ASSUME MemInv, NEW q, MemoryMove(q)
    PROVE  Grows
<1>1. CASE UNCHANGED mem  BY <1>1 DEF Grows
<1>2. ASSUME NEW kind \in MemoryKinds, NEW id, NEW row, Upserts(kind, id, row)  PROVE Grows
  BY <1>2 DEF Upserts, Grows, MemInv
<1>. QED  BY <1>1, <1>2 DEF MemoryMove

\* Nothing but an ingestion writes the table of runs.
LEMMA RunsSpared ==
    ASSUME MemInv, NEW q,
           \/ CreateMemory(q) \/ Activate(q) \/ ReviewEntityResolution(q) \/ ReviewClaimConflict(q)
           \/ ReviewClaim(q) \/ DetectClaimConflicts(q)
    PROVE  mem'["run"] = mem["run"] /\ ~Ingests(q)
<1>. DEFINE Spares == mem'["run"] = mem["run"]
<1>1. ASSUME NEW kind \in MemoryKinds \ {"run"}, NEW id, NEW row, mem' \in Upsert(kind, id, row)  PROVE Spares
  <2>1. kind \in MemoryKinds /\ kind # "run" /\ Upserts(kind, id, row)  BY <1>1, UpsertsAreScoped
  <2>2. DOMAIN mem = MemoryKinds /\ "run" \in MemoryKinds  BY CountedAreKinds DEF MemInv
  <2>. QED  BY <2>1, <2>2 DEF Upserts
<1>2. (\A status : Refused(q, status) => Spares) /\ (\A pc : \A held : Holds(q, pc, held) => Spares)
      /\ (UNCHANGED mem => Spares)
  BY DEF Refused, Holds
<1>. SUFFICES Spares /\ ~Ingests(q)  OBVIOUS
<1>. HIDE DEF Spares
<1>3. ASSUME NEW op, op # "runIngestionConnector", NEW kind \in MemoryKinds \ {"run"}, NEW row,
             CreateChecked(q, op, kind, row)
      PROVE  Spares /\ ~Ingests(q)
  BY <1>1, <1>2, <1>3, ZenonT(30) DEF CreateChecked, Saves, Steps, Ingests
<1>4. ASSUME NEW op, op # "runIngestionConnector", NEW kind \in MemoryKinds \ {"run"}, NEW role, NEW refused,
             CreateGuarded(q, op, kind, role, refused)
      PROVE  Spares /\ ~Ingests(q)
  BY <1>1, <1>2, <1>4, Zenon DEF CreateGuarded, Saves, Steps, Ingests
<1>5. ASSUME NEW ops, "runIngestionConnector" \notin ops, NEW kind, NEW role, NEW row, ReviewFinds(q, ops, kind, role, row)
      PROVE  Spares /\ ~Ingests(q)
  BY <1>2, <1>5, Zenon DEF ReviewFinds, Steps, Ingests
<1>6. MemoryKinds \ {"run"} =
          {"source", "evidence", "entity", "claim", "event", "relationship", "contract", "subgraph", "member",
           "canonical", "resolution", "conflict", "trace", "attachment", "edge", "connector"}
  BY DEF MemoryKinds
<1>7. CASE CreateMemory(q)
  <2>1. CASE CreateSource(q)  BY <1>3, <1>6, <2>1 DEF CreateSource
  <2>2. CASE CreateEvidence(q)  BY <1>3, <1>6, <2>2 DEF CreateEvidence
  <2>3. CASE CreateEntity(q)  BY <1>3, <1>6, <2>3 DEF CreateEntity
  <2>4. CASE CreateClaim(q)  BY <1>3, <1>6, <2>4 DEF CreateClaim
  <2>5. CASE CreateEvent(q)  BY <1>3, <1>6, <2>5 DEF CreateEvent
  <2>6. CASE CreateRelationship(q)  BY <1>3, <1>6, <2>6 DEF CreateRelationship
  <2>7. CASE CreateContract(q)  BY <1>3, <1>6, <2>7 DEF CreateContract
  <2>8. CASE CreateSubgraph(q)  BY <1>3, <1>6, <2>8 DEF CreateSubgraph
  <2>9. CASE CreateSubgraphMember(q)  BY <1>4, <1>6, <2>9 DEF CreateSubgraphMember
  <2>10. CASE CreateCanonicalEntity(q)  BY <1>4, <1>6, <2>10 DEF CreateCanonicalEntity
  <2>11. CASE CreateEntityResolution(q)  BY <1>4, <1>6, <2>11 DEF CreateEntityResolution
  <2>12. CASE CreateSummaryTrace(q)  BY <1>4, <1>6, <2>12 DEF CreateSummaryTrace
  <2>13. CASE CreateEntityGraphAttachment(q)  BY <1>4, <1>6, <2>13 DEF CreateEntityGraphAttachment
  <2>14. CASE CreateSubgraphEdge(q)  BY <1>4, <1>6, <2>14 DEF CreateSubgraphEdge
  <2>15. CASE CreateConnector(q)  BY <1>4, <1>6, <2>15 DEF CreateConnector
  <2>. QED
    BY <1>7, <2>1, <2>2, <2>3, <2>4, <2>5, <2>6, <2>7, <2>8, <2>9, <2>10, <2>11, <2>12, <2>13, <2>14, <2>15, Zenon
       DEF CreateMemory
<1>8. /\ "subgraph" \in MemoryKinds \ {"run"} /\ "resolution" \in MemoryKinds \ {"run"}
      /\ "conflict" \in MemoryKinds \ {"run"} /\ "claim" \in MemoryKinds \ {"run"}
  BY <1>6
<1>9. ASSUME NEW pc, NEW ops, "runIngestionConnector" \notin ops, Steps(q, pc, ops)  PROVE ~Ingests(q)
  BY <1>9, Zenon DEF Steps, Ingests
<1>10. CASE Activate(q)
  <2>1. "runIngestionConnector" \notin {"activateMemorySubgraph"}  OBVIOUS
  <2>2. ~Ingests(q)  BY <1>9, <1>10, <2>1, Zenon DEF Activate
  <2>3. Spares  BY <1>1, <1>2, <1>8, <1>10, Zenon DEF Activate, Saves
  <2>. QED  BY <2>2, <2>3
<1>11. CASE ReviewEntityResolution(q)
  <2>1. "runIngestionConnector" \notin {"confirmEntityResolution", "rejectEntityResolution"}  OBVIOUS
  <2>2. ~Ingests(q)  BY <1>5, <1>9, <1>11, <2>1, Zenon DEF ReviewEntityResolution
  <2>3. Spares  BY <1>1, <1>2, <1>5, <1>8, <1>11, <2>1, Zenon DEF ReviewEntityResolution, Saves
  <2>. QED  BY <2>2, <2>3
<1>12. CASE ReviewClaimConflict(q)
  <2>1. "runIngestionConnector" \notin {"resolveClaimConflict", "dismissClaimConflict"}  OBVIOUS
  <2>2. ~Ingests(q)  BY <1>5, <1>9, <1>12, <2>1, Zenon DEF ReviewClaimConflict
  <2>3. Spares  BY <1>1, <1>2, <1>5, <1>8, <1>12, <2>1, Zenon DEF ReviewClaimConflict, Saves
  <2>. QED  BY <2>2, <2>3
<1>13. CASE ReviewClaim(q)
  <2>1. "runIngestionConnector" \notin {"approveIngestionReviewClaim", "rejectIngestionReviewClaim"}  OBVIOUS
  <2>2. ~Ingests(q)  BY <1>5, <1>9, <1>13, <2>1, Zenon DEF ReviewClaim
  <2>3. Spares  BY <1>1, <1>2, <1>5, <1>8, <1>13, <2>1, Zenon DEF ReviewClaim, Saves
  <2>. QED  BY <2>2, <2>3
<1>14. CASE DetectClaimConflicts(q)
  <2>1. "runIngestionConnector" \notin {"approveIngestionReviewClaim"}  OBVIOUS
  <2>2. ~Ingests(q)  BY <1>9, <1>14, <2>1, Zenon DEF DetectClaimConflicts
  <2>3. Spares  BY <1>1, <1>2, <1>8, <1>14, Zenon DEF DetectClaimConflicts, Saves
  <2>. QED  BY <2>2, <2>3
<1>. QED  BY <1>7, <1>10, <1>11, <1>12, <1>13, <1>14

\* While the table of runs is left alone, its runs go on vouching.
LEMMA RunsVouchStill ==
    ASSUME Grows, RunsVouchForTheirMemory, mem'["run"] = mem["run"]
    PROVE  RunsVouchForTheirMemory'
BY VouchesStill DEF RunsVouchForTheirMemory

\* Plans of the items a run may have once its memory is stored.
LEMMA LaterPlans ==
    ASSUME NEW q
    PROVE  /\ \A e : Late(e, q) => Later(<<e>>, q)
           /\ \A s : \A t : Later(s, q) /\ Later(t, q) => Later(s \o t, q)
           /\ \A s : Later(s, q) /\ s # <<>> => Late(Head(s), q) /\ Later(Tail(s), q)
<1>1. ASSUME NEW e, Late(e, q)  PROVE Later(<<e>>, q)
  <2>1. PICK S : S = {e}  BY Zenon
  <2>2. <<e>> \in Seq(S) /\ \A x \in S : Late(x, q)  BY <1>1, <2>1
  <2>. QED  BY <2>2, Zenon DEF Later
<1>2. ASSUME NEW s, NEW t, Later(s, q), Later(t, q)  PROVE Later(s \o t, q)
  <2>1. PICK S : s \in Seq(S) /\ \A e \in S : Late(e, q)  BY <1>2 DEF Later
  <2>2. PICK T : t \in Seq(T) /\ \A e \in T : Late(e, q)  BY <1>2 DEF Later
  <2>3. PICK U : U = S \cup T  BY Zenon
  <2>4. s \in Seq(U) /\ t \in Seq(U) /\ \A e \in U : Late(e, q)  BY <2>1, <2>2, <2>3
  <2>5. s \o t \in Seq(U)  BY <2>4
  <2>. QED  BY <2>4, <2>5, Zenon DEF Later
<1>3. ASSUME NEW s, Later(s, q), s # <<>>  PROVE Late(Head(s), q) /\ Later(Tail(s), q)
  <2>1. PICK S : s \in Seq(S) /\ \A e \in S : Late(e, q)  BY <1>3 DEF Later
  <2>2. PICK t : t = Tail(s)  BY Zenon
  <2>3. Head(s) \in S /\ t \in Seq(S)  BY <1>3, <2>1, <2>2
  <2>. QED  BY <2>1, <2>2, <2>3, Zenon DEF Later
<1>. QED  BY <1>1, <1>2, <1>3

\* Taking the first of two plans in a row.
LEMMA TailOfJoin ==
    ASSUME NEW S, NEW s \in Seq(S), s # <<>>, NEW t \in Seq(S)
    PROVE  Tail(s \o t) = Tail(s) \o t
<1>1. PICK p, a, b, u : p = s \o t /\ a = Tail(p) /\ u = Tail(s) /\ b = u \o t  BY Zenon
<1>2. Len(s) \in Nat /\ Len(s) >= 1  OBVIOUS
<1>3. u \in Seq(S) /\ Len(u) = Len(s) - 1 /\ \A i \in 1..(Len(s) - 1) : u[i] = s[i + 1]  BY <1>1, <1>2
<1>4. /\ p \in Seq(S) /\ Len(p) = Len(s) + Len(t) /\ Len(t) \in Nat
      /\ \A i \in 1..Len(s) : p[i] = s[i]
      /\ \A i \in 1..Len(t) : p[Len(s) + i] = t[i]
  BY <1>1, JoinIs
<1>5. /\ b \in Seq(S) /\ Len(b) = Len(u) + Len(t)
      /\ \A i \in 1..Len(u) : b[i] = u[i]
      /\ \A i \in 1..Len(t) : b[Len(u) + i] = t[i]
  BY <1>1, <1>3, JoinIs
<1>6. a \in Seq(S) /\ Len(a) = Len(p) - 1 /\ \A i \in 1..(Len(p) - 1) : a[i] = p[i + 1]
  BY <1>1, <1>2, <1>4
<1>7. PICK n, m : n = Len(s) /\ m = Len(t) /\ n \in Nat /\ m \in Nat /\ n >= 1  BY <1>2, <1>4, Zenon
<1>8. ASSUME NEW i \in 1..(n + m - 1)  PROVE a[i] = b[i]
  <2>1. a[i] = p[i + 1]  BY <1>4, <1>6, <1>7
  <2>2. CASE i \in 1..(n - 1)
    <3>1. i + 1 \in 1..n  BY <1>7, <2>2
    <3>2. p[i + 1] = s[i + 1]  BY <1>4, <1>7, <3>1
    <3>3. b[i] = u[i] /\ u[i] = s[i + 1]  BY <1>3, <1>5, <1>7, <2>2
    <3>. QED  BY <2>1, <3>2, <3>3
  <2>3. CASE i \in n..(n + m - 1)
    <3>1. PICK j : j = i - n + 1 /\ j \in 1..m /\ i + 1 = n + j /\ i = (n - 1) + j  BY <1>7, <2>3
    <3>2. p[n + j] = t[j]  BY <1>4, <1>7, <3>1
    <3>3. b[(n - 1) + j] = t[j]  BY <1>3, <1>5, <1>7, <3>1
    <3>. QED  BY <2>1, <3>1, <3>2, <3>3, Zenon
  <2>. QED  BY <1>7, <2>2, <2>3
<1>9. Len(a) = n + m - 1 /\ Len(b) = n + m - 1  BY <1>3, <1>4, <1>5, <1>6, <1>7
<1>10. a = b  BY <1>5, <1>6, <1>7, <1>8, <1>9
<1>. QED  BY <1>1, <1>10

\* The plan goes on with the first row of s, and then with the others.
Goes(S, s, q) ==
    /\ Head(work[q].plan) = Head(s) /\ Head(s).kind \in Counted
    /\ Tail(s) \in Seq(S) /\ Tail(work[q].plan) = Tail(s) \o <<LookForCandidates(q)>>
    /\ \A j \in DOMAIN s : s[j] = Head(s) \/ \E i \in DOMAIN Tail(s) : Tail(s)[i] = s[j]

\* What is left of the memory to store, after the first of it.
LEMMA StoringPlans ==
    ASSUME NEW q, NEW S, NEW s, StoringIn(S, s, q)
    PROVE  /\ s = <<>> => AllStored(q) /\ Head(work[q].plan).kind = "candidates"
           /\ s # <<>> => Goes(S, s, q)
<1>1. PICK c : c = LookForCandidates(q)  BY Zenon
<1>2. s \in Seq(S) /\ work[q].plan = s \o <<c>>  BY <1>1 DEF StoringIn
<1>3. CASE s = <<>>
  <2>1. AllStored(q)  BY <1>3 DEF StoringIn, AllStored
  <2>2. work[q].plan = <<c>>  BY <1>2, <1>3
  <2>. QED  BY <1>1, <1>3, <2>1, <2>2 DEF LookForCandidates
<1>4. CASE s # <<>>
  <2>1. PICK p, t : p = s \o <<c>> /\ t = Tail(s)  BY Zenon
  <2>2. /\ Len(s) \in Nat /\ Len(s) > 0 /\ DOMAIN s = 1..Len(s)
        /\ t \in Seq(S) /\ Len(t) = Len(s) - 1 /\ \A i \in 1..(Len(s) - 1) : t[i] = s[i + 1]
    BY <1>2, <1>4, <2>1
  <2>3. Head(p) = s[1] /\ Head(s) = s[1] /\ s[1] \in S
    BY <1>2, <1>4, <2>1, <2>2
  <2>4. Tail(p) = t \o <<c>>
    <3>1. PICK U, one : U = S \cup {c} /\ one = <<c>>  BY Zenon
    <3>2. one \in Seq(U)  BY <3>1
    <3>3. s \in Seq(U)  BY <1>2, <3>1
    <3>. QED  BY <1>4, <2>1, <3>1, <3>2, <3>3, TailOfJoin
  <2>5. \A j \in DOMAIN s : s[j] = s[1] \/ \E i \in DOMAIN t : t[i] = s[j]
    <3>1. ASSUME NEW j \in DOMAIN s, j # 1  PROVE \E i \in DOMAIN t : t[i] = s[j]
      <4>1. j - 1 \in 1..(Len(s) - 1) /\ t[j - 1] = s[j]  BY <2>2, <3>1
      <4>2. j - 1 \in DOMAIN t  BY <2>2, <4>1
      <4>. QED  BY <4>1, <4>2
    <3>. QED  BY <3>1
  <2>6. s[1].kind \in Counted  BY <2>3 DEF StoringIn, IsPiece
  <2>7. Goes(S, s, q)  BY <1>1, <1>2, <2>1, <2>2, <2>3, <2>4, <2>5, <2>6 DEF Goes
  <2>. QED  BY <1>4, <2>7, Zenon
<1>. QED  BY <1>3, <1>4, Zenon

\* A run that begins has everything it makes still to store.
LEMMA RunConnectorPromises ==
    ASSUME RequestInv, WorkInv, MemInv, NEW q \in DOMAIN at, RunConnector(q)
    PROVE  mem' = mem /\ Promises(q)'
<1>1. CASE \E status : Refused(q, status)
  <2>1. UNCHANGED mem /\ MovesTo(q, "respond")
    BY <1>1, HandlersMove, Zenon DEF Refused
  <2>. QED  BY <2>1 DEF Promises, MovesTo
<1>. DEFINE connector == mem["connector"][q.id]
            made == RunLocalTextIngestion(RunId(q), connector)
            held == [Idle EXCEPT !.row = connector, !.plan = PersistOutput(q, connector)]
<1>2. CASE Stored("connector", q.id) /\ Holds(q, "persist", held)
  <2>1. Configures(connector)
    BY <1>2 DEF MemInv, IsRow, Stored, MemoryKinds
  <2>2. held.row = connector /\ held.plan = made \o <<LookForCandidates(q)>>
    BY Zenon DEF Idle, PersistOutput, LookForCandidates
  <2>3. work'[q] = held /\ UNCHANGED mem
    <3>. HIDE DEF held
    <3>. QED  BY <1>2 DEF Holds, WorkInv
  <2>. HIDE DEF held, connector
  <2>4. Made(q)' = made  BY <2>2, <2>3 DEF Made, RunId
  <2>5. PICK S : made \in Seq(S) /\ \A e \in S : IsPiece(e)
    BY <2>1, MadeArePieces
  <2>. HIDE DEF made
  <2>6. PICK s : s = made  BY Zenon
  <2>7. StoringIn(S, s, q)'
    <3>1. RunId(q)' = RunId(q) /\ LookForCandidates(q)' = LookForCandidates(q)
      BY DEF RunId, LookForCandidates
    <3>2. work'[q].plan = s \o <<LookForCandidates(q)'>>
      BY <2>2, <2>3, <2>6, <3>1, Zenon
    <3>3. \A i \in DOMAIN Made(q)' : \E j \in DOMAIN s : s[j] = Made(q)'[i]
      BY <2>4, <2>6, Zenon
    <3>4. s \in Seq(S) /\ \A e \in S : IsPiece(e)
      BY <2>5, <2>6, <3>1, Zenon
    <3>. QED  BY <3>2, <3>3, <3>4, Zenon DEF StoringIn
  <2>. QED  BY <2>3, <2>7 DEF Promises, Storing
<1>. QED  BY <1>1, <1>2, Zenon DEF RunConnector

\* What is planned once the canonical entities are listed.
LEMMA RecordedIsLater ==
    ASSUME NEW q, NEW listed
    PROVE  LET ensure == [kind |-> "ensure", id |-> IngestionSubgraphId(Context(q).project), row |-> Blank]
           IN Later((IF listed = {} THEN <<>> ELSE <<ensure>>) \o Recorded(q, work[q].row), q)
<1>. DEFINE ensure == [kind |-> "ensure", id |-> IngestionSubgraphId(Context(q).project), row |-> Blank]
            first  == IF listed = {} THEN <<>> ELSE <<ensure>>
            item   == [kind |-> "run", id |-> RunId(q), row |-> SucceededRun(q, work[q].row)]
<1>1. SucceededRun(q, work[q].row).says = Count(work[q].row)
  BY DEF SucceededRun, Count, Blank
<1>2. Late(item, q) /\ Late(ensure, q)
  BY <1>1, Zenon DEF Late
<1>3. Recorded(q, work[q].row) = <<item>>  BY DEF Recorded
<1>. HIDE DEF item, ensure
<1>4. Later(<<>>, q)
  <2>1. PICK S : S = {}  BY Zenon
  <2>2. <<>> \in Seq(S) /\ \A e \in S : Late(e, q)  BY <2>1
  <2>. QED  BY <2>2, Zenon DEF Later
<1>5. Later(first, q)  BY <1>2, <1>4, LaterPlans
<1>. HIDE DEF first
<1>6. Later(first \o Recorded(q, work[q].row), q)  BY <1>2, <1>3, <1>5, LaterPlans
<1>. QED  BY <1>6 DEF first, ensure

\* A run that goes on with a plan of later items, its memory being stored.
LEMMA RecordsOn ==
    ASSUME WorkInv, NEW q \in DOMAIN at, AllStored(q), NEW pc, NEW held, Holds(q, pc, held),
           held.row = work[q].row, Later(held.plan, q)
    PROVE  mem' = mem /\ Promises(q)'
<1>1. work'[q] = held /\ UNCHANGED mem  BY DEF Holds, WorkInv
<1>2. Made(q)' = Made(q) /\ RunId(q)' = RunId(q)  BY <1>1 DEF Made, RunId
<1>3. AllStored(q)'  BY <1>1, <1>2 DEF AllStored, Stored
<1>4. Later(work[q].plan, q)'
  BY <1>1, <1>2 DEF Later, Late
<1>. QED  BY <1>1, <1>3, <1>4 DEF Promises, Recording

\* A row of what a run made is stored, and what is left is planned as before.
LEMMA StoresOne ==
    ASSUME WorkInv, MemInv, Grows, NEW q \in DOMAIN at, Configures(work[q].row), NEW S, NEW s, StoringIn(S, s, q), s # <<>>,
           NEW id, NEW kind, id \in DOMAIN mem'[kind], id = Head(s).id, kind = Head(s).kind,
           work'[q].row = work[q].row, work'[q].plan = Tail(work[q].plan)
    PROVE  Storing(q)'
<1>1. Made(q)' = Made(q) /\ RunId(q)' = RunId(q) /\ LookForCandidates(q)' = LookForCandidates(q)
  BY DEF Made, RunId, LookForCandidates
<1>2. PICK t : t = Tail(s)  BY Zenon
<1>3. /\ t \in Seq(S) /\ Tail(work[q].plan) = t \o <<LookForCandidates(q)>>
      /\ \A j \in DOMAIN s : s[j] = Head(s) \/ \E i \in DOMAIN t : t[i] = s[j]
  <2>1. Goes(S, s, q)  BY StoringPlans, Zenon
  <2>. QED  BY <1>2, <2>1, Zenon DEF Goes
<1>4. PICK T : Made(q) \in Seq(T) /\ \A e \in T : IsPiece(e)
  BY MadeArePieces DEF Made
<1>5. ASSUME NEW i \in DOMAIN Made(q)
      PROVE  Made(q)[i].id \in DOMAIN mem'[Made(q)[i].kind] \/ \E j \in DOMAIN t : t[j] = Made(q)[i]
  <2>1. PICK e : e = Made(q)[i]  BY Zenon
  <2>2. e.kind \in MemoryKinds  BY <1>4, <2>1, CountedAreKinds DEF IsPiece
  <2>3. CASE e.id \in DOMAIN mem[e.kind]
    BY <2>1, <2>2, <2>3, Zenon DEF Grows
  <2>4. CASE \E j \in DOMAIN s : s[j] = e
    BY <1>3, <2>1, <2>4, Zenon
  <2>. QED  BY <2>1, <2>3, <2>4, Zenon DEF StoringIn, Stored
<1>6. StoringIn(S, t, q)'
  <2>1. t \in Seq(S) /\ \A e \in S : IsPiece(e)
    BY <1>1, <1>3, Zenon DEF StoringIn
  <2>2. work'[q].plan = t \o <<LookForCandidates(q)'>>
    BY <1>1, <1>3, Zenon
  <2>3. \A i \in DOMAIN Made(q)' :
            Made(q)'[i].id \in DOMAIN mem'[Made(q)'[i].kind] \/ \E j \in DOMAIN t : t[j] = Made(q)'[i]
    BY <1>1, <1>5, Zenon
  <2>. QED  BY <2>1, <2>2, <2>3, Zenon DEF StoringIn, Stored
<1>. QED  BY <1>6, Zenon DEF Storing

\* Every statement of a run keeps its promise, and its row vouches for what it
\* made (persist_output).
LEMMA PersistPromises ==
    ASSUME RequestInv, WorkInv, MemInv, Grows, NEW q \in DOMAIN at, Persist(q), Promises(q),
           RunsVouchForTheirMemory
    PROVE  RunsVouchForTheirMemory' /\ Promises(q)'
<1>1. at[q].pc = "persist"  BY DEF Persist, At
<1>2. /\ DOMAIN work[q] = DOMAIN Idle /\ Configures(work[q].row) /\ DOMAIN work = DOMAIN at
      /\ PlanOK(work[q].plan, Context(q).project)
  BY <1>1 DEF WorkInv, WorkOK, HoldsRun
<1>. DEFINE next == Head(work[q].plan)
            rest == Tail(work[q].plan)
<1>3. Storing(q) \/ Recording(q)  BY <1>1 DEF Promises
<1>4. ASSUME mem' = mem  PROVE RunsVouchForTheirMemory'
  BY <1>4 DEF RunsVouchForTheirMemory
<1>5. ASSUME Recording(q), work[q].plan # <<>>  PROVE AllStored(q) /\ Late(next, q) /\ Later(rest, q)
  BY <1>5, LaterPlans, Zenon DEF Recording
<1>6. ASSUME NEW status, Refused(q, status)  PROVE RunsVouchForTheirMemory' /\ Promises(q)'
  <2>1. mem' = mem /\ MovesTo(q, "respond")  BY <1>6, HandlersMove, Zenon DEF Refused
  <2>. QED  BY <1>4, <2>1 DEF Promises, MovesTo
<1>7. CASE work[q].plan = <<>> /\ RecordOutputs(q) /\ UNCHANGED mem
  <2>1. CASE Answers(q, 201)
    <3>1. Refused(q, 201)  BY <1>7, <2>1 DEF Answers, Refused
    <3>. QED  BY <1>6, <3>1
  <2>2. CASE UNCHANGED <<at, work>>
    BY <1>4, <1>7, <2>2, PromisesStill
  <2>. QED  BY <1>7, <2>1, <2>2, Zenon DEF RecordOutputs
<1>8. CASE work[q].plan # <<>> /\ next.kind = "candidates" /\ ListCanonical(q)
  <2>1. AllStored(q)
    <3>1. CASE Storing(q)
      <4>1. PICK S, s : StoringIn(S, s, q)  BY <3>1 DEF Storing
      <4>2. s = <<>> => AllStored(q)  BY <4>1, StoringPlans, Zenon
      <4>3. s # <<>> => next.kind \in Counted  BY <4>1, StoringPlans, Zenon DEF Goes
      <4>. QED  BY <1>8, <4>2, <4>3 DEF Counted
    <3>2. CASE Recording(q)  BY <3>2 DEF Recording
    <3>. QED  BY <1>3, <3>1, <3>2
  <2>2. PICK plan, rivals : Holds(q, "persist", [work[q] EXCEPT !.plan = plan, !.rivals = rivals]) /\ Later(plan, q)
    <3>. DEFINE ensure == [kind |-> "ensure", id |-> IngestionSubgraphId(Context(q).project), row |-> Blank]
    <3>1. PICK listed : Holds(q, "persist", [work[q] EXCEPT
                            !.plan   = (IF listed = {} THEN <<>> ELSE <<ensure>>) \o Recorded(q, work[q].row),
                            !.rivals = ResolutionCandidates(q, RunLocalTextIngestion(RunId(q), work[q].row), listed)])
      BY <1>8, Zenon DEF ListCanonical
    <3>2. Later((IF listed = {} THEN <<>> ELSE <<ensure>>) \o Recorded(q, work[q].row), q)
      BY RecordedIsLater, Zenon
    <3>. QED  BY <3>1, <3>2, Zenon
  <2>. DEFINE held == [work[q] EXCEPT !.plan = plan, !.rivals = rivals]
  <2>3. held.row = work[q].row /\ held.plan = plan  BY <1>2, BlankFields
  <2>4. Holds(q, "persist", held)  BY <2>2
  <2>. HIDE DEF held
  <2>. QED  BY <1>4, <2>1, <2>2, <2>3, <2>4, RecordsOn
<1>9. CASE work[q].plan # <<>> /\ next.kind = "ensure" /\ EnsureIngestionSubgraph(q, next.id)
  <2>1. Recording(q)
    <3>1. CASE Storing(q)
      <4>1. PICK S, s : StoringIn(S, s, q)  BY <3>1 DEF Storing
      <4>2. next.kind = "candidates" \/ next.kind \in Counted  BY <4>1, StoringPlans, Zenon DEF Goes
      <4>. QED  BY <1>9, <4>2 DEF Counted
    <3>. QED  BY <1>3, <3>1
  <2>. DEFINE draft == [kind |-> "subgraph", id |-> next.id, row |-> Draft([Blank EXCEPT !.project = Context(q).project])]
  <2>2. Later(<<draft>>, q)
    <3>1. Late(draft, q)  BY DEF Late
    <3>. HIDE DEF draft
    <3>. QED  BY <3>1, LaterPlans
  <2>3. PICK plan : plan \in {rest, <<draft>> \o rest} /\ Holds(q, "persist", [work[q] EXCEPT !.plan = plan])
    <3>. DEFINE left == IF Stored("subgraph", next.id) THEN rest ELSE <<draft>> \o rest
    <3>1. Holds(q, "persist", [work[q] EXCEPT !.plan = left])
      BY <1>9 DEF EnsureIngestionSubgraph
    <3>2. left \in {rest, <<draft>> \o rest}  OBVIOUS
    <3>. HIDE DEF left
    <3>. QED  BY <3>1, <3>2, Zenon
  <2>. HIDE DEF rest, draft
  <2>4. AllStored(q) /\ Later(rest, q)  BY <1>5, <1>9, <2>1
  <2>5. Later(plan, q)  BY <2>2, <2>3, <2>4, LaterPlans, Zenon
  <2>. DEFINE held == [work[q] EXCEPT !.plan = plan]
  <2>6. held.row = work[q].row /\ held.plan = plan  BY <1>2, HeldWith
  <2>7. Holds(q, "persist", held)  BY <2>3
  <2>. HIDE DEF held
  <2>. QED  BY <1>4, <2>4, <2>5, <2>6, <2>7, RecordsOn
<1>10. CASE /\ work[q].plan # <<>> /\ next.kind \notin {"candidates", "ensure"}
            /\ mem' \in Upsert(next.kind, next.id, next.row) /\ work' = [work EXCEPT ![q].plan = Tail(@)] /\ UNCHANGED at
  <2>1. work'[q].plan = rest /\ work'[q].row = work[q].row
    <3>1. work'[q] = [work[q] EXCEPT !.plan = rest]  BY <1>2, <1>10
    <3>. HIDE DEF rest
    <3>. QED  BY <1>2, <3>1, HeldWith
  <2>2. PICK kind, id, row : kind = next.kind /\ id = next.id /\ row = next.row  BY Zenon
  <2>3. kind \in MemoryKinds
    <3>1. PlanItem(next, Context(q).project)  BY <1>2, <1>10, PlanParts, Zenon
    <3>. QED  BY <1>10, <2>2, <3>1 DEF PlanItem, Planned, MemoryKinds
  <2>4. Upserts(kind, id, row)  BY <1>10, <2>2, <2>3, UpsertsAreScoped, Zenon
  <2>5. /\ mem'[kind] = [i \in DOMAIN mem[kind] \cup {id} |-> IF i = id THEN row ELSE mem[kind][i]]
        /\ \A k \in MemoryKinds \ {kind} : mem'[k] = mem[k]
    BY <2>3, <2>4 DEF Upserts, MemInv
  <2>6. id \in DOMAIN mem'[kind]  BY <2>5
  <2>7. ASSUME kind # "run"  PROVE RunsVouchForTheirMemory'
    BY <2>5, <2>7, CountedAreKinds, RunsVouchStill
  <2>8. CASE Storing(q)
    <3>1. PICK S, s : StoringIn(S, s, q)  BY <2>8 DEF Storing
    <3>2. s # <<>> /\ next = Head(s) /\ kind \in Counted
      <4>1. s # <<>> => Goes(S, s, q)  BY <3>1, StoringPlans, Zenon
      <4>2. s = <<>> => next.kind = "candidates"  BY <3>1, StoringPlans, Zenon
      <4>3. s # <<>>  BY <1>10, <4>2, Zenon
      <4>. QED  BY <2>2, <4>1, <4>3, Zenon DEF Goes
    <3>3. Storing(q)'
      <4>. HIDE DEF next
      <4>. QED  BY <1>2, <2>1, <2>2, <2>6, <3>1, <3>2, StoresOne DEF rest
    <3>. QED  BY <2>7, <3>2, <3>3, CountedAreKinds DEF Promises
  <2>9. CASE Recording(q)
    <3>1. AllStored(q) /\ Late(next, q) /\ Later(rest, q)  BY <1>5, <1>10, <2>9
    <3>2. Made(q)' = Made(q) /\ RunId(q)' = RunId(q)  BY <2>1 DEF Made, RunId
    <3>3. PICK S : Made(q) \in Seq(S) /\ \A e \in S : IsPiece(e)
      BY <1>2, MadeArePieces, Zenon DEF Made
    <3>. HIDE DEF next, rest
    <3>4. ASSUME NEW i \in DOMAIN Made(q)  PROVE Made(q)[i].id \in DOMAIN mem'[Made(q)[i].kind]
      <4>1. PICK e : e = Made(q)[i]  BY Zenon
      <4>2. e.kind \in MemoryKinds  BY <3>3, <4>1, CountedAreKinds DEF IsPiece
      <4>3. e.id \in DOMAIN mem[e.kind]  BY <3>1, <4>1, Zenon DEF AllStored, Stored
      <4>. QED  BY <4>1, <4>2, <4>3, Zenon DEF Grows
    <3>5. AllStored(q)'  BY <3>2, <3>4, Zenon DEF AllStored, Stored
    <3>6. Later(work[q].plan, q)'
      BY <2>1, <3>1, <3>2 DEF Later, Late
    <3>7. Promises(q)'  BY <3>5, <3>6 DEF Promises, Recording
    <3>8. CASE kind = "run"
      <4>1. id = RunId(q) /\ row.says = Count(work[q].row)
        BY <2>2, <3>1, <3>8, Zenon DEF Late
      <4>2. mem'["run"][id].says = Count(work[q].row)  BY <2>5, <3>8, <4>1
      <4>3. PICK connector : connector = work[q].row  BY Zenon
      <4>4. PICK tables, made : tables = mem' /\ made = RunLocalTextIngestion(id, connector)  BY Zenon
      <4>5. Vouches(tables, id)
        BY <1>2, <3>4, <4>1, <4>2, <4>3, <4>4, StoredVouches, Zenon DEF Made
      <4>6. ASSUME NEW run \in DOMAIN mem'["run"], run # id  PROVE Vouches(mem', run)
        <5>1. run \in DOMAIN mem["run"] /\ mem'["run"][run] = mem["run"][run]  BY <2>5, <3>8, <4>6
        <5>. QED  BY <5>1, VouchesStill DEF RunsVouchForTheirMemory
      <4>7. RunsVouchForTheirMemory'  BY <4>4, <4>5, <4>6 DEF RunsVouchForTheirMemory
      <4>. QED  BY <3>7, <4>7
    <3>. QED  BY <2>7, <3>7, <3>8
  <2>. QED  BY <1>3, <2>8, <2>9
<1>11. CASE work[q].plan # <<>> /\ next.kind = "run" /\ ProposeResolution(q)
  <2>1. PICK r \in work[q].rivals :
            Saves(q, "resolution", r.id, r.row, 500, work' = [work EXCEPT ![q].rivals = @ \ {r}] /\ UNCHANGED at)
    BY <1>11, Zenon DEF ProposeResolution
  <2>2. CASE mem' \in Upsert("resolution", r.id, r.row) /\ work' = [work EXCEPT ![q].rivals = @ \ {r}] /\ UNCHANGED at
    <3>1. Upserts("resolution", r.id, r.row)  BY <2>2, UpsertsAreScoped DEF MemoryKinds
    <3>2. mem'["run"] = mem["run"]  BY <3>1, CountedAreKinds DEF Upserts, MemInv
    <3>3. work'[q].plan = work[q].plan /\ work'[q].row = work[q].row
      <4>1. work'[q] = [work[q] EXCEPT !.rivals = work[q].rivals \ {r}]  BY <1>2, <2>2
      <4>. QED  BY <1>2, <4>1, HeldWith
    <3>4. Promises(q)'  BY <2>2, <3>3, PromisesStill
    <3>. QED  BY <3>2, <3>4, RunsVouchStill
  <2>. QED  BY <1>6, <2>1, <2>2, Zenon DEF Saves
<1>. HIDE DEF next, rest
<1>. QED
  <2>1. \/ work[q].plan = <<>> /\ RecordOutputs(q) /\ UNCHANGED mem
        \/ work[q].plan # <<>> /\ next.kind = "candidates" /\ ListCanonical(q)
        \/ work[q].plan # <<>> /\ next.kind = "ensure" /\ EnsureIngestionSubgraph(q, next.id)
        \/ work[q].plan # <<>> /\ next.kind = "run" /\ ProposeResolution(q)
        \/ /\ work[q].plan # <<>> /\ next.kind \notin {"candidates", "ensure"}
           /\ Saves(q, next.kind, next.id, next.row, 500, work' = [work EXCEPT ![q].plan = Tail(@)] /\ UNCHANGED at)
    BY PersistCases, Zenon DEF next
  <2>. QED  BY <1>6, <1>7, <1>8, <1>9, <1>10, <1>11, <2>1, Zenon DEF Saves

\* Every step keeps it.
LEMMA StepKeepsVouching ==
    ASSUME RecordInv, RecordInv', VouchInv, [MemNext]_allVars
    PROVE  VouchInv'
<1>. USE DEF RecordInv
<1>1. ASSUME mem' = mem  PROVE Grows /\ RunsVouchForTheirMemory'
  BY <1>1 DEF Grows, VouchInv, RunsVouchForTheirMemory
<1>2. CASE UNCHANGED allVars
  <2>1. mem' = mem /\ at' = at /\ work' = work  BY <1>2 DEF allVars, vars, memVars
  <2>. QED  BY <1>1, <2>1, PromisesStill DEF VouchInv
<1>3. CASE Next /\ UNCHANGED memVars
  <2>1. mem' = mem /\ work' = work  BY <1>3 DEF memVars
  <2>2. CASE UNCHANGED <<at, rows>>
    BY <1>1, <2>1, <2>2, PromisesStill DEF VouchInv
  <2>3. ASSUME NEW q \in DOMAIN at, RecordMove(q)  PROVE VouchInv'
    <3>1. DOMAIN at' = DOMAIN at /\ \A o \in DOMAIN at : o # q => at'[o] = at[o]
      BY <2>3 DEF RecordMove, MovesTo, Alone
    <3>2. at'[q].pc # "persist"
      BY <2>3 DEF RecordMove, MovesTo
    <3>3. ASSUME NEW o \in DOMAIN at, o # q  PROVE Promises(o)'
      BY <1>1, <2>1, <3>1, <3>3, PromisesStill DEF VouchInv
    <3>4. Promises(q)'  BY <3>2 DEF Promises
    <3>. QED  BY <1>1, <2>1, <3>1, <3>3, <3>4 DEF VouchInv
  <2>4. Tables  BY DEF RowsInv
  <2>. QED  BY <1>3, <2>2, <2>3, <2>4, RecordsMove
<1>4. ASSUME NEW q \in DOMAIN at, MemoryMove(q), Promises(q)', RunsVouchForTheirMemory'
      PROVE  VouchInv'
  <2>1. Grows  BY <1>4, MovesGrow
  <2>2. DOMAIN at' = DOMAIN at /\ \A o \in DOMAIN at : o # q => at'[o] = at[o] /\ work'[o] = work[o]
    BY <1>4 DEF MemoryMove, MovesTo, Alone
  <2>3. ASSUME NEW o \in DOMAIN at, o # q  PROVE Promises(o)'
    BY <2>1, <2>2, <2>3, PromisesStill DEF VouchInv
  <2>. QED  BY <1>4, <2>2, <2>3 DEF VouchInv
<1>5. ASSUME NEW q \in DOMAIN at,
             \/ CreateMemory(q) \/ Activate(q) \/ ReviewEntityResolution(q) \/ ReviewClaimConflict(q)
             \/ ReviewClaim(q) \/ DetectClaimConflicts(q)
      PROVE  VouchInv'
  <2>1. MemoryMove(q)
    BY <1>5, CreateMemoryMoves, ActivateMoves, ReviewMoves, ReviewClaimMoves, DetectMoves
  <2>2. mem'["run"] = mem["run"] /\ ~Ingests(q)  BY <1>5, RunsSpared
  <2>3. RunsVouchForTheirMemory'  BY <2>1, <2>2, MovesGrow, RunsVouchStill DEF VouchInv
  <2>4. Promises(q)'
    <3>1. WorkOK(q)'  BY <2>1 DEF MemoryMove
    <3>2. at'[q].pc # "persist"  BY <2>2, <3>1 DEF WorkOK, HoldsRun, Ingests
    <3>. QED  BY <3>2 DEF Promises
  <2>. QED  BY <1>4, <2>1, <2>3, <2>4
<1>6. ASSUME NEW q \in DOMAIN at, RunConnector(q)  PROVE VouchInv'
  <2>1. MemoryMove(q)  BY <1>6, RunConnectorMoves
  <2>2. mem' = mem /\ Promises(q)'  BY <1>6, RunConnectorPromises
  <2>. QED  BY <1>1, <1>4, <2>1, <2>2
<1>7. ASSUME NEW q \in DOMAIN at, Persist(q)  PROVE VouchInv'
  <2>1. MemoryMove(q)  BY <1>7, PersistMoves
  <2>2. Grows  BY <2>1, MovesGrow
  <2>3. RunsVouchForTheirMemory' /\ Promises(q)'  BY <1>7, <2>2, PersistPromises DEF VouchInv
  <2>. QED  BY <1>4, <2>1, <2>3
<1>. QED  BY <1>2, <1>3, <1>5, <1>6, <1>7, Zenon DEF MemNext

\* Nothing is being ingested yet, and the runs stored before vouch.
LEMMA InitVouching == MemInit => VouchInv
<1>. SUFFICES ASSUME MemInit  PROVE VouchInv
  OBVIOUS
<1>1. \A q \in DOMAIN at : Promises(q)
  <2>1. \E requests : at = [q \in requests |-> Arrived]  BY DEF MemInit, Init
  <2>2. Arrived.pc # "persist"  BY DEF Arrived
  <2>3. \A q \in DOMAIN at : at[q].pc # "persist"  BY <2>1, <2>2
  <2>. QED  BY <2>3, Zenon DEF Promises
<1>2. CASE mem = [k \in MemoryKinds |-> [i \in {} |-> Blank]]
  <2>1. DOMAIN mem["run"] = {}  BY <1>2, CountedAreKinds
  <2>. QED  BY <1>1, <2>1 DEF VouchInv, RunsVouchForTheirMemory
<1>3. CASE \E batch \in MemoryBatches : mem = MemoryTables(batch.stored)
  BY <1>1, <1>3, MemoryBatchAssumption, Zenon DEF VouchInv, RunsVouchForTheirMemory
<1>. QED  BY <1>2, <1>3, Zenon DEF MemInit

\* A stored ingestion run has stored everything it counts, whatever statement
\* of whatever run failed, and whatever requests are served meanwhile: its row
\* comes last (persist_output) and counts what came before.
THEOREM RunsVouch == MemSpec => []RunsVouchForTheirMemory
<1>1. RecordInv /\ RecordInv' /\ VouchInv /\ [MemNext]_allVars => VouchInv'
  BY StepKeepsVouching
<1>2. VouchInv => RunsVouchForTheirMemory
  BY DEF VouchInv
<1>. QED  BY <1>1, <1>2, InitVouching, RecordInvariant, PTL DEF MemSpec
=============================================================================
