------------------------------ MODULE Projects ------------------------------
(***************************************************************************)
(* Requests of several projects against one database: the authentication   *)
(* middleware and the handlers of crates/api/src/http/internal.rs,         *)
(* automations.rs and graphs.rs with the statements they run, from         *)
(* crates/postgres/src projects.rs, service_accounts.rs,                   *)
(* job_definitions.rs, workflows.rs, automations.rs, graphs.rs, agents.rs  *)
(* and repositories.rs.                                                    *)
(*                                                                         *)
(* Every request is a process and every statement a step.  A request is    *)
(* [n, token, op, header, id, ref, text]: `header` the project it names in *)
(* its header or, for a membership, in its path; `id` the record, account  *)
(* or member it is about; `ref` what that record refers to; `text` its     *)
(* content (of a membership the role).                                     *)
(***************************************************************************)
EXTENDS Permissions, FiniteSets

CONSTANTS
    Batches,        \* requests in flight together, and the records stored before: [requests, stored]
    Tokens,         \* token -> [how: "none" | "credential" | "oidc" | "account", ...]
    Ids,            \* record identifiers
    Members0,       \* project -> <<kind, name>> -> stored role
    Accounts0,      \* account -> [name, project, role, scopes, state, expires]
    Default,        \* the project a row without one belongs to
    MaxFaults       \* store failures in a behaviour

VARIABLES
    at,             \* request -> [pc, principal, context, seen, status]
    members,        \* project_memberships
    accounts,       \* service_accounts
    rows,           \* kind -> id -> row
    audit,          \* audit_events
    faults

vars == <<at, members, accounts, rows, audit, faults>>

Kinds == {"job_definition", "workflow", "automation", "plugin", "graph", "agent", "agent_run", "job_run"}

\* A row: its project, its content, what it refers to, and the role its last
\* writer had in that project (a history variable).
NoRow == [project |-> NoProject, text |-> "", ref |-> "", role |-> "viewer"]

Nobody == OidcPrincipal("anonymous", "viewer", Default)

Arrived == [pc |-> "authenticate", principal |-> Nobody, context |-> NoContext, seen |-> "", status |-> 0]

StoredRows(batch) ==
    [k \in Kinds |-> [i \in Ids |-> IF <<k, i>> \in DOMAIN batch.stored THEN batch.stored[<<k, i>>] ELSE NoRow]]

\* The records stored before are ones that requests have left, and a request
\* for a workflow names a job definition by an identifier.
ASSUME BatchAssumption ==
    \A batch \in Batches :
        /\ \A id \in Ids :
              LET definition == StoredRows(batch)["job_definition"][id]
                  workflow   == StoredRows(batch)["workflow"][id]
              IN /\ definition # NoRow => AllowedTo(definition.role, <<"jobs", "write">>)
                 /\ workflow # NoRow =>
                       /\ AllowedTo(workflow.role, <<"workflows", "write">>)
                       /\ workflow.ref \in Ids
                       /\ StoredRows(batch)["job_definition"][workflow.ref] # NoRow
                       /\ StoredRows(batch)["job_definition"][workflow.ref].project = workflow.project
        /\ \A q \in batch.requests : q.op \in {"createWorkflow", "updateWorkflow"} => q.ref \in Ids

Init ==
    /\ \E batch \in Batches : at = [q \in batch.requests |-> Arrived] /\ rows = StoredRows(batch)
    /\ members = Members0
    /\ accounts = Accounts0
    /\ audit = {}
    /\ faults = 0

At(q, pc) == at[q].pc = pc
Exists(kind, id) == rows[kind][id] # NoRow
Context(q) == at[q].context

Respond(q, status) == at' = [at EXCEPT ![q].pc = "respond", ![q].status = status]
Proceed(q, pc) == at' = [at EXCEPT ![q].pc = pc]

-----------------------------------------------------------------------------
(***************************************************************************)
(* The middleware: who calls, in which projects, and whether it may.       *)
(***************************************************************************)
\* authenticate_service_account_hash
LiveAccounts(table) == {a \in DOMAIN table : table[a].state = "live"}

AuditEvent(q, status) ==
    [principal |-> at[q].principal.name, op |-> q.op, project |-> Context(q).project, status |-> status]

\* audit_auth_failure, and the answer without a handler.
Refuse(q, status) ==
    /\ at' = [at EXCEPT ![q].pc = "done", ![q].status = status]
    /\ audit' = audit \cup {AuditEvent(q, status)}

Authenticate(q) ==
    LET token == Tokens[q.token]
        Known(principal) == /\ at' = [at EXCEPT ![q].pc = "hydrate", ![q].principal = principal]
                            /\ UNCHANGED audit
    IN /\ At(q, "authenticate")
       /\ \/ token.how = "none" /\ Refuse(q, 401)
          \/ token.how = "credential" /\ Known(CredentialPrincipal(token))
          \/ token.how = "oidc" /\ Known(OidcPrincipal(token.name, token.role, Default))
          \/ /\ token.how = "account"
             /\ IF token.account \in LiveAccounts(accounts)
                THEN Known(ServiceAccountPrincipal(accounts[token.account]))
                ELSE Refuse(q, 401)
       /\ UNCHANGED <<members, accounts, rows, faults>>

\* list_principal_project_memberships
StoredMemberships(principal) ==
    LET key == <<principal.kind, principal.name>>
    IN [p \in {p \in DOMAIN members : key \in DOMAIN members[p]} |-> members[p][key]]

\* The memberships are read once; the rest of the request keeps them.  A
\* project the caller is no member of is refused without an audit event.
Authorize(q) ==
    LET principal == Hydrate(at[q].principal, StoredMemberships(at[q].principal))
        endpoint  == EndpointContracts[q.op]
        context   == EndpointProjectContext(endpoint, q.header, q.header, principal)
        known     == [at[q] EXCEPT !.principal = principal, !.context = context]
    IN /\ At(q, "hydrate")
       /\ \/ /\ endpoint.ownership # "unscoped"
             /\ context = NoContext
             /\ at' = [at EXCEPT ![q] = [known EXCEPT !.pc = "done", !.status = 403]]
             /\ UNCHANGED audit
          \/ /\ endpoint.ownership # "unscoped" => context # NoContext
             /\ ~Authorized(endpoint, context, principal)
             /\ at' = [at EXCEPT ![q] = [known EXCEPT !.pc = "done", !.status = 403]]
             /\ audit' = audit \cup {[principal |-> principal.name, op |-> q.op, project |-> context.project, status |-> 403]}
          \/ /\ Authorized(endpoint, context, principal)
             /\ at' = [at EXCEPT ![q] = [known EXCEPT !.pc = "handle"]]
             /\ UNCHANGED audit
       /\ UNCHANGED <<members, accounts, rows, faults>>

\* The handler has answered: a request that is not a read leaves an event,
\* unless the store fails, which is only logged.
Answer(q) ==
    /\ At(q, "respond")
    /\ at' = [at EXCEPT ![q].pc = "done"]
    /\ \/ /\ EndpointContracts[q.op].method = "GET"
          /\ UNCHANGED <<audit, faults>>
       \/ /\ EndpointContracts[q.op].method # "GET"
          /\ audit' = audit \cup {AuditEvent(q, at[q].status)}
          /\ UNCHANGED faults
       \/ /\ EndpointContracts[q.op].method # "GET"
          /\ faults < MaxFaults
          /\ faults' = faults + 1
          /\ UNCHANGED audit
    /\ UNCHANGED <<members, accounts, rows>>

-----------------------------------------------------------------------------
(***************************************************************************)
(* Memberships and service accounts.                                       *)
(***************************************************************************)
\* The handlers of the three membership endpoints: the caller's own project
\* must be one of its projects, then it must be an administrator of the path's.
MayManage(q) ==
    /\ ProjectContext(NoProject, at[q].principal) # NoContext
    /\ RequireProjectAdmin(at[q].principal, q.header)

ListProjectMemberships(q) ==
    /\ At(q, "handle") /\ q.op = "listProjectMemberships"
    /\ Respond(q, IF MayManage(q) THEN 200 ELSE 403)
    /\ UNCHANGED <<members, accounts, rows, audit, faults>>

UpsertProjectMembership(q) ==
    /\ At(q, "handle") /\ q.op = "upsertProjectMembership"
    /\ IF MayManage(q) /\ q.text \in Roles
       THEN /\ members' = [members EXCEPT ![q.header] = (q.id :> q.text) @@ @]
            /\ Respond(q, 200)
       ELSE /\ Respond(q, IF MayManage(q) THEN 400 ELSE 403)
            /\ UNCHANGED members
    /\ UNCHANGED <<accounts, rows, audit, faults>>

DeleteProjectMembership(q) ==
    /\ At(q, "handle") /\ q.op = "deleteProjectMembership"
    /\ IF MayManage(q) /\ q.id \in DOMAIN members[q.header]
       THEN /\ members' = [members EXCEPT ![q.header] = [k \in DOMAIN @ \ {q.id} |-> @[k]]]
            /\ Respond(q, 204)
       ELSE /\ Respond(q, IF MayManage(q) THEN 400 ELSE 403)
            /\ UNCHANGED members
    /\ UNCHANGED <<accounts, rows, audit, faults>>

\* The account belongs to the caller's project; an identifier in use fails the
\* insert.
CreateServiceAccount(q) ==
    /\ At(q, "handle") /\ q.op = "createServiceAccount"
    /\ IF accounts[q.id].state = "absent" /\ q.text \in Roles
       THEN /\ accounts' = [accounts EXCEPT ![q.id] = [name |-> q.id, project |-> Context(q).project, role |-> q.text,
                                                       scopes |-> ScopeStringsForRole(q.text), state |-> "live",
                                                       expires |-> q.ref = "expires"]]
            /\ Respond(q, 201)
       ELSE Respond(q, 400) /\ UNCHANGED accounts
    /\ UNCHANGED <<members, rows, audit, faults>>

RevokeServiceAccount(q) ==
    /\ At(q, "handle") /\ q.op = "revokeServiceAccount"
    /\ IF accounts[q.id].state # "absent" /\ accounts[q.id].project = Context(q).project
       THEN accounts' = [accounts EXCEPT ![q.id].state = "revoked"] /\ Respond(q, 204)
       ELSE Respond(q, 404) /\ UNCHANGED accounts
    /\ UNCHANGED <<members, rows, audit, faults>>

\* Time passes an account's expiry.
Expire(a) ==
    /\ accounts[a].state = "live" /\ accounts[a].expires
    /\ accounts' = [accounts EXCEPT ![a].state = "expired"]
    /\ UNCHANGED <<at, members, rows, audit, faults>>

-----------------------------------------------------------------------------
(***************************************************************************)
(* Statements on a table of records.                                       *)
(***************************************************************************)
\* require_resource_project: a missing record and one of another project look
\* the same.
Owned(q, kind, id) == Exists(kind, id) /\ rows[kind][id].project = Context(q).project

\* What is checked before a create whose identifier the caller may choose.
NotForeign(q, kind) == Exists(kind, q.id) => Owned(q, kind, q.id)

Row(q, project) == [project |-> project, text |-> q.text, ref |-> q.ref, role |-> Context(q).role]

\* (mutant) The conflicting row is updated whatever its project.
UpsertAnywhere(q, kind, table) ==
    {[table EXCEPT ![kind][q.id] = Row(q, IF @ = NoRow THEN Context(q).project ELSE @.project)]}

\* INSERT .. ON CONFLICT (id) DO UPDATE .. WHERE the project is the same: the
\* table afterwards, or nothing when no row was affected.
UpsertInProject(q, kind, table) ==
    IF table[kind][q.id] = NoRow \/ table[kind][q.id].project = Context(q).project
    THEN {[table EXCEPT ![kind][q.id] = Row(q, Context(q).project)]} ELSE {}

\* INSERT .. ON CONFLICT (id) DO UPDATE: a new row is in the default project,
\* one that is there stays where it is.
UpsertById(q, kind, table) ==
    [table EXCEPT ![kind][q.id] = Row(q, IF @ = NoRow THEN Default ELSE @.project)]

\* Nothing is deleted that another record refers to.
Referrers(kind, id) ==
    {k \in Kinds : \E i \in Ids : Exists(k, i) /\ rows[k][i].ref = id
                      /\ <<k, kind>> \in {<<"workflow", "job_definition">>, <<"job_run", "job_definition">>,
                                        <<"automation", "workflow">>, <<"agent", "graph">>, <<"agent_run", "agent">>}}

DeleteRow(q, kind, mine) ==
    IF Referrers(kind, q.id) # {} THEN Respond(q, 500) /\ UNCHANGED rows
    ELSE IF Exists(kind, q.id) /\ mine
         THEN rows' = [rows EXCEPT ![kind][q.id] = NoRow] /\ Respond(q, 204)
    ELSE Respond(q, 404) /\ UNCHANGED rows

\* set_resource_project
AssignProject(q, kind) ==
    rows' = IF Exists(kind, q.id) THEN [rows EXCEPT ![kind][q.id].project = Context(q).project] ELSE rows

Enters(q, op) == At(q, "handle") /\ q.op = op /\ UNCHANGED <<members, accounts, audit, faults>>
Writes(q, op) == At(q, "write") /\ q.op = op /\ UNCHANGED <<members, accounts, audit, faults>>
Assigns(q, op) == At(q, "assign") /\ q.op = op /\ UNCHANGED <<members, accounts, audit, faults>>

May(q, role) == RequireProjectRole(Context(q), role)

\* The checks of a handler, before its first write.
Check(q, role, ok) ==
    /\ IF May(q, role) /\ ok THEN Proceed(q, "write") ELSE Respond(q, IF May(q, role) THEN 404 ELSE 403)
    /\ UNCHANGED rows

Upserted(q, kind, status) ==
    LET after == UpsertInProject(q, kind, rows)
    IN IF after = {} THEN Respond(q, 404) /\ UNCHANGED rows
       ELSE rows' \in after /\ Respond(q, status)

-----------------------------------------------------------------------------
(***************************************************************************)
(* Job definitions and workflows: the project is in every statement.       *)
(* Whether a run is using one (`locked`) is any answer: the runs are those *)
(* of WorkflowRuns.                                                        *)
(***************************************************************************)
CreateJobDefinition(q) ==
    \/ Enters(q, "createJobDefinition")
       /\ Check(q, DefinitionHandlerRole[q.op], NotForeign(q, "job_definition"))
    \/ Writes(q, "createJobDefinition") /\ Upserted(q, "job_definition", 201)

UpdateJobDefinition(q) ==
    \/ \E locked \in BOOLEAN :
          Enters(q, "updateJobDefinition")
          /\ Check(q, DefinitionHandlerRole[q.op], Owned(q, "job_definition", q.id) /\ ~locked)
    \/ Writes(q, "updateJobDefinition") /\ Upserted(q, "job_definition", 200)

DeleteJobDefinition(q) ==
    \/ /\ Enters(q, "deleteJobDefinition")
       /\ Check(q, DefinitionHandlerRole[q.op],
                Owned(q, "job_definition", q.id) /\ "workflow" \notin Referrers("job_definition", q.id))
    \/ /\ Writes(q, "deleteJobDefinition")
       /\ DeleteRow(q, "job_definition", rows["job_definition"][q.id].project = Context(q).project)

\* (mutant) The check made before the transaction is relied on.
JobsAsChecked(q) == TRUE

\* lock_workflow_jobs: the steps' definitions are looked up again, in the
\* project, and held until the workflow is written.
LockWorkflowJobs(q) == Owned(q, "job_definition", q.ref)

WriteWorkflow(q, status) ==
    IF LockWorkflowJobs(q) /\ Exists("job_definition", q.ref) THEN Upserted(q, "workflow", status)
    ELSE Respond(q, 404) /\ UNCHANGED rows

CreateWorkflow(q) ==
    \/ Enters(q, "createWorkflow")
       /\ Check(q, DefinitionHandlerRole[q.op], NotForeign(q, "workflow") /\ Owned(q, "job_definition", q.ref))
    \/ Writes(q, "createWorkflow") /\ WriteWorkflow(q, 201)

UpdateWorkflow(q) ==
    \/ \E locked \in BOOLEAN :
          Enters(q, "updateWorkflow")
          /\ Check(q, DefinitionHandlerRole[q.op],
                   Owned(q, "workflow", q.id) /\ ~locked /\ Owned(q, "job_definition", q.ref))
    \/ Writes(q, "updateWorkflow") /\ WriteWorkflow(q, 200)

DeleteWorkflow(q) ==
    \/ \E locked \in BOOLEAN :
          Enters(q, "deleteWorkflow")
          /\ Check(q, DefinitionHandlerRole[q.op],
                   Owned(q, "workflow", q.id) /\ ~locked /\ Referrers("workflow", q.id) = {})
    \/ /\ Writes(q, "deleteWorkflow")
       /\ DeleteRow(q, "workflow", rows["workflow"][q.id].project = Context(q).project)

-----------------------------------------------------------------------------
(***************************************************************************)
(* Automations, plugins, graphs, agents and their runs, and job runs: the  *)
(* row is written by its identifier and given to the project in a second   *)
(* statement.                                                              *)
(***************************************************************************)
WriteThenAssign(q, kind) == rows' = UpsertById(q, kind, rows) /\ Proceed(q, "assign")

Assigned(q, kind) == AssignProject(q, kind) /\ Respond(q, 201)

\* The triggers are replaced by a third statement; they are those of Triggers.
CreateAutomation(q) ==
    \/ Enters(q, "createAutomation")
       /\ Check(q, "operator", NotForeign(q, "automation") /\ Owned(q, "workflow", q.ref))
    \/ /\ Writes(q, "createAutomation")
       /\ IF Exists("workflow", q.ref) THEN WriteThenAssign(q, "automation")
          ELSE Respond(q, 500) /\ UNCHANGED rows
    \/ Assigns(q, "createAutomation") /\ Assigned(q, "automation")

UpdateAutomation(q) ==
    \/ Enters(q, "updateAutomation")
       /\ Check(q, "operator", Owned(q, "automation", q.id) /\ Owned(q, "workflow", q.ref))
    \/ /\ Writes(q, "updateAutomation")
       /\ IF Exists("workflow", q.ref) THEN rows' = UpsertById(q, "automation", rows) /\ Respond(q, 200)
          ELSE Respond(q, 500) /\ UNCHANGED rows

SetAutomationStatus(q) ==
    \/ Enters(q, "enableAutomation") /\ Check(q, "operator", Owned(q, "automation", q.id))
    \/ /\ Writes(q, "enableAutomation")
       /\ IF Exists("automation", q.id)
          THEN rows' = [rows EXCEPT !["automation"][q.id].text = q.text] /\ Respond(q, 200)
          ELSE Respond(q, 404) /\ UNCHANGED rows

DeleteAutomation(q) ==
    \/ Enters(q, "deleteAutomation") /\ Check(q, "admin", Owned(q, "automation", q.id))
    \/ Writes(q, "deleteAutomation") /\ DeleteRow(q, "automation", TRUE)

CreateTriggerPlugin(q) ==
    \/ Enters(q, "createTriggerPlugin") /\ Check(q, "operator", NotForeign(q, "plugin"))
    \/ Writes(q, "createTriggerPlugin") /\ WriteThenAssign(q, "plugin")
    \/ Assigns(q, "createTriggerPlugin") /\ Assigned(q, "plugin")

CreateGraph(q) ==
    \/ Enters(q, "createGraph") /\ Check(q, "viewer", NotForeign(q, "graph"))
    \/ Writes(q, "createGraph") /\ WriteThenAssign(q, "graph")
    \/ Assigns(q, "createGraph") /\ Assigned(q, "graph")

\* upsert_agent saves the graph it was given, as it was when the handler read
\* it, in a transaction of its own, then the agent.
CreateAgent(q) ==
    \/ /\ Enters(q, "createAgent")
       /\ IF Owned(q, "graph", q.ref) /\ NotForeign(q, "agent")
          THEN at' = [at EXCEPT ![q].pc = "write", ![q].seen = rows["graph"][q.ref].text]
          ELSE Respond(q, 404)
       /\ UNCHANGED rows
    \/ /\ Writes(q, "createAgent")
       /\ rows' = [rows EXCEPT !["graph"][q.ref].text = at[q].seen]
       /\ Proceed(q, "agent")
    \/ /\ At(q, "agent")
       /\ WriteThenAssign(q, "agent")
       /\ UNCHANGED <<members, accounts, audit, faults>>
    \/ Assigns(q, "createAgent") /\ Assigned(q, "agent")

StartAgentRun(q) ==
    \/ Enters(q, "startAgentRun")
       /\ Check(q, "viewer", Owned(q, "agent", q.ref) /\ NotForeign(q, "agent_run"))
    \/ Writes(q, "startAgentRun") /\ WriteThenAssign(q, "agent_run")
    \/ Assigns(q, "startAgentRun") /\ Assigned(q, "agent_run")

\* JobRunRepository::save, over a run that is still queued: its definition is
\* not among the columns replaced.
SaveRun(q, table) ==
    [table EXCEPT !["job_run"][q.id] =
        IF @ = NoRow THEN Row(q, Default) ELSE [@ EXCEPT !.text = q.text, !.role = Context(q).role]]

\* A run that is there is never taken.
CreateRun(q) ==
    \/ Enters(q, "createJobRun")
       /\ Check(q, "operator", ~Exists("job_run", q.id) /\ Owned(q, "job_definition", q.ref))
    \/ /\ Writes(q, "createJobRun")
       /\ IF Exists("job_definition", q.ref) THEN rows' = SaveRun(q, rows) /\ Proceed(q, "assign")
          ELSE Respond(q, 500) /\ UNCHANGED rows
    \/ Assigns(q, "createJobRun") /\ Assigned(q, "job_run")

-----------------------------------------------------------------------------
\* Any statement may fail; what was written before it stays.
StoreFails(q) ==
    /\ at[q].pc \notin {"authenticate", "respond", "done"}
    /\ faults < MaxFaults
    /\ faults' = faults + 1
    /\ at' = [at EXCEPT ![q].pc = IF @ = "hydrate" THEN "done" ELSE "respond", ![q].status = 500]
    /\ UNCHANGED <<members, accounts, rows, audit>>

Next ==
    \/ \E q \in DOMAIN at : Authenticate(q)
    \/ \E q \in DOMAIN at : Authorize(q)
    \/ \E q \in DOMAIN at : Answer(q)
    \/ \E q \in DOMAIN at : StoreFails(q)
    \/ \E q \in DOMAIN at : ListProjectMemberships(q)
    \/ \E q \in DOMAIN at : UpsertProjectMembership(q)
    \/ \E q \in DOMAIN at : DeleteProjectMembership(q)
    \/ \E q \in DOMAIN at : CreateServiceAccount(q)
    \/ \E q \in DOMAIN at : RevokeServiceAccount(q)
    \/ \E q \in DOMAIN at : CreateJobDefinition(q)
    \/ \E q \in DOMAIN at : UpdateJobDefinition(q)
    \/ \E q \in DOMAIN at : DeleteJobDefinition(q)
    \/ \E q \in DOMAIN at : CreateWorkflow(q)
    \/ \E q \in DOMAIN at : UpdateWorkflow(q)
    \/ \E q \in DOMAIN at : DeleteWorkflow(q)
    \/ \E q \in DOMAIN at : CreateAutomation(q)
    \/ \E q \in DOMAIN at : UpdateAutomation(q)
    \/ \E q \in DOMAIN at : SetAutomationStatus(q)
    \/ \E q \in DOMAIN at : DeleteAutomation(q)
    \/ \E q \in DOMAIN at : CreateTriggerPlugin(q)
    \/ \E q \in DOMAIN at : CreateGraph(q)
    \/ \E q \in DOMAIN at : CreateAgent(q)
    \/ \E q \in DOMAIN at : StartAgentRun(q)
    \/ \E q \in DOMAIN at : CreateRun(q)
    \/ \E a \in DOMAIN accounts : Expire(a)

Spec == Init /\ [][Next]_vars

-----------------------------------------------------------------------------
(***************************************************************************)
(* Properties.                                                             *)
(***************************************************************************)
\* A job definition or workflow, once stored, stays in its project and is
\* changed or deleted only by a request whose own project that is, however
\* the checks and the writes of concurrent requests interleave (the project
\* conditions of upsert_job_definition_in_project and
\* upsert_workflow_in_project, and of the two deletes).
ScopedRowsKeepTheirProject ==
    [][\A kind \in {"job_definition", "workflow"}, id \in Ids :
          Exists(kind, id) /\ rows'[kind][id] # rows[kind][id] =>
             /\ rows'[kind][id].project \in {NoProject, rows[kind][id].project}
             /\ \E q \in DOMAIN at : at'[q] # at[q] /\ Context(q).project = rows[kind][id].project]_vars

\* The job definitions a stored workflow's steps name exist, in the
\* workflow's own project, although the handler checked them in an earlier
\* statement and they may have been deleted and created again by another
\* project since (lock_workflow_jobs).
StepsStayInProject ==
    \A id \in Ids : Exists("workflow", id) =>
        LET workflow == rows["workflow"][id]
        IN Exists("job_definition", workflow.ref) /\ rows["job_definition"][workflow.ref].project = workflow.project

\* Whoever last wrote a job definition or workflow had, in the project the row
\* is in, a role the registry asks for that operation, although the handlers
\* ask for less and the caller's scopes come from all its projects
\* (require_auth).
WritersWereAllowed ==
    \A id \in Ids :
        /\ Exists("job_definition", id) => AllowedTo(rows["job_definition"][id].role, <<"jobs", "write">>)
        /\ Exists("workflow", id) => AllowedTo(rows["workflow"][id].role, <<"workflows", "write">>)

\* Once a create has been answered with a run, no other create changes that
\* run's input or its project (the comment of create_run).
CreatedRunsKept ==
    [][\A q \in DOMAIN at : q.op = "createJobRun" /\ at[q].status = 201 =>
          rows'["job_run"][q.id] = rows["job_run"][q.id]]_vars
=============================================================================
