---------------------------- MODULE Permissions ----------------------------
(***************************************************************************)
(* Who may do what: crates/api/src/auth.rs, the endpoint registry of       *)
(* crates/api/src/endpoint_contract.rs and the project context of          *)
(* crates/api/src/http/internal.rs.                                        *)
(*                                                                         *)
(* One tenant.  A permission and a scope are pairs <<resource, action>>;   *)
(* <<"*", "*">> is the scope "*".  A principal is [name, kind, admin,      *)
(* project, members, scopes, restricted]: `members` the projects it has a  *)
(* role in, as a function to the role.                                     *)
(***************************************************************************)
EXTENDS Naturals, TLC

-----------------------------------------------------------------------------
(***************************************************************************)
(* Roles and permissions.                                                  *)
(***************************************************************************)
Roles == {"viewer", "operator", "admin"}

Rank(role) == CASE role = "viewer" -> 0 [] role = "operator" -> 1 [] role = "admin" -> 2

Anyone == "anyone"      \* a permission that asks for no role

Permission ==
    {<<"public", "access">>, <<"auth", "read">>}
    \cup ({"audit", "system", "jobs", "workflows", "automations", "graphs", "agents", "memory", "connectors",
           "review", "certificates", "ingestion"} \X {"read"})
    \cup {<<"jobs", "run">>, <<"jobs", "cancel">>}
    \cup ({"workflows", "automations", "agents", "reasoning", "ingestion"} \X {"operate"})
    \cup ({"auth", "system", "jobs", "workflows", "automations", "graphs", "agents", "memory", "connectors",
           "review", "project-members", "service-accounts"} \X {"write"})

MinimumProjectRole(permission) ==
    CASE permission \in {<<"public", "access">>, <<"auth", "read">>} -> Anyone
      [] permission \notin {<<"public", "access">>, <<"auth", "read">>} /\ permission[2] = "read" -> "viewer"
      [] permission[2] \in {"run", "cancel", "operate"} -> "operator"
      [] permission[2] = "write" -> "admin"

AllowedTo(role, permission) ==
    LET minimum == MinimumProjectRole(permission)
    IN minimum = Anyone \/ Rank(role) >= Rank(minimum)

-----------------------------------------------------------------------------
(***************************************************************************)
(* Principals.                                                             *)
(***************************************************************************)
Everything == <<"*", "*">>

ProjectScopesForRole(role) == {p \in Permission : p # <<"public", "access">> /\ AllowedTo(role, p)}

ScopeStringsForRole(role) == IF role = "admin" THEN {Everything} ELSE ProjectScopesForRole(role)

HasScope(principal, permission) ==
    \/ principal.admin
    \/ \E s \in principal.scopes : s \in {Everything, permission, <<permission[1], "*">>}

NoMembers == [p \in {} |-> "viewer"]

\* principal_from_claims: an administrator of the identity provider is one of
\* the platform; whoever it names no role for is a viewer, of no project.
OidcPrincipal(name, role, home) ==
    [name |-> name, kind |-> "user", admin |-> role = "admin", project |-> home, members |-> NoMembers,
     scopes |-> ScopeStringsForRole(role), restricted |-> FALSE]

\* authenticate_service_token: scopes given with the credential are a ceiling.
CredentialPrincipal(c) ==
    [name |-> c.name, kind |-> "user", admin |-> c.role = "admin", project |-> c.project,
     members |-> c.project :> c.role, scopes |-> IF c.scopes = {} THEN ScopeStringsForRole(c.role) ELSE c.scopes,
     restricted |-> c.scopes # {}]

\* A service account is never a platform administrator.
ServiceAccountPrincipal(a) ==
    [name |-> a.name, kind |-> "service_account", admin |-> FALSE, project |-> a.project,
     members |-> a.project :> a.role, scopes |-> a.scopes, restricted |-> TRUE]

WithProjectMemberships(principal, members) ==
    [principal EXCEPT
        !.members = members,
        !.scopes  = IF principal.restricted \/ Everything \in @ THEN @
                    ELSE @ \cup UNION {ProjectScopesForRole(members[p]) : p \in DOMAIN members}]

\* hydrate_project_memberships: the principal's own membership wins, and a
\* stored role this build does not know grants nothing.
Hydrate(principal, stored) ==
    LET known == {p \in DOMAIN stored : stored[p] \in Roles}
    IN WithProjectMemberships(principal, principal.members @@ [p \in known |-> stored[p]])

-----------------------------------------------------------------------------
(***************************************************************************)
(* The project a request is about.  NoProject is a header that is not      *)
(* there; a context is [project, role], or NoContext when access is        *)
(* refused.                                                                *)
(***************************************************************************)
NoProject == "no project"
NoContext == [project |-> NoProject, role |-> "viewer"]

ProjectContext(header, principal) ==
    LET wanted == IF header = NoProject THEN principal.project ELSE header
    IN IF principal.admin THEN [project |-> wanted, role |-> "admin"]
       ELSE IF wanted \in DOMAIN principal.members THEN [project |-> wanted, role |-> principal.members[wanted]]
       ELSE NoContext

RequireProjectRole(context, minimum) == context # NoContext /\ Rank(context.role) >= Rank(minimum)

RequireProjectAdmin(principal, project) ==
    principal.admin \/ (project \in DOMAIN principal.members /\ principal.members[project] = "admin")

-----------------------------------------------------------------------------
(***************************************************************************)
(* The endpoint registry, ENDPOINTS: for every operation its method, the   *)
(* permission it asks for and where its project comes from.                *)
(***************************************************************************)
Endpoint(method, permission, ownership, operations) ==
    [method |-> method, permission |-> permission, ownership |-> ownership, operations |-> operations]

PublicEndpoints ==
    {Endpoint("GET", <<"public", "access">>, "unscoped", {"getHealth", "getLiveness",
              "getReadiness", "getMetrics", "getOpenApi"}),
     Endpoint("POST", <<"public", "access">>, "unscoped", {"ingestWebhook"})}

IdentityEndpoints ==
    {Endpoint("GET", <<"auth", "read">>, "unscoped", {"getCurrentPrincipal", "listProjects"}),
     Endpoint("GET", <<"project-members", "write">>, "path", {"listProjectMemberships"}),
     Endpoint("POST", <<"project-members", "write">>, "path", {"upsertProjectMembership"}),
     Endpoint("DELETE", <<"project-members", "write">>, "path", {"deleteProjectMembership"}),
     Endpoint("GET", <<"service-accounts", "write">>, "selected", {"listServiceAccounts"}),
     Endpoint("POST", <<"service-accounts", "write">>, "selected", {"createServiceAccount",
              "revokeServiceAccount"})}

DefinitionEndpoints ==
    {Endpoint("GET", <<"system", "read">>, "selected", {"listJobDefinitions", "getJobDefinition",
              "getJobDefinitionSource", "listExecutionPools", "listHostGroups", "getTopology"}),
     Endpoint("POST", <<"jobs", "write">>, "selected", {"createJobDefinition"}),
     Endpoint("PUT", <<"jobs", "write">>, "selected", {"updateJobDefinition"}),
     Endpoint("DELETE", <<"jobs", "write">>, "selected", {"deleteJobDefinition"}),
     Endpoint("GET", <<"audit", "read">>, "selected", {"listAuditEvents"})}

WorkflowEndpoints ==
    {Endpoint("GET", <<"workflows", "read">>, "selected", {"listWorkflows", "getWorkflow",
              "getWorkflowEditability"}),
     Endpoint("POST", <<"workflows", "write">>, "selected", {"createWorkflow"}),
     Endpoint("PUT", <<"workflows", "write">>, "selected", {"updateWorkflow"}),
     Endpoint("DELETE", <<"workflows", "write">>, "selected", {"deleteWorkflow"})}

GraphEndpoints ==
    {Endpoint("GET", <<"graphs", "read">>, "selected", {"listGraphs", "getGraph"}),
     Endpoint("POST", <<"graphs", "write">>, "selected", {"createGraph"}),
     Endpoint("GET", <<"agents", "read">>, "selected", {"listAgents", "getAgent", "listAgentRuns",
              "getAgentRun"}),
     Endpoint("POST", <<"agents", "write">>, "selected", {"createAgent"}),
     Endpoint("POST", <<"agents", "operate">>, "selected", {"startAgentRun"})}

AssuranceEndpoints ==
    {Endpoint("POST", <<"reasoning", "operate">>, "selected", {"askReasoning"}),
     Endpoint("POST", <<"memory", "write">>, "selected", {"registerIrDefinition"}),
     Endpoint("GET", <<"memory", "read">>, "selected", {"listIrDefinitions",
              "getIrDefinitionVersion", "listIrRuns", "getIrRun", "getIrRunEvents"}),
     Endpoint("POST", <<"jobs", "run">>, "selected", {"startIrRun"}),
     Endpoint("GET", <<"certificates", "read">>, "selected", {"listAssuranceCertificates",
              "getAssuranceCertificate", "getAssuranceCertificateBundle", "listCertificates"})}

MemoryEndpoints ==
    {Endpoint("GET", <<"memory", "read">>, "selected", {"listMemorySources", "getMemorySource",
              "listMemoryEvidence", "getMemoryEvidence", "listMemoryEntities", "getMemoryEntity",
              "listMemoryClaims", "getMemoryClaim"}),
     Endpoint("POST", <<"memory", "write">>, "selected", {"createMemorySource",
              "createMemoryEvidence", "createMemoryEntity", "createMemoryClaim"})}

MemoryGraphEndpoints ==
    {Endpoint("GET", <<"memory", "read">>, "selected", {"listMemoryEvents", "getMemoryEvent",
              "listMemoryRelationships", "getMemoryRelationship", "listMemoryContracts",
              "getMemoryContract", "listMemorySubgraphs", "getMemorySubgraph"}),
     Endpoint("POST", <<"memory", "write">>, "selected", {"createMemoryEvent",
              "createMemoryRelationship", "createMemoryContract", "createMemorySubgraph"})}

SubgraphEndpoints ==
    {Endpoint("POST", <<"memory", "write">>, "selected", {"activateMemorySubgraph",
              "createMemorySubgraphMember", "createCanonicalEntity", "createEntityResolution",
              "confirmEntityResolution", "rejectEntityResolution"}),
     Endpoint("GET", <<"memory", "read">>, "selected", {"listCanonicalEntities",
              "listEntityResolutions"})}

ConflictEndpoints ==
    {Endpoint("GET", <<"memory", "read">>, "selected", {"listClaimConflicts"}),
     Endpoint("POST", <<"memory", "write">>, "selected", {"resolveClaimConflict",
              "dismissClaimConflict", "createSummaryTrace", "createEntityGraphAttachment",
              "createSubgraphEdge"})}

IngestionEndpoints ==
    {Endpoint("GET", <<"connectors", "read">>, "selected", {"listIngestionConnectors",
              "getIngestionConnector"}),
     Endpoint("POST", <<"connectors", "write">>, "selected", {"createIngestionConnector"}),
     Endpoint("POST", <<"ingestion", "operate">>, "selected", {"runIngestionConnector"}),
     Endpoint("GET", <<"ingestion", "read">>, "selected", {"listIngestionRuns", "getIngestionRun"}),
     Endpoint("GET", <<"review", "read">>, "selected", {"listIngestionReviewClaims"}),
     Endpoint("POST", <<"review", "write">>, "selected", {"approveIngestionReviewClaim",
              "rejectIngestionReviewClaim"})}

AutomationEndpoints ==
    {Endpoint("GET", <<"automations", "read">>, "selected", {"listAutomations", "getAutomation",
              "listAutomationTriggers", "listTriggerPlugins", "getTriggerPlugin"}),
     Endpoint("POST", <<"automations", "write">>, "selected", {"createAutomation",
              "createTriggerPlugin"}),
     Endpoint("PUT", <<"automations", "write">>, "selected", {"updateAutomation"}),
     Endpoint("DELETE", <<"automations", "write">>, "selected", {"deleteAutomation"}),
     Endpoint("POST", <<"automations", "operate">>, "selected", {"enableAutomation",
              "disableAutomation", "triggerAutomation"})}

WorkflowRunEndpoints ==
    {Endpoint("GET", <<"workflows", "read">>, "selected", {"listWorkflowRuns", "getWorkflowRun",
              "getWorkflowRunLogs", "streamWorkflowRunLogs"}),
     Endpoint("GET", <<"system", "read">>, "selected", {"streamActivityEvents"}),
     Endpoint("POST", <<"workflows", "operate">>, "selected", {"removeWorkflowRun",
              "cancelWorkflowRun", "resumeWorkflowRun"})}

JobRunEndpoints ==
    {Endpoint("GET", <<"jobs", "read">>, "selected", {"listJobRuns", "getJobRun", "getJobRunLogs",
              "streamJobRunLogs", "listJobArtifacts", "downloadJobArtifact"}),
     Endpoint("POST", <<"jobs", "run">>, "selected", {"createJobRun"}),
     Endpoint("POST", <<"jobs", "cancel">>, "selected", {"cancelJobRun"})}

Endpoints ==
    PublicEndpoints \cup IdentityEndpoints \cup DefinitionEndpoints \cup WorkflowEndpoints \cup GraphEndpoints
    \cup AssuranceEndpoints \cup MemoryEndpoints \cup MemoryGraphEndpoints \cup SubgraphEndpoints \cup ConflictEndpoints
    \cup IngestionEndpoints \cup AutomationEndpoints \cup WorkflowRunEndpoints \cup JobRunEndpoints

EndpointContracts ==
    [op \in UNION {e.operations : e \in Endpoints} |-> CHOOSE e \in Endpoints : op \in e.operations]

\* endpoint_project_context: `header` and `path` are the projects the request
\* names in its header and in its path.
EndpointProjectContext(endpoint, header, path, principal) ==
    ProjectContext(IF endpoint.ownership = "path" THEN path ELSE header, principal)

\* (mutant) The scope alone decides: a role in another project counts.
AuthorizedByScope(endpoint, context, principal) ==
    /\ endpoint.ownership # "unscoped" => context # NoContext
    /\ HasScope(principal, endpoint.permission)

\* The decision of require_auth once the caller is known.
Authorized(endpoint, context, principal) ==
    /\ endpoint.ownership # "unscoped" =>
          context # NoContext /\ (principal.admin \/ AllowedTo(context.role, endpoint.permission))
    /\ HasScope(principal, endpoint.permission)

-----------------------------------------------------------------------------
(***************************************************************************)
(* The role the handlers ask for themselves, below the registry's.         *)
(***************************************************************************)
DefinitionHandlerRole == [createJobDefinition |-> "operator", updateJobDefinition |-> "operator",
                          deleteJobDefinition |-> "admin", createWorkflow |-> "operator",
                          updateWorkflow |-> "operator", deleteWorkflow |-> "admin"]

MemoryWriteRole == "operator"

IngestionWriteRole == "admin"
=============================================================================
