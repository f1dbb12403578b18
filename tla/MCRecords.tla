------------------------------ MODULE MCRecords ------------------------------
(***************************************************************************)
(* Two projects, administrators of each, one principal with a role in both *)
(* and a service account; batches of one to four requests, about the       *)
(* records of a project or about its memory.                               *)
(***************************************************************************)
EXTENDS Memory

MCTokens ==
    [none    |-> [how |-> "none"],
     root    |-> [how |-> "credential", name |-> "root", role |-> "admin", project |-> "p1", scopes |-> {}],
     ann     |-> [how |-> "oidc", name |-> "ann", role |-> "viewer"],
     bob     |-> [how |-> "credential", name |-> "bob", role |-> "operator", project |-> "p2", scopes |-> {}],
     cat     |-> [how |-> "oidc", name |-> "cat", role |-> "viewer"],
     robot   |-> [how |-> "account", account |-> "robot"],
     spare   |-> [how |-> "account", account |-> "spare"]]

MCMembers0 ==
    [p \in {"default", "p1", "p2"} |->
        CASE p = "p1" -> <<"user", "ann">> :> "admin" @@ <<"user", "bob">> :> "admin"
          [] p = "p2" -> <<"user", "ann">> :> "operator" @@ <<"service_account", "robot">> :> "retired"
          [] OTHER    -> <<"user", "bob">> :> "viewer"]

MCAccounts0 ==
    [robot |-> [name |-> "robot", project |-> "p2", role |-> "admin", scopes |-> {Everything}, state |-> "live", expires |-> TRUE],
     spare |-> [name |-> "spare", project |-> "p2", role |-> "viewer", scopes |-> {}, state |-> "absent", expires |-> FALSE]]

\* The n-th request: a caller, what it does, in which project, to record x.
Ask(n, token, op, header) ==
    [n |-> n, token |-> token, op |-> op, header |-> header, id |-> "x", ref |-> "x", text |-> ToString(n)]

Manages(n, token, op, header, id, text) == [Ask(n, token, op, header) EXCEPT !.id = id, !.text = text]

Batch(requests, stored) == [requests |-> requests, stored |-> stored]

\* Records x of these kinds, of one project, are stored.
Held(kinds, project) ==
    [k \in kinds \X {"x"} |-> [project |-> project, text |-> "0", ref |-> "x", role |-> "admin"]]

MCBatches ==
    {   \* a workflow is created while its job is deleted and taken by another project
        Batch({Ask(1, "root", "createWorkflow", "p1"), Ask(2, "bob", "deleteJobDefinition", "p1"),
               Ask(3, "robot", "createJobDefinition", "p2")}, Held({"job_definition"}, "p1")),
        \* roles in two projects
        Batch({Ask(1, "ann", "createJobDefinition", "p2"), Ask(2, "bob", "updateJobDefinition", "p1"),
               Ask(3, "root", "createJobDefinition", "p1"), Ask(4, "robot", "createJobDefinition", "p2")},
              Held({}, "p1")),
        \* a workflow changed and deleted, or made an automation of
        Batch({Ask(1, "bob", "updateWorkflow", "p1"), Ask(2, "root", "deleteWorkflow", "p1"),
               Ask(3, "ann", "createAutomation", "p1")}, Held({"job_definition", "workflow"}, "p1")),
        Batch({Ask(1, "root", "updateAutomation", "p2"), Ask(2, "robot", "enableAutomation", "p2"),
               Ask(3, "robot", "deleteAutomation", "p2")},
              Held({"job_definition", "workflow", "automation"}, "p2")),
        \* an agent of a graph that is being replaced
        Batch({Ask(1, "bob", "createGraph", "p1"), Ask(2, "ann", "createAgent", "p1"),
               Ask(3, "root", "startAgentRun", "p1")}, Held({"graph", "agent"}, "p1")),
        Batch({Ask(1, "bob", "createTriggerPlugin", "p1"), Ask(2, "robot", "createTriggerPlugin", "p2"),
               Ask(3, "none", "createTriggerPlugin", "p1")}, Held({}, "p1")),
        \* an account is revoked and another created; a member comes and goes
        Batch({Manages(1, "robot", "revokeServiceAccount", "p2", "robot", ""),
               Manages(2, "root", "createServiceAccount", "p2", "spare", "admin"),
               Ask(3, "spare", "createJobDefinition", "p2"), Ask(4, "robot", "createJobRun", "p2")},
              Held({"job_definition"}, "p2")),
        Batch({Manages(1, "bob", "upsertProjectMembership", "p1", <<"user", "cat">>, "admin"),
               Manages(2, "bob", "deleteProjectMembership", "p1", <<"user", "ann">>, ""),
               Ask(3, "ann", "listProjectMemberships", "p1"), Ask(4, "cat", "createJobDefinition", "p1")},
              Held({}, "p1"))}

\* One run identifier, two projects with a job definition each.
MCCreateRace ==
    {Batch({[Ask(1, "ann", "createJobRun", "p1") EXCEPT !.ref = "y"], Ask(2, "robot", "createJobRun", "p2")},
           Held({"job_definition"}, "p2")
           @@ (<<"job_definition", "y">> :> [project |-> "p1", text |-> "0", ref |-> "", role |-> "admin"]))}

-----------------------------------------------------------------------------
MCSafe(part) == part

Row1(status, refs, says) ==
    [Blank EXCEPT !.project = "p1", !.status = status, !.refs = refs, !.evidence = {<<"v">>}, !.says = says]

\* The n-th request about memory, and two callers that administer p1.
About(n, token, op, header, id, row) ==
    [n |-> n, token |-> token, op |-> op, header |-> header, id |-> <<id>>, row |-> row]

Ann(n, op, id, row) == About(n, "ann", op, "p1", id, row)
Root(n, op, id, row) == About(n, "root", op, "p1", id, row)

ToEntity == {<<"entity", <<"e">>>>}
ToSubgraphs == {<<"subgraph", <<"g">>>>, <<"subgraph", <<"h">>>>}
Says(status, object) == Row1(status, ToEntity, <<"is", object>>)

Resolves(status) ==
    Row1(status, ToEntity \cup {<<"subgraph", <<"g">>>>, <<"canonical", <<"c">>>>}, <<>>)

Conflicting == [Row1("candidate", ToEntity, <<"is">>) EXCEPT !.claims = {<<"a">>, <<"b">>}, !.evidence = {}]

Trace == [Row1("", {<<"subgraph", <<"g">>>>, <<"claim", <<"a">>>>}, <<>>) EXCEPT !.claims = {<<"b">>}]

Governed == Row1("", {<<"contract", <<"k">>>>, <<"claim", <<"a">>>>}, <<"owner", "permissions">>)

Text(topics, facts) ==
    Row1("enabled", {}, [title |-> "acme", topics |-> topics, facts |-> facts, chunks |-> 1, type |-> "text/plain"])

\* One project's memory: two candidate claims that contradict each other, a
\* resolution that awaits review, subgraphs, a contract and a connector.
Remembered ==
    "entity" :> (<<"e">> :> Row1("", {}, <<"acme">>)) @@
    "claim" :> (<<"a">> :> Says("candidate", "open") @@ <<"b">> :> Says("candidate", "closed")
                @@ <<"d">> :> Says("active", "sold")) @@
    "canonical" :> (<<"c">> :> Row1("", {}, <<"acme">>)) @@
    "subgraph" :> (<<"g">> :> Row1("draft", {}, <<>>) @@ <<"h">> :> Row1("draft", {}, <<>>)) @@
    "contract" :> (<<"k">> :> Row1("", {}, <<>>)) @@
    "resolution" :> (<<"r">> :> Resolves("candidate")) @@
    "conflict" :> (<<"f">> :> Conflicting) @@
    "connector" :> (<<"t">> :> Text(<<>>, <<<<"is", "open">>, <<"has", "debt">>>>) @@
                    <<"off">> :> [Text(<<"acme", "beta">>, <<>>) EXCEPT !.status = "disabled"])

Without(kinds) == [k \in DOMAIN Remembered \ kinds |-> Remembered[k]]

One(n, op, id, row) == Batch({Root(n, op, id, row)}, Remembered)

MCMemoryBatches ==
    {   \* reviews of claims that contradict each other, or of one claim
        Batch({Ann(1, "approveIngestionReviewClaim", "a", Blank), Root(2, "approveIngestionReviewClaim", "b", Blank)},
              Without({"conflict"})),
        Batch({Ann(1, "approveIngestionReviewClaim", "a", Blank), Root(2, "rejectIngestionReviewClaim", "a", Blank)},
              Without({"resolution"})),
        Batch({Ann(1, "resolveClaimConflict", "f", [Blank EXCEPT !.preferred = {<<"a">>}]),
               Root(2, "dismissClaimConflict", "f", Blank)}, Remembered),
        Batch({Ann(1, "confirmEntityResolution", "r", Blank), Root(2, "rejectEntityResolution", "r", Blank),
               About(3, "robot", "rejectEntityResolution", "p2", "r", Blank)}, Remembered),
        \* one identifier, two projects
        Batch({Root(1, "createMemorySource", "s", Row1("", {}, <<"here">>)),
               About(2, "robot", "createMemorySource", "p2", "s", Row1("", {}, <<"there">>))}, Remembered),
        Batch({Ann(1, "createMemorySubgraph", "g", Row1("", {}, <<>>)), Root(2, "createSummaryTrace", "t", Trace),
               Root(3, "activateMemorySubgraph", "g", Governed)}, Remembered),
        \* ingestion, while an entity it may resolve to is created
        Batch({Root(1, "runIngestionConnector", "t", Blank),
               Ann(2, "createCanonicalEntity", "c", Row1("", {}, <<"acme">>))}, Without({"canonical", "resolution"})),
        Batch({Root(1, "runIngestionConnector", "off", Blank), Ann(2, "createIngestionConnector", "off", Text(<<"acme", "beta">>, <<>>)),
               About(3, "robot", "createIngestionConnector", "p2", "off", Text(<<>>, <<>>))}, Remembered),
        One(1, "createMemoryEvidence", "v", Row1("", {<<"source", <<"s">>>>}, <<>>)),
        One(1, "createMemoryEntity", "e", Row1("", {}, <<"beta">>)),
        One(1, "createMemoryClaim", "a", Says("active", "open")),
        One(1, "createMemoryEvent", "o", [Row1("", {}, <<>>) EXCEPT !.evidence = {}]),
        One(1, "createMemoryEvent", "o", Row1("", {}, <<>>)),
        One(1, "createMemoryRelationship", "o", Row1("", ToEntity, <<>>)),
        One(1, "createMemoryContract", "k", Row1("", {}, <<"new">>)),
        One(1, "createMemorySubgraphMember", "m", Row1("core", {<<"subgraph", <<"g">>>>}, <<"entity", "e">>)),
        One(1, "createEntityResolution", "n", Resolves("confirmed")),
        One(1, "createEntityGraphAttachment", "p", Row1("primary", {<<"subgraph", <<"g">>>>, <<"canonical", <<"c">>>>}, <<>>)),
        One(1, "createSubgraphEdge", "q", Row1("", ToSubgraphs, <<>>)),
        One(1, "createSubgraphEdge", "q", Row1("", {<<"subgraph", <<"g">>>>}, <<>>))}

MCNoBatches == {}
=============================================================================
