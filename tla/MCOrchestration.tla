--------------------------- MODULE MCOrchestration ---------------------------
(***************************************************************************)
(* Small workflows and automations, one scenario per question: which       *)
(* schedulers and evaluators are up, what is delivered, who may edit what. *)
(***************************************************************************)
EXTENDS Triggers

Step(id, position, job) == [id |-> id, workflow |-> "w", position |-> position, job |-> job]
Dep(from, to, policy) == [from |-> from, to |-> to, policy |-> policy]
Trigger(name, kind, config) ==
    [name |-> name, kind |-> kind, enabled |-> TRUE, config |-> config,
     plugin |-> IF kind = "custom" THEN "p" ELSE NoPlugin]

\* A chain of hard steps, and a cleanup step that runs in any case.
Wide == [id |-> "w", deadline |-> "some",
         steps |-> <<Step(1, 0, "j1"), Step(2, 1, "j2"), Step(3, 2, "j2"), Step(4, 3, "j1")>>,
         deps |-> <<Dep(1, 2, "hard"), Dep(2, 3, "hard"), Dep(1, 4, "always")>>]
Two == [id |-> "w", deadline |-> "none",
        steps |-> <<Step(1, 0, "j1"), Step(2, 1, "j2")>>, deps |-> <<Dep(1, 2, "hard")>>]
One == [id |-> "w", deadline |-> "none", steps |-> <<Step(1, 0, "j1")>>, deps |-> <<>>]

Manual == [triggers |-> <<Trigger("manual", "manual", <<>>)>>,
           condition |-> <<[trigger |-> "manual"]>>]
Interval == [triggers |-> <<Trigger("interval", "schedule", [interval_seconds |-> 60])>>,
             condition |-> <<[trigger |-> "interval"]>>]
OneHook == [triggers |-> <<Trigger("hook1", "webhook", <<>>)>>,
            condition |-> <<[trigger |-> "hook1"]>>]
BothHooks == [triggers |-> <<Trigger("hook1", "webhook", <<>>), Trigger("hook2", "webhook", <<>>)>>,
              condition |-> <<[trigger |-> "hook1"], [trigger |-> "hook2"], [all |-> {1, 2}]>>]
Cron == [triggers |-> <<Trigger("cron", "schedule", [cron |-> "* * * * *", timezone |-> "UTC"])>>,
         condition |-> <<[trigger |-> "cron"]>>]
Polls == [triggers |-> <<Trigger("custom", "custom", <<>>),
                         Trigger("sql", "sql", [connection_name |-> "c", query |-> "q"])>>,
          condition |-> <<[trigger |-> "custom"], [trigger |-> "sql"], [any |-> {1, 2}]>>]

Event(trigger, key, sent) == [trigger |-> trigger, key |-> key, sent |-> sent]
MCDeliveries == {Event("hook1", 1, 1), Event("hook2", 1, 1), Event("cron", 2, 2),
                 Event("cron", 3, 3), Event("sql", 2, 2), Event("custom", 1, 1)}
MCGraphLimits == [steps |-> 256, deps |-> 1024, fanIn |-> 64, fanOut |-> 64, depth |-> 64]
MCPlugins == [p |-> {}]
MCOwnerOf == [e \in {"x", "y"} |-> e]
\* The default owner is the process id, which is 1 in every container.
MCSharedOwner == [e \in {"x", "y"} |-> "evaluator-1"]
MCSecrets == [s \in {<<"*", "*">>} |-> "secret"]

Base == [live |-> One, definitions |-> {One}, jobDefs |-> {"j1", "j2"}, interval |-> FALSE,
         runs |-> {}, schedulers |-> {"a"}, evaluators |-> {}, edits |-> {},
         graph |-> Manual, graphs |-> {}, deliveries |-> {}, clock |-> 1]

MCScenarios ==
    {\* one run of the wide workflow, stopped, failed and resumed
     [Base EXCEPT !.live = Wide, !.definitions = {Wide}, !.runs = {1},
                  !.edits = {"manual", "cancel", "resume", "cancel_job"}],
     \* two runs while the definitions are edited
     [Base EXCEPT !.live = Two, !.definitions = {Two, One}, !.runs = {1, 2},
                  !.edits = {"manual", "resume", "create", "update", "delete_job", "remove"}],
     \* an interval, two schedulers
     [Base EXCEPT !.interval = TRUE, !.graph = Interval, !.graphs = {Interval, Manual},
                  !.runs = {1, 2}, !.schedulers = {"a", "b"}, !.edits = {"toggle", "retrigger"}],
     \* a webhook from its delivery to the end of the run, and the workflow deleted after
     [Base EXCEPT !.graph = OneHook, !.evaluators = {"x"}, !.edits = {"delete", "remove"},
                  !.deliveries = {d \in MCDeliveries : d.trigger = "hook1"}],
     \* two webhooks, two evaluators
     [Base EXCEPT !.graph = BothHooks, !.evaluators = {"x", "y"}, !.edits = {"retention"},
                  !.schedulers = {},
                  !.deliveries = {d \in MCDeliveries : d.trigger \in {"hook1", "hook2"}}],
     \* a schedule, two evaluators
     [Base EXCEPT !.graph = Cron, !.evaluators = {"x", "y"}, !.clock = 3, !.schedulers = {}],
     \* SQL and plugin polling, an automation that may be deleted
     [Base EXCEPT !.graph = Polls, !.evaluators = {"x", "y"}, !.clock = 1, !.edits = {"delete"},
                  !.schedulers = {}]}
==============================================================================
