------------------------------ MODULE Triggers ------------------------------
(***************************************************************************)
(* Trigger events and the evaluators: crates/postgres/src/                 *)
(* trigger_events.rs, automations.rs and the event part of retention.rs,   *)
(* the tick of crates/evaluator, and the webhook endpoint, composed with   *)
(* the workflow runs they create.                                          *)
(*                                                                         *)
(* A tick produces what is due (cron, SQL, custom plugins), then leases    *)
(* one event, evaluates the condition over its correlation group, and      *)
(* completes or retries it.  It is cut where it goes back to the database. *)
(* An event is identified by what makes it unique: its trigger and         *)
(* idempotency key, here a record [trigger, key, sent] whose `key` is the  *)
(* correlation key.  A group's run is named after its key.                 *)
(***************************************************************************)
EXTENDS WorkflowRuns, Automations

CONSTANTS
    Evaluators,
    OwnerOf,        \* the lease owner each evaluator signs with
    Deliveries,     \* the events that may be recorded
    Plugins,        \* registered plugins and the fields they require
    Secrets,        \* webhook secrets
    MaxAttempts     \* DEFAULT_MAX_ATTEMPTS

\* An automation starts out with a condition the API admits, the trigger named
\* "cron" is the scheduled one, and generated ids are not those of a group's run.
ASSUME TriggerAssumption ==
    /\ \A d \in Deliveries : d.key \in Runs \cap Nat
    /\ \A sc \in Scenarios :
           /\ sc.graph.condition \in Seq(Range(sc.graph.condition))
           /\ BuildAutomation(sc.graph.triggers, sc.graph.condition, Plugins)
           /\ \A g \in sc.graphs \cup {sc.graph} : "cron" \notin EnabledOf(g.triggers, "webhook")
           /\ sc.evaluators = {} \/ sc.runs \cap {d.key : d \in Deliveries} = {}

VARIABLES
    clock,          \* now, in schedule slots
    graph,          \* automation_triggers and condition_tree
    event,          \* trigger_events
    evaluations,    \* trigger_evaluations: the keys with a run
    ev,             \* where each evaluator is in its tick
    cursor,         \* trigger_schedule_cursors.next_fire_at, 0 when absent
    custom          \* custom_trigger_runtime

triggerVars == <<clock, graph, event, evaluations, ev, cursor, custom>>
vars == <<workflowVars, triggerVars>>

Keys == {d.key : d \in Deliveries}
Group(key) == {d \in Deliveries : d.key = key}

NoEvent == [status |-> "absent", owner |-> "none", expired |-> FALSE, ready |-> TRUE, attempts |-> 0]
Pending == [NoEvent EXCEPT !.status = "pending"]

\* INSERT ... ON CONFLICT (automation, trigger, idempotency key) DO NOTHING
Inserted(table, d) == IF table[d].status = "absent" THEN [table EXCEPT ![d] = Pending] ELSE table

Idle == [pc |-> "cron", due |-> 0, key |-> 0, seen |-> {}, satisfied |-> FALSE]

\* The stage of the tick that comes next, from `first` on: one with no enabled
\* trigger of its kind has nothing to list.  An interval schedule is listed
\* with the cron ones and only has its failure recorded.
Stage(first) ==
    LET Listed(stage) ==
            \/ stage = 4
            \/ /\ automation.status = "enabled"
               /\ \E i \in DOMAIN graph.triggers :
                      /\ graph.triggers[i].enabled
                      /\ CASE stage = 1 -> Has(graph.triggers[i].config, "cron")
                           [] stage = 2 -> graph.triggers[i].kind = "sql"
                           [] stage = 3 -> graph.triggers[i].kind = "custom"
    IN <<"cron", "sql", "custom", "lease">>[Min({i \in first..4 : Listed(i)})]

At(e, pc) == e \in scenario.evaluators /\ ev[e].pc = pc
Goes(e, pc) == ev' = [ev EXCEPT ![e] = [Idle EXCEPT !.pc = pc]]
SameDefinitions == UNCHANGED <<workflowVars, clock, graph>>

-----------------------------------------------------------------------------
(***************************************************************************)
(* Producing events.                                                       *)
(***************************************************************************)
\* produce_one of schedule.rs: the cursor starts at the next occurrence.
ReadCursor(e) ==
    LET next == IF cursor = 0 THEN clock + 1 ELSE cursor
    IN /\ At(e, "cron")
       /\ IF Stage(1) # "cron"
          THEN Goes(e, Stage(1)) /\ UNCHANGED cursor
          ELSE /\ cursor' = next
               /\ IF next > clock THEN Goes(e, Stage(2))
                  ELSE ev' = [ev EXCEPT ![e] = [Idle EXCEPT !.pc = "fire", !.due = next]]
       /\ SameDefinitions /\ UNCHANGED <<event, evaluations, custom>>

\* (mutant) The next occurrence is counted from now, not from the one due.
FireFromNow(e) ==
    /\ At(e, "fire")
    /\ IF cursor = ev[e].due
       THEN /\ cursor' = clock + 1
            /\ event' = [d \in Deliveries |->
                   IF d.trigger = "cron" /\ d.key = ev[e].due
                   THEN Inserted(event, d)[d] ELSE event[d]]
       ELSE UNCHANGED <<cursor, event>>
    /\ Goes(e, Stage(2))
    /\ SameDefinitions /\ UNCHANGED <<evaluations, custom>>

\* The cursor moves only from the occurrence the tick read.
FireDueSchedule(e) ==
    /\ At(e, "fire")
    /\ IF cursor = ev[e].due
       THEN /\ cursor' = ev[e].due + 1
            /\ event' = [d \in Deliveries |->
                   IF d.trigger = "cron" /\ d.key = ev[e].due
                   THEN Inserted(event, d)[d] ELSE event[d]]
       ELSE UNCHANGED <<cursor, event>>
    /\ Goes(e, Stage(2))
    /\ SameDefinitions /\ UNCHANGED <<evaluations, custom>>

\* One event per poll bucket in which the query matched.
ProduceSql(e) ==
    /\ At(e, "sql")
    /\ \/ UNCHANGED event
       \/ \E d \in Deliveries :
              d.trigger = "sql" /\ d.sent = clock /\ event' = Inserted(event, d)
    /\ Goes(e, Stage(3))
    /\ SameDefinitions /\ UNCHANGED <<evaluations, cursor, custom>>

ClaimCustomTrigger(e) ==
    LET free == custom.next <= clock /\ (custom.owner = "none" \/ custom.expired)
    IN /\ At(e, "custom")
       /\ IF free
          THEN /\ custom' = [custom EXCEPT !.owner = OwnerOf[e], !.expired = FALSE]
               /\ ev' = [ev EXCEPT ![e] = [Idle EXCEPT !.pc = "plugin", !.due = custom.next]]
          ELSE Goes(e, "lease") /\ UNCHANGED custom
       /\ SameDefinitions /\ UNCHANGED <<event, evaluations, cursor>>

Released(e) ==
    IF custom.owner = OwnerOf[e]
    THEN [next |-> clock + 1, owner |-> "none", expired |-> FALSE] ELSE custom

\* The event of the slot is recorded whoever holds the claim by then; the
\* plugin may name the correlation key itself.
CompleteCustomTrigger(e) ==
    /\ At(e, "plugin")
    /\ \/ UNCHANGED event
       \/ \E d \in Deliveries :
              d.trigger = "custom" /\ d.sent = ev[e].due /\ event' = Inserted(event, d)
    /\ custom' = Released(e)
    /\ Goes(e, "lease")
    /\ SameDefinitions /\ UNCHANGED <<evaluations, cursor>>

\* The plugin failed: the error ends the tick before anything is leased.
FailCustomTrigger(e) ==
    /\ At(e, "plugin")
    /\ custom' = Released(e)
    /\ Goes(e, "cron")
    /\ SameDefinitions /\ UNCHANGED <<event, evaluations, cursor>>

Ingest(d) ==
    LET unsigned == [delivery |-> d, correlation |-> d.key, timestamp |-> d.sent, body |-> "b",
                     deliveryLength |-> 1, correlationLength |-> 1, json |-> TRUE, signature |-> "none"]
        signature == <<SecretFor(Secrets, d.trigger), SignedFields(unsigned, d.trigger)>>
    IN /\ IngestAccepts([unsigned EXCEPT !.signature = signature], d.trigger, Secrets,
                        graph.triggers, clock)
       /\ event' = Inserted(event, d)
       /\ SameDefinitions /\ UNCHANGED <<evaluations, ev, cursor, custom>>

-----------------------------------------------------------------------------
(***************************************************************************)
(* Evaluating a group.                                                     *)
(***************************************************************************)
\* (mutant) The lease of an evaluator that crashed is not taken over.
LeasableWhenPending(d) == event[d].ready /\ event[d].status = "pending"

Leasable(d) ==
    /\ event[d].ready
    /\ event[d].status = "pending" \/ (event[d].status = "leased" /\ event[d].expired)

\* (mutant) Events that were evaluated once are not looked at again.
KnownPendingOnly(d) == {c \in Group(d.key) : event[c].status = "pending"} \cup {d}

\* Every event of the group that has not failed, the evaluated ones too.
Known(d) == {c \in Group(d.key) : event[c].status \notin {"absent", "failed", "forgotten"}}

LeaseTriggerGroup(e) ==
    /\ At(e, "lease")
    /\ \/ /\ \A d \in Deliveries : ~Leasable(d)
          /\ Goes(e, "cron")
          /\ UNCHANGED event
       \/ \E d \in Deliveries :
              /\ Leasable(d)
              /\ event' = [event EXCEPT ![d] =
                     [@ EXCEPT !.status = "leased", !.owner = OwnerOf[e], !.expired = FALSE,
                               !.attempts = Min({@ + 1, MaxAttempts})]]
              /\ ev' = [ev EXCEPT ![e] =
                     [Idle EXCEPT !.pc = "evaluate", !.key = d.key, !.seen = Known(d)]]
    /\ SameDefinitions /\ UNCHANGED <<evaluations, cursor, custom>>

\* The condition over the enabled triggers that have an event among these.
Satisfied(g, deliveries) ==
    Evaluate(g.condition,
             {d.trigger : d \in deliveries}
             \cap {g.triggers[i].name : i \in {j \in DOMAIN g.triggers : g.triggers[j].enabled}})

\* evaluate_group up to its completion: the automation is read, the condition
\* decided.  Without the automation, or when the store fails, the group is
\* retried.
EvaluateGroup(e) ==
    /\ At(e, "evaluate")
    /\ IF automation.status = "absent"
       THEN ev' = [ev EXCEPT ![e].pc = "retry"]
       ELSE ev' = [ev EXCEPT ![e] =
               [@ EXCEPT !.pc = "complete",
                         !.satisfied = /\ automation.status = "enabled"
                                       /\ Satisfied(graph, ev[e].seen)]]
    /\ SameDefinitions /\ UNCHANGED <<event, evaluations, cursor, custom>>

StoreFails(e) ==
    /\ e \in scenario.evaluators
    /\ ev[e].pc \in {"evaluate", "complete"}
    /\ faults < MaxFaults
    /\ ev' = [ev EXCEPT ![e].pc = "retry"]
    /\ Spend
    /\ UNCHANGED <<scenario, tables, sched, clock, graph, event, evaluations, cursor, custom>>

Own(e) == {d \in Group(ev[e].key) : event[d].status = "leased" /\ event[d].owner = OwnerOf[e]}

Creates(e) == ev[e].satisfied /\ ev[e].key \notin evaluations /\ run[ev[e].key].status = "absent"

\* The run, the evaluation and the events of the group this owner leases are
\* written in one transaction.
CompleteTriggerGroup(e) ==
    /\ At(e, "complete")
    /\ Creates(e) => automation.status # "absent"
    /\ IF Creates(e)
       THEN InsertRun(ev[e].key) /\ evaluations' = evaluations \cup {ev[e].key}
       ELSE UNCHANGED <<run, created, evaluations>>
    /\ event' = [d \in Deliveries |->
           IF d \in Own(e) THEN [event[d] EXCEPT !.status = "evaluated", !.owner = "none"]
                           ELSE event[d]]
    /\ Goes(e, "cron")
    /\ UNCHANGED <<scenario, live, jobDefs, stepRun, automation, sched, faults>>
    /\ UNCHANGED <<clock, graph, cursor, custom>>

\* A run for an automation that is gone violates a foreign key.
CompletionFails(e) ==
    /\ At(e, "complete")
    /\ Creates(e) /\ automation.status = "absent"
    /\ ev' = [ev EXCEPT ![e].pc = "retry"]
    /\ SameDefinitions /\ UNCHANGED <<event, evaluations, cursor, custom>>

RetryTriggerGroup(e) ==
    /\ At(e, "retry")
    /\ event' = [d \in Deliveries |->
           IF d \in Own(e)
           THEN [event[d] EXCEPT !.status = IF @ = "leased" /\ event[d].attempts >= MaxAttempts
                                           THEN "failed" ELSE "pending",
                                !.owner = "none", !.ready = FALSE]
           ELSE event[d]]
    /\ Goes(e, "cron")
    /\ SameDefinitions /\ UNCHANGED <<evaluations, cursor, custom>>

EvaluatorCrashes(e) ==
    /\ e \in scenario.evaluators
    /\ ev[e].pc \in {"plugin", "evaluate", "complete", "retry"}
    /\ faults < MaxFaults
    /\ Goes(e, "cron")
    /\ Spend
    /\ UNCHANGED <<scenario, tables, sched, clock, graph, event, evaluations, cursor, custom>>

-----------------------------------------------------------------------------
(***************************************************************************)
(* Editing the automation, retention, and time.                            *)
(***************************************************************************)
\* The automation's row is written before its triggers are replaced; the fire
\* time follows from the triggers stored last.
ReplaceAutomationTriggers(g) ==
    /\ Allowed("retrigger")
    /\ automation.status # "absent"
    /\ BuildAutomation(g.triggers, g.condition, Plugins)
    /\ graph' = g
    /\ automation' = [automation EXCEPT !.fire =
           IF automation.status = "enabled" /\ IntervalTriggers(g.triggers) # {}
           THEN IF @ = "none" THEN "due" ELSE @
           ELSE "none"]
    /\ custom' = [next |-> clock, owner |-> "none", expired |-> FALSE]
    /\ Spend
    /\ UNCHANGED <<scenario, live, jobDefs, created, run, stepRun, sched>>
    /\ UNCHANGED <<clock, event, evaluations, ev, cursor>>

\* (mutant) The runs go with the automation they came from.
DeleteAutomationCascades ==
    /\ Allowed("delete")
    /\ automation.status # "absent"
    /\ automation' = [status |-> "absent", fire |-> "none"]
    /\ graph' = [triggers |-> <<>>, condition |-> graph.condition]
    /\ event' = [d \in Deliveries |-> IF event[d].status = "absent" THEN event[d]
                                      ELSE [NoEvent EXCEPT !.status = "forgotten"]]
    /\ evaluations' = {}
    /\ cursor' = 0
    /\ custom' = [next |-> 0, owner |-> "none", expired |-> FALSE]
    /\ run' = [r \in Runs |-> IF run[r].status = "absent" THEN run[r]
                              ELSE [run[r] EXCEPT !.status = "removed"]]
    /\ stepRun' = [r \in Runs |-> <<>>]
    /\ created' = <<>>
    /\ Spend
    /\ UNCHANGED <<scenario, live, jobDefs, sched, clock, ev>>

\* Everything that refers to the automation goes with it, its runs excepted.
DeleteAutomation ==
    /\ Allowed("delete")
    /\ automation.status # "absent"
    /\ automation' = [status |-> "absent", fire |-> "none"]
    /\ graph' = [triggers |-> <<>>, condition |-> graph.condition]
    /\ event' = [d \in Deliveries |-> IF event[d].status = "absent" THEN event[d]
                                      ELSE [NoEvent EXCEPT !.status = "forgotten"]]
    /\ evaluations' = {}
    /\ cursor' = 0
    /\ custom' = [next |-> 0, owner |-> "none", expired |-> FALSE]
    /\ Spend
    /\ UNCHANGED <<scenario, live, jobDefs, created, run, stepRun, sched, clock, ev>>

\* cleanup_old_trigger_events; its age is days, the replay window minutes, so
\* a delivery that was forgotten cannot be accepted again.
CleanupOldTriggerEvents ==
    /\ Allowed("retention")
    /\ LET old == {d \in Deliveries : event[d].status \in {"evaluated", "failed"}}
       IN /\ old # {}
          /\ event' = [d \in Deliveries |-> IF d \in old
                          THEN [NoEvent EXCEPT !.status = "forgotten"] ELSE event[d]]
    /\ Spend
    /\ UNCHANGED <<scenario, tables, sched, clock, graph, evaluations, ev, cursor, custom>>

Holds(e, d) == ev[e].pc \in {"evaluate", "complete", "retry"} /\ ev[e].key = d.key
                /\ event[d].owner = OwnerOf[e]

\* A lease outlives a crash and, for a fault, a holder that is slow.
LeaseExpires(d) ==
    /\ event[d].status = "leased" /\ ~event[d].expired
    /\ IF \E e \in Evaluators : Holds(e, d)
       THEN faults < MaxFaults /\ Spend ELSE UNCHANGED faults
    /\ event' = [event EXCEPT ![d].expired = TRUE]
    /\ UNCHANGED <<scenario, tables, sched, clock, graph, evaluations, ev, cursor, custom>>

ClaimExpires ==
    /\ custom.owner # "none" /\ ~custom.expired
    /\ IF \E e \in Evaluators : ev[e].pc = "plugin"
       THEN faults < MaxFaults /\ Spend ELSE UNCHANGED faults
    /\ custom' = [custom EXCEPT !.expired = TRUE]
    /\ UNCHANGED <<scenario, tables, sched, clock, graph, event, evaluations, ev, cursor>>

BackoffPasses(d) ==
    /\ ~event[d].ready
    /\ event' = [event EXCEPT ![d].ready = TRUE]
    /\ SameDefinitions /\ UNCHANGED <<evaluations, ev, cursor, custom>>

\* (bound) scenario.clock
TimePasses ==
    /\ clock < scenario.clock
    /\ clock' = clock + 1
    /\ UNCHANGED <<workflowVars, graph, event, evaluations, ev, cursor, custom>>

-----------------------------------------------------------------------------
Init ==
    /\ WorkflowInit
    /\ clock = 1
    /\ graph = scenario.graph
    /\ event = [d \in Deliveries |-> NoEvent]
    /\ evaluations = {}
    /\ ev = [e \in Evaluators |-> Idle]
    /\ cursor = 0
    /\ custom = [next |-> 1, owner |-> "none", expired |-> FALSE]

EvaluatorStep(e) ==
    \/ ReadCursor(e) \/ FireDueSchedule(e) \/ ProduceSql(e)
    \/ ClaimCustomTrigger(e) \/ CompleteCustomTrigger(e) \/ FailCustomTrigger(e)
    \/ LeaseTriggerGroup(e) \/ EvaluateGroup(e) \/ StoreFails(e)
    \/ CompleteTriggerGroup(e) \/ CompletionFails(e) \/ RetryTriggerGroup(e)
    \/ EvaluatorCrashes(e)

TriggerNext ==
    \/ \E e \in Evaluators : EvaluatorStep(e)
    \/ \E d \in scenario.deliveries : Ingest(d)
    \/ \E g \in scenario.graphs : ReplaceAutomationTriggers(g)
    \/ DeleteAutomation
    \/ CleanupOldTriggerEvents
    \/ \E d \in Deliveries : LeaseExpires(d) \/ BackoffPasses(d)
    \/ ClaimExpires
    \/ TimePasses

Next == \/ WorkflowNext /\ UNCHANGED triggerVars
        \/ TriggerNext

Spec == Init /\ [][Next]_vars

(***************************************************************************)
(* Fairness.  An evaluator that is up keeps ticking; leases nobody renews  *)
(* expire; backoffs end.                                                   *)
(***************************************************************************)
EvaluatorsTick ==
    \A e \in Evaluators :
        []<>(e \notin scenario.evaluators) \/ []<><<ev'[e] # ev[e]>>_vars

LeasesEnd ==
    \A d \in Deliveries :
        []<>(event[d].status # "leased" \/ event[d].expired) /\ []<>(event[d].ready)

FairSpec == Spec /\ SchedulersTick /\ JobsEnd /\ EvaluatorsTick /\ LeasesEnd

-----------------------------------------------------------------------------
(***************************************************************************)
(* Properties.                                                             *)
(***************************************************************************)
\* No trigger event is lost between evaluators: when the events of a group
\* that have been evaluated satisfy the condition, the group has its run,
\* whichever evaluators took them, crashed, or were overtaken (while the
\* automation itself is left alone).  lease_trigger_group returns the whole
\* group, complete_trigger_group settles only what the owner leases.
SatisfiedGroupsRun ==
    scenario.edits \cap {"toggle", "retrigger", "delete"} = {} =>
        \A k \in Keys :
            Satisfied(graph, {d \in Group(k) : event[d].status = "evaluated"})
                => k \in evaluations

\* A schedule never skips an occurrence: from the first one fired on, every
\* occurrence the cursor has passed has its event, whichever evaluator fired
\* it and however late (produce_one, fire_due_schedule).
NoOccurrenceSkipped ==
    \A c, d \in Deliveries :
        /\ c.trigger = "cron" /\ d.trigger = "cron"
        /\ event[c].status # "absent" /\ c.key < d.key /\ d.key < cursor
        => event[d].status # "absent"

\* Every recorded event is settled: evaluated, or failed after its attempts,
\* whatever crashes and errors there were (the tick, its leases and retries).
EventsSettle ==
    \A d \in Deliveries :
        event[d].status \in {"pending", "leased"} ~> event[d].status \notin {"pending", "leased"}
=============================================================================
