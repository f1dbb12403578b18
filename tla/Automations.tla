----------------------------- MODULE Automations -----------------------------
(***************************************************************************)
(* Automation definitions: what crates/api/src/automations.rs accepts,     *)
(* what a condition tree of crates/core/src/domain/automation.rs means,    *)
(* and which webhook deliveries crates/api/src/webhooks.rs takes.          *)
(*                                                                         *)
(* A trigger is a record [name, kind, enabled, config, plugin]; `config`   *)
(* is a function from the field names that are set to their values.  A     *)
(* condition is the sequence of its expressions, each group after its      *)
(* members and the whole last: [trigger |-> name], [all |-> members] or    *)
(* [any |-> members], where members are positions in the sequence.         *)
(***************************************************************************)
EXTENDS Naturals, Sequences

CONSTANTS
    NoPlugin,
    ReplayWindow,       \* REPLAY_WINDOW_SECONDS
    MaxWebhookId        \* longest delivery or correlation id

Has(config, field) == field \in DOMAIN config
Positive(config, field) == Has(config, field) /\ config[field] \in Nat /\ config[field] > 0

-----------------------------------------------------------------------------
(***************************************************************************)
(* Conditions.                                                             *)
(***************************************************************************)
\* The expressions that hold among the first n, the last of which is whole.
Evaluate(condition, fired) ==
    LET Holding[n \in 0..Len(condition)] ==
            IF n = 0 THEN {}
            ELSE LET node    == condition[n]
                     earlier == Holding[n - 1]
                     holds   == \/ Has(node, "trigger") /\ node.trigger \in fired
                                \/ Has(node, "all") /\ node.all \subseteq earlier
                                \/ Has(node, "any") /\ node.any \cap earlier # {}
                 IN IF holds THEN earlier \cup {n} ELSE earlier
    IN Len(condition) \in Holding[Len(condition)]

\* ConditionExpr::validate: no group is empty.
WellFormed(condition) ==
    /\ condition # <<>>
    /\ \A i \in DOMAIN condition :
           \/ DOMAIN condition[i] = {"trigger"}
           \/ \E group \in {"all", "any"} :
                  /\ DOMAIN condition[i] = {group}
                  /\ condition[i][group] # {}
                  /\ condition[i][group] \subseteq 1..(i - 1)

Refers(condition) ==
    {condition[i].trigger : i \in {j \in DOMAIN condition : Has(condition[j], "trigger")}}

ValidateReferences(condition, names) ==
    WellFormed(condition) /\ Refers(condition) \subseteq names

-----------------------------------------------------------------------------
(***************************************************************************)
(* Trigger definitions.                                                    *)
(***************************************************************************)
\* An interval schedule may have a start only together with a window.
ValidScheduleConfig(config) ==
    IF Has(config, "cron")
    THEN Has(config, "timezone")
    ELSE /\ Positive(config, "interval_seconds")
         /\ Has(config, "start_at") => Positive(config, "window_seconds")

ValidSqlConfig(config) == Has(config, "connection_name") /\ Has(config, "query")

ValidBuiltinConfig(trigger) ==
    CASE trigger.kind = "schedule" -> ValidScheduleConfig(trigger.config)
      [] trigger.kind = "sql" -> ValidSqlConfig(trigger.config)
      [] OTHER -> TRUE

BuildTrigger(trigger) ==
    /\ (trigger.kind = "custom") <=> (trigger.plugin # NoPlugin)
    /\ ValidBuiltinConfig(trigger)

\* `plugins` maps a registered plugin to the config fields it requires.
ValidPluginReference(trigger, plugins) ==
    trigger.kind = "custom" => trigger.plugin \in DOMAIN plugins

ValidContractFields(trigger, plugins) ==
    trigger.kind = "custom" => plugins[trigger.plugin] \subseteq DOMAIN trigger.config

Names(triggers) == {triggers[i].name : i \in DOMAIN triggers}

BuildAutomation(triggers, condition, plugins) ==
    /\ triggers # <<>>
    /\ \A i \in DOMAIN triggers :
           /\ BuildTrigger(triggers[i])
           /\ ValidPluginReference(triggers[i], plugins)
           /\ ValidContractFields(triggers[i], plugins)
    /\ ValidateReferences(condition, Names(triggers))

IntervalTriggers(triggers) ==
    {i \in DOMAIN triggers :
        /\ triggers[i].kind = "schedule"
        /\ triggers[i].enabled
        /\ Positive(triggers[i].config, "interval_seconds")}

EnabledOf(triggers, kind) ==
    {triggers[i].name : i \in {j \in DOMAIN triggers : triggers[j].kind = kind /\ triggers[j].enabled}}

-----------------------------------------------------------------------------
(***************************************************************************)
(* Webhook deliveries.  A request carries a timestamp, a delivery id, an   *)
(* optional correlation id, and the fields its signature was made over.    *)
(* The most specific configured secret is the one that counts.             *)
(***************************************************************************)
SecretFor(secrets, trigger) ==
    LET tried == <<<<"automation", trigger>>, <<"automation", "*">>, <<"*", "*">>>>
        found == {i \in DOMAIN tried : tried[i] \in DOMAIN secrets}
    IN IF found = {} THEN "none"
       ELSE secrets[tried[CHOOSE i \in found : \A j \in found : i <= j]]

\* Everything the decision depends on is under the signature.
SignedFields(request, trigger) ==
    [trigger |-> trigger, delivery |-> request.delivery, correlation |-> request.correlation,
     timestamp |-> request.timestamp, body |-> request.body]

WithinReplayWindow(now, timestamp) ==
    (IF now > timestamp THEN now - timestamp ELSE timestamp - now) <= ReplayWindow

IngestAccepts(request, trigger, secrets, triggers, now) ==
    /\ SecretFor(secrets, trigger) # "none"
    /\ WithinReplayWindow(now, request.timestamp)
    /\ request.deliveryLength <= MaxWebhookId
    /\ request.correlationLength <= MaxWebhookId
    /\ request.signature = <<SecretFor(secrets, trigger), SignedFields(request, trigger)>>
    /\ request.json
    /\ trigger \in EnabledOf(triggers, "webhook")
==============================================================================
