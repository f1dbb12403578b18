SPECIFICATION FairSpec
CONSTANTS
    Runs = {1, 2, 3}
    Schedulers = {"a", "b"}
    Evaluators = {"x", "y"}
    OwnerOf <- MCOwnerOf
    NoWorkflow = NoWorkflow
    NoPlugin = NoPlugin
    AdvanceLimit = 1
    GraphLimits <- MCGraphLimits
    MaxFaults = 2
    MaxAttempts = 2
    ReplayWindow = 1
    MaxWebhookId = 200
    Scenarios <- MCScenarios
    Deliveries <- MCDeliveries
    Plugins <- MCPlugins
    Secrets <- MCSecrets
INVARIANTS
    HardParentsFirst
    
    SatisfiedGroupsRun
    NoOccurrenceSkipped
PROPERTIES
    SucceededStepsKept
    WorkflowSpec
    RunsEnd
    EventsSettle
CHECK_DEADLOCK FALSE
