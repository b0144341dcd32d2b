SPECIFICATION Spec
CONSTANTS
    Calls = {a1}
    Budget = 30
    Codes = {"Internal"}
    CtxTimeout = 30
    ResolveTimeout = 5
    Delays = {0, 30}
    Statuses = {"firing", "resolved"}
    LabelSets <- OneDeployment
    PodsFound = 2
    PodLines = 0
    EventLists <- NoEvents
    MaxPods = 10
    MaxLogLines = 3
    MaxEventsPerObject = 2
    MaxEvents = 3
    LokiOn = TRUE
    PromOn = TRUE
    K8sOn = TRUE
INVARIANTS
    FailSoftEnrichment
CHECK_DEADLOCK FALSE
