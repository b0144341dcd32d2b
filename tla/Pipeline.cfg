SPECIFICATION FairSpec
CONSTANTS
    Calls = {a1}
    Budget = 2
    Codes = {}
    CtxTimeout = 2
    ResolveTimeout = 1
    Delays = {0, 1, 2}
    Statuses = {"firing", "resolved"}
    LabelSets <- AllKinds
    PodsFound = 3
    PodLines = 2
    EventLists <- SomeEvents
    MaxPods = 2
    MaxLogLines = 3
    MaxEventsPerObject = 2
    MaxEvents = 3
    LokiOn = TRUE
    PromOn = TRUE
    K8sOn = TRUE
INVARIANTS
    TypeOK
    PayloadBounded
    FetchedIsUsed
PROPERTIES
    ProcessAlertReturns
CHECK_DEADLOCK FALSE
