SPECIFICATION FairSpec
CONSTANTS
    Requests = {r1}
    MaxBatch = 2
    MaxConcurrent = 1
    DefaultConcurrent = 2
    MaxRestarts = 1
    Budget = 3
    Codes = {}
    CtxTimeout = 3
    ResolveTimeout = 1
    Delays = {0, 1, 3}
    Statuses = {"firing"}
    LabelSets <- PodAlerts
    PodsFound = 0
    PodLines = 0
    EventLists <- NoEvents
    MaxPods = 1
    MaxLogLines = 1
    MaxEventsPerObject = 1
    MaxEvents = 1
    LokiOn = TRUE
    PromOn = FALSE
    K8sOn = FALSE
PROPERTIES
    ImplementsDelivery
    SlotsComeBack
CHECK_DEADLOCK FALSE
