------------------------------- MODULE Pipeline -------------------------------
(***************************************************************************)
(* ProcessAlert (internal/pipeline/pipeline.go): resolve the target of an  *)
(* alert, enrich the payload from Loki, Prometheus and the Kubernetes API, *)
(* and forward it.  All of it runs in one worker goroutine, under one      *)
(* context whose clock also runs during the enrichment, so that what is    *)
(* left of it when Forward begins depends on how slow the sources were.    *)
(*                                                                         *)
(* One action per stage; the loop of a stage over pods, queries or objects *)
(* is a function over the outcomes of its fetches.  Seconds are consumed   *)
(* as in Forwarder, whose variable left is the context of ProcessAlert.    *)
(***************************************************************************)
EXTENDS Integers, FiniteSets, Sequences, Functions

CONSTANTS
    Calls,              \* alerts, one call of ProcessAlert (and Forward) each
    Budget, Codes,      \* of Forwarder
    CtxTimeout,         \* seconds ProcessAlert gives itself (30 in the code)
    ResolveTimeout,     \* seconds Resolve gives itself (5)
    Delays,             \* bound: durations of a stage that are considered
    Statuses,           \* bound: statuses considered ("firing", "resolved")
    LabelSets,          \* bound: non-empty target labels of alerts considered
    PodsFound,          \* bound: pods a workload or claim may have
    PodLines,           \* bound: lines Loki may hold for a pod
    EventLists,         \* bound: event timestamps an object may have
    MaxPods,            \* pods resolved at most (10)
    MaxLogLines,        \* LOKI_MAX_LOG_LINES
    MaxEventsPerObject, \* 25
    MaxEvents,          \* maxEventsPerPayload (50)
    LokiOn, PromOn,     \* LOKI_ENABLED, PROMETHEUS_ENABLED
    K8sOn               \* a Kubernetes client could be made

ASSUME PipelineAssumption ==
    /\ Budget \in Nat /\ Codes \cap {"ok", "none"} = {}
    /\ CtxTimeout \in 0..Budget
    /\ ResolveTimeout \in Nat
    /\ Delays \subseteq Nat
    /\ Statuses \subseteq {"firing", "resolved"} /\ LabelSets # {}
    /\ EventLists \subseteq Seq(Nat)
    /\ PodsFound \in Nat /\ PodLines \in Nat
    /\ MaxPods \in Nat /\ MaxLogLines \in Nat
    /\ MaxEventsPerObject \in Nat /\ MaxEvents \in Nat
    /\ LokiOn \in BOOLEAN /\ PromOn \in BOOLEAN /\ K8sOn \in BOOLEAN

VARIABLES
    fpc, attempt, budget, left, timer, lastErr, nonceOf, minted, wire, seen,
    replies, ingested   \* of Forwarder

F == INSTANCE Forwarder

VARIABLES
    stage,      \* where the worker of an alert is
    alert,      \* [status, labels]
    target,     \* [type, pods, pvc]: what Resolve returned
    payload,    \* [logs, series, metas, events] collected so far
    heard,      \* history: Loki returned lines for one of its pods
    offered     \* history: what its event fetches returned, object by object

\* The variables of Forwarder, but for left, which the enrichment consumes.
forwarding == <<fpc, attempt, budget, timer, lastErr, nonceOf, minted, wire,
                seen, replies, ingested>>
pvars == <<stage, alert, target, payload, heard, offered>>
vars == <<forwarding, left, pvars>>

Stages == {"idle", "resolve", "loki", "prom", "meta", "events", "forward",
           "forwarding", "done", "gone"}

-----------------------------------------------------------------------------
(* Resolve *)

\* The labels Resolve looks for, most specific first.
Priority == <<"pod", "deployment", "daemonset", "statefulset", "node",
              "persistentvolumeclaim", "namespace">>

ResolvedBy(labels) ==
    LET hits == {i \in 1..Len(Priority) : Priority[i] \in labels}
    IN  IF hits = {} THEN "unknown"
        ELSE Priority[CHOOSE i \in hits : \A j \in hits : i <= j]

\* A StatefulSet is treated like a Deployment.
TargetType(by) ==
    CASE by = "statefulset" -> "deployment"
      [] by = "persistentvolumeclaim" -> "pvc"
      [] OTHER -> by

\* The kinds whose pods are looked up in the cluster.
LookedUp == {"deployment", "daemonset", "statefulset", "persistentvolumeclaim"}

\* Mutant: every pod of the workload is a target.
PodCountsUncapped(by) ==
    IF by = "pod" THEN {1}
    ELSE IF by \in LookedUp /\ K8sOn THEN 0..PodsFound
    ELSE {0}

\* How many pods Resolve may return: the named one; for a workload up to
\* MaxPods of those found, or none when the lookup fails; none otherwise.
PodCounts(by) ==
    IF by = "pod" THEN {1}
    ELSE IF by \in LookedUp /\ K8sOn
         THEN {IF n > MaxPods THEN MaxPods ELSE n : n \in 0..PodsFound}
    ELSE {0}

-----------------------------------------------------------------------------
(* The sources.  A fetch has an outcome [ok, v]; v is void if it failed. *)

\* Mutant: the cap ends the loop but the lines are not cut.
AddLinesUncut(n, o) == IF ~o.ok \/ n >= MaxLogLines THEN n ELSE n + o.v

\* Mutant: a pod that fails takes the lines of the others with it.
AddLinesAllOrNone(n, o) ==
    IF ~o.ok THEN 0
    ELSE IF n + o.v >= MaxLogLines THEN MaxLogLines
    ELSE n + o.v

\* One pass of the loop in FetchLogs with n lines so far: a pod that fails is
\* skipped, the lines of another are appended and cut at MaxLogLines, where the
\* loop ends.
AddLines(n, o) ==
    IF ~o.ok \/ n >= MaxLogLines THEN n
    ELSE IF n + o.v >= MaxLogLines THEN MaxLogLines
    ELSE n + o.v

\* FetchLogs: the number of lines after the last pod.
FetchLogs(outcomes) ==
    LET lines[i \in 0..Len(outcomes)] ==
            IF i = 0 THEN 0 ELSE AddLines(lines[i - 1], outcomes[i])
    IN  lines[Len(outcomes)]

\* How many entries Redact may make of n lines: one each, fewer when the byte
\* budget ends it early.
Redacted(n) == IF n = 0 THEN {0} ELSE 1..n

\* How many queries FetchMetrics makes for a target.
QueryCount(t) ==
    CASE ~PromOn -> 0
      [] PromOn /\ t.type = "pod" /\ t.pods > 0 -> 6
      [] PromOn /\ t.type = "deployment" /\ t.pods > 0 -> 8
      [] PromOn /\ t.type = "node" -> 6
      [] PromOn /\ t.type = "pvc" -> 2
      [] OTHER -> 0

FirstOf(seq, n) == SubSeq(seq, 1, IF Len(seq) > n THEN n ELSE Len(seq))

\* list in an order with the newest first, as sort.Slice leaves it.
NewestFirst(list) ==
    LET I == 1..Len(list)
        order == CHOOSE p \in Surjection(I, I) :
                    \A i, j \in I : i < j => list[p[i]] >= list[p[j]]
    IN  [i \in I |-> list[order[i]]]

\* Mutant: the first events are kept, then sorted.
FetchEventsCutFirst(list) == NewestFirst(FirstOf(list, MaxEventsPerObject))

\* FetchEvents: newest first, the newest MaxEventsPerObject.
FetchEvents(list) == FirstOf(NewestFirst(list), MaxEventsPerObject)

\* The events of object i, as <<i, timestamp>>.
EventsOf(i, o) ==
    IF ~o.ok THEN <<>>
    ELSE LET evs == FetchEvents(o.v) IN [j \in 1..Len(evs) |-> <<i, evs[j]>>]

\* The event loop of ProcessAlert: the events of object after object, skipping
\* objects that fail ...
AllEvents(outcomes) ==
    LET all[i \in 0..Len(outcomes)] ==
            IF i = 0 THEN <<>> ELSE all[i - 1] \o EventsOf(i, outcomes[i])
    IN  all[Len(outcomes)]

\* ... cut at MaxEvents.
CollectEvents(outcomes) == FirstOf(AllEvents(outcomes), MaxEvents)

\* The outcomes n fetches of values V can have with t seconds left: under an
\* expired context every one fails.
Outcomes(n, V, t) ==
    LET Bad == [ok : {FALSE}, v : {CHOOSE v \in V : TRUE}]
        Good == [ok : {TRUE}, v : V]
    IN  [1..n -> IF t = 0 THEN Bad ELSE Bad \cup Good]

-----------------------------------------------------------------------------
(* ProcessAlert *)

NoPayload == [logs |-> 0, series |-> 0, metas |-> 0, events |-> <<>>]

TypeOK ==
    /\ F!TypeOK
    /\ stage \in [Calls -> Stages]
    /\ alert \in [Calls -> [status : {"firing", "resolved"}, labels : LabelSets]]
    /\ \A c \in Calls :
          /\ target[c].pods \in 0..MaxPods \cup {1}
          /\ payload[c].logs \in Nat
          /\ payload[c].series \in 0..8
          /\ payload[c].metas \in 0..target[c].pods

Init ==
    /\ F!Init
    /\ stage = [c \in Calls |-> "idle"]
    /\ alert \in [Calls -> [status : {"firing"}, labels : {CHOOSE l \in LabelSets : TRUE}]]
    /\ target = [c \in Calls |-> [type |-> "unknown", pods |-> 0, pvc |-> FALSE]]
    /\ payload = [c \in Calls |-> NoPayload]
    /\ heard = [c \in Calls |-> FALSE]
    /\ offered = [c \in Calls |-> <<>>]

\* A stage takes up to limit seconds of the context.
Elapse(c, limit) ==
    \E d \in Delays :
        /\ d <= limit
        /\ left' = [left EXCEPT ![c] = IF d >= @ THEN 0 ELSE @ - d]

\* A fetch made under the context takes no longer than the context lasts; a
\* stage without fetches takes no time.
Fetching(c, n) == Elapse(c, IF n = 0 THEN 0 ELSE left[c])

\* ProcessAlert begins: the context starts to run.  An empty status is firing.
Begin(c) ==
    /\ stage[c] = "idle"
    /\ \E s \in Statuses, l \in LabelSets :
          alert' = [alert EXCEPT ![c] = [status |-> s, labels |-> l]]
    /\ left' = [left EXCEPT ![c] = CtxTimeout]
    /\ stage' = [stage EXCEPT ![c] = "resolve"]
    /\ UNCHANGED <<forwarding, target, payload, heard, offered>>

\* Resolve, under a context of its own; the payload is built, and a resolved
\* alert goes straight to Forward.
Resolve(c) ==
    LET by == ResolvedBy(alert[c].labels) IN
    /\ stage[c] = "resolve"
    /\ \E n \in PodCounts(by) :
          target' = [target EXCEPT ![c] =
                        [type |-> TargetType(by), pods |-> n,
                         pvc |-> by = "persistentvolumeclaim"]]
    /\ Elapse(c, IF by \in LookedUp /\ K8sOn THEN ResolveTimeout ELSE 0)
    /\ stage' = [stage EXCEPT ![c] =
                    IF alert[c].status = "resolved" THEN "forward" ELSE "loki"]
    /\ UNCHANGED <<forwarding, alert, payload, heard, offered>>

\* Logs are fetched for a target with pods in a namespace.
LokiPods(c) ==
    IF LokiOn /\ "namespace" \in alert[c].labels THEN target[c].pods ELSE 0

\* Loki has answered with lines for one of the pods.
HasLines(o) == \E i \in DOMAIN o : o[i].ok /\ o[i].v > 0

\* What FetchLogs returns, never an error, goes through Redact.
FetchLokiLogs(c) ==
    /\ stage[c] = "loki"
    /\ Fetching(c, LokiPods(c))
    /\ \E o \in Outcomes(LokiPods(c), 0..PodLines, left[c]) :
          /\ \E n \in Redacted(FetchLogs(o)) :
                payload' = [payload EXCEPT ![c].logs = n]
          /\ heard' = [heard EXCEPT ![c] = HasLines(o)]
    /\ stage' = [stage EXCEPT ![c] = "prom"]
    /\ UNCHANGED <<forwarding, alert, target, offered>>

\* FetchMetrics has a series, possibly without points, for every query that did
\* not fail; like FetchLogs it never returns an error.
FetchPromMetrics(c) ==
    LET n == QueryCount(target[c]) IN
    /\ stage[c] = "prom"
    /\ Fetching(c, n)
    /\ \E bad \in 0..n :
          /\ left[c] = 0 => bad = n
          /\ payload' = [payload EXCEPT ![c].series = n - bad]
    /\ stage' = [stage EXCEPT ![c] = "meta"]
    /\ UNCHANGED <<forwarding, alert, target, heard, offered>>

\* The metadata of every pod that can be read.
FetchPodMeta(c) ==
    LET n == IF K8sOn THEN target[c].pods ELSE 0 IN
    /\ stage[c] = "meta"
    /\ Fetching(c, n)
    /\ \E k \in IF left[c] = 0 THEN {0} ELSE 0..n :
          payload' = [payload EXCEPT ![c].metas = k]
    /\ stage' = [stage EXCEPT ![c] = "events"]
    /\ UNCHANGED <<forwarding, alert, target, heard, offered>>

\* The objects events are fetched for: the pods, then the claim.
EventObjects(c) ==
    IF K8sOn /\ "namespace" \in alert[c].labels
    THEN target[c].pods + (IF target[c].pvc THEN 1 ELSE 0)
    ELSE 0

FetchTargetEvents(c) ==
    /\ stage[c] = "events"
    /\ Fetching(c, EventObjects(c))
    /\ \E o \in Outcomes(EventObjects(c), EventLists, left[c]) :
          /\ payload' = [payload EXCEPT ![c].events = CollectEvents(o)]
          /\ offered' = [offered EXCEPT ![c] = o]
    /\ stage' = [stage EXCEPT ![c] = "forward"]
    /\ UNCHANGED <<forwarding, alert, target, heard>>

\* Forward is called with what the enrichment has left of the context.
CallForward(c) ==
    /\ stage[c] = "forward"
    /\ F!Start(c, left[c])
    /\ stage' = [stage EXCEPT ![c] = "forwarding"]
    /\ UNCHANGED <<alert, target, payload, heard, offered>>

\* Forward runs, time passes for it, or its connection breaks.
ForwardRuns(c) == stage[c] = "forwarding" /\ F!Client(c) /\ UNCHANGED pvars

TimePasses(c) == stage[c] = "forwarding" /\ F!Tick(c) /\ UNCHANGED pvars

ConnectionBreaks(c) == stage[c] = "forwarding" /\ F!Breaks(c) /\ UNCHANGED pvars

\* Forward has returned, and with it ProcessAlert; an error is only logged.
Return(c) ==
    /\ stage[c] = "forwarding"
    /\ F!Ended(c)
    /\ stage' = [stage EXCEPT ![c] = "done"]
    /\ UNCHANGED <<forwarding, left, alert, target, payload, heard, offered>>

\* The process dies with its workers; what is on the wire may still arrive.
Die ==
    /\ stage' = [c \in Calls |->
                    IF stage[c] \in {"idle", "done"} THEN stage[c] ELSE "gone"]
    /\ UNCHANGED <<forwarding, left, alert, target, payload, heard, offered>>

Enrich(c) ==
    \/ Resolve(c) \/ FetchLokiLogs(c) \/ FetchPromMetrics(c)
    \/ FetchPodMeta(c) \/ FetchTargetEvents(c)

Work(c) ==
    \/ Enrich(c) \/ CallForward(c)
    \/ ForwardRuns(c) \/ TimePasses(c) \/ ConnectionBreaks(c)

Brain == F!Brain /\ UNCHANGED pvars

Next ==
    \/ \E c \in Calls : Begin(c) \/ Work(c) \/ Return(c)
    \/ Brain

Spec == Init /\ [][Next]_vars

\* A worker keeps running: the sources' own timeouts bound every stage.
WorkFairness ==
    \A c \in Calls :
        /\ WF_vars(Enrich(c) \/ CallForward(c) \/ Return(c))
        /\ WF_vars(ForwardRuns(c))
        /\ WF_vars(TimePasses(c))

FairSpec == Spec /\ WorkFairness

-----------------------------------------------------------------------------
(* Properties *)

\* "Enrichment fetches are hard-bounded so an alert storm can't turn into ...
\* a giant payload" (README): at most MaxLogLines lines, MaxPods pods (the
\* named one aside) and MaxEvents events, whatever the sources hold.
PayloadBounded ==
    \A c \in Calls :
        /\ payload[c].logs <= MaxLogLines
        /\ payload[c].metas <= MaxPods \/ target[c].type = "pod"
        /\ Len(payload[c].events) <= MaxEvents

\* If Loki returned lines for a pod of the target, the payload has some.
LinesUsed(c) == heard[c] /\ MaxLogLines > 0 => payload[c].logs > 0

\* An event of the target that was fetched is in the payload unless
\* MaxEventsPerObject events of its object, none of them older, are there
\* instead, or the payload is full.
NewestEventsKept(c) ==
    \A i \in DOMAIN offered[c] :
        LET list == offered[c][i].v
            kept == payload[c].events
        IN  offered[c][i].ok /\ Len(kept) < MaxEvents =>
                \A k \in 1..Len(list) :
                    \/ \E j \in 1..Len(kept) : kept[j] = <<i, list[k]>>
                    \/ MaxEventsPerObject <=
                          Cardinality({j \in 1..Len(kept) :
                              kept[j][1] = i /\ kept[j][2] >= list[k]})

\* A fetch that fails does not cost what the other pods and objects returned
\* (FetchLogs and the event loop of ProcessAlert log the error and go on), and
\* the caps of FetchEvents and ProcessAlert keep the newest events.
FetchedIsUsed == \A c \in Calls : LinesUsed(c) /\ NewestEventsKept(c)

\* Every call of ProcessAlert returns, and so frees its worker slot, whatever
\* sources, brain and network do.
ProcessAlertReturns ==
    \A c \in Calls : stage[c] = "resolve" ~> stage[c] = "done"

\* "Fail-soft like the other enrichment steps" (CHANGELOG 0.10.0): whatever
\* the sources do, the alert is sent to the brain at least once.
FailSoftEnrichment ==
    \A c \in Calls :
        stage[c] = "done" /\ lastErr[c] = "DeadlineExceeded" => nonceOf[c] # 0

=============================================================================
