------------------------------- MODULE Collector -------------------------------
(***************************************************************************)
(* The serve process: webhook receiver, alert pipeline and forwarder put   *)
(* together as main.go wires them (runServer).  The handler's worker for   *)
(* alert a runs ProcessAlert(a), which runs Forward; a restart of the      *)
(* process takes them all down at once, while requests already on the wire *)
(* may still reach the brain.                                              *)
(***************************************************************************)
EXTENDS Integers, FiniteSets, Sequences

CONSTANTS
    Requests, MaxBatch, MaxConcurrent, DefaultConcurrent, MaxRestarts,
    Budget, Codes,
    CtxTimeout, ResolveTimeout, Delays, Statuses, LabelSets, PodsFound, PodLines,
    EventLists, MaxPods, MaxLogLines, MaxEventsPerObject, MaxEvents,
    LokiOn, PromOn, K8sOn

\* What Webhook, Forwarder and Pipeline assume of their constants.
ASSUME CollectorAssumption ==
    /\ MaxBatch \in Nat /\ MaxConcurrent \in Int
    /\ DefaultConcurrent \in Nat \ {0} /\ MaxRestarts \in Nat
    /\ Budget \in Nat /\ CtxTimeout \in 0..Budget
    /\ Codes \cap {"ok", "none"} = {}
    /\ ResolveTimeout \in Nat /\ Delays \subseteq Nat
    /\ Statuses \subseteq {"firing", "resolved"} /\ LabelSets # {}
    /\ PodsFound \in Nat /\ PodLines \in Nat /\ EventLists \subseteq Seq(Nat)
    /\ MaxPods \in Nat /\ MaxLogLines \in Nat
    /\ MaxEventsPerObject \in Nat /\ MaxEvents \in Nat
    /\ LokiOn \in BOOLEAN /\ PromOn \in BOOLEAN /\ K8sOn \in BOOLEAN

VARIABLES
    phase, size, next, sem, running, settled, releasing, dropped, lost, restarts

webhook == <<phase, size, next, sem, running, settled, releasing, dropped, lost,
             restarts>>

W == INSTANCE Webhook

VARIABLES
    fpc, attempt, budget, left, timer, lastErr, nonceOf, minted, wire, seen,
    replies, ingested,
    stage, alert, target, payload, heard, offered

work == <<fpc, attempt, budget, left, timer, lastErr, nonceOf, minted, wire, seen,
          replies, ingested, stage, alert, target, payload, heard, offered>>

P == INSTANCE Pipeline WITH Calls <- W!Alerts

vars == <<webhook, work>>

Init == W!Init /\ P!Init

\* A request is refused, decoded, answered, or has an alert dropped.
Handle(r) ==
    /\ W!Reject(r) \/ W!Decode(r) \/ W!Drop(r) \/ W!Ack(r)
    /\ UNCHANGED work

\* A worker starts and enters ProcessAlert.
Spawn(r) == W!Spawn(r) /\ P!Begin(<<r, next[r]>>)

\* ProcessAlert runs in its worker.
Work(a) == P!Work(a) /\ UNCHANGED webhook

\* ProcessAlert returns ...
Settle(a) == P!Return(a) /\ W!Settle(a)

\* ... and the deferred receive frees the slot.
Release(a) == W!Release(a) /\ UNCHANGED work

Restart == W!Restart /\ P!Die

Brain == P!Brain /\ UNCHANGED webhook

Next ==
    \/ \E r \in Requests : Handle(r) \/ Spawn(r)
    \/ \E a \in W!Alerts : Work(a) \/ Settle(a) \/ Release(a)
    \/ Restart
    \/ Brain

Spec == Init /\ [][Next]_vars

\* Handlers and workers keep running and time passes; nothing is assumed of
\* sources, brain, network and AlertManager.
Fairness ==
    /\ \A r \in Requests : WF_vars(Handle(r) /\ phase[r] = "dispatch")
                           /\ WF_vars(Spawn(r))
    /\ \A a \in W!Alerts :
          /\ WF_vars(P!Enrich(a) /\ UNCHANGED webhook)
          /\ WF_vars(P!CallForward(a) /\ UNCHANGED webhook)
          /\ WF_vars(P!ForwardRuns(a) /\ UNCHANGED webhook)
          /\ WF_vars(P!TimePasses(a) /\ UNCHANGED webhook)
          /\ WF_vars(Settle(a))
          /\ WF_vars(Release(a))

FairSpec == Spec /\ Fairness

-----------------------------------------------------------------------------
(* Properties *)

\* The fate of an alert as AlertDelivery sees it.
FateOf(a) ==
    IF a \in dropped THEN "dropped"
    ELSE IF a \in lost THEN "lost"
    ELSE IF a \in running THEN "processing"
    ELSE IF a \in settled THEN (IF fpc[a] = "ok" THEN "delivered" ELSE "failed")
    ELSE "unseen"

D == INSTANCE AlertDelivery WITH
        Alerts <- W!Alerts, Slots <- W!Ceiling, Attempts <- P!F!MaxAttempts,
        fate <- [a \in W!Alerts |-> FateOf(a)],
        copies <- [a \in W!Alerts |-> Cardinality({m \in ingested : m[1] = a})]

\* The collector implements the abstract delivery specification: whatever the
\* order in which handlers, workers, restarts and late requests interleave,
\* "delivered" means the brain holds the alert, a dropped alert never reaches
\* it, no alert is ingested more than three times, and never more than the
\* ceiling are in work.
ImplementsDelivery == D!Spec

\* A storm passes: a collector whose slots are all taken has one free again
\* later, even if the sources and the brain hang for ever, because the
\* deadline of ProcessAlert ends every worker.
SlotsComeBack == sem >= W!Ceiling ~> sem < W!Ceiling

===============================================================================
