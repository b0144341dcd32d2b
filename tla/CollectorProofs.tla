--------------------------- MODULE CollectorProofs ---------------------------
(***************************************************************************)
(* The serve process implements AlertDelivery, for any number of requests, *)
(* restarts and concurrent workers.  What is known of the webhook receiver *)
(* and of the pipeline with its forwarder is taken from their proofs, and  *)
(* shown to hold of the whole process as well.                             *)
(***************************************************************************)
EXTENDS Collector, FiniteSetTheorems, TLAPS

WP == INSTANCE WebhookProofs

PP == INSTANCE PipelineProofs WITH Calls <- W!Alerts

(***************************************************************************)
(* The inductive invariant: those of the parts, and what holds between     *)
(* them.  That a delivered alert stays delivered, and that one refused at  *)
(* the ceiling never reaches the brain, rests on the worker's stage being  *)
(* in step with the handler's books.                                       *)
(***************************************************************************)

\* The books of the handler and the stages of the workers agree, and Forward
\* has ended when ProcessAlert has returned.
InStep ==
    \A a \in W!Alerts :
        /\ a \in running <=> stage[a] \in PP!Working
        /\ a \in settled <=> stage[a] = "done"
        /\ a \in lost <=> stage[a] = "gone"
        /\ stage[a] = "done" => fpc[a] \in {"ok", "error"}

CInv ==
    /\ WP!IInv
    /\ PP!IInv
    /\ InStep

-----------------------------------------------------------------------------
(* The parts *)

\* The assumptions of the parts.
LEMMA PartsAssumed == WP!WebhookAssumption /\ PP!PipelineAssumption
BY CollectorAssumption

\* Every step is a step of the webhook receiver or leaves it alone.
LEMMA WebhookSteps == [Next]_vars => [WP!Next]_(WP!vars)
<1> SUFFICES ASSUME [Next]_vars PROVE [WP!Next]_(WP!vars)
  OBVIOUS
<1>1. CASE UNCHANGED webhook
  BY <1>1 DEF webhook, WP!vars
<1>2. ASSUME NEW r \in Requests, W!Reject(r) \/ W!Decode(r) \/ W!Drop(r) \/ W!Ack(r) \/ W!Spawn(r)
      PROVE  WP!Handle(r)
  BY <1>2
  DEF W!Reject, W!Decode, W!Drop, W!Ack, W!Spawn, W!Looping, W!Ceiling, WP!Handle, WP!Reject,
      WP!Decode, WP!Drop, WP!Ack, WP!Spawn, WP!Looping, WP!Ceiling
<1>3. ASSUME NEW a \in W!Alerts, W!Settle(a) \/ W!Release(a)
      PROVE  a \in WP!Alerts /\ (WP!Settle(a) \/ WP!Release(a))
  BY <1>3 DEF W!Settle, W!Release, WP!Settle, WP!Release, W!Alerts, WP!Alerts
<1>4. ASSUME W!Restart PROVE WP!Restart
  BY <1>4 DEF W!Restart, WP!Restart
<1> QED
  BY <1>1, <1>2, <1>3, <1>4
  DEF Next, Handle, Spawn, Work, Settle, Release, Restart, Brain, vars, WP!Next

\* The stages of the enrichment are those of the pipeline ...
LEMMA SameEnrich == ASSUME NEW a \in W!Alerts, P!Enrich(a) PROVE PP!Enrich(a)
<1> USE DEF P!Fetching, PP!Fetching, P!Elapse, PP!Elapse, P!Outcomes, PP!Outcomes,
            P!forwarding, PP!forwarding
<1>1. CASE P!Resolve(a)
  BY <1>1, Zenon
  DEF P!Resolve, P!ResolvedBy, P!Priority, P!TargetType, P!LookedUp, P!PodCounts,
      PP!Resolve, PP!ResolvedBy, PP!Priority, PP!TargetType, PP!LookedUp, PP!PodCounts, PP!Enrich
<1>2. CASE P!FetchLokiLogs(a)
  BY <1>2, Zenon
  DEF P!FetchLokiLogs, P!LokiPods, P!Redacted, P!FetchLogs, P!AddLines, P!HasLines,
      PP!FetchLokiLogs, PP!LokiPods, PP!Redacted, PP!FetchLogs, PP!AddLines, PP!HasLines,
      PP!Enrich
<1>3. CASE P!FetchPromMetrics(a)
  BY <1>3, Zenon
  DEF P!FetchPromMetrics, P!QueryCount, PP!FetchPromMetrics, PP!QueryCount, PP!Enrich
<1>4. CASE P!FetchPodMeta(a)
  BY <1>4, Zenon DEF P!FetchPodMeta, PP!FetchPodMeta, PP!Enrich
<1>5. CASE P!FetchTargetEvents(a)
  BY <1>5, Zenon
  DEF P!FetchTargetEvents, P!EventObjects, P!CollectEvents, P!AllEvents, P!FirstOf, P!EventsOf,
      P!FetchEvents, P!NewestFirst, P!Surjection,
      PP!FetchTargetEvents, PP!EventObjects, PP!CollectEvents, PP!AllEvents, PP!FirstOf,
      PP!EventsOf, PP!FetchEvents, PP!NewestFirst, PP!Surjection, PP!Enrich
<1> QED
  BY <1>1, <1>2, <1>3, <1>4, <1>5 DEF P!Enrich

\* ... so are the call of Forward, ...
LEMMA SameCall == ASSUME NEW a \in W!Alerts, P!CallForward(a) PROVE PP!CallForward(a)
BY DEF P!CallForward, P!F!Start, P!F!brainVars, PP!CallForward, PP!F!Start, PP!F!brainVars

\* ... its run ...
LEMMA SameRun ==
    ASSUME NEW a \in W!Alerts, P!ForwardRuns(a) \/ P!TimePasses(a) \/ P!ConnectionBreaks(a)
    PROVE  PP!ForwardRuns(a) \/ PP!TimePasses(a) \/ PP!ConnectionBreaks(a)
BY DEF P!ForwardRuns, P!TimePasses, P!ConnectionBreaks, P!pvars,
       P!F!Client, P!F!Send, P!F!SendFails, P!F!Receive, P!F!Expires, P!F!Retry, P!F!Cancel,
       P!F!Tick, P!F!Breaks, P!F!Failed, P!F!isPermanent, P!F!GrpcPermanent, P!F!HttpPermanent,
       P!F!MaxAttempts, P!F!Backoff, P!F!brainVars,
       PP!ForwardRuns, PP!TimePasses, PP!ConnectionBreaks, PP!pvars,
       PP!F!Client, PP!F!Send, PP!F!SendFails, PP!F!Receive, PP!F!Expires, PP!F!Retry,
       PP!F!Cancel, PP!F!Tick, PP!F!Breaks, PP!F!Failed, PP!F!isPermanent, PP!F!GrpcPermanent,
       PP!F!HttpPermanent, PP!F!MaxAttempts, PP!F!Backoff, PP!F!brainVars

\* ... and what brain and network do.
LEMMA SameBrain == ASSUME P!Brain PROVE PP!Brain
BY DEF P!Brain, P!pvars, P!F!Brain, P!F!BrainIngests, P!F!BrainRefuses, P!F!Lose, P!F!callVars,
       PP!Brain, PP!pvars, PP!F!Brain, PP!F!BrainIngests, PP!F!BrainRefuses, PP!F!Lose,
       PP!F!callVars

\* A worker is started for an alert of its request.
LEMMA SpawnedAlert ==
    ASSUME CInv, NEW r \in Requests, W!Spawn(r) PROVE <<r, next[r]>> \in W!Alerts
<1>1. next[r] \in 1..MaxBatch
  BY CollectorAssumption DEF CInv, WP!IInv, WP!TypeOK, W!Spawn, W!Looping
<1> QED
  BY <1>1 DEF W!Alerts

\* Every step is a step of the pipeline, or its end, or leaves it alone.
LEMMA PipelineSteps == ASSUME CInv, [Next]_vars PROVE [PP!Step]_(PP!vars)
<1>1. CASE UNCHANGED work
  BY <1>1 DEF work, PP!vars, PP!pvars, PP!forwarding
<1>2. ASSUME NEW r \in Requests, Spawn(r) PROVE PP!Next
  BY <1>2, SpawnedAlert DEF Spawn, P!Begin, P!forwarding, PP!Begin, PP!forwarding, PP!Next
<1>3. ASSUME NEW a \in W!Alerts, Work(a) PROVE PP!Next
  BY <1>3, SameEnrich, SameCall, SameRun DEF Work, P!Work, PP!Work, PP!Next
<1>4. ASSUME NEW a \in W!Alerts, Settle(a) PROVE PP!Next
  BY <1>4 DEF Settle, P!Return, P!forwarding, P!F!Ended, PP!Return, PP!forwarding, PP!F!Ended,
              PP!Next
<1>5. ASSUME Restart PROVE PP!Die
  BY <1>5 DEF Restart, P!Die, P!forwarding, PP!Die, PP!forwarding
<1>6. ASSUME Brain PROVE PP!Next
  BY <1>6, SameBrain DEF Brain, PP!Next
<1> QED
  BY <1>1, <1>2, <1>3, <1>4, <1>5, <1>6 DEF Next, Handle, Release, vars, PP!Step

\* So the invariants of the parts are kept.
LEMMA PartsKept == ASSUME CInv, [Next]_vars PROVE (WP!IInv /\ PP!IInv)'
<1>1. WP!IInv'
  BY WebhookSteps, PartsAssumed, WP!NextInv DEF CInv
<1>2. PP!IInv'
  BY PipelineSteps, PartsAssumed, PP!StepInv DEF CInv
<1> QED
  BY <1>1, <1>2

-----------------------------------------------------------------------------
(* What holds between them *)

\* The stages are those of the pipeline.
LEMMA StagesTyped == ASSUME CInv PROVE stage \in [W!Alerts -> PP!Stages]
BY DEF CInv, PP!IInv, PP!PInv

\* A worker enters ProcessAlert.
LEMMA SpawnStep == ASSUME CInv, NEW r \in Requests, Spawn(r) PROVE InStep'
<1> DEFINE a == <<r, next[r]>>
<1>1. a \in W!Alerts
  BY SpawnedAlert DEF Spawn
<1>2. /\ stage[a] = "idle" /\ stage' = [stage EXCEPT ![a] = "resolve"] /\ fpc' = fpc
      /\ running' = running \cup {a} /\ UNCHANGED <<settled, lost>>
  BY DEF Spawn, P!Begin, P!forwarding, W!Spawn
<1> QED
  BY <1>1, <1>2, StagesTyped DEF CInv, InStep, PP!Working

\* A worker that works moves its own alert, within ProcessAlert.
LEMMA WorkShape ==
    ASSUME CInv, NEW a \in W!Alerts, P!Work(a)
    PROVE  /\ stage[a] \in PP!Working
           /\ \E l \in PP!Working : stage' = [stage EXCEPT ![a] = l]
           /\ \A b \in W!Alerts : b # a => fpc'[b] = fpc[b]
           /\ ingested' = ingested
<1>1. PP!PInv /\ PP!PipelineAssumption
  BY PartsAssumed DEF CInv, PP!IInv
<1>2. fpc \in [W!Alerts -> PP!FP!FPCs] /\ left[a] \in 0..Budget /\ PP!FP!TypeOK
  BY <1>1 DEF PP!PInv, PP!FP!IInv, PP!FP!TypeOK
<1>3. CASE P!Enrich(a)
  BY <1>1, <1>3, SameEnrich, PP!EnrichShape DEF PP!forwarding
<1>4. CASE P!CallForward(a)
  <2>1. /\ stage[a] = "forward" /\ stage' = [stage EXCEPT ![a] = "forwarding"]
        /\ PP!FP!Start(a, left[a])
    BY <1>1, <1>4, SameCall, PP!CallShape
  <2> QED
    BY <1>2, <2>1 DEF PP!Working, PP!FP!Start, PP!FP!brainVars
<1>5. CASE P!ForwardRuns(a) \/ P!TimePasses(a) \/ P!ConnectionBreaks(a)
  <2>1. /\ stage[a] = "forwarding" /\ stage' = stage
        /\ PP!FP!Client(a) \/ PP!FP!Tick(a) \/ PP!FP!Breaks(a)
    BY <1>1, <1>5, SameRun, PP!RunShape DEF PP!pvars
  <2>2. stage' = [stage EXCEPT ![a] = "forwarding"]
    BY <2>1, StagesTyped
  <2>3. ingested' = ingested
    BY <2>1 DEF PP!FP!Client, PP!FP!Send, PP!FP!SendFails, PP!FP!Receive, PP!FP!Expires,
                PP!FP!Retry, PP!FP!Cancel, PP!FP!Tick, PP!FP!Breaks, PP!FP!brainVars
  <2> QED
    BY <1>1, <1>2, <2>1, <2>2, <2>3, PP!OwnCall DEF PP!Working
<1> QED
  BY <1>3, <1>4, <1>5 DEF P!Work

\* So it stays one that runs.
LEMMA WorkStep == ASSUME CInv, NEW a \in W!Alerts, Work(a) PROVE InStep'
<1>1. UNCHANGED webhook /\ P!Work(a)
  BY DEF Work
<1>2. PICK l \in PP!Working : stage' = [stage EXCEPT ![a] = l]
  BY <1>1, WorkShape
<1>3. stage[a] \in PP!Working /\ \A b \in W!Alerts : b # a => fpc'[b] = fpc[b]
  BY <1>1, WorkShape
<1> QED
  BY <1>1, <1>2, <1>3, StagesTyped DEF CInv, InStep, PP!Working, webhook

\* The handler refuses, answers, drops; ProcessAlert returns; a slot is freed;
\* the process dies: books and stages change together.
LEMMA BookSteps ==
    ASSUME CInv, \/ \E r \in Requests : Handle(r)
                 \/ \E a \in W!Alerts : Settle(a) \/ Release(a)
                 \/ Restart
    PROVE  InStep'
<1>1. fpc' = fpc
  BY DEF Handle, Settle, Release, Restart, work, P!Return, P!Die, P!forwarding
<1>2. CASE (\E r \in Requests : Handle(r)) \/ \E a \in W!Alerts : Release(a)
  <2>1. UNCHANGED <<stage, running, settled, lost>>
    BY <1>2 DEF Handle, Release, work, W!Reject, W!Decode, W!Drop, W!Ack, W!Release
  <2> QED
    BY <1>1, <2>1 DEF CInv, InStep
<1>3. ASSUME NEW a \in W!Alerts, Settle(a) PROVE InStep'
  <2>1. /\ stage[a] = "forwarding" /\ stage' = [stage EXCEPT ![a] = "done"]
        /\ fpc[a] \in {"ok", "error"}
        /\ running' = running \ {a} /\ settled' = settled \cup {a} /\ lost' = lost
    BY <1>3 DEF Settle, P!Return, P!F!Ended, W!Settle
  <2> QED
    BY <1>1, <2>1, StagesTyped DEF CInv, InStep, PP!Working
<1>4. CASE Restart
  <2>1. /\ stage' = [a \in W!Alerts |->
                        IF stage[a] \in {"idle", "done"} THEN stage[a] ELSE "gone"]
        /\ running' = {} /\ lost' = lost \cup running /\ settled' = settled
    BY <1>4 DEF Restart, P!Die, W!Restart
  <2> QED
    BY <1>1, <2>1, StagesTyped DEF CInv, InStep, PP!Working, PP!Stages
<1> QED
  BY <1>2, <1>3, <1>4

\* Brain and network move neither.
LEMMA BrainShape ==
    ASSUME Brain PROVE PP!FP!Brain /\ UNCHANGED <<webhook, stage, fpc>>
<1>1. PP!FP!Brain /\ UNCHANGED PP!pvars /\ UNCHANGED webhook
  BY SameBrain, PartsAssumed, PP!BrainShape DEF Brain
<1> QED
  BY <1>1 DEF PP!pvars, PP!FP!Brain, PP!FP!BrainIngests, PP!FP!BrainRefuses, PP!FP!Lose,
              PP!FP!callVars

\* The initial states satisfy the invariant.
LEMMA InitInv == Init => CInv
<1> SUFFICES ASSUME Init PROVE CInv
  OBVIOUS
<1>1. WP!IInv
  BY PartsAssumed, WP!InitInv DEF Init, W!Init, WP!Init
<1>2. PP!Init
  BY Zenon DEF Init, P!Init, P!F!Init, P!NoPayload, PP!Init, PP!F!Init, PP!NoPayload
<1>3. PP!IInv
  BY <1>2, PartsAssumed, PP!InitInv
<1>4. stage = [a \in W!Alerts |-> "idle"] /\ running = {} /\ settled = {} /\ lost = {}
  BY DEF Init, P!Init, W!Init
<1>5. InStep
  BY <1>4 DEF InStep, PP!Working
<1> QED
  BY <1>1, <1>3, <1>5 DEF CInv

\* Every step, or a stuttering step, preserves the invariant.
LEMMA NextInv == CInv /\ [Next]_vars => CInv'
<1> SUFFICES ASSUME CInv, [Next]_vars PROVE CInv'
  OBVIOUS
<1>1. ASSUME Brain PROVE InStep'
  BY <1>1, BrainShape DEF CInv, InStep, webhook
<1>2. ASSUME UNCHANGED vars PROVE InStep'
  BY <1>2 DEF CInv, InStep, vars, webhook, work
<1>3. InStep'
  BY <1>1, <1>2, SpawnStep, WorkStep, BookSteps DEF Next
<1> QED
  BY <1>3, PartsKept DEF CInv

\* The inductive invariant holds throughout.
LEMMA Invariance == Spec => []CInv
<1> QED
  BY InitInv, NextInv, PTL DEF Spec

-----------------------------------------------------------------------------
(* The refinement *)

\* The variables of AlertDelivery as the collector has them.
Fate == [a \in W!Alerts |-> FateOf(a)]

Held(a) == {m \in ingested : m[1] = a}

Copies == [a \in W!Alerts |-> Cardinality(Held(a))]

\* Every part counts alike.
LEMMA SameFinite == \A S : /\ PP!FP!IsFiniteSet(S) <=> IsFiniteSet(S)
                           /\ WP!IsFiniteSet(S) <=> IsFiniteSet(S)
BY DEF PP!FP!IsFiniteSet, WP!IsFiniteSet, IsFiniteSet

LEMMA SameCardinality == \A S : /\ PP!FP!Cardinality(S) = Cardinality(S)
                                /\ WP!Cardinality(S) = Cardinality(S)
                                /\ D!Cardinality(S) = Cardinality(S)
BY DEF PP!FP!Cardinality, WP!Cardinality, D!Cardinality, Cardinality

\* The brain's copies of an alert can be counted, and are among what its worker
\* has transmitted.
LEMMA CopiesCount ==
    ASSUME CInv, NEW a \in W!Alerts
    PROVE  /\ IsFiniteSet(Held(a)) /\ Copies[a] = Cardinality(Held(a)) /\ Copies[a] \in Nat
           /\ Copies[a] <= P!F!MaxAttempts
           /\ fpc[a] = "idle" => PP!FP!Transmissions(a) = {}
           /\ Held(a) # {} => Copies[a] > 0
<1>1. /\ IsFiniteSet(PP!FP!Transmissions(a))
      /\ Cardinality(PP!FP!Transmissions(a)) \in Nat
      /\ Cardinality(PP!FP!Transmissions(a)) <= PP!FP!Sent(a)
  BY FS_CardinalityType, SameFinite, SameCardinality DEF CInv, PP!IInv, PP!PInv, PP!FP!Bounded
<1>2. Held(a) \subseteq PP!FP!Transmissions(a)
  BY DEF Held, PP!FP!Transmissions
<1>3. /\ IsFiniteSet(Held(a)) /\ Cardinality(Held(a)) \in Nat
      /\ Cardinality(Held(a)) <= Cardinality(PP!FP!Transmissions(a))
  BY <1>1, <1>2, FS_Subset, FS_CardinalityType
<1>4. Copies[a] = Cardinality(Held(a))
  BY DEF Copies
<1>5. PP!FP!Sent(a) \in Nat /\ PP!FP!Sent(a) <= 3 /\ (fpc[a] = "idle" => PP!FP!Sent(a) = 0)
  BY DEF CInv, PP!IInv, PP!PInv, PP!FP!IInv, PP!FP!TypeOK, PP!FP!IdleIsFresh, PP!FP!Sent, PP!FP!MaxAttempts
<1>6. Copies[a] <= P!F!MaxAttempts
  BY <1>1, <1>3, <1>4, <1>5 DEF P!F!MaxAttempts
<1>7. fpc[a] = "idle" => PP!FP!Transmissions(a) = {}
  <2>1. fpc[a] = "idle" => Cardinality(PP!FP!Transmissions(a)) = 0
    BY <1>1, <1>5
  <2> QED
    BY <1>1, <2>1, FS_EmptySet
<1>8. Held(a) # {} => Cardinality(Held(a)) > 0
  <2>1. Cardinality(Held(a)) = 0 <=> Held(a) = {}
    BY <1>3, FS_EmptySet
  <2> QED
    BY <1>3, <2>1
<1> QED
  BY <1>3, <1>4, <1>6, <1>7, <1>8

\* A fate stays while the books and the results of settled alerts do.
LEMMA FateStays ==
    ASSUME NEW a \in W!Alerts,
           a \in running' <=> a \in running, a \in settled' <=> a \in settled,
           a \in dropped' <=> a \in dropped, a \in lost' <=> a \in lost,
           a \in settled => fpc'[a] = fpc[a]
    PROVE  Fate'[a] = Fate[a]
BY DEF Fate, FateOf

\* The alert a handler looks at next is unseen.
LEMMA NextIsUnseen ==
    ASSUME CInv, NEW r \in Requests, W!Looping(r)
    PROVE  /\ <<r, next[r]>> \in W!Alerts
           /\ <<r, next[r]>> \notin running \cup settled \cup dropped \cup lost
           /\ Fate[<<r, next[r]>>] = "unseen"
<1>1. WP!IInv /\ WP!Looping(r)
  BY DEF CInv, W!Looping, WP!Looping
<1>2. <<r, next[r]>> \in WP!Alerts /\ ~WP!Seen(<<r, next[r]>>)
  BY <1>1, PartsAssumed, WP!NextIsFresh
<1> QED
  BY <1>2 DEF WP!Alerts, W!Alerts, WP!Seen, Fate, FateOf

\* What is in work is what runs.
LEMMA InWorkIsRunning ==
    ASSUME CInv
    PROVE  {a \in W!Alerts : Fate[a] = "processing"} = running
BY DEF CInv, WP!IInv, WP!TypeOK, WP!FatesDisjoint, WP!Alerts, W!Alerts, Fate, FateOf

\* The initial states are initial states of AlertDelivery.
LEMMA InitRefines == Init => D!Init
<1> SUFFICES ASSUME Init PROVE D!Init
  OBVIOUS
<1>1. Fate = [a \in W!Alerts |-> "unseen"]
  BY DEF Init, W!Init, Fate, FateOf
<1>2. \A a \in W!Alerts : Held(a) = {}
  BY DEF Init, P!Init, P!F!Init, Held
<1>3. Copies = [a \in W!Alerts |-> 0]
  BY <1>2, FS_EmptySet DEF Copies
<1> QED
  BY <1>1, <1>3 DEF D!Init, Fate, Copies, Held

\* Starting a worker takes the alert on.
LEMMA SpawnRefines ==
    ASSUME CInv, NEW r \in Requests, Spawn(r)
    PROVE  D!Accept(<<r, next[r]>>)
<1> DEFINE a == <<r, next[r]>>
<1>1. /\ running' = running \cup {a} /\ UNCHANGED <<settled, dropped, lost, fpc, ingested>>
      /\ sem < W!Ceiling /\ W!Looping(r)
  BY DEF Spawn, W!Spawn, P!Begin, P!forwarding
<1>2. /\ a \in W!Alerts /\ a \notin running \cup settled \cup dropped \cup lost
      /\ Fate[a] = "unseen"
  BY <1>1, NextIsUnseen
<1> HIDE DEF a
<1>3. Fate' = [Fate EXCEPT ![a] = "processing"]
  <2>1. \A b \in W!Alerts : b # a => Fate'[b] = Fate[b]
    BY <1>1, FateStays
  <2>2. Fate'[a] = "processing"
    BY <1>1, <1>2 DEF Fate, FateOf
  <2> QED
    BY <2>1, <2>2 DEF Fate
<1>4. Copies' = Copies
  BY <1>1 DEF Copies, Held
<1>5. Cardinality({b \in W!Alerts : Fate[b] = "processing"}) < W!Ceiling
  <2>1. /\ Cardinality(running) \in Nat /\ Cardinality(releasing) \in Nat
        /\ sem = Cardinality(running) + Cardinality(releasing)
    BY FS_CardinalityType, SameFinite, SameCardinality DEF CInv, WP!IInv, WP!Workers, WP!SlotsMatchWorkers
  <2>2. W!Ceiling \in Nat
    BY CollectorAssumption DEF W!Ceiling
  <2>3. Cardinality(running) < W!Ceiling
    BY <1>1, <2>1, <2>2
  <2>4. {b \in W!Alerts : Fate[b] = "processing"} = running
    BY InWorkIsRunning
  <2> QED
    BY <2>3, <2>4
<1> QED
  BY <1>2, <1>3, <1>4, <1>5, SameCardinality DEF D!Accept, D!InWork, D!Become, Fate, Copies, Held, a

\* At the ceiling the alert is refused; the rest of the handler does not show.
LEMMA HandleRefines ==
    ASSUME CInv, NEW r \in Requests, Handle(r)
    PROVE  (\E a \in W!Alerts : D!Refuse(a)) \/ UNCHANGED <<Fate, Copies>>
<1>1. UNCHANGED <<fpc, ingested>> /\ Copies' = Copies
  BY DEF Handle, work, Copies, Held
<1>2. CASE W!Drop(r)
  <2> DEFINE a == <<r, next[r]>>
  <2>1. /\ dropped' = dropped \cup {a} /\ UNCHANGED <<running, settled, lost>>
        /\ W!Looping(r)
    BY <1>2 DEF W!Drop
  <2>2. a \in W!Alerts /\ Fate[a] = "unseen"
    BY <2>1, NextIsUnseen
  <2> HIDE DEF a
  <2>3. \A b \in W!Alerts : b # a => Fate'[b] = Fate[b]
    BY <1>1, <2>1, FateStays
  <2>4. Fate'[a] = "dropped"
    BY <2>1, <2>2 DEF Fate, FateOf
  <2>5. Fate' = [Fate EXCEPT ![a] = "dropped"]
    BY <2>3, <2>4 DEF Fate
  <2> QED
    BY <1>1, <2>2, <2>5 DEF D!Refuse, D!Become, Fate, Copies, Held
<1>3. CASE W!Reject(r) \/ W!Decode(r) \/ W!Ack(r)
  BY <1>1, <1>3 DEF W!Reject, W!Decode, W!Ack, Fate, FateOf
<1> QED
  BY <1>2, <1>3 DEF Handle

\* Enrichment and the attempts of Forward do not show.
LEMMA WorkRefines ==
    ASSUME CInv, NEW a \in W!Alerts, Work(a)
    PROVE  UNCHANGED <<Fate, Copies>>
<1>1. UNCHANGED <<running, settled, dropped, lost>>
  BY DEF Work, webhook
<1>2. ingested' = ingested /\ stage[a] # "done" /\ \A b \in W!Alerts : b # a => fpc'[b] = fpc[b]
  BY WorkShape DEF Work, PP!Working
<1>3. \A b \in settled : b \in W!Alerts => fpc'[b] = fpc[b]
  BY <1>2 DEF CInv, InStep
<1>4. \A b \in W!Alerts : Fate'[b] = Fate[b]
  BY <1>1, <1>3, FateStays
<1>5. Fate' = Fate
  BY <1>4 DEF Fate
<1> QED
  BY <1>2, <1>5 DEF Copies, Held

\* ProcessAlert returns: the alert is delivered, and the brain holds it, or has
\* failed.
LEMMA SettleRefines ==
    ASSUME CInv, NEW a \in W!Alerts, Settle(a)
    PROVE  D!Deliver(a) \/ D!Fail(a)
<1>1. /\ a \in running /\ running' = running \ {a} /\ settled' = settled \cup {a}
      /\ UNCHANGED <<dropped, lost, fpc, ingested>>
  BY DEF Settle, P!Return, P!forwarding, W!Settle
<1>2. a \notin dropped /\ a \notin lost
  BY <1>1 DEF CInv, WP!IInv, WP!FatesDisjoint
<1>3. Fate[a] = "processing"
  BY <1>1, <1>2 DEF Fate, FateOf
<1>4. Copies' = Copies
  BY <1>1 DEF Copies, Held
<1>5. \A b \in W!Alerts : b # a => Fate'[b] = Fate[b]
  BY <1>1, FateStays
<1>6. Fate' = [Fate EXCEPT ![a] = Fate'[a]]
  BY <1>5 DEF Fate
<1>7. CASE fpc[a] = "ok"
  <2>1. Fate'[a] = "delivered"
    BY <1>1, <1>2, <1>7 DEF Fate, FateOf
  <2>2. <<a, nonceOf[a]>> \in Held(a)
    BY <1>7 DEF CInv, PP!IInv, PP!PInv, PP!FP!IInv, PP!FP!OkWasIngested, Held
  <2>3. Copies[a] > 0
    BY <2>2, CopiesCount
  <2> QED
    BY <1>3, <1>4, <1>6, <2>1, <2>3 DEF D!Deliver, D!Become, Fate, Copies, Held
<1>8. CASE fpc[a] # "ok"
  <2>1. Fate'[a] = "failed"
    BY <1>1, <1>2, <1>8 DEF Fate, FateOf
  <2> QED
    BY <1>3, <1>4, <1>6, <2>1 DEF D!Fail, D!Become, Fate, Copies, Held
<1> QED
  BY <1>7, <1>8

\* A restart loses what was in work.
LEMMA RestartRefines == ASSUME CInv, Restart PROVE D!LoseAll
<1>1. /\ running' = {} /\ lost' = lost \cup running
      /\ UNCHANGED <<settled, dropped, fpc, ingested>>
  BY DEF Restart, W!Restart, P!Die, P!forwarding
<1>2. \A b \in W!Alerts : Fate'[b] = IF b \in running THEN "lost" ELSE Fate[b]
  <2> SUFFICES ASSUME NEW b \in W!Alerts
               PROVE  Fate'[b] = IF b \in running THEN "lost" ELSE Fate[b]
    OBVIOUS
  <2>1. CASE b \in running
    BY <1>1, <2>1 DEF CInv, WP!IInv, WP!FatesDisjoint, Fate, FateOf
  <2>2. CASE b \notin running
    BY <1>1, <2>2, FateStays
  <2> QED
    BY <2>1, <2>2
<1>3. Fate' = [b \in W!Alerts |-> IF b \in running THEN "lost" ELSE Fate[b]]
  BY <1>2 DEF Fate
<1>4. Copies' = Copies
  BY <1>1 DEF Copies, Held
<1> QED
  BY <1>3, <1>4, InWorkIsRunning DEF D!LoseAll, D!InWork, Fate, Copies, Held

\* The brain accepts a copy of an alert that was taken on, or nothing shows.
LEMMA BrainRefines ==
    ASSUME CInv, CInv', Brain
    PROVE  (\E a \in W!Alerts : D!Copy(a)) \/ UNCHANGED <<Fate, Copies>>
<1>1. PP!FP!Brain /\ UNCHANGED webhook
  BY BrainShape
<1>2. fpc' = fpc
  BY BrainShape
<1>3. Fate' = Fate
  BY <1>1, <1>2 DEF Fate, FateOf, webhook
<1>4. CASE ingested' = ingested
  BY <1>3, <1>4 DEF Copies, Held
<1>5. ASSUME NEW m \in wire, PP!FP!BrainIngests(m)
      PROVE  \E a \in W!Alerts : D!Copy(a)
  <2> DEFINE a == m[1]
  <2>1. /\ m[2] \notin seen /\ ingested' = ingested \cup {m}
    BY <1>5 DEF PP!FP!BrainIngests
  <2>2. a \in W!Alerts
    BY DEF CInv, PP!IInv, PP!PInv, PP!FP!IInv, PP!FP!TypeOK
  <2>3. m \notin ingested
    BY <2>1 DEF CInv, PP!IInv, PP!PInv, PP!FP!Bounded
  <2>4. m \in PP!FP!Transmissions(a)
    BY DEF PP!FP!Transmissions
  <2> HIDE DEF a
  <2>5. fpc[a] # "idle"
    BY <2>2, <2>4, CopiesCount
  <2>6. Fate[a] \notin {"unseen", "dropped"}
    <3>1. stage[a] \in {"forwarding", "done", "gone"}
      BY <2>2, <2>5 DEF CInv, PP!IInv, PP!PInv
    <3>2. a \in running \cup settled \cup lost
      BY <2>2, <3>1 DEF CInv, InStep, PP!Working
    <3>3. a \notin dropped
      BY <3>2 DEF CInv, WP!IInv, WP!FatesDisjoint
    <3> QED
      BY <2>2, <3>2, <3>3 DEF Fate, FateOf
  <2>7. Held(a)' = Held(a) \cup {m} /\ m \notin Held(a)
    BY <2>1, <2>3 DEF Held, a
  <2>8. /\ IsFiniteSet(Held(a)) /\ Copies[a] = Cardinality(Held(a)) /\ Copies[a] \in Nat
        /\ Copies'[a] = Cardinality(Held(a)')
        /\ Copies'[a] <= P!F!MaxAttempts
    <3>1. Copies'[a] <= P!F!MaxAttempts
      <4>1. /\ IsFiniteSet(PP!FP!Transmissions(a)') /\ Cardinality(PP!FP!Transmissions(a)') \in Nat
            /\ Cardinality(PP!FP!Transmissions(a)') <= PP!FP!Sent(a)'
        BY <2>2, FS_CardinalityType, SameFinite, SameCardinality DEF CInv, PP!IInv, PP!PInv, PP!FP!Bounded
      <4>2. Held(a)' \subseteq PP!FP!Transmissions(a)'
        BY DEF Held, PP!FP!Transmissions
      <4>3. /\ Cardinality(Held(a)') \in Nat
            /\ Cardinality(Held(a)') <= Cardinality(PP!FP!Transmissions(a)')
        BY <4>1, <4>2, FS_Subset, FS_CardinalityType
      <4>4. PP!FP!Sent(a)' \in Nat /\ PP!FP!Sent(a)' <= 3
        BY <2>2 DEF CInv, PP!IInv, PP!PInv, PP!FP!IInv, PP!FP!TypeOK, PP!FP!Sent, PP!FP!MaxAttempts
      <4>5. Copies'[a] = Cardinality(Held(a)')
        BY <2>2 DEF Copies
      <4> QED
        BY <4>1, <4>3, <4>4, <4>5 DEF P!F!MaxAttempts
    <3> QED
      BY <2>2, <3>1, CopiesCount DEF Copies
  <2>9. Copies'[a] = Copies[a] + 1 /\ Copies[a] < P!F!MaxAttempts
    <3>1. Cardinality(Held(a)') = Cardinality(Held(a)) + 1
      BY <2>7, <2>8, FS_AddElement
    <3> QED
      BY <2>8, <3>1 DEF P!F!MaxAttempts
  <2>10. Copies' = [Copies EXCEPT ![a] = @ + 1]
    <3>1. \A b \in W!Alerts : b # a => Held(b)' = Held(b)
      BY <2>1 DEF Held, a
    <3>2. \A b \in W!Alerts : b # a => Copies'[b] = Copies[b]
      BY <3>1 DEF Copies
    <3> QED
      BY <2>2, <2>9, <3>2 DEF Copies
  <2>11. D!Copy(a)
    BY <1>3, <2>2, <2>6, <2>9, <2>10 DEF D!Copy, Fate, Copies, Held
  <2> QED
    BY <2>2, <2>11
<1> QED
  BY <1>1, <1>4, <1>5 DEF PP!FP!Brain, PP!FP!BrainRefuses, PP!FP!Lose

\* The serving collector implements AlertDelivery, for any number of requests,
\* batch size, configured ceiling and number of restarts: an alert reported as
\* delivered is held by the brain, one dropped at the ceiling never reaches it,
\* none arrives more than three times, although copies may arrive after the
\* worker has given up or died.
THEOREM DeliveryImplemented == Spec => ImplementsDelivery
<1>1. CInv /\ CInv' /\ [Next]_vars => [D!Next]_(D!dvars)
  <2> SUFFICES ASSUME CInv, CInv', [Next]_vars PROVE [D!Next]_(D!dvars)
    OBVIOUS
  <2>1. UNCHANGED <<Fate, Copies>> => UNCHANGED D!dvars
    BY DEF D!dvars, Fate, Copies, Held
  <2>2. ASSUME NEW r \in Requests, Spawn(r) PROVE \E a \in W!Alerts : D!Accept(a)
    BY <2>2, SpawnRefines, NextIsUnseen DEF Spawn, W!Spawn
  <2>3. ASSUME NEW a \in W!Alerts, Release(a) PROVE UNCHANGED <<Fate, Copies>>
    BY <2>3 DEF Release, W!Release, work, Fate, FateOf, Copies, Held
  <2>4. CASE UNCHANGED vars
    BY <2>1, <2>4 DEF vars, webhook, work, Fate, FateOf, Copies, Held
  <2> QED
    BY <2>1, <2>2, <2>3, <2>4, HandleRefines, WorkRefines, SettleRefines, RestartRefines,
       BrainRefines DEF Next, D!Next
<1> QED
  BY <1>1, InitRefines, Invariance, PTL DEF Spec, ImplementsDelivery, D!Spec

\* The composition is still a webhook receiver: with ProcessAlert in its workers
\* and Forward under it, everything proved of Webhook holds of the collector.
THEOREM WebhookImplemented == Spec => W!Spec
<1>1. Init => W!Init
  BY DEF Init
<1>2. [Next]_vars => [W!Next]_(W!vars)
  BY DEF Next, Handle, Spawn, Work, Settle, Release, Restart, Brain, vars, webhook,
         W!Next, W!Handle, W!vars
<1> QED
  BY <1>1, <1>2, PTL DEF Spec, W!Spec

\* ProcessAlert in the workers of the handler: what is proved of the pipeline by
\* itself holds of the collector, also when the process dies and restarts.
THEOREM PayloadsAsProved ==
    Spec => [](P!TypeOK /\ P!PayloadBounded /\ P!FetchedIsUsed)
<1>1. ASSUME CInv PROVE PP!TypeOK /\ PP!PayloadBounded /\ PP!FetchedIsUsed
  BY <1>1, PartsAssumed, PP!Typed, PP!SizeBounded, PP!ContentsKept DEF CInv
<1>2. PP!TypeOK => P!TypeOK
  BY DEF PP!TypeOK, PP!Stages, PP!F!TypeOK, PP!F!FPCs, PP!F!Errors, PP!F!LocalErrors,
         PP!F!MaxAttempts, P!TypeOK, P!Stages, P!F!TypeOK, P!F!FPCs, P!F!Errors,
         P!F!LocalErrors, P!F!MaxAttempts
<1>3. PP!PayloadBounded => P!PayloadBounded
  BY DEF PP!PayloadBounded, P!PayloadBounded
<1>4. PP!FetchedIsUsed => P!FetchedIsUsed
  BY Zenon DEF PP!FetchedIsUsed, PP!LinesUsed, PP!NewestEventsKept, PP!Cardinality,
               P!FetchedIsUsed, P!LinesUsed, P!NewestEventsKept, P!Cardinality
<1>5. CInv => P!TypeOK /\ P!PayloadBounded /\ P!FetchedIsUsed
  BY <1>1, <1>2, <1>3, <1>4
<1> QED
  BY <1>5, Invariance, PTL

==============================================================================
