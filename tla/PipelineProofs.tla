---------------------------- MODULE PipelineProofs ----------------------------
(***************************************************************************)
(* Proofs about the pipeline for any number of alerts that are processed   *)
(* at the same time, and any number of pods, objects, lines and events.    *)
(* They hold whether or not the process may die (Die), so that they can be *)
(* used of the whole collector.  What is known of the forwarder by itself  *)
(* is taken from its proofs.                                               *)
(***************************************************************************)
EXTENDS Pipeline, FiniteSetTheorems, WellFoundedInduction, TLAPS

FP == INSTANCE ForwarderProofs

(***************************************************************************)
(* The invariant of the workers: those of the forwarder, whose context     *)
(* they use up before they call it.                                        *)
(***************************************************************************)

Working == {"resolve", "loki", "prom", "meta", "events", "forward", "forwarding"}

PInv ==
    /\ FP!IInv
    /\ FP!Bounded
    /\ stage \in [Calls -> Stages]
    /\ \A c \in Calls : stage[c] \notin {"forwarding", "done", "gone"} => fpc[c] = "idle"

\* A step of the workers, of brain and network, or the end of the process.
Step == Next \/ Die

-----------------------------------------------------------------------------

\* What the forwarder assumes of its constants.
LEMMA ForwarderAssumed == FP!ForwarderAssumption
BY PipelineAssumption

\* A stage of the enrichment consumes some of the context and goes on.
LEMMA EnrichShape ==
    ASSUME PInv, NEW c \in Calls, Enrich(c)
    PROVE  /\ stage[c] \in Working \ {"forwarding"}
           /\ \E l \in Working \ {"forwarding"} : stage' = [stage EXCEPT ![c] = l]
           /\ \E n \in 0..Budget : left' = [left EXCEPT ![c] = n]
           /\ UNCHANGED forwarding
<1>1. left[c] \in 0..Budget /\ Budget \in Nat /\ Delays \subseteq Nat
  BY PipelineAssumption DEF PInv, FP!IInv, FP!TypeOK
<1>2. ASSUME NEW limit, Elapse(c, limit)
      PROVE  \E n \in 0..Budget : left' = [left EXCEPT ![c] = n]
  <2>1. PICK d \in Delays : left' = [left EXCEPT ![c] = IF d >= @ THEN 0 ELSE @ - d]
    BY <1>2 DEF Elapse
  <2>2. (IF d >= left[c] THEN 0 ELSE left[c] - d) \in 0..Budget
    BY <1>1
  <2> QED
    BY <2>1, <2>2
<1>3. CASE Resolve(c)
  BY <1>2, <1>3 DEF Resolve, forwarding, Working
<1>4. CASE FetchLokiLogs(c)
  BY <1>2, <1>4 DEF FetchLokiLogs, Fetching, forwarding, Working
<1>5. CASE FetchPromMetrics(c)
  BY <1>2, <1>5 DEF FetchPromMetrics, Fetching, forwarding, Working
<1>6. CASE FetchPodMeta(c)
  BY <1>2, <1>6 DEF FetchPodMeta, Fetching, forwarding, Working
<1>7. CASE FetchTargetEvents(c)
  BY <1>2, <1>7 DEF FetchTargetEvents, Fetching, forwarding, Working
<1> QED
  BY <1>3, <1>4, <1>5, <1>6, <1>7 DEF Enrich

\* Forward runs as the forwarder specifies.
LEMMA RunShape ==
    ASSUME NEW c \in Calls, ForwardRuns(c) \/ TimePasses(c) \/ ConnectionBreaks(c)
    PROVE  /\ stage[c] = "forwarding" /\ UNCHANGED pvars
           /\ FP!Client(c) \/ FP!Tick(c) \/ FP!Breaks(c)
BY DEF ForwardRuns, TimePasses, ConnectionBreaks,
       F!Client, F!Send, F!SendFails, F!Receive, F!Expires, F!Retry, F!Cancel,
       F!Tick, F!Breaks, F!Failed, F!isPermanent, F!GrpcPermanent, F!HttpPermanent,
       F!MaxAttempts, F!Backoff, F!brainVars,
       FP!Client, FP!Send, FP!SendFails, FP!Receive, FP!Expires, FP!Retry, FP!Cancel,
       FP!Tick, FP!Breaks, FP!Failed, FP!isPermanent, FP!GrpcPermanent, FP!HttpPermanent,
       FP!MaxAttempts, FP!Backoff, FP!brainVars

\* And so do brain and network.
LEMMA BrainShape == ASSUME Brain PROVE FP!Brain /\ UNCHANGED pvars
BY DEF Brain, F!Brain, F!BrainIngests, F!BrainRefuses, F!Lose, F!callVars,
       FP!Brain, FP!BrainIngests, FP!BrainRefuses, FP!Lose, FP!callVars

\* Forward is called with what is left of the context.
LEMMA CallShape ==
    ASSUME NEW c \in Calls, CallForward(c)
    PROVE  /\ stage[c] = "forward" /\ stage' = [stage EXCEPT ![c] = "forwarding"]
           /\ FP!Start(c, left[c])
BY DEF CallForward, F!Start, F!brainVars, FP!Start, FP!brainVars

\* A worker that has not called Forward yet uses up its context.
LEMMA ContextKeeps ==
    ASSUME PInv, NEW c \in Calls, fpc[c] = "idle",
           \E n \in 0..Budget : left' = [left EXCEPT ![c] = n], UNCHANGED forwarding
    PROVE  (FP!IInv /\ FP!Bounded)'
<1>1. FP!IInv'
  BY ForwarderAssumed, FP!IdleContext DEF PInv, FP!brainVars, forwarding
<1>2. FP!Bounded'
  BY DEF PInv, FP!Bounded, FP!Transmissions, FP!Sent, forwarding
<1> QED
  BY <1>1, <1>2

\* A step of the forwarder keeps what is known of it.
LEMMA ForwarderKeeps ==
    ASSUME PInv, [FP!Next]_(FP!fvars) PROVE (FP!IInv /\ FP!Bounded)'
BY ForwarderAssumed, FP!NextInv, FP!BoundedStep DEF PInv

\* Forward moves its own call only.
LEMMA OwnCall ==
    ASSUME FP!TypeOK, NEW c \in Calls, FP!Client(c) \/ FP!Tick(c) \/ FP!Breaks(c),
           NEW d \in Calls, d # c
    PROVE  fpc'[d] = fpc[d]
<1>1. fpc \in [Calls -> FP!FPCs]
  BY DEF FP!TypeOK
<1>2. ASSUME NEW err, FP!Failed(c, err) PROVE fpc'[d] = fpc[d]
  BY <1>1, <1>2 DEF FP!Failed
<1> QED
  BY <1>1, <1>2 DEF FP!Client, FP!Send, FP!SendFails, FP!Receive, FP!Expires, FP!Retry,
                    FP!Cancel, FP!Tick, FP!Breaks

\* A worker works.
LEMMA WorkStep == ASSUME PInv, NEW c \in Calls, Work(c) PROVE PInv'
<1>1. CASE Enrich(c)
  <2>1. PICK l \in Working \ {"forwarding"} : stage' = [stage EXCEPT ![c] = l]
    BY <1>1, EnrichShape
  <2>2. stage[c] \in Working \ {"forwarding"} /\ UNCHANGED forwarding /\ fpc[c] = "idle"
    BY <1>1, EnrichShape DEF PInv, Working
  <2>3. (FP!IInv /\ FP!Bounded)'
    BY <1>1, <2>2, EnrichShape, ContextKeeps
  <2> QED
    BY <2>1, <2>2, <2>3 DEF PInv, Stages, Working, forwarding
<1>2. CASE CallForward(c)
  <2>1. /\ stage' = [stage EXCEPT ![c] = "forwarding"]
        /\ FP!Start(c, left[c]) /\ left[c] \in 0..Budget
    BY <1>2, CallShape DEF PInv, FP!IInv, FP!TypeOK
  <2>2. (FP!IInv /\ FP!Bounded)'
    BY <2>1, ForwarderKeeps DEF FP!Next
  <2> QED
    BY <2>1, <2>2 DEF PInv, Stages, FP!Start
<1>3. CASE ForwardRuns(c) \/ TimePasses(c) \/ ConnectionBreaks(c)
  <2>1. /\ stage[c] = "forwarding" /\ UNCHANGED stage
        /\ FP!Client(c) \/ FP!Tick(c) \/ FP!Breaks(c)
    BY <1>3, RunShape DEF pvars
  <2>2. (FP!IInv /\ FP!Bounded)'
    BY <2>1, ForwarderKeeps DEF FP!Next
  <2>3. \A d \in Calls : d # c => fpc'[d] = fpc[d]
    BY <2>1, OwnCall DEF PInv, FP!IInv
  <2> QED
    BY <2>1, <2>2, <2>3 DEF PInv
<1> QED
  BY <1>1, <1>2, <1>3 DEF Work

\* Every step, the end of the process and a stuttering step preserve the
\* invariant.
LEMMA WorkersNext == ASSUME PInv, [Step]_vars PROVE PInv'
<1>1. ASSUME NEW c \in Calls, Begin(c) PROVE PInv'
  <2>1. /\ stage[c] = "idle" /\ stage' = [stage EXCEPT ![c] = "resolve"]
        /\ left' = [left EXCEPT ![c] = CtxTimeout]
        /\ UNCHANGED forwarding
    BY <1>1 DEF Begin, forwarding
  <2>2. fpc[c] = "idle" /\ CtxTimeout \in 0..Budget
    BY <2>1, PipelineAssumption DEF PInv
  <2>3. (FP!IInv /\ FP!Bounded)'
    BY <2>1, <2>2, ContextKeeps
  <2> QED
    BY <2>1, <2>2, <2>3 DEF PInv, Stages, forwarding
<1>2. ASSUME UNCHANGED <<forwarding, left>> PROVE (FP!IInv /\ FP!Bounded)' /\ fpc' = fpc
  <2>1. UNCHANGED FP!fvars
    BY <1>2 DEF forwarding, FP!fvars, FP!callVars, FP!brainVars
  <2> QED
    BY <1>2, <2>1, ForwarderKeeps DEF forwarding
<1>3. ASSUME NEW c \in Calls, Return(c) PROVE PInv'
  BY <1>2, <1>3 DEF PInv, Return, Stages
<1>4. CASE Die
  BY <1>2, <1>4 DEF PInv, Die, Stages
<1>5. CASE Brain
  <2>1. FP!Brain /\ UNCHANGED pvars
    BY <1>5, BrainShape
  <2>2. (FP!IInv /\ FP!Bounded)'
    BY <2>1, ForwarderKeeps DEF FP!Next
  <2>3. fpc' = fpc /\ stage' = stage
    BY <2>1 DEF pvars, FP!Brain, FP!BrainIngests, FP!BrainRefuses, FP!Lose, FP!callVars
  <2> QED
    BY <2>2, <2>3 DEF PInv
<1>6. CASE UNCHANGED vars
  BY <1>2, <1>6 DEF PInv, vars, pvars
<1> QED
  BY <1>1, <1>3, <1>4, <1>5, <1>6, WorkStep DEF Step, Next

\* The initial states satisfy it.
LEMMA WorkersInit == Init => PInv
<1> SUFFICES ASSUME Init PROVE PInv
  OBVIOUS
<1>1. FP!Init
  BY DEF Init, F!Init, FP!Init
<1>2. FP!IInv /\ FP!Bounded
  BY <1>1, ForwarderAssumed, FP!InitInv, FP!BoundedInit
<1> QED
  BY <1>1, <1>2 DEF Init, PInv, Stages, FP!Init

-----------------------------------------------------------------------------
(* The payload.  The loops of FetchLogs and ProcessAlert and the sort of   *)
(* FetchEvents, for any number of pods, objects, lines and events.         *)

\* A set of naturals has a least element.
LEMMA Least ==
    ASSUME NEW S \in SUBSET Nat, S # {}
    PROVE  \E m \in S : \A k \in S : m <= k
<1>1. PICK x \in S : \A y \in S : ~ (<<y, x>> \in OpToRel(<, Nat))
  BY NatLessThanWellFounded, WFMin
<1>2. ASSUME NEW y \in S PROVE x <= y
  <2> SUFFICES ASSUME y < x PROVE FALSE
    OBVIOUS
  <2>1. <<y, x>> \in OpToRel(<, Nat)
    BY DEF OpToRel
  <2> QED
    BY <1>1, <2>1, Zenon
<1> QED
  BY <1>2

\* Induction over the naturals, for a set.
LEMMA Climb ==
    ASSUME NEW S, 0 \in S, \A n \in S \cap Nat : n + 1 \in S
    PROVE  Nat \subseteq S
<1> DEFINE T == Nat \ S
<1> SUFFICES ASSUME T # {} PROVE FALSE
  OBVIOUS
<1>1. PICK x \in T : \A y \in T : x <= y
  BY Least
<1>2. x \in Nat /\ x # 0 /\ x - 1 \in Nat /\ (x - 1) + 1 = x /\ ~(x <= x - 1)
  OBVIOUS
<1>3. x - 1 \in S => x \in S
  BY <1>2, Zenon
<1> QED
  BY <1>1, <1>2, <1>3

\* f holds the values of a variable that starts as a and is replaced by G[i] of
\* itself in pass i of a loop.
Trace(f, n, V, a, G) ==
    /\ f \in [0..n -> V]
    /\ f[0] = a
    /\ \A i \in 1..n : f[i] = G[i][f[i - 1]]

\* Such a loop runs: a recursive function over its passes exists.
LEMMA LoopRuns ==
    ASSUME NEW n \in Nat, NEW V, NEW a \in V, NEW G \in [1..n -> [V -> V]]
    PROVE  \E f : Trace(f, n, V, a, G)
<1> DEFINE Loop(f, k) == Trace(f, k, V, a, G)
           Runs == {k \in Nat : k <= n => \E f : Loop(f, k)}
<1>1. 0 \in Runs
  <2>1. Loop([i \in 0..0 |-> a], 0)
    BY DEF Trace
  <2> QED
    BY <2>1
<1>2. ASSUME NEW k \in Runs PROVE k + 1 \in Runs
  <2>0. k \in Nat /\ k + 1 \in Nat
    OBVIOUS
  <2> SUFFICES ASSUME k + 1 <= n PROVE \E f : Loop(f, k + 1)
    BY <2>0, Zenon
  <2>1. k <= n /\ k + 1 \in 1..n
    BY <2>0
  <2>2. PICK f : Loop(f, k)
    BY <2>1
  <2>3. f[k] \in V /\ G[k + 1][f[k]] \in V
    BY <2>0, <2>1, <2>2 DEF Trace
  <2> DEFINE g == [i \in 0..(k + 1) |-> IF i <= k THEN f[i] ELSE G[k + 1][f[k]]]
  <2>4. g \in [0..(k + 1) -> V] /\ g[0] = a
    BY <2>0, <2>2, <2>3 DEF Trace
  <2>5. \A i \in 1..(k + 1) : g[i] = G[i][g[i - 1]]
    BY <2>0, <2>2 DEF Trace
  <2> QED
    BY <2>4, <2>5 DEF Trace
<1>3. n \in Runs
  BY <1>1, <1>2, Climb
<1> QED
  BY <1>3

\* The passes of the loop in FetchLogs, the count after each within the cap.
LEMMA LinesCounted ==
    ASSUME NEW o, Len(o) \in Nat,
           \A i \in 1..Len(o) : o[i].ok \in BOOLEAN /\ (o[i].ok => o[i].v \in Nat)
    PROVE  \E lines : /\ FetchLogs(o) = lines[Len(o)] /\ lines[0] = 0
                      /\ \A i \in 1..Len(o) : lines[i] = AddLines(lines[i - 1], o[i])
                      /\ \A i \in 0..Len(o) : lines[i] \in 0..MaxLogLines
<1> DEFINE V == 0..MaxLogLines
           Add(n, i) == AddLines(n, o[i])
           Body(h) == [i \in 0..Len(o) |-> IF i = 0 THEN 0 ELSE Add(h[i - 1], i)]
           lines == CHOOSE h : h = Body(h)
<1>1. FetchLogs(o) = lines[Len(o)]
  BY DEF FetchLogs
<1>2. 0 \in V
  BY PipelineAssumption
<1>3. \A i \in 1..Len(o) : \A n \in V : Add(n, i) \in V
  BY PipelineAssumption DEF AddLines
<1> HIDE DEF Add, V
<1>4. \E f : f = Body(f)
  <2> DEFINE G == [i \in 1..Len(o) |-> [n \in V |-> Add(n, i)]]
  <2>1. G \in [1..Len(o) -> [V -> V]] /\ \A i \in 1..Len(o) : \A n \in V : G[i][n] = Add(n, i)
    BY <1>3
  <2> HIDE DEF G
  <2>2. PICK f : Trace(f, Len(o), V, 0, G)
    BY <1>2, <2>1, LoopRuns
  <2>3. ASSUME NEW i \in 1..Len(o) PROVE f[i] = Add(f[i - 1], i)
    <3>1. f[i - 1] \in V
      BY <2>2 DEF Trace
    <3> QED
      BY <2>1, <2>2, <3>1 DEF Trace
  <2> QED
    BY <2>2, <2>3 DEF Trace
<1>5. lines = Body(lines)
  BY <1>4, Zenon
<1> HIDE DEF lines
<1>6. lines[0] = 0 /\ \A i \in 1..Len(o) : lines[i] = Add(lines[i - 1], i)
  BY <1>5
<1> HIDE DEF Body
<1> DEFINE Below == {k \in Nat : k <= Len(o) => lines[k] \in V}
<1>7. 0 \in Below
  BY <1>2, <1>6
<1>8. ASSUME NEW k \in Below PROVE k + 1 \in Below
  <2>1. k + 1 <= Len(o) => lines[k + 1] = Add(lines[k], k + 1)
    BY <1>6
  <2> QED
    BY <1>3, <2>1
<1>9. Nat \subseteq Below
  BY <1>7, <1>8, Climb
<1>10. \A i \in 0..Len(o) : lines[i] \in V
  BY <1>9
<1>11. \A i \in 1..Len(o) : lines[i] = AddLines(lines[i - 1], o[i])
  BY <1>6 DEF Add
<1> QED
  BY <1>1, <1>6, <1>10, <1>11 DEF V

\* FetchLogs returns no more than MaxLogLines lines; and if some pod has lines
\* it returns some, whichever of the other pods fail.
LEMMA LogsCollected ==
    ASSUME NEW o, Len(o) \in Nat, DOMAIN o = 1..Len(o),
           \A i \in 1..Len(o) : o[i].ok \in BOOLEAN /\ (o[i].ok => o[i].v \in Nat)
    PROVE  /\ FetchLogs(o) \in 0..MaxLogLines
           /\ HasLines(o) /\ MaxLogLines > 0 => FetchLogs(o) > 0
<1>1. PICK lines : /\ FetchLogs(o) = lines[Len(o)] /\ lines[0] = 0
                   /\ \A i \in 1..Len(o) : lines[i] = AddLines(lines[i - 1], o[i])
                   /\ \A i \in 0..Len(o) : lines[i] \in 0..MaxLogLines
  BY LinesCounted
<1>2. FetchLogs(o) \in 0..MaxLogLines
  BY <1>1
<1>3. ASSUME HasLines(o), MaxLogLines > 0 PROVE FetchLogs(o) > 0
  <2>1. PICK p \in 1..Len(o) : o[p].ok /\ o[p].v > 0
    BY <1>3 DEF HasLines
  <2> DEFINE Some == {k \in Nat : p <= k /\ k <= Len(o) => lines[k] > 0}
  <2>2. 0 \in Some
    OBVIOUS
  <2>3. ASSUME NEW k \in Some PROVE k + 1 \in Some
    <3> SUFFICES ASSUME p <= k + 1, k + 1 <= Len(o) PROVE lines[k + 1] > 0
      OBVIOUS
    <3>1. /\ k + 1 \in 1..Len(o) /\ k \in 0..Len(o) /\ (k + 1) - 1 = k
          /\ p <= k \/ p = k + 1
      OBVIOUS
    <3>2. lines[k + 1] = AddLines(lines[k], o[k + 1]) /\ lines[k] \in 0..MaxLogLines
      BY <1>1, <3>1
    <3>3. CASE p <= k
      <4>1. lines[k] > 0
        BY <3>1, <3>3
      <4>2. o[k + 1].ok \in BOOLEAN /\ (o[k + 1].ok => o[k + 1].v \in Nat)
        BY <3>1
      <4> QED
        BY <1>3, <3>2, <4>1, <4>2, PipelineAssumption DEF AddLines
    <3>4. CASE p = k + 1
      <4>1. o[k + 1].ok /\ o[k + 1].v > 0 /\ o[k + 1].v \in Nat
        BY <2>1, <3>1, <3>4
      <4> QED
        BY <1>3, <3>2, <4>1, PipelineAssumption DEF AddLines
    <3> QED
      BY <3>1, <3>3, <3>4
  <2>4. Nat \subseteq Some
    BY <2>2, <2>3, Climb
  <2> QED
    BY <1>1, <2>1, <2>4
<1> QED
  BY <1>2, <1>3

\* p lists the first n elements of s in descending order.
Descending(s, n, p) == \A i, j \in 1..n : i < j => s[p[i]] >= s[p[j]]

\* There is always such an order: sort.Slice returns.
LEMMA SomeOrder ==
    ASSUME NEW n \in Nat, NEW s \in [1..n -> Nat]
    PROVE  \E p \in Surjection(1..n, 1..n) : Descending(s, n, p)
<1> DEFINE Good(k, t) == \E p \in Surjection(1..k, 1..k) : Descending(t, k, p)
           Sortable == {k \in Nat : \A t \in [1..k -> Nat] : Good(k, t)}
<1>1. 0 \in Sortable
  <2>1. <<>> \in Surjection(1..0, 1..0)
    BY DEF Surjection
  <2> QED
    BY <2>1 DEF Descending
<1>2. ASSUME NEW k \in Sortable PROVE k + 1 \in Sortable
  <2>0. k \in Nat /\ k + 1 \in Nat
    OBVIOUS
  <2> SUFFICES ASSUME NEW t \in [1..(k + 1) -> Nat] PROVE Good(k + 1, t)
    BY <2>0, Zenon
  <2>1. PICK m \in 1..(k + 1) : \A i \in 1..(k + 1) : t[m] <= t[i]
    <3>1. {t[i] : i \in 1..(k + 1)} \in SUBSET Nat /\ t[1] \in {t[i] : i \in 1..(k + 1)}
      BY <2>0
    <3>2. PICK x \in {t[i] : i \in 1..(k + 1)} : \A y \in {t[i] : i \in 1..(k + 1)} : x <= y
      BY <3>1, Least
    <3> QED
      BY <3>2
  \* the least value goes last; what stood there takes its place
  <2> DEFINE u == [i \in 1..k |-> IF i = m THEN t[k + 1] ELSE t[i]]
  <2>2. u \in [1..k -> Nat]
    BY <2>0
  <2>3. \E q \in Surjection(1..k, 1..k) : Descending(u, k, q)
    BY <2>2, Zenon
  <2>4. PICK q \in [1..k -> 1..k] : /\ \A w \in 1..k : \E v \in 1..k : q[v] = w
                                    /\ Descending(u, k, q)
    BY <2>3 DEF Surjection
  <2> HIDE <1>2
  <2> HIDE DEF Sortable, Good
  <2> DEFINE p == [i \in 1..(k + 1) |-> IF i = k + 1 THEN m
                                       ELSE IF q[i] = m THEN k + 1 ELSE q[i]]
  <2>5. p \in [1..(k + 1) -> 1..(k + 1)]
    <3> SUFFICES ASSUME NEW i \in 1..(k + 1) PROVE p[i] \in 1..(k + 1)
      OBVIOUS
    <3>1. CASE i = k + 1
      BY <3>1
    <3>2. CASE i # k + 1
      <4>1. i \in 1..k
        BY <2>0, <3>2
      <4>2. q[i] \in 1..k
        BY <4>1
      <4>3. p[i] \in {k + 1, q[i]}
        BY <3>2
      <4> QED
        BY <2>0, <4>2, <4>3
    <3> QED
      BY <3>1, <3>2
  <2>6. ASSUME NEW w \in 1..(k + 1) PROVE \E v \in 1..(k + 1) : p[v] = w
    <3>1. CASE w = m
      BY <2>0, <3>1
    <3>2. CASE w # m /\ w = k + 1
      <4>1. m \in 1..k
        BY <2>0, <3>2
      <4>2. PICK v \in 1..k : q[v] = m
        BY <2>4, <4>1
      <4> QED
        BY <2>0, <3>2, <4>2
    <3>3. CASE w # m /\ w # k + 1
      <4>1. w \in 1..k
        BY <2>0, <3>3
      <4>2. PICK v \in 1..k : q[v] = w
        BY <2>4, <4>1
      <4> QED
        BY <2>0, <3>3, <4>2
    <3> QED
      BY <3>1, <3>2, <3>3
  <2>7. ASSUME NEW i \in 1..k PROVE t[p[i]] = u[q[i]]
    <3>1. q[i] \in 1..k /\ i # k + 1 /\ i \in 1..(k + 1)
      BY <2>0, <2>4
    <3>2. p[i] = IF q[i] = m THEN k + 1 ELSE q[i]
      BY <3>1
    <3>3. u[q[i]] = IF q[i] = m THEN t[k + 1] ELSE t[q[i]]
      BY <3>1
    <3> QED
      BY <3>2, <3>3
  <2>8. ASSUME NEW i \in 1..(k + 1), NEW j \in 1..(k + 1), i < j PROVE t[p[i]] >= t[p[j]]
    <3>1. CASE j = k + 1
      <4>1. p[j] = m /\ p[i] \in 1..(k + 1)
        BY <2>5, <3>1
      <4> QED
        BY <2>1, <4>1
    <3>2. CASE j # k + 1
      <4>1. i \in 1..k /\ j \in 1..k
        BY <2>0, <2>8, <3>2
      <4> QED
        BY <2>4, <2>7, <2>8, <4>1 DEF Descending
    <3> QED
      BY <3>1, <3>2
  <2> QED
    BY <2>5, <2>6, <2>8 DEF Good, Surjection, Descending
<1>3. n \in Sortable
  BY <1>1, <1>2, Climb
<1> QED
  BY <1>3

\* What the sort returns.
LEMMA SortedShape ==
    ASSUME NEW l \in Seq(Nat)
    PROVE  /\ NewestFirst(l) \in [1..Len(l) -> Nat]
           /\ \A i, j \in 1..Len(l) : i < j => NewestFirst(l)[i] >= NewestFirst(l)[j]
           /\ \A k \in 1..Len(l) : \E q \in 1..Len(l) : NewestFirst(l)[q] = l[k]
<1> DEFINE I == 1..Len(l)
           Orders(p) == \A i, j \in I : i < j => l[p[i]] >= l[p[j]]
           order == CHOOSE p \in Surjection(I, I) : Orders(p)
<1>1. Len(l) \in Nat /\ l \in [I -> Nat]
  OBVIOUS
<1>2. \E p \in Surjection(I, I) : Orders(p)
  BY <1>1, SomeOrder DEF Descending
<1>3. order \in Surjection(I, I) /\ Orders(order)
  BY <1>2, Zenon
<1>4. NewestFirst(l) = [i \in I |-> l[order[i]]]
  BY Zenon DEF NewestFirst
<1> HIDE DEF order
<1>5. order \in [I -> I] /\ \A k \in I : \E q \in I : order[q] = k
  BY <1>3 DEF Surjection
<1>6. NewestFirst(l) \in [I -> Nat]
  BY <1>1, <1>4, <1>5
<1>7. ASSUME NEW i \in I, NEW j \in I, i < j PROVE NewestFirst(l)[i] >= NewestFirst(l)[j]
  BY <1>3, <1>4, <1>7
<1>8. ASSUME NEW k \in I PROVE \E q \in I : NewestFirst(l)[q] = l[k]
  <2>1. PICK q \in I : order[q] = k
    BY <1>5
  <2>2. NewestFirst(l)[q] = l[order[q]]
    BY <1>4
  <2> QED
    BY <2>1, <2>2
<1> QED
  BY <1>6, <1>7, <1>8

\* What FirstOf keeps.
LEMMA FirstShape ==
    ASSUME NEW V, NEW s \in Seq(V), NEW n \in Nat
    PROVE  /\ FirstOf(s, n) \in Seq(V)
           /\ Len(FirstOf(s, n)) = IF Len(s) > n THEN n ELSE Len(s)
           /\ \A j \in 1..Len(FirstOf(s, n)) : FirstOf(s, n)[j] = s[j]
BY DEF FirstOf

\* The events of a payload: object and time stamp.
Stamps == Nat \X Nat

\* What FetchEvents returns ...
LEMMA FetchedShape ==
    ASSUME NEW l \in Seq(Nat)
    PROVE  /\ FetchEvents(l) \in Seq(Nat)
           /\ Len(FetchEvents(l)) = IF Len(l) > MaxEventsPerObject THEN MaxEventsPerObject ELSE Len(l)
           /\ \A j \in 1..Len(FetchEvents(l)) : FetchEvents(l)[j] = NewestFirst(l)[j]
<1>1. NewestFirst(l) \in Seq(Nat) /\ Len(NewestFirst(l)) = Len(l)
  <2>1. Len(l) \in Nat /\ NewestFirst(l) \in [1..Len(l) -> Nat]
    BY SortedShape
  <2> QED
    BY <2>1
<1> QED
  BY <1>1, PipelineAssumption, FirstShape DEF FetchEvents

\* ... and contributes to the payload.
LEMMA EventsOfShape ==
    ASSUME NEW i \in Nat, NEW o, o.ok => o.v \in Seq(Nat)
    PROVE  /\ EventsOf(i, o) \in Seq(Stamps)
           /\ o.ok => /\ Len(EventsOf(i, o)) = Len(FetchEvents(o.v))
                      /\ \A j \in 1..Len(EventsOf(i, o)) :
                             EventsOf(i, o)[j] = <<i, FetchEvents(o.v)[j]>>
<1>1. CASE ~o.ok
  BY <1>1 DEF EventsOf
<1>2. CASE o.ok
  <2> DEFINE evs == FetchEvents(o.v)
  <2>1. evs \in Seq(Nat)
    BY <1>2, FetchedShape
  <2>2. EventsOf(i, o) = [j \in 1..Len(evs) |-> <<i, evs[j]>>]
    BY <1>2 DEF EventsOf
  <2> HIDE DEF evs
  <2>3. \A j \in 1..Len(evs) : <<i, evs[j]>> \in Stamps
    BY <2>1 DEF Stamps
  <2>4. EventsOf(i, o) \in Seq(Stamps) /\ Len(EventsOf(i, o)) = Len(evs)
    BY <2>1, <2>2, <2>3
  <2> QED
    BY <2>2, <2>4 DEF evs
<1> QED
  BY <1>1, <1>2

\* Where the sequence e stands in the sequence s.
Within(e, s) ==
    \E b \in Nat : /\ b + Len(e) <= Len(s)
                   /\ \A j \in 1..Len(e) : s[b + j] = e[j]

\* Appending keeps what is there and adds the rest.
LEMMA Appended ==
    ASSUME NEW V, NEW s \in Seq(V), NEW t \in Seq(V)
    PROVE  /\ s \o t \in Seq(V)
           /\ Within(t, s \o t)
           /\ \A e \in Seq(V) : Within(e, s) => Within(e, s \o t)
<1>1. /\ s \o t \in Seq(V) /\ Len(s \o t) = Len(s) + Len(t)
      /\ Len(s) \in Nat /\ Len(t) \in Nat
      /\ \A j \in 1..Len(s) : (s \o t)[j] = s[j]
      /\ \A j \in 1..Len(t) : (s \o t)[Len(s) + j] = t[j]
  OBVIOUS
<1>2. Within(t, s \o t)
  BY <1>1, SMTT(30) DEF Within
<1>3. ASSUME NEW e \in Seq(V), Within(e, s) PROVE Within(e, s \o t)
  <2>1. PICK b \in Nat : b + Len(e) <= Len(s) /\ \A j \in 1..Len(e) : s[b + j] = e[j]
    BY <1>3 DEF Within
  <2>2. Len(e) \in Nat /\ b + Len(e) <= Len(s \o t)
    BY <1>1, <2>1
  <2>3. ASSUME NEW j \in 1..Len(e) PROVE (s \o t)[b + j] = e[j]
    <3>1. b + j \in 1..Len(s)
      BY <1>1, <2>1, <2>2
    <3> QED
      BY <1>1, <2>1, <3>1
  <2> QED
    BY <2>2, <2>3 DEF Within
<1> QED
  BY <1>1, <1>2, <1>3

\* The events of every object stand in what the loop of ProcessAlert collects.
LEMMA AllShape ==
    ASSUME NEW o, Len(o) \in Nat, \A i \in 1..Len(o) : o[i].ok => o[i].v \in Seq(Nat)
    PROVE  /\ AllEvents(o) \in Seq(Stamps)
           /\ \A i \in 1..Len(o) : Within(EventsOf(i, o[i]), AllEvents(o))
<1> DEFINE V == Seq(Stamps)
           E(i) == EventsOf(i, o[i])
           Add(s, i) == s \o E(i)
           Body(h) == [i \in 0..Len(o) |-> IF i = 0 THEN <<>> ELSE Add(h[i - 1], i)]
           all == CHOOSE h : h = Body(h)
           empty == <<>>
<1>1. AllEvents(o) = all[Len(o)]
  BY DEF AllEvents
<1>2. empty \in V
  OBVIOUS
<1>3. ASSUME NEW i \in 1..Len(o), NEW s \in V
      PROVE  Add(s, i) \in V /\ Within(E(i), Add(s, i))
             /\ \A e \in V : Within(e, s) => Within(e, Add(s, i))
  <2>1. E(i) \in V
    BY EventsOfShape
  <2> QED
    BY <2>1, Appended
<1>4. \A i \in 1..Len(o) : E(i) \in V
  BY EventsOfShape
<1> HIDE DEF Add, V, E, empty
<1>5. \E f : f = Body(f)
  <2> DEFINE G == [i \in 1..Len(o) |-> [s \in V |-> Add(s, i)]]
  <2>1. G \in [1..Len(o) -> [V -> V]]
    BY <1>3
  <2>5. \A i \in 1..Len(o) : \A s \in V : G[i][s] = Add(s, i)
    OBVIOUS
  <2> HIDE DEF G
  <2>2. PICK f : Trace(f, Len(o), V, empty, G)
    BY <1>2, <2>1, LoopRuns
  <2>3. ASSUME NEW i \in 1..Len(o) PROVE f[i] = Add(f[i - 1], i)
    <3>1. f[i - 1] \in V
      BY <2>2 DEF Trace
    <3> QED
      BY <2>2, <2>5, <3>1 DEF Trace
  <2>4. f = [i \in 0..Len(o) |-> IF i = 0 THEN empty ELSE Add(f[i - 1], i)]
    BY <2>2, <2>3 DEF Trace
  <2> QED
    BY <2>4, Zenon DEF empty
<1>6. all = Body(all)
  BY <1>5, Zenon
<1> HIDE DEF all
<1>7. all = [i \in 0..Len(o) |-> IF i = 0 THEN empty ELSE Add(all[i - 1], i)]
  BY <1>6, Zenon DEF empty
<1>8. all[0] = empty /\ \A i \in 1..Len(o) : all[i] = Add(all[i - 1], i)
  BY <1>7
<1> HIDE DEF Body
<1> DEFINE Holds(k) == all[k] \in V /\ \A i \in 1..k : Within(E(i), all[k])
           Built == {k \in Nat : k <= Len(o) => Holds(k)}
<1>9. 0 \in Built
  BY <1>2, <1>8
<1>10. ASSUME NEW k \in Built PROVE k + 1 \in Built
  <2>0. k \in Nat /\ k + 1 \in Nat
    OBVIOUS
  <2> SUFFICES ASSUME k + 1 <= Len(o) PROVE Holds(k + 1)
    BY <2>0, Zenon
  <2>1. k <= Len(o) /\ k + 1 \in 1..Len(o) /\ (k + 1) - 1 = k
    BY <2>0
  <2>2. all[k + 1] = Add(all[k], k + 1)
    BY <1>8, <2>1
  <2>3. Holds(k)
    BY <2>1
  <2>4. \A i \in 1..(k + 1) : i \in 1..Len(o) /\ (i \in 1..k \/ i = k + 1)
    BY <2>0, <2>1
  <2> QED
    BY <1>3, <1>4, <2>1, <2>2, <2>3, <2>4
<1>11. Len(o) \in Built
  BY <1>9, <1>10, Climb
<1>12. Holds(Len(o))
  BY <1>11
<1> QED
  BY <1>1, <1>12 DEF E, V

\* An event that was fetched is collected, unless the payload is full or
\* MaxEventsPerObject events of its object, none of them older, are collected.
KeptOf(o, kept) ==
    \A i \in DOMAIN o :
        o[i].ok /\ Len(kept) < MaxEvents =>
            \A k \in 1..Len(o[i].v) :
                \/ \E j \in 1..Len(kept) : kept[j] = <<i, o[i].v[k]>>
                \/ MaxEventsPerObject <=
                      Cardinality({j \in 1..Len(kept) :
                          kept[j][1] = i /\ kept[j][2] >= o[i].v[k]})

\* The event loop and its caps.
LEMMA EventsKept ==
    ASSUME NEW n \in Nat, NEW o, Len(o) = n, DOMAIN o = 1..n,
           \A i \in 1..n : o[i].ok => o[i].v \in Seq(Nat)
    PROVE  /\ CollectEvents(o) \in Seq(Stamps)
           /\ Len(CollectEvents(o)) <= MaxEvents
           /\ KeptOf(o, CollectEvents(o))
<1> DEFINE all == AllEvents(o)
           kept == CollectEvents(o)
<1>1. all \in Seq(Stamps) /\ \A i \in 1..n : Within(EventsOf(i, o[i]), all)
  BY AllShape
<1>2. /\ kept \in Seq(Stamps)
      /\ Len(kept) = IF Len(all) > MaxEvents THEN MaxEvents ELSE Len(all)
      /\ \A j \in 1..Len(kept) : kept[j] = all[j]
  BY <1>1, PipelineAssumption, FirstShape DEF CollectEvents
<1>3. Len(all) \in Nat /\ Len(kept) \in Nat /\ MaxEvents \in Nat /\ MaxEventsPerObject \in Nat
  BY <1>1, <1>2, PipelineAssumption
<1> HIDE DEF all, kept
<1>4. ASSUME NEW i \in 1..n, o[i].ok, Len(kept) < MaxEvents, NEW k \in 1..Len(o[i].v)
      PROVE  \/ \E j \in 1..Len(kept) : kept[j] = <<i, o[i].v[k]>>
             \/ MaxEventsPerObject <=
                   Cardinality({j \in 1..Len(kept) :
                       kept[j][1] = i /\ kept[j][2] >= o[i].v[k]})
  <2> DEFINE list == o[i].v
             top == NewestFirst(list)
             ev == EventsOf(i, o[i])
  <2>1. list \in Seq(Nat) /\ Len(list) \in Nat /\ list[k] \in Nat
    BY <1>4
  <2>2. /\ top \in [1..Len(list) -> Nat]
        /\ \A a, b \in 1..Len(list) : a < b => top[a] >= top[b]
        /\ \E q \in 1..Len(list) : top[q] = list[k]
    BY <1>4, <2>1, SortedShape
  <2>3. /\ Len(ev) = IF Len(list) > MaxEventsPerObject THEN MaxEventsPerObject ELSE Len(list)
        /\ \A j \in 1..Len(ev) : ev[j] = <<i, top[j]>>
    <3>1. /\ Len(ev) = Len(FetchEvents(list))
          /\ \A j \in 1..Len(ev) : ev[j] = <<i, FetchEvents(list)[j]>>
      <4>1. i \in Nat /\ (o[i].ok => o[i].v \in Seq(Nat))
        BY <2>1
      <4> DEFINE u == o[i]
      <4>2. i \in Nat /\ u.ok /\ u.v \in Seq(Nat)
        BY <1>4, <4>1
      <4> HIDE DEF u
      <4>3. /\ Len(EventsOf(i, u)) = Len(FetchEvents(u.v))
            /\ \A j \in 1..Len(EventsOf(i, u)) :
                  EventsOf(i, u)[j] = <<i, FetchEvents(u.v)[j]>>
        BY <4>2, EventsOfShape
      <4> QED
        BY <4>3, Zenon DEF u
    <3>2. /\ Len(FetchEvents(list)) =
                IF Len(list) > MaxEventsPerObject THEN MaxEventsPerObject ELSE Len(list)
          /\ \A j \in 1..Len(FetchEvents(list)) : FetchEvents(list)[j] = top[j]
      BY <2>1, FetchedShape
    <3> HIDE DEF ev, top, list
    <3> QED
      BY <3>1, <3>2
  <2>4. PICK b \in Nat : /\ b + Len(ev) <= Len(all)
                         /\ \A j \in 1..Len(ev) : all[b + j] = ev[j]
    BY <1>1 DEF Within
  <2> HIDE DEF list, top, ev
  <2>5. Len(kept) = Len(all) /\ Len(ev) \in Nat
    BY <1>2, <1>3, <1>4, <2>1, <2>3
  <2>6. ASSUME NEW j \in 1..Len(ev)
        PROVE  b + j \in 1..Len(kept) /\ kept[b + j] = <<i, top[j]>>
    <3>1. b + j \in 1..Len(kept)
      BY <1>3, <2>4, <2>5
    <3> QED
      BY <1>2, <2>3, <2>4, <3>1
  <2>7. PICK q \in 1..Len(list) : top[q] = list[k]
    BY <2>2
  <2>8. CASE q \in 1..Len(ev)
    BY <2>6, <2>7, <2>8 DEF list
  <2>9. CASE q \notin 1..Len(ev)
    <3> DEFINE newer == {j \in 1..Len(kept) : kept[j][1] = i /\ kept[j][2] >= list[k]}
    <3>1. Len(ev) = MaxEventsPerObject /\ MaxEventsPerObject < q
      BY <1>3, <2>1, <2>3, <2>9
    <3>2. ASSUME NEW j \in 1..Len(ev) PROVE b + j \in newer
      <4>1. j \in 1..Len(list) /\ j < q
        BY <1>3, <2>1, <3>1
      <4>2. top[j] >= list[k]
        BY <2>2, <2>7, <4>1
      <4> QED
        BY <2>6, <4>2
    <3>3. (b + 1)..(b + MaxEventsPerObject) \subseteq newer
      <4> SUFFICES ASSUME NEW x \in (b + 1)..(b + MaxEventsPerObject) PROVE x \in newer
        OBVIOUS
      <4>1. x - b \in 1..Len(ev) /\ b + (x - b) = x
        BY <1>3, <3>1
      <4> QED
        BY <3>2, <4>1
    <3>4. IsFiniteSet(newer)
      <4>1. IsFiniteSet(1..Len(kept))
        BY <1>3, FS_Interval
      <4> QED
        BY <4>1, FS_Subset
    <3>5. Cardinality((b + 1)..(b + MaxEventsPerObject)) = MaxEventsPerObject
      BY <1>3, FS_Interval, SMTT(30)
    <3>6. Cardinality((b + 1)..(b + MaxEventsPerObject)) <= Cardinality(newer)
      BY <3>3, <3>4, FS_Subset
    <3>7. MaxEventsPerObject <= Cardinality(newer)
      BY <3>5, <3>6
    <3> QED
      BY <3>7 DEF list
  <2> QED
    BY <2>8, <2>9
<1>5. KeptOf(o, kept)
  BY <1>4, Zenon DEF KeptOf
<1> QED
  BY <1>2, <1>3, <1>5 DEF kept

(***************************************************************************)
(* What is known of alert, target, payload and what was fetched: a target  *)
(* has few pods, what is collected for it is bounded, and what was fetched *)
(* is part of it.  Metadata is bounded by the target, so it matters that   *)
(* none is there before Resolve.                                           *)
(***************************************************************************)

Fitting(a) ==
    /\ target[a].pods \in Nat
    /\ target[a].pods <= MaxPods \/ (target[a].pods = 1 /\ target[a].type = "pod")
    /\ payload[a].metas <= target[a].pods
    /\ stage[a] \in {"idle", "resolve"} => payload[a].metas = 0
    /\ Len(payload[a].events) <= MaxEvents
    /\ LinesUsed(a)
    /\ KeptOf(offered[a], payload[a].events)

Alerting == [status : {"firing", "resolved"}, labels : LabelSets]

Payloads == [logs : 0..MaxLogLines, series : 0..8, metas : Nat, events : Seq(Stamps)]

PayloadInv ==
    /\ alert \in [Calls -> Alerting]
    /\ payload \in [Calls -> Payloads]
    /\ target = [a \in Calls |-> target[a]]
    /\ heard = [a \in Calls |-> heard[a]]
    /\ offered = [a \in Calls |-> offered[a]]
    /\ \A a \in Calls : Fitting(a)

\* The initial states.
LEMMA PayloadInit == Init => PayloadInv
<1> SUFFICES ASSUME Init PROVE PayloadInv
  OBVIOUS
<1>1. alert \in [Calls -> Alerting]
  BY PipelineAssumption DEF Init, Alerting
<1>2. /\ payload = [a \in Calls |-> NoPayload]
      /\ target = [a \in Calls |-> [type |-> "unknown", pods |-> 0, pvc |-> FALSE]]
      /\ heard = [a \in Calls |-> FALSE]
      /\ offered = [a \in Calls |-> <<>>]
  BY DEF Init
<1>3. NoPayload \in Payloads /\ NoPayload.metas = 0 /\ NoPayload.events = <<>>
  BY PipelineAssumption DEF NoPayload, Payloads
<1>4. KeptOf(<<>>, <<>>)
  BY DEF KeptOf
<1>5. ASSUME NEW a \in Calls PROVE Fitting(a)
  <2>1. /\ target[a].pods = 0 /\ payload[a].metas = 0 /\ payload[a].events = <<>>
        /\ offered[a] = <<>> /\ heard[a] = FALSE
    BY <1>2, <1>3
  <2> QED
    BY <1>4, <2>1, PipelineAssumption DEF Fitting, LinesUsed
<1> QED
  BY <1>1, <1>2, <1>3, <1>5 DEF PayloadInv

\* Resolve finds no more than MaxPods pods, or the one that is named.
LEMMA PodsFew ==
    ASSUME NEW by, NEW n \in PodCounts(by)
    PROVE  n \in Nat /\ (n <= MaxPods \/ (n = 1 /\ TargetType(by) = "pod"))
BY PipelineAssumption DEF PodCounts, TargetType

\* At most eight queries are made for a target.
LEMMA QueriesFew == ASSUME NEW t PROVE QueryCount(t) \in 0..8
BY DEF QueryCount

\* The payloads with one field of one alert replaced.
WithLogs(a, n) == [payload EXCEPT ![a].logs = n]

WithSeries(a, n) == [payload EXCEPT ![a].series = n]

WithMetas(a, n) == [payload EXCEPT ![a].metas = n]

WithEvents(a, e) == [payload EXCEPT ![a].events = e]

\* They are payloads ...
LEMMA FieldsTyped ==
    ASSUME PayloadInv, NEW a \in Calls
    PROVE  /\ \A n \in 0..MaxLogLines : WithLogs(a, n) \in [Calls -> Payloads]
           /\ \A n \in 0..8 : WithSeries(a, n) \in [Calls -> Payloads]
           /\ \A n \in Nat : WithMetas(a, n) \in [Calls -> Payloads]
           /\ \A e \in Seq(Stamps) : WithEvents(a, e) \in [Calls -> Payloads]
<1>1. payload \in [Calls -> Payloads]
  BY DEF PayloadInv
<1>2. \A n \in 0..MaxLogLines : WithLogs(a, n) \in [Calls -> Payloads]
  BY <1>1 DEF Payloads, WithLogs
<1>3. \A n \in 0..8 : WithSeries(a, n) \in [Calls -> Payloads]
  BY <1>1 DEF Payloads, WithSeries
<1>4. \A n \in Nat : WithMetas(a, n) \in [Calls -> Payloads]
  BY <1>1 DEF Payloads, WithMetas
<1>5. \A e \in Seq(Stamps) : WithEvents(a, e) \in [Calls -> Payloads]
  BY <1>1 DEF Payloads, WithEvents
<1> QED
  BY <1>2, <1>3, <1>4, <1>5

\* ... whose other fields are the old ones ...
LEMMA FieldsKept ==
    ASSUME PayloadInv, NEW a \in Calls, NEW n
    PROVE  /\ WithLogs(a, n)[a].metas = payload[a].metas
           /\ WithLogs(a, n)[a].events = payload[a].events
           /\ WithLogs(a, n)[a].logs = n
           /\ WithSeries(a, n)[a].logs = payload[a].logs
           /\ WithSeries(a, n)[a].metas = payload[a].metas
           /\ WithSeries(a, n)[a].events = payload[a].events
           /\ WithMetas(a, n)[a].logs = payload[a].logs
           /\ WithMetas(a, n)[a].metas = n
           /\ WithMetas(a, n)[a].events = payload[a].events
           /\ WithEvents(a, n)[a].logs = payload[a].logs
           /\ WithEvents(a, n)[a].metas = payload[a].metas
           /\ WithEvents(a, n)[a].events = n
<1>1. payload[a] \in Payloads /\ DOMAIN payload = Calls
  BY DEF PayloadInv
<1>2. DOMAIN payload[a] = {"logs", "series", "metas", "events"}
  BY <1>1 DEF Payloads
<1> QED
  BY <1>1, <1>2, Zenon DEF WithLogs, WithSeries, WithMetas, WithEvents

\* ... and so are the payloads of other alerts.
LEMMA OthersKept ==
    ASSUME PayloadInv, NEW a \in Calls, NEW n, NEW b \in Calls, b # a
    PROVE  /\ WithLogs(a, n)[b] = payload[b]
           /\ WithSeries(a, n)[b] = payload[b]
           /\ WithMetas(a, n)[b] = payload[b]
           /\ WithEvents(a, n)[b] = payload[b]
<1>1. DOMAIN payload = Calls
  BY DEF PayloadInv
<1> QED
  BY <1>1, Zenon DEF WithLogs, WithSeries, WithMetas, WithEvents

\* Outcomes of n fetches.
LEMMA OutcomeShape ==
    ASSUME NEW n \in Nat, NEW V, NEW t, NEW o \in Outcomes(n, V, t)
    PROVE  /\ Len(o) = n /\ DOMAIN o = 1..n
           /\ \A i \in 1..n : o[i].ok \in BOOLEAN /\ (o[i].ok => o[i].v \in V)
<1> DEFINE X == [ok : {FALSE}, v : {CHOOSE v \in V : TRUE}] \cup [ok : {TRUE}, v : V]
<1>1. o \in [1..n -> X]
  BY DEF Outcomes
<1>2. \A x \in X : x.ok \in BOOLEAN /\ (x.ok => x.v \in V)
  OBVIOUS
<1> HIDE DEF X
<1> QED
  BY <1>1, <1>2

\* Resolve replaces a target for which nothing is collected yet.
LEMMA ResolveFits ==
    ASSUME PInv, PayloadInv, NEW a \in Calls, Resolve(a) PROVE PayloadInv'
<1> DEFINE by == ResolvedBy(alert[a].labels)
<1>1. PICK n \in PodCounts(by) :
          target' = [target EXCEPT ![a] = [type |-> TargetType(by), pods |-> n,
                                           pvc |-> by = "persistentvolumeclaim"]]
  BY DEF Resolve
<1>2. n \in Nat /\ (n <= MaxPods \/ (n = 1 /\ TargetType(by) = "pod"))
  BY PodsFew
<1> HIDE DEF by
<1>3. /\ stage[a] = "resolve" /\ UNCHANGED <<alert, payload, heard, offered>>
      /\ stage' \in {[stage EXCEPT ![a] = "forward"], [stage EXCEPT ![a] = "loki"]}
  BY DEF Resolve
<1>4. /\ target' = [b \in Calls |-> target'[b]]
      /\ \A b \in Calls : b # a => target'[b] = target[b] /\ stage'[b] = stage[b]
      /\ target'[a].pods = n /\ target'[a].type = TargetType(by)
      /\ stage'[a] \notin {"idle", "resolve"}
  BY <1>1, <1>3 DEF PInv, PayloadInv
<1>5. ASSUME NEW b \in Calls PROVE Fitting(b)'
  <2>1. CASE b = a
    BY <1>2, <1>3, <1>4, <2>1, PipelineAssumption DEF PayloadInv, Fitting, LinesUsed
  <2>2. CASE b # a
    BY <1>3, <1>4, <2>2 DEF PayloadInv, Fitting, LinesUsed
  <2> QED
    BY <2>1, <2>2
<1> QED
  BY <1>3, <1>4, <1>5 DEF PayloadInv

\* A stage that writes a field of its own payload and goes on.
LEMMA StageFits ==
    ASSUME PInv, PayloadInv, NEW a \in Calls,
           payload' \in [Calls -> Payloads],
           \A b \in Calls : b # a => /\ payload'[b] = payload[b]
                                    /\ heard'[b] = heard[b] /\ offered'[b] = offered[b],
           payload'[a].metas <= target[a].pods,
           Len(payload'[a].events) <= MaxEvents,
           LinesUsed(a)',
           KeptOf(offered'[a], payload'[a].events),
           heard' = [b \in Calls |-> heard'[b]],
           offered' = [b \in Calls |-> offered'[b]],
           UNCHANGED <<alert, target>>,
           NEW l \in Working \ {"resolve"}, stage' = [stage EXCEPT ![a] = l]
    PROVE  PayloadInv'
<1>1. /\ \A b \in Calls : b # a => stage'[b] = stage[b]
      /\ stage'[a] \notin {"idle", "resolve"}
  BY DEF PInv, Working
<1>2. ASSUME NEW b \in Calls PROVE Fitting(b)'
  <2>1. CASE b = a
    BY <1>1, <2>1 DEF PayloadInv, Fitting
  <2>2. CASE b # a
    BY <1>1, <2>2 DEF PayloadInv, Fitting, LinesUsed
  <2> QED
    BY <2>1, <2>2
<1> QED
  BY <1>2 DEF PayloadInv

\* The logs,
LEMMA LogsFit ==
    ASSUME PInv, PayloadInv, NEW a \in Calls, FetchLokiLogs(a) PROVE PayloadInv'
<1>1. LokiPods(a) \in Nat
  BY DEF LokiPods, PayloadInv, Fitting
<1>2. PICK o \in Outcomes(LokiPods(a), 0..PodLines, left[a]) :
          /\ \E n \in Redacted(FetchLogs(o)) : payload' = WithLogs(a, n)
          /\ heard' = [heard EXCEPT ![a] = HasLines(o)]
  BY Zenon DEF FetchLokiLogs, WithLogs
<1>3. /\ Len(o) \in Nat /\ DOMAIN o = 1..Len(o)
      /\ \A i \in 1..Len(o) : o[i].ok \in BOOLEAN /\ (o[i].ok => o[i].v \in Nat)
  BY <1>1, OutcomeShape, PipelineAssumption
<1>4. /\ FetchLogs(o) \in 0..MaxLogLines
      /\ HasLines(o) /\ MaxLogLines > 0 => FetchLogs(o) > 0
  BY <1>3, LogsCollected
<1>5. PICK n \in 0..MaxLogLines :
          /\ payload' = WithLogs(a, n)
          /\ HasLines(o) /\ MaxLogLines > 0 => n > 0
  BY <1>2, <1>4, PipelineAssumption DEF Redacted
<1>6. /\ payload' \in [Calls -> Payloads]
      /\ \A b \in Calls : b # a => payload'[b] = payload[b]
      /\ payload'[a].metas = payload[a].metas /\ payload'[a].events = payload[a].events
      /\ payload'[a].logs = n
  <2>1. WithLogs(a, n) \in [Calls -> Payloads]
    BY FieldsTyped
  <2>2. \A b \in Calls : b # a => WithLogs(a, n)[b] = payload[b]
    BY OthersKept
  <2>3. /\ WithLogs(a, n)[a].metas = payload[a].metas
        /\ WithLogs(a, n)[a].events = payload[a].events
        /\ WithLogs(a, n)[a].logs = n
    BY FieldsKept
  <2> QED
    BY <1>5, <2>1, <2>2, <2>3, Zenon
<1>7. /\ \A b \in Calls : b # a => heard'[b] = heard[b]
      /\ heard'[a] = HasLines(o) /\ heard' = [b \in Calls |-> heard'[b]]
  BY <1>2 DEF PayloadInv
<1>8. LinesUsed(a)'
  BY <1>5, <1>6, <1>7 DEF LinesUsed
<1>9. UNCHANGED <<alert, target, offered>> /\ stage' = [stage EXCEPT ![a] = "prom"]
  BY DEF FetchLokiLogs
<1> QED
  BY <1>6, <1>7, <1>8, <1>9, StageFits DEF PayloadInv, Fitting, Working

\* the series,
LEMMA MetricsFit ==
    ASSUME PInv, PayloadInv, NEW a \in Calls, FetchPromMetrics(a) PROVE PayloadInv'
<1>1. QueryCount(target[a]) \in 0..8
  BY QueriesFew
<1>2. PICK n \in 0..8 : payload' = WithSeries(a, n)
  <2>1. PICK bad \in 0..QueryCount(target[a]) :
            payload' = WithSeries(a, QueryCount(target[a]) - bad)
    BY Zenon DEF FetchPromMetrics, WithSeries
  <2>2. QueryCount(target[a]) - bad \in 0..8
    BY <1>1
  <2> QED
    BY <2>1, <2>2
<1>3. /\ payload' \in [Calls -> Payloads]
      /\ \A b \in Calls : b # a => payload'[b] = payload[b]
      /\ payload'[a].metas = payload[a].metas /\ payload'[a].events = payload[a].events
      /\ payload'[a].logs = payload[a].logs
  BY <1>2, FieldsTyped, FieldsKept, OthersKept DEF PayloadInv
<1>4. /\ UNCHANGED <<alert, target, heard, offered>>
      /\ stage' = [stage EXCEPT ![a] = "meta"]
  BY DEF FetchPromMetrics
<1>5. LinesUsed(a)'
  BY <1>3, <1>4 DEF PayloadInv, Fitting, LinesUsed
<1> QED
  BY <1>3, <1>4, <1>5, StageFits DEF PayloadInv, Fitting, Working

\* the metadata
LEMMA MetaFits ==
    ASSUME PInv, PayloadInv, NEW a \in Calls, FetchPodMeta(a) PROVE PayloadInv'
<1>1. target[a].pods \in Nat
  BY DEF PayloadInv, Fitting
<1>2. PICK n \in 0..target[a].pods : payload' = WithMetas(a, n)
  <2> DEFINE n == IF K8sOn THEN target[a].pods ELSE 0
             Read == IF left[a] = 0 THEN {0} ELSE 0..n
  <2>1. PICK k \in Read : payload' = WithMetas(a, k)
    BY Zenon DEF FetchPodMeta, WithMetas
  <2>2. k \in 0..target[a].pods
    BY <1>1
  <2> QED
    BY <2>1, <2>2
<1>3. /\ payload' \in [Calls -> Payloads]
      /\ \A b \in Calls : b # a => payload'[b] = payload[b]
      /\ payload'[a].metas = n /\ payload'[a].events = payload[a].events
      /\ payload'[a].logs = payload[a].logs
  BY <1>1, <1>2, FieldsTyped, FieldsKept, OthersKept DEF PayloadInv
<1>4. /\ UNCHANGED <<alert, target, heard, offered>>
      /\ stage' = [stage EXCEPT ![a] = "events"]
  BY DEF FetchPodMeta
<1>5. payload'[a].metas <= target[a].pods
  BY <1>1, <1>3
<1>6. LinesUsed(a)'
  BY <1>3, <1>4 DEF PayloadInv, Fitting, LinesUsed
<1> QED
  BY <1>3, <1>4, <1>5, <1>6, StageFits DEF PayloadInv, Fitting, Working

\* and the events.
LEMMA EventsFit ==
    ASSUME PInv, PayloadInv, NEW a \in Calls, FetchTargetEvents(a) PROVE PayloadInv'
<1>1. EventObjects(a) \in Nat
  BY DEF EventObjects, PayloadInv, Fitting
<1>2. PICK o \in Outcomes(EventObjects(a), EventLists, left[a]) :
          /\ payload' = WithEvents(a, CollectEvents(o))
          /\ offered' = [offered EXCEPT ![a] = o]
  BY Zenon DEF FetchTargetEvents, WithEvents
<1> DEFINE kept == CollectEvents(o)
<1>3. kept \in Seq(Stamps) /\ Len(kept) <= MaxEvents /\ KeptOf(o, kept)
  <2>1. /\ Len(o) = EventObjects(a) /\ DOMAIN o = 1..EventObjects(a)
        /\ \A i \in 1..EventObjects(a) : o[i].ok => o[i].v \in EventLists
    BY <1>1, OutcomeShape
  <2>2. \A i \in 1..EventObjects(a) : o[i].ok => o[i].v \in Seq(Nat)
    BY <2>1, PipelineAssumption
  <2> QED
    BY <1>1, <2>1, <2>2, EventsKept
<1> HIDE DEF kept
<1>4. /\ payload' \in [Calls -> Payloads]
      /\ \A b \in Calls : b # a => payload'[b] = payload[b] /\ offered'[b] = offered[b]
      /\ payload'[a].metas = payload[a].metas /\ payload'[a].events = kept
      /\ payload'[a].logs = payload[a].logs
      /\ offered'[a] = o /\ offered' = [b \in Calls |-> offered'[b]]
  <2>1. payload' = WithEvents(a, kept)
    BY <1>2 DEF kept
  <2>2. /\ payload' \in [Calls -> Payloads]
        /\ \A b \in Calls : b # a => payload'[b] = payload[b]
        /\ payload'[a].metas = payload[a].metas /\ payload'[a].events = kept
        /\ payload'[a].logs = payload[a].logs
    BY <1>3, <2>1, FieldsTyped, FieldsKept, OthersKept
  <2>3. /\ \A b \in Calls : b # a => offered'[b] = offered[b]
        /\ offered'[a] = o /\ offered' = [b \in Calls |-> offered'[b]]
    BY <1>2 DEF PayloadInv
  <2> QED
    BY <2>2, <2>3
<1>5. UNCHANGED <<alert, target, heard>> /\ stage' = [stage EXCEPT ![a] = "forward"]
  BY DEF FetchTargetEvents
<1>6. payload'[a].metas <= target[a].pods
  BY <1>4 DEF PayloadInv, Fitting
<1>7. LinesUsed(a)' /\ heard' = [b \in Calls |-> heard'[b]]
  BY <1>4, <1>5 DEF PayloadInv, Fitting, LinesUsed
<1> QED
  BY <1>3, <1>4, <1>5, <1>6, <1>7, StageFits DEF Working

\* The other steps move a worker out of its enrichment or into Resolve, and leave
\* what was collected alone.
LEMMA RestFits ==
    ASSUME PInv, PayloadInv, UNCHANGED <<target, payload, heard, offered>>,
           alert' \in [Calls -> Alerting],
           \A b \in Calls : stage'[b] \in {"idle", "resolve"} => stage[b] \in {"idle", "resolve"}
    PROVE  PayloadInv'
<1>1. ASSUME NEW b \in Calls PROVE Fitting(b)'
  BY DEF PayloadInv, Fitting, LinesUsed
<1> QED
  BY <1>1 DEF PayloadInv

\* Every step, the end of the process and a stuttering step preserve the
\* invariant.
LEMMA PayloadNext == ASSUME PInv, PayloadInv, [Step]_vars PROVE PayloadInv'
<1>0. stage \in [Calls -> Stages] /\ alert \in [Calls -> Alerting]
  BY DEF PInv, PayloadInv
<1>1. ASSUME NEW a \in Calls, Begin(a) PROVE PayloadInv'
  <2>1. /\ stage[a] = "idle" /\ stage' = [stage EXCEPT ![a] = "resolve"]
        /\ UNCHANGED <<target, payload, heard, offered>>
        /\ \E s \in Statuses, l \in LabelSets :
               alert' = [alert EXCEPT ![a] = [status |-> s, labels |-> l]]
    BY <1>1 DEF Begin
  <2>2. alert' \in [Calls -> Alerting]
    <3>1. PICK s \in Statuses, l \in LabelSets :
              alert' = [alert EXCEPT ![a] = [status |-> s, labels |-> l]]
      BY <2>1
    <3>2. [status |-> s, labels |-> l] \in Alerting
      BY PipelineAssumption DEF Alerting
    <3> QED
      BY <1>0, <3>1, <3>2
  <2> QED
    BY <1>0, <2>1, <2>2, RestFits
<1>2. ASSUME NEW a \in Calls, Work(a) PROVE PayloadInv'
  <2>1. CASE Enrich(a)
    BY <2>1, ResolveFits, LogsFit, MetricsFit, MetaFits, EventsFit DEF Enrich
  <2>2. CASE CallForward(a)
    BY <1>0, <2>2, RestFits DEF CallForward
  <2>3. CASE ForwardRuns(a) \/ TimePasses(a) \/ ConnectionBreaks(a)
    BY <1>0, <2>3, RestFits DEF ForwardRuns, TimePasses, ConnectionBreaks, pvars
  <2> QED
    BY <1>2, <2>1, <2>2, <2>3 DEF Work
<1>3. ASSUME NEW a \in Calls, Return(a) PROVE PayloadInv'
  BY <1>0, <1>3, RestFits DEF Return
<1>4. CASE Die
  BY <1>0, <1>4, RestFits DEF Die
<1>5. CASE Brain
  BY <1>0, <1>5, RestFits DEF Brain, pvars
<1>6. CASE UNCHANGED vars
  BY <1>0, <1>6, RestFits DEF vars, pvars
<1> QED
  BY <1>1, <1>2, <1>3, <1>4, <1>5, <1>6 DEF Step, Next

-----------------------------------------------------------------------------

IInv == PInv /\ PayloadInv

\* The initial states satisfy the whole invariant, ...
LEMMA InitInv == Init => IInv
BY WorkersInit, PayloadInit DEF IInv

\* ... which every step preserves.
LEMMA StepInv == IInv /\ [Step]_vars => IInv'
BY WorkersNext, PayloadNext DEF IInv

\* It holds throughout.
LEMMA Invariance == Spec => []IInv
<1>1. [Next]_vars => [Step]_vars
  BY DEF Step
<1> QED
  BY <1>1, InitInv, StepInv, PTL DEF Spec

\* What the invariant says of the types ...
LEMMA Typed == IInv => TypeOK
<1> SUFFICES ASSUME PInv, PayloadInv PROVE TypeOK
  BY DEF IInv
<1>1. F!TypeOK
  BY DEF PInv, FP!IInv, FP!TypeOK, FP!FPCs, FP!Errors, FP!LocalErrors, FP!MaxAttempts,
         F!TypeOK, F!FPCs, F!Errors, F!LocalErrors, F!MaxAttempts
<1>2. stage \in [Calls -> Stages] /\ alert \in [Calls -> Alerting]
  BY DEF PInv, PayloadInv
<1>3. ASSUME NEW c \in Calls
      PROVE  /\ target[c].pods \in 0..MaxPods \cup {1}
             /\ payload[c].logs \in Nat
             /\ payload[c].series \in 0..8
             /\ payload[c].metas \in 0..target[c].pods
  <2>1. payload[c] \in Payloads /\ Fitting(c)
    BY DEF PayloadInv
  <2> QED
    BY <2>1, PipelineAssumption DEF Payloads, Fitting
<1> QED
  BY <1>1, <1>2, <1>3 DEF TypeOK, Alerting

\* ... the size of a payload ...
LEMMA SizeBounded == IInv => PayloadBounded
<1> SUFFICES ASSUME PayloadInv, NEW c \in Calls
             PROVE  /\ payload[c].logs <= MaxLogLines
                    /\ payload[c].metas <= MaxPods \/ target[c].type = "pod"
                    /\ Len(payload[c].events) <= MaxEvents
  BY DEF PayloadBounded, IInv
<1>1. payload[c] \in Payloads /\ Fitting(c)
  BY DEF PayloadInv
<1> QED
  BY <1>1, PipelineAssumption DEF Payloads, Fitting

\* ... and its contents.
LEMMA ContentsKept == IInv => FetchedIsUsed
<1> SUFFICES ASSUME PayloadInv, NEW c \in Calls PROVE LinesUsed(c) /\ NewestEventsKept(c)
  BY DEF IInv, FetchedIsUsed
<1>1. LinesUsed(c) /\ KeptOf(offered[c], payload[c].events)
  BY DEF PayloadInv, Fitting
<1>2. NewestEventsKept(c)
  BY <1>1, Zenon DEF KeptOf, NewestEventsKept
<1> QED
  BY <1>1, <1>2

\* The state of pipeline and forwarder keeps its type; in particular a resolved
\* target has MaxPods pods at most, or the one its alert names.
THEOREM TypeCorrect == Spec => []TypeOK
BY Typed, Invariance, PTL

\* FetchLogs, Resolve and the event loop: the payload of an alert is bounded,
\* whatever the sources hold and however many of them fail.
THEOREM PayloadStaysBounded == Spec => []PayloadBounded
BY SizeBounded, Invariance, PTL

\* FetchLogs and the event loop of ProcessAlert use what could be fetched,
\* whichever fetches fail, for any number of pods and every list of events.
THEOREM FetchedIsAlwaysUsed == Spec => []FetchedIsUsed
BY ContentsKept, Invariance, PTL

===============================================================================
