---------------------------- MODULE WebhookProofs ----------------------------
(***************************************************************************)
(* Proofs about the webhook receiver for any set of requests, batch bound, *)
(* configured ceiling and number of restarts.                              *)
(***************************************************************************)
EXTENDS Webhook, FiniteSetTheorems, TLAPS

(***************************************************************************)
(* The inductive invariant.  CeilingHolds is not inductive: it needs the   *)
(* slots to match the workers, which needs a freshly spawned alert to have *)
(* no worker yet, which needs every alert with a fate to lie behind the    *)
(* loop index of its handler.                                              *)
(***************************************************************************)

\* An alert has met one of its fates.
Seen(a) == a \in running \cup settled \cup dropped \cup lost

\* The alerts a handler has looked at are exactly those behind its index.
SeenBehindIndex ==
    \A r \in Requests : \A i \in 1..MaxBatch : Seen(<<r, i>>) <=> i < next[r]

\* No alert has two fates.
FatesDisjoint ==
    /\ running \cap settled = {}
    /\ running \cap dropped = {}
    /\ running \cap lost = {}
    /\ settled \cap dropped = {}
    /\ settled \cap lost = {}
    /\ dropped \cap lost = {}

\* What a handler's phase says about its index.
IndexMatchesPhase ==
    \A r \in Requests :
        /\ phase[r] = "new" => next[r] = 1 
        /\ phase[r] = "acked" => next[r] > size[r]

Workers == IsFiniteSet(running) /\ IsFiniteSet(releasing)

IInv ==
    /\ TypeOK
    /\ Workers
    /\ SlotsMatchWorkers
    /\ sem <= Ceiling
    /\ SeenBehindIndex
    /\ FatesDisjoint
    /\ IndexMatchesPhase

-----------------------------------------------------------------------------

\* The ceiling of NewHandler is positive whatever is configured.
LEMMA CeilingPositive == Ceiling \in Nat /\ Ceiling > 0
BY WebhookAssumption DEF Ceiling

\* The next alert of a looping handler has met no fate yet.
LEMMA NextIsFresh ==
    ASSUME IInv, NEW r \in Requests, Looping(r)
    PROVE  /\ next[r] \in 1..MaxBatch
           /\ <<r, next[r]>> \in Alerts
           /\ ~Seen(<<r, next[r]>>)
<1>1. next[r] \in 1..MaxBatch
  BY WebhookAssumption DEF IInv, TypeOK, Looping
<1>2. ~(next[r] < next[r])
  BY <1>1
<1> QED
  BY <1>1, <1>2 DEF IInv, SeenBehindIndex, Alerts

\* Rejecting, decoding and answering a request touches no worker.
LEMMA HandlerPhaseSteps ==
    ASSUME IInv, NEW r \in Requests, Reject(r) \/ Decode(r) \/ Ack(r)
    PROVE  IInv'
<1>1. UNCHANGED <<next, sem, running, settled, releasing, dropped, lost, restarts>>
  BY DEF Reject, Decode, Ack
<1>2. TypeOK'
  BY <1>1 DEF IInv, TypeOK, Reject, Decode, Ack, Phases
<1>3. (Workers /\ SlotsMatchWorkers /\ sem <= Ceiling)'
  BY <1>1 DEF IInv, Workers, SlotsMatchWorkers, Ceiling
<1>4. (SeenBehindIndex /\ FatesDisjoint)'
  BY <1>1 DEF IInv, SeenBehindIndex, Seen, FatesDisjoint
<1>5. IndexMatchesPhase'
  BY DEF IInv, TypeOK, IndexMatchesPhase, Reject, Decode, Ack
<1> QED
  BY <1>2, <1>3, <1>4, <1>5 DEF IInv

\* Starting a worker takes one slot for one new worker.
LEMMA SpawnStep == ASSUME IInv, NEW r \in Requests, Spawn(r) PROVE IInv'
<1> DEFINE a == <<r, next[r]>>
<1>1. /\ next[r] \in 1..MaxBatch /\ a \in Alerts /\ ~Seen(a)
      /\ Looping(r)
  BY NextIsFresh DEF Spawn
<1>2. TypeOK'
  BY <1>1, WebhookAssumption DEF IInv, TypeOK, Spawn
<1>3. Workers' /\ Cardinality(running') = Cardinality(running) + 1
  BY <1>1, FS_AddElement DEF IInv, Workers, Spawn, Seen
<1>4. SlotsMatchWorkers' /\ (sem <= Ceiling)'
  BY <1>3, FS_CardinalityType, CeilingPositive
  DEF IInv, TypeOK, Workers, SlotsMatchWorkers, Spawn, Ceiling
<1>5. SeenBehindIndex'
  <2> SUFFICES ASSUME NEW q \in Requests, NEW i \in 1..MaxBatch
               PROVE  (Seen(<<q, i>>) <=> i < next[q])'
    BY DEF SeenBehindIndex
  <2>1. Seen(<<q, i>>) <=> i < next[q]
    BY DEF IInv, SeenBehindIndex
  <2>2. Seen(<<q, i>>)' <=> Seen(<<q, i>>) \/ <<q, i>> = a
    BY DEF Seen, Spawn
  <2>3. CASE q = r
    BY <1>1, <2>1, <2>2, <2>3 DEF Spawn, IInv, TypeOK
  <2>4. CASE q # r
    BY <1>1, <2>1, <2>2, <2>4 DEF Spawn, IInv, TypeOK
  <2> QED
    BY <2>3, <2>4
<1>6. FatesDisjoint'
  BY <1>1 DEF IInv, FatesDisjoint, Seen, Spawn
<1>7. IndexMatchesPhase'
  BY <1>1 DEF IInv, TypeOK, IndexMatchesPhase, Spawn, Looping
<1> QED
  BY <1>2, <1>3, <1>4, <1>5, <1>6, <1>7 DEF IInv

\* Dropping an alert leaves the workers alone.
LEMMA DropStep == ASSUME IInv, NEW r \in Requests, Drop(r) PROVE IInv'
<1> DEFINE a == <<r, next[r]>>
<1>1. /\ next[r] \in 1..MaxBatch /\ a \in Alerts /\ ~Seen(a)
      /\ Looping(r)
  BY NextIsFresh DEF Drop
<1>2. TypeOK'
  BY <1>1, WebhookAssumption DEF IInv, TypeOK, Drop
<1>3. (Workers /\ SlotsMatchWorkers /\ sem <= Ceiling)'
  BY DEF IInv, Workers, SlotsMatchWorkers, Drop, Ceiling
<1>4. SeenBehindIndex'
  <2> SUFFICES ASSUME NEW q \in Requests, NEW i \in 1..MaxBatch
               PROVE  (Seen(<<q, i>>) <=> i < next[q])'
    BY DEF SeenBehindIndex
  <2>1. Seen(<<q, i>>) <=> i < next[q]
    BY DEF IInv, SeenBehindIndex
  <2>2. Seen(<<q, i>>)' <=> Seen(<<q, i>>) \/ <<q, i>> = a
    BY DEF Seen, Drop
  <2>3. CASE q = r
    BY <1>1, <2>1, <2>2, <2>3 DEF Drop, IInv, TypeOK
  <2>4. CASE q # r
    BY <1>1, <2>1, <2>2, <2>4 DEF Drop, IInv, TypeOK
  <2> QED
    BY <2>3, <2>4
<1>5. FatesDisjoint'
  BY <1>1 DEF IInv, FatesDisjoint, Seen, Drop
<1>6. IndexMatchesPhase'
  BY <1>1 DEF IInv, TypeOK, IndexMatchesPhase, Drop, Looping
<1> QED
  BY <1>2, <1>3, <1>4, <1>5, <1>6 DEF IInv

\* A worker that returns keeps its slot.
LEMMA SettleStep == ASSUME IInv, NEW a \in Alerts, Settle(a) PROVE IInv'
<1>1. a \in running /\ a \notin releasing /\ a \notin settled
  BY DEF IInv, TypeOK, FatesDisjoint, Settle
<1>2. TypeOK'
  BY DEF IInv, TypeOK, Settle
<1>3. /\ Workers'
      /\ Cardinality(running') = Cardinality(running) - 1
      /\ Cardinality(releasing') = Cardinality(releasing) + 1
  BY <1>1, FS_AddElement, FS_RemoveElement DEF IInv, Workers, Settle
<1>4. SlotsMatchWorkers' /\ (sem <= Ceiling)'
  BY <1>3, FS_CardinalityType
  DEF IInv, TypeOK, Workers, SlotsMatchWorkers, Settle, Ceiling
<1>5. (SeenBehindIndex /\ FatesDisjoint)'
  BY <1>1 DEF IInv, SeenBehindIndex, FatesDisjoint, Seen, Settle
<1>6. IndexMatchesPhase'
  BY DEF IInv, IndexMatchesPhase, Settle
<1> QED
  BY <1>2, <1>3, <1>4, <1>5, <1>6 DEF IInv

\* The slot a worker gives back is one that was taken.
LEMMA ReleaseStep == ASSUME IInv, NEW a \in Alerts, Release(a) PROVE IInv'
<1>1. /\ Workers'
      /\ Cardinality(releasing') = Cardinality(releasing) - 1
      /\ Cardinality(releasing') \in Nat
  BY FS_RemoveElement, FS_CardinalityType DEF IInv, Workers, Release
<1>2. SlotsMatchWorkers' /\ (sem <= Ceiling)' /\ sem' \in Nat
  BY <1>1, FS_CardinalityType, CeilingPositive
  DEF IInv, TypeOK, Workers, SlotsMatchWorkers, Release, Ceiling
<1>3. TypeOK'
  BY <1>2 DEF IInv, TypeOK, Release
<1>4. (SeenBehindIndex /\ FatesDisjoint /\ IndexMatchesPhase)'
  BY DEF IInv, SeenBehindIndex, FatesDisjoint, IndexMatchesPhase, Seen, Release
<1> QED
  BY <1>1, <1>2, <1>3, <1>4 DEF IInv

\* A restart clears the slots together with the workers.
LEMMA RestartStep == ASSUME IInv, Restart PROVE IInv'
<1>1. TypeOK'
  BY WebhookAssumption DEF IInv, TypeOK, Restart, Phases
<1>2. (Workers /\ SlotsMatchWorkers /\ sem <= Ceiling)'
  BY FS_EmptySet, CeilingPositive
  DEF Workers, SlotsMatchWorkers, Restart, Ceiling
<1>3. (SeenBehindIndex /\ FatesDisjoint)'
  BY DEF IInv, SeenBehindIndex, FatesDisjoint, Seen, Restart
<1>4. IndexMatchesPhase'
  BY DEF IInv, TypeOK, IndexMatchesPhase, Restart
<1> QED
  BY <1>1, <1>2, <1>3, <1>4 DEF IInv

\* The initial state satisfies the invariant.
LEMMA InitInv == Init => IInv
<1> SUFFICES ASSUME Init PROVE IInv
  OBVIOUS
<1>1. TypeOK
  BY WebhookAssumption DEF Init, TypeOK, Phases
<1>2. Workers /\ SlotsMatchWorkers /\ sem <= Ceiling
  BY FS_EmptySet, CeilingPositive DEF Init, Workers, SlotsMatchWorkers
<1>3. SeenBehindIndex /\ FatesDisjoint /\ IndexMatchesPhase
  BY DEF Init, SeenBehindIndex, FatesDisjoint, IndexMatchesPhase, Seen
<1> QED
  BY <1>1, <1>2, <1>3 DEF IInv

\* Every step, or a stuttering step, preserves the invariant.
LEMMA NextInv == IInv /\ [Next]_vars => IInv'
<1> SUFFICES ASSUME IInv, [Next]_vars PROVE IInv'
  OBVIOUS
<1>1. CASE \E r \in Requests : Handle(r)
  BY <1>1, HandlerPhaseSteps, SpawnStep, DropStep DEF Handle
<1>2. CASE \E a \in Alerts : Settle(a) \/ Release(a)
  BY <1>2, SettleStep, ReleaseStep
<1>3. CASE Restart
  BY <1>3, RestartStep
<1>4. CASE UNCHANGED vars
  <2>1. TypeOK'
    BY <1>4 DEF IInv, TypeOK, vars
  <2>2. (Workers /\ SlotsMatchWorkers /\ sem <= Ceiling)'
    BY <1>4 DEF IInv, Workers, SlotsMatchWorkers, Ceiling, vars
  <2>3. (SeenBehindIndex /\ FatesDisjoint /\ IndexMatchesPhase)'
    BY <1>4 DEF IInv, SeenBehindIndex, FatesDisjoint, IndexMatchesPhase, Seen, vars
  <2> QED
    BY <2>1, <2>2, <2>3 DEF IInv
<1> QED
  BY <1>1, <1>2, <1>3, <1>4 DEF Next

\* The inductive invariant holds throughout.
LEMMA Invariance == Spec => []IInv
<1> QED
  BY InitInv, NextInv, PTL DEF Spec

-----------------------------------------------------------------------------

\* The variables of the handler keep their types; in particular the number of
\* slots taken never goes below zero.
THEOREM TypeCorrect == Spec => []TypeOK
<1>1. IInv => TypeOK
  BY DEF IInv
<1> QED
  BY <1>1, Invariance, PTL

\* The channel Handler.sem holds exactly one element per live worker.
THEOREM SlotsAccounted == Spec => []SlotsMatchWorkers
<1>1. IInv => SlotsMatchWorkers
  BY DEF IInv
<1> QED
  BY <1>1, Invariance, PTL

\* ServeHTTP never has more alerts in ProcessAlert than the ceiling of
\* NewHandler, whatever value is configured.
THEOREM CeilingRespected == Spec => []CeilingHolds
<1>1. IInv => CeilingHolds
  BY FS_CardinalityType, CeilingPositive
  DEF IInv, TypeOK, Workers, SlotsMatchWorkers, CeilingHolds
<1> QED
  BY <1>1, Invariance, PTL

\* Every alert of an answered request has exactly one fate.
THEOREM AcksAccounted == Spec => []AckedIsAccounted
<1>1. IInv => AckedIsAccounted
  <2> SUFFICES ASSUME IInv, NEW r \in Requests, phase[r] = "acked",
                      NEW i \in 1..size[r]
               PROVE  /\ \E k \in 1..4 : <<r, i>> \in Fates[k]
                      /\ \A k, l \in 1..4 :
                            <<r, i>> \in Fates[k] \cap Fates[l] => k = l
    BY DEF AckedIsAccounted
  <2>1. i \in 1..MaxBatch /\ i < next[r]
    BY WebhookAssumption DEF IInv, TypeOK, IndexMatchesPhase
  <2>2. Seen(<<r, i>>)
    BY <2>1 DEF IInv, SeenBehindIndex
  <2>3. /\ Fates[1] = running /\ Fates[2] = settled
        /\ Fates[3] = dropped /\ Fates[4] = lost
    BY DEF Fates
  <2>4. 1..4 = {1, 2, 3, 4}
    OBVIOUS
  <2>5. \E k \in 1..4 : <<r, i>> \in Fates[k]
    BY <2>2, <2>3, <2>4 DEF Seen
  <2>6. ASSUME NEW k \in 1..4, NEW l \in 1..4, <<r, i>> \in Fates[k] \cap Fates[l]
        PROVE  k = l
    <3>1. k \in {1, 2, 3, 4} /\ l \in {1, 2, 3, 4}
      BY <2>4
    <3> QED
      BY <2>3, <2>6, <3>1 DEF IInv, FatesDisjoint
  <2> QED
    BY <2>5, <2>6
<1> QED
  BY <1>1, Invariance, PTL

\* An alert is refused only while Ceiling live workers hold the slots.
THEOREM DropsJustified == Spec => DropOnlyWhenBusy
<1> DEFINE Busy == /\ running \cup releasing # {}
                   /\ Cardinality(running) + Cardinality(releasing) >= Ceiling
<1>1. ASSUME IInv, [Next]_vars PROVE [dropped' # dropped => Busy]_vars
  <2>1. CASE \E r \in Requests : Drop(r)
    <3>1. sem >= Ceiling
      BY <2>1 DEF Drop
    <3>2. Cardinality(running) + Cardinality(releasing) >= Ceiling
      BY <1>1, <3>1 DEF IInv, SlotsMatchWorkers
    <3>3. ~(running = {} /\ releasing = {})
      BY <3>2, FS_EmptySet, CeilingPositive
    <3> QED
      BY <3>2, <3>3
  <2>2. CASE ~\E r \in Requests : Drop(r)
    BY <1>1, <2>2
    DEF Next, vars, Handle, Reject, Decode, Spawn, Ack, Settle, Release, Restart
  <2> QED
    BY <2>1, <2>2
<1> QED
  BY <1>1, Invariance, PTL DEF Spec, DropOnlyWhenBusy

=============================================================================
