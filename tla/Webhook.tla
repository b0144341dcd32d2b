------------------------------- MODULE Webhook -------------------------------
(***************************************************************************)
(* The AlertManager webhook receiver (internal/webhook/handler.go).        *)
(*                                                                         *)
(* Every POST /webhook runs in a goroutine of its own.  The handler walks  *)
(* the decoded batch; for each alert it takes a slot of the buffered       *)
(* channel Handler.sem without blocking and starts a worker goroutine, or, *)
(* when the channel is full, counts the alert as dropped.  Only then does  *)
(* it answer 200.  A worker gives its slot back, in a deferred receive,    *)
(* after ProcessAlert has returned.                                        *)
(*                                                                         *)
(* What ProcessAlert does is left open here (a worker may settle its alert *)
(* at any time); the module Collector replaces it by the pipeline and      *)
(* shows that the composition still implements this specification.         *)
(***************************************************************************)
EXTENDS Integers, FiniteSets

CONSTANTS
    Requests,           \* webhook requests that may arrive
    MaxBatch,           \* bound: alerts in one request
    MaxConcurrent,      \* WEBHOOK_MAX_CONCURRENT as configured, any integer
    DefaultConcurrent,  \* what NewHandler falls back to (50 in the code)
    MaxRestarts         \* bound: restarts of the serve process

ASSUME WebhookAssumption ==
    /\ MaxBatch \in Nat
    /\ MaxConcurrent \in Int
    /\ DefaultConcurrent \in Nat \ {0}
    /\ MaxRestarts \in Nat

VARIABLES
    phase,      \* [Requests -> Phases]: where the handler of a request is
    size,       \* [Requests -> Nat]: length of its decoded batch
    next,       \* [Requests -> Nat]: index of the alert its loop looks at
    sem,        \* slots taken in the channel Handler.sem
    running,    \* alerts inside ProcessAlert
    settled,    \* alerts whose ProcessAlert has returned
    releasing,  \* settled alerts whose worker still holds its slot
    dropped,    \* alerts refused at the ceiling
    lost,       \* alerts whose worker died with the process
    restarts    \* restarts so far

vars == <<phase, size, next, sem, running, settled, releasing, dropped, lost,
          restarts>>

Phases == {"new", "dispatch", "acked", "rejected", "aborted"}

\* The i-th alert of request r.
Alerts == Requests \X (1..MaxBatch)

\* Mutant: the configured bound is used as it is.
RawCeiling == MaxConcurrent

\* NewHandler: a non-positive bound falls back to the default.
Ceiling == IF MaxConcurrent <= 0 THEN DefaultConcurrent ELSE MaxConcurrent

TypeOK ==
    /\ phase \in [Requests -> Phases]
    /\ size \in [Requests -> 0..MaxBatch]
    /\ next \in [Requests -> 1..(MaxBatch + 1)]
    /\ sem \in Nat
    /\ running \in SUBSET Alerts
    /\ settled \in SUBSET Alerts
    /\ releasing \in SUBSET settled
    /\ dropped \in SUBSET Alerts
    /\ lost \in SUBSET Alerts
    /\ restarts \in 0..MaxRestarts

Init ==
    /\ phase = [r \in Requests |-> "new"]
    /\ size = [r \in Requests |-> 0]
    /\ next = [r \in Requests |-> 1]
    /\ sem = 0
    /\ running = {}
    /\ settled = {}
    /\ releasing = {}
    /\ dropped = {}
    /\ lost = {}
    /\ restarts = 0

-----------------------------------------------------------------------------
(* ServeHTTP *)

\* 405 for another method, 400 for a body that cannot be read or decoded.
Reject(r) ==
    /\ phase[r] = "new"
    /\ phase' = [phase EXCEPT ![r] = "rejected"]
    /\ UNCHANGED <<size, next, sem, running, settled, releasing, dropped, lost,
                   restarts>>

\* The body decodes to a batch of n alerts (n may be 0).
Decode(r) ==
    /\ phase[r] = "new"
    /\ \E n \in 0..MaxBatch : size' = [size EXCEPT ![r] = n]
    /\ phase' = [phase EXCEPT ![r] = "dispatch"]
    /\ UNCHANGED <<next, sem, running, settled, releasing, dropped, lost, restarts>>

\* The handler of r is in its loop, at an alert it has not looked at yet.
Looping(r) == phase[r] = "dispatch" /\ next[r] <= size[r]

\* Mutant: the ceiling is off by one.
SpawnOverCeiling(r) ==
    /\ Looping(r)
    /\ sem <= Ceiling
    /\ sem' = sem + 1
    /\ running' = running \cup {<<r, next[r]>>}
    /\ next' = [next EXCEPT ![r] = @ + 1]
    /\ UNCHANGED <<phase, size, settled, releasing, dropped, lost, restarts>>

\* case h.sem <- struct{}{}: the send succeeds, the worker goroutine starts.
Spawn(r) ==
    /\ Looping(r)
    /\ sem < Ceiling
    /\ sem' = sem + 1
    /\ running' = running \cup {<<r, next[r]>>}
    /\ next' = [next EXCEPT ![r] = @ + 1]
    /\ UNCHANGED <<phase, size, settled, releasing, dropped, lost, restarts>>

\* Mutant: no default case, the send blocks until a slot is free.
DropBlocks(r) ==
    /\ Looping(r)
    /\ sem > Ceiling
    /\ dropped' = dropped \cup {<<r, next[r]>>}
    /\ next' = [next EXCEPT ![r] = @ + 1]
    /\ UNCHANGED <<phase, size, sem, running, settled, releasing, lost, restarts>>

\* default: the channel is full, the alert is counted and forgotten.
Drop(r) ==
    /\ Looping(r)
    /\ sem >= Ceiling
    /\ dropped' = dropped \cup {<<r, next[r]>>}
    /\ next' = [next EXCEPT ![r] = @ + 1]
    /\ UNCHANGED <<phase, size, sem, running, settled, releasing, lost, restarts>>

\* Mutant: the answer goes out before the last alert has been looked at.
AckEarly(r) ==
    /\ phase[r] = "dispatch"
    /\ next[r] >= size[r]
    /\ phase' = [phase EXCEPT ![r] = "acked"]
    /\ UNCHANGED <<size, next, sem, running, settled, releasing, dropped, lost,
                   restarts>>

\* The loop is over: 200 "ok".
Ack(r) ==
    /\ phase[r] = "dispatch"
    /\ next[r] > size[r]
    /\ phase' = [phase EXCEPT ![r] = "acked"]
    /\ UNCHANGED <<size, next, sem, running, settled, releasing, dropped, lost,
                   restarts>>

(* The worker goroutine *)

\* ProcessAlert returns; its slot is still taken.
Settle(a) ==
    /\ a \in running
    /\ running' = running \ {a}
    /\ settled' = settled \cup {a}
    /\ releasing' = releasing \cup {a}
    /\ UNCHANGED <<phase, size, next, sem, dropped, lost, restarts>>

\* Mutant: the receive is forgotten.
ReleaseLeaks(a) ==
    /\ a \in releasing
    /\ releasing' = releasing \ {a}
    /\ UNCHANGED <<phase, size, next, sem, running, settled, dropped, lost,
                   restarts>>

\* The deferred <-h.sem: the slot is free again and the goroutine is gone.
Release(a) ==
    /\ a \in releasing
    /\ releasing' = releasing \ {a}
    /\ sem' = sem - 1
    /\ UNCHANGED <<phase, size, next, running, settled, dropped, lost, restarts>>

(* The process *)

\* The pod is restarted: nothing is persisted, so the workers vanish and the
\* requests being served get no answer.
Restart ==
    /\ restarts < MaxRestarts
    /\ restarts' = restarts + 1
    /\ sem' = 0
    /\ running' = {}
    /\ releasing' = {}
    /\ lost' = lost \cup running
    /\ phase' = [r \in Requests |->
                    IF phase[r] = "dispatch" THEN "aborted" ELSE phase[r]]
    /\ UNCHANGED <<size, next, settled, dropped>>

Handle(r) == Reject(r) \/ Decode(r) \/ Spawn(r) \/ Drop(r) \/ Ack(r)

Next ==
    \/ \E r \in Requests : Handle(r)
    \/ \E a \in Alerts : Settle(a) \/ Release(a)
    \/ Restart

\* Only the handlers are fair: workers may hang for as long as they like.
HandlerFairness == \A r \in Requests : WF_vars(Spawn(r) \/ Drop(r) \/ Ack(r))

Spec == Init /\ [][Next]_vars

FairSpec == Spec /\ HandlerFairness

-----------------------------------------------------------------------------
(* Properties *)

\* The slots taken are exactly the live workers, over any interleaving of
\* handlers, workers and restarts: none leaks (which would shrink the
\* ceiling for good) and none is freed twice.
SlotsMatchWorkers == sem = Cardinality(running) + Cardinality(releasing)

\* "maxConcurrent bounds the number of alerts processed at once" (NewHandler),
\* for every configured value, also a non-positive one.
CeilingHolds ==
    /\ Cardinality(running) <= Ceiling
    /\ sem <= Ceiling

\* An answered request has accounted for every alert of its batch, each in
\* exactly one way: still being processed, settled, dropped at the ceiling or
\* gone with a process that died after answering.  (ServeHTTP answers 200
\* before any alert is processed, so the last case is real.)
Fates == <<running, settled, dropped, lost>>

AckedIsAccounted ==
    \A r \in Requests : phase[r] = "acked" =>
        \A i \in 1..size[r] :
            /\ \E k \in 1..4 : <<r, i>> \in Fates[k]
            /\ \A k, l \in 1..4 :
                  <<r, i>> \in Fates[k] \cap Fates[l] => k = l

\* ServeHTTP refuses an alert only while Ceiling live workers really use the
\* slots up: an idle collector never drops, however many storms and restarts
\* it has been through.
DropOnlyWhenBusy ==
    [][dropped' # dropped =>
          /\ running \cup releasing # {}
          /\ Cardinality(running) + Cardinality(releasing) >= Ceiling]_vars

\* "alerts over the ceiling are dropped, never blocked, so AlertManager is
\* never wedged" (ServeHTTP): a decoded request is answered, or cut off by a
\* restart, even if every worker hangs forever (no worker is fair).
NeverWedged ==
    \A r \in Requests :
        phase[r] = "dispatch" ~> phase[r] \in {"acked", "aborted"}

=============================================================================
