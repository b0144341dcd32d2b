----------------------------- MODULE AlertDelivery -----------------------------
(***************************************************************************)
(* What the serving collector promises for each alert it is handed, with   *)
(* webhook, pipeline and transport hidden: an abstract specification that  *)
(* the module Collector implements.                                        *)
(*                                                                         *)
(* An alert is taken on or refused at once.  One that was taken on ends    *)
(* delivered, failed, or lost with the process; it is called delivered     *)
(* only if the brain holds a copy.  Delivery is at most Attempts copies,   *)
(* not exactly one, and a copy may surface after the collector has         *)
(* reported failure or died: there is no durable buffer and no             *)
(* acknowledgement beyond the one answer.                                  *)
(***************************************************************************)
EXTENDS Integers, FiniteSets

CONSTANTS
    Alerts,     \* alerts handed to the collector
    Slots,      \* alerts it works on at once
    Attempts    \* transmissions per alert

VARIABLES
    fate,       \* [Alerts -> FateNames]
    copies      \* [Alerts -> Nat]: copies the brain has accepted

dvars == <<fate, copies>>

FateNames == {"unseen", "dropped", "processing", "delivered", "failed", "lost"}

Init ==
    /\ fate = [a \in Alerts |-> "unseen"]
    /\ copies = [a \in Alerts |-> 0]

InWork == {a \in Alerts : fate[a] = "processing"}

Become(a, from, to) ==
    /\ fate[a] = from
    /\ fate' = [fate EXCEPT ![a] = to]
    /\ UNCHANGED copies

Accept(a) == Cardinality(InWork) < Slots /\ Become(a, "unseen", "processing")

Refuse(a) == Become(a, "unseen", "dropped")

Deliver(a) == copies[a] > 0 /\ Become(a, "processing", "delivered")

Fail(a) == Become(a, "processing", "failed")

\* The process dies with everything in work.
LoseAll ==
    /\ fate' = [a \in Alerts |-> IF a \in InWork THEN "lost" ELSE fate[a]]
    /\ UNCHANGED copies

\* The brain accepts a transmission, possibly a late one.
Copy(a) ==
    /\ fate[a] \notin {"unseen", "dropped"}
    /\ copies[a] < Attempts
    /\ copies' = [copies EXCEPT ![a] = @ + 1]
    /\ UNCHANGED fate

Next ==
    \/ \E a \in Alerts : Accept(a) \/ Refuse(a) \/ Deliver(a) \/ Fail(a) \/ Copy(a)
    \/ LoseAll

Spec == Init /\ [][Next]_dvars

===============================================================================
