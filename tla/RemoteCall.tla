------------------------------ MODULE RemoteCall ------------------------------
(***************************************************************************)
(* What a call of the signed transport promises, whatever the network and  *)
(* the edge in front of the brain do: the brain acts upon it at most once, *)
(* and it succeeds only if the brain has acted upon it.  A call that fails *)
(* may have been acted upon, also afterwards.                              *)
(***************************************************************************)
EXTENDS Naturals

CONSTANT Callers

VARIABLES
    status,     \* what the caller knows of its call
    acts        \* how often the brain has acted upon it

vars == <<status, acts>>

Init ==
    /\ status = [c \in Callers |-> "idle"]
    /\ acts = [c \in Callers |-> 0]

Begin(c) ==
    /\ status[c] = "idle"
    /\ status' = [status EXCEPT ![c] = "open"]
    /\ UNCHANGED acts

Act(c) ==
    /\ status[c] # "idle"
    /\ acts[c] = 0
    /\ acts' = [acts EXCEPT ![c] = 1]
    /\ UNCHANGED status

Succeed(c) ==
    /\ status[c] = "open"
    /\ acts[c] = 1
    /\ status' = [status EXCEPT ![c] = "ok"]
    /\ UNCHANGED acts

Fail(c) ==
    /\ status[c] = "open"
    /\ status' = [status EXCEPT ![c] = "error"]
    /\ UNCHANGED acts

Next == \E c \in Callers : Begin(c) \/ Act(c) \/ Succeed(c) \/ Fail(c)

Spec == Init /\ [][Next]_vars

===============================================================================
