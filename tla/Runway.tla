-------------------------------- MODULE Runway --------------------------------
(***************************************************************************)
(* The renewal schedule (RenewFlow.Run of internal/auth/flows.go under the *)
(* CronJob of the chart): how long the collector stays able to talk to the *)
(* brain when renewals fail.                                               *)
(*                                                                         *)
(* Time is counted in hours.  A run takes seconds and is one action; the   *)
(* retries of a job (backoffLimit) count as one run.  How a run works step *)
(* by step is the subject of Enrolment.                                    *)
(***************************************************************************)
EXTENDS Integers

CONSTANTS
    Life,           \* validity of an issued cert (the brain's certDuration)
    RenewBefore,    \* RENEW_BEFORE; 0 rotates on every run
    Period,         \* hours between runs of the CronJob
    MaxFails        \* bound: consecutive runs that may fail

ASSUME RunwayAssumption ==
    /\ Life \in Nat \ {0}
    /\ RenewBefore \in Nat
    /\ Period \in Nat \ {0}
    /\ MaxFails \in Nat

VARIABLES
    remaining,  \* hours the stored cert is still valid, 0: expired
    since,      \* hours since the last run was due
    fails       \* consecutive runs that failed

runwayVars == <<remaining, since, fails>>

RunwayTypeOK ==
    /\ remaining \in 0..Life
    /\ since \in 0..Period
    /\ fails \in 0..MaxFails

\* The collector has just enrolled, at any moment of the schedule.
RunwayInit ==
    /\ remaining = Life
    /\ since \in 0..Period
    /\ fails = 0

Tick ==
    /\ since < Period
    /\ since' = since + 1
    /\ remaining' = IF remaining > 0 THEN remaining - 1 ELSE 0
    /\ UNCHANGED fails

\* Mutant: a cert is fresh as long as it is valid.
FreshWhileValid == RenewBefore > 0 /\ remaining > 0

\* certRemaining(...) > r.RenewBefore, with the check turned on.
Fresh == RenewBefore > 0 /\ remaining > RenewBefore

\* The schedule is up and a run begins.
Due == since = Period

\* "renew: cert still fresh, skipping".
Skip ==
    /\ Due
    /\ Fresh
    /\ since' = 0
    /\ fails' = 0
    /\ UNCHANGED remaining

\* The brain signs the CSR, if the old cert is still valid, and the new one is
\* stored.
Rotate ==
    /\ Due
    /\ ~Fresh
    /\ remaining > 0
    /\ remaining' = Life
    /\ since' = 0
    /\ fails' = 0

\* The run fails: the Kubernetes API or the brain cannot be reached, or either
\* refuses.  At most MaxFails times in a row.
Fail ==
    /\ Due
    /\ fails < MaxFails
    /\ since' = 0
    /\ fails' = fails + 1
    /\ UNCHANGED remaining

RunwayNext == Tick \/ Skip \/ Rotate \/ Fail

RunwaySpec == RunwayInit /\ [][RunwayNext]_runwayVars

-----------------------------------------------------------------------------
(* Properties *)

\* What a cert has left, at least, after a run that did not fail.
Margin ==
    IF 0 < RenewBefore /\ RenewBefore < Life THEN RenewBefore ELSE Life - 1

\* The configuration leaves room for MaxFails failed runs and a good one.
Tuned == (MaxFails + 1) * Period <= Margin

\* "after which mTLS to the brain became impossible and only a re-bootstrap
\* could recover" must not happen: in a tuned configuration the stored cert
\* never expires, whatever the moment of enrolment and whichever runs fail,
\* at most MaxFails in a row.
NeverExpires == remaining > 0

===============================================================================
