------------------------------- MODULE Lifecycle -------------------------------
(***************************************************************************)
(* The life of a certificate in a cluster, from enrolment to the handshake *)
(* that presents it: the bootstrap and renewal containers write the Secret *)
(* (Enrolment), the kubelet projects it into the volume of the collector   *)
(* container, and the serve process (runServer in main.go) loads it at its *)
(* start and reloads it at handshakes (Reloader).                          *)
(*                                                                         *)
(* The collector container starts once a bootstrap init container has      *)
(* exited with 0, which may be before the kubelet has projected what it    *)
(* wrote: the volume is optional.  runServer needs a pair for              *)
(* NewClientReloader and then a CA for the forwarder, and exits without    *)
(* either; the kubelet restarts it.  The kubelet is external.              *)
(***************************************************************************)
EXTENDS Enrolment, Sequences

CONSTANTS
    Handshakes, Main, NoCert, Err,  \* of Reloader
    MaxGen, MaxVanish, MaxCrashes

\* What Reloader assumes of its constants.
ASSUME LifeAssumption ==
    /\ Main \notin Handshakes
    /\ NoCert \notin Nat /\ Err \notin Nat /\ NoCert # Err
    /\ MaxGen \in Nat /\ MaxVanish \in Nat /\ MaxCrashes \in Nat

VARIABLES
    mounted,    \* what the volume holds: [cert, key, ca]
    pairs,      \* the cert behind each generation of the volume
    ready,      \* runServer has its forwarder and listens
    persister, present, certGen, keyGen, mtime, writing, vanished, up, cached,
    cachedAt, hpc, st, got, result, calm, crashes   \* of Reloader

R == INSTANCE Reloader WITH pc <- hpc

volVars == <<mounted, pairs>>
fileVars == <<persister, present, certGen, keyGen, mtime, writing, vanished>>
procVars == <<up, cached, cachedAt, hpc, st, got, result, calm, crashes>>
lifeVars == <<vars, volVars, ready, fileVars, procVars>>

Content(s) == [cert |-> s.cert, key |-> s.key, ca |-> s.ca]

LifeInit ==
    /\ Init
    /\ R!Init
    /\ persister = backend
    /\ mounted = Content(secret)
    /\ pairs = <<>>
    /\ ready = FALSE

\* The runs that write the Secret, the brain and the operators.
Enrol == Next /\ UNCHANGED <<volVars, ready, fileVars, procVars>>

\* The kubelet swaps the links of the volume: all files of the Secret at once.
Sync ==
    /\ mounted # Content(secret)
    /\ mounted' = Content(secret)
    /\ \/ /\ HasPair(secret)
          /\ pairs' = Append(pairs, secret.cert)
          /\ IF secret.cert = secret.key THEN R!Swap ELSE R!SwapDamaged
       \/ /\ ~HasPair(secret)
          /\ pairs' = pairs
          /\ IF present THEN R!Vanish ELSE UNCHANGED <<fileVars, procVars>>
    /\ UNCHANGED <<vars, ready>>

\* runServer is started, or restarted, and calls NewClientReloader.
Boot ==
    /\ \E b \in Boots : pc[b] = "ok"
    /\ R!Boot
    /\ UNCHANGED <<vars, volVars, ready>>

\* forwarder.New or NewSigned reads ca.crt; without a CA the process exits.
NewForwarder ==
    /\ up
    /\ ~ready
    /\ \/ /\ mounted.ca # None
          /\ ready' = TRUE
          /\ UNCHANGED <<fileVars, procVars>>
       \/ /\ mounted.ca = None
          /\ R!Exit
          /\ UNCHANGED <<ready, crashes>>
    /\ UNCHANGED <<vars, volVars>>

\* A handshake of a process that serves begins, ...
Stat(p) ==
    /\ ready
    /\ R!Stat(p)
    /\ UNCHANGED <<vars, volVars, ready>>

\* ... and goes on, as does the load at startup.
Handshake(p) == R!Call(p) /\ UNCHANGED <<vars, volVars, ready>>

Crash ==
    /\ R!Crash
    /\ ready' = FALSE
    /\ UNCHANGED <<vars, volVars>>

Serve ==
    \/ Boot \/ NewForwarder \/ Crash
    \/ \E p \in R!Procs : Stat(p) \/ Handshake(p)

LifeNext == Enrol \/ Sync \/ Serve

LifeSpec == LifeInit /\ [][LifeNext]_lifeVars

\* The kubelet syncs and restarts, the process runs, alerts keep coming.
\* Nothing is assumed of the runs, the brain and the operators.
LifeFairness ==
    /\ WF_lifeVars(Sync)
    /\ WF_lifeVars(Boot)
    /\ WF_lifeVars(NewForwarder)
    /\ \A p \in R!Procs : WF_lifeVars(Stat(p)) /\ WF_lifeVars(Handshake(p))

LifeFairSpec == LifeSpec /\ LifeFairness

-----------------------------------------------------------------------------
(* Properties *)

\* runServer started now would come up.
Startable == R!Matching /\ mounted.ca # None

\* A restart of the collector is always safe: once the volume holds what
\* runServer needs, no run of bootstrap or renewal, however it overlaps, fails
\* or dies, takes that away; only an operator can.
RestartIsSafe == [][Startable /\ ops' = 0 => Startable']_lifeVars

\* A handshake presents a cert that the brain signed for the key it is
\* presented with, whatever is being rotated, damaged or deleted meanwhile.
PresentsIssuedPair ==
    \A p \in Handshakes : result[p] \in Nat => pairs[result[p]] \in issued

Installed ==
    /\ \E b \in Boots : pc[b] = "ok"
    /\ HasPair(secret) /\ secret.cert # Bad
    /\ secret.ca # None

\* "kubelet projects updates into this mount; ClientReloader picks them up on
\* the next outbound handshake" (deployment.yaml): once a good pair and a CA
\* stay in the Secret of a bootstrapped collector, it listens for good and
\* presents that pair, also if it was started too early or crashed.
StoredCertIsServed ==
    <>[]Installed => <>[](ready /\ cached # NoCert /\ pairs[cached] = secret.cert)

================================================================================
