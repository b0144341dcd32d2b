------------------------------- MODULE Enrolment -------------------------------
(***************************************************************************)
(* Enrolment and certificate rotation (internal/auth/flows.go,             *)
(* secret_store.go, keypair.go): the bootstrap init containers and the     *)
(* renewal jobs that share one store and one one-time token.  The store is *)
(* a Kubernetes Secret (SecretStore) or, outside a cluster, a directory    *)
(* (FilePersister).                                                        *)
(*                                                                         *)
(* Each run of a container is a job, with the calls of the Kubernetes API  *)
(* and of the brain as separate steps; jobs overlap (surging rollouts,     *)
(* several replicas, a manual job beside the CronJob) and may fail or be   *)
(* killed anywhere.  A job makes one key pair, so cert and key are named   *)
(* by the job they were made for.  What a run keeps in local variables is  *)
(* forgotten when it ends.  The brain, the Kubernetes API and the          *)
(* operators are external.                                                 *)
(***************************************************************************)
EXTENDS Integers, FiniteSets

CONSTANTS
    Boots,          \* runs of the bootstrap container
    Renews,         \* runs of the renewal container, scheduled or manual
    None,           \* an empty field
    Bad,            \* a cert that does not parse
    Backends,       \* what newPersister may have chosen: "secret", "file"
    RenewBeforeOn,  \* RENEW_BEFORE > 0
    MaxOps          \* bound: interventions of operators

Jobs == Boots \cup Renews

ASSUME EnrolmentAssumption ==
    /\ Boots \cap Renews = {}
    /\ None \notin Jobs /\ Bad \notin Jobs /\ None # Bad
    /\ Backends \subseteq {"secret", "file"}
    /\ RenewBeforeOn \in BOOLEAN
    /\ MaxOps \in Nat

VARIABLES
    backend,    \* the persister of all runs
    secret,     \* the store: [rv, cert, key, ca]; rv = 0: there is none
    lastRv,     \* the last resourceVersion given out
    tokenUsed,  \* the brain has accepted the bootstrap token
    issued,     \* jobs whose CSR the brain has signed
    age,        \* [Jobs -> {"fresh", "due", "expired"}] of the cert issued
    wire,       \* requests on their way to the brain: [job, cred]
    replies,    \* answers on their way: [job, cert, ca]; cert = None: refused
    pc,         \* where a job is
    read,       \* the store as a job last read it
    answer,     \* [cert, ca]: what the brain sent it
    enrolled,   \* history: bootstraps that began with a pair stored, still there
    ops         \* interventions so far

brainVars == <<tokenUsed, issued, wire, replies>>
vars == <<backend, secret, lastRv, brainVars, age, pc, read, answer, enrolled, ops>>

\* A Secret, or a directory, with this in it.
Object(rv, cert, key, ca) == [rv |-> rv, cert |-> cert, key |-> key, ca |-> ca]

NoSecret == [rv |-> 0, cert |-> None, key |-> None, ca |-> None]

HasPair(s) == s.cert # None /\ s.key # None

NoAnswer == [cert |-> None, ca |-> None]

PCs == {"new", "start", "token", "read", "readkey", "check", "pair", "wait", "write",
        "update", "create", "writekey", "writeca", "ok", "failed"}

Writing == {"write", "update", "create", "writekey", "writeca"}

Ended(j) == pc[j] \in {"ok", "failed"}

Secrets == [rv : Nat, cert : Jobs \cup {None, Bad}, key : Jobs \cup {None},
            ca : {None, "ca"}]

TypeOK ==
    /\ backend \in Backends
    /\ secret \in Secrets
    /\ lastRv \in Nat
    /\ tokenUsed \in BOOLEAN
    /\ issued \subseteq Jobs
    /\ age \in [Jobs -> {"fresh", "due", "expired"}]
    /\ wire \subseteq [job : Jobs, cred : Jobs \cup {None}]
    /\ replies \subseteq [job : Jobs, cert : Jobs \cup {None}, ca : {None, "ca"}]
    /\ pc \in [Jobs -> PCs]
    /\ read \in [Jobs -> Secrets]
    /\ answer \in [Jobs -> [cert : Jobs \cup {None}, ca : {None, "ca"}]]
    /\ \A j \in Jobs : pc[j] \in Writing => answer[j].cert \in Jobs
    /\ enrolled \subseteq Boots
    /\ ops \in 0..MaxOps

\* There is no Secret, or one that somebody has made beforehand, without a pair.
Init ==
    /\ backend \in Backends
    /\ secret \in {NoSecret} \cup
                  {Object(1, None, None, ca) : ca \in {None, "ca"}}
    /\ lastRv = secret.rv
    /\ tokenUsed = FALSE
    /\ issued = {}
    /\ age = [j \in Jobs |-> "fresh"]
    /\ wire = {}
    /\ replies = {}
    /\ pc = [j \in Jobs |-> "new"]
    /\ read = [j \in Jobs |-> NoSecret]
    /\ answer = [j \in Jobs |-> NoAnswer]
    /\ enrolled = {}
    /\ ops = 0

GoTo(j, label) == pc' = [pc EXCEPT ![j] = label]

\* Run returns, or its container dies: nobody waits for an answer any more.
End(j, how) ==
    /\ GoTo(j, how)
    /\ read' = [read EXCEPT ![j] = NoSecret]
    /\ answer' = [answer EXCEPT ![j] = NoAnswer]
    /\ replies' = {r \in replies : r.job # j}

-----------------------------------------------------------------------------
(* The two flows *)

\* A container starts: runBootstrap or runRenew, up to the flow's first call.
Begin(j) ==
    /\ pc[j] = "new"
    /\ GoTo(j, "start")
    /\ enrolled' = IF j \in Boots /\ HasPair(secret) THEN enrolled \cup {j} ELSE enrolled
    /\ UNCHANGED <<backend, secret, lastRv, brainVars, age, read, answer, ops>>

\* Mutant: an API error counts as "no cert there".
ExistsOrError(j) ==
    /\ pc[j] = "start"
    /\ \/ GoTo(j, IF j \in Boots THEN IF HasPair(secret) THEN "ok" ELSE "token"
                                 ELSE IF HasPair(secret) THEN "read" ELSE "failed")
       \/ GoTo(j, IF j \in Boots THEN "token" ELSE "failed")
    /\ UNCHANGED <<backend, secret, lastRv, brainVars, age, read, answer, enrolled, ops>>

\* Mutant: any Secret will do.
ExistsEmpty(j) ==
    /\ pc[j] = "start"
    /\ GoTo(j, IF j \in Boots THEN IF secret.rv # 0 THEN "ok" ELSE "token"
                              ELSE IF HasPair(secret) THEN "read" ELSE "failed")
    /\ UNCHANGED <<backend, secret, lastRv, brainVars, age, read, answer, enrolled, ops>>

\* Persister.Exists: a bootstrap has nothing to do if there is a pair, a
\* renewal fails if there is none.  (The two stats of FilePersister are one
\* step: only an operator makes a file disappear between them.)
Exists(j) ==
    /\ pc[j] = "start"
    /\ GoTo(j, IF j \in Boots THEN IF HasPair(secret) THEN "ok" ELSE "token"
                              ELSE IF HasPair(secret) THEN "read" ELSE "failed")
    /\ UNCHANGED <<backend, secret, lastRv, brainVars, age, read, answer, enrolled, ops>>

\* The request of j goes to the brain.
Call(j) ==
    /\ GoTo(j, "wait")
    /\ wire' = wire \cup {[job |-> j, cred |-> read[j].cert]}
    /\ UNCHANGED <<backend, secret, lastRv, tokenUsed, issued, replies, age, read, answer,
                   enrolled, ops>>

\* BootstrapFlow: token read, key pair made, CSR and token sent.
Present(j) == pc[j] = "token" /\ Call(j)

\* RenewFlow: Persister.Read.  SecretStore makes a second Get ...
Read(j) ==
    /\ pc[j] = "read"
    /\ backend = "secret"
    /\ \/ /\ secret.rv # 0
          /\ read' = [read EXCEPT ![j] = secret]
          /\ GoTo(j, "check")
          /\ UNCHANGED <<answer, replies>>
       \/ secret.rv = 0 /\ End(j, "failed")
    /\ UNCHANGED <<backend, secret, lastRv, tokenUsed, issued, wire, age, enrolled, ops>>

\* ... and FilePersister reads one file after the other: the cert ...
ReadCert(j) ==
    /\ pc[j] = "read"
    /\ backend = "file"
    /\ \/ /\ secret.cert # None
          /\ read' = [read EXCEPT ![j].cert = secret.cert]
          /\ GoTo(j, "readkey")
          /\ UNCHANGED <<answer, replies>>
       \/ secret.cert = None /\ End(j, "failed")
    /\ UNCHANGED <<backend, secret, lastRv, tokenUsed, issued, wire, age, enrolled, ops>>

\* ... and the key.  (The CA it reads last is not used: VENDOR_CA_FILE is
\* never empty.)
ReadKey(j) ==
    /\ pc[j] = "readkey"
    /\ \/ /\ secret.key # None
          /\ read' = [read EXCEPT ![j].key = secret.key]
          /\ GoTo(j, "check")
          /\ UNCHANGED <<answer, replies>>
       \/ secret.key = None /\ End(j, "failed")
    /\ UNCHANGED <<backend, secret, lastRv, tokenUsed, issued, wire, age, enrolled, ops>>

\* A cert that still has more than RenewBefore to live ends the run; one that
\* does not parse does not.
Check(j) ==
    /\ pc[j] = "check"
    /\ \/ /\ RenewBeforeOn /\ read[j].cert \in Jobs /\ age[read[j].cert] = "fresh"
          /\ End(j, "ok")
       \/ /\ ~(RenewBeforeOn /\ read[j].cert \in Jobs /\ age[read[j].cert] = "fresh")
          /\ GoTo(j, "pair")
          /\ UNCHANGED <<read, answer, replies>>
    /\ UNCHANGED <<backend, secret, lastRv, tokenUsed, issued, wire, age, enrolled, ops>>

\* tls.X509KeyPair must accept what was read; then the CSR is sent under it.
KeyPair(j) ==
    /\ pc[j] = "pair"
    /\ \/ /\ read[j].cert \in Jobs /\ read[j].cert = read[j].key
          /\ Call(j)
       \/ /\ ~(read[j].cert \in Jobs /\ read[j].cert = read[j].key)
          /\ End(j, "failed")
          /\ UNCHANGED <<backend, secret, lastRv, tokenUsed, issued, wire, age,
                         enrolled, ops>>

\* Mutant: an empty certificate is taken as it is.
AnswerUnchecked(j) ==
    /\ pc[j] = "wait"
    /\ \E r \in replies :
          /\ r.job = j
          /\ answer' = [answer EXCEPT ![j] = [cert |-> r.cert, ca |-> r.ca]]
          /\ GoTo(j, "write")
    /\ UNCHANGED <<backend, secret, lastRv, brainVars, age, read, enrolled, ops>>

\* The brain's answer arrives; an empty certificate is an error.
Answer(j) ==
    /\ pc[j] = "wait"
    /\ \E r \in replies :
          /\ r.job = j
          /\ \/ /\ r.cert # None
                /\ answer' = [answer EXCEPT ![j] = [cert |-> r.cert, ca |-> r.ca]]
                /\ GoTo(j, "write")
                /\ UNCHANGED <<read, replies>>
             \/ r.cert = None /\ End(j, "failed")
    /\ UNCHANGED <<backend, secret, lastRv, tokenUsed, issued, wire, age, enrolled, ops>>

-----------------------------------------------------------------------------
(* SecretStore.Write *)

\* The Get.
WriteGet(j) ==
    /\ pc[j] = "write"
    /\ backend = "secret"
    /\ read' = [read EXCEPT ![j] = secret]
    /\ GoTo(j, IF secret.rv = 0 THEN "create" ELSE "update")
    /\ UNCHANGED <<backend, secret, lastRv, brainVars, age, answer, enrolled, ops>>

\* Mutant: a renewal stores the new cert beside the old key.
MaterialOldKey(j) ==
    [rv |-> lastRv + 1, cert |-> answer[j].cert,
     key |-> IF read[j].key = None THEN j ELSE read[j].key,
     ca |-> IF answer[j].ca # None THEN answer[j].ca ELSE read[j].ca]

\* What j writes over the Secret it got; an empty CA keeps the stored one.
Material(j) ==
    [rv |-> lastRv + 1, cert |-> answer[j].cert, key |-> j,
     ca |-> IF answer[j].ca # None THEN answer[j].ca ELSE read[j].ca]

\* The API server stores the object.  The caller may still see an error, when
\* the answer is lost.
Stored(j) ==
    /\ secret' = Material(j)
    /\ lastRv' = lastRv + 1
    /\ End(j, "ok") \/ End(j, "failed")

NotStored(j) == End(j, "failed") /\ UNCHANGED <<secret, lastRv>>

\* Mutant: no resourceVersion, the last write wins.
UpdateBlind(j) ==
    /\ pc[j] = "update"
    /\ IF secret.rv # 0 THEN Stored(j) ELSE NotStored(j)
    /\ UNCHANGED <<backend, tokenUsed, issued, wire, age, enrolled, ops>>

\* The Update, refused with a conflict if the object is no longer the one j
\* got (Update sends the resourceVersion back).
Update(j) ==
    /\ pc[j] = "update"
    /\ IF secret.rv = read[j].rv THEN Stored(j) ELSE NotStored(j)
    /\ UNCHANGED <<backend, tokenUsed, issued, wire, age, enrolled, ops>>

\* The Create, refused if there is an object by now.
Create(j) ==
    /\ pc[j] = "create"
    /\ IF secret.rv = 0 THEN Stored(j) ELSE NotStored(j)
    /\ UNCHANGED <<backend, tokenUsed, issued, wire, age, enrolled, ops>>

-----------------------------------------------------------------------------
(* FilePersister.Write, which is WriteMaterial: a rename per file *)

WriteCert(j) ==
    /\ pc[j] = "write"
    /\ backend = "file"
    /\ secret' = Object(1, answer[j].cert, secret.key, secret.ca)
    /\ GoTo(j, "writekey")
    /\ UNCHANGED <<backend, lastRv, brainVars, age, read, answer, enrolled, ops>>

WriteKey(j) ==
    /\ pc[j] = "writekey"
    /\ secret' = Object(1, secret.cert, j, secret.ca)
    /\ \/ /\ answer[j].ca # None
          /\ GoTo(j, "writeca")
          /\ UNCHANGED <<read, answer, replies>>
       \/ answer[j].ca = None /\ End(j, "ok")
    /\ UNCHANGED <<backend, lastRv, tokenUsed, issued, wire, age, enrolled, ops>>

WriteCA(j) ==
    /\ pc[j] = "writeca"
    /\ secret' = Object(1, secret.cert, secret.key, answer[j].ca)
    /\ End(j, "ok")
    /\ UNCHANGED <<backend, lastRv, tokenUsed, issued, wire, age, enrolled, ops>>

\* Any other error ends the run, as does the death of its container.  What it
\* sent stays on its way.
Fails(j) ==
    /\ ~Ended(j) /\ pc[j] # "new"
    /\ End(j, "failed")
    /\ UNCHANGED <<backend, secret, lastRv, tokenUsed, issued, wire, age, enrolled, ops>>

-----------------------------------------------------------------------------
(* The brain and the operators (external) *)

\* The answer to a run that still waits for one.
Reply(j, cert, ca) ==
    replies' = IF pc[j] = "wait"
               THEN replies \cup {[job |-> j, cert |-> cert, ca |-> ca]}
               ELSE replies

\* The token is good once, a renewal needs a live cert of ours; the CA is sent
\* along or not.
BrainSigns(m) ==
    /\ m \in wire
    /\ IF m.job \in Boots THEN ~tokenUsed ELSE age[m.cred] # "expired"
    /\ wire' = wire \ {m}
    /\ tokenUsed' = (tokenUsed \/ m.job \in Boots)
    /\ issued' = issued \cup {m.job}
    /\ \E ca \in {None, "ca"} : Reply(m.job, m.job, ca)
    /\ UNCHANGED <<backend, secret, lastRv, age, pc, read, answer, enrolled, ops>>

\* Refused, failed, or lost (the reply is then never read).
BrainRefuses(m) ==
    /\ m \in wire
    /\ wire' = wire \ {m}
    /\ Reply(m.job, None, None)
    /\ UNCHANGED <<backend, secret, lastRv, tokenUsed, issued, age, pc, read, answer,
                   enrolled, ops>>

\* Certs grow old, but not during the 30 seconds of the run that asked.
Age(j) ==
    /\ j \in issued
    /\ Ended(j)
    /\ age[j] # "expired"
    /\ age' = [age EXCEPT ![j] = IF @ = "fresh" THEN "due" ELSE "expired"]
    /\ UNCHANGED <<backend, secret, lastRv, brainVars, pc, read, answer, enrolled, ops>>

\* The stored cert is damaged.
Corrupt ==
    /\ ops < MaxOps
    /\ HasPair(secret)
    /\ ops' = ops + 1
    /\ secret' = Object(lastRv + 1, Bad, secret.key, secret.ca)
    /\ lastRv' = lastRv + 1
    /\ UNCHANGED <<backend, brainVars, age, pc, read, answer, enrolled>>

\* The operator forces a fresh enrolment: the Secret, or the files, are deleted
\* and the vendor publishes a new token.
Reenrol ==
    /\ ops < MaxOps
    /\ secret.rv # 0
    /\ ops' = ops + 1
    /\ secret' = NoSecret
    /\ tokenUsed' = FALSE
    /\ enrolled' = {}
    /\ UNCHANGED <<backend, lastRv, issued, wire, replies, age, pc, read, answer>>

\* A fresh token is published for a cluster that has spent its own.
NewToken ==
    /\ ops < MaxOps
    /\ tokenUsed
    /\ ops' = ops + 1
    /\ tokenUsed' = FALSE
    /\ UNCHANGED <<backend, secret, lastRv, issued, wire, replies, age, pc, read, answer,
                   enrolled>>

Job(j) ==
    \/ Begin(j) \/ Exists(j) \/ (j \in Boots /\ Present(j))
    \/ Read(j) \/ ReadCert(j) \/ ReadKey(j) \/ Check(j) \/ KeyPair(j)
    \/ Answer(j) \/ WriteGet(j) \/ Update(j) \/ Create(j)
    \/ WriteCert(j) \/ WriteKey(j) \/ WriteCA(j)
    \/ Fails(j)

External ==
    \/ \E m \in wire : BrainSigns(m) \/ BrainRefuses(m)
    \/ \E j \in Jobs : Age(j)
    \/ Corrupt \/ Reenrol \/ NewToken

Next == (\E j \in Jobs : Job(j)) \/ External

Spec == Init /\ [][Next]_vars

-----------------------------------------------------------------------------
(* Properties *)

\* Whatever bootstraps, renewals and failures interleave, the stored cert and
\* key belong together and the brain has signed them: no reader of the Secret
\* ever mounts half of one run's material and half of another's.  (Files are
\* renamed one by one and make no such promise.)
StoredPairMatches ==
    backend = "secret" /\ HasPair(secret) /\ secret.cert # Bad =>
        /\ secret.cert \in issued
        /\ secret.key = secret.cert

\* "an empty ca keeps the previously stored CA" (Write): a stored CA is never
\* lost to a write, also when the CA was stored between the Get and the Update
\* of a run that knows none.
CANeverLost ==
    [][secret.ca # None /\ secret'.rv # 0 => secret'.ca # None]_vars

\* "re-running bootstrap after a pod restart must NOT burn a fresh token if
\* the cert is already there" (Exists): the token the brain accepts is never
\* that of a bootstrap which began with a pair in the store, though the check
\* comes later and other runs write between start, check and call.
TokenSparedWhenEnrolled ==
    [][~tokenUsed /\ tokenUsed' => enrolled \cap (issued' \ issued) = {}]_vars

\* A run that exits 0 leaves a pair behind, so the collector container that
\* starts after a bootstrap finds its material, unless an operator deletes the
\* first file before the second is written; and no failed, refused or killed
\* run takes the stored pair away.
PairOnceStoredStays ==
    [][/\ \A j \in Jobs :
             ~Ended(j) /\ pc'[j] = "ok" =>
                \/ HasPair(secret') \/ HasPair(read[j])
                \/ backend = "file" /\ ops > 0
       /\ (HasPair(secret) /\ secret'.rv # 0 => HasPair(secret'))]_vars

\* "Malformed cert PEM in the Secret is now treated as fail-open: the renew
\* flow logs a warning and proceeds to rotate" (CHANGELOG 0.9.0): a renewal
\* that read a malformed cert asks the brain for a new one.
MalformedIsRotated ==
    [][\A j \in Renews :
          KeyPair(j) /\ read[j].cert = Bad => \E m \in wire' : m.job = j]_vars

================================================================================
