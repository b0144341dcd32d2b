---------------------------- MODULE LifecycleProofs ----------------------------
(***************************************************************************)
(* Proofs about enrolment and renewal (Spec, of Enrolment) for any number  *)
(* of bootstraps and renewals that overlap, fail and die, on either        *)
(* persister; from these, about the whole life of a certificate            *)
(* (LifeSpec) for any number of handshakes, rotations and crashes too; and *)
(* that it does not expire (RunwaySpec), for every lifetime, threshold and *)
(* schedule.                                                               *)
(***************************************************************************)
EXTENDS Lifecycle, Runway, TLAPS

(***************************************************************************)
(* The inductive invariant of enrolment.  StoredPairMatches needs every    *)
(* answer to carry the cert of the run it is for.  CANeverLost needs the   *)
(* resourceVersion of an Update to stand for the content of the Secret     *)
(* that was read.  PairOnceStoredStays needs a pair to survive between the *)
(* Exists and the Read of a run.                                           *)
(***************************************************************************)

\* An answer carries the cert signed for the run that asked.
AnswersOwn ==
    \A r \in replies : r.cert # None => r.cert = r.job /\ r.job \in issued

\* What the place of a run says about its local variables.
Locals ==
    \A j \in Jobs :
        /\ pc[j] \in {"new", "start", "token"} => read[j] = NoSecret
        /\ pc[j] \in {"readkey", "writekey", "writeca"} => backend = "file"
        /\ pc[j] \in {"update", "create"} => backend = "secret"
        /\ pc[j] \in Writing => answer[j].cert = j /\ j \in issued
        /\ pc[j] = "writeca" => answer[j].ca # None
        /\ pc[j] = "readkey" => read[j].cert # None
        /\ pc[j] = "check" => HasPair(read[j])

\* A resourceVersion is given out once and stands for one content.
Versioned ==
    /\ secret.rv = 0 => secret = NoSecret
    /\ backend = "secret" => secret.rv <= lastRv
    /\ backend = "secret" => \A j \in Jobs : read[j].rv <= lastRv
    /\ \A j \in Jobs : pc[j] = "update" =>
          read[j].rv # 0 /\ (read[j].rv = secret.rv => read[j] = secret)

\* A pair a run relies on is there, unless an operator has removed it.
PairKept ==
    \A j \in Jobs :
        /\ pc[j] = "read" /\ backend = "secret" /\ secret.rv # 0 => HasPair(secret)
        /\ pc[j] \in {"writekey", "writeca"} /\ ops = 0 => secret.cert # None
        /\ pc[j] = "writeca" /\ ops = 0 => secret.key # None

\* A bootstrap that began with a pair in the store, which is still there, has
\* come no further than its check and has nothing on its way to the brain.
Spared ==
    /\ enrolled # {} => HasPair(secret)
    /\ \A j \in enrolled : pc[j] \in {"start", "ok", "failed"}
    /\ \A m \in wire : m.job \notin enrolled /\ pc[m.job] # "new"

IInv ==
    /\ TypeOK
    /\ AnswersOwn
    /\ Locals
    /\ Versioned
    /\ PairKept
    /\ Spared
    /\ StoredPairMatches

-----------------------------------------------------------------------------

\* None and Bad are no jobs.
LEMMA JobsAreJobs == None \notin Jobs /\ Bad \notin Jobs /\ None # Bad /\ Boots \subseteq Jobs
BY EnrolmentAssumption DEF Jobs

\* The empty Secret is a Secret without a pair.
LEMMA NoSecretType == NoSecret \in Secrets /\ NoAnswer.cert = None /\ ~HasPair(NoSecret)
BY DEF NoSecret, Secrets, NoAnswer, HasPair

\* Run returns or dies, with the store as it is.
LEMMA EndStep ==
    ASSUME IInv, NEW j \in Jobs, NEW how \in {"ok", "failed"},
           ~Ended(j), End(j, how),
           UNCHANGED <<backend, secret, lastRv, tokenUsed, issued, wire, age, enrolled, ops>>
    PROVE  IInv'
<1>1. /\ pc' = [pc EXCEPT ![j] = how]
      /\ read' = [read EXCEPT ![j] = NoSecret]
      /\ answer' = [answer EXCEPT ![j] = NoAnswer]
      /\ replies' \subseteq replies
  BY DEF End, GoTo
<1>2. TypeOK'
  BY <1>1, NoSecretType DEF IInv, TypeOK, PCs, Writing, NoAnswer
<1>3. (AnswersOwn /\ Locals)'
  BY <1>1 DEF IInv, TypeOK, AnswersOwn, Locals, Writing, HasPair
<1>4. (Versioned /\ PairKept)'
  BY <1>1 DEF IInv, TypeOK, Versioned, PairKept, NoSecret, Secrets, HasPair
<1>5. (Spared /\ StoredPairMatches)'
  BY <1>1 DEF IInv, TypeOK, Spared, StoredPairMatches, HasPair
<1> QED
  BY <1>2, <1>3, <1>4, <1>5 DEF IInv

\* A container starts.
LEMMA BeginStep == ASSUME IInv, NEW j \in Jobs, Begin(j) PROVE IInv'
<1>1. /\ pc[j] = "new"
      /\ pc' = [pc EXCEPT ![j] = "start"]
      /\ enrolled' \in {enrolled, enrolled \cup {j}}
      /\ enrolled' # enrolled => j \in Boots /\ HasPair(secret)
      /\ UNCHANGED <<backend, secret, lastRv, brainVars, age, read, answer, ops>>
  BY DEF Begin, GoTo
<1>2. TypeOK'
  BY <1>1 DEF IInv, TypeOK, PCs, Writing, brainVars
<1>3. (AnswersOwn /\ Locals)'
  BY <1>1 DEF IInv, TypeOK, AnswersOwn, Locals, Writing, HasPair, brainVars
<1>4. (Versioned /\ PairKept)'
  BY <1>1 DEF IInv, TypeOK, Versioned, PairKept, HasPair
<1>5. (Spared /\ StoredPairMatches)'
  BY <1>1, JobsAreJobs DEF IInv, TypeOK, Spared, StoredPairMatches, HasPair, brainVars
<1> QED
  BY <1>2, <1>3, <1>4, <1>5 DEF IInv

\* A bootstrap finds a pair, a renewal none, or the run goes on.
LEMMA ExistsStep == ASSUME IInv, NEW j \in Jobs, Exists(j) PROVE IInv'
<1>1. /\ pc[j] = "start"
      /\ pc' \in {[pc EXCEPT ![j] = l] : l \in {"ok", "token", "read", "failed"}}
      /\ pc'[j] = "read" => HasPair(secret)
      /\ pc'[j] = "token" => j \in Boots /\ ~HasPair(secret)
      /\ j \in Boots /\ HasPair(secret) => pc'[j] = "ok"
      /\ UNCHANGED <<backend, secret, lastRv, brainVars, age, read, answer, enrolled, ops>>
  BY DEF IInv, TypeOK, Exists, GoTo
<1>2. PICK l \in {"ok", "token", "read", "failed"} : pc' = [pc EXCEPT ![j] = l]
  BY <1>1
<1>3. TypeOK'
  BY <1>1, <1>2 DEF IInv, TypeOK, PCs, Writing, brainVars
<1>4. (AnswersOwn /\ Locals)'
  BY <1>1, <1>2 DEF IInv, TypeOK, AnswersOwn, Locals, Writing, HasPair, brainVars
<1>5. (Versioned /\ PairKept)'
  BY <1>1, <1>2 DEF IInv, TypeOK, Versioned, PairKept, HasPair
<1>6. (Spared /\ StoredPairMatches)'
  BY <1>1, <1>2
  DEF IInv, TypeOK, Locals, Spared, StoredPairMatches, HasPair, brainVars
<1> QED
  BY <1>3, <1>4, <1>5, <1>6 DEF IInv

\* A run sends its CSR.
LEMMA CallStep ==
    ASSUME IInv, NEW j \in Jobs, Call(j),
           \/ j \in Boots /\ pc[j] = "token"
           \/ pc[j] = "pair" /\ read[j].cert \in Jobs
    PROVE  IInv'
<1>1. /\ pc' = [pc EXCEPT ![j] = "wait"]
      /\ wire' = wire \cup {[job |-> j, cred |-> read[j].cert]}
      /\ UNCHANGED <<backend, secret, lastRv, tokenUsed, issued, replies, age, read,
                     answer, enrolled, ops>>
  BY DEF Call, GoTo
<1>2. read[j].cert \in Jobs \cup {None}
  BY DEF IInv, Locals, NoSecret
<1>3. TypeOK'
  BY <1>1, <1>2 DEF IInv, TypeOK, PCs, Writing
<1>4. (AnswersOwn /\ Locals)'
  BY <1>1 DEF IInv, TypeOK, AnswersOwn, Locals, Writing, HasPair
<1>5. (Versioned /\ PairKept)'
  BY <1>1 DEF IInv, TypeOK, Versioned, PairKept, HasPair
<1>6. (Spared /\ StoredPairMatches)'
  BY <1>1 DEF IInv, TypeOK, Spared, StoredPairMatches, HasPair
<1> QED
  BY <1>3, <1>4, <1>5, <1>6 DEF IInv

\* A bootstrap presents its token.
LEMMA PresentStep == ASSUME IInv, NEW j \in Boots, Present(j) PROVE IInv'
BY CallStep, JobsAreJobs DEF Present

\* SecretStore.Read: a Secret that had a pair has one, if it is there at all.
LEMMA ReadStep == ASSUME IInv, NEW j \in Jobs, Read(j) PROVE IInv'
<1>1. CASE End(j, "failed")
  BY <1>1, EndStep DEF Read, Ended
<1>2. CASE ~End(j, "failed")
  <2>1. /\ pc[j] = "read" /\ backend = "secret" /\ secret.rv # 0
        /\ read' = [read EXCEPT ![j] = secret]
        /\ pc' = [pc EXCEPT ![j] = "check"]
        /\ UNCHANGED <<backend, secret, lastRv, tokenUsed, issued, wire, age, enrolled, ops, answer, replies>>
    BY <1>2 DEF Read, GoTo
  <2>2. HasPair(secret)
    BY <2>1 DEF IInv, PairKept
  <2>3. TypeOK'
    BY <2>1 DEF IInv, TypeOK, PCs, Writing
  <2>4. (AnswersOwn /\ Locals)'
    BY <2>1, <2>2 DEF IInv, TypeOK, AnswersOwn, Locals, Writing, HasPair
  <2>5. (Versioned /\ PairKept)'
    BY <2>1 DEF IInv, TypeOK, Versioned, PairKept, HasPair
  <2>6. (Spared /\ StoredPairMatches)'
    BY <2>1 DEF IInv, TypeOK, Spared, StoredPairMatches, HasPair
  <2> QED
    BY <2>3, <2>4, <2>5, <2>6 DEF IInv
<1> QED
  BY <1>1, <1>2

\* FilePersister.Read, the cert.
LEMMA ReadCertStep == ASSUME IInv, NEW j \in Jobs, ReadCert(j) PROVE IInv'
<1>1. CASE End(j, "failed")
  BY <1>1, EndStep DEF ReadCert, Ended
<1>2. CASE ~End(j, "failed")
  <2>1. /\ pc[j] = "read" /\ backend = "file" /\ secret.cert # None
        /\ read' = [read EXCEPT ![j].cert = secret.cert]
        /\ pc' = [pc EXCEPT ![j] = "readkey"]
        /\ UNCHANGED <<backend, secret, lastRv, tokenUsed, issued, wire, age, enrolled, ops, answer, replies>>
    BY <1>2 DEF ReadCert, GoTo
  <2>2. TypeOK'
    BY <2>1 DEF IInv, TypeOK, PCs, Writing, Secrets
  <2>3. (AnswersOwn /\ Locals)'
    BY <2>1 DEF IInv, TypeOK, AnswersOwn, Locals, Writing, HasPair, Secrets
  <2>4. (Versioned /\ PairKept)'
    BY <2>1 DEF IInv, TypeOK, Versioned, PairKept, HasPair
  <2>5. (Spared /\ StoredPairMatches)'
    BY <2>1 DEF IInv, TypeOK, Spared, StoredPairMatches, HasPair
  <2> QED
    BY <2>2, <2>3, <2>4, <2>5 DEF IInv
<1> QED
  BY <1>1, <1>2

\* FilePersister.Read, the key.
LEMMA ReadKeyStep == ASSUME IInv, NEW j \in Jobs, ReadKey(j) PROVE IInv'
<1>1. CASE End(j, "failed")
  BY <1>1, EndStep DEF ReadKey, Ended
<1>2. CASE ~End(j, "failed")
  <2>1. /\ pc[j] = "readkey" /\ secret.key # None
        /\ read' = [read EXCEPT ![j].key = secret.key]
        /\ pc' = [pc EXCEPT ![j] = "check"]
        /\ UNCHANGED <<backend, secret, lastRv, tokenUsed, issued, wire, age, enrolled, ops, answer, replies>>
    BY <1>2 DEF ReadKey, GoTo
  <2>2. TypeOK' /\ backend = "file"
    BY <2>1 DEF IInv, TypeOK, PCs, Writing, Secrets, Locals
  <2>3. (AnswersOwn /\ Locals)'
    BY <2>1 DEF IInv, TypeOK, AnswersOwn, Locals, Writing, HasPair, Secrets
  <2>4. (Versioned /\ PairKept)'
    BY <2>1, <2>2 DEF IInv, TypeOK, Versioned, PairKept, HasPair
  <2>5. (Spared /\ StoredPairMatches)'
    BY <2>1 DEF IInv, TypeOK, Spared, StoredPairMatches, HasPair
  <2> QED
    BY <2>2, <2>3, <2>4, <2>5 DEF IInv
<1> QED
  BY <1>1, <1>2

\* The RENEW_BEFORE decision.
LEMMA CheckStep == ASSUME IInv, NEW j \in Jobs, Check(j) PROVE IInv'
<1>1. CASE End(j, "ok")
  BY <1>1, EndStep DEF Check, Ended
<1>2. CASE ~End(j, "ok")
  <2>1. /\ pc[j] = "check"
        /\ pc' = [pc EXCEPT ![j] = "pair"]
        /\ UNCHANGED <<backend, secret, lastRv, tokenUsed, issued, wire, age, enrolled, ops, read, answer, replies>>
    BY <1>2 DEF Check, GoTo
  <2>2. TypeOK'
    BY <2>1 DEF IInv, TypeOK, PCs, Writing
  <2>3. (AnswersOwn /\ Locals)'
    BY <2>1 DEF IInv, TypeOK, AnswersOwn, Locals, Writing, HasPair
  <2>4. (Versioned /\ PairKept)'
    BY <2>1 DEF IInv, TypeOK, Versioned, PairKept, HasPair
  <2>5. (Spared /\ StoredPairMatches)'
    BY <2>1 DEF IInv, TypeOK, Spared, StoredPairMatches, HasPair
  <2> QED
    BY <2>2, <2>3, <2>4, <2>5 DEF IInv
<1> QED
  BY <1>1, <1>2

\* tls.X509KeyPair, and the CSR.
LEMMA KeyPairStep == ASSUME IInv, NEW j \in Jobs, KeyPair(j) PROVE IInv'
<1>1. CASE Call(j) /\ read[j].cert \in Jobs
  BY <1>1, CallStep DEF KeyPair
<1>2. CASE ~(Call(j) /\ read[j].cert \in Jobs)
  BY <1>2, EndStep DEF KeyPair, Ended
<1> QED
  BY <1>1, <1>2

\* The brain's answer.
LEMMA AnswerStep == ASSUME IInv, NEW j \in Jobs, Answer(j) PROVE IInv'
<1>1. CASE End(j, "failed")
  BY <1>1, EndStep DEF Answer, Ended
<1>2. CASE ~End(j, "failed")
  <2>1. PICK r \in replies :
          /\ r.job = j /\ r.cert # None
          /\ answer' = [answer EXCEPT ![j] = [cert |-> r.cert, ca |-> r.ca]]
          /\ pc' = [pc EXCEPT ![j] = "write"]
    BY <1>2 DEF Answer, GoTo
  <2>2. /\ pc[j] = "wait"
        /\ UNCHANGED <<backend, secret, lastRv, tokenUsed, issued, wire, age, enrolled, ops, read, replies>>
    BY <1>2 DEF Answer
  <2>3. r.cert = j /\ j \in issued /\ r.ca \in {None, "ca"}
    BY <2>1 DEF IInv, TypeOK, AnswersOwn
  <2>4. TypeOK'
    BY <2>1, <2>2, <2>3 DEF IInv, TypeOK, PCs, Writing
  <2>5. (AnswersOwn /\ Locals)'
    BY <2>1, <2>2, <2>3 DEF IInv, TypeOK, AnswersOwn, Locals, Writing, HasPair
  <2>6. (Versioned /\ PairKept)'
    BY <2>1, <2>2 DEF IInv, TypeOK, Versioned, PairKept, HasPair
  <2>7. (Spared /\ StoredPairMatches)'
    BY <2>1, <2>2 DEF IInv, TypeOK, Spared, StoredPairMatches, HasPair
  <2> QED
    BY <2>4, <2>5, <2>6, <2>7 DEF IInv
<1> QED
  BY <1>1, <1>2

\* SecretStore.Write, the Get.
LEMMA WriteGetStep == ASSUME IInv, NEW j \in Jobs, WriteGet(j) PROVE IInv'
<1>1. /\ pc[j] = "write" /\ backend = "secret"
      /\ read' = [read EXCEPT ![j] = secret]
      /\ UNCHANGED <<backend, secret, lastRv, tokenUsed, issued, wire, replies, age,
                     answer, enrolled, ops>>
  BY DEF WriteGet, brainVars
<1>2. PICK l \in {"create", "update"} :
        pc' = [pc EXCEPT ![j] = l] /\ (l = "update" => secret.rv # 0)
  BY DEF WriteGet, GoTo
<1>3. TypeOK'
  BY <1>1, <1>2 DEF IInv, TypeOK, PCs, Writing
<1>4. (AnswersOwn /\ Locals)'
  BY <1>1, <1>2 DEF IInv, TypeOK, AnswersOwn, Locals, Writing, HasPair
<1>5. (Versioned /\ PairKept)'
  BY <1>1, <1>2 DEF IInv, TypeOK, Versioned, PairKept, HasPair
<1>6. (Spared /\ StoredPairMatches)'
  BY <1>1, <1>2 DEF IInv, TypeOK, Spared, StoredPairMatches, HasPair
<1> QED
  BY <1>3, <1>4, <1>5, <1>6 DEF IInv

\* SecretStore.Write, the Update or Create: what is stored is one run's own
\* material, under a resourceVersion that no run has read.
LEMMA StoreStep == ASSUME IInv, NEW j \in Jobs, Update(j) \/ Create(j) PROVE IInv'
<1>1. /\ pc[j] \in {"update", "create"}
      /\ Stored(j) \/ NotStored(j)
      /\ UNCHANGED <<backend, tokenUsed, issued, wire, age, enrolled, ops>>
  BY DEF Update, Create
<1>2. CASE NotStored(j)
  BY <1>1, <1>2, EndStep DEF NotStored, Ended
<1>3. CASE Stored(j)
  <2>1. PICK how \in {"ok", "failed"} : End(j, how)
    BY <1>3 DEF Stored
  <2>2. /\ pc' = [pc EXCEPT ![j] = how]
        /\ read' = [read EXCEPT ![j] = NoSecret]
        /\ answer' = [answer EXCEPT ![j] = NoAnswer]
        /\ replies' \subseteq replies
    BY <2>1 DEF End, GoTo
  <2>3. /\ secret' = [rv |-> lastRv + 1, cert |-> j, key |-> j, ca |-> secret'.ca]
        /\ secret'.ca \in {None, "ca"}
        /\ lastRv' = lastRv + 1
        /\ backend = "secret" /\ j \in issued
    BY <1>1, <1>3 DEF IInv, TypeOK, Stored, Material, Locals, Writing, Secrets
  <2>4. TypeOK'
    BY <1>1, <2>2, <2>3, NoSecretType DEF IInv, TypeOK, PCs, Writing, NoAnswer, Secrets
  <2>5. (AnswersOwn /\ Locals)'
    BY <1>1, <2>2 DEF IInv, TypeOK, AnswersOwn, Locals, Writing, HasPair
  <2>6. Versioned'
    BY <1>1, <2>2, <2>3 DEF IInv, TypeOK, Versioned, NoSecret, Secrets
  <2>7. PairKept'
    BY <1>1, <2>2, <2>3, JobsAreJobs DEF IInv, TypeOK, PairKept, HasPair
  <2>8. (Spared /\ StoredPairMatches)'
    BY <1>1, <2>2, <2>3, JobsAreJobs DEF IInv, TypeOK, Spared, StoredPairMatches, HasPair
  <2> QED
    BY <2>4, <2>5, <2>6, <2>7, <2>8 DEF IInv
<1> QED
  BY <1>1, <1>2, <1>3

\* WriteMaterial renames one of its files and goes on to the next.
LEMMA RenameStep ==
    ASSUME IInv, NEW j \in Jobs, NEW l \in {"writekey", "writeca"},
           pc[j] \in {"write", "writekey"}, backend = "file",
           pc' = [pc EXCEPT ![j] = l],
           \/ /\ pc[j] = "write" /\ l = "writekey"
              /\ secret' = Object(1, j, secret.key, secret.ca)
           \/ /\ pc[j] = "writekey" /\ l = "writeca" /\ answer[j].ca # None
              /\ secret' = Object(1, secret.cert, j, secret.ca),
           UNCHANGED <<backend, lastRv, tokenUsed, issued, wire, replies, age, read,
                       answer, enrolled, ops>>
    PROVE  IInv'
<1>1. secret \in Secrets /\ j # None
  BY JobsAreJobs DEF IInv, TypeOK
<1>2. TypeOK'
  BY <1>1 DEF IInv, TypeOK, PCs, Writing, Secrets, Object
<1>3. (AnswersOwn /\ Locals)'
  BY DEF IInv, TypeOK, AnswersOwn, Locals, Writing, HasPair
<1>4. Versioned'
  BY <1>1 DEF IInv, TypeOK, Versioned, Locals, Secrets, Object
<1>5. PairKept'
  BY <1>1 DEF IInv, TypeOK, PairKept, HasPair, Secrets, Object
<1>6. (Spared /\ StoredPairMatches)'
  BY <1>1 DEF IInv, TypeOK, Spared, StoredPairMatches, HasPair, Object, Secrets
<1> QED
  BY <1>2, <1>3, <1>4, <1>5, <1>6 DEF IInv

\* WriteMaterial renames its last file.
LEMMA LastRenameStep ==
    ASSUME IInv, NEW j \in Jobs, End(j, "ok"),
           pc[j] \in {"writekey", "writeca"},
           \/ pc[j] = "writekey" /\ secret' = Object(1, secret.cert, j, secret.ca)
           \/ /\ pc[j] = "writeca"
              /\ secret' = Object(1, secret.cert, secret.key, answer[j].ca),
           UNCHANGED <<backend, lastRv, tokenUsed, issued, wire, age, enrolled,
                       ops>>
    PROVE  IInv'
<1>1. /\ pc' = [pc EXCEPT ![j] = "ok"]
      /\ read' = [read EXCEPT ![j] = NoSecret]
      /\ answer' = [answer EXCEPT ![j] = NoAnswer]
      /\ replies' \subseteq replies
  BY DEF End, GoTo
<1>2. secret \in Secrets /\ j # None /\ backend = "file" /\ answer[j].ca \in {None, "ca"}
  BY JobsAreJobs DEF IInv, TypeOK, Locals
<1>3. TypeOK'
  BY <1>1, <1>2, NoSecretType DEF IInv, TypeOK, PCs, Writing, Secrets, NoAnswer, Object
<1>4. (AnswersOwn /\ Locals)'
  BY <1>1 DEF IInv, TypeOK, AnswersOwn, Locals, Writing, HasPair
<1>5. Versioned'
  BY <1>1, <1>2 DEF IInv, TypeOK, Versioned, Locals, Secrets, Object
<1>6. PairKept'
  BY <1>1, <1>2 DEF IInv, TypeOK, PairKept, HasPair, Secrets, Object
<1>7. (Spared /\ StoredPairMatches)'
  BY <1>1, <1>2 DEF IInv, TypeOK, Spared, StoredPairMatches, HasPair, Object, Secrets
<1> QED
  BY <1>3, <1>4, <1>5, <1>6, <1>7 DEF IInv

\* The three renames.
LEMMA FileSteps ==
    ASSUME IInv, NEW j \in Jobs, WriteCert(j) \/ WriteKey(j) \/ WriteCA(j)
    PROVE  IInv'
<1>1. CASE WriteCert(j)
  <2>1. answer[j].cert = j
    BY <1>1 DEF IInv, Locals, Writing, WriteCert
  <2> QED
    BY <1>1, <2>1, RenameStep DEF WriteCert, GoTo, brainVars
<1>2. CASE WriteKey(j)
  <2>1. backend = "file"
    BY <1>2 DEF IInv, Locals, WriteKey
  <2>2. CASE answer[j].ca # None
    BY <1>2, <2>1, <2>2, RenameStep DEF WriteKey, GoTo
  <2>3. CASE answer[j].ca = None
    BY <1>2, <2>3, LastRenameStep DEF WriteKey
  <2> QED
    BY <2>2, <2>3
<1>3. CASE WriteCA(j)
  BY <1>3, LastRenameStep DEF WriteCA
<1> QED
  BY <1>1, <1>2, <1>3

\* The brain signs or refuses a CSR.
LEMMA BrainSteps ==
    ASSUME IInv, NEW m \in wire, BrainSigns(m) \/ BrainRefuses(m)
    PROVE  IInv'
<1>1. /\ UNCHANGED <<backend, secret, lastRv, age, pc, read, answer, enrolled, ops>>
      /\ wire' = wire \ {m}
      /\ tokenUsed' \in BOOLEAN
      /\ m.job \in Jobs
      /\ issued \subseteq issued' /\ issued' \subseteq Jobs
  BY DEF IInv, TypeOK, BrainSigns, BrainRefuses
<1>2. \/ replies' = replies
      \/ \E ca \in {None, "ca"} :
            replies' = replies \cup {[job |-> m.job, cert |-> None, ca |-> ca]}
      \/ \E ca \in {None, "ca"} :
            /\ replies' = replies \cup {[job |-> m.job, cert |-> m.job, ca |-> ca]}
            /\ m.job \in issued'
  BY DEF BrainSigns, BrainRefuses, Reply
<1>3. replies' \subseteq [job : Jobs, cert : Jobs \cup {None}, ca : {None, "ca"}]
  BY <1>1, <1>2 DEF IInv, TypeOK
<1>4. TypeOK'
  BY <1>1, <1>3 DEF IInv, TypeOK
<1>5. AnswersOwn'
  BY <1>1, <1>2 DEF IInv, AnswersOwn
<1>6. Locals'
  BY <1>1 DEF IInv, Locals, HasPair
<1>7. (Versioned /\ PairKept /\ Spared /\ StoredPairMatches)'
  BY <1>1 DEF IInv, Versioned, PairKept, Spared, StoredPairMatches, HasPair
<1> QED
  BY <1>4, <1>5, <1>6, <1>7 DEF IInv

\* A cert grows older.
LEMMA AgeStep == ASSUME IInv, NEW j \in Jobs, Age(j) PROVE IInv'
<1>1. UNCHANGED <<backend, secret, lastRv, brainVars, pc, read, answer, enrolled, ops>>
  BY DEF Age
<1>2. TypeOK'
  BY DEF IInv, TypeOK, Age, brainVars
<1>3. (AnswersOwn /\ Locals /\ Versioned)'
  BY <1>1 DEF IInv, AnswersOwn, Locals, Versioned, HasPair, brainVars
<1>4. (PairKept /\ Spared /\ StoredPairMatches)'
  BY <1>1 DEF IInv, PairKept, Spared, StoredPairMatches, HasPair, brainVars
<1> QED
  BY <1>2, <1>3, <1>4 DEF IInv

\* An operator, or an accident, interferes.
LEMMA OperatorSteps == ASSUME IInv, Corrupt \/ Reenrol \/ NewToken PROVE IInv'
<1>0. ops' = ops + 1 /\ ops' \in 0..MaxOps /\ ops' # 0
  BY EnrolmentAssumption DEF IInv, TypeOK, Corrupt, Reenrol, NewToken
<1>1. /\ UNCHANGED <<backend, issued, wire, replies, age, pc, read, answer>>
      /\ \/ /\ secret' = Object(lastRv + 1, Bad, secret.key, secret.ca)
            /\ lastRv' = lastRv + 1
            /\ HasPair(secret) /\ enrolled' = enrolled
         \/ secret' = NoSecret /\ lastRv' = lastRv /\ enrolled' = {}
         \/ UNCHANGED <<secret, lastRv, enrolled>>
  BY DEF Corrupt, Reenrol, NewToken, brainVars
<1>2. secret \in Secrets /\ lastRv \in Nat
  BY DEF IInv, TypeOK
<1>2a. tokenUsed' \in BOOLEAN
  BY DEF IInv, TypeOK, Corrupt, Reenrol, NewToken, brainVars
<1>3. TypeOK'
  BY <1>0, <1>1, <1>2, <1>2a, NoSecretType DEF IInv, TypeOK, Secrets, Object
<1>4. (AnswersOwn /\ Locals)'
  BY <1>1 DEF IInv, AnswersOwn, Locals, HasPair
<1>5. Versioned'
  BY <1>1, <1>2 DEF IInv, TypeOK, Versioned, Locals, Secrets, NoSecret, Object
<1>6. PairKept'
  BY <1>0, <1>1, <1>2, JobsAreJobs DEF IInv, PairKept, HasPair, Secrets, NoSecret, Object
<1>7. StoredPairMatches'
  BY <1>1, <1>2 DEF IInv, StoredPairMatches, HasPair, Secrets, NoSecret, Object
<1>8. Spared'
  BY <1>1, <1>2, JobsAreJobs DEF IInv, Spared, HasPair, Secrets, NoSecret, Object
<1> QED
  BY <1>3, <1>4, <1>5, <1>6, <1>7, <1>8 DEF IInv

\* A run dies.
LEMMA FailsStep == ASSUME IInv, NEW j \in Jobs, Fails(j) PROVE IInv'
BY EndStep DEF Fails

\* The initial states satisfy the invariant.
LEMMA InitInv == Init => IInv
<1> SUFFICES ASSUME Init PROVE IInv
  OBVIOUS
<1>1. /\ secret \in Secrets /\ secret.cert = None /\ lastRv = secret.rv
      /\ secret.rv = 0 => secret = NoSecret
  BY DEF Init, NoSecret, Secrets, Object
<1>2. TypeOK
  <2>1. lastRv \in Nat /\ ops \in 0..MaxOps
    BY <1>1, EnrolmentAssumption DEF Init, Secrets
  <2>2. /\ read \in [Jobs -> Secrets]
        /\ answer \in [Jobs -> [cert : Jobs \cup {None}, ca : {None, "ca"}]]
    BY NoSecretType DEF Init, NoAnswer
  <2>3. pc \in [Jobs -> PCs] /\ \A j \in Jobs : pc[j] \notin Writing
    BY DEF Init, PCs, Writing
  <2> QED
    BY <1>1, <2>1, <2>2, <2>3 DEF Init, TypeOK
<1>3. AnswersOwn /\ Locals
  BY DEF Init, AnswersOwn, Locals, Writing
<1>4. Versioned
  BY <1>1 DEF Init, Versioned, NoSecret, Secrets
<1>5. PairKept /\ Spared /\ StoredPairMatches
  BY <1>1 DEF Init, PairKept, Spared, StoredPairMatches, HasPair
<1> QED
  BY <1>2, <1>3, <1>4, <1>5 DEF IInv

\* Every step, or a stuttering step, preserves the invariant.
LEMMA NextInv == IInv /\ [Next]_vars => IInv'
<1> SUFFICES ASSUME IInv, [Next]_vars PROVE IInv'
  OBVIOUS
<1>1. CASE \E j \in Jobs : Job(j)
  <2> PICK j \in Jobs : Job(j)
    BY <1>1
  <2>1. CASE Begin(j) \/ Exists(j) \/ (j \in Boots /\ Present(j)) \/ Fails(j)
    BY <2>1, BeginStep, ExistsStep, PresentStep, FailsStep
  <2>2. CASE Read(j) \/ ReadCert(j) \/ ReadKey(j) \/ Check(j) \/ KeyPair(j)
    BY <2>2, ReadStep, ReadCertStep, ReadKeyStep, CheckStep, KeyPairStep
  <2>3. CASE Answer(j) \/ WriteGet(j) \/ Update(j) \/ Create(j)
    BY <2>3, AnswerStep, WriteGetStep, StoreStep
  <2>4. CASE WriteCert(j) \/ WriteKey(j) \/ WriteCA(j)
    BY <2>4, FileSteps
  <2> QED
    BY <2>1, <2>2, <2>3, <2>4 DEF Job
<1>2. CASE External
  BY <1>2, BrainSteps, AgeStep, OperatorSteps DEF External
<1>3. CASE UNCHANGED vars
  <2>1. TypeOK' /\ AnswersOwn' /\ Locals'
    BY <1>3 DEF IInv, TypeOK, AnswersOwn, Locals, HasPair, vars, brainVars
  <2>2. (Versioned /\ PairKept /\ Spared /\ StoredPairMatches)'
    BY <1>3 DEF IInv, Versioned, PairKept, Spared, StoredPairMatches, HasPair, vars,
                brainVars
  <2> QED
    BY <2>1, <2>2 DEF IInv
<1> QED
  BY <1>1, <1>2, <1>3 DEF Next

\* The inductive invariant holds throughout.
LEMMA Invariance == Spec => []IInv
<1> QED
  BY InitInv, NextInv, PTL DEF Spec

-----------------------------------------------------------------------------

\* Store, runs and answers keep their types; in particular a run that writes
\* has been given a certificate (flows.go: "empty certificate").
THEOREM TypeCorrect == Spec => []TypeOK
<1>1. IInv => TypeOK
  BY DEF IInv
<1> QED
  BY <1>1, Invariance, PTL

\* SecretStore.Write: in the Secret, cert and key are always of one run and
\* signed by the brain, however many runs write.
THEOREM PairsMatch == Spec => []StoredPairMatches
<1>1. IInv => StoredPairMatches
  BY DEF IInv
<1> QED
  BY <1>1, Invariance, PTL

\* What was on its way and is signed is not from a bootstrap that began with a
\* pair in the store.
LEMMA SignedIsNew ==
    ASSUME IInv, [Next]_vars
    PROVE  enrolled \cap (issued' \ issued) = {}
<1>1. ASSUME NEW m \in wire, BrainSigns(m) \/ BrainRefuses(m)
      PROVE  issued' \subseteq issued \cup {m.job}
  BY <1>1 DEF BrainSigns, BrainRefuses
<1>2. ASSUME NEW j \in Jobs, Job(j) PROVE issued' = issued
  BY <1>2
  DEF Job, Begin, Exists, Present, Call, Read, ReadCert, ReadKey, Check, KeyPair, Answer,
      WriteGet, Update, Create, WriteCert, WriteKey, WriteCA, Fails, brainVars
<1>3. ASSUME (\E j \in Jobs : Age(j)) \/ Corrupt \/ Reenrol \/ NewToken PROVE issued' = issued
  BY <1>3 DEF Age, Corrupt, Reenrol, NewToken, brainVars
<1>4. CASE UNCHANGED vars
  BY <1>4 DEF vars, brainVars
<1> QED
  BY <1>1, <1>2, <1>3, <1>4 DEF IInv, Spared, Next, External

\* BootstrapFlow.Run: whatever other runs write between a bootstrap's start, its
\* check and its call, the brain spends no token on it if it began with a pair
\* in the store.
THEOREM TokenIsSpared == Spec => TokenSparedWhenEnrolled
<1>1. IInv /\ [Next]_vars =>
        [~tokenUsed /\ tokenUsed' => enrolled \cap (issued' \ issued) = {}]_vars
  BY SignedIsNew
<1> QED
  BY <1>1, Invariance, PTL DEF Spec, TokenSparedWhenEnrolled

\* A stored CA survives every write.
LEMMA CAKept ==
    ASSUME IInv, [Next]_vars, secret.ca # None, secret'.rv # 0
    PROVE  secret'.ca # None
<1>1. CASE UNCHANGED secret
  BY <1>1
<1>2. CASE \E j \in Jobs : Update(j) /\ secret' = Material(j) /\ secret.rv = read[j].rv
  BY <1>2 DEF IInv, Versioned, Update, Material
<1>3. CASE \E j \in Jobs : Create(j) /\ secret.rv = 0
  BY <1>3 DEF IInv, Versioned, NoSecret
<1>4. CASE \E j \in Jobs : WriteCert(j) \/ WriteKey(j)
  BY <1>4 DEF WriteCert, WriteKey, Object
<1>5. CASE \E j \in Jobs : WriteCA(j)
  BY <1>5 DEF IInv, Locals, WriteCA, Object
<1>6. CASE Corrupt \/ Reenrol
  BY <1>6 DEF Corrupt, Reenrol, Object, NoSecret
<1>7. ASSUME NEW j \in Jobs, Job(j)
      PROVE  \/ UNCHANGED secret
             \/ Update(j) /\ secret' = Material(j) /\ secret.rv = read[j].rv
             \/ Create(j) /\ secret.rv = 0
             \/ WriteCert(j) \/ WriteKey(j) \/ WriteCA(j)
  BY <1>7
  DEF Job, Begin, Exists, Present, Call, Read, ReadCert, ReadKey, Check, KeyPair, Answer,
      WriteGet, Update, Create, Stored, NotStored, Fails
<1>8. ASSUME External PROVE UNCHANGED secret \/ Corrupt \/ Reenrol
  BY <1>8 DEF External, BrainSigns, BrainRefuses, Age, NewToken
<1> QED
  BY <1>1, <1>2, <1>3, <1>4, <1>5, <1>6, <1>7, <1>8 DEF Next, vars

\* SecretStore.Write and WriteMaterial: a write without a CA keeps the stored
\* one, since the Secret that an Update replaces is the one the run read.
THEOREM CAIsNeverLost == Spec => CANeverLost
<1>1. IInv /\ [Next]_vars => [secret.ca # None /\ secret'.rv # 0 => secret'.ca # None]_vars
  BY CAKept
<1> QED
  BY <1>1, Invariance, PTL DEF Spec, CANeverLost

\* The run whose step ends it with exit code 0 leaves a pair, or read one.
LEMMA OkLeavesPair ==
    ASSUME IInv, NEW j \in Jobs, Job(j), ~Ended(j), pc'[j] = "ok"
    PROVE  HasPair(secret') \/ HasPair(read[j]) \/ (backend = "file" /\ ops > 0)
<1>1. pc \in [Jobs -> PCs] /\ ops \in Nat /\ j # None /\ secret \in Secrets
  BY JobsAreJobs, EnrolmentAssumption DEF IInv, TypeOK
<1>2. CASE Begin(j) \/ Exists(j)
  BY <1>1, <1>2 DEF Begin, Exists, GoTo, HasPair
<1>3. CASE Check(j)
  BY <1>3 DEF IInv, Locals, Check
<1>4. CASE Update(j) \/ Create(j)
  <2>1. CASE NotStored(j)
    BY <1>1, <2>1 DEF NotStored, End, GoTo
  <2>2. CASE Stored(j)
    BY <1>1, <1>4, <2>2
    DEF IInv, Locals, Writing, Update, Create, Stored, Material, HasPair
  <2> QED
    BY <1>4, <2>1, <2>2 DEF Update, Create
<1>5. CASE WriteKey(j) \/ WriteCA(j)
  BY <1>1, <1>5 DEF IInv, Locals, PairKept, WriteKey, WriteCA, HasPair, Object
<1>6. CASE (j \in Boots /\ Present(j)) \/ Read(j) \/ ReadCert(j) \/ ReadKey(j) \/ KeyPair(j)
  BY <1>1, <1>6 DEF Present, Call, Read, ReadCert, ReadKey, KeyPair, End, GoTo
<1>7. CASE Answer(j) \/ WriteGet(j) \/ WriteCert(j) \/ Fails(j)
  BY <1>1, <1>7 DEF Answer, WriteGet, WriteCert, Fails, End, GoTo
<1> QED
  BY <1>2, <1>3, <1>4, <1>5, <1>6, <1>7 DEF Job

\* A run changes the place of no other run.
LEMMA OwnPlace ==
    ASSUME IInv, NEW j \in Jobs, Job(j), NEW k \in Jobs, k # j
    PROVE  pc'[k] = pc[k]
<1>1. pc \in [Jobs -> PCs]
  BY DEF IInv, TypeOK
<1>2. \E l \in PCs : pc' = [pc EXCEPT ![j] = l]
  <2>1. CASE \/ Begin(j) \/ Exists(j) \/ Answer(j) \/ WriteGet(j)
             \/ WriteCert(j) \/ WriteKey(j) \/ WriteCA(j)
    BY <2>1 DEF Begin, Exists, Answer, WriteGet, WriteCert, WriteKey, WriteCA, End, GoTo, PCs
  <2>2. CASE Read(j) \/ ReadCert(j) \/ ReadKey(j) \/ Check(j) \/ Fails(j)
    BY <2>2 DEF Read, ReadCert, ReadKey, Check, Fails, End, GoTo, PCs
  <2>3. CASE (j \in Boots /\ Present(j)) \/ KeyPair(j) \/ Update(j) \/ Create(j)
    BY <2>3 DEF Present, KeyPair, Call, Update, Create, Stored, NotStored, End, GoTo, PCs
  <2> QED
    BY <2>1, <2>2, <2>3 DEF Job
<1> QED
  BY <1>1, <1>2

\* A stored pair is replaced by a pair, or deleted by an operator.
LEMMA PairReplaced ==
    ASSUME IInv, [Next]_vars, HasPair(secret), secret'.rv # 0
    PROVE  HasPair(secret')
<1>1. CASE UNCHANGED secret
  BY <1>1
<1>2. ASSUME NEW j \in Jobs, Update(j) \/ Create(j), Stored(j) PROVE HasPair(secret')
  BY <1>2, JobsAreJobs
  DEF IInv, Locals, Writing, Update, Create, Stored, Material, HasPair
<1>3. ASSUME NEW j \in Jobs, WriteCert(j) \/ WriteKey(j) \/ WriteCA(j) PROVE HasPair(secret')
  BY <1>3, JobsAreJobs
  DEF IInv, Locals, Writing, WriteCert, WriteKey, WriteCA, HasPair, Object
<1>4. CASE Corrupt \/ Reenrol
  BY <1>4, JobsAreJobs DEF Corrupt, Reenrol, HasPair, Object, NoSecret
<1>5. ASSUME NEW j \in Jobs, Job(j)
      PROVE  \/ UNCHANGED secret
             \/ (Update(j) \/ Create(j)) /\ Stored(j)
             \/ WriteCert(j) \/ WriteKey(j) \/ WriteCA(j)
  BY <1>5
  DEF Job, Begin, Exists, Present, Call, Read, ReadCert, ReadKey, Check, KeyPair, Answer,
      WriteGet, Update, Create, NotStored, Fails
<1>6. ASSUME External PROVE UNCHANGED secret \/ Corrupt \/ Reenrol
  BY <1>6 DEF External, BrainSigns, BrainRefuses, Age, NewToken
<1> QED
  BY <1>1, <1>2, <1>3, <1>4, <1>5, <1>6 DEF Next, vars

\* Both flows: a run that succeeds leaves a pair behind, and no run, whether it
\* succeeds, fails or is killed, takes a stored pair away.
THEOREM PairStays == Spec => PairOnceStoredStays
<1>1. ASSUME IInv, [Next]_vars, NEW j \in Jobs, ~Ended(j), pc'[j] = "ok"
      PROVE  HasPair(secret') \/ HasPair(read[j]) \/ (backend = "file" /\ ops > 0)
  <2>1. CASE Job(j)
    BY <1>1, <2>1, OkLeavesPair
  <2>2. ASSUME NEW k \in Jobs, Job(k), k # j PROVE FALSE
    BY <1>1, <2>2, OwnPlace DEF Ended
  <2>3. ASSUME External \/ UNCHANGED vars PROVE FALSE
    <3>1. pc' = pc
      BY <2>3 DEF External, BrainSigns, BrainRefuses, Age, Corrupt, Reenrol, NewToken, vars
    <3> QED
      BY <1>1, <3>1 DEF Ended
  <2> QED
    BY <1>1, <2>1, <2>2, <2>3 DEF Next
<1>2. IInv /\ [Next]_vars =>
        [/\ \A j \in Jobs :
               ~Ended(j) /\ pc'[j] = "ok" =>
                  \/ HasPair(secret') \/ HasPair(read[j])
                  \/ backend = "file" /\ ops > 0
         /\ (HasPair(secret) /\ secret'.rv # 0 => HasPair(secret'))]_vars
  BY <1>1, PairReplaced
<1> QED
  BY <1>2, Invariance, PTL DEF Spec, PairOnceStoredStays

-----------------------------------------------------------------------------
(***************************************************************************)
(* The life of a certificate.  PresentsIssuedPair is about what a          *)
(* handshake returned; the same has to be known of the cache, of the loads *)
(* in flight and of the key in the volume.  RestartIsSafe compares the     *)
(* volume with the Secret it was, or will be, made from: until an operator *)
(* intervenes the Secret holds whatever the volume holds.                  *)
(***************************************************************************)

\* A generation of the volume that the brain has signed.
Signed(g) == g \in 1..Len(pairs) /\ pairs[g] \in issued

\* The generations of Reloader are the certs in pairs, and the key in the volume
\* is the key of a signed one.
Generations ==
    /\ pairs \in Seq(Jobs \cup {Bad})
    /\ certGen = Len(pairs)
    /\ keyGen \in Nat /\ (keyGen # 0 => Signed(keyGen))
    /\ present => certGen # 0

\* What a process holds.
HoldsSigned ==
    /\ hpc \in [R!Procs -> R!PCs]
    /\ got \in [R!Procs -> Nat]
    /\ result \in [R!Procs -> Nat \cup {NoCert, Err}]
    /\ cached # NoCert => Signed(cached)
    /\ \A p \in R!Procs :
          /\ hpc[p] = "readkey" => got[p] # 0
          /\ hpc[p] = "store" => Signed(got[p])
          /\ result[p] \in Nat => Signed(result[p])

\* The volume is what it was when the kubelet last looked, and until an operator
\* intervenes what the Secret has only grown since.
VolumeFollows ==
    /\ persister = backend
    /\ present => backend = "secret" /\ HasPair(mounted)
    /\ ops = 0 =>
          /\ secret.cert # Bad
          /\ HasPair(mounted) => HasPair(secret)
          /\ mounted.ca # None => secret.ca # None

LifeInv ==
    /\ IInv
    /\ Generations
    /\ HoldsSigned
    /\ VolumeFollows

\* The brain's record of what it has signed only grows; without an operator the
\* Secret is neither deleted nor damaged.
LEMMA EnrolGrows ==
    ASSUME IInv, [Next]_vars
    PROVE  /\ issued \subseteq issued' /\ backend' = backend
           /\ ops' = 0 => /\ ops = 0
                          /\ secret.rv # 0 => secret'.rv # 0
                          /\ secret.cert # Bad => secret'.cert # Bad
<1>1. ops \in Nat /\ lastRv \in Nat
  BY EnrolmentAssumption DEF IInv, TypeOK
<1>2. CASE UNCHANGED vars
  BY <1>2 DEF vars, brainVars
<1>3. CASE External
  BY <1>1, <1>3 DEF External, BrainSigns, BrainRefuses, Age, Corrupt, Reenrol, NewToken, brainVars
<1>4. ASSUME NEW j \in Jobs, Update(j) \/ Create(j)
      PROVE  /\ UNCHANGED <<issued, backend, ops>>
             /\ \/ UNCHANGED secret
                \/ secret' = Material(j) /\ answer[j].cert = j
  BY <1>4 DEF IInv, Locals, Writing, Update, Create, Stored, NotStored
<1>5. ASSUME NEW j \in Jobs, WriteCert(j) \/ WriteKey(j) \/ WriteCA(j)
      PROVE  /\ UNCHANGED <<issued, backend, ops>>
             /\ secret'.rv = 1 /\ (secret'.cert = secret.cert \/ secret'.cert = j)
  BY <1>5
  DEF IInv, Locals, Writing, WriteCert, WriteKey, WriteCA, Object, brainVars
<1>6. ASSUME NEW j \in Jobs, Job(j)
      PROVE  \/ UNCHANGED <<issued, backend, ops, secret>>
             \/ Update(j) \/ Create(j) \/ WriteCert(j) \/ WriteKey(j) \/ WriteCA(j)
  BY <1>6
  DEF Job, Begin, Exists, Present, Call, Read, ReadCert, ReadKey, Check, KeyPair, Answer,
      WriteGet, Fails, brainVars
<1>7. ASSUME NEW j \in Jobs, secret' = Material(j), answer[j].cert = j
      PROVE  secret'.rv # 0 /\ secret'.cert # Bad
  BY <1>1, <1>7, JobsAreJobs DEF Material
<1> QED
  BY <1>2, <1>3, <1>4, <1>5, <1>6, <1>7, JobsAreJobs DEF Next

\* A run of bootstrap or renewal, the brain or an operator moves: the volume and
\* the process are as they were.
LEMMA EnrolStep == ASSUME LifeInv, Enrol PROVE LifeInv'
<1>1. /\ [Next]_vars /\ UNCHANGED <<volVars, fileVars, procVars>>
      /\ issued \subseteq issued' /\ backend' = backend
  BY EnrolGrows DEF LifeInv, Enrol
<1>2. IInv'
  BY <1>1, NextInv DEF LifeInv
<1>3. \A g : Signed(g) => Signed(g)'
  BY <1>1 DEF Signed, volVars
<1>4. Generations'
  BY <1>1, <1>3 DEF LifeInv, Generations, volVars, fileVars
<1>5. HoldsSigned'
  BY <1>1, <1>3 DEF LifeInv, HoldsSigned, procVars
<1>6. VolumeFollows'
  <2>1. (persister = backend /\ (present => backend = "secret" /\ HasPair(mounted)))'
    BY <1>1 DEF LifeInv, VolumeFollows, volVars, fileVars, HasPair
  <2>2. ASSUME ops' = 0
        PROVE  /\ secret'.cert # Bad
               /\ HasPair(mounted) => HasPair(secret')
               /\ mounted.ca # None => secret'.ca # None
    <3>1. /\ ops = 0 /\ secret.cert # Bad /\ secret'.cert # Bad
          /\ secret.rv # 0 => secret'.rv # 0
      BY <1>1, <2>2, EnrolGrows DEF LifeInv, VolumeFollows
    <3>2. HasPair(secret) \/ secret.ca # None => secret.rv # 0
      BY DEF LifeInv, IInv, Versioned, NoSecret, HasPair
    <3> QED
      BY <1>1, <3>1, <3>2, CAKept, PairReplaced DEF LifeInv, VolumeFollows
  <2> QED
    BY <1>1, <2>1, <2>2 DEF VolumeFollows, volVars, HasPair
<1> QED
  BY <1>2, <1>4, <1>5, <1>6 DEF LifeInv

\* What the kubelet projects: with a pair in the Secret a generation more, whose
\* key is the cert's unless the cert is damaged.
LEMMA SyncShape ==
    ASSUME LifeInv, Sync
    PROVE  /\ UNCHANGED <<vars, ready, persister, hpc, got, result, cached>>
           /\ mounted' = Content(secret)
           /\ \/ /\ HasPair(secret) /\ backend = "secret" /\ present'
                 /\ pairs' = Append(pairs, secret.cert) /\ certGen' = certGen + 1
                 /\ IF secret.cert = secret.key THEN keyGen' = certGen + 1 ELSE keyGen' = keyGen
              \/ /\ ~HasPair(secret) /\ ~present'
                 /\ UNCHANGED <<pairs, certGen, keyGen>>
<1>1. CASE HasPair(secret)
  BY <1>1 DEF LifeInv, VolumeFollows, Sync, R!Swap, R!SwapDamaged
<1>2. CASE ~HasPair(secret)
  BY <1>2 DEF Sync, R!Vanish, fileVars, procVars
<1> QED
  BY <1>1, <1>2

\* The kubelet syncs.
LEMMA SyncStep == ASSUME LifeInv, Sync PROVE LifeInv'
<1>1. /\ UNCHANGED <<vars, ready, persister, hpc, got, result, cached>>
      /\ mounted' = Content(secret)
  BY SyncShape
<1>2. IInv'
  BY <1>1, NextInv DEF LifeInv
<1>3. UNCHANGED <<secret, issued, backend, ops>>
  BY <1>1 DEF vars, brainVars
<1>4. CASE HasPair(secret)
  <2>1. /\ backend = "secret" /\ present'
        /\ pairs' = Append(pairs, secret.cert) /\ certGen' = certGen + 1
        /\ IF secret.cert = secret.key THEN keyGen' = certGen + 1 ELSE keyGen' = keyGen
    BY <1>4, SyncShape
  <2>2. secret.cert \in Jobs \cup {Bad} /\ secret.key \in Jobs
    BY <1>4 DEF LifeInv, IInv, TypeOK, Secrets, HasPair
  <2>3. /\ pairs' \in Seq(Jobs \cup {Bad}) /\ Len(pairs') = Len(pairs) + 1
        /\ pairs'[Len(pairs) + 1] = secret.cert
        /\ \A g \in 1..Len(pairs) : pairs'[g] = pairs[g]
        /\ Len(pairs) \in Nat
    BY <2>1, <2>2 DEF LifeInv, Generations
  <2>4. \A g : Signed(g) => Signed(g)'
    BY <1>3, <2>3 DEF Signed
  <2>5. secret.cert = secret.key => Signed(Len(pairs))'
    <3>1. secret.cert = secret.key => secret.cert \in issued
      BY <1>4, <2>1, <2>2, JobsAreJobs DEF LifeInv, IInv, StoredPairMatches
    <3> QED
      BY <1>3, <2>3, <3>1 DEF Signed
  <2>6. Generations'
    <3>1. certGen' = Len(pairs') /\ certGen' # 0 /\ (secret.cert = secret.key => keyGen' = Len(pairs'))
      BY <2>1, <2>3 DEF LifeInv, Generations
    <3> QED
      BY <2>1, <2>3, <2>4, <2>5, <3>1 DEF LifeInv, Generations
  <2>7. HoldsSigned'
    BY <1>1, <2>4 DEF LifeInv, HoldsSigned
  <2>8. VolumeFollows'
    BY <1>1, <1>3, <1>4, <2>1 DEF LifeInv, VolumeFollows, Content, HasPair
  <2> QED
    BY <1>2, <2>6, <2>7, <2>8 DEF LifeInv
<1>5. CASE ~HasPair(secret)
  <2>1. ~present' /\ UNCHANGED <<pairs, certGen, keyGen>>
    BY <1>5, SyncShape
  <2>2. \A g : Signed(g) => Signed(g)'
    BY <1>3, <2>1 DEF Signed
  <2>3. Generations'
    BY <2>1, <2>2 DEF LifeInv, Generations
  <2>4. HoldsSigned'
    BY <1>1, <2>2 DEF LifeInv, HoldsSigned
  <2>5. VolumeFollows'
    BY <1>1, <1>3, <2>1 DEF LifeInv, VolumeFollows, Content, HasPair
  <2> QED
    BY <1>2, <2>3, <2>4, <2>5 DEF LifeInv
<1> QED
  BY <1>4, <1>5

\* The process starts, loads, serves, exits or crashes: Secret and volume are as
\* they were.
LEMMA ServeShape ==
    ASSUME Serve
    PROVE  /\ UNCHANGED <<vars, volVars, fileVars>>
           /\ \/ \E p \in R!Procs : R!Call(p) \/ R!Stat(p)
              \/ R!Boot \/ R!Exit
              \/ UNCHANGED procVars
<1>1. ASSUME NEW p \in R!Procs, R!Call(p) \/ R!Stat(p) PROVE UNCHANGED fileVars
  BY <1>1
  DEF R!Call, R!Stat, R!ServeCached, R!Reload, R!LoadStat, R!ReadCert, R!ReadKey,
      R!Fallback, R!Store, R!files, fileVars
<1>2. ASSUME R!Boot \/ R!Exit PROVE UNCHANGED fileVars
  BY <1>2 DEF R!Boot, R!Exit, R!files, fileVars
<1> QED
  BY <1>1, <1>2 DEF Serve, Boot, NewForwarder, Crash, Stat, Handshake, R!Crash

LEMMA ServeStep == ASSUME LifeInv, Serve PROVE LifeInv'
<1>1. /\ UNCHANGED <<vars, volVars, fileVars>>
      /\ \/ \E p \in R!Procs : R!Call(p) \/ R!Stat(p)
         \/ R!Boot \/ R!Exit
         \/ UNCHANGED procVars
  BY ServeShape
<1>2. IInv'
  BY <1>1, NextInv DEF LifeInv
<1>3. UNCHANGED <<secret, issued, backend, ops, pairs>>
  BY <1>1 DEF vars, brainVars, volVars
<1>4. \A g : Signed(g)' <=> Signed(g)
  BY <1>3 DEF Signed
<1>5. Generations'
  BY <1>1, <1>3, <1>4 DEF LifeInv, Generations, fileVars
<1>6. VolumeFollows'
  BY <1>1, <1>3 DEF LifeInv, VolumeFollows, volVars, fileVars, HasPair
<1>7. /\ hpc \in [R!Procs -> R!PCs] /\ got \in [R!Procs -> Nat]
      /\ result \in [R!Procs -> Nat \cup {NoCert, Err}]
      /\ cached # NoCert => cached \in Nat /\ Signed(cached)
      /\ Main \in R!Procs
  BY DEF LifeInv, HoldsSigned, Signed, R!Procs
<1>8. ASSUME R!Boot \/ R!Exit \/ UNCHANGED procVars PROVE HoldsSigned'
  BY <1>4, <1>7, <1>8
  DEF LifeInv, HoldsSigned, R!Boot, R!Exit, R!PCs, procVars
<1>9. ASSUME NEW p \in R!Procs, R!Call(p) \/ R!Stat(p) PROVE HoldsSigned'
  <2>1. CASE R!Stat(p) \/ R!Reload(p)
    BY <1>4, <1>7, <2>1 DEF LifeInv, HoldsSigned, R!Stat, R!Reload, R!PCs
  <2>2. ASSUME NEW v \in Nat \cup {NoCert, Err}, R!Return(p, v), v \in Nat => Signed(v),
               UNCHANGED <<got, cached>>
        PROVE  HoldsSigned'
    BY <1>4, <1>7, <2>2 DEF LifeInv, HoldsSigned, R!Return, R!PCs
  <2>3. CASE R!ServeCached(p) \/ R!Fallback(p)
    <3>1. /\ R!CachedOrErr \in Nat \cup {NoCert, Err}
          /\ R!CachedOrErr \in Nat => Signed(R!CachedOrErr)
      BY <1>7, LifeAssumption DEF R!CachedOrErr
    <3> QED
      BY <2>2, <2>3, <3>1 DEF R!ServeCached, R!Fallback
  <2>4. CASE R!LoadStat(p)
    <3>1. CASE R!Return(p, Err)
      BY <2>2, <2>4, <3>1, LifeAssumption DEF R!LoadStat
    <3>2. CASE hpc' = [hpc EXCEPT ![p] = "readcert"] /\ UNCHANGED result
      BY <1>4, <1>7, <2>4, <3>2 DEF LifeInv, HoldsSigned, R!LoadStat, R!PCs
    <3> QED
      BY <2>4, <3>1, <3>2 DEF R!LoadStat
  <2>5. CASE R!ReadCert(p)
    <3>1. certGen \in Nat /\ (present => certGen # 0)
      BY DEF LifeInv, Generations
    <3> QED
      BY <1>4, <1>7, <2>5, <3>1 DEF LifeInv, HoldsSigned, R!ReadCert, R!PCs
  <2>6. CASE R!ReadKey(p)
    <3>1. hpc[p] = "readkey" /\ got[p] # 0 /\ (keyGen # 0 => Signed(keyGen))
      BY <2>6 DEF LifeInv, Generations, HoldsSigned, R!ReadKey
    <3> QED
      BY <1>4, <1>7, <2>6, <3>1 DEF LifeInv, HoldsSigned, R!ReadKey, R!PCs
  <2>7. CASE R!Store(p)
    <3>1. got[p] \in Nat /\ Signed(got[p])
      BY <1>7, <2>7 DEF LifeInv, HoldsSigned, R!Store
    <3> QED
      BY <1>4, <1>7, <2>7, <3>1 DEF LifeInv, HoldsSigned, R!Store, R!Return, R!PCs
  <2> QED
    BY <1>9, <2>1, <2>3, <2>4, <2>5, <2>6, <2>7 DEF R!Call
<1> QED
  BY <1>1, <1>2, <1>5, <1>6, <1>8, <1>9 DEF LifeInv

\* The initial states satisfy the invariant.
LEMMA LifeInitInv == LifeInit => LifeInv
<1> SUFFICES ASSUME LifeInit PROVE LifeInv
  OBVIOUS
<1>1. IInv
  BY InitInv DEF LifeInit
<1>2. pairs = <<>> /\ certGen = 0 /\ keyGen = 0 /\ ~present
  BY DEF LifeInit, R!Init
<1>3. Generations
  BY <1>2 DEF Generations
<1>4. HoldsSigned
  BY LifeAssumption DEF LifeInit, R!Init, HoldsSigned, R!PCs
<1>5. secret.cert = None
  BY DEF LifeInit, Init, Object, NoSecret
<1>6. VolumeFollows
  BY <1>2, <1>5, JobsAreJobs DEF LifeInit, VolumeFollows, Content, HasPair
<1> QED
  BY <1>1, <1>3, <1>4, <1>6 DEF LifeInv

\* Every step, or a stuttering step, preserves it.
LEMMA LifeNextInv == LifeInv /\ [LifeNext]_lifeVars => LifeInv'
<1> SUFFICES ASSUME LifeInv, [LifeNext]_lifeVars PROVE LifeInv'
  OBVIOUS
<1>1. CASE LifeNext
  BY <1>1, EnrolStep, SyncStep, ServeStep DEF LifeNext
<1>2. CASE UNCHANGED lifeVars
  <2>1. UNCHANGED <<vars, volVars, fileVars, procVars>>
    BY <1>2 DEF lifeVars
  <2>2. IInv'
    BY <2>1, NextInv DEF LifeInv
  <2>3. (Generations /\ HoldsSigned)'
    BY <2>1
    DEF LifeInv, Generations, HoldsSigned, Signed, volVars, fileVars, procVars, vars, brainVars
  <2>4. VolumeFollows'
    BY <2>1 DEF LifeInv, VolumeFollows, volVars, fileVars, vars, brainVars, HasPair
  <2> QED
    BY <2>2, <2>3, <2>4 DEF LifeInv
<1> QED
  BY <1>1, <1>2

LEMMA LifeInvariance == LifeSpec => []LifeInv
<1> QED
  BY LifeInitInv, LifeNextInv, PTL DEF LifeSpec

\* GetClientCertificate, over the whole way from the brain's signature through
\* Secret, volume and cache: what a handshake presents was signed for its key.
THEOREM HandshakePresentsIssued == LifeSpec => []PresentsIssuedPair
<1>1. LifeInv => PresentsIssuedPair
  BY DEF LifeInv, HoldsSigned, Signed, PresentsIssuedPair, R!Procs
<1> QED
  BY <1>1, LifeInvariance, PTL

\* runServer: once the volume holds a pair that loads and a CA, it does so until
\* an operator intervenes, whatever bootstraps and renewals do to the Secret and
\* whenever the kubelet looks.
THEOREM RestartSafe == LifeSpec => RestartIsSafe
<1>1. ASSUME LifeInv, [LifeNext]_lifeVars, Startable, ops' = 0 PROVE Startable'
  <2>1. CASE Sync
    <3>1. /\ mounted' = Content(secret) /\ ops' = ops
          /\ present /\ mounted.ca # None
      BY <1>1, <2>1, SyncShape DEF Startable, R!Matching, vars
    <3>2. /\ HasPair(secret) /\ secret.cert # Bad /\ secret.ca # None
          /\ backend = "secret"
      BY <1>1, <3>1 DEF LifeInv, VolumeFollows
    <3>3. secret.key = secret.cert
      BY <1>1, <3>2 DEF LifeInv, IInv, StoredPairMatches
    <3>4. present' /\ certGen' = keyGen'
      BY <1>1, <2>1, <3>2, <3>3, SyncShape
    <3> QED
      BY <3>1, <3>2, <3>4 DEF Startable, R!Matching, Content
  <2>2. CASE UNCHANGED <<volVars, fileVars>>
    BY <1>1, <2>2 DEF Startable, R!Matching, volVars, fileVars
  <2> QED
    BY <1>1, <2>1, <2>2, ServeShape DEF LifeNext, Enrol, lifeVars
<1>2. LifeInv /\ [LifeNext]_lifeVars => [Startable /\ ops' = 0 => Startable']_lifeVars
  BY <1>1
<1> QED
  BY <1>2, LifeInvariance, PTL DEF LifeSpec, RestartIsSafe

-----------------------------------------------------------------------------
(* The schedule of the renewals *)

\* What was left at the last run exceeds the margin less one period for every
\* failed run since.
Headroom == remaining + since > Margin - fails * Period

RunwayInv == RunwayTypeOK /\ Headroom

\* The margin is a number of hours.
LEMMA MarginType == Margin \in Nat
BY RunwayAssumption DEF Margin

\* Fewer failures leave more of the margin.
LEMMA FailsCost ==
    ASSUME Tuned, NEW f \in 0..MaxFails
    PROVE  Margin - f * Period >= Period
<1> DEFINE P == Period  K == MaxFails
<1>1. P \in Nat /\ K \in Nat /\ f \in Nat /\ f <= K
  BY RunwayAssumption
<1>2. PICK d \in Nat : K = f + d
  <2>1. K - f \in Nat /\ K = f + (K - f)
    BY <1>1
  <2> QED
    BY <2>1
<1>3. d * P \in Nat /\ f * P \in Nat
  BY <1>1, <1>2
<1>4. (K + 1) * P = f * P + d * P + P
  BY <1>1, <1>2
<1>5. (K + 1) * P <= Margin
  BY DEF Tuned
<1> QED
  BY <1>1, <1>3, <1>4, <1>5, MarginType

\* One more failure costs one more period.
LEMMA OneMoreFailure ==
    ASSUME NEW f \in Nat
    PROVE  (f + 1) * Period = f * Period + Period /\ f * Period \in Nat
BY RunwayAssumption

\* With this headroom the cert is valid.
LEMMA HeadroomKeepsCert == ASSUME Tuned, RunwayInv PROVE NeverExpires
<1>1. remaining \in Nat /\ since \in 0..Period /\ fails \in 0..MaxFails
  BY RunwayAssumption DEF RunwayInv, RunwayTypeOK
<1>2. Margin - fails * Period >= Period
  BY <1>1, FailsCost
<1>3. fails * Period \in Nat
  BY <1>1, OneMoreFailure
<1> HIDE DEF Margin
<1> QED
  BY <1>1, <1>2, <1>3, MarginType, RunwayAssumption DEF RunwayInv, Headroom, NeverExpires

\* A new cert has it ...
LEMMA HeadroomInit == RunwayInit => RunwayInv
<1> SUFFICES ASSUME RunwayInit PROVE RunwayInv
  OBVIOUS
<1>1. RunwayTypeOK
  BY RunwayAssumption DEF RunwayInit, RunwayTypeOK
<1>2. Life > Margin
  BY RunwayAssumption DEF Margin
<1>3. fails * Period = 0
  BY RunwayAssumption DEF RunwayInit
<1> QED
  BY <1>1, <1>2, <1>3, MarginType, RunwayAssumption DEF RunwayInit, RunwayInv, Headroom

\* ... and keeps it, whether a run skips, rotates or fails.
LEMMA HeadroomNext == ASSUME Tuned, RunwayInv, [RunwayNext]_runwayVars PROVE RunwayInv'
<1>1. NeverExpires
  BY HeadroomKeepsCert
<1>2. /\ remaining \in 0..Life /\ since \in 0..Period /\ fails \in 0..MaxFails
      /\ Life \in Nat /\ Period \in Nat /\ MaxFails \in Nat
  BY RunwayAssumption DEF RunwayInv, RunwayTypeOK
<1>3. fails * Period \in Nat /\ (fails + 1) * Period = fails * Period + Period
  BY <1>2, OneMoreFailure
<1>4. Margin < Life
  BY RunwayAssumption DEF Margin
<1>5. CASE Tick
  BY <1>1, <1>2, <1>3, <1>5, MarginType
     DEF Tick, RunwayInv, RunwayTypeOK, Headroom, NeverExpires
<1>6. CASE Skip
  <2>1. remaining > Margin
    BY <1>2, <1>6, RunwayAssumption DEF Skip, Fresh, Margin
  <2>2. fails' * Period = 0
    BY <1>2, <1>6 DEF Skip
  <2> QED
    BY <1>2, <1>6, <2>1, <2>2, MarginType DEF Skip, RunwayInv, RunwayTypeOK, Headroom
<1>7. CASE Rotate
  <2>1. fails' * Period = 0
    BY <1>2, <1>7 DEF Rotate
  <2> QED
    BY <1>2, <1>4, <1>7, <2>1, MarginType DEF Rotate, RunwayInv, RunwayTypeOK, Headroom
<1>8. CASE Fail
  <2>1. fails' * Period = fails * Period + Period
    BY <1>3, <1>8 DEF Fail
  <2>2. since = Period /\ remaining + since > Margin - fails * Period
    BY <1>8 DEF Fail, Due, RunwayInv, Headroom
  <2>3. Headroom'
    BY <1>2, <1>3, <1>8, <2>1, <2>2, MarginType DEF Fail, Headroom
  <2>4. RunwayTypeOK'
    BY <1>2, <1>8 DEF Fail, RunwayTypeOK
  <2> QED
    BY <2>3, <2>4 DEF RunwayInv
<1>9. CASE UNCHANGED runwayVars
  BY <1>9 DEF runwayVars, RunwayInv, RunwayTypeOK, Headroom
<1> QED
  BY <1>5, <1>6, <1>7, <1>8, <1>9 DEF RunwayNext

\* Whatever the lifetime, the threshold and the schedule: as long as
\* MaxFails + 1 periods fit into the margin, no sequence of renewal runs with
\* at most MaxFails failures in a row lets the cert expire.
THEOREM CertNeverExpires == ASSUME Tuned PROVE RunwaySpec => []NeverExpires
<1>1. RunwayInit => RunwayInv
  BY HeadroomInit
<1>2. RunwayInv /\ [RunwayNext]_runwayVars => RunwayInv'
  BY HeadroomNext
<1>3. RunwayInv => NeverExpires
  BY HeadroomKeepsCert
<1> QED
  BY <1>1, <1>2, <1>3, PTL DEF RunwaySpec

==============================================================================
