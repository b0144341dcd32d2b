--------------------------- MODULE ForwarderProofs ---------------------------
(***************************************************************************)
(* Proofs about the forwarder for any set of calls that share the source   *)
(* of nonces, any length of their contexts and any errors of the brain.    *)
(***************************************************************************)
EXTENDS Forwarder, FiniteSetTheorems, TLAPS

(***************************************************************************)
(* The inductive invariant.  An answer is matched with an attempt by its   *)
(* nonce, so OkWasIngested needs a nonce to belong to one call only, which *)
(* needs every nonce in use to have been drawn before; RetryIsNoReplay     *)
(* needs the requests on their way to have different nonces as well.       *)
(* BackoffRespected is about the moment a request leaves, and has to be    *)
(* followed through the backoff before it, timer included.                 *)
(***************************************************************************)

\* Every nonce in use has been drawn.
NoncesDrawn ==
    /\ \A c \in Calls : nonceOf[c] <= minted
    /\ \A m \in wire : m[2] <= minted
    /\ \A m \in ingested : m[2] <= minted
    /\ \A n \in seen : n <= minted

\* A request with the nonce of a call is a request of that call.
NoncesOwned ==
    \A c \in Calls : \A m \in wire \cup ingested : m[2] = nonceOf[c] => m[1] = c

NoncesUnique == \A m, n \in wire : m[2] = n[2] => m = n

\* The brain answers "ok" only for what it has accepted.
AnswersTrue ==
    \A r \in replies : r[2] = "ok" => \E m \in ingested : m[2] = r[1]

\* What a call knows before it begins.
IdleIsFresh ==
    \A c \in Calls : fpc[c] = "idle" => attempt[c] = 0 /\ lastErr[c] = "none"

\* What has passed of the context, and what the timer will still take.
Paced ==
    \A c \in Calls :
        /\ fpc[c] \in {"send", "wait"} => budget[c] - left[c] >= Floor(attempt[c])
        /\ fpc[c] = "backoff" => budget[c] - left[c] + timer[c] >= Floor(attempt[c])

IInv ==
    /\ TypeOK
    /\ NoncesDrawn
    /\ NoncesOwned
    /\ NoncesUnique
    /\ AnswersTrue
    /\ IdleIsFresh
    /\ Paced
    /\ OkWasIngested
    /\ GivesUpWithCause
    /\ RetriesOnlyTransient
    /\ RetryIsNoReplay

\* The part about nonces, brain and network, ...
NonceInv ==
    /\ NoncesDrawn
    /\ NoncesOwned
    /\ NoncesUnique
    /\ AnswersTrue
    /\ RetryIsNoReplay

\* ... and the part about the loop of a call.
LoopInv ==
    /\ IdleIsFresh
    /\ Paced
    /\ GivesUpWithCause
    /\ RetriesOnlyTransient

-----------------------------------------------------------------------------

\* No error is mistaken for an answer, or for none.
LEMMA ErrorsAreErrors == "ok" \notin Errors /\ "none" \notin Errors
BY ForwarderAssumption DEF Errors, LocalErrors

\* isPermanent agrees with the documents.
LEMMA ClassifiedAsDocumented ==
    /\ \A e \in Refusals : isPermanent(e)
    /\ \A e \in Passing : ~isPermanent(e)
BY DEF Refusals, Passing, isPermanent, GrpcPermanent, HttpPermanent

\* A step that leaves nonces and brain alone keeps what is said of them.
LEMMA NonceFrame ==
    ASSUME IInv, UNCHANGED <<nonceOf, minted, brainVars>>
    PROVE  NonceInv'
<1>1. (NoncesDrawn /\ NoncesOwned)'
  BY DEF IInv, NoncesDrawn, NoncesOwned, brainVars
<1>2. (NoncesUnique /\ AnswersTrue /\ RetryIsNoReplay)'
  BY DEF IInv, NoncesUnique, AnswersTrue, RetryIsNoReplay, brainVars
<1> QED
  BY <1>1, <1>2 DEF NonceInv

\* The same for a step of brain or network and the loops of the calls.
LEMMA LoopFrame ==
    ASSUME IInv, UNCHANGED callVars
    PROVE  LoopInv'
<1>1. (IdleIsFresh /\ Paced)'
  BY DEF IInv, IdleIsFresh, Paced, callVars
<1>2. (GivesUpWithCause /\ RetriesOnlyTransient)'
  BY DEF IInv, GivesUpWithCause, RetriesOnlyTransient, callVars
<1> QED
  BY <1>1, <1>2 DEF LoopInv

\* Forward begins.
LEMMA StartStep ==
    ASSUME IInv, NEW c \in Calls, NEW b \in 0..Budget, Start(c, b)
    PROVE  IInv'
<1>1. TypeOK'
  BY ForwarderAssumption DEF IInv, TypeOK, Start, brainVars, FPCs
<1>2. NonceInv'
  BY NonceFrame DEF Start
<1>3. (IdleIsFresh /\ GivesUpWithCause /\ RetriesOnlyTransient)'
  BY DEF IInv, TypeOK, IdleIsFresh, GivesUpWithCause, RetriesOnlyTransient, Start
<1>4. Paced'
  BY ForwarderAssumption DEF IInv, TypeOK, IdleIsFresh, Paced, Floor, Start
<1>5. OkWasIngested'
  BY DEF IInv, TypeOK, OkWasIngested, Start, brainVars
<1> QED
  BY <1>1, <1>2, <1>3, <1>4, <1>5 DEF IInv, NonceInv

\* An attempt draws its nonce.
LEMMA SendStep == ASSUME IInv, NEW c \in Calls, Send(c) PROVE IInv'
<1>1. TypeOK'
  BY DEF IInv, TypeOK, Send, FPCs
<1>2. NoncesDrawn'
  BY DEF IInv, TypeOK, NoncesDrawn, Send
<1>3. NoncesOwned'
  BY DEF IInv, TypeOK, NoncesDrawn, NoncesOwned, Send
<1>4. NoncesUnique'
  BY DEF IInv, TypeOK, NoncesDrawn, NoncesUnique, Send
<1>5. (AnswersTrue /\ RetryIsNoReplay)'
  BY DEF IInv, TypeOK, NoncesDrawn, AnswersTrue, RetryIsNoReplay, Send
<1>6. (IdleIsFresh /\ Paced)'
  BY DEF IInv, TypeOK, IdleIsFresh, Paced, Send
<1>7. (OkWasIngested /\ GivesUpWithCause /\ RetriesOnlyTransient)'
  BY DEF IInv, TypeOK, OkWasIngested, GivesUpWithCause, RetriesOnlyTransient, Send
<1> QED
  BY <1>1, <1>2, <1>3, <1>4, <1>5, <1>6, <1>7 DEF IInv

\* An attempt fails, for whatever reason: in send, by an answer, by the
\* connection or by the end of the context.
LEMMA FailedStep ==
    ASSUME IInv, NEW c \in Calls, NEW err \in Errors,
           fpc[c] \in {"send", "wait"}, Failed(c, err),
           UNCHANGED <<budget, left, nonceOf, minted, brainVars>>
    PROVE  IInv'
<1>1. attempt[c] \in {0, 1, 2} /\ err # "none"
  BY ErrorsAreErrors DEF IInv, TypeOK, MaxAttempts
<1>2. TypeOK'
  <2>1. CASE isPermanent(err) \/ attempt[c] = MaxAttempts - 1
    BY <2>1 DEF IInv, TypeOK, Failed, brainVars, FPCs, MaxAttempts
  <2>2. CASE ~(isPermanent(err) \/ attempt[c] = MaxAttempts - 1)
    BY <1>1, <2>2 DEF IInv, TypeOK, Failed, brainVars, FPCs, MaxAttempts, Backoff
  <2> QED
    BY <2>1, <2>2
<1>3. NonceInv'
  BY NonceFrame
<1>4. Paced'
  <2> SUFFICES ASSUME NEW d \in Calls
               PROVE  (/\ fpc[d] \in {"send", "wait"} =>
                            budget[d] - left[d] >= Floor(attempt[d])
                       /\ fpc[d] = "backoff" =>
                            budget[d] - left[d] + timer[d] >= Floor(attempt[d]))'
    BY DEF Paced
  <2>1. CASE d # c
    BY <2>1 DEF IInv, TypeOK, Paced, Failed
  <2>2. CASE d = c
    <3>1. budget[c] \in Int /\ left[c] \in Int /\ budget[c] - left[c] >= Floor(attempt[c])
      BY DEF IInv, TypeOK, Paced
    <3>2. CASE isPermanent(err) \/ attempt[c] = MaxAttempts - 1
      BY <2>2, <3>2 DEF IInv, TypeOK, Failed
    <3>3. CASE ~(isPermanent(err) \/ attempt[c] = MaxAttempts - 1)
      BY <1>1, <2>2, <3>1, <3>3 DEF IInv, TypeOK, Failed, Floor, Backoff, MaxAttempts
    <3> QED
      BY <3>2, <3>3
  <2> QED
    BY <2>1, <2>2
<1>5. (IdleIsFresh /\ GivesUpWithCause /\ RetriesOnlyTransient)'
  BY <1>1, ClassifiedAsDocumented
  DEF IInv, TypeOK, IdleIsFresh, GivesUpWithCause, RetriesOnlyTransient, Failed, MaxAttempts
<1>6. OkWasIngested'
  BY DEF IInv, TypeOK, OkWasIngested, Failed, brainVars
<1> QED
  BY <1>2, <1>3, <1>4, <1>5, <1>6 DEF IInv, NonceInv

\* The four ways to fail.
LEMMA FailingSteps ==
    ASSUME IInv, NEW c \in Calls, SendFails(c) \/ Breaks(c) \/ Expires(c)
    PROVE  IInv'
<1>1. {"DeadlineExceeded", "Unavailable", "Unknown"} \subseteq Errors
  BY DEF Errors, LocalErrors
<1> QED
  BY <1>1, FailedStep DEF SendFails, Breaks, Expires

\* The answer to the attempt arrives: its nonce says whose payload it is about.
LEMMA ReceiveStep == ASSUME IInv, NEW c \in Calls, Receive(c) PROVE IInv'
<1>1. PICK r \in replies :
        /\ r[1] = nonceOf[c]
        /\ \/ /\ r[2] = "ok"
              /\ fpc' = [fpc EXCEPT ![c] = "ok"]
              /\ UNCHANGED <<attempt, timer, lastErr>>
           \/ /\ r[2] # "ok"
              /\ Failed(c, r[2])
  BY DEF Receive
<1>2. UNCHANGED <<budget, left, nonceOf, minted, brainVars>> /\ fpc[c] = "wait"
  BY DEF Receive
<1>3. CASE r[2] # "ok"
  <2>1. r[2] \in Errors
    BY <1>3 DEF IInv, TypeOK
  <2> QED
    BY <1>1, <1>2, <1>3, <2>1, FailedStep
<1>4. CASE r[2] = "ok"
  <2>1. fpc' = [fpc EXCEPT ![c] = "ok"] /\ UNCHANGED <<attempt, timer, lastErr>>
    BY <1>1, <1>4
  <2>2. TypeOK'
    BY <1>2, <2>1 DEF IInv, TypeOK, FPCs, brainVars
  <2>3. NonceInv'
    BY <1>2, NonceFrame
  <2>4. (IdleIsFresh /\ Paced /\ GivesUpWithCause /\ RetriesOnlyTransient)'
    BY <1>2, <2>1
    DEF IInv, TypeOK, IdleIsFresh, Paced, GivesUpWithCause, RetriesOnlyTransient
  <2>5. <<c, nonceOf[c]>> \in ingested
    <3>1. PICK m \in ingested : m[2] = nonceOf[c]
      BY <1>1, <1>4 DEF IInv, AnswersTrue
    <3>2. m[1] = c /\ m = <<m[1], m[2]>>
      BY <3>1 DEF IInv, TypeOK, NoncesOwned
    <3> QED
      BY <3>1, <3>2
  <2>6. OkWasIngested'
    BY <1>2, <2>1, <2>5 DEF IInv, TypeOK, OkWasIngested, brainVars
  <2> QED
    BY <2>2, <2>3, <2>4, <2>6 DEF IInv, NonceInv
<1> QED
  BY <1>3, <1>4

\* The select of the backoff.
LEMMA SelectSteps == ASSUME IInv, NEW c \in Calls, Retry(c) \/ Cancel(c) PROVE IInv'
<1>1. TypeOK'
  BY DEF IInv, TypeOK, Retry, Cancel, brainVars, FPCs
<1>2. NonceInv'
  BY NonceFrame DEF Retry, Cancel
<1>3. Paced'
  BY DEF IInv, TypeOK, Paced, Retry, Cancel, Floor
<1>4. (IdleIsFresh /\ GivesUpWithCause /\ RetriesOnlyTransient)'
  BY DEF IInv, TypeOK, IdleIsFresh, GivesUpWithCause, RetriesOnlyTransient,
         Retry, Cancel
<1>5. OkWasIngested'
  BY DEF IInv, TypeOK, OkWasIngested, Retry, Cancel, brainVars
<1> QED
  BY <1>1, <1>2, <1>3, <1>4, <1>5 DEF IInv, NonceInv

\* A second passes: what the timer loses, the context has used.
LEMMA TickStep == ASSUME IInv, NEW c \in Calls, Tick(c) PROVE IInv'
<1>1. /\ left[c] \in 1..Budget
      /\ left[c] - 1 \in 0..Budget
      /\ (IF timer[c] > 0 THEN timer[c] - 1 ELSE 0) \in 0..4
  BY ForwarderAssumption DEF IInv, TypeOK, Tick
<1>2. TypeOK'
  BY <1>1 DEF IInv, TypeOK, Tick, brainVars
<1>3. NonceInv'
  BY NonceFrame DEF Tick
<1>4. Paced'
  <2> SUFFICES ASSUME NEW d \in Calls
               PROVE  (/\ fpc[d] \in {"send", "wait"} =>
                            budget[d] - left[d] >= Floor(attempt[d])
                       /\ fpc[d] = "backoff" =>
                            budget[d] - left[d] + timer[d] >= Floor(attempt[d]))'
    BY DEF Paced
  <2>1. CASE d # c
    BY <2>1 DEF IInv, TypeOK, Paced, Tick
  <2>2. CASE d = c
    <3>1. budget[c] \in Int /\ left[c] \in Int /\ timer[c] \in Nat
      BY DEF IInv, TypeOK
    <3>2. left'[c] = left[c] - 1 /\ timer'[c] >= timer[c] - 1 /\ timer'[c] \in Nat
      BY <3>1 DEF IInv, TypeOK, Tick
    <3> QED
      BY <2>2, <3>1, <3>2 DEF IInv, Paced, Floor, Tick
  <2> QED
    BY <2>1, <2>2
<1>5. (IdleIsFresh /\ GivesUpWithCause /\ RetriesOnlyTransient)'
  BY DEF IInv, TypeOK, IdleIsFresh, GivesUpWithCause, RetriesOnlyTransient, Tick
<1>6. OkWasIngested'
  BY DEF IInv, TypeOK, OkWasIngested, Tick, brainVars
<1> QED
  BY <1>2, <1>3, <1>4, <1>5, <1>6 DEF IInv, NonceInv

\* A request reaches the brain, or is lost.
LEMMA BrainSteps ==
    ASSUME IInv, NEW m \in wire, BrainIngests(m) \/ BrainRefuses(m) \/ Lose(m)
    PROVE  IInv'
<1>1. /\ UNCHANGED <<callVars, minted>>
      /\ wire' = wire \ {m}
      /\ seen' \subseteq seen \cup {m[2]}
      /\ ingested' = ingested \/ ingested' = ingested \cup {m}
      /\ m \in Calls \X Nat
  BY DEF IInv, TypeOK, BrainIngests, BrainRefuses, Lose
<1>2. replies' \subseteq Nat \X (Errors \cup {"ok"})
  BY <1>1 DEF IInv, TypeOK, BrainIngests, BrainRefuses, Lose, Errors
<1>3. TypeOK'
  BY <1>1, <1>2 DEF IInv, TypeOK, callVars
<1>4. (NoncesDrawn /\ NoncesOwned)'
  BY <1>1 DEF IInv, TypeOK, NoncesDrawn, NoncesOwned, callVars
<1>5. (NoncesUnique /\ RetryIsNoReplay)'
  BY <1>1 DEF IInv, NoncesUnique, RetryIsNoReplay
<1>6. AnswersTrue'
  <2>1. CASE BrainIngests(m)
    BY <1>1, <2>1 DEF IInv, AnswersTrue, BrainIngests
  <2>2. CASE BrainRefuses(m)
    <3>1. PICK code \in Errors : replies' = replies \cup {<<m[2], code>>}
      BY <2>2, SMT DEF BrainRefuses, Errors
    <3> QED
      BY <2>2, <3>1, ErrorsAreErrors DEF IInv, AnswersTrue, BrainRefuses
  <2>3. CASE Lose(m)
    BY <2>3 DEF IInv, AnswersTrue, Lose
  <2> QED
    BY <2>1, <2>2, <2>3
<1>7. LoopInv'
  BY <1>1, LoopFrame
<1>8. OkWasIngested'
  BY <1>1 DEF IInv, OkWasIngested, callVars
<1> QED
  BY <1>3, <1>4, <1>5, <1>6, <1>7, <1>8 DEF IInv, LoopInv

\* The initial state satisfies the invariant.
LEMMA InitInv == Init => IInv
<1> SUFFICES ASSUME Init PROVE IInv
  OBVIOUS
<1>1. TypeOK
  BY ForwarderAssumption DEF Init, TypeOK, FPCs, MaxAttempts
<1>2. NonceInv
  BY DEF Init, NonceInv, NoncesDrawn, NoncesOwned, NoncesUnique, AnswersTrue, RetryIsNoReplay
<1>3. LoopInv /\ OkWasIngested
  BY DEF Init, LoopInv, IdleIsFresh, Paced, GivesUpWithCause, RetriesOnlyTransient,
         OkWasIngested
<1> QED
  BY <1>1, <1>2, <1>3 DEF IInv, NonceInv, LoopInv

\* Every step, or a stuttering step, preserves the invariant.
LEMMA NextInv == IInv /\ [Next]_fvars => IInv'
<1> SUFFICES ASSUME IInv, [Next]_fvars PROVE IInv'
  OBVIOUS
<1>1. CASE \E c \in Calls : \E b \in 0..Budget : Start(c, b)
  BY <1>1, StartStep
<1>2. CASE \E c \in Calls : Client(c) \/ Breaks(c) \/ Tick(c)
  BY <1>2, SendStep, FailingSteps, ReceiveStep, SelectSteps, TickStep
  DEF Client
<1>3. CASE Brain
  BY <1>3, BrainSteps DEF Brain
<1>4. CASE UNCHANGED fvars
  <2>1. TypeOK' /\ OkWasIngested'
    BY <1>4 DEF IInv, TypeOK, OkWasIngested, fvars, callVars, brainVars
  <2>2. NonceInv' /\ LoopInv'
    BY <1>4, NonceFrame, LoopFrame DEF fvars, callVars
  <2> QED
    BY <2>1, <2>2 DEF IInv, NonceInv, LoopInv
<1> QED
  BY <1>1, <1>2, <1>3, <1>4 DEF Next

\* The inductive invariant holds throughout.
LEMMA Invariance == Spec => []IInv
<1> QED
  BY InitInv, NextInv, PTL DEF Spec

-----------------------------------------------------------------------------

\* The loop of Forward makes at most three attempts, and its variables and
\* those of brain and network keep their types.
THEOREM TypeCorrect == Spec => []TypeOK
<1>1. IInv => TypeOK
  BY DEF IInv
<1> QED
  BY <1>1, Invariance, PTL

\* Forward returns nil only for a payload the brain has accepted, however many
\* calls run at once and however late answers arrive.
THEOREM SuccessIsIngested == Spec => []OkWasIngested
<1>1. IInv => OkWasIngested
  BY DEF IInv
<1> QED
  BY <1>1, Invariance, PTL

\* Forward returns an error only after a permanent error, three attempts or
\* the end of its context.
THEOREM FailureHasCause == Spec => []GivesUpWithCause
<1>1. IInv => GivesUpWithCause
  BY DEF IInv
<1> QED
  BY <1>1, Invariance, PTL

\* isPermanent ends the loop: only transient errors are followed by another
\* attempt.
THEOREM PermanentIsFinal == Spec => []RetriesOnlyTransient
<1>1. IInv => RetriesOnlyTransient
  BY DEF IInv
<1> QED
  BY <1>1, Invariance, PTL

\* The second and third requests leave no sooner than 2 and 6 seconds after
\* Forward was called.
THEOREM BackoffKept == Spec => []BackoffRespected
<1>1. IInv => BackoffRespected
  BY DEF IInv, Paced, BackoffRespected
<1> QED
  BY <1>1, Invariance, PTL

\* FreshNonce in send keeps retries out of the brain's replay cache: no request
\* on its way has a nonce the brain has seen.
THEOREM RetriesAreFresh == Spec => []RetryIsNoReplay
<1>1. IInv => RetryIsNoReplay
  BY DEF IInv
<1> QED
  BY <1>1, Invariance, PTL

-----------------------------------------------------------------------------
(* For the composition with the pipeline *)

\* The context of a call that has not begun is not Forward's: the enrichment may
\* consume it.
LEMMA IdleContext ==
    ASSUME IInv, NEW c \in Calls, fpc[c] = "idle", NEW n \in 0..Budget,
           left' = [left EXCEPT ![c] = n],
           UNCHANGED <<fpc, attempt, budget, timer, lastErr, nonceOf, minted, brainVars>>
    PROVE  IInv'
<1>1. left \in [Calls -> 0..Budget]
  BY DEF IInv, TypeOK
<1>2. TypeOK'
  BY <1>1 DEF IInv, TypeOK, brainVars
<1>3. NonceInv'
  BY NonceFrame
<1>4. LoopInv'
  BY <1>1 DEF IInv, LoopInv, IdleIsFresh, Paced, GivesUpWithCause, RetriesOnlyTransient
<1>5. OkWasIngested'
  BY DEF IInv, OkWasIngested, brainVars
<1> QED
  BY <1>2, <1>3, <1>4, <1>5 DEF IInv, NonceInv, LoopInv

-----------------------------------------------------------------------------
(* How often a payload is transmitted *)

Transmissions(c) == {m \in wire \cup ingested : m[1] = c}

\* The requests that call c has sent at most: one in each attempt behind it, and
\* one in the current attempt once that has got as far.
Sent(c) == attempt[c] + (IF fpc[c] \in {"wait", "ok", "error"} THEN 1 ELSE 0)

Bounded ==
    /\ \A m \in ingested : m[2] \in seen
    /\ \A c \in Calls : /\ IsFiniteSet(Transmissions(c))
                        /\ Cardinality(Transmissions(c)) <= Sent(c)

\* No step takes back what a call may have sent.
LEMMA SentGrows ==
    ASSUME IInv, [Next]_fvars, NEW c \in Calls
    PROVE  /\ Sent(c) \in 0..MaxAttempts /\ Sent(c)' \in 0..MaxAttempts
           /\ Sent(c) <= Sent(c)'
           /\ Send(c) => Sent(c)' = Sent(c) + 1
<1>1. TypeOK' /\ TypeOK /\ IdleIsFresh /\ MaxAttempts = 3
  BY NextInv DEF IInv, MaxAttempts
<1>2. Sent(c) \in 0..MaxAttempts /\ Sent(c)' \in 0..MaxAttempts
  BY <1>1 DEF TypeOK, Sent
<1>3. CASE UNCHANGED <<fpc, attempt>>
  <2>1. ~Send(c)
    BY <1>1, <1>3 DEF Send, TypeOK
  <2>2. Sent(c)' = Sent(c)
    BY <1>3 DEF Sent
  <2> QED
    BY <1>1, <1>2, <2>1, <2>2
<1>4. ASSUME NEW d \in Calls, Send(d) \/ Retry(d) \/ Cancel(d) \/ \E b \in 0..Budget : Start(d, b)
      PROVE  /\ Sent(c) <= Sent(c)'
             /\ Send(c) => Sent(c)' = Sent(c) + 1
  BY <1>1, <1>4 DEF TypeOK, Sent, Send, Retry, Cancel, Start
<1>5. ASSUME NEW d \in Calls, SendFails(d) \/ Expires(d) \/ Breaks(d) \/ Receive(d)
      PROVE  Sent(c) <= Sent(c)' /\ ~Send(c)
  <2>1. minted' = minted /\ fpc[d] \in {"send", "wait"}
    BY <1>5 DEF SendFails, Expires, Breaks, Receive
  <2>2. ~Send(c)
    BY <1>1, <2>1 DEF Send, TypeOK
  <2>3. \/ \E err : Failed(d, err)
        \/ fpc[d] = "wait" /\ fpc' = [fpc EXCEPT ![d] = "ok"] /\ attempt' = attempt
    BY <1>5 DEF SendFails, Expires, Breaks, Receive
  <2>4. CASE \E err : Failed(d, err)
    BY <1>1, <2>1, <2>2, <2>4 DEF TypeOK, Sent, Failed
  <2>5. CASE fpc[d] = "wait" /\ fpc' = [fpc EXCEPT ![d] = "ok"] /\ attempt' = attempt
    BY <1>1, <2>2, <2>5 DEF TypeOK, Sent
  <2> QED
    BY <2>3, <2>4, <2>5
<1>6. ASSUME NEW d \in Calls, Tick(d) PROVE UNCHANGED <<fpc, attempt>>
  BY <1>6 DEF Tick
<1>7. ASSUME Brain \/ UNCHANGED fvars PROVE UNCHANGED <<fpc, attempt>>
  BY <1>7 DEF Brain, BrainIngests, BrainRefuses, Lose, fvars, callVars
<1> QED
  BY <1>2, <1>3, <1>4, <1>5, <1>6, <1>7 DEF Next, Client

\* Only Send transmits; brain and network add no request.
LEMMA OnlySendTransmits ==
    ASSUME [Next]_fvars, \A d \in Calls : ~Send(d), NEW c
    PROVE  Transmissions(c)' \subseteq Transmissions(c)
<1>1. ASSUME NEW m \in wire, BrainIngests(m) \/ BrainRefuses(m) \/ Lose(m)
      PROVE  Transmissions(c)' \subseteq Transmissions(c)
  BY <1>1 DEF BrainIngests, BrainRefuses, Lose, Transmissions
<1>2. CASE UNCHANGED <<wire, ingested>>
  BY <1>2 DEF Transmissions
<1>3. ASSUME NEW d \in Calls, \/ \E b \in 0..Budget : Start(d, b)
                             \/ Client(d) \/ Breaks(d) \/ Tick(d)
      PROVE  UNCHANGED <<wire, ingested>>
  BY <1>3 DEF Start, Client, SendFails, Receive, Expires, Retry, Cancel, Breaks, Tick, brainVars
<1> QED
  BY <1>1, <1>2, <1>3 DEF Next, Brain, fvars, brainVars

\* Every step keeps the bound.
LEMMA BoundedStep == IInv /\ Bounded /\ [Next]_fvars => Bounded'
<1> SUFFICES ASSUME IInv, Bounded, [Next]_fvars PROVE Bounded'
  OBVIOUS
<1>1. \A m \in ingested' : m[2] \in seen'
  <2>1. CASE Brain
    BY <2>1 DEF Bounded, Brain, BrainIngests, BrainRefuses, Lose
  <2>2. CASE UNCHANGED <<seen, ingested>>
    BY <2>2 DEF Bounded
  <2>3. ASSUME NEW d \in Calls, \/ \E b \in 0..Budget : Start(d, b)
                               \/ Client(d) \/ Breaks(d) \/ Tick(d)
        PROVE  UNCHANGED <<seen, ingested>>
    BY <2>3 DEF Start, Client, Send, SendFails, Receive, Expires, Retry, Cancel, Breaks, Tick,
                brainVars
  <2> QED
    BY <2>1, <2>2, <2>3 DEF Next, fvars, brainVars
<1>2. ASSUME NEW c \in Calls
      PROVE  /\ IsFiniteSet(Transmissions(c)')
             /\ Cardinality(Transmissions(c)') <= Sent(c)'
  <2>1. /\ IsFiniteSet(Transmissions(c)) /\ Cardinality(Transmissions(c)) \in Nat
        /\ Cardinality(Transmissions(c)) <= Sent(c)
    BY FS_CardinalityType DEF Bounded
  <2>2. /\ Sent(c) \in Nat /\ Sent(c)' \in Nat
        /\ Sent(c) <= Sent(c)'
        /\ Send(c) => Sent(c)' = Sent(c) + 1
    BY SentGrows DEF MaxAttempts
  <2>3. CASE Send(c)
    <3>1. Transmissions(c)' = Transmissions(c) \cup {<<c, minted + 1>>}
      BY <2>3 DEF Send, Transmissions
    <3>2. /\ IsFiniteSet(Transmissions(c)')
          /\ \/ Cardinality(Transmissions(c)') = Cardinality(Transmissions(c))
             \/ Cardinality(Transmissions(c)') = Cardinality(Transmissions(c)) + 1
      BY <2>1, <3>1, FS_AddElement
    <3> QED
      BY <2>1, <2>2, <2>3, <3>2
  <2>4. CASE Transmissions(c)' \subseteq Transmissions(c)
    <3>1. IsFiniteSet(Transmissions(c)') /\ Cardinality(Transmissions(c)') <= Cardinality(Transmissions(c))
      BY <2>1, <2>4, FS_Subset
    <3>2. Cardinality(Transmissions(c)') \in Nat
      BY <3>1, FS_CardinalityType
    <3> QED
      BY <2>1, <2>2, <3>1, <3>2
  <2>5. ASSUME NEW d \in Calls, Send(d), d # c PROVE Transmissions(c)' = Transmissions(c)
    BY <2>5 DEF Send, Transmissions
  <2> QED
    BY <2>3, <2>4, <2>5, OnlySendTransmits
<1> QED
  BY <1>1, <1>2 DEF Bounded

\* The bound holds at first.
LEMMA BoundedInit == Init => Bounded
<1> SUFFICES ASSUME Init PROVE Bounded
  OBVIOUS
<1>1. \A c \in Calls : Transmissions(c) = {} /\ Sent(c) = 0
  BY DEF Init, Transmissions, Sent
<1> QED
  BY <1>1, FS_EmptySet DEF Init, Bounded

\* At most three copies of a payload, one for each attempt of the loop, are ever
\* with the brain or on their way to it, also after Forward has given up.
AtMostThreeCopies ==
    \A c \in Calls : Cardinality({m \in wire \cup ingested : m[1] = c}) <= MaxAttempts

\* The loop of Forward transmits a payload at most MaxAttempts times.
THEOREM CopiesBounded == Spec => []AtMostThreeCopies
<1>1. IInv /\ Bounded => AtMostThreeCopies
  <2> SUFFICES ASSUME IInv, Bounded, NEW c \in Calls
               PROVE  Cardinality(Transmissions(c)) <= MaxAttempts
    BY DEF AtMostThreeCopies, Transmissions
  <2>1. Sent(c) \in Nat /\ Sent(c) <= MaxAttempts
    BY DEF IInv, TypeOK, Sent, MaxAttempts
  <2>2. Cardinality(Transmissions(c)) \in Nat /\ Cardinality(Transmissions(c)) <= Sent(c)
    BY FS_CardinalityType DEF Bounded
  <2> QED
    BY <2>1, <2>2 DEF MaxAttempts
<1>2. Spec => []Bounded
  BY BoundedInit, BoundedStep, Invariance, PTL DEF Spec
<1> QED
  BY <1>1, <1>2, Invariance, PTL

==============================================================================
