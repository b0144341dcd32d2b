------------------------------ MODULE Forwarder ------------------------------
(***************************************************************************)
(* Delivery of one payload to the brain (internal/forwarder/forwarder.go): *)
(* up to three attempts with exponential backoff under the deadline of the *)
(* caller's context, an attempt being a gRPC or a signed HTTP Ingest call. *)
(*                                                                         *)
(* The brain and the network are external.  An attempt the client has      *)
(* given up on may still reach the brain, an answer may be lost, and the   *)
(* brain refuses a nonce it has seen ("replay").  Time is counted in       *)
(* seconds, by call: left is what remains of the caller's context.         *)
(***************************************************************************)
EXTENDS Integers, FiniteSets

CONSTANTS
    Calls,      \* calls of Forward
    Budget,     \* bound: most seconds a context has left when Forward starts
    Codes       \* errors the brain may answer with (a set of strings)

ASSUME ForwarderAssumption ==
    /\ Budget \in Nat
    /\ Codes \cap {"ok", "none"} = {}

VARIABLES
    fpc,        \* where a call is
    attempt,    \* the loop variable: 0, 1 or 2
    budget,     \* seconds its context had when it started
    left,       \* seconds its context still has
    timer,      \* seconds until its backoff timer fires
    lastErr,    \* the error of its last attempt
    nonceOf,    \* the nonce of its current attempt
    minted,     \* nonces drawn so far (FreshNonce never repeats)
    wire,       \* requests on their way: <<call, nonce>>
    seen,       \* nonces in the brain's replay cache
    replies,    \* answers on their way: <<nonce, answer>>
    ingested    \* requests the brain has accepted: <<call, nonce>>

callVars == <<fpc, attempt, budget, left, timer, lastErr, nonceOf>>
brainVars == <<wire, seen, replies, ingested>>
fvars == <<callVars, minted, brainVars>>

FPCs == {"idle", "send", "wait", "backoff", "ok", "error"}

MaxAttempts == 3

GrpcPermanent ==
    {"InvalidArgument", "Unauthenticated", "PermissionDenied",
     "FailedPrecondition", "NotFound", "Unimplemented"}

\* HTTPError.Permanent
HttpPermanent == {"400", "401", "403", "404", "412", "413", "415"}

\* Mutant: an HTTPError is not looked into.
isPermanentGrpc(err) == err \in GrpcPermanent

\* Mutant: every HTTPError is permanent.
isPermanentHttp(err) == err \in GrpcPermanent \cup HttpPermanent \cup {"500", "503"}

isPermanent(err) == err \in GrpcPermanent \cup HttpPermanent

\* Mutant: the shift starts at one second.
BackoffShort(n) == IF n = 1 THEN 1 ELSE 2

\* 1 << attempt, in seconds, for the attempts that wait.
Backoff(n) == IF n = 1 THEN 2 ELSE 4

\* Errors the client makes itself: the context is over, the connection broke,
\* the client cert could not be loaded.
LocalErrors == {"DeadlineExceeded", "Unavailable", "Unknown"}

Errors == Codes \cup LocalErrors \cup {"Unauthenticated"}

TypeOK ==
    /\ fpc \in [Calls -> FPCs]
    /\ attempt \in [Calls -> 0..(MaxAttempts - 1)]
    /\ budget \in [Calls -> 0..Budget]
    /\ left \in [Calls -> 0..Budget]
    /\ timer \in [Calls -> 0..4]
    /\ lastErr \in [Calls -> Errors \cup {"none"}]
    /\ nonceOf \in [Calls -> Nat]
    /\ minted \in Nat
    /\ wire \subseteq Calls \X Nat
    /\ seen \subseteq Nat
    /\ replies \subseteq Nat \X (Errors \cup {"ok"})
    /\ ingested \subseteq Calls \X Nat

Init ==
    /\ fpc = [c \in Calls |-> "idle"]
    /\ attempt = [c \in Calls |-> 0]
    /\ budget = [c \in Calls |-> 0]
    /\ left = [c \in Calls |-> 0]
    /\ timer = [c \in Calls |-> 0]
    /\ lastErr = [c \in Calls |-> "none"]
    /\ nonceOf = [c \in Calls |-> 0]
    /\ minted = 0
    /\ wire = {}
    /\ seen = {}
    /\ replies = {}
    /\ ingested = {}

-----------------------------------------------------------------------------
(* The call *)

\* Forward is called with b seconds left in its context.
Start(c, b) ==
    /\ fpc[c] = "idle"
    /\ fpc' = [fpc EXCEPT ![c] = "send"]
    /\ budget' = [budget EXCEPT ![c] = b]
    /\ left' = [left EXCEPT ![c] = b]
    /\ UNCHANGED <<attempt, timer, lastErr, nonceOf, minted, brainVars>>

\* Mutant: the payload keeps the nonce of its first attempt.
SendSameNonce(c) ==
    /\ fpc[c] = "send"
    /\ left[c] > 0
    /\ nonceOf' = [nonceOf EXCEPT ![c] = IF attempt[c] = 0 THEN minted + 1 ELSE @]
    /\ minted' = minted + 1
    /\ wire' = wire \cup {<<c, nonceOf'[c]>>}
    /\ fpc' = [fpc EXCEPT ![c] = "wait"]
    /\ UNCHANGED <<attempt, budget, left, timer, lastErr, seen, replies, ingested>>

\* send: a fresh timestamp and nonce, then the request goes out.
Send(c) ==
    /\ fpc[c] = "send"
    /\ left[c] > 0
    /\ nonceOf' = [nonceOf EXCEPT ![c] = minted + 1]
    /\ minted' = minted + 1
    /\ wire' = wire \cup {<<c, minted + 1>>}
    /\ fpc' = [fpc EXCEPT ![c] = "wait"]
    /\ UNCHANGED <<attempt, budget, left, timer, lastErr, seen, replies, ingested>>

\* Mutant: the loop runs once too often.
FailedLate(c, err) ==
    /\ lastErr' = [lastErr EXCEPT ![c] = err]
    /\ IF isPermanent(err) \/ attempt[c] = MaxAttempts
       THEN /\ fpc' = [fpc EXCEPT ![c] = "error"]
            /\ UNCHANGED <<attempt, timer>>
       ELSE /\ fpc' = [fpc EXCEPT ![c] = "backoff"]
            /\ attempt' = [attempt EXCEPT ![c] = @ + 1]
            /\ timer' = [timer EXCEPT ![c] = Backoff(attempt[c] + 1)]

\* An attempt ended in err: give up, or count a retry and start the timer.
Failed(c, err) ==
    /\ lastErr' = [lastErr EXCEPT ![c] = err]
    /\ IF isPermanent(err) \/ attempt[c] = MaxAttempts - 1
       THEN /\ fpc' = [fpc EXCEPT ![c] = "error"]
            /\ UNCHANGED <<attempt, timer>>
       ELSE /\ fpc' = [fpc EXCEPT ![c] = "backoff"]
            /\ attempt' = [attempt EXCEPT ![c] = @ + 1]
            /\ timer' = [timer EXCEPT ![c] = Backoff(attempt[c] + 1)]

\* send fails before anything is sent: the context is already over, or (signed
\* transport) no client cert can be loaded.
SendFails(c) ==
    /\ fpc[c] = "send"
    /\ \/ left[c] = 0 /\ Failed(c, "DeadlineExceeded")
       \/ Failed(c, "Unknown")
    /\ UNCHANGED <<budget, left, nonceOf, minted, brainVars>>

\* Mutant: any answer to the call is taken for the answer to this attempt.
ReceiveAny(c) ==
    /\ fpc[c] = "wait"
    /\ \E r \in replies :
          \/ /\ r[2] = "ok"
             /\ fpc' = [fpc EXCEPT ![c] = "ok"]
             /\ UNCHANGED <<attempt, timer, lastErr>>
          \/ /\ r[2] # "ok"
             /\ Failed(c, r[2])
    /\ UNCHANGED <<budget, left, nonceOf, minted, brainVars>>

\* The answer to the current attempt arrives.
Receive(c) ==
    /\ fpc[c] = "wait"
    /\ \E r \in replies :
          /\ r[1] = nonceOf[c]
          /\ \/ /\ r[2] = "ok"
                /\ fpc' = [fpc EXCEPT ![c] = "ok"]
                /\ UNCHANGED <<attempt, timer, lastErr>>
             \/ /\ r[2] # "ok"
                /\ Failed(c, r[2])
    /\ UNCHANGED <<budget, left, nonceOf, minted, brainVars>>

\* No answer, because the connection broke.  The request may be on its way
\* all the same.
Breaks(c) ==
    /\ fpc[c] = "wait"
    /\ Failed(c, "Unavailable")
    /\ UNCHANGED <<budget, left, nonceOf, minted, brainVars>>

\* Mutant: the context is not passed to the call.
ExpiresNever(c) ==
    /\ fpc[c] = "wait"
    /\ left[c] < 0
    /\ Failed(c, "DeadlineExceeded")
    /\ UNCHANGED <<budget, left, nonceOf, minted, brainVars>>

\* No answer before the context ended.
Expires(c) ==
    /\ fpc[c] = "wait"
    /\ left[c] = 0
    /\ Failed(c, "DeadlineExceeded")
    /\ UNCHANGED <<budget, left, nonceOf, minted, brainVars>>

\* The select of the backoff: the timer fires ...
Retry(c) ==
    /\ fpc[c] = "backoff"
    /\ timer[c] = 0
    /\ fpc' = [fpc EXCEPT ![c] = "send"]
    /\ UNCHANGED <<attempt, budget, left, timer, lastErr, nonceOf, minted, brainVars>>

\* ... or the context is done.  When both are ready, either may be taken.
Cancel(c) ==
    /\ fpc[c] = "backoff"
    /\ left[c] = 0
    /\ fpc' = [fpc EXCEPT ![c] = "error"]
    /\ UNCHANGED <<attempt, budget, left, timer, lastErr, nonceOf, minted, brainVars>>

\* A second passes for a waiting call.  Once the context is over the call is
\* woken at once.
Tick(c) ==
    /\ fpc[c] \in {"wait", "backoff"}
    /\ left[c] > 0
    /\ left' = [left EXCEPT ![c] = @ - 1]
    /\ timer' = [timer EXCEPT ![c] = IF @ > 0 THEN @ - 1 ELSE 0]
    /\ UNCHANGED <<fpc, attempt, budget, lastErr, nonceOf, minted, brainVars>>

-----------------------------------------------------------------------------
(* The brain and the network (external) *)

\* A request whose nonce is new is accepted.
BrainIngests(m) ==
    /\ m \in wire
    /\ m[2] \notin seen
    /\ wire' = wire \ {m}
    /\ seen' = seen \cup {m[2]}
    /\ ingested' = ingested \cup {m}
    /\ replies' = replies \cup {<<m[2], "ok">>}
    /\ UNCHANGED <<callVars, minted>>

\* A request is refused, a known nonce as a replay, or its handling fails,
\* before or after the replay cache has noted it.
BrainRefuses(m) ==
    /\ m \in wire
    /\ wire' = wire \ {m}
    /\ \E code \in Codes \cup IF m[2] \in seen THEN {"Unauthenticated"} ELSE {} :
          replies' = replies \cup {<<m[2], code>>}
    /\ seen' = seen \/ seen' = seen \cup {m[2]}
    /\ UNCHANGED <<callVars, minted, ingested>>

\* A request never arrives.
Lose(m) ==
    /\ m \in wire
    /\ wire' = wire \ {m}
    /\ UNCHANGED <<callVars, minted, seen, replies, ingested>>

Client(c) ==
    Send(c) \/ SendFails(c) \/ Receive(c) \/ Expires(c) \/ Retry(c) \/ Cancel(c)

Brain == \E m \in wire : BrainIngests(m) \/ BrainRefuses(m) \/ Lose(m)

Next ==
    \/ \E c \in Calls : \/ \E b \in 0..Budget : Start(c, b)
                        \/ Client(c) \/ Breaks(c) \/ Tick(c)
    \/ Brain

Spec == Init /\ [][Next]_fvars

\* Time passes and goroutines run; nothing is assumed of brain or network,
\* which need neither answer nor break the connection.
CallFairness == \A c \in Calls : WF_fvars(Client(c)) /\ WF_fvars(Tick(c))

FairSpec == Spec /\ CallFairness

-----------------------------------------------------------------------------
(* Properties *)

Ended(c) == fpc[c] \in {"ok", "error"}

\* Forward reports success only for a payload the brain has accepted: not for
\* an answer to another call, nor to an attempt it has given up on.
OkWasIngested ==
    \A c \in Calls : fpc[c] = "ok" => <<c, nonceOf[c]>> \in ingested

\* What a retry will not fix according to the documents: the codes in the
\* comment on Forward, and "Retry: no" in the table of signed-transport.md ...
Refusals == {"InvalidArgument", "Unauthenticated", "PermissionDenied",
             "400", "401", "403", "415"}

\* ... and what must be retried: "transient (Unavailable / DeadlineExceeded)
\* failures", "5xx", and plain transport errors (TestIsPermanent_HTTPError).
Passing == {"Unavailable", "DeadlineExceeded", "Unknown", "500", "503"}

\* Forward gives up only for a reason: three failed attempts, the end of the
\* caller's context, or an error that is permanent and that no document calls
\* transient, on either transport.
GivesUpWithCause ==
    \A c \in Calls : fpc[c] = "error" =>
        \/ isPermanent(lastErr[c]) /\ lastErr[c] \notin Passing
        \/ attempt[c] = MaxAttempts - 1
        \/ left[c] = 0

\* "treated as permanent ... which a retry will not fix": no attempt follows a
\* permanent error or one that the documents call permanent, on either
\* transport, and every later attempt follows an error.
RetriesOnlyTransient ==
    \A c \in Calls : fpc[c] \in {"send", "wait", "backoff"} =>
        IF attempt[c] = 0
        THEN lastErr[c] = "none"
        ELSE /\ lastErr[c] # "none"
             /\ ~isPermanent(lastErr[c])
             /\ lastErr[c] \notin Refusals

\* The seconds of backoff before an attempt, all timers together.
Floor(n) == IF n = 0 THEN 0 ELSE IF n = 1 THEN 2 ELSE 6

\* "with exponential backoff": the second request leaves at least 2 seconds
\* after Forward began, the third at least 6, whatever the answers' delays.
BackoffRespected ==
    \A c \in Calls : fpc[c] = "wait" => budget[c] - left[c] >= Floor(attempt[c])

\* A retry is never mistaken for a replay of the attempt before it, also when
\* that attempt reached the brain and only its answer was lost: every
\* transmission carries a nonce of its own.
RetryIsNoReplay == \A m \in wire : m[2] \notin seen

\* Every call of Forward comes to an end, whatever brain and network do.
ForwardReturns == \A c \in Calls : fpc[c] = "send" ~> Ended(c)

=============================================================================
