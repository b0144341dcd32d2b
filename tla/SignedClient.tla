----------------------------- MODULE SignedClient -----------------------------
(***************************************************************************)
(* The client of the signed HTTP transport (internal/auth/                 *)
(* signedclient.go): every request is sealed to an HPKE key of the brain,  *)
(* which the client caches for a day and fetches again when the brain says *)
(* it no longer knows it.                                                  *)
(*                                                                         *)
(* All workers share one client.  activeKey holds its mutex for as long as *)
(* it downloads the key document; everything else runs unlocked.  A key is *)
(* its version number, the first usable one of the document; the checks of *)
(* the document are not modelled beyond their failure.  What a request     *)
(* consists of is Envelope's.                                              *)
(*                                                                         *)
(* The brain, and the edge in front of it that ends the TLS connections,   *)
(* are external.  The edge may deliver a request late, again or never, put *)
(* parts of one request into another one, and hand an answer to the wrong  *)
(* connection.  The brain goes through the checks of fakeSignedBrain in    *)
(* signedclient_test.go and takes a nonce once.  A refusal has no seal:    *)
(* the model takes it to be the brain's, about the request as it was sent. *)
(***************************************************************************)
EXTENDS Integers, FiniteSets, Envelope

CONSTANTS
    Callers,    \* goroutines, with one call each
    Endpoints,  \* the endpoints they may call
    None,       \* nobody holds the mutex; no certificate, no signature
    MaxKey      \* bound: key versions of the brain

ASSUME SignedClientAssumption ==
    /\ None \notin Callers
    /\ Endpoints \subseteq {"bootstrap", "ingest", "sign-csr"}
    /\ MaxKey \in Nat \ {0}

VARIABLES
    op,         \* the endpoint each call is for
    pc,         \* where a call is
    refresh,    \* the call is in its second once(), with refreshKeys set
    key,        \* the key version it seals to, 0: none yet
    doc,        \* the version in the document it is downloading, 0: none
    err,        \* the error it returned
    holder,     \* who holds SignedClient.mu
    cache,      \* SignedClient.keys[0], 0: none
    stale,      \* SignedClient.fetched is more than signedKeysTTL ago
    current,    \* the version the brain advertises
    held,       \* the versions it can still open
    wire,       \* requests posted: <<caller, refresh, key>>
    replies,    \* answers, by the connection they are handed to
    handled,    \* requests the brain has acted upon, as it understood them
    retriedAt   \* ghost: the advertised version when a call began its retry

callVars == <<op, pc, refresh, key, doc, err, retriedAt>>
cacheVars == <<holder, cache, stale>>
brainVars == <<current, held, wire, replies, handled>>
vars == <<callVars, cacheVars, brainVars>>

PCs == {"idle", "lock", "fetch", "store", "send", "wait", "ok", "error"}

Versions == 0..MaxKey

\* Bootstrap is sealed but unsigned, there is no certificate yet.
Signed == Endpoints \ {"bootstrap"}

Cred(c) == IF op[c] \in Signed THEN c ELSE None

\* A connection carries one request and its answer.
Connections == Callers \X BOOLEAN

\* The sealed body and the opener of a request, and the request: its path, its
\* headers and its body.
Sealed(m) == SealRequest(m[3], op[m[1]], <<m[1], m[2]>>, m[1], <<m[1], m[2]>>)

Request(m) ==
    LET c == m[1]
        h == [path      |-> op[c],
              digest    |-> ContentDigest(Sealed(m).body),
              stamp     |-> <<c, m[2]>>,
              cert      |-> Cred(c),
              kid       |-> m[3],
              signature |-> None,
              body      |-> Sealed(m).body]
    IN  IF Cred(c) = None THEN h ELSE SignRequest(h, c)

TypeOK ==
    /\ op \in [Callers -> Endpoints]
    /\ pc \in [Callers -> PCs]
    /\ refresh \in [Callers -> BOOLEAN]
    /\ key \in [Callers -> Versions]
    /\ doc \in [Callers -> Versions]
    /\ err \in [Callers -> {"none", "fetch", "hpke_key_unknown", "sealed_malformed", "http"}]
    /\ holder \in Callers \cup {None}
    /\ \A c \in Callers : pc[c] \in {"fetch", "store"} <=> holder = c
    /\ cache \in Versions
    /\ stale \in BOOLEAN
    /\ current \in 1..MaxKey
    /\ held \subseteq 1..MaxKey
    /\ wire \subseteq Callers \X BOOLEAN \X Versions
    /\ \A r \in replies : /\ r.to \in Connections
                          /\ r.answer \in {"ok", "hpke_key_unknown", "http"}
    /\ \A h \in handled : /\ h.path \in Endpoints
                          /\ h.pt \in Callers
                          /\ h.cert \in Callers \cup {None}
    /\ retriedAt \in [Callers -> Versions]

Init ==
    /\ op \in [Callers -> Endpoints]
    /\ pc = [c \in Callers |-> "idle"]
    /\ refresh = [c \in Callers |-> FALSE]
    /\ key = [c \in Callers |-> 0]
    /\ doc = [c \in Callers |-> 0]
    /\ err = [c \in Callers |-> "none"]
    /\ holder = None
    /\ cache = 0
    /\ stale = FALSE
    /\ current = 1
    /\ held = {1}
    /\ wire = {}
    /\ replies = {}
    /\ handled = {}
    /\ retriedAt = [c \in Callers |-> 0]

GoTo(c, label) == pc' = [pc EXCEPT ![c] = label]

Fail(c, e) == GoTo(c, "error") /\ err' = [err EXCEPT ![c] = e]

-----------------------------------------------------------------------------
(* call, once and activeKey *)

\* Bootstrap, Renew or Ingest is called.
Start(c) ==
    /\ pc[c] = "idle"
    /\ GoTo(c, "lock")
    /\ UNCHANGED <<op, refresh, key, doc, err, retriedAt, cacheVars, brainVars>>

\* Mutant: two calls may be inside activeKey.
ActiveKeyUnlocked(c) ==
    /\ pc[c] = "lock"
    /\ \/ /\ refresh[c] \/ cache = 0 \/ stale
          /\ GoTo(c, "fetch")
          /\ UNCHANGED <<key, holder>>
       \/ /\ ~(refresh[c] \/ cache = 0 \/ stale)
          /\ key' = [key EXCEPT ![c] = cache]
          /\ GoTo(c, "send")
          /\ UNCHANGED holder
    /\ UNCHANGED <<op, refresh, doc, err, retriedAt, cache, stale, brainVars>>

\* Mutant: the retry is content with the cached key.
ActiveKeyNoRefresh(c) ==
    /\ pc[c] = "lock"
    /\ holder = None
    /\ \/ /\ cache = 0 \/ stale
          /\ holder' = c
          /\ GoTo(c, "fetch")
          /\ UNCHANGED key
       \/ /\ ~(cache = 0 \/ stale)
          /\ key' = [key EXCEPT ![c] = cache]
          /\ GoTo(c, "send")
          /\ UNCHANGED holder
    /\ UNCHANGED <<op, refresh, doc, err, retriedAt, cache, stale, brainVars>>

\* activeKey: with the mutex, the cached key is taken, or a fetch begins when
\* it is missing, stale or refused.
ActiveKey(c) ==
    /\ pc[c] = "lock"
    /\ holder = None
    /\ \/ /\ refresh[c] \/ cache = 0 \/ stale
          /\ holder' = c
          /\ GoTo(c, "fetch")
          /\ UNCHANGED key
       \/ /\ ~(refresh[c] \/ cache = 0 \/ stale)
          /\ key' = [key EXCEPT ![c] = cache]
          /\ GoTo(c, "send")
          /\ UNCHANGED holder
    /\ UNCHANGED <<op, refresh, doc, err, retriedAt, cache, stale, brainVars>>

\* The brain serves its key document.
FetchServed(c) ==
    /\ pc[c] = "fetch"
    /\ doc' = [doc EXCEPT ![c] = current]
    /\ GoTo(c, "store")
    /\ UNCHANGED <<op, refresh, key, err, retriedAt, cacheVars, brainVars>>

\* Mutant: an early return without the unlock.
FetchFailsLocked(c) ==
    /\ pc[c] \in {"fetch", "store"}
    /\ Fail(c, "fetch")
    /\ UNCHANGED <<op, refresh, key, doc, retriedAt, cacheVars, brainVars>>

\* The document does not arrive, cannot be verified or has no usable key.  The
\* cache is left alone and the mutex released.
FetchFails(c) ==
    /\ pc[c] \in {"fetch", "store"}
    /\ Fail(c, "fetch")
    /\ doc' = [doc EXCEPT ![c] = 0]
    /\ holder' = None
    /\ UNCHANGED <<op, refresh, key, retriedAt, cache, stale, brainVars>>

\* fetchKeysLocked ends well: the keys are stored and the first one is used.
Store(c) ==
    /\ pc[c] = "store"
    /\ cache' = doc[c]
    /\ stale' = FALSE
    /\ key' = [key EXCEPT ![c] = doc[c]]
    /\ doc' = [doc EXCEPT ![c] = 0]
    /\ holder' = None
    /\ GoTo(c, "send")
    /\ UNCHANGED <<op, refresh, err, retriedAt, brainVars>>

\* The request is sealed, signed and posted, with a nonce of its own.
Send(c) ==
    /\ pc[c] = "send"
    /\ wire' = wire \cup {<<c, refresh[c], key[c]>>}
    /\ GoTo(c, "wait")
    /\ UNCHANGED <<op, refresh, key, doc, err, retriedAt, cacheVars, current, held,
                   replies, handled>>

\* The error the second once() is for.
KeyRefused(r) == r.answer = "hpke_key_unknown"

\* A 200 is an answer only if it opens with the key of this very request.
Opens(c, r) ==
    /\ r.answer = "ok"
    /\ OpenResponse(Sealed(<<c, refresh[c], key[c]>>).opener, r.sealed)

\* once() returns: its connection is gone, with an answer nobody has read.
Hangup(c) ==
    /\ key' = [key EXCEPT ![c] = 0]
    /\ replies' = {r \in replies : r.to[1] # c}

\* The answer arrives.  A key the brain does not know is refreshed and the
\* request sent once more; any other answer is the end of the call.
Receive(c) ==
    /\ pc[c] = "wait"
    /\ \E r \in replies :
          /\ r.to = <<c, refresh[c]>>
          /\ \/ /\ Opens(c, r)
                /\ GoTo(c, "ok")
                /\ UNCHANGED <<refresh, err, retriedAt>>
             \/ /\ KeyRefused(r) /\ ~refresh[c]
                /\ refresh' = [refresh EXCEPT ![c] = TRUE]
                /\ retriedAt' = [retriedAt EXCEPT ![c] = current]
                /\ GoTo(c, "lock")
                /\ UNCHANGED err
             \/ /\ ~Opens(c, r) /\ ~(KeyRefused(r) /\ ~refresh[c])
                /\ Fail(c, IF r.answer = "ok" THEN "sealed_malformed" ELSE r.answer)
                /\ UNCHANGED <<refresh, retriedAt>>
    /\ Hangup(c)
    /\ UNCHANGED <<op, doc, cacheVars, current, held, wire, handled>>

\* No answer before the context or the client's own timeout ended, or sealing
\* or signing failed.
TimesOut(c) ==
    /\ pc[c] \in {"send", "wait"}
    /\ Fail(c, "http")
    /\ Hangup(c)
    /\ UNCHANGED <<op, refresh, doc, retriedAt, cacheVars, current, held, wire,
                   handled>>

-----------------------------------------------------------------------------
(* The brain, the edge and time (external) *)

Connection(m) == <<m[1], m[2]>>

\* One answer per exchange; none for a caller that has hung up.
Answer(conn, answer, sealed) ==
    LET awaited == /\ pc[conn[1]] = "wait" /\ refresh[conn[1]] = conn[2]
                   /\ \A r \in replies : r.to # conn
    IN  replies' = IF awaited
                   THEN replies \cup {[to |-> conn, answer |-> answer, sealed |-> sealed]}
                   ELSE replies

\* The brain's memory of nonces, asked before a seal is opened.
Fresh(stamp) == \A h \in handled : h.stamp # stamp

\* The brain's checks, in their order.
Accepts(r) ==
    /\ VerifyContentDigest(r, r.body)
    /\ r.path \in Signed => VerifyRequest(r, None)
    /\ Fresh(r.stamp)
    /\ OpenRequest(held, r.kid, r.path, r.stamp, r.body) = "ok"

\* The brain's view of a request it accepts.
View(r) == [path  |-> r.path,
            stamp |-> r.stamp,
            cert  |-> IF r.path \in Signed THEN r.cert ELSE None,
            pt    |-> r.body.ct.pt]

\* What the edge can make of two requests.
Mixtures(a, b) ==
    [path      : {a.path, b.path},
     digest    : {a.digest, b.digest},
     stamp     : {a.stamp, b.stamp},
     cert      : {a.cert, b.cert},
     kid       : {a.kid, b.kid},
     signature : {a.signature, b.signature},
     body      : {a.body, b.body}]

\* The brain gets a request that the edge made of m and n, acts upon it if it
\* passes the checks, and answers, if only with an error after the fact; the
\* edge hands the answer to either connection.
BrainActs(m, n) ==
    /\ \E r \in Mixtures(Request(m), Request(n)) :
          /\ Accepts(r)
          /\ handled' = handled \cup {View(r)}
          /\ \E x \in {m, n} :
                \/ Answer(Connection(x), "ok",
                          SealResponse(ResponseSealer(r.kid, r.path, r.body)))
                \/ Answer(Connection(x), "http", None)
    /\ UNCHANGED <<callVars, cacheVars, current, held, wire>>

\* Any request may be refused: by a check, as too old, under load.
BrainRefuses(m) ==
    /\ Answer(Connection(m), "http", None)
    /\ UNCHANGED <<callVars, cacheVars, current, held, wire, handled>>

BrainKnowsNot(m) ==
    /\ m[3] \notin held
    /\ Fresh(Connection(m))
    /\ Answer(Connection(m), "hpke_key_unknown", None)
    /\ UNCHANGED <<callVars, cacheVars, current, held, wire, handled>>

\* The brain rotates: a new key is advertised, the old one still opens ...
Rotate ==
    /\ current < MaxKey
    /\ current' = current + 1
    /\ held' = held \cup {current + 1}
    /\ UNCHANGED <<callVars, cacheVars, wire, replies, handled>>

\* ... until it is dropped.
Retire(v) ==
    /\ v \in held
    /\ v # current
    /\ held' = held \ {v}
    /\ UNCHANGED <<callVars, cacheVars, current, wire, replies, handled>>

\* A day passes.
CacheAges ==
    /\ cache # 0
    /\ ~stale
    /\ stale' = TRUE
    /\ UNCHANGED <<callVars, holder, cache, brainVars>>

Call(c) ==
    \/ ActiveKey(c) \/ FetchServed(c) \/ FetchFails(c) \/ Store(c)
    \/ Send(c) \/ Receive(c) \/ TimesOut(c)

Brain ==
    \/ \E m, n \in wire : BrainActs(m, n)
    \/ \E m \in wire : BrainRefuses(m) \/ BrainKnowsNot(m)
    \/ \E v \in held : Retire(v)
    \/ Rotate \/ CacheAges

Next == (\E c \in Callers : Start(c) \/ Call(c)) \/ Brain

Spec == Init /\ [][Next]_vars

\* Goroutines run, the mutex is granted to who waits for it, and every HTTP
\* exchange ends, if only by its timeout.  Nothing is assumed of the brain.
CallFairness == \A c \in Callers : WF_vars(Call(c))

FairSpec == Spec /\ CallFairness

-----------------------------------------------------------------------------
(* Properties *)

\* "the client refetches keys and retries once": a rotation of the brain's key
\* is invisible to the caller.  A call ends with hpke_key_unknown only if the
\* brain rotated yet again after the call had begun its retry.
RotationIsTransparent ==
    \A c \in Callers : err[c] = "hpke_key_unknown" => current > retriedAt[c]

\* What the brain acts upon is what some caller sent, under its endpoint, its
\* time stamp and nonce and, where there is one, its certificate: no mixture of
\* requests that an edge can make passes digest, signature and seal.
AcceptedAsSent ==
    \A h \in handled :
        /\ h.path = op[h.pt]
        /\ h.cert = Cred(h.pt)
        /\ h.stamp \in {Connection(m) : m \in {x \in wire : x[1] = h.pt}}

\* The key cache never goes back to an older key, however many calls refresh
\* it at the same time: downloads are serialised by the mutex.
CacheNeverRegresses == [][cache' >= cache]_vars

\* Every call returns, even if the brain never answers and others are fetching
\* keys: the mutex that is held across the download is always given back.
SignedCallReturns == \A c \in Callers : pc[c] = "lock" ~> pc[c] \in {"ok", "error"}

RC == INSTANCE RemoteCall WITH
    status <- [c \in Callers |-> IF pc[c] \in {"idle", "ok", "error"} THEN pc[c]
                                                                     ELSE "open"],
    acts <- [c \in Callers |-> Cardinality({h \in handled : h.pt = c})]

\* A call implements RemoteCall: it is acted upon at most once although it may
\* be sent twice, since only a request that cannot be opened is sent again, and
\* a caller is told of success only if the brain acted upon its own request,
\* since the response key comes from the request.
ImplementsCall == RC!Spec

===============================================================================
