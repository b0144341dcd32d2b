-------------------------- MODULE SignedClientProofs --------------------------
(***************************************************************************)
(* Proofs about the signed client for any number of concurrent calls and   *)
(* of key rotations, and that it implements RemoteCall.                    *)
(***************************************************************************)
EXTENDS SignedClient, FiniteSetTheorems, TLAPS

(***************************************************************************)
(* The inductive invariant.  CacheNeverRegresses needs the document under  *)
(* the mutex to be no older than the cache.  RotationIsTransparent follows *)
(* the key of a retry from the document to the wire: it is no older than   *)
(* the retry, and the advertised key can be opened.  That a call is acted  *)
(* upon once, although it is sent twice, needs the key of the first        *)
(* request to stay closed once the brain has refused it.                   *)
(***************************************************************************)

\* Every key that the client has is one that the brain has advertised.
Advertised ==
    /\ cache <= current
    /\ \A c \in Callers : /\ doc[c] <= current /\ key[c] <= current
                          /\ retriedAt[c] <= current
                          /\ pc[c] = "store" => cache <= doc[c]
    /\ current \in held
    /\ \A v \in held : v <= current
    /\ \A m \in wire : m[3] <= current

\* A retry uses a key from a document downloaded for it.
Refreshed ==
    \A c \in Callers :
        /\ refresh[c] /\ pc[c] = "store" => retriedAt[c] <= doc[c]
        /\ refresh[c] /\ pc[c] = "send" => retriedAt[c] <= key[c]
        /\ refresh[c] => pc[c] # "idle"
        /\ err[c] # "none" => pc[c] = "error"

\* A call posts one request in its first once() and one in its second.
Posted ==
    /\ \A m \in wire :
          /\ m[2] => refresh[m[1]] /\ retriedAt[m[1]] <= m[3]
          /\ m[2] = refresh[m[1]] => pc[m[1]] \in {"wait", "ok", "error"}
    /\ \A m, n \in wire : m[1] = n[1] /\ m[2] = n[2] => m[3] = n[3]

\* The first request of c has not been acted upon and never will be.
Closed(c) ==
    /\ \A m \in wire : m[1] = c /\ ~m[2] => m[3] \notin held
    /\ \A h \in handled : h.stamp # <<c, FALSE>>

\* An answer is for who waits for it; a sealed one is of a request acted upon,
\* and a refused key is one the brain has dropped.
AnswersTrue ==
    \A r \in replies :
        /\ pc[r.to[1]] = "wait" /\ r.to[2] = refresh[r.to[1]]
        /\ r.answer = "ok" =>
              \E h \in handled : \E k \in 1..MaxKey :
                 r.sealed.key = Export(Context(h.stamp, k, h.path))
        /\ r.answer = "hpke_key_unknown" =>
              IF r.to[2] THEN retriedAt[r.to[1]] < current ELSE Closed(r.to[1])

\* Only a request that cannot be opened is sent again.
RetriedClosed == \A c \in Callers : refresh[c] => Closed(c)

\* The brain acts once upon a call.
ActedOnce == \A g, h \in handled : g.pt = h.pt => g = h

IInv ==
    /\ TypeOK
    /\ Advertised
    /\ Refreshed
    /\ Posted
    /\ AnswersTrue
    /\ RetriedClosed
    /\ ActedOnce
    /\ AcceptedAsSent
    /\ RotationIsTransparent

-----------------------------------------------------------------------------

\* The parts of a request as it was sent.
LEMMA RequestParts ==
    ASSUME NEW m
    PROVE  /\ Request(m).path = op[m[1]]
           /\ Request(m).stamp = <<m[1], m[2]>>
           /\ Request(m).cert = Cred(m[1])
           /\ Request(m).kid = m[3]
           /\ Request(m).body = Sealed(m).body
           /\ Request(m).digest = ContentDigest(Sealed(m).body)
<1>1. CASE Cred(m[1]) = None
  BY <1>1 DEF Request
<1>2. CASE Cred(m[1]) # None
  BY <1>2 DEF Request, SignRequest
<1> QED
  BY <1>1, <1>2

\* The body of a request, and what it opens to.
LEMMA SealedParts ==
    ASSUME NEW m
    PROVE  /\ Sealed(m).body.enc = <<m[1], m[2]>>
           /\ Sealed(m).body.ct.ctx = Context(<<m[1], m[2]>>, m[3], op[m[1]])
           /\ Sealed(m).body.ct.aad = sealAAD(<<m[1], m[2]>>)
           /\ Sealed(m).body.ct.pt = m[1]
           /\ Sealed(m).opener = Export(Context(<<m[1], m[2]>>, m[3], op[m[1]]))
BY DEF Sealed, SealRequest

\* A signature is that of the owner of the certificate, over his request.
LEMMA SignatureParts ==
    ASSUME NEW m, Request(m).signature # None
    PROVE  /\ Request(m).signature.by = m[1]
           /\ Request(m).signature.over =
                SignatureBase(Request(m), Request(m).signature.input)
<1>1. Cred(m[1]) # None
  BY DEF Request
<1> QED
  BY <1>1 DEF Request, SignRequest, SignatureBase, signatureParams, signedComponents

\* Equal signature bases have equal components.
LEMMA BaseBinds ==
    ASSUME NEW g, NEW h, NEW p, NEW q, SignatureBase(g, p) = SignatureBase(h, q)
    PROVE  g.stamp = h.stamp
<1>1. [c \in signedComponents |-> g[c]] = [c \in signedComponents |-> h[c]]
  BY DEF SignatureBase
<1>2. g["stamp"] = h["stamp"]
  BY <1>1 DEF signedComponents
<1> QED
  BY <1>2

\* What an envelope is bound to.
LEMMA ContextBinds ==
    ASSUME NEW e1, NEW k1, NEW p1, NEW e2, NEW k2, NEW p2,
           Context(e1, k1, p1) = Context(e2, k2, p2)
    PROVE  e1 = e2 /\ k1 = k2 /\ p1 = p2
BY DEF Context

\* Associated data belong to one stamp.
LEMMA AADBinds ==
    ASSUME NEW s, NEW t, sealAAD(s) = sealAAD(t) PROVE s = t
<1>1. sealAAD(s)[2] = sealAAD(t)[2]
  OBVIOUS
<1> QED
  BY <1>1 DEF sealAAD

\* A response key belongs to one context.
LEMMA ExportBinds ==
    ASSUME NEW s, NEW t, Export(s) = Export(t) PROVE s = t
<1>1. Export(s)[2] = Export(t)[2]
  OBVIOUS
<1> QED
  BY <1>1 DEF Export

\* The checks of the brain leave nothing of a mixture: what it accepts is, in
\* all parts that count, the request whose body it is.
LEMMA AcceptedIsOne ==
    ASSUME NEW m, NEW n, NEW r \in Mixtures(Request(m), Request(n)), Accepts(r)
    PROVE  \E x \in {m, n} :
              /\ r.path = op[x[1]]
              /\ r.stamp = Connection(x)
              /\ r.kid = x[3]
              /\ x[3] \in held
              /\ r.body.enc = Connection(x)
              /\ View(r).cert = Cred(x[1])
              /\ View(r).pt = x[1]
<1>0. PICK x \in {m, n} : r.body = Request(x).body
  BY DEF Mixtures
<1>1. r.body = Sealed(x).body
  BY <1>0, RequestParts
<1>2. /\ r.kid \in held
      /\ r.body.ct.ctx = Context(r.body.enc, r.kid, r.path)
      /\ r.body.ct.aad = sealAAD(r.stamp)
  BY DEF Accepts, OpenRequest
<1>3. Context(Connection(x), r.kid, r.path) = Context(Connection(x), x[3], op[x[1]])
  BY <1>1, <1>2, SealedParts DEF Connection
<1>4. r.kid = x[3] /\ r.path = op[x[1]]
  BY <1>3, ContextBinds
<1>5. r.stamp = Connection(x)
  <2>1. sealAAD(r.stamp) = sealAAD(Connection(x))
    BY <1>1, <1>2, SealedParts DEF Connection
  <2> QED
    BY <2>1, AADBinds
<1>6. ASSUME r.path \in Signed PROVE r.cert = x[1]
  <2>1. VerifyRequest(r, None)
    BY <1>6 DEF Accepts
  <2>2. PICK y \in {m, n} : r.signature = Request(y).signature
    BY DEF Mixtures
  <2>3. r.cert = y[1]
    BY <2>1, <2>2, SignatureParts DEF VerifyRequest
  <2>4. r.stamp = Request(y).stamp
    BY <2>1, <2>2, SignatureParts, BaseBinds DEF VerifyRequest
  <2>5. r.stamp = <<y[1], y[2]>>
    BY <2>4, RequestParts
  <2> QED
    BY <1>5, <2>3, <2>5 DEF Connection
<1>7. View(r).cert = Cred(x[1])
  BY <1>4, <1>6 DEF View, Cred
<1>8. View(r).pt = x[1] /\ r.body.enc = Connection(x)
  BY <1>1, SealedParts DEF View, Connection
<1> QED
  BY <1>2, <1>4, <1>5, <1>7, <1>8

-----------------------------------------------------------------------------
(* The steps *)

\* A call moves between places where it has nothing on its connection, and
\* leaves the brain and its place in the exchange alone.
LEMMA LocalFrame ==
    ASSUME IInv, NEW c \in Callers, NEW l \in PCs \ {"idle"},
           pc' = [pc EXCEPT ![c] = l],
           pc[c] \in {"idle", "lock", "fetch", "store"},
           UNCHANGED <<op, refresh, retriedAt, brainVars>>
    PROVE  (Posted /\ AnswersTrue /\ RetriedClosed /\ ActedOnce /\ AcceptedAsSent)'
<1>1. /\ pc \in [Callers -> PCs]
      /\ wire \subseteq Callers \X BOOLEAN \X Versions
      /\ \A r \in replies : r.to \in Connections
  BY DEF IInv, TypeOK
<1>2. Posted'
  BY <1>1 DEF IInv, Posted, brainVars
<1>3. (RetriedClosed /\ ActedOnce)'
  BY DEF IInv, RetriedClosed, Closed, ActedOnce, brainVars
<1>4. AcceptedAsSent'
  BY DEF IInv, AcceptedAsSent, Cred, Connection, brainVars
<1>5. AnswersTrue'
  BY <1>1 DEF IInv, AnswersTrue, Closed, brainVars, Connections
<1> QED
  BY <1>2, <1>3, <1>4, <1>5

\* Bootstrap, Renew or Ingest is called.
LEMMA StartStep == ASSUME IInv, NEW c \in Callers, Start(c) PROVE IInv'
<1>1. (Posted /\ AnswersTrue /\ RetriedClosed /\ ActedOnce /\ AcceptedAsSent)'
  BY LocalFrame DEF Start, GoTo, PCs
<1>2. TypeOK'
  BY DEF IInv, TypeOK, Start, GoTo, PCs, cacheVars, brainVars
<1>3. (Advertised /\ Refreshed /\ RotationIsTransparent)'
  BY DEF IInv, TypeOK, Advertised, Refreshed, RotationIsTransparent, Start, GoTo,
         cacheVars, brainVars
<1> QED
  BY <1>1, <1>2, <1>3 DEF IInv

\* activeKey takes the mutex, or the cached key.
LEMMA ActiveKeyStep == ASSUME IInv, NEW c \in Callers, ActiveKey(c) PROVE IInv'
<1>1. (Posted /\ AnswersTrue /\ RetriedClosed /\ ActedOnce /\ AcceptedAsSent)'
  BY LocalFrame DEF ActiveKey, GoTo, PCs
<1>2. TypeOK'
  BY SignedClientAssumption DEF IInv, TypeOK, ActiveKey, GoTo, PCs, brainVars
<1>3. (Advertised /\ Refreshed /\ RotationIsTransparent)'
  BY DEF IInv, TypeOK, Advertised, Refreshed, RotationIsTransparent, ActiveKey, GoTo,
         brainVars
<1> QED
  BY <1>1, <1>2, <1>3 DEF IInv

\* The key document arrives, or not.
LEMMA FetchStep ==
    ASSUME IInv, NEW c \in Callers, FetchServed(c) \/ FetchFails(c)
    PROVE  IInv'
<1>1. (Posted /\ AnswersTrue /\ RetriedClosed /\ ActedOnce /\ AcceptedAsSent)'
  BY LocalFrame DEF FetchServed, FetchFails, Fail, GoTo, PCs
<1>2. CASE FetchServed(c)
  <2>1. TypeOK'
    BY <1>2 DEF IInv, TypeOK, FetchServed, GoTo, PCs, cacheVars, brainVars, Versions
  <2>2. (Advertised /\ Refreshed /\ RotationIsTransparent)'
    BY <1>2 DEF IInv, TypeOK, Advertised, Refreshed, RotationIsTransparent, FetchServed,
                GoTo, cacheVars, brainVars
  <2> QED
    BY <1>1, <2>1, <2>2 DEF IInv
<1>3. CASE FetchFails(c)
  <2>1. TypeOK'
    BY <1>3, SignedClientAssumption
    DEF IInv, TypeOK, FetchFails, Fail, GoTo, PCs, brainVars, Versions
  <2>2. (Advertised /\ Refreshed /\ RotationIsTransparent)'
    BY <1>3 DEF IInv, TypeOK, Advertised, Refreshed, RotationIsTransparent, FetchFails,
                Fail, GoTo, brainVars
  <2> QED
    BY <1>1, <2>1, <2>2 DEF IInv
<1> QED
  BY <1>2, <1>3

\* fetchKeysLocked stores the keys.
LEMMA StoreStep == ASSUME IInv, NEW c \in Callers, Store(c) PROVE IInv'
<1>1. (Posted /\ AnswersTrue /\ RetriedClosed /\ ActedOnce /\ AcceptedAsSent)'
  BY LocalFrame DEF Store, GoTo, PCs
<1>2. TypeOK'
  <2>1. stale' \in BOOLEAN
    BY DEF Store
  <2>2. holder' = None /\ \A d \in Callers : pc'[d] \notin {"fetch", "store"}
    BY SignedClientAssumption DEF IInv, TypeOK, Store, GoTo
  <2>3. /\ pc' \in [Callers -> PCs] /\ cache' \in Versions
        /\ key' \in [Callers -> Versions] /\ doc' \in [Callers -> Versions]
    BY SignedClientAssumption DEF IInv, TypeOK, Store, GoTo, PCs, Versions
  <2> QED
    BY <2>1, <2>2, <2>3, SignedClientAssumption DEF IInv, TypeOK, Store, brainVars
<1>3. (Advertised /\ Refreshed /\ RotationIsTransparent)'
  BY DEF IInv, TypeOK, Advertised, Refreshed, RotationIsTransparent, Store, GoTo,
         brainVars, Versions
<1> QED
  BY <1>1, <1>2, <1>3 DEF IInv

\* The request is posted: the first of this once().
LEMMA SendStep == ASSUME IInv, NEW c \in Callers, Send(c) PROVE IInv'
<1> DEFINE m == <<c, refresh[c], key[c]>>
<1>1. /\ pc[c] = "send"
      /\ pc' = [pc EXCEPT ![c] = "wait"]
      /\ wire' = wire \cup {m}
      /\ UNCHANGED <<op, refresh, key, doc, err, retriedAt, holder, cache, stale, current,
                     held, replies, handled>>
  BY DEF Send, GoTo, cacheVars
<1>2. /\ m \in Callers \X BOOLEAN \X Versions
      /\ m[1] = c /\ m[2] = refresh[c] /\ m[3] = key[c]
  BY DEF IInv, TypeOK
<1>3. \A n \in wire : ~(n[1] = c /\ n[2] = refresh[c])
  BY <1>1 DEF IInv, Posted
<1>4. \A r \in replies : r.to[1] \in Callers /\ r.to[1] # c
  BY <1>1 DEF IInv, TypeOK, AnswersTrue, Connections
<1> HIDE DEF m
<1>5. TypeOK'
  BY <1>1, <1>2 DEF IInv, TypeOK, PCs
<1>6. (Advertised /\ Refreshed /\ RotationIsTransparent)'
  BY <1>1, <1>2 DEF IInv, TypeOK, Advertised, Refreshed, RotationIsTransparent
<1>7. Posted'
  BY <1>1, <1>2, <1>3 DEF IInv, TypeOK, Posted, Refreshed
<1>8. AnswersTrue'
  <2>1. \A d \in Callers : d # c /\ Closed(d) => Closed(d)'
    BY <1>1, <1>2 DEF Closed
  <2> QED
    BY <1>1, <1>4, <2>1 DEF IInv, TypeOK, AnswersTrue
<1>9. RetriedClosed'
  BY <1>1, <1>2 DEF IInv, RetriedClosed, Closed
<1>10. (ActedOnce /\ AcceptedAsSent)'
  BY <1>1 DEF IInv, ActedOnce, AcceptedAsSent, Cred
<1> QED
  BY <1>5, <1>6, <1>7, <1>8, <1>9, <1>10 DEF IInv

\* A once() returns, and its connection is gone.
LEMMA HangupFrame ==
    ASSUME IInv, NEW c \in Callers, NEW l \in {"ok", "error", "lock"},
           pc[c] \in {"send", "wait"}, Hangup(c),
           pc' = [pc EXCEPT ![c] = l],
           refresh' \in [Callers -> BOOLEAN],
           \A d \in Callers \ {c} : refresh'[d] = refresh[d] /\ retriedAt'[d] = retriedAt[d],
           \/ l \in {"ok", "error"} /\ UNCHANGED <<refresh, retriedAt>>
           \/ l = "lock" /\ refresh'[c] /\ ~refresh[c] /\ Closed(c),
           retriedAt' \in [Callers -> Versions],
           retriedAt'[c] <= current,
           UNCHANGED <<op, doc, cacheVars, current, held, wire, handled>>
    PROVE  /\ (Advertised /\ Posted /\ AnswersTrue /\ RetriedClosed /\ ActedOnce)'
           /\ AcceptedAsSent'
           /\ \A r \in replies' : r \in replies /\ r.to[1] # c
           /\ key' \in [Callers -> Versions]
<1>1. /\ \A r \in replies' : r \in replies /\ r.to[1] # c
      /\ key' = [key EXCEPT ![c] = 0]
  BY DEF Hangup
<1>2. key' \in [Callers -> Versions]
  BY <1>1, SignedClientAssumption DEF IInv, TypeOK, Versions
<1>3. Advertised'
  BY <1>1 DEF IInv, TypeOK, Advertised, cacheVars
<1>4. Posted'
  <2>1. /\ \A m \in wire : m[1] \in Callers /\ m[2] \in BOOLEAN
        /\ pc \in [Callers -> PCs] /\ refresh \in [Callers -> BOOLEAN]
    BY DEF IInv, TypeOK
  <2>2. ASSUME NEW m \in wire, m[1] # c
        PROVE  /\ m[2] => refresh'[m[1]] /\ retriedAt'[m[1]] <= m[3]
               /\ m[2] = refresh'[m[1]] => pc'[m[1]] \in {"wait", "ok", "error"}
    BY <2>1, <2>2 DEF IInv, Posted
  <2>3. ASSUME NEW m \in wire, m[1] = c, l = "lock"
        PROVE  ~m[2] /\ m[2] # refresh'[c]
    BY <2>1, <2>3 DEF IInv, Posted
  <2>4. ASSUME NEW m \in wire, m[1] = c, l # "lock"
        PROVE  /\ m[2] => refresh'[m[1]] /\ retriedAt'[m[1]] <= m[3]
               /\ pc'[c] \in {"ok", "error"}
    BY <2>1, <2>4 DEF IInv, Posted
  <2> QED
    BY <2>2, <2>3, <2>4 DEF IInv, Posted
<1>5. \A d \in Callers : Closed(d)' <=> Closed(d)
  BY DEF Closed
<1>6. AnswersTrue'
  BY <1>1, <1>5 DEF IInv, TypeOK, AnswersTrue, Connections
<1>7. RetriedClosed'
  BY <1>5 DEF IInv, RetriedClosed
<1>8. (ActedOnce /\ AcceptedAsSent)'
  BY DEF IInv, ActedOnce, AcceptedAsSent, Cred
<1> QED
  BY <1>1, <1>2, <1>3, <1>4, <1>6, <1>7, <1>8

\* The call ends, with an answer or an error.
LEMMA EndStep ==
    ASSUME IInv, NEW c \in Callers, NEW l \in {"ok", "error"},
           NEW e \in {"none", "hpke_key_unknown", "sealed_malformed", "http"},
           pc[c] \in {"send", "wait"}, Hangup(c),
           pc' = [pc EXCEPT ![c] = l], err' = [err EXCEPT ![c] = e],
           e # "none" => l = "error",
           e = "hpke_key_unknown" => retriedAt[c] < current,
           UNCHANGED <<op, refresh, doc, retriedAt, cacheVars, current, held, wire, handled>>
    PROVE  IInv'
<1>1. /\ refresh' \in [Callers -> BOOLEAN] /\ retriedAt' \in [Callers -> Versions]
      /\ retriedAt'[c] <= current
  BY DEF IInv, TypeOK, Advertised
<1>2. /\ (Advertised /\ Posted /\ AnswersTrue /\ RetriedClosed /\ ActedOnce)'
      /\ AcceptedAsSent'
      /\ \A r \in replies' : r \in replies /\ r.to[1] # c
      /\ key' \in [Callers -> Versions]
  BY <1>1, HangupFrame
<1>3. TypeOK'
  BY <1>2 DEF IInv, TypeOK, PCs, cacheVars
<1>4. (Refreshed /\ RotationIsTransparent)'
  <2>1. \A d \in Callers \ {c} : key'[d] = key[d] /\ pc'[d] = pc[d] /\ err'[d] = err[d]
    BY DEF IInv, TypeOK, Hangup
  <2>2. pc'[c] = l /\ err'[c] = e
    BY DEF IInv, TypeOK
  <2> QED
    BY <2>1, <2>2 DEF IInv, TypeOK, Refreshed, RotationIsTransparent
<1> QED
  BY <1>2, <1>3, <1>4 DEF IInv

\* No answer in time.
LEMMA TimesOutStep == ASSUME IInv, NEW c \in Callers, TimesOut(c) PROVE IInv'
BY EndStep DEF TimesOut, Fail, GoTo

\* The brain's answer: a success, an error, or the retry with a fresh key.
LEMMA ReceiveStep == ASSUME IInv, NEW c \in Callers, Receive(c) PROVE IInv'
<1>1. /\ pc[c] = "wait" /\ Hangup(c) /\ err[c] = "none"
      /\ UNCHANGED <<op, doc, cacheVars, current, held, wire, handled>>
  BY DEF Receive, IInv, TypeOK, Refreshed
<1>2. PICK r \in replies :
          /\ r.to = <<c, refresh[c]>>
          /\ \/ /\ Opens(c, r)
                /\ GoTo(c, "ok")
                /\ UNCHANGED <<refresh, err, retriedAt>>
             \/ /\ KeyRefused(r) /\ ~refresh[c]
                /\ refresh' = [refresh EXCEPT ![c] = TRUE]
                /\ retriedAt' = [retriedAt EXCEPT ![c] = current]
                /\ GoTo(c, "lock")
                /\ UNCHANGED err
             \/ /\ ~Opens(c, r) /\ ~(KeyRefused(r) /\ ~refresh[c])
                /\ Fail(c, IF r.answer = "ok" THEN "sealed_malformed" ELSE r.answer)
                /\ UNCHANGED <<refresh, retriedAt>>
  BY DEF Receive
<1>3. /\ r.to[1] = c /\ r.to[2] = refresh[c]
      /\ r.answer \in {"ok", "hpke_key_unknown", "http"}
  BY <1>2 DEF IInv, TypeOK
<1>4. CASE GoTo(c, "ok") /\ UNCHANGED <<refresh, err, retriedAt>>
  <2>1. err' = [err EXCEPT ![c] = "none"]
    BY <1>1, <1>4 DEF IInv, TypeOK
  <2> QED
    BY <1>1, <1>4, <2>1, EndStep DEF GoTo
<1>5. CASE /\ ~(KeyRefused(r) /\ ~refresh[c])
           /\ Fail(c, IF r.answer = "ok" THEN "sealed_malformed" ELSE r.answer)
           /\ UNCHANGED <<refresh, retriedAt>>
  <2>1. r.answer = "hpke_key_unknown" => retriedAt[c] < current
    BY <1>3, <1>5 DEF IInv, AnswersTrue, KeyRefused
  <2>2. CASE r.answer = "ok"
    BY <1>1, <1>5, <2>2, EndStep DEF Fail, GoTo
  <2>3. CASE r.answer # "ok"
    BY <1>1, <1>3, <1>5, <2>1, <2>3, EndStep DEF Fail, GoTo
  <2> QED
    BY <2>2, <2>3
<1>6. CASE /\ KeyRefused(r) /\ ~refresh[c]
           /\ refresh' = [refresh EXCEPT ![c] = TRUE]
           /\ retriedAt' = [retriedAt EXCEPT ![c] = current]
           /\ GoTo(c, "lock")
           /\ UNCHANGED err
  <2>1. Closed(c)
    BY <1>3, <1>6 DEF IInv, AnswersTrue, KeyRefused
  <2>2. /\ refresh' \in [Callers -> BOOLEAN] /\ refresh'[c]
        /\ \A d \in Callers \ {c} : refresh'[d] = refresh[d]
    BY <1>6 DEF IInv, TypeOK
  <2>3. /\ retriedAt' \in [Callers -> Versions] /\ retriedAt'[c] = current
        /\ \A d \in Callers \ {c} : retriedAt'[d] = retriedAt[d]
        /\ current <= current
    BY <1>6 DEF IInv, TypeOK, Versions
  <2>4. /\ (Advertised /\ Posted /\ AnswersTrue /\ RetriedClosed /\ ActedOnce)'
        /\ AcceptedAsSent'
        /\ \A x \in replies' : x \in replies /\ x.to[1] # c
        /\ key' \in [Callers -> Versions]
    BY <1>1, <1>6, <2>1, <2>2, <2>3, HangupFrame DEF GoTo
  <2>5. TypeOK'
    BY <1>1, <1>6, <2>2, <2>3, <2>4 DEF IInv, TypeOK, GoTo, PCs, cacheVars
  <2>6. (Refreshed /\ RotationIsTransparent)'
    <3>1. \A d \in Callers \ {c} : key'[d] = key[d] /\ pc'[d] = pc[d]
      BY <1>1, <1>6 DEF IInv, TypeOK, Hangup, GoTo
    <3>2. pc'[c] = "lock"
      BY <1>6 DEF IInv, TypeOK, GoTo
    <3> QED
      BY <1>1, <1>6, <2>2, <2>3, <3>1, <3>2 DEF IInv, TypeOK, Refreshed, RotationIsTransparent
  <2> QED
    BY <2>4, <2>5, <2>6 DEF IInv
<1> QED
  BY <1>2, <1>4, <1>5, <1>6

\* An answer goes to who waits for it, or to nobody.
LEMMA NewAnswer ==
    ASSUME NEW conn, NEW a, NEW s, Answer(conn, a, s), NEW q \in replies'
    PROVE  \/ q \in replies
           \/ /\ q.to = conn /\ q.answer = a /\ q.sealed = s
              /\ pc[conn[1]] = "wait" /\ refresh[conn[1]] = conn[2]
BY DEF Answer

\* The brain has not acted yet upon a call whose request it can act upon: the
\* other request of the call is fresh too, or closed.
LEMMA FirstAct ==
    ASSUME IInv, NEW x \in wire, x[3] \in held, Fresh(Connection(x))
    PROVE  \A h \in handled : h.pt # x[1]
<1> SUFFICES ASSUME NEW h \in handled, h.pt = x[1] PROVE FALSE
  OBVIOUS
<1>1. PICK y \in wire : y[1] = x[1] /\ h.stamp = <<y[1], y[2]>>
  BY DEF IInv, AcceptedAsSent, Connection
<1>2. x[1] \in Callers /\ x[2] \in BOOLEAN /\ y[2] \in BOOLEAN
  BY DEF IInv, TypeOK
<1>3. h.stamp # <<x[1], x[2]>>
  BY DEF Fresh, Connection
<1>4. x[2] # y[2]
  BY <1>1, <1>3
<1>5. x[2] \/ y[2]
  BY <1>2, <1>4
<1>6. refresh[x[1]]
  BY <1>1, <1>5 DEF IInv, Posted
<1>7. Closed(x[1])
  BY <1>2, <1>6 DEF IInv, RetriedClosed
<1>8. CASE x[2]
  <2>1. y[2] = FALSE
    BY <1>2, <1>4, <1>8
  <2> QED
    BY <1>1, <1>7, <2>1 DEF Closed
<1>9. CASE ~x[2]
  BY <1>7, <1>9 DEF Closed
<1> QED
  BY <1>8, <1>9

\* What the brain makes of an accepted request: it is one on the wire, as it
\* was sent, and the first of its call.
LEMMA ActsOnSent ==
    ASSUME IInv, NEW m \in wire, NEW n \in wire,
           NEW r \in Mixtures(Request(m), Request(n)), Accepts(r)
    PROVE  \E x \in wire :
              /\ x[3] \in held
              /\ View(r).path = op[x[1]]
              /\ View(r).stamp = Connection(x)
              /\ View(r).cert = Cred(x[1])
              /\ View(r).pt = x[1]
              /\ ResponseSealer(r.kid, r.path, r.body) =
                    Export(Context(View(r).stamp, x[3], View(r).path))
              /\ \A h \in handled : h.pt # x[1]
<1>1. PICK x \in {m, n} :
          /\ r.path = op[x[1]]
          /\ r.stamp = Connection(x)
          /\ r.kid = x[3]
          /\ x[3] \in held
          /\ r.body.enc = Connection(x)
          /\ View(r).cert = Cred(x[1])
          /\ View(r).pt = x[1]
  BY AcceptedIsOne
<1>2. x \in wire
  OBVIOUS
<1>3. View(r).path = r.path /\ View(r).stamp = r.stamp
  BY DEF View
<1>4. Fresh(Connection(x))
  BY <1>1 DEF Accepts
<1>5. \A h \in handled : h.pt # x[1]
  BY <1>1, <1>2, <1>4, FirstAct
<1>6. ResponseSealer(r.kid, r.path, r.body) =
        Export(Context(View(r).stamp, x[3], View(r).path))
  BY <1>1, <1>3 DEF ResponseSealer
<1> QED
  BY <1>1, <1>2, <1>3, <1>5, <1>6

\* The brain acts upon a request.
LEMMA ActsStep ==
    ASSUME IInv, NEW m \in wire, NEW n \in wire, BrainActs(m, n) PROVE IInv'
<1>1. PICK r \in Mixtures(Request(m), Request(n)) :
          /\ Accepts(r)
          /\ handled' = handled \cup {View(r)}
          /\ \E x \in {m, n} :
                \/ Answer(Connection(x), "ok",
                          SealResponse(ResponseSealer(r.kid, r.path, r.body)))
                \/ Answer(Connection(x), "http", None)
  BY DEF BrainActs
<1>2. PICK x \in wire :
          /\ x[3] \in held
          /\ View(r).path = op[x[1]]
          /\ View(r).stamp = Connection(x)
          /\ View(r).cert = Cred(x[1])
          /\ View(r).pt = x[1]
          /\ ResponseSealer(r.kid, r.path, r.body) =
                Export(Context(View(r).stamp, x[3], View(r).path))
          /\ \A h \in handled : h.pt # x[1]
  BY <1>1, ActsOnSent
<1>3. UNCHANGED <<op, pc, refresh, key, doc, err, retriedAt, holder, cache, stale, current,
                  held, wire>>
  BY DEF BrainActs, callVars, cacheVars
<1> DEFINE sealing == SealResponse(ResponseSealer(r.kid, r.path, r.body))
<1>4. PICK y \in {m, n}, a \in {"ok", "http"}, s \in {sealing, None} :
          /\ Answer(Connection(y), a, s)
          /\ a = "ok" => s = SealResponse(ResponseSealer(r.kid, r.path, r.body))
  BY <1>1
<1> HIDE DEF sealing
<1>5. \A w \in wire : /\ w[1] \in Callers /\ w[2] \in BOOLEAN
                       /\ Connection(w) \in Connections
                       /\ Connection(w)[1] = w[1] /\ Connection(w)[2] = w[2]
  BY DEF IInv, TypeOK, Connection, Connections
<1>6. \A q \in replies' :
          \/ q \in replies
          \/ /\ q.to = Connection(y) /\ q.answer = a /\ q.sealed = s
             /\ pc[y[1]] = "wait" /\ refresh[y[1]] = y[2]
  BY <1>4, <1>5, NewAnswer
<1>7. TypeOK'
  <2>1. \A q \in replies' : q.to \in Connections /\ q.answer \in {"ok", "hpke_key_unknown", "http"}
    BY <1>5, <1>6 DEF IInv, TypeOK
  <2>2. \A h \in handled' : /\ h.path \in Endpoints
                            /\ h.pt \in Callers
                            /\ h.cert \in Callers \cup {None}
    BY <1>1, <1>2, <1>5 DEF IInv, TypeOK, Cred
  <2> QED
    BY <1>3, <2>1, <2>2 DEF IInv, TypeOK
<1>8. (Advertised /\ Refreshed /\ Posted /\ RotationIsTransparent)'
  BY <1>3 DEF IInv, Advertised, Refreshed, Posted, RotationIsTransparent
<1>9. \A c \in Callers : Closed(c) => Closed(c)'
  <2> SUFFICES ASSUME NEW c \in Callers, Closed(c) PROVE View(r).stamp # <<c, FALSE>>
    BY <1>1, <1>3 DEF Closed
  <2> SUFFICES ASSUME Connection(x) = <<c, FALSE>> PROVE FALSE
    BY <1>2
  <2>1. x[1] = c
    BY <1>5
  <2>2. <<c, FALSE>>[2] = FALSE
    OBVIOUS
  <2>3. x[2] = FALSE
    BY <1>5, <2>2, Zenon
  <2> QED
    BY <1>2, <2>1, <2>3 DEF Closed
<1>10. AnswersTrue'
  <2>1. ASSUME NEW q \in replies', q \in replies
        PROVE  /\ pc[q.to[1]] = "wait" /\ q.to[2] = refresh[q.to[1]]
               /\ q.answer = "ok" =>
                     \E h \in handled' : \E k \in 1..MaxKey :
                        q.sealed.key = Export(Context(h.stamp, k, h.path))
               /\ q.answer = "hpke_key_unknown" =>
                     IF q.to[2] THEN retriedAt[q.to[1]] < current ELSE Closed(q.to[1])'
    <3>1. q.to[1] \in Callers
      BY <2>1 DEF IInv, TypeOK, Connections
    <3> QED
      BY <1>1, <1>9, <2>1, <3>1 DEF IInv, AnswersTrue
  <2>2. ASSUME NEW q \in replies', q \notin replies
        PROVE  /\ pc[q.to[1]] = "wait" /\ q.to[2] = refresh[q.to[1]]
               /\ q.answer = "ok" =>
                     \E h \in handled' : \E k \in 1..MaxKey :
                        q.sealed.key = Export(Context(h.stamp, k, h.path))
               /\ q.answer # "hpke_key_unknown"
    <3>1. /\ q.to = Connection(y) /\ q.answer = a /\ q.sealed = s
          /\ pc[y[1]] = "wait" /\ refresh[y[1]] = y[2]
      BY <1>6, <2>2
    <3>2. pc[q.to[1]] = "wait" /\ q.to[2] = refresh[q.to[1]]
      BY <1>5, <3>1
    <3>3. x[3] \in 1..MaxKey /\ View(r) \in handled'
      BY <1>1, <1>2 DEF IInv, TypeOK
    <3>4. a = "ok" => s.key = Export(Context(View(r).stamp, x[3], View(r).path))
      BY <1>2, <1>4 DEF SealResponse
    <3> QED
      BY <3>1, <3>2, <3>3, <3>4
  <2> QED
    BY <1>3, <2>1, <2>2 DEF AnswersTrue
<1>11. RetriedClosed'
  BY <1>3, <1>9 DEF IInv, RetriedClosed
<1>12. ActedOnce'
  BY <1>1, <1>2 DEF IInv, ActedOnce
<1>13. AcceptedAsSent'
  BY <1>1, <1>2, <1>3 DEF IInv, AcceptedAsSent, Cred
<1> QED
  BY <1>7, <1>8, <1>10, <1>11, <1>12, <1>13 DEF IInv

\* The brain refuses a request.
LEMMA RefusesStep ==
    ASSUME IInv, NEW m \in wire, BrainRefuses(m) \/ BrainKnowsNot(m) PROVE IInv'
<1>1. UNCHANGED <<op, pc, refresh, key, doc, err, retriedAt, holder, cache, stale, current,
                  held, wire, handled>>
  BY DEF BrainRefuses, BrainKnowsNot, callVars, cacheVars
<1>2. PICK a \in {"hpke_key_unknown", "http"} :
          /\ Answer(Connection(m), a, None)
          /\ a = "hpke_key_unknown" => m[3] \notin held /\ Fresh(Connection(m))
  BY DEF BrainRefuses, BrainKnowsNot
<1>3. /\ m[1] \in Callers /\ m[2] \in BOOLEAN
      /\ Connection(m) \in Connections
      /\ Connection(m)[1] = m[1] /\ Connection(m)[2] = m[2]
  BY DEF IInv, TypeOK, Connection, Connections
<1>4. \A q \in replies' :
          \/ q \in replies
          \/ /\ q.to = Connection(m) /\ q.answer = a
             /\ pc[m[1]] = "wait" /\ refresh[m[1]] = m[2]
  BY <1>2, <1>3, NewAnswer
<1>5. TypeOK'
  BY <1>1, <1>3, <1>4 DEF IInv, TypeOK
<1>6. (Advertised /\ Refreshed /\ Posted /\ RotationIsTransparent)'
  BY <1>1 DEF IInv, Advertised, Refreshed, Posted, RotationIsTransparent
<1>7. (RetriedClosed /\ ActedOnce /\ AcceptedAsSent)'
  BY <1>1 DEF IInv, RetriedClosed, Closed, ActedOnce, AcceptedAsSent, Cred
<1>8. a = "hpke_key_unknown" => IF m[2] THEN retriedAt[m[1]] < current ELSE Closed(m[1])
  <2> SUFFICES ASSUME m[3] \notin held, Fresh(Connection(m))
               PROVE  IF m[2] THEN retriedAt[m[1]] < current ELSE Closed(m[1])
    BY <1>2
  <2>1. m[3] \in Versions /\ m[3] <= current /\ m[3] # current
    BY DEF IInv, TypeOK, Advertised
  <2>2. CASE m[2]
    <3>1. retriedAt[m[1]] \in Int /\ m[3] \in Int /\ current \in Int /\ retriedAt[m[1]] <= m[3]
      BY <1>3, <2>1, <2>2, SignedClientAssumption DEF IInv, TypeOK, Posted, Versions
    <3> QED
      BY <2>1, <2>2, <3>1
  <2>3. CASE ~m[2]
    <3>1. \A n \in wire : n[1] = m[1] /\ ~n[2] => n[3] \notin held
      <4> SUFFICES ASSUME NEW n \in wire, n[1] = m[1], ~n[2] PROVE n[3] \notin held
        OBVIOUS
      <4>1. n[2] \in BOOLEAN
        BY DEF IInv, TypeOK
      <4>2. n[2] = m[2]
        BY <1>3, <2>3, <4>1
      <4> QED
        BY <4>2 DEF IInv, Posted
    <3>2. \A h \in handled : h.stamp # <<m[1], FALSE>>
      <4>1. Connection(m) = <<m[1], FALSE>>
        BY <1>3, <2>3 DEF Connection
      <4> QED
        BY <4>1 DEF Fresh
    <3> QED
      BY <2>3, <3>1, <3>2 DEF Closed
  <2> QED
    BY <2>2, <2>3
<1>9. AnswersTrue'
  <2>1. \A c \in Callers : Closed(c)' <=> Closed(c)
    BY <1>1 DEF Closed
  <2>2. ASSUME NEW q \in replies', q \in replies
        PROVE  /\ pc[q.to[1]] = "wait" /\ q.to[2] = refresh[q.to[1]]
               /\ q.answer = "ok" =>
                     \E h \in handled : \E k \in 1..MaxKey :
                        q.sealed.key = Export(Context(h.stamp, k, h.path))
               /\ q.answer = "hpke_key_unknown" =>
                     IF q.to[2] THEN retriedAt[q.to[1]] < current ELSE Closed(q.to[1])'
    <3>1. q.to[1] \in Callers
      BY <2>2 DEF IInv, TypeOK, Connections
    <3> QED
      BY <2>1, <2>2, <3>1 DEF IInv, AnswersTrue
  <2>3. ASSUME NEW q \in replies', q \notin replies
        PROVE  /\ pc[q.to[1]] = "wait" /\ q.to[2] = refresh[q.to[1]]
               /\ q.answer # "ok"
               /\ q.answer = "hpke_key_unknown" =>
                     IF q.to[2] THEN retriedAt[q.to[1]] < current ELSE Closed(q.to[1])'
    <3>1. /\ q.to = Connection(m) /\ q.answer = a
          /\ pc[m[1]] = "wait" /\ refresh[m[1]] = m[2]
      BY <1>4, <2>3
    <3>2. q.to[1] = m[1] /\ q.to[2] = m[2]
      BY <1>3, <3>1
    <3> QED
      BY <1>3, <1>8, <2>1, <3>1, <3>2
  <2> QED
    BY <1>1, <2>2, <2>3 DEF AnswersTrue
<1> QED
  BY <1>5, <1>6, <1>7, <1>9 DEF IInv

\* The brain rotates its key: the new one is in no request yet.
LEMMA RotateStep == ASSUME IInv, Rotate PROVE IInv'
<1>1. /\ current' = current + 1 /\ current < MaxKey
      /\ held' = held \cup {current + 1}
      /\ UNCHANGED <<op, pc, refresh, key, doc, err, retriedAt, holder, cache, stale, wire,
                     replies, handled>>
  BY DEF Rotate, callVars, cacheVars
<1>2. /\ current \in Int /\ current \in 1..MaxKey /\ MaxKey \in Int /\ cache \in Int
      /\ \A m \in wire : m[1] \in Callers /\ m[3] \in Int
      /\ \A c \in Callers : doc[c] \in Int /\ key[c] \in Int /\ retriedAt[c] \in Int
      /\ \A v \in held : v \in Int
  BY SignedClientAssumption DEF IInv, TypeOK, Versions
<1>3. current' \in 1..MaxKey /\ held' \subseteq 1..MaxKey
  BY <1>1, <1>2 DEF IInv, TypeOK
<1>4. TypeOK'
  BY <1>1, <1>3 DEF IInv, TypeOK
<1>5. Advertised'
  BY <1>1, <1>2 DEF IInv, Advertised
<1>6. (Refreshed /\ Posted)'
  BY <1>1 DEF IInv, Refreshed, Posted
<1>7. \A c \in Callers : Closed(c) => Closed(c)'
  <2>1. \A m \in wire : m[3] \notin held => m[3] \notin held'
    BY <1>1, <1>2 DEF IInv, Advertised
  <2> QED
    BY <1>1, <2>1 DEF Closed
<1>8. (RetriedClosed /\ ActedOnce /\ AcceptedAsSent)'
  BY <1>1, <1>7 DEF IInv, RetriedClosed, ActedOnce, AcceptedAsSent, Cred
<1>9. RotationIsTransparent'
  BY <1>1, <1>2 DEF IInv, RotationIsTransparent
<1>10. AnswersTrue'
  <2> SUFFICES ASSUME NEW q \in replies
               PROVE  /\ pc[q.to[1]] = "wait" /\ q.to[2] = refresh[q.to[1]]
                      /\ q.answer = "ok" =>
                            \E h \in handled : \E k \in 1..MaxKey :
                               q.sealed.key = Export(Context(h.stamp, k, h.path))
                      /\ q.answer = "hpke_key_unknown" =>
                            IF q.to[2] THEN retriedAt[q.to[1]] < current'
                                       ELSE Closed(q.to[1])'
    BY <1>1 DEF AnswersTrue
  <2>1. q.to[1] \in Callers
    BY DEF IInv, TypeOK, Connections
  <2> QED
    BY <1>1, <1>2, <1>7, <2>1 DEF IInv, AnswersTrue
<1> QED
  BY <1>4, <1>5, <1>6, <1>8, <1>9, <1>10 DEF IInv

\* The brain drops a key: what was closed stays closed.
LEMMA RetireStep == ASSUME IInv, NEW v \in held, Retire(v) PROVE IInv'
<1>1. /\ held' = held \ {v} /\ v # current
      /\ UNCHANGED <<op, pc, refresh, key, doc, err, retriedAt, holder, cache, stale, current,
                     wire, replies, handled>>
  BY DEF Retire, callVars, cacheVars
<1>2. TypeOK'
  BY <1>1 DEF IInv, TypeOK
<1>3. (Advertised /\ Refreshed /\ Posted /\ RotationIsTransparent)'
  BY <1>1 DEF IInv, Advertised, Refreshed, Posted, RotationIsTransparent
<1>4. \A c : Closed(c) => Closed(c)'
  BY <1>1 DEF Closed
<1>5. (RetriedClosed /\ ActedOnce /\ AcceptedAsSent)'
  BY <1>1, <1>4 DEF IInv, RetriedClosed, ActedOnce, AcceptedAsSent, Cred
<1>6. AnswersTrue'
  BY <1>1, <1>4 DEF IInv, AnswersTrue
<1> QED
  BY <1>2, <1>3, <1>5, <1>6 DEF IInv

\* A day passes, or nothing happens that the invariant speaks of.
LEMMA AgesStep ==
    ASSUME IInv, stale' \in BOOLEAN, UNCHANGED <<callVars, holder, cache, brainVars>>
    PROVE  IInv'
<1>1. TypeOK'
  BY DEF IInv, TypeOK, callVars, brainVars
<1>2. (Advertised /\ Refreshed /\ Posted /\ RotationIsTransparent)'
  BY DEF IInv, Advertised, Refreshed, Posted, RotationIsTransparent, callVars, brainVars
<1>3. (RetriedClosed /\ ActedOnce /\ AcceptedAsSent)'
  BY DEF IInv, RetriedClosed, Closed, ActedOnce, AcceptedAsSent, Cred, callVars, brainVars
<1>4. AnswersTrue'
  BY DEF IInv, AnswersTrue, Closed, callVars, brainVars
<1> QED
  BY <1>1, <1>2, <1>3, <1>4 DEF IInv

\* The initial states satisfy the invariant.
LEMMA InitInv == Init => IInv
<1> SUFFICES ASSUME Init PROVE IInv
  OBVIOUS
<1>1. /\ 1 \in 1..MaxKey /\ 0 \in Versions /\ MaxKey \in Int
      /\ holder = None /\ None \notin Callers
  BY SignedClientAssumption DEF Init, Versions
<1>2. TypeOK
  BY <1>1 DEF Init, TypeOK, PCs
<1>3. Advertised /\ Refreshed
  BY DEF Init, Advertised, Refreshed
<1>4. Posted /\ AnswersTrue /\ RetriedClosed /\ ActedOnce
  BY DEF Init, Posted, AnswersTrue, RetriedClosed, ActedOnce
<1>5. AcceptedAsSent /\ RotationIsTransparent
  BY DEF Init, AcceptedAsSent, RotationIsTransparent
<1> QED
  BY <1>2, <1>3, <1>4, <1>5 DEF IInv

\* Every step, or a stuttering step, preserves the invariant.
LEMMA NextInv == IInv /\ [Next]_vars => IInv'
<1> SUFFICES ASSUME IInv, [Next]_vars PROVE IInv'
  OBVIOUS
<1>1. ASSUME NEW c \in Callers, Start(c) \/ Call(c) PROVE IInv'
  BY <1>1, StartStep, ActiveKeyStep, FetchStep, StoreStep, SendStep, ReceiveStep,
     TimesOutStep DEF Call
<1>2. CASE Brain
  <2>1. CASE CacheAges
    BY <2>1, AgesStep DEF CacheAges
  <2> QED
    BY <1>2, <2>1, ActsStep, RefusesStep, RetireStep, RotateStep DEF Brain
<1>3. CASE UNCHANGED vars
  BY <1>3, AgesStep DEF IInv, TypeOK, vars, cacheVars
<1> QED
  BY <1>1, <1>2, <1>3 DEF Next

\* The inductive invariant holds throughout.
LEMMA Invariance == Spec => []IInv
<1> QED
  BY InitInv, NextInv, PTL DEF Spec

-----------------------------------------------------------------------------
(* The results *)

\* Calls, cache and wire keep their types; the mutex of activeKey is held by
\* exactly the call that is downloading.
THEOREM TypeCorrect == Spec => []TypeOK
<1>1. IInv => TypeOK
  BY DEF IInv
<1> QED
  BY <1>1, Invariance, PTL

\* call: a rotation of the brain's key is invisible to the caller.
THEOREM RotationHidden == Spec => []RotationIsTransparent
<1>1. IInv => RotationIsTransparent
  BY DEF IInv
<1> QED
  BY <1>1, Invariance, PTL

\* SealRequest, SignRequest and their counterparts: an edge that mixes the
\* parts of requests, repeats or delays them cannot make the brain act upon
\* anything but a request as it was sent.
THEOREM NoMixtureAccepted == Spec => []AcceptedAsSent
<1>1. IInv => AcceptedAsSent
  BY DEF IInv
<1> QED
  BY <1>1, Invariance, PTL

\* fetchKeysLocked: the cached key is never replaced by an older one.
THEOREM CacheGrows == Spec => CacheNeverRegresses
<1>1. ASSUME IInv, [Next]_vars PROVE cache' >= cache
  <2>1. cache \in Int /\ \A c \in Callers : doc[c] \in Int
    BY <1>1, SignedClientAssumption DEF IInv, TypeOK, Versions
  <2>2. CASE cache' = cache
    BY <2>1, <2>2
  <2>3. ASSUME NEW c \in Callers, Store(c) PROVE cache' >= cache
    BY <1>1, <2>1, <2>3 DEF IInv, Advertised, Store
  <2>4. ASSUME NEW c \in Callers, Start(c) \/ Call(c), ~Store(c) PROVE cache' = cache
    BY <2>4 DEF Start, Call, ActiveKey, FetchServed, FetchFails, Send, Receive, TimesOut,
                cacheVars
  <2>5. ASSUME Brain PROVE cache' = cache
    BY <2>5 DEF Brain, BrainActs, BrainRefuses, BrainKnowsNot, Retire, Rotate, CacheAges,
                cacheVars
  <2> QED
    BY <1>1, <2>2, <2>3, <2>4, <2>5 DEF Next, vars, cacheVars
<1>2. IInv /\ [Next]_vars => [cache' >= cache]_vars
  BY <1>1
<1> QED
  BY <1>2, Invariance, PTL DEF Spec, CacheNeverRegresses

-----------------------------------------------------------------------------
(* The refinement of RemoteCall *)

\* The refinement mapping.
Status == [c \in Callers |-> IF pc[c] \in {"idle", "ok", "error"} THEN pc[c] ELSE "open"]

Acts == [c \in Callers |-> Cardinality({h \in handled : h.pt = c})]

\* At most one of a set of requests is of call c.
LEMMA ActsCount ==
    ASSUME NEW H, NEW c, \A g, h \in H : g.pt = h.pt => g = h
    PROVE  Cardinality({h \in H : h.pt = c}) = IF \E h \in H : h.pt = c THEN 1 ELSE 0
<1>1. CASE \E h \in H : h.pt = c
  <2>1. PICK h \in H : h.pt = c
    BY <1>1
  <2>2. {g \in H : g.pt = c} = {h}
    BY <2>1
  <2>3. Cardinality({h}) = 1
    BY FS_Singleton
  <2> QED
    BY <1>1, <2>2, <2>3
<1>2. CASE ~\E h \in H : h.pt = c
  <2>1. {g \in H : g.pt = c} = {}
    BY <1>2
  <2> QED
    BY <1>2, <2>1, FS_EmptySet
<1> QED
  BY <1>1, <1>2

\* The initial states of the client are initial states of RemoteCall.
LEMMA InitRefines == Init => RC!Init
<1> SUFFICES ASSUME Init PROVE RC!Init
  OBVIOUS
<1>1. Status = [c \in Callers |-> "idle"]
  BY DEF Init, Status
<1>2. \A c : {h \in handled : h.pt = c} = {}
  BY DEF Init
<1>3. Acts = [c \in Callers |-> 0]
  BY <1>2, FS_EmptySet DEF Acts
<1> QED
  BY <1>1, <1>3 DEF RC!Init, Status, Acts

\* How a step of a call shows in RemoteCall.
LEMMA StatusStep ==
    ASSUME TypeOK, NEW c \in Callers, NEW l \in PCs, pc' = [pc EXCEPT ![c] = l]
    PROVE  Status' = [Status EXCEPT ![c] = IF l \in {"idle", "ok", "error"} THEN l ELSE "open"]
BY DEF TypeOK, Status

LEMMA CallRefines ==
    ASSUME IInv, NEW c \in Callers, Start(c) \/ Call(c)
    PROVE  RC!Begin(c) \/ RC!Succeed(c) \/ RC!Fail(c) \/ UNCHANGED <<Status, Acts>>
<1>0. TypeOK /\ ActedOnce
  BY DEF IInv
<1>1. handled' = handled /\ Acts' = Acts
  BY DEF Acts, Start, Call, ActiveKey, FetchServed, FetchFails, Store, Send, Receive,
         TimesOut, brainVars
<1>2. CASE Start(c)
  <2>1. Status[c] = "idle" /\ Status' = [Status EXCEPT ![c] = "open"]
    BY <1>0, <1>2, StatusStep DEF Start, GoTo, Status, PCs
  <2> QED
    BY <1>1, <2>1 DEF RC!Begin, Status, Acts
<1>3. CASE ActiveKey(c) \/ FetchServed(c) \/ Store(c) \/ Send(c)
  <2>1. Status[c] = "open" /\ Status' = [Status EXCEPT ![c] = "open"]
    BY <1>0, <1>3, StatusStep DEF ActiveKey, FetchServed, Store, Send, GoTo, Status, PCs
  <2> QED
    BY <1>1, <2>1 DEF Status
<1>4. CASE FetchFails(c) \/ TimesOut(c)
  <2>1. Status[c] = "open" /\ Status' = [Status EXCEPT ![c] = "error"]
    BY <1>0, <1>4, StatusStep DEF FetchFails, TimesOut, Fail, GoTo, Status, PCs
  <2> QED
    BY <1>1, <2>1 DEF RC!Fail, Status, Acts
<1>5. CASE Receive(c)
  <2>1. Status[c] = "open"
    BY <1>5 DEF Receive, Status
  <2>2. PICK r \in replies :
            /\ r.to = <<c, refresh[c]>>
            /\ \/ Opens(c, r) /\ GoTo(c, "ok")
               \/ GoTo(c, "lock")
               \/ GoTo(c, "error")
    BY <1>5 DEF Receive, Fail
  <2>3. CASE GoTo(c, "lock")
    <3>1. Status' = [Status EXCEPT ![c] = "open"]
      BY <1>0, <2>3, StatusStep DEF GoTo, PCs
    <3> QED
      BY <1>1, <2>1, <3>1 DEF Status
  <2>4. CASE GoTo(c, "error")
    <3>1. Status' = [Status EXCEPT ![c] = "error"]
      BY <1>0, <2>4, StatusStep DEF GoTo, PCs
    <3> QED
      BY <1>1, <2>1, <3>1 DEF RC!Fail, Status, Acts
  <2>5. CASE Opens(c, r) /\ GoTo(c, "ok")
    <3>1. Status' = [Status EXCEPT ![c] = "ok"]
      BY <1>0, <2>5, StatusStep DEF GoTo, PCs
    <3>2. r.sealed.key = Export(Context(<<c, refresh[c]>>, key[c], op[c]))
      BY <2>5, SealedParts DEF Opens, OpenResponse
    <3>3. PICK h \in handled, k \in 1..MaxKey :
              r.sealed.key = Export(Context(h.stamp, k, h.path))
      BY <2>5 DEF IInv, AnswersTrue, Opens
    <3>4. Context(h.stamp, k, h.path) = Context(<<c, refresh[c]>>, key[c], op[c])
      BY <3>2, <3>3, ExportBinds
    <3>5. h.stamp = <<c, refresh[c]>>
      BY <3>4, ContextBinds
    <3>6. h.pt = c
      BY <3>5 DEF IInv, AcceptedAsSent, Connection
    <3>7. Acts[c] = 1
      BY <1>0, <3>6, ActsCount, SMTT(30) DEF ActedOnce, Acts
    <3> QED
      BY <1>1, <2>1, <3>1, <3>7 DEF RC!Succeed, Status, Acts
  <2> QED
    BY <2>2, <2>3, <2>4, <2>5
<1> QED
  BY <1>2, <1>3, <1>4, <1>5 DEF Call

\* How a step of the brain, the edge or time shows in RemoteCall.
LEMMA BrainRefines ==
    ASSUME IInv, IInv', Brain
    PROVE  (\E c \in Callers : RC!Act(c)) \/ UNCHANGED <<Status, Acts>>
<1>1. Status' = Status
  BY DEF Status, Brain, BrainActs, BrainRefuses, BrainKnowsNot, Retire, Rotate, CacheAges,
         callVars
<1>2. CASE handled' = handled
  BY <1>1, <1>2 DEF Acts
<1>3. CASE \E m, n \in wire : BrainActs(m, n)
  <2>1. PICK m \in wire, n \in wire : BrainActs(m, n)
    BY <1>3
  <2>2. PICK r \in Mixtures(Request(m), Request(n)) :
            Accepts(r) /\ handled' = handled \cup {View(r)}
    BY <2>1 DEF BrainActs
  <2>3. PICK x \in wire : View(r).pt = x[1] /\ \A h \in handled : h.pt # x[1]
    BY <2>2, ActsOnSent
  <2>4. x[1] \in Callers /\ pc[x[1]] # "idle" /\ ActedOnce /\ ActedOnce'
    BY DEF IInv, TypeOK, Posted, Refreshed
  <2>5. Status[x[1]] # "idle"
    BY <2>4 DEF Status
  <2>6. Acts[x[1]] = 0 /\ Acts'[x[1]] = 1
    <3>1. Acts[x[1]] = 0
      BY <2>3, <2>4, ActsCount DEF ActedOnce, Acts
    <3>2. Cardinality({h \in handled' : h.pt = x[1]}) = 1
      <4>1. \A g, h \in handled' : g.pt = h.pt => g = h
        BY <2>4 DEF ActedOnce
      <4>2. \E h \in handled' : h.pt = x[1]
        BY <2>2, <2>3
      <4> QED
        BY <4>1, <4>2, ActsCount
    <3> QED
      BY <2>4, <3>1, <3>2 DEF Acts
  <2>7. Acts' = [Acts EXCEPT ![x[1]] = 1]
    <3>1. \A d \in Callers \ {x[1]} : {h \in handled' : h.pt = d} = {h \in handled : h.pt = d}
      BY <2>2, <2>3
    <3> QED
      BY <2>6, <3>1 DEF Acts
  <2> QED
    BY <1>1, <2>4, <2>5, <2>6, <2>7 DEF RC!Act, Status, Acts
<1> QED
  BY <1>2, <1>3 DEF Brain, BrainRefuses, BrainKnowsNot, Retire, Rotate, CacheAges, brainVars

\* The client implements RemoteCall: a call is acted upon at most once, although
\* call() may send it twice, and succeeds only if its own request was acted
\* upon, whatever the edge does with requests and answers.
THEOREM CallImplemented == Spec => ImplementsCall
<1>1. IInv /\ IInv' /\ [Next]_vars => [RC!Next]_(RC!vars)
  <2> SUFFICES ASSUME IInv, IInv', [Next]_vars PROVE [RC!Next]_(RC!vars)
    OBVIOUS
  <2>1. UNCHANGED <<Status, Acts>> => UNCHANGED RC!vars
    BY DEF RC!vars, Status, Acts
  <2>2. CASE \E c \in Callers : Start(c) \/ Call(c)
    BY <2>1, <2>2, CallRefines DEF RC!Next
  <2>3. CASE Brain
    BY <2>1, <2>3, BrainRefines DEF RC!Next
  <2>4. CASE UNCHANGED vars
    BY <2>1, <2>4 DEF vars, callVars, brainVars, Status, Acts
  <2> QED
    BY <2>2, <2>3, <2>4 DEF Next
<1> QED
  BY <1>1, InitRefines, Invariance, PTL DEF Spec, ImplementsCall, RC!Spec

===============================================================================
