---------------------------- MODULE ReloaderProofs ----------------------------
(***************************************************************************)
(* Proofs about the certificate reloader, for any number of concurrent     *)
(* handshakes, rotations, disappearances and crashes.                      *)
(***************************************************************************)
EXTENDS Reloader, TLAPS

(***************************************************************************)
(* The inductive invariant.  CacheCoherent compares the cache with the     *)
(* disk at one instant; what keeps it true is that every load IN FLIGHT    *)
(* carries a stat that is no newer than the contents it read.              *)
(***************************************************************************)

\* The cache is never dated later than the disk, and an equal date means
\* equal contents.
CacheDated ==
    cached # NoCert =>
        /\ cachedAt <= mtime
        /\ cachedAt = mtime => cached = certGen

\* The same for the pair a goroutine is about to store.
LoadDated(p) ==
    /\ pc[p] \in {"readcert", "readkey", "store"} =>
          st[p] \in Nat /\ st[p] <= mtime
    /\ pc[p] \in {"readkey", "store"} /\ st[p] = mtime => got[p] = certGen

\* Handshakes are made by a serving process, which always holds a cert.
Serving ==
    /\ up => cached # NoCert
    /\ \A p \in Handshakes : pc[p] # "idle" => up
    /\ pc[Main] # "idle" => ~up
    /\ pc[Main] # "check"

\* What a call knows while the files lie untouched, or at least present.
CallCalm(p) ==
    pc[p] # "idle" =>
        /\ calm[p] # "missing" => present
        /\ calm[p] = "still" =>
              /\ certGen = keyGen
              /\ pc[p] # "fallback"
              /\ pc[p] \in {"check", "readcert", "readkey", "store"} =>
                    st[p] = mtime
              /\ pc[p] \in {"readkey", "store"} => got[p] = certGen
        /\ calm[p] # "missing" /\ pc[p] = "check" => st[p] # NoCert

IInv ==
    /\ TypeOK
    /\ CacheDated
    /\ Serving
    /\ \A p \in Procs : LoadDated(p) /\ CallCalm(p)

-----------------------------------------------------------------------------

\* The initial states satisfy the invariant.
LEMMA InitInv == Init => IInv
<1> SUFFICES ASSUME Init PROVE IInv
  OBVIOUS
<1>0. present \in BOOLEAN /\ writing \in BOOLEAN /\ up \in BOOLEAN
  BY Zenon DEF Init
<1>1. TypeOK
  BY <1>0, ReloaderAssumption DEF Init, TypeOK, PCs, Calm
<1>2. CacheDated /\ Serving
  BY DEF Init, CacheDated, Serving, Procs
<1>3. \A p \in Procs : LoadDated(p) /\ CallCalm(p)
  BY DEF Init, LoadDated, CallCalm
<1> QED
  BY <1>1, <1>2, <1>3 DEF IInv

\* A write advances the modification time, or touches only the key.
LEMMA WriterStep == ASSUME IInv, Writer PROVE IInv'
<1>1. CASE WriteCert
  BY <1>1, ReloaderAssumption
  DEF IInv, TypeOK, CacheDated, Serving, LoadDated, CallCalm, Procs, PCs, Calm,
      WriteCert, Disturb
<1>2. CASE WriteKey
  BY <1>2, ReloaderAssumption
  DEF IInv, TypeOK, CacheDated, Serving, LoadDated, CallCalm, Procs, PCs, Calm,
      WriteKey, Disturb
<1>3. CASE WriterFails
  BY <1>3, ReloaderAssumption
  DEF IInv, TypeOK, CacheDated, Serving, LoadDated, CallCalm, Procs, PCs, Calm,
      WriterFails, local
<1>4. CASE Swap
  BY <1>4, ReloaderAssumption
  DEF IInv, TypeOK, CacheDated, Serving, LoadDated, CallCalm, Procs, PCs, Calm,
      Swap, Disturb
<1>5. CASE SwapDamaged
  BY <1>5, ReloaderAssumption
  DEF IInv, TypeOK, CacheDated, Serving, LoadDated, CallCalm, Procs, PCs, Calm,
      SwapDamaged, Disturb
<1>6. CASE Vanish
  <2>0. present' \in BOOLEAN
    BY <1>6, Zenon DEF Vanish
  <2>1. TypeOK'
    BY <2>0, <1>6, ReloaderAssumption DEF IInv, TypeOK, PCs, Calm, Vanish, Disturb
  <2>2. (CacheDated /\ Serving)'
    BY <1>6 DEF IInv, TypeOK, CacheDated, Serving, Procs, Vanish, Disturb
  <2>3. (\A p \in Procs : LoadDated(p) /\ CallCalm(p))'
    BY <1>6 DEF IInv, TypeOK, LoadDated, CallCalm, Calm, Vanish, Disturb
  <2> QED
    BY <2>1, <2>2, <2>3 DEF IInv
<1> QED
  BY <1>1, <1>2, <1>3, <1>4, <1>5, <1>6 DEF Writer

\* The steps of a call before the store change nothing shared.
LEMMA CallStep ==
    ASSUME IInv, NEW p \in Procs,
           \/ Stat(p) \/ ServeCached(p) \/ Reload(p) \/ LoadStat(p)
           \/ ReadCert(p) \/ ReadKey(p) \/ Fallback(p)
    PROVE  IInv'
<1>1. CASE Stat(p)
  BY <1>1, ReloaderAssumption
  DEF IInv, TypeOK, CacheDated, Serving, LoadDated, CallCalm, Procs, PCs, Calm,
      Stat, files, CalmNow, Matching
<1>2. CASE ServeCached(p)
  BY <1>2, ReloaderAssumption
  DEF IInv, TypeOK, CacheDated, Serving, LoadDated, CallCalm, Procs, PCs, Calm,
      ServeCached, Return, CachedOrErr, files
<1>3. CASE Reload(p)
  BY <1>3, ReloaderAssumption
  DEF IInv, TypeOK, CacheDated, Serving, LoadDated, CallCalm, Procs, PCs, Calm,
      Reload, files
<1>4. CASE LoadStat(p)
  BY <1>4, ReloaderAssumption
  DEF IInv, TypeOK, CacheDated, Serving, LoadDated, CallCalm, Procs, PCs, Calm,
      LoadStat, Return, files
<1>5. CASE ReadCert(p)
  BY <1>5, ReloaderAssumption
  DEF IInv, TypeOK, CacheDated, Serving, LoadDated, CallCalm, Procs, PCs, Calm,
      ReadCert, files
<1>6. CASE ReadKey(p)
  BY <1>6, ReloaderAssumption
  DEF IInv, TypeOK, CacheDated, Serving, LoadDated, CallCalm, Procs, PCs, Calm,
      ReadKey, files
<1>7. CASE Fallback(p)
  BY <1>7, ReloaderAssumption
  DEF IInv, TypeOK, CacheDated, Serving, LoadDated, CallCalm, Procs, PCs, Calm,
      Fallback, Return, CachedOrErr, files
<1> QED
  BY <1>1, <1>2, <1>3, <1>4, <1>5, <1>6, <1>7

\* A store, even a late one of an old pair, leaves the cache correctly dated.
LEMMA StoreStep == ASSUME IInv, NEW p \in Procs, Store(p) PROVE IInv'
BY ReloaderAssumption
DEF IInv, TypeOK, CacheDated, Serving, LoadDated, CallCalm, Procs, PCs, Calm,
    Store, Return, files

\* Starting and losing the process.
LEMMA ProcessStep == ASSUME IInv, Boot \/ Crash PROVE IInv'
<1>1. CASE Boot
  BY <1>1, ReloaderAssumption
  DEF IInv, TypeOK, CacheDated, Serving, LoadDated, CallCalm, Procs, PCs, Calm,
      Boot, files, CalmNow, Matching
<1>2. CASE Crash
  <2>0. up' \in BOOLEAN
    BY <1>2, Zenon DEF Crash, Exit
  <2>1. TypeOK'
    BY <2>0, <1>2, ReloaderAssumption DEF IInv, TypeOK, PCs, Calm, Crash, Exit, files
  <2>2. (CacheDated /\ Serving)'
    BY <1>2 DEF IInv, TypeOK, CacheDated, Serving, Procs, Crash, Exit, files
  <2>3. (\A p \in Procs : LoadDated(p) /\ CallCalm(p))'
    BY <1>2 DEF IInv, TypeOK, LoadDated, CallCalm, Calm, Crash, Exit, files
  <2> QED
    BY <2>1, <2>2, <2>3 DEF IInv
<1> QED
  BY <1>1, <1>2

\* Every step, or a stuttering step, preserves the invariant.
LEMMA NextInv == IInv /\ [Next]_vars => IInv'
<1> SUFFICES ASSUME IInv, [Next]_vars PROVE IInv'
  OBVIOUS
<1>1. CASE Writer
  BY <1>1, WriterStep
<1>2. CASE \E p \in Procs : Stat(p) \/ Call(p)
  BY <1>2, CallStep, StoreStep DEF Call
<1>3. CASE Boot \/ Crash
  BY <1>3, ProcessStep
<1>4. CASE UNCHANGED vars
  BY <1>4
  DEF IInv, TypeOK, CacheDated, Serving, LoadDated, CallCalm, vars, files, local
<1> QED
  BY <1>1, <1>2, <1>3, <1>4 DEF Next

\* The inductive invariant holds throughout.
LEMMA Invariance == Spec => []IInv
<1> QED
  BY InitInv, NextInv, PTL DEF Spec

-----------------------------------------------------------------------------

\* The reloader's state keeps its type: the date of the cache is a real
\* modification time, never the outcome of a failed stat.
THEOREM TypeCorrect == Spec => []TypeOK
<1>1. IInv => TypeOK
  BY DEF IInv
<1> QED
  BY <1>1, Invariance, PTL

\* The mtime test of GetClientCertificate never accepts a stale cert.
THEOREM CacheIsCoherent == Spec => []CacheCoherent
<1>1. IInv => CacheCoherent
  BY DEF IInv, TypeOK, CacheDated, CacheCoherent
<1> QED
  BY <1>1, Invariance, PTL

\* A handshake over untouched, matching files gets exactly the pair on disk.
THEOREM QuietHandshakeIsFresh == Spec => NextHandshakeUsesRotated
<1>1. ASSUME IInv, [Next]_vars, NEW p \in Handshakes,
             Returns(p), calm[p] = "still", ~ UNCHANGED vars
      PROVE  result'[p] = certGen
  <2> p \in Procs /\ p # Main
    BY ReloaderAssumption DEF Procs
  <2>1. CASE Writer
    BY <1>1, <2>1
    DEF Writer, WriteCert, WriteKey, WriterFails, Swap,
        SwapDamaged, Vanish, local, Returns
  <2>2. CASE Boot \/ Crash
    BY <1>1, <2>2 DEF Boot, Crash, Exit, Returns, IInv, TypeOK
  <2>3. ASSUME NEW q \in Procs, q # p, Stat(q) \/ Call(q) PROVE FALSE
    BY <1>1, <2>3
    DEF Returns, IInv, TypeOK, Stat, Call, ServeCached, Reload, LoadStat,
        ReadCert, ReadKey, Fallback, Store, Return
  <2>4. CASE ServeCached(p)
    BY <1>1, <2>4
    DEF IInv, TypeOK, CacheDated, Serving, CallCalm, ServeCached, Return,
        CachedOrErr, Returns
  <2>5. CASE Store(p)
    BY <1>1, <2>5 DEF IInv, TypeOK, CallCalm, Store, Return
  <2>6. CASE LoadStat(p) \/ Fallback(p)
    BY <1>1, <2>6
    DEF IInv, TypeOK, CallCalm, LoadStat, Fallback, Returns
  <2>7. CASE Stat(p) \/ Reload(p) \/ ReadCert(p) \/ ReadKey(p)
    BY <1>1, <2>7
    DEF IInv, TypeOK, Returns, Stat, Reload, ReadCert, ReadKey
  <2> QED
    BY <1>1, <2>1, <2>2, <2>3, <2>4, <2>5, <2>6, <2>7 DEF Next, Call
<1>2. ASSUME IInv, [Next]_vars
      PROVE  [\A p \in Handshakes :
                Returns(p) /\ calm[p] = "still" => result'[p] = certGen]_vars
  BY <1>1, <1>2
<1> QED
  BY <1>2, Invariance, PTL DEF Spec, NextHandshakeUsesRotated

\* A handshake of a serving process fails only if tls.crt was missing while
\* it ran: a half-written rotation never fails one.
THEOREM RotationIsInvisible == Spec => RotationNeverFailsHandshake
<1>1. ASSUME IInv, [Next]_vars, NEW p \in Handshakes,
             Returns(p), calm[p] # "missing", ~ UNCHANGED vars
      PROVE  result'[p] # Err
  <2> p \in Procs /\ p # Main
    BY ReloaderAssumption DEF Procs
  <2>1. CASE Writer
    BY <1>1, <2>1
    DEF Writer, WriteCert, WriteKey, WriterFails, Swap,
        SwapDamaged, Vanish, local, Returns
  <2>2. CASE Boot \/ Crash
    BY <1>1, <2>2 DEF Boot, Crash, Exit, Returns, IInv, TypeOK
  <2>3. ASSUME NEW q \in Procs, q # p, Stat(q) \/ Call(q) PROVE FALSE
    BY <1>1, <2>3
    DEF Returns, IInv, TypeOK, Stat, Call, ServeCached, Reload, LoadStat,
        ReadCert, ReadKey, Fallback, Store, Return
  <2>4. CASE ServeCached(p) \/ Fallback(p)
    <3>1. result'[p] = cached /\ cached \in Nat
      BY <1>1, <2>4
      DEF IInv, TypeOK, Serving, ServeCached, Fallback, Return, CachedOrErr, Returns
    <3> QED
      BY <3>1, ReloaderAssumption
  <2>5. CASE Store(p)
    <3>1. result'[p] = got[p] /\ got[p] \in Nat
      BY <2>5, <1>1 DEF IInv, TypeOK, Store, Return
    <3> QED
      BY <3>1, ReloaderAssumption
  <2>6. CASE LoadStat(p)
    BY <1>1, <2>6 DEF IInv, TypeOK, CallCalm, LoadStat, Returns
  <2>7. CASE Stat(p) \/ Reload(p) \/ ReadCert(p) \/ ReadKey(p)
    BY <1>1, <2>7
    DEF IInv, TypeOK, Returns, Stat, Reload, ReadCert, ReadKey
  <2> QED
    BY <1>1, <2>1, <2>2, <2>3, <2>4, <2>5, <2>6, <2>7 DEF Next, Call
<1>2. ASSUME IInv, [Next]_vars
      PROVE  [\A p \in Handshakes :
                Returns(p) /\ calm[p] # "missing" => result'[p] # Err]_vars
  BY <1>1, <1>2
<1> QED
  BY <1>2, Invariance, PTL DEF Spec, RotationNeverFailsHandshake

===============================================================================
