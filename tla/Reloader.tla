------------------------------- MODULE Reloader -------------------------------
(***************************************************************************)
(* The hot-reloading client certificate (internal/auth/reloader.go) and    *)
(* the writers of the files it reads (WriteMaterial in keypair.go, or the  *)
(* kubelet when the material lives in a Secret).                           *)
(*                                                                         *)
(* Every outbound TLS handshake, or signed request, calls                  *)
(* GetClientCertificate from a goroutine of its own.  Nothing is locked:   *)
(* the stat, the load of the cached pointer, the second stat, the two file *)
(* reads of LoadX509KeyPair and the store are separate steps, and a        *)
(* rotation may happen between any two of them.                            *)
(*                                                                         *)
(* A generation stands for the contents of one issued cert/key pair: files *)
(* of the same generation match, any other combination is refused by       *)
(* LoadX509KeyPair.  Modification times are strictly increasing, which is  *)
(* what the reloader documents as its trigger.                             *)
(***************************************************************************)
EXTENDS Integers

CONSTANTS
    Handshakes,     \* goroutines that ask for the client certificate
    Main,           \* the goroutine that runs NewClientReloader at startup
    NoCert,         \* the nil pointer
    Err,            \* a returned error
    MaxGen,         \* bound: pairs ever issued
    MaxVanish,      \* bound: times the files disappear
    MaxCrashes      \* bound: crashes of the serve process

ASSUME ReloaderAssumption ==
    /\ Main \notin Handshakes
    /\ NoCert \notin Nat
    /\ Err \notin Nat
    /\ NoCert # Err
    /\ MaxGen \in Nat
    /\ MaxVanish \in Nat
    /\ MaxCrashes \in Nat

VARIABLES
    persister,  \* who writes the files: "file" (WriteMaterial) or "secret"
    present,    \* tls.crt can be stat'ed
    certGen,    \* generation in tls.crt (0: never written)
    keyGen,     \* generation in tls.key (0: never written)
    mtime,      \* modification time of tls.crt
    writing,    \* WriteMaterial stands between its two renames
    vanished,   \* disappearances so far
    up,         \* NewClientReloader has succeeded, the process serves
    cached,     \* ClientReloader.cached: NoCert or a generation
    cachedAt,   \* the mtime stored with it
    pc,         \* where a goroutine is in GetClientCertificate / load
    st,         \* the modification time its last stat returned, or NoCert
    got,        \* the generation it read from tls.crt
    result,     \* what its last call returned: a generation or Err
    calm,       \* ghost: what the writers did since its call began
    crashes     \* crashes so far

files == <<persister, present, certGen, keyGen, mtime, writing, vanished>>
local == <<pc, st, got, result, calm>>
vars == <<files, local, up, cached, cachedAt, crashes>>

Procs == Handshakes \cup {Main}

PCs == {"idle", "check", "loadstat", "readcert", "readkey", "fallback", "store"}

\* "still": matching files, untouched; "rotating": rewritten or mismatching;
\* "missing": tls.crt was gone at some moment.
Calm == {"still", "rotating", "missing"}

TypeOK ==
    /\ persister \in {"file", "secret"}
    /\ present \in BOOLEAN
    /\ certGen \in 0..MaxGen
    /\ keyGen \in 0..MaxGen
    /\ mtime \in Nat
    /\ writing \in BOOLEAN
    /\ vanished \in 0..MaxVanish
    /\ up \in BOOLEAN
    /\ cached \in Nat \cup {NoCert}
    /\ cachedAt \in Nat
    /\ pc \in [Procs -> PCs]
    /\ st \in [Procs -> Nat \cup {NoCert}]
    /\ got \in [Procs -> Nat]
    /\ result \in [Procs -> Nat \cup {NoCert, Err}]
    /\ calm \in [Procs -> Calm]
    /\ crashes \in 0..MaxCrashes

Init ==
    /\ persister \in {"file", "secret"}
    /\ present = FALSE
    /\ certGen = 0
    /\ keyGen = 0
    /\ mtime = 0
    /\ writing = FALSE
    /\ vanished = 0
    /\ up = FALSE
    /\ cached = NoCert
    /\ cachedAt = 0
    /\ pc = [p \in Procs |-> "idle"]
    /\ st = [p \in Procs |-> NoCert]
    /\ got = [p \in Procs |-> 0]
    /\ result = [p \in Procs |-> NoCert]
    /\ calm = [p \in Procs |-> "missing"]
    /\ crashes = 0

Matching == present /\ certGen = keyGen

-----------------------------------------------------------------------------
(* The writers *)

\* Every goroutine inside a call notices that the files were touched.
Disturb(level) ==
    calm' = [p \in Procs |-> IF calm[p] = "missing" THEN "missing" ELSE level]

\* WriteMaterial, first rename: tls.crt is the new one, tls.key still the old.
\* A renewal needs a pair that loads, a bootstrap one that does not exist.
WriteCert ==
    /\ persister = "file"
    /\ ~writing
    /\ certGen = keyGen \/ keyGen = 0
    /\ certGen < MaxGen
    /\ writing' = TRUE
    /\ present' = TRUE
    /\ certGen' = certGen + 1
    /\ mtime' = mtime + 1
    /\ Disturb("rotating")
    /\ UNCHANGED <<persister, keyGen, vanished, pc, st, got, result, up, cached,
                   cachedAt, crashes>>

\* WriteMaterial, second rename.
WriteKey ==
    /\ writing
    /\ writing' = FALSE
    /\ keyGen' = certGen
    /\ Disturb("rotating")
    /\ UNCHANGED <<persister, present, certGen, mtime, vanished, pc, st, got,
                   result, up, cached, cachedAt, crashes>>

\* The job dies, or its second writeAtomic fails, after the first rename.
WriterFails ==
    /\ writing
    /\ writing' = FALSE
    /\ UNCHANGED <<persister, present, certGen, keyGen, mtime, vanished, local,
                   up, cached, cachedAt, crashes>>

\* The kubelet swaps the ..data link of the Secret volume: both files at once.
Swap ==
    /\ persister = "secret"
    /\ certGen < MaxGen
    /\ present' = TRUE
    /\ certGen' = certGen + 1
    /\ keyGen' = certGen + 1
    /\ mtime' = mtime + 1
    /\ Disturb("rotating")
    /\ UNCHANGED <<persister, writing, vanished, pc, st, got, result, up, cached,
                   cachedAt, crashes>>

\* The kubelet swaps in a Secret whose cert somebody has damaged: the pair does
\* not load.
SwapDamaged ==
    /\ persister = "secret"
    /\ certGen < MaxGen
    /\ present' = TRUE
    /\ certGen' = certGen + 1
    /\ mtime' = mtime + 1
    /\ Disturb("rotating")
    /\ UNCHANGED <<persister, keyGen, writing, vanished, pc, st, got, result, up,
                   cached, cachedAt, crashes>>

\* The optional Secret is deleted and the volume becomes empty.
Vanish ==
    /\ persister = "secret"
    /\ present
    /\ vanished < MaxVanish
    /\ vanished' = vanished + 1
    /\ present' = FALSE
    /\ Disturb("missing")
    /\ UNCHANGED <<persister, certGen, keyGen, mtime, writing, pc, st, got,
                   result, up, cached, cachedAt, crashes>>

Writer == WriteCert \/ WriteKey \/ WriterFails \/ Swap \/ SwapDamaged \/ Vanish

-----------------------------------------------------------------------------
(* GetClientCertificate and load *)

CalmNow == IF ~present THEN "missing"
           ELSE IF Matching THEN "still" ELSE "rotating"

\* The call returns v.
Return(p, v) ==
    /\ pc' = [pc EXCEPT ![p] = "idle"]
    /\ result' = [result EXCEPT ![p] = v]

\* What is returned when the files are no use: the cached cert, if any.
CachedOrErr == IF cached # NoCert THEN cached ELSE Err

\* GetClientCertificate begins with a stat of tls.crt.
Stat(p) ==
    /\ up
    /\ p \in Handshakes
    /\ pc[p] = "idle"
    /\ st' = [st EXCEPT ![p] = IF present THEN mtime ELSE NoCert]
    /\ pc' = [pc EXCEPT ![p] = "check"]
    /\ calm' = [calm EXCEPT ![p] = CalmNow]
    /\ UNCHANGED <<files, got, result, up, cached, cachedAt, crashes>>

\* Mutant: a tolerance on modification times.
ServeCachedSlack(p) ==
    /\ pc[p] = "check"
    /\ \/ st[p] = NoCert
       \/ st[p] # NoCert /\ cached # NoCert /\ ~(st[p] > cachedAt + 1)
    /\ Return(p, CachedOrErr)
    /\ UNCHANGED <<files, st, got, calm, up, cached, cachedAt, crashes>>

\* The stat failed, or the file is not newer than the cached cert.
ServeCached(p) ==
    /\ pc[p] = "check"
    /\ \/ st[p] = NoCert
       \/ st[p] # NoCert /\ cached # NoCert /\ ~(st[p] > cachedAt)
    /\ Return(p, CachedOrErr)
    /\ UNCHANGED <<files, st, got, calm, up, cached, cachedAt, crashes>>

\* The file is newer: load.
Reload(p) ==
    /\ pc[p] = "check"
    /\ st[p] # NoCert
    /\ cached = NoCert \/ st[p] > cachedAt
    /\ pc' = [pc EXCEPT ![p] = "loadstat"]
    /\ UNCHANGED <<files, st, got, result, calm, up, cached, cachedAt, crashes>>

\* NewClientReloader goes straight to load.
Boot ==
    /\ ~up
    /\ pc[Main] = "idle"
    /\ pc' = [pc EXCEPT ![Main] = "loadstat"]
    /\ calm' = [calm EXCEPT ![Main] = CalmNow]
    /\ UNCHANGED <<files, st, got, result, up, cached, cachedAt, crashes>>

\* load stats tls.crt itself; a failure here is returned as it is.
LoadStat(p) ==
    /\ pc[p] = "loadstat"
    /\ \/ /\ present
          /\ st' = [st EXCEPT ![p] = mtime]
          /\ pc' = [pc EXCEPT ![p] = "readcert"]
          /\ UNCHANGED result
       \/ /\ ~present
          /\ Return(p, Err)
          /\ UNCHANGED st
    /\ UNCHANGED <<files, got, calm, up, cached, cachedAt, crashes>>

\* LoadX509KeyPair reads tls.crt ...
ReadCert(p) ==
    /\ pc[p] = "readcert"
    /\ pc' = [pc EXCEPT ![p] = IF present THEN "readkey" ELSE "fallback"]
    /\ got' = [got EXCEPT ![p] = certGen]
    /\ UNCHANGED <<files, st, result, calm, up, cached, cachedAt, crashes>>

\* Mutant: the key is taken as it is.
ReadKeyAny(p) ==
    /\ pc[p] = "readkey"
    /\ pc' = [pc EXCEPT ![p] = IF present THEN "store" ELSE "fallback"]
    /\ UNCHANGED <<files, st, got, result, calm, up, cached, cachedAt, crashes>>

\* ... and then tls.key, and refuses a pair that does not match.
ReadKey(p) ==
    /\ pc[p] = "readkey"
    /\ pc' = [pc EXCEPT ![p] = IF present /\ keyGen = got[p] THEN "store"
                                                             ELSE "fallback"]
    /\ UNCHANGED <<files, st, got, result, calm, up, cached, cachedAt, crashes>>

\* Mutant: the load error is returned.
FallbackFails(p) ==
    /\ pc[p] = "fallback"
    /\ Return(p, Err)
    /\ UNCHANGED <<files, st, got, calm, up, cached, cachedAt, crashes>>

\* The pair did not load: keep serving the cached cert.
Fallback(p) ==
    /\ pc[p] = "fallback"
    /\ Return(p, CachedOrErr)
    /\ UNCHANGED <<files, st, got, calm, up, cached, cachedAt, crashes>>

\* Mutant: the modification time is taken after the read.
StoreStatAfter(p) ==
    /\ pc[p] = "store"
    /\ cached' = got[p]
    /\ cachedAt' = mtime
    /\ Return(p, got[p])
    /\ up' = TRUE
    /\ UNCHANGED <<files, st, got, calm, crashes>>

\* The pair loaded: it is cached with the modification time seen BEFORE the
\* read.  At startup the process now serves.
Store(p) ==
    /\ pc[p] = "store"
    /\ cached' = got[p]
    /\ cachedAt' = st[p]
    /\ Return(p, got[p])
    /\ up' = TRUE
    /\ UNCHANGED <<files, st, got, calm, crashes>>

\* The process ends, and its memory with it.
Exit ==
    /\ up
    /\ up' = FALSE
    /\ cached' = NoCert
    /\ cachedAt' = 0
    /\ pc' = [p \in Procs |-> "idle"]
    /\ UNCHANGED <<files, st, got, result, calm>>

\* The process dies (at startup after an error it simply tries again).
Crash ==
    /\ crashes < MaxCrashes
    /\ crashes' = crashes + 1
    /\ Exit

Call(p) ==
    \/ ServeCached(p) \/ Reload(p) \/ LoadStat(p) \/ ReadCert(p)
    \/ ReadKey(p) \/ Fallback(p) \/ Store(p)

Next ==
    \/ Writer
    \/ \E p \in Procs : Stat(p) \/ Call(p)
    \/ Boot
    \/ Crash

Spec == Init /\ [][Next]_vars

\* Calls run to their end, alerts keep arriving (so handshakes keep being
\* made), a dead process is restarted.  Nothing is assumed of the writers.
Fairness ==
    /\ \A p \in Procs : WF_vars(Call(p)) /\ WF_vars(Stat(p))
    /\ WF_vars(Boot)

FairSpec == Spec /\ Fairness

-----------------------------------------------------------------------------
(* Properties *)

Returns(p) == up /\ up' /\ pc[p] # "idle" /\ pc'[p] = "idle"

\* The modification time stored with the cached cert is a true bound on its
\* age: a cached cert that the mtime test of GetClientCertificate accepts is
\* the one on disk, however stats, reads, stores and rotations interleave.
\* (load stats before it reads; the other order would break this.)
CacheCoherent ==
    cached # NoCert /\ present /\ ~(mtime > cachedAt) => cached = certGen

\* "the next outbound TLS handshake observes the change and uses the rotated
\* cert" (ClientReloader): a call of GetClientCertificate during which a
\* matching pair lies untouched on disk returns that pair, also after an
\* older load has overwritten the cache in a race.
NextHandshakeUsesRotated ==
    [][\A p \in Handshakes :
          Returns(p) /\ calm[p] = "still" => result'[p] = certGen]_vars

\* "Half-written file during rotation - keep serving the cached cert rather
\* than failing" (load): once the process serves, a call fails only if
\* tls.crt itself was missing while it ran.
RotationNeverFailsHandshake ==
    [][\A p \in Handshakes :
          Returns(p) /\ calm[p] # "missing" => result'[p] # Err]_vars

\* A rotation reaches the running process without a restart: once a matching
\* pair stays on disk, every cache content is eventually that pair.
RotationPickedUp == <>[]Matching => <>[](cached = certGen)

=============================================================================
