# A TLA+ model of muthur-collector

muthur-collector runs inside a customer's cluster. It receives AlertManager
webhooks, enriches every alert with logs, metrics, pod metadata and events,
redacts the text and forwards the result to a central service, the *brain*, over
gRPC with mutual TLS or over a signed HTTP transport. Two short-lived variants of
the same binary enrol the collector (`bootstrap`, an init container) and rotate
its certificate (`renew`, a CronJob).

This directory holds TLA+ modules translated from the Go source, TLC
configurations that check them on small instances, and TLAPS proofs for every
value of the constants. `PROJECT.json` is the index: which definition models
which lines, what each run and each theorem shows.

    tlc -workers 2 -config Webhook.cfg Webhook              # one run
    tlapm WebhookProofs.tla                                 # one set of proofs

## 1. Inventory

| Component (source) | State | Operations | What makes it correct |
|---|---|---|---|
| Webhook receiver (`internal/webhook`) | semaphore `sem`, request goroutines, workers | decode or refuse, dispatch or drop, acknowledge, release a slot | slots and workers agree; the ceiling holds; no alert of an acknowledged request is unaccounted for; AlertManager is never kept waiting |
| Pipeline (`internal/pipeline`) | one 30 s context and one payload per alert | resolve, logs, metrics, metadata, events, forward | the payload is bounded; caps keep the newest events; the call ends |
| Resolver, k8s lookups (`internal/resolver`, `internal/k8s`) | none | target of an alert from its labels | precedence, cap of 10 pods |
| Loki, Prometheus, events clients | none | fetch, with caps, swallowing errors | bounded; partial failure tolerated |
| Redactor (`internal/redact`) | running byte total, statistics | `Redact`, `RedactString` | fails closed; the budget is exact; every line is accounted for |
| Forwarder (`internal/forwarder`) | attempt, deadline, timer, nonce | `Forward`, `send`, classification of errors | success means ingested; permanent errors are not retried; a retry is not a replay; it ends |
| Certificate reloader (`internal/auth/reloader.go`) | cached pair and its mtime, no lock | stat, compare, load, store | never stuck with an old pair; rotation never fails a handshake |
| Certificate files (`internal/auth/keypair.go`) | `tls.crt`, `tls.key`, `ca.crt` | an atomic rename per file | no file goes missing; readers survive what is half done |
| Enrolment and renewal (`internal/auth/flows.go`, `client.go`) | a one-time token | `BootstrapFlow.Run`, `RenewFlow.Run` | the token is spent once; a stored pair matches and stays |
| Secret store (`internal/auth/secret_store.go`) | a Kubernetes Secret | `Exists`, `Read`, `Write` (Get, then Update or Create) | concurrent writers do not mix material or lose the CA |
| Renewal schedule (`flows.go`, Helm CronJob) | remaining validity | skip or rotate | the certificate does not expire |
| Signed client (`internal/auth/signedclient.go`) | HPKE key cache under a mutex | key fetch, sealed call, one refresh and retry | rotation of the brain's key is invisible; nothing is delivered twice by the retry; success means the brain acted; it ends |
| HTTP signatures, HPKE envelope (`httpsig.go`, `sealed.go`) | none | digest, sign and verify, seal and open, of requests and responses | parts of different requests do not combine; a response belongs to its request |
| Startup (`cmd/collector/main.go`) | none | pick a persister; load the pair, then the CA; exit without either | what enrolment stored is served without help |
| Configuration, metrics, k8s client set-up, generated proto | none of their own | | not modelled, or only where a property needs them |

Interactions. An HTTP goroutine per webhook starts worker goroutines that share
the semaphore; a worker calls the pipeline, which calls the resolver, the
clients, the redactor and the forwarder in sequence under one context; the
forwarder asks the reloader for the certificate in every TLS handshake (gRPC) or
attempt (signed) and, in signed mode, shares one `SignedClient` among all
workers. Bootstrap and renewal jobs write the Secret, the kubelet propagates it
to the files the reloader reads. The brain keeps a replay cache of nonces.

Hard behaviours. Unlocked read-check-store in the reloader; two files that change
one after the other; overlapping jobs on one Secret; a backoff timer racing a
deadline; attempts that reach the brain after the client has given up; an edge
that ends the TLS connections and handles every request in the open; a container
that starts before its volume is filled;
acknowledgement before processing, with nothing persisted; a mutex held across a
download; caps and byte budgets at their limits. `PROJECT.json` lists them as
hazards, each at its line, with the properties aimed at it.

## 2. Modules

| Module | Models | Used by |
|---|---|---|
| `Webhook` | `handler.go` | run as it is; `WebhookProofs`, `Collector` |
| `Forwarder` | `forwarder.go`, nonces | run as it is; `ForwarderProofs`; instantiated by `Pipeline` |
| `Pipeline` | `pipeline.go`, resolver, enrichment clients | `MCPipeline`, `PipelineProofs`, `Collector` |
| `AlertDelivery` | abstract: what the serve process promises for an alert | implemented by `Collector`, proved in `CollectorProofs` |
| `Collector` | the wiring in `runServer`: `Webhook` and `Pipeline` (with `Forwarder`) together | `MCCollector`, `CollectorProofs` |
| `Redactor` | `redactor.go` | `MCRedactor`, `RedactorProofs` |
| `Reloader` | `reloader.go`, `WriteMaterial`, the kubelet | run as it is; `ReloaderProofs`, `Lifecycle` |
| `Enrolment` | `flows.go`, `secret_store.go`, `WriteMaterial` | `MCEnrolment`, `Lifecycle`, `LifecycleProofs` |
| `Lifecycle` | `Enrolment`, the kubelet's volume and `Reloader` together, with the startup of `runServer` | run as it is; `LifecycleProofs` |
| `Runway` | the `RENEW_BEFORE` rule under the CronJob | run as it is; `LifecycleProofs` |
| `Envelope` | `sealed.go`, `httpsig.go` as operators on terms | `SignedClient` |
| `RemoteCall` | abstract: what a call of the signed transport promises | implemented by `SignedClient`, proved in `SignedClientProofs` |
| `SignedClient` | `signedclient.go`, the brain's checks, the edge | run as it is; `SignedClientProofs` |

`MC*` modules add only sets of inputs and, for the jobs of `Enrolment`, symmetry. An operator whose comment
starts with "Mutant:" is a plausible mistake in the code, defined beside the
definition it would replace; no specification uses it. Each property is shown
to fail under one of them (`mutants` in `PROJECT.json`).

State and code:

* **Webhook.** `sem` is the fill of the channel `Handler.sem`; `phase`, `size`,
  `next` are the request goroutine's position in `ServeHTTP`; `running`,
  `settled`, `releasing` split a worker's life at the return of `ProcessAlert`
  and at the deferred receive. `dropped` and `lost` record fates. `Restart`
  empties all that lives in memory.
* **Forwarder.** `attempt`, `lastErr` are the loop's variables; `left` is what
  remains of the caller's context, `timer` the backoff timer, both in seconds.
  `wire`, `seen`, `replies`, `ingested` belong to network and brain. A request
  may arrive at any time, also after the call has ended; an answer may never be
  received. One `Ingest` of the signed transport counts as one transmission;
  its inner retry is the subject of `SignedClient`, which shows that it is not a
  second delivery.
* **Pipeline.** One action per stage. A loop over pods or objects is a recursive
  function of the number of passes made, over the outcomes of its fetches; each
  fetch may fail, and under an expired context every one does. The sort of the
  events is some order of the list in which time stamps do not increase, as
  `sort.Slice`, which is not stable, promises. A stage consumes a duration out of `Delays`,
  never more than the context (or the resolver's own 5 s) allows. That one fetch may
  take all of the context is more than the 15 s limit of a Loki or Prometheus request
  permits by itself; a stage that makes several in turn gets there. `heard` and `offered`
  are history variables: whether Loki returned lines, and what the event fetches
  returned. The redactor's effect on the log lines
  is any count that `Redact` may return.
* **Collector.** Conjunctions of the actions above: a worker's start is
  `Webhook!Spawn` with `Pipeline!Begin`, its end `Return` with `Settle`, a
  restart takes both down. `FateOf` is the refinement mapping to `AlertDelivery`.
* **Redactor.** A text is `[raw, red, hits]`: bytes before and after the
  patterns, and matches. One pass of the loop is one action; the guards are
  arbitrary integers that fall back to the defaults when not positive.
* **Reloader.** A *generation* is the content of one issued pair. `pc` has a
  label for each unlocked step: first stat, comparison with the cache, second
  stat, read of `tls.crt`, read of `tls.key`, store. `calm` is a ghost variable:
  what the writers did since a call began. Either the Secret volume is swapped
  as a whole, or `WriteMaterial` renames the two files in turn. The third,
  optional rename (`ca.crt`) is left out: the reloader does not read that file.
* **Enrolment.** Certificates and keys are named by the job that made them, so
  "the pair matches" is `cert = key`. `backend` is the choice of `newPersister`:
  with the Secret, each call of the Kubernetes API is a step, `Update` succeeds
  only with the resource version that was read, as the API server enforces, and a
  stored write may be reported as an error; with files, every file is read and
  renamed in a step of its own. The local variables of a run are reset when it
  ends. `Begin` is the start of a container, some time before the flow's first look at
  the store. `enrolled` is a history variable: the bootstraps that began when a pair
  was stored that has not been deleted since. The operators damage the Secret, delete
  it and enrol anew, or publish a fresh token while it is there (`NewToken`).
* **Lifecycle.** `mounted` is the content of the Secret volume, which `Sync`, the
  kubelet, brings up to date in one step; a generation of `Reloader` stands for
  the pair that `pairs` names. `Boot` needs a bootstrap that exited with 0, not a
  projected volume. `NewForwarder` reads the CA and exits without one. `ready`
  says that the process listens.
* **Runway.** Hours, with a run as one action.
* **Envelope.** A ciphertext is the record of its context (encapsulated secret,
  key id, path), its associated data and its plaintext; it opens where all agree.
  A signature is the record of its parameters, its key and what it covers. The
  response key is a term over the request's context. Time stamp and nonce are one
  value, which the code never separates; the constant `@method` is left out.
* **SignedClient.** `holder` is the mutex; a key is its version; `op` is the
  endpoint of a call, `bootstrap` being sealed but unsigned. `wire` keeps what was
  posted for good, so any of it may arrive late or again. `BrainActs(m, n)` hands
  the brain any mixture of the parts of two posted requests and gives the answer
  to either connection. The brain's checks and their order are those of
  `fakeSignedBrain` in `signedclient_test.go`, with a memory of nonces.
  `retriedAt` is a ghost.

  Three assumptions about the other side carry the results. A refusal carries no
  seal, and is taken to be the brain's about the request as it was sent (an edge
  that invents `hpke_key_unknown` can make a call be sent twice). The brain looks
  up the nonce before it opens the seal: if it did not, a redelivered request
  whose key has been dropped would be answered `hpke_key_unknown` although it was
  acted upon, and the retry would be acted upon again. And the key document that
  is served is the current one; the client does not compare `issued_at` with what
  it had.

## 3. Runs

Passing runs take between a second and three minutes and reach between 7
thousand and 5.3 million distinct states. Liveness is checked in the same run as
safety wherever a module has both.

| Run | Checks | Result |
|---|---|---|
| `webhook` | `SlotsMatchWorkers`, `CeilingHolds`, `AckedIsAccounted`, `DropOnlyWhenBusy`, `NeverWedged` | holds |
| `forwarder` | `TypeOK`, `OkWasIngested`, `GivesUpWithCause`, `RetriesOnlyTransient`, `BackoffRespected`, `RetryIsNoReplay`, `ForwardReturns` | holds |
| `pipeline` | `TypeOK`, `PayloadBounded`, `FetchedIsUsed`, `ProcessAlertReturns` | holds |
| `pipeline_fail_soft` | `FailSoftEnrichment` | violated, finding 2 |
| `collector` | `ImplementsDelivery`, `SlotsComeBack` | holds |
| `redactor` | `FailsClosed`, `BudgetRespected`, `EveryLineAccounted` | holds |
| `reloader` | `CacheCoherent`, `NextHandshakeUsesRotated`, `RotationNeverFailsHandshake`, `RotationPickedUp` | holds |
| `enrolment` | `TypeOK`, `TokenSparedWhenEnrolled`, `StoredPairMatches`, `PairOnceStoredStays`, `CANeverLost` | holds |
| `enrolment_malformed` | `MalformedIsRotated` | violated, finding 1 |
| `runway` | `NeverExpires` | holds |
| `signed_client` | `TypeOK`, `RotationIsTransparent`, `AcceptedAsSent`, `CacheNeverRegresses`, `SignedCallReturns`, `ImplementsCall` | holds |
| `lifecycle` | `PresentsIssuedPair`, `RestartIsSafe`, `StoredCertIsServed` | holds |

The runs of `Forwarder`, `Pipeline`, `Enrolment` and `SignedClient` check their
`TypeOK` too; those of the other components are left to the proofs.

*What is a permanent error?* `GivesUpWithCause` and `RetriesOnlyTransient` name the
errors that the repository's documents and tests call permanent (`Refusals`) and
transient (`Passing`), so that a mistake in `isPermanent` shows on either transport.
*When is a token spent?* `TokenSparedWhenEnrolled` is about the brain's acceptance:
it is never for a bootstrap that started in an enrolled cluster, although its check
comes later, other runs write meanwhile, and a fresh token may be there to take. Two
bootstraps that both looked before a pair was stored both present the token, and
the brain takes one. *What passes the edge?* `AcceptedAsSent` says that
whatever the brain acts upon is one caller's request with its own endpoint,
stamp and certificate; it rests on the digest, the signature's components and the
seal together (without the associated data, a bootstrap, which has no signature,
could be given another stamp). *What does a call promise?* `ImplementsCall`
relates the caller's knowledge to the brain's acts. *Does a certificate arrive?*
`StoredCertIsServed` follows it from the Secret to the handshakes of a process
that may have started too early, crashed, or lacked a CA; `RestartIsSafe` says
that no run of the flows makes the next start fail.

Deadlock checking is off wherever the bounded system may simply have nothing
left to do (all requests answered, all jobs ended, bounds used up); it is on in
`runway`, whose clock and schedule never stop while the certificate lives.

### Bounds

* Webhook: three requests of at most two alerts and a ceiling of two, so that
  six alerts compete for two slots and one restart falls anywhere among them. The
  configured ceiling is 0, what an unparsable `WEBHOOK_MAX_CONCURRENT` becomes; the
  proofs cover every other value.
* Forwarder: one call, since calls share nothing but the source of nonces; eight
  seconds, enough for all three attempts (2 s and 4 s of backoff) with a second
  of waiting in two of them. The codes include a permanent and a transient one
  of each transport.
* Pipeline: one alert of every kind; caps scaled down (2 pods, 3 lines, 2 and 3
  events) below what the sources hold, so that each cap is hit. The run about
  fail-soft keeps the code's own 30 s and 5 s.
* Collector: one request with two alerts for one slot, and a restart; overlapping
  requests are in `webhook`. Three seconds of context allow two transmissions per
  alert. The alerts are about one pod and Loki is the only source: the fetch of the
  logs takes none, one or all three of the seconds, so that Forward begins with all,
  some or nothing of its context. The other stages, which take time in the same way,
  are in `pipeline`, and so are resolved alerts, which go straight to Forward like one
  whose fetch takes no time; the third attempt is in `forwarder`.
* Redactor: every list of up to four of six texts that lie at, below and above
  the caps before and after redaction, and that grow or shrink.
* Reloader: two handshakes and the starting process against three generations,
  one disappearance and one crash: enough for a load to be overtaken twice.
* Enrolment: two bootstraps and two renewals, so that any two writers of the
  store overlap, and one intervention of an operator (damage,
  re-enrolment or a fresh token), on either persister.
* Lifecycle: one bootstrap, one renewal, one handshake, one intervention and one
  crash: three generations of the volume are what these can make. Overlapping
  writers are in `enrolment`, overlapping handshakes in `reloader`.
* Runway: the chart's defaults, hour by hour; the theorem covers the rest.
* SignedClient: two callers, each for either of an unsigned and a signed endpoint
  (`sign-csr` differs from `ingest` in its name only), and three key versions, so
  that the brain can rotate again between refresh and retry. Mixtures are made of
  two requests: each check compares parts of a request in pairs.

Symmetry is used in `enrolment` only (jobs of one kind), which checks no liveness.

### Fairness

* `webhook`: the request goroutine only. Workers may hang for ever,
  which is the point of the property.
* `forwarder`, `pipeline`, `collector`: goroutines
  run and time passes, which the Go scheduler and the clock provide. Every source
  request is made under the context, so a stage ends by the deadline at the
  latest. Nothing is assumed of brain, network and sources: they need not answer.
* `reloader`: calls run to their end, handshakes keep being made (every
  alert needs one when the connection is renewed, or, on the signed transport,
  for every attempt) and a dead process is restarted by Kubernetes. Writers are
  not fair; the property is conditional on their coming to rest.
* `lifecycle`: the kubelet syncs the volume and restarts the container, the process
  runs, handshakes keep being made. Nothing is assumed of the runs, the brain and
  the operators: the property is conditional on the Secret's coming to rest with
  a good pair and a CA.
* `signed_client`: each call makes progress (the HTTP client has a
  timeout of 30 s) and the mutex is granted to those who wait, as Go's mutex
  guarantees.

## 4. Findings

Where the source or its documents say one thing and the code does another. For
the first two a run states what is said and TLC shows the counterexample;
quotes and lines are in `PROJECT.json`.

1. A malformed stored certificate is not rotated: `X509KeyPair` fails first.
2. Slow sources can cost the whole alert, not only its enrichment.

Met while modelling, without a run of their own:

3. `keypair.go:104` says that a crash "can't leave a half-rotated state"; the two
   files are renamed one after the other (lines 116 and 119), so a crash between
   them leaves a new certificate beside an old key. A serving process keeps its
   cached pair. On the file persister nothing repairs the files: a bootstrap sees
   both and skips, and every renewal fails at `X509KeyPair` (`flows.go:198`).
4. `reloader.go:50` preserves the cached certificate "across transient Stat
   failures", but the second stat, in `load` (line 68), returns its error.
   `RotationNeverFailsHandshake` therefore excepts a missing `tls.crt`.
5. `CHANGELOG.md:147` says that only `Unavailable` and `DeadlineExceeded` are
   retried; `isPermanent` (`forwarder.go:207`) names six codes and retries the rest.
6. `metrics.go:44` documents `EnrichErrors` as counting fetch failures by source;
   the Loki and Prometheus clients log the error and return nil (`loki/client.go:57`),
   so these two are never counted.
7. `CHANGELOG.md:39` promises a payload's events "newest first"; they are sorted per
   object and appended object after object (`pipeline.go:188`), then cut.
   `FetchedIsUsed` is stated per object for this reason.
8. `metrics.go:50` documents `LinesDropped` as a count of lines; when the byte
   budget is reached it is incremented once for all the lines cut (`redactor.go:120`).
9. `docs/migration-0.7-mtls.md:156` says that a manual job forces a rotation; while
   more than `RENEW_BEFORE` is left it exits 0 without one (`flows.go:188`).
10. `CHANGELOG.md:88` says that the default schedule tolerates multiple consecutive
    failures; the condition `Tuned` of `CertNeverExpires` admits one.
11. `Exists` of the file persister looks for the files and does not parse them,
    unlike what the comment at `keypair.go:44` says.
12. `flows.go:139` says that the vendor CA "falls back to ca from Persister", but
    `config.go:106` gives `VENDOR_CA_FILE` a default, so it is never empty and the
    branch at `flows.go:209` is not reached from `runRenew`.
13. The byte budget of `Redact` does not count the markers it inserts, and a
    negative `LOKI_MAX_LOG_LINES` would make the slice in `FetchLogs` panic.

## 5. Proofs

TLAPS proves the following for all values of the constants that satisfy the
modules' `ASSUME`s. These say that bounds are numbers, that special values
(`None`, `Bad`, the results "ok" and "none") differ from ordinary ones, that
configuration sets hold what the code can be configured with, that time stamps of
events are naturals, that a context is no longer than the bound `Budget` on it and,
in `Redactor`, that a text without a match is not changed. `WEBHOOK_MAX_CONCURRENT` and
the redactor's guards are arbitrary integers. `CollectorAssumption` and
`LifeAssumption` only repeat the assumptions of the modules they compose.

Every safety invariant, every action property and both refinements of the passing
runs are stated by one of these theorems.

* **`WebhookProofs`**: `TypeCorrect`, `SlotsAccounted`, `CeilingRespected`,
  `AcksAccounted`, `DropsJustified`. None of the last four is inductive on its own.
  The invariant adds that the alerts a request has touched are exactly those
  before its loop index (so the next alert is fresh and joins one set only), that
  the four fates are disjoint, and that the sets whose cardinality is compared
  with `sem` are finite.
* **`ReloaderProofs`**: `TypeCorrect`, `CacheIsCoherent`, `QuietHandshakeIsFresh`,
  `RotationIsInvisible`. The invariant dates things: what is cached was read at or
  after the modification time stored with it, and the same holds for what a call
  in the middle of a load has read; so a cached certificate older than the one on
  disk is always dated before it. A further part ties the ghost `calm` to what a
  call has seen, which gives the two action properties.
* **`RedactorProofs`**: `TypeCorrect`; `NeverForwardsOversize`, by one lemma on
  appending an entry at the place of its line; `BudgetIsRespected` and
  `LinesAccounted`. The last two are about sums and counts over the lines kept.
  They are proved along the steps of the loop: `SumIsTotal` says that the running
  total of the code is the sum of what was kept, `CutAtBudget` that it stays
  within the budget, which the line at which text is cut off would exceed, and
  `Accounted` what the counters say of the entries so far.
* **`ForwarderProofs`**, for any set of calls that share the source of nonces:
  `TypeCorrect`, `SuccessIsIngested`, `FailureHasCause`, `PermanentIsFinal`,
  `BackoffKept`, `RetriesAreFresh`, `CopiesBounded`. An answer is matched with an
  attempt by its nonce, so the first needs a nonce to belong to one call
  (`NoncesOwned`), hence to have been drawn before it is used (`NoncesDrawn`);
  `RetriesAreFresh` needs those on the wire to differ as well (`NoncesUnique`).
  `Paced` carries the seconds spent so far, and the ones the timer will still take,
  through a backoff. `ClassifiedAsDocumented` compares `isPermanent` with the documented
  classes. `CopiesBounded` (no more than three transmissions, hence
  copies at the brain) counts along `attempt`, which `Bounded` relates to the wire.
* **`LifecycleProofs`**, first for the runs of the flows by themselves, on either
  persister, in any number and overlap: `TypeCorrect`, `PairsMatch`,
  `TokenIsSpared`, `CAIsNeverLost`, `PairStays`. `AnswersOwn` and `Locals` tie what a
  run holds to the certificate signed for it; `Versioned` says that a Secret with
  the resource version that was read has the content that was read, so an `Update`
  that succeeds knew the CA it keeps; `PairKept` carries a pair from the `Exists`
  of a run to its `Read`, and through the renames; `Spared` says that a pair is stored for as long as an
  `enrolled` bootstrap exists, and that such a bootstrap has nothing on the wire. Then for
  the whole life of a certificate: `HandshakePresentsIssued` and `RestartSafe`.
  There the invariant adds that each generation of the volume stands for one pair
  (`Generations`), that what reloader and handshakes hold in the middle of a load
  was signed by the brain (`HoldsSigned`), and that, until an operator intervenes,
  the volume holds nothing that the Secret has lost (`VolumeFollows`).
  Last, for the schedule: `CertNeverExpires`, under `Tuned`: the margin left by the
  last good run covers `MaxFails + 1` periods. The invariant `Headroom` bounds what
  is left by the margin, the hours since the last run and the failures so far. For
  the chart's defaults `Tuned` admits one failed run in a row, not two.
* **`SignedClientProofs`**, for any number of calls and key rotations:
  `TypeCorrect`, `RotationHidden`, `NoMixtureAccepted`, `CacheGrows` and
  `CallImplemented`, the refinement of `RemoteCall`. Lemmas on `Envelope` say what a
  signature and a seal bind; from them, a mixture of requests that passes the checks
  is one request as it was sent (`AcceptedIsOne`). The invariant follows keys from
  the brain to the cache and the wire (`Advertised`, `Refreshed`, `Posted`) and says
  what an answer tells (`AnswersTrue`). That a call sent twice is acted upon once
  (`ActedOnce`) needs the key of its first request to stay closed once the brain has
  refused it (`RetriedClosed`). Each step is then shown to be one of `RemoteCall`.
* **`PipelineProofs`**, for any number of alerts at the same time and of pods,
  lines and events: `TypeCorrect`, `PayloadStaysBounded`, `FetchedIsAlwaysUsed`. The
  invariant is that of `ForwarderProofs`, with the fact that a worker uses up the
  context only before it calls `Forward`, and `PayloadInv`, which bounds the parts of
  a payload stage by stage: metadata is bounded by the target, so it matters that
  none is there before `Resolve`. What the loops of a stage return is established by
  lemmas: `LogsCollected` for the lines (no more than the cap, and some if
  a pod has any), `SomeOrder` (every list can be sorted),
  `SortedShape` and `EventsKept` for the events.
* **`CollectorProofs`**: `DeliveryImplemented`, that the serve process implements
  `AlertDelivery`; `WebhookImplemented`, that it implements `Webhook`, so that the
  theorems of `WebhookProofs` hold of it; `PayloadsAsProved`, that those of
  `PipelineProofs` do too, although the process may die. Every step is shown to be a
  step of each part. The invariant is that of `WebhookProofs`, that of
  `PipelineProofs` and `InStep`: the books of the handler and the stages of the
  workers agree, which neither part knows by itself.

The induction theorems of the library take an operator, which the provers do not
instantiate. What these proofs say of loops over data is induction over a *set* of
naturals instead: `Climb`, from the library's theorem that a well-founded order
has minimal elements; `LoopRuns` gives a recursive function on an interval its
defining equation.

Only model-checked: liveness, because fairness and `ENABLED` are outside the
prover's reach (`NeverWedged`, `ForwardReturns`, `ProcessAlertReturns`,
`SlotsComeBack`, `RotationPickedUp`, `SignedCallReturns`, `StoredCertIsServed`), and
the two runs that show a violation.

## 6. Not modelled

* The redaction patterns: string matching, tested as such in the repository.
* The primitives under signatures and seals, which `Envelope` takes as perfect,
  the parsing of the encoded headers, and certificate chains, among them the one
  that signs the key document: their failure is modelled where a step may fail.
* An edge that forges refusals, and a brain that forgets nonces.
* Configuration loading: its effect is the range of the constants.
* Logging, tracing fields, most metrics, HTTP routing, generated code, the chart
  apart from the schedule.
* File modification times that do not advance, and the order in which the brain
  sees the notifications of one alert: the code promises nothing about them.

## 7. Plan

Done: the serve path (webhook, pipeline, forwarder, their composition and its
abstract specification), the redactor, the reloader, enrolment on both
persisters, the schedule, the life of a certificate across enrolment, kubelet and
reloader, the signed client with its envelope and its abstract specification, and
the proofs above. Next, in this order:

1. *Prove.* That `Lifecycle` implements `Reloader` on its volume, which would carry
   the theorems of `ReloaderProofs` over to it as `WebhookImplemented` does for the
   receiver.
2. *Model.* `SignedClient` inside an attempt of `Forwarder`, by way of
   `RemoteCall`.
