# Goqueue in TLA+

Goqueue is a task queue on Redis: an HTTP API enqueues jobs, worker pools claim
and execute them, a scheduler moves jobs whose time has come, and operators
inspect, retry, kill and delete them. All state is in Redis; every process keeps
only copies. This directory models that system, checks it with TLC on small
instances and proves the central properties with TLAPS for instances of any size.

## The system

| Part | Code | Module | Status |
|---|---|---|---|
| Job aggregate: lifecycle graph, attempts, retry budget | `job_aggregate/job.go`, `job_state.go` | `JobAggregate`, `JobLifecycle`, `JobDocument` | modelled |
| Retry policy, delay curves | `retry_policy.go`, `backoff.go` | `RetryPolicy` | modelled |
| Job documents: encoding in milliseconds | `redis/job_model.go` | `JobDocument`, `DocumentLife` | modelled |
| Lua scripts, job documents, sorted sets | `redis/script/*.lua`, `redis/job_repo.go` | `JobStore`, `DocumentLife`, `Catalog` | modelled but for `extend_lease.lua` |
| Broker, processor, worker loop, sweeps | `redis/job_broker.go`, `processor/service.go`, `worker/pool.go`, `scheduler/scheduler.go` | `Delivery` | modelled but for `ExtendLease` |
| Operators: retry, retry all, kill, delete | `inspector/service.go` | `Inspector` | modelled |
| Listings, statistics, the page of a bulk retry | `inspector/service.go`, `redis/job_repo.go`, `redis/queue_repo.go` | `Catalog` | modelled |
| Enqueue with idempotency keys | `enqueuer/service.go`, `redis/idempotency_store.go` | `Enqueuer` | modelled |
| Queues: registry, weights, pause, polling order, priorities | `queue_aggregate`, `redis/queue_repo.go`, `redis/keys.go` | `Dispatch` | modelled |
| Process start and shutdown | `cmd/main.go`, `cmd/server/server.go`, `pool.go`, `scheduler.go` | `Shutdown` | modelled |
| API handlers, contracts, configuration, wiring, metrics, dashboard, examples, fakes | the rest of `pkg/` | see "Not modelled" | |

`PROJECT.json` lists the same parts file by file, the lines each definition
models, and the hazards the properties aim at.

## The modules

**JobAggregate** holds the methods of `Job` as operators on records (`Lease`,
`Complete`, `Fail`, `Kill`, `Requeue`, with a `Can...` operator for each guard).
**JobStore** is Redis: `docs` (the hashes), `ttl`, and `zset` (the score of each
job in each of the six sets). A Lua script runs without interruption, so each is
one action formula; so is a `MULTI`/`EXEC` block. Scores that are instants count
down: 0 is due, `Absent` (-1) is not a member.

**Delivery** composes them on one queue. A worker's `pc` follows `Pool.run` and
`Process`: `idle`, `leased` (claimed, document not saved), `saved`, `running`,
`killing` (between the two calls of `JobBroker.Kill`). `copy[w]` is the aggregate
in its memory; all it writes is computed from it. `Abandon` and
`DequeueReplyLost` are the faults: a call that fails, a process that dies, a
reply that is lost. `Tick` is time. A worker that is alive reports within the
job's timeout plus the grace margin, which is what the margin is for. The branch
`FindNothing` of `Dequeue` (entries whose document is gone) cannot be reached in
the run `delivery`, where sets and documents agree; it happens in `inspector`,
where `QueueDrains` depends on it.

**JobLifecycle** is the abstract specification: each job moves along
`allowedTransitions`, with the steps from non-existence and to deletion. The
property `Lifecycle` says that `Delivery` implements it, mapping a job to the
state in its document.

**RetryPolicy** and **JobDocument** have the arithmetic that `JobAggregate` and
`JobStore` leave out. `RetryPolicy` is `NewRetryPolicy` with its defaults and
refusals, and the three delay curves with the clamp and the jitter, the latter as
the set of its results. `JobDocument` is the aggregate with all its instants,
`buildJob`, and the two directions of the encoding: a clock tick is finer than a
millisecond (`PerMilli` ticks), so writing a document truncates, and reading it
back does not restore what was lost. An operator that can fail yields a set,
which is empty in the case of an error.

**DocumentLife** puts one job with that arithmetic through its whole life:
requests of producers, claim, save, the three reports, crash, promotion, reclaim,
kill and requeue. `hash` is the document, `score` its entries in the sets, `copy`
the aggregate the worker decoded. `notBefore`, `notAfter` and `orphaned` are
history. It has one worker at a time and operators only while no worker holds
the job; `Delivery` and `Inspector` have the races.

**Inspector** extends `Delivery` with operators whose requests first read
documents and write later, one call at a time, with anything in between.

**Enqueuer** is separate, because it shares only the insertion with the rest. A
request is at the call it makes next (`claim`, `get`, `find`, `persist`,
`release`); calls fail with or without effect, servers crash, claims expire,
jobs are purged or deleted together with the key their document names.

**Dispatch** looks at what `Delivery` leaves out: several queues. Pools register
their queues one at a time, compute `BuildDequeueOrder`, and dequeue with the
weights collapsed by `dedupeQueues`, skipping paused queues, lowest
`PendingScore` first.

**Catalog** is what operators see of several queues while they are in use.
`JobRepo.List` is a sequence of calls: `CountSet` and `ReadSet` for each set of
each queue, `Load` for each document, and `Answer`, which filters, sorts and cuts
the page. `CountState` is one `ZCARD` of the statistics, `RequeueNext` one job of
a bulk retry. Other clients move jobs between any two of them. The reference is
the in-memory store of the repository's tests, which answers under one lock.

**Shutdown** is one process with its listeners, workers and sweeps, from `run`
to exit, in each of its four roles. Jobs are counted. A lease of a job running
in this process does not lapse here; `Delivery` treats that case.

The `MC` modules supply tables of requests, filters and pool configurations; `MCDispatch` also evaluates the polling order. In every module,
definitions introduced as mutants are variants of a definition with a
bug in it, used to see that a property would notice.

## What is checked

| Run | Instance | Result |
|---|---|---|
| `delivery` | 2 jobs (one without handler), 2 workers, 1 retry, 3 faults, sweeps of 1 job | claims are exclusive; hash and sets agree; no retryable job vanishes; only hopeless jobs die; leases of live workers hold; every run is counted; one extra run per fault at most; refines `JobLifecycle`; every job is settled in the end |
| `inspector` | 1 job, 2 workers, 2 operators, 2 requests, 1 fault | whatever operators do: no entry feeds two runs, only `Save` brings a deleted job back, a completed job that nobody holds an older copy of is final, and the job leaves the working sets |
| `enqueue` | 3 requests, 1 key, 2 deleting operators, 2 faults | one job per key that was never taken from a job; truthful duplicates; roll-backs free the key; everybody is answered |
| `dispatch` | 2 queues, 3 pools, 2 jobs per queue, 2 instants | pauses survive restarts; weight, then priority, then age decide; the first queue is served |
| `shutdown` | 2 workers, 1 sweep, 1 job waiting, 1 request, 1 fault | complete, ordered drain; one late claim per worker at most; it terminates even if handlers hang |
| `document` | 1 job, 7 requests, 2 ticks per millisecond, clock 3 to 11, 3 attempts | documents can be read back and leased; stamps and scores are those of the state; delays within the policy; nothing runs early; scripts agree with the methods they replace in all but the trail; open attempts are explained |
| `catalog` | 4 jobs in 2 queues, one perhaps expired, 3 filters, pages of 2, bulk of 3, 2 moves by others | an undisturbed listing is that of the reference store; jobs that stay are listed and counted right whatever moves; a bulk retry takes the jobs that died first and counts them right but for those that vanish |

The bounds are small and named in each configuration. They suffice for what the
properties need: two workers on one job, a second claim after a lapse, a crash
on the last attempt, two faults in one request, a tie and an invalid weight, a
request in flight on either listener. In `delivery` a sweep moves one job at a time
while two may be due, so `EventuallySettled` covers a job that waits behind
another. `inspector` has one job, so that two operators, two workers and a fault
fit; its bulk retry is a retry of that job, and `catalog` has bulk retries of
several, with pages below both the bulk size and the number of dead jobs, so one
call cannot reach them all. In `document` the clock starts off a whole millisecond, delays
reach their clamp, three of the seven requests are refused, and the run is long
enough for a crash, a reclaim and a second attempt, or for a failure, its delay
and a retry. In `catalog` an operation starts from jobs at rest, and two moves
are enough to take a job out of one set and into one already or not yet read.
Deadlock is not checked: all counters are capped, and a stopped process stops.

**Fairness.** Workers and sweeps loop until they are stopped, so each of their
steps is weakly fair, as is time. Requests that are being served make their next
call. Producers, operators and faults promise nothing. In `Shutdown` handlers
and requests need not end; `main` and its timers run; a sweep ends because each
Redis call has a timeout, and the exit of its loop is strongly fair because
`select` picks at random among ready cases. In `Dispatch` only the polling of a
running pool is fair. `DocumentLife` and `Catalog` state safety only and assume no
fairness.

## Where the code and its documentation disagree

Five runs expect a violation, each of one sentence of the repository.

| Run | Sentence | What happens |
|---|---|---|
| `slow_handler` | "a healthy-but-slow handler is not stolen from underneath itself" (`job.go:332`) | the set holds `LeaseDuration` plus grace whatever the timeout; the lease of a longer job lapses while its handler runs (`SlowHandlerKeepsLease`) |
| `completed_again` | "Nothing can move a job from `completed` back to `pending`" (`README.md:94`) | two operators retry one dead job; the second writes its copy after the job was requeued, run and completed, and no script compares states (`CompletedIsFinal`) |
| `reclaim_trail` | "The failed attempt is closed with an explicit reason" (`job.go:455`) and "The aggregate methods remain the specification" (`README.md:351`) | `reclaim.lua` leaves the attempt of a dead worker open (`ReclaimClosesAttempt`) |
| `lost_reply` | resending with a key returns the same job | the claim is released after an insert that did happen (`OneJobPerKey`) |
| `starvation` | the low-traffic queue never starves | weights only order the queues; the lighter one waits while the heavier has work (`NoQueueStarves`) |

What holds instead of the second is `ThroughIsFinal`: the type does refuse once
everybody who read the job before its completion is done with it. What holds
instead of the third is `OpenAttemptsAreOrphans`: nothing but a reclaim leaves an
attempt open.

Other places where a reader of the comments would expect something else. They
have no run of their own; the properties that hold say exactly how far the code
goes.

- `reclaim.lua` does not look at the retry budget, so a crash on the last attempt
  buys another execution, as often as a worker crashes, while `README.md:166` says
  that "an orphaned job does not get an unlimited retry budget". `BoundedRuns`
  allows one extra run per fault.
- `JobBroker.Kill` takes a job out of every set in one call and adds it to `dead`
  in another, although "Every method must be atomic" (`persistence/job_broker.go:14`).
  A worker that dies in between leaves the job in no set, where no sweep finds it.
  `NothingRetryableLost` says that this only befalls jobs that were about to be
  dead, and `Settled` counts them as settled.
- `RetryAllDead` "requeues every dead job in a queue" (`inspector/service.go:151`), up
  to `maxBulkRetry`, 1000 (`:21`), but `JobRepo.List` returns no more than
  `maxPageSize`, 500, so one call leaves the rest dead. `BulkRetriesLongestDead` says
  that the rest died last, so that repeated calls get to it.
- The same comment promises "an honest count of what actually moved". A job that
  vanishes between the listing and its requeue is counted, because
  `transition.lua` reports a missing document by a result that
  `JobBroker.transition` drops. `BulkRetriesLongestDead` bounds the difference.
- `promote.lua` also clears the worker of a job, which `Promote` does not;
  `ScriptsMatchAggregate` says so.
- A deletion, or a roll-back whose claim had expired, removes an idempotency key
  that may by then belong to another job. `OneJobPerHeldKey` speaks of the other
  keys.
- Insert and roll-back of an enqueue run under the same request context, so one
  client that goes away can fail both and leave its key claimed. In `Enqueuer`
  these are two faults, and `RollbackFreesKey` allows for them.
- `JobRepo.List` over-fetches "so paging still works" (`job_repo.go:113`) and lists
  "newest first" (`job_repo.go:150`), but reads each set from its lowest score, so
  of a set longer than offset plus limit the newest jobs are the ones missing.
  `ListMatchesReference` is stated for sets that fit.
- The statistics count a completed job until the purge, also after its document
  expired, and in separate commands, so a job that moves may be counted twice or
  not at all (`StatsCountSteady`).

## What is proved

The theorems hold for every value of the constants that their assumptions
admit. The inductive invariants were checked with TLC on the small instances
before they were proved.

### Delivery

`DeliveryProofs`, from the assumptions on the constants alone:

- `TypeCorrect`: `Spec => []TypeOK`.

`DeliveryResults`, with the hypothesis `TimeoutFitsLease` (no job's timeout exceeds
`LeaseDuration`), which the code does not enforce and `slow_handler` shows to be
needed:

- `Safety`: `SafeInv` is invariant;
- `ExclusiveClaims`, `SetsAgree`, `LeaseKept`, `RunnerRecorded`: its consequences
  `ExclusiveExecution`, `SetMatchesState`, `HandlerKeepsLease` and
  `RunnerIsRecorded`;
- `Budget`: `BudgetInv(Nothing, Nothing)` is invariant;
- `RunsCounted`, `RunsBounded`, `DeathsEarned`, `RetryableKept`: its consequences
  `EveryRunCounted`, `BoundedRuns`, `DeadIsEarned` and `NothingRetryableLost`;
- `LifecycleRefined`: `Spec => Lifecycle`, that is, `Delivery` implements
  `JobLifecycle`.

What an action does in a state that satisfies `SafeInv` is proved once. Lemma
`Shapes` goes through the actions and says of each which of ten shapes its steps
have (`Adds`, `Claims`, `Saves`, `Runs`, `Reports`, `Clears`, `Drops`, `Returns`,
`Forgets`, `Ages`): which jobs and workers it touches, and what becomes of them in
the document, the sets and the counters. The two invariants and the refinement
follow from the shapes, without looking into a script again.

Exclusiveness is not inductive: that a claim fails while a worker is busy depends
on the job being in no set but `active` (`JobInv`), which depends on the sweep
not reclaiming it, which depends on the lease outlasting the time the worker has
left, `zset["active"][job[w]] >= left[w]` (`WorkerInv`). The three are proved
together (`SafeStep`). The refinement rests on them: a report writes the state its
copy leads to, and only because the document still is what the copy was made from
is that an edge of the graph. Each shape changes the mapped state of one job, or of
a set of jobs along one edge (`LifeStep`).

For the budget (`BudgetStep`) the counters alone are not inductive. What is needed
is that a job nobody holds either has an attempt left in its budget or has met a
fault that pays for the next run, and that a worker's copy has counted the attempt
it is making, whether or not it has saved it (`JobBudget`, `WorkerBudget`). That a
death is earned then follows from what the copy of the worker that reports it has
counted. The invariant has two parameters, the executions and the faults of each
job that are written off; here nothing is, below a retry writes off what came
before it.

### Operators

`Inspector` has the steps of `Delivery` and those of operators. `InspectorProofs`,
whatever operators do and however many there are:

- `InspectorTypes`: every variable keeps its type (`InspectorTypeOK`);
- `Resurrection`: `OnlySaveResurrects`. By `KnownInv` all that exists, is worked on
  or is about to be written was enqueued before, so no enqueue brings it back, and
  every script looks for a document before it writes one;
- `CompletionIsFinal`: `ThroughIsFinal`. A step leaves such a job where it lies
  (`Lies`): its document is not rewritten and it enters no set. Scripts that are
  given another job do that (`LiesElsewhere`), and every step that takes a job up
  finds it in a set, in a worker's hands or in an operator's, or is refused by the
  aggregate;
- `Offered`: `EveryRunWasOffered`. By `OfferInv` an offer of a job is pending, or
  held by a worker that has not started yet, or was spent on an execution. This
  needs no hypothesis on timeouts; it counts workers, so `InspectorAssumption` says
  that there are finitely many.

`InspectorBudget`, with `TimeoutFitsLease` and `OneRetrier` (one request at a time,
and only retries; other requests write from copies that may be stale, and the
properties fail):

- `RetrierSafety`: `SafeInv` of `Delivery` and `RetrierInv` are invariant;
- `RetrierExclusion`: `ExclusiveExecution`;
- `RetriesBounded`: `RunsPerRetry`, which no run checks: it fails as soon as there
  are two operators.

`RetrierInv` says that the jobs the operator has yet to write are still dead as it
read them: no worker holds a dead job and no sweep takes one. Every write of a
request therefore is a step from dead to pending of a job nobody holds
(`Requeues`), one more shape for the lemmas of `DeliveryResults`. For the number of
runs, `GrantInv` says that there are write-offs under which `BudgetInv` holds and
which exceed the faults they pay for by at most one budget per request that has
been carried out.

### Enqueuing

`EnqueuerProofs`, from the assumptions on the constants alone:

- `Deduplication`: `Spec => []OneJobPerHeldKey`;
- `DuplicatesTraced`: `Spec => []DuplicateNamesOriginal`;
- `RollbacksFree`: `Spec => []RollbackFreesKey`;
- `EnqueuerTypeCorrect`: `Spec => []EnqueuerTypeOK`.

The strengthening `HeldInv` says that a request that has a job, or is past its
claim, holds its key unless the key was taken from a job. It reduces the claim
to two lemmas: `SET NX` takes a key from nobody, and a `DEL` that hits a
committed holder marks the key as dropped. `AnswerInv` follows the two ways to an
answer: the owner of a key carries that key, so whom `GET` finds is another
request with it; and whoever is at `release` has already met a fault, so a claim
that survives the roll-back needs a second.

### Documents

`DocumentProofs`, from the assumptions on the constants (`PolicyAssumption`,
`DocumentAssumption`, and `LifeAssumption`: the clock starts at least a millisecond
after zero, grace margin and default delay are at least a millisecond, and the
timeouts of requests fit the lease):

- `DelayWithinPolicy`: every delay lies between the base and the maximum delay;
- `DocumentSafety`: `DocumentInv` is invariant;
- `DocumentReadable`, `StampsAgree`, `RetriesWithinPolicy`, `TrailExplained`,
  `NothingEarly`, `ScriptsAgree`: the six properties of the run `document`. Of the
  trail of a reclaimed job `ScriptsAgree` says nothing; see `reclaim_trail`.

`DocumentInv` has one part per place the data is in. `StoreInv` relates the stamps
of the document to its scores. `TrailInv` explains its open attempts. `CopyInv`
says of the copy a worker holds what the other two say of the document, and that
its deadline lies before the lease in Redis: a report writes the copy as a whole,
so the document is only as good as the copy was. The lemmas say that encoding
after decoding is the identity on documents, that decoding never fails on them,
and that truncation is monotone and loses less than a millisecond; each method of
the aggregate has a lemma about the stamps it leaves.

### Shutdown

`ShutdownProofs`, from the assumptions on the constants alone:

- `DrainSafety`: `DrainInv` is invariant;
- `Drain`, `Cancel`, `APIFirst`, `SweepsLast`: its consequences `DrainIsComplete`,
  `OneClaimAfterCancel`, `APIClosedBeforeDrain` and `SweepsOutliveWorkers`.

`DrainInv` has three parts beside the types. `OrderInv`: what `shutdown` is through
with was asked to stop and is quiet, unless its deadline elapsed, and what comes
later was not even asked. `ClaimInv`: the claims in Redis are as many as the
goroutines inside `Process` and the lost ones. `WorkerInv` and `SweepInv` tie what a
goroutine may still do to whether its component was told to stop.

### Dispatch

`DispatchProofs`:

- `DispatchSafety`: `DispatchInv` is invariant: the flags the script reads are the
  ones the operators asked for, scores stay within their bands, and a running pool
  polls in the order of its configuration;
- `Paused`: `PauseHolds`; `Best`: `BestJobFirst`, where the arithmetic of
  `PendingScore` is shown to order jobs by priority and then age while times stay
  below `Band` (`BetterScore`);
- `Heavier`: `HeavierQueuesFirst`, with the hypothesis that the polling order of each
  pool is `Ranked`: every queue once, heavier ones first.

What `BuildDequeueOrder` and `dedupeQueues` compute is a fact about sorting and
folding, which takes induction over sequences. `MCDispatch` evaluates it for up to
three queues with weights up to three (`PolledInOrder`); the theorem covers the
interleavings.

### Only model-checked

- Everything temporal under fairness (`QueueDrains`, `EventuallySettled`, `Answered`,
  `FirstQueueIsServed`, `ShutdownTerminates`), which is outside the prover's reach.
- That polling orders are `Ranked`, as said above.
- `Catalog`. Its listing filters, sorts and cuts sequences, so what it computes
  takes induction over data, too.

## Not modelled

- `extend_lease.lua` and `JobBroker.ExtendLease`: nothing calls them.
- HTTP handlers, middleware, routes, response shapes and the hydrator: they
  translate between requests and the services and keep no state. The binding
  rules of an enqueue request that matter for instants are in `DocumentLife`.
- Configuration, dependency wiring, the Redis client: they run once before
  anything is concurrent. Their values are the constants of the modules.
- Metrics, logging, ids, clock, errors: output or plain helpers. Ids are fresh.
- Example tasks and the dashboard page.
- The in-memory fakes are test code; they serve as the reference in `Catalog`
  and for the claim order in `Dispatch`.
- Within modelled parts: the text of payloads and error messages; a Redis server
  that loses acknowledged writes; clocks of different processes that disagree.
