------------------------------ MODULE Delivery ------------------------------
(***************************************************************************)
(* At-least-once delivery on one queue: producers insert jobs, the worker  *)
(* goroutines of the pool claim, save, execute and report them, and the    *)
(* scheduler's sweeps promote, reclaim and purge.  A worker keeps its own  *)
(* copy of a job from the claim to the report, and between any two of its  *)
(* Redis calls every other process may run.                                *)
(*                                                                         *)
(* Faults: a call may fail, with or without its effect, and a process may  *)
(* die between two calls.  In each case the worker forgets the job.        *)
(*                                                                         *)
(* Time: left[w] is how many ticks worker w still has to report the job it *)
(* claimed: the job's timeout plus the grace margin, which the code allows *)
(* for pauses and slow round trips.  A tick waits for a worker about to    *)
(* use up its last one, so a worker that has not died is never late.       *)
(***************************************************************************)
EXTENDS JobStore

CONSTANTS
  Unroutable,   \* jobs whose task type has no registered handler
  LeaseFor,     \* PoolConfig.LeaseDuration, in ticks
  Grace,        \* leaseGrace
  Timeout,      \* the jobs' execution timeout
  Backoff,      \* delay before a retry
  Delay,        \* delay of a scheduled job
  Retention,    \* how long completed jobs are kept
  MaxFaults     \* faults considered in one behaviour

ASSUME DeliveryAssumption ==
  /\ Jobs # {}
  /\ Unroutable \subseteq Jobs
  /\ NoWorker \notin Workers
  /\ {LeaseFor, Backoff, Delay, Retention, MaxFaults} \subseteq Nat
  /\ {Timeout, Grace} \subseteq Nat \ {0}

VARIABLES
  used,    \* job ids the generator has handed out
  pc,      \* pc[w]: where worker w is in Pool.run and Process
  job,     \* job[w]: the id of the job w works on
  copy,    \* copy[w]: w's own aggregate of that job
  left,    \* left[w]: ticks w has left to report it
  runs,    \* runs[j]: times a handler was started on j
  faults   \* faults so far

workerVars == <<pc, job, copy, left>>
vars == <<store, used, workerVars, runs, faults>>

\* Mutants of LeaseExpiry: the grace margin, or the lease itself, forgotten.
LeaseExpiryNoGrace == LeaseFor
LeaseExpiryGraceOnly == Grace

\* Redis holds the lease at dequeue time + LeaseDuration + leaseGrace.
LeaseExpiry == LeaseFor + Grace

Busy(w) == pc[w] # "idle"

TypeOK ==
  /\ StoreTypeOK
  /\ used \in SUBSET Jobs
  /\ pc   \in [Workers -> {"idle", "leased", "saved", "running", "killing"}]
  /\ job  \in [Workers -> Jobs]
  /\ copy \in [Workers -> Job(Workers) \cup {NoDoc}]
  /\ left \in [Workers -> Nat]
  /\ runs \in [Jobs -> Nat]
  /\ faults \in 0..MaxFaults

Init ==
  /\ StoreInit
  /\ used = {}
  /\ pc   = [w \in Workers |-> "idle"]
  /\ job  = [w \in Workers |-> CHOOSE j \in Jobs : TRUE]
  /\ copy = [w \in Workers |-> NoDoc]
  /\ left = [w \in Workers |-> 0]
  /\ runs = [j \in Jobs |-> 0]
  /\ faults = 0

-----------------------------------------------------------------------------
(* Producers.                                                              *)

\* EnqueuerService.persist of a job with a new id: now, or scheduled.
Enqueue(j, later) ==
  /\ j \notin used
  /\ used' = used \cup {j}
  /\ EnqueueLua(j, NewJob(later).state, IF later THEN Delay ELSE 0, NewJob(later))
  /\ UNCHANGED <<workerVars, runs, faults>>

-----------------------------------------------------------------------------
(* Workers.                                                                *)

Goto(w, label) == pc' = [pc EXCEPT ![w] = label]

\* The worker is through with its job and goes back to dequeue.
Done(w) ==
  /\ Goto(w, "idle")
  /\ job'  = [job  EXCEPT ![w] = CHOOSE j \in Jobs : TRUE]
  /\ copy' = [copy EXCEPT ![w] = NoDoc]
  /\ left' = [left EXCEPT ![w] = 0]

\* JobBroker.Dequeue finds a job: the script leases j in Redis, then the
\* aggregate's own Lease runs on the document as it was before; if that refuses,
\* the job stays leased in Redis and the worker goes back to sleep.
Claim(w, j) ==
  /\ \E orphans \in SUBSET {k \in In("pending") : ~Exists(k)} :
       DequeueLua(j, orphans, w, LeaseExpiry)
  /\ IF CanLease(docs[j])
     THEN /\ Goto(w, "leased")
          /\ job'  = [job  EXCEPT ![w] = j]
          /\ copy' = [copy EXCEPT ![w] = Lease(docs[j], w)]
          /\ left' = [left EXCEPT ![w] = Timeout + Grace]
     ELSE UNCHANGED workerVars

\* JobBroker.Dequeue finds only entries whose document is gone.  It takes an
\* operator (Inspector) or a job that outlives its lease to leave such entries.
FindNothing == DrainOrphansLua /\ UNCHANGED workerVars

Dequeue(w) ==
  /\ pc[w] = "idle"
  /\ FindNothing \/ \E j \in Jobs : Claim(w, j)
  /\ UNCHANGED <<used, runs, faults>>

\* Process saves the lease before anything else.
SaveLease(w) ==
  /\ pc[w] = "leased"
  /\ SaveDoc(job[w], copy[w])
  /\ Goto(w, "saved")
  /\ UNCHANGED <<used, job, copy, left, runs, faults>>

\* HandlerRegistry.Resolve finds a handler for the task type of j.
Resolve(j) == j \notin Unroutable

\* Process finds the handler and runs it.
StartHandler(w) ==
  /\ pc[w] = "saved"
  /\ Resolve(job[w])
  /\ Goto(w, "running")
  /\ runs' = [runs EXCEPT ![job[w]] = @ + 1]
  /\ UNCHANGED <<store, used, job, copy, left, faults>>

\* The handler returned nil within its timeout: JobBroker.Complete.
CompleteJob(w) ==
  /\ pc[w] = "running"
  /\ TransitionLua(job[w], "active", "completed", Retention,
                   IF Retention > 0 THEN Retention ELSE NoTTL, Complete(copy[w]))
  /\ Done(w)
  /\ UNCHANGED <<used, runs, faults>>

\* The handler failed, panicked or timed out, with budget left: JobBroker.Retry.
RetryLater(w) ==
  /\ pc[w] = "running"
  /\ Fail(copy[w]).state = "retrying"
  /\ TransitionLua(job[w], "active", "retrying", Backoff, NoTTL, Fail(copy[w]))
  /\ Done(w)
  /\ UNCHANGED <<used, runs, faults>>

\* JobBroker.Kill, first call: no budget left, or no handler for the task type.
KillClear(w) ==
  /\ \/ /\ pc[w] = "running"
        /\ Fail(copy[w]).state = "dead"
        /\ copy' = [copy EXCEPT ![w] = Fail(@)]
     \/ /\ pc[w] = "saved"
        /\ ~Resolve(job[w])
        /\ copy' = [copy EXCEPT ![w] = Kill(@)]
  /\ ClearMembership(job[w])
  /\ Goto(w, "killing")
  /\ UNCHANGED <<used, job, left, runs, faults>>

\* JobBroker.Kill, second call.
KillWrite(w) ==
  /\ pc[w] = "killing"
  /\ TransitionLua(job[w], "pending", "dead", 0, NoTTL, copy[w])
  /\ Done(w)
  /\ UNCHANGED <<used, runs, faults>>

-----------------------------------------------------------------------------
(* Faults.                                                                 *)

\* A Redis call of Process fails, or the process dies.
Abandon(w) ==
  /\ Busy(w)
  /\ faults < MaxFaults
  /\ faults' = faults + 1
  /\ Done(w)
  /\ UNCHANGED <<store, used, runs>>

\* The dequeue script ran but its reply never arrived.
DequeueReplyLost(w, j) ==
  /\ pc[w] = "idle"
  /\ faults < MaxFaults
  /\ faults' = faults + 1
  /\ \E orphans \in SUBSET {k \in In("pending") : ~Exists(k)} :
       DequeueLua(j, orphans, w, LeaseExpiry)
  /\ UNCHANGED <<used, workerVars, runs>>

-----------------------------------------------------------------------------
(* The scheduler's sweeps and time.                                        *)

Promote(source) ==
  /\ \E batch \in Batch(source) : ToPendingLua(source, batch)
  /\ UNCHANGED <<used, workerVars, runs, faults>>

Reclaim ==
  /\ \E batch \in Batch("active") : ToPendingLua("active", batch)
  /\ UNCHANGED <<used, workerVars, runs, faults>>

Purge ==
  /\ \E batch \in Batch("completed") : PurgeCompletedLua(batch)
  /\ UNCHANGED <<used, workerVars, runs, faults>>

\* Some score or TTL is still in the future.
Ticking ==
  \/ \E s \in JobState, j \in Jobs : zset[s][j] > 0
  \/ \E j \in Jobs : ttl[j] > 0
  \/ \E w \in Workers : Busy(w)

Tick ==
  /\ Ticking
  /\ \A w \in Workers : Busy(w) => left[w] > 1
  /\ StoreTick
  /\ left' = [w \in Workers |-> TickDown(left[w])]
  /\ UNCHANGED <<used, pc, job, copy, runs, faults>>

-----------------------------------------------------------------------------

WorkerStep(w) ==
  \/ Dequeue(w)
  \/ SaveLease(w)
  \/ StartHandler(w)
  \/ CompleteJob(w)
  \/ RetryLater(w)
  \/ KillClear(w)
  \/ KillWrite(w)

Sweep ==
  \/ Promote("scheduled")
  \/ Promote("retrying")
  \/ Reclaim
  \/ Purge

Next ==
  \/ \E j \in Jobs, later \in BOOLEAN : Enqueue(j, later)
  \/ \E w \in Workers : WorkerStep(w)
  \/ \E w \in Workers : Abandon(w)
  \/ \E w \in Workers, j \in Jobs : DequeueReplyLost(w, j)
  \/ Sweep
  \/ Tick

Spec == Init /\ [][Next]_vars

\* The loops of the pool and of the scheduler run until they are stopped, so a
\* step that stays possible is taken.  Producers and faults promise nothing.
FairSpec ==
  /\ Spec
  /\ WF_vars(Tick)
  /\ \A w \in Workers : WF_vars(WorkerStep(w))
  /\ WF_vars(Promote("scheduled"))
  /\ WF_vars(Promote("retrying"))
  /\ WF_vars(Reclaim)
  /\ WF_vars(Purge)

-----------------------------------------------------------------------------
(* Properties.                                                             *)

\* Two workers never work on one job at the same time: between the claim of
\* dequeue.lua and the worker's report no other claim of the job succeeds.
ExclusiveExecution ==
  \A v, w \in Workers : Busy(v) /\ Busy(w) /\ job[v] = job[w] => v = w

\* The set a job sits in is the one its document names, and it sits in no
\* other: the scripts keep hash and sorted sets in step.  Only a completed
\* entry may outlive its document, until the janitor removes it.
SetMatchesState ==
  \A j \in Jobs :
    IF Exists(j) THEN Members(j) \subseteq {docs[j].state}
                 ELSE Members(j) \subseteq {"completed"}

\* The retry budget of j is used up, or no handler will ever take it.
Hopeless(j) == j \in Unroutable \/ docs[j].attemptsMade > MaxRetries

\* No fault makes a job disappear from every set while it may still be tried.
\* A worker that dies between the two calls of JobBroker.Kill does leave a job
\* in no set, and for good, but only one that was about to be dead.
NothingRetryableLost ==
  \A j \in Jobs :
    Exists(j) /\ Members(j) = {} => docs[j].state = "active" /\ Hopeless(j)

\* A job reaches the dead-letter queue only with its retries used up or
\* without a handler (JobProcessorService.fail and kill).
DeadIsEarned ==
  \A j \in Jobs : docs[j].state = "dead" => Hopeless(j)

\* From the claim to the report, the lease of a worker that is alive has not
\* lapsed, so the reclaim sweep cannot take its job away, whether its handler
\* has started or not (JobBroker.Dequeue, for timeouts within LeaseDuration).
HandlerKeepsLease ==
  \A w \in Workers :
    pc[w] \in {"leased", "saved", "running"} => zset["active"][job[w]] > 0

\* While a handler runs, the document says so and names the worker: Save came
\* before the handler, and nothing overwrote it since.
RunnerIsRecorded ==
  \A w \in Workers :
    pc[w] = "running" => /\ docs[job[w]].state = "active"
                         /\ docs[job[w]].workerID = w

\* A handler never starts without its attempt being counted in the document,
\* wherever the worker dies (reclaim.lua: "The lapsed attempt is already
\* counted").
EveryRunCounted ==
  \A j \in Jobs : Exists(j) => runs[j] <= docs[j].attemptsMade

\* No job gets an unlimited budget: beyond its retries it runs at most once per
\* fault.  Nothing better holds, because reclaim.lua hands out a job again
\* whatever its count is.
BoundedRuns ==
  \A j \in Jobs : runs[j] <= MaxRetries + 1 + faults

\* Where a job is in its life, as its document and the id generator tell it.
Life == [j \in Jobs |-> IF Exists(j) THEN docs[j].state
                        ELSE IF j \in used THEN "gone" ELSE "unborn"]
LC == INSTANCE JobLifecycle WITH life <- Life

\* Jobs move along the lifecycle graph, whatever scripts, workers and faults
\* interleave: Delivery implements JobLifecycle.
Lifecycle == LC!Spec

\* Every job that was accepted is eventually completed or dead-lettered (or,
\* when it has no budget left, dropped by a half-finished Kill): a dead worker
\* only delays it until the reclaim sweep.
Settled(j) ==
  \/ ~Exists(j)
  \/ docs[j].state \in {"completed", "dead"}
  \/ Members(j) = {} /\ Hopeless(j)

EventuallySettled == \A j \in Jobs : (j \in used) ~> Settled(j)

-----------------------------------------------------------------------------
(* What the repository says and the code does not do.                      *)

\* A handler that is still within the timeout of its job has its lease, however
\* long that timeout is ("a healthy-but-slow handler is not stolen from
\* underneath itself", Job.Lease).  The lease reclaim.lua compares is granted
\* for LeaseDuration, so this fails for timeouts beyond it.
SlowHandlerKeepsLease ==
  \A w \in Workers :
    pc[w] = "running" /\ left[w] > Grace => zset["active"][job[w]] > 0

=============================================================================
