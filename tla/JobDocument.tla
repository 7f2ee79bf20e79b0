----------------------------- MODULE JobDocument -----------------------------
(***************************************************************************)
(* A job with its instants: the aggregate's fields and methods as job.go   *)
(* has them, and the Redis hash that stores it (job_model.go).  The hash   *)
(* counts in whole milliseconds, the aggregate in ticks of the clock, of   *)
(* which a millisecond has PerMilli; so encoding loses what is finer.      *)
(*                                                                         *)
(* JobAggregate is the same aggregate without instants, for the modules    *)
(* that interleave workers.  Left out here are the fields that are set at  *)
(* creation and only copied afterwards: id, queue, task type, payload,     *)
(* priority and idempotency key.                                           *)
(***************************************************************************)
EXTENDS RetryPolicy, Sequences

CONSTANTS
  PerMilli,        \* ticks in a millisecond
  PerSecond,       \* ticks in a second
  DefaultTimeout,  \* timeout of a request that names none
  MaxTimeout,      \* a longer timeout is refused
  leaseGrace       \* what a lease grants beyond the timeout

ASSUME DocumentAssumption ==
  /\ PerMilli \in Nat \ {0}
  /\ PerSecond \in Nat \ {0} /\ PerSecond % PerMilli = 0
  /\ {DefaultTimeout, MaxTimeout, leaseGrace} \subseteq Nat
  /\ 0 < DefaultTimeout /\ DefaultTimeout <= MaxTimeout

Unset == -1   \* the zero time, a nil time, an optional field left out
NoWorker == ""

\* The lifecycle graph is the one of JobAggregate.
Graph == INSTANCE JobAggregate WITH MaxRetries <- DefaultMaxRetries

JobState == Graph!JobState
guard(job, next) == Graph!CanTransitionTo(job.state, next)

-----------------------------------------------------------------------------
(* Creation: EnqueuerService.buildJob and NewJob.                          *)

secondsOr(seconds, fallback) == IF seconds <= 0 THEN fallback ELSE seconds * PerSecond

derefOr(value, fallback) == IF value = Unset THEN fallback ELSE value

\* delay_seconds and run_at exclude each other; with neither the job runs now.
resolveProcessAt(req, now) ==
  CASE req.delay # Unset /\ req.runAt # Unset -> {}
    [] req.delay # Unset                      -> {now + req.delay * PerSecond}
    [] req.delay = Unset /\ req.runAt # Unset -> {req.runAt}
    [] OTHER                                  -> {now}

\* A job that should run later is scheduled.
NewJob(policy, timeout, processAt, now) ==
  {[state        |-> IF processAt > now THEN "scheduled" ELSE "pending",
    policy       |-> policy,
    timeout      |-> t,
    attemptsMade |-> 0,
    attempts     |-> <<>>,
    lastError    |-> "",
    createdAt    |-> now,
    processAt    |-> IF processAt > now THEN processAt ELSE now,
    completedAt  |-> Unset,
    diedAt       |-> Unset,
    leaseExpiry  |-> Unset,
    workerID     |-> NoWorker] :
     t \in {IF timeout = 0 THEN DefaultTimeout ELSE timeout} \cap 0..MaxTimeout}

\* Everything buildJob may return for a request: one job, or nothing.
buildJob(req, now) ==
  UNION {NewJob(policy, secondsOr(req.timeout, DefaultTimeout), processAt, now) :
    policy \in NewRetryPolicy(derefOr(req.maxRetries, DefaultMaxRetries),
                              secondsOr(req.baseDelay, DefaultBaseDelay),
                              secondsOr(req.maxDelay, DefaultMaxDelay),
                              req.strategy),
    processAt \in resolveProcessAt(req, now)}

-----------------------------------------------------------------------------
(* Transitions.                                                            *)

\* Mutant of closeCurrentAttempt: the first attempt is taken for the current.
closeFirstAttempt(attempts, finishedAt, message) ==
  [i \in DOMAIN attempts |->
     IF i = 1 /\ attempts[i].finishedAt = Unset
     THEN [attempts[i] EXCEPT !.finishedAt = finishedAt, !.error = message]
     ELSE attempts[i]]

closeCurrentAttempt(attempts, finishedAt, message) ==
  [i \in DOMAIN attempts |->
     IF i = Len(attempts) /\ attempts[i].finishedAt = Unset
     THEN [attempts[i] EXCEPT !.finishedAt = finishedAt, !.error = message]
     ELSE attempts[i]]

Lease(job, workerID, now, grace) ==
  [job EXCEPT !.state = "active",
              !.workerID = workerID,
              !.leaseExpiry = now + job.timeout + grace,
              !.attemptsMade = @ + 1,
              !.attempts = Append(@, [number     |-> job.attemptsMade + 1,
                                      startedAt  |-> now,
                                      finishedAt |-> Unset,
                                      error      |-> "",
                                      workerID   |-> workerID])]

Complete(job, now) ==
  [job EXCEPT !.state = "completed",
              !.completedAt = now,
              !.leaseExpiry = Unset,
              !.lastError = "",
              !.attempts = closeCurrentAttempt(@, now, "")]

\* Fail returns a retrying job for every delay the policy may choose, or, with
\* the budget used up, a dead one.
Fail(job, cause, now) ==
  LET failed == [job EXCEPT !.lastError = cause,
                            !.attempts = closeCurrentAttempt(@, now, cause),
                            !.leaseExpiry = Unset]
  IN  IF AllowsRetry(job.policy, job.attemptsMade)
      THEN {[failed EXCEPT !.state = "retrying", !.processAt = now + delay] :
              delay \in NextDelay(job.policy, job.attemptsMade)}
      ELSE {[failed EXCEPT !.state = "dead", !.diedAt = now]}

Kill(job, reason, now) ==
  LET message == IF reason = "" THEN job.lastError ELSE reason
  IN  [job EXCEPT !.state = "dead",
                  !.diedAt = now,
                  !.leaseExpiry = Unset,
                  !.lastError = message,
                  !.attempts = closeCurrentAttempt(@, now, message)]

\* Mutant of Requeue: the job keeps the time it died at.
RequeueStillDead(job, now) ==
  [job EXCEPT !.state = "pending", !.processAt = now, !.attemptsMade = 0,
              !.leaseExpiry = Unset, !.workerID = NoWorker]

\* A fresh budget; the trail and the last error stay.
Requeue(job, now) ==
  [job EXCEPT !.state = "pending", !.processAt = now, !.attemptsMade = 0,
              !.diedAt = Unset, !.leaseExpiry = Unset, !.workerID = NoWorker]

\* Job.Promote and Job.ReclaimExpiredLease: what the store of the tests calls
\* where Redis runs a script.
PromoteJob(job, now) ==
  [job EXCEPT !.state = "pending", !.processAt = now, !.leaseExpiry = Unset]

ReclaimExpiredLease(job, now) ==
  [job EXCEPT !.state = "pending", !.processAt = now, !.leaseExpiry = Unset,
              !.workerID = NoWorker, !.lastError = "orphaned",
              !.attempts = closeCurrentAttempt(@, now, "orphaned")]

IsDue(job, now) == job.processAt <= now

IsLeaseExpired(job, now) ==
  job.state = "active" /\ job.leaseExpiry # Unset /\ now > job.leaseExpiry

-----------------------------------------------------------------------------
(* The stored form.                                                        *)

toMillis(t) == IF t = Unset THEN 0 ELSE t \div PerMilli

\* Mutant of fromMillis: the stamp is taken for ticks.
fromMillisTicks(ms) == IF ms = 0 THEN Unset ELSE ms

fromMillis(ms) == IF ms = 0 THEN Unset ELSE ms * PerMilli

toJobFields(job) ==
  [state           |-> job.state,
   max_retries     |-> job.policy.maxRetries,
   base_delay_ms   |-> job.policy.baseDelay \div PerMilli,
   max_delay_ms    |-> job.policy.maxDelay \div PerMilli,
   backoff         |-> job.policy.strategy,
   timeout_ms      |-> job.timeout \div PerMilli,
   attempts_made   |-> job.attemptsMade,
   attempts        |-> [i \in DOMAIN job.attempts |->
                          [number         |-> job.attempts[i].number,
                           started_at_ms  |-> toMillis(job.attempts[i].startedAt),
                           finished_at_ms |-> toMillis(job.attempts[i].finishedAt),
                           error          |-> job.attempts[i].error,
                           worker_id      |-> job.attempts[i].workerID]],
   last_error      |-> job.lastError,
   created_at_ms   |-> toMillis(job.createdAt),
   process_at_ms   |-> toMillis(job.processAt),
   completed_at_ms |-> toMillis(job.completedAt),
   died_at_ms      |-> toMillis(job.diedAt),
   lease_expiry_ms |-> toMillis(job.leaseExpiry),
   worker_id       |-> job.workerID]

\* toAggregate and Reconstitute; the policy is validated again.
toAggregate(hash) ==
  {[state        |-> hash.state,
    policy       |-> policy,
    timeout      |-> hash.timeout_ms * PerMilli,
    attemptsMade |-> hash.attempts_made,
    attempts     |-> [i \in DOMAIN hash.attempts |->
                        [number     |-> hash.attempts[i].number,
                         startedAt  |-> fromMillis(hash.attempts[i].started_at_ms),
                         finishedAt |-> fromMillis(hash.attempts[i].finished_at_ms),
                         error      |-> hash.attempts[i].error,
                         workerID   |-> hash.attempts[i].worker_id]],
    lastError    |-> hash.last_error,
    createdAt    |-> fromMillis(hash.created_at_ms),
    processAt    |-> fromMillis(hash.process_at_ms),
    completedAt  |-> fromMillis(hash.completed_at_ms),
    diedAt       |-> fromMillis(hash.died_at_ms),
    leaseExpiry  |-> fromMillis(hash.lease_expiry_ms),
    workerID     |-> hash.worker_id] :
     policy \in NewRetryPolicy(hash.max_retries, hash.base_delay_ms * PerMilli,
                               hash.max_delay_ms * PerMilli, hash.backoff)}

\* What dequeue.lua writes into the hash it leases (and leased_at_ms, which
\* nothing reads).
LeaseFields(hash, workerID, expiry) ==
  [hash EXCEPT !.state = "active", !.worker_id = workerID, !.lease_expiry_ms = expiry]

\* Mutant of PromoteFields: the time the job was due at stays.
PromoteFieldsKeepTime(hash, ms) ==
  [hash EXCEPT !.state = "pending", !.lease_expiry_ms = 0, !.worker_id = NoWorker]

\* What promote.lua writes into the hash of a due job.
PromoteFields(hash, ms) ==
  [hash EXCEPT !.state = "pending", !.process_at_ms = ms,
               !.lease_expiry_ms = 0, !.worker_id = NoWorker]

\* What reclaim.lua writes into the hash of a job whose lease lapsed; the trail
\* is left as it is.
ReclaimFields(hash, ms) ==
  [PromoteFields(hash, ms) EXCEPT !.last_error = "orphaned"]

=============================================================================
