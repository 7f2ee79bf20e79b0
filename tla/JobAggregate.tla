---------------------------- MODULE JobAggregate ----------------------------
(***************************************************************************)
(* The Job aggregate (pkg/domain/job_aggregate): its lifecycle graph, its  *)
(* retry budget and its transition methods, as operators on a job record.  *)
(* A method that returns an error in the code is an operator together with *)
(* the guard its caller has to find true.                                  *)
(*                                                                         *)
(* Of a job's fields the model keeps those some decision reads or some     *)
(* property is about: state, attemptsMade, the attempt trail (the number   *)
(* of each attempt and whether it was closed) and workerID.  Instants are  *)
(* kept where they are compared, in the scores of the Redis sets.          *)
(***************************************************************************)
EXTENDS Integers, Sequences

CONSTANTS
  MaxRetries,  \* retries allowed after the first attempt (RetryPolicy)
  NoWorker     \* the empty workerID

ASSUME MaxRetriesAssumption == MaxRetries \in Nat

JobState == {"scheduled", "pending", "active", "retrying", "completed", "dead"}

allowedTransitions ==
  [scheduled |-> {"pending", "dead"},
   pending   |-> {"active", "dead"},
   active    |-> {"completed", "retrying", "dead", "pending"},
   retrying  |-> {"pending", "dead"},
   dead      |-> {"pending"},
   completed |-> {}]

CanTransitionTo(state, next) == next \in allowedTransitions[state]

-----------------------------------------------------------------------------

\* The trail keeps one entry per execution; finished is a set FinishedAt.
Attempt == [number : Nat, finished : BOOLEAN]

Job(Workers) ==
  [state        : JobState,
   attemptsMade : Nat,
   attempts     : Seq(Attempt),
   workerID     : Workers \cup {NoWorker}]

\* Pending when it should run now, scheduled when it should run later.
NewJob(later) ==
  [state        |-> IF later THEN "scheduled" ELSE "pending",
   attemptsMade |-> 0,
   attempts     |-> <<>>,
   workerID     |-> NoWorker]

\* Mutants of AllowsRetry: the first attempt counted as a retry, or one too many.
AllowsRetryTooFew(attemptsMade) == attemptsMade < MaxRetries
AllowsRetryTooMany(attemptsMade) == attemptsMade <= MaxRetries + 1

AllowsRetry(attemptsMade) == attemptsMade <= MaxRetries

\* Stamps the last attempt; nothing to do when there is none or it is closed.
closeCurrentAttempt(attempts) ==
  [i \in DOMAIN attempts |->
     IF i = Len(attempts) THEN [attempts[i] EXCEPT !.finished = TRUE]
                          ELSE attempts[i]]

-----------------------------------------------------------------------------

CanLease(job) == CanTransitionTo(job.state, "active")

\* Mutants of Lease: the attempt is not counted, or the worker not recorded.
LeaseUncounted(job, workerID) ==
  [job EXCEPT !.state = "active", !.workerID = workerID]
LeaseUnsigned(job, workerID) ==
  [job EXCEPT !.state = "active", !.attemptsMade = @ + 1]

Lease(job, workerID) ==
  [state        |-> "active",
   attemptsMade |-> job.attemptsMade + 1,
   attempts     |-> Append(job.attempts, [number   |-> job.attemptsMade + 1,
                                          finished |-> FALSE]),
   workerID     |-> workerID]

Complete(job) ==
  [job EXCEPT !.state = "completed", !.attempts = closeCurrentAttempt(@)]

\* Fail decides between a retry and the dead-letter queue.
Fail(job) ==
  [job EXCEPT !.state = IF AllowsRetry(job.attemptsMade) THEN "retrying" ELSE "dead",
              !.attempts = closeCurrentAttempt(@)]

CanKill(job) == CanTransitionTo(job.state, "dead")

Kill(job) ==
  [job EXCEPT !.state = "dead", !.attempts = closeCurrentAttempt(@)]

\* Mutant of CanRequeue: any job may be requeued.
CanRequeueAny(job) == job.state \in JobState

CanRequeue(job) == job.state = "dead"

\* A fresh retry budget; the trail of earlier attempts is kept.
Requeue(job) ==
  [job EXCEPT !.state = "pending", !.attemptsMade = 0, !.workerID = NoWorker]

=============================================================================
