---------------------------- MODULE DocumentLife ----------------------------
(***************************************************************************)
(* The life of one job as its Redis document records it, with the clock:   *)
(* created, scheduled, claimed, saved, reported, promoted, reclaimed,      *)
(* killed and requeued, every write through the encoding of JobDocument.   *)
(* Between its claim and its report a worker holds the decoded aggregate,  *)
(* and it may die at any point.                                            *)
(*                                                                         *)
(* Delivery and Inspector have the races between workers and operators;    *)
(* here is one job with all its instants, one worker at a time, operators  *)
(* only while no worker holds the job.  A worker reports within the        *)
(* timeout of the job, and no timeout is longer than LeaseDuration (the    *)
(* run slow_handler of Delivery is about longer ones).  In the pending set *)
(* only membership is kept.                                                *)
(***************************************************************************)
EXTENDS JobDocument

CONSTANTS
  Requests,   \* the requests a producer may send
  LeaseFor,   \* LeaseDuration of the worker pool
  Retention,  \* how long a completed job is kept
  Worker,     \* the id of the worker
  Start,      \* the instant the clock starts at
  End,        \* the clock stops here
  MaxTrail    \* attempts considered

\* What the binding of a request lets through.
Request ==
  [maxRetries : Nat \cup {Unset}, baseDelay : Int, maxDelay : Int, strategy : STRING,
   timeout : Int, delay : Nat \cup {Unset}, runAt : Nat \cup {Unset}]

ASSUME LifeAssumption ==
  /\ {Start, End, LeaseFor, Retention, MaxTrail} \subseteq Nat
  /\ PerMilli <= Start /\ PerMilli <= leaseGrace /\ PerMilli <= DefaultBaseDelay
  /\ Worker # NoWorker
  /\ Requests \subseteq Request
  /\ \A req \in Requests : secondsOr(req.timeout, DefaultTimeout) <= LeaseFor

VARIABLES
  now,        \* the clock
  hash,       \* the document, None before the job is created
  score,      \* score[s]: the score of the job in the set of s, Absent if none
  pc,         \* the worker: "idle", "leased" or "running"
  copy,       \* the aggregate it holds, None when it is idle
  notBefore,  \* the first instant the producer or the policy lets it run at
  notAfter,   \* the last instant its next run may be planned for
  orphaned    \* positions in the trail that a reclaim left open

vars == <<now, hash, score, pc, copy, notBefore, notAfter, orphaned>>

Absent == -1
None == [state |-> "none"]

Exists == hash # None
Held == pc # "idle"

Init ==
  /\ now = Start
  /\ hash = None
  /\ score = [s \in JobState |-> Absent]
  /\ pc = "idle" /\ copy = None
  /\ notBefore = Start /\ notAfter = Start
  /\ orphaned = {}

-----------------------------------------------------------------------------

\* transition.lua: out of one set, into another, the document whole.
Transition(from, to, ms, job) ==
  /\ hash' = toJobFields(job)
  /\ score' = [score EXCEPT ![from] = Absent, ![to] = ms]

\* JobBroker.Kill: out of every set, then into the dead-letter set.
MoveToDead(job) ==
  /\ hash' = toJobFields(job)
  /\ score' = [s \in JobState |-> IF s = "dead" THEN toMillis(job.diedAt) ELSE Absent]

\* The worker is through with the job.
Done == pc' = "idle" /\ copy' = None

\* EnqueuerService.persist of the job a request builds.
Create(req) ==
  /\ ~Exists
  /\ \E job \in buildJob(req, now) :
       /\ hash' = toJobFields(job)
       /\ score' = [score EXCEPT ![job.state] = toMillis(job.processAt)]
       /\ notBefore' = job.processAt /\ notAfter' = job.processAt
  /\ UNCHANGED <<now, pc, copy, orphaned>>

\* JobBroker.Dequeue: dequeue.lua leases the job in Redis, then the aggregate's
\* own Lease runs on the document as it was before; if the document cannot be
\* read or leased, the worker gets an error and the lease stays.
Dequeue ==
  /\ ~Held
  /\ score["pending"] # Absent
  /\ Len(hash.attempts) < MaxTrail
  /\ LET expiry == toMillis(now + LeaseFor + leaseGrace)
     IN  /\ hash' = LeaseFields(hash, Worker, expiry)
         /\ score' = [score EXCEPT !["pending"] = Absent, !["active"] = expiry]
  /\ LET leasable == {job \in toAggregate(hash) : guard(job, "active")}
     IN  IF leasable = {}
         THEN UNCHANGED <<pc, copy>>
         ELSE /\ pc' = "leased"
              /\ \E job \in leasable : copy' = Lease(job, Worker, now, leaseGrace)
  /\ UNCHANGED <<now, notBefore, notAfter, orphaned>>

\* Process saves the lease before it looks for the handler.
Save ==
  /\ pc = "leased"
  /\ hash' = toJobFields(copy)
  /\ pc' = "running"
  /\ UNCHANGED <<now, score, copy, notBefore, notAfter, orphaned>>

ReportComplete ==
  /\ pc = "running"
  /\ Transition("active", "completed", toMillis(now + Retention), Complete(copy, now))
  /\ Done
  /\ UNCHANGED <<now, notBefore, notAfter, orphaned>>

\* JobProcessorService.fail: the aggregate decides between Retry and Kill.
ReportFailure ==
  /\ pc = "running"
  /\ \E job \in Fail(copy, "failed", now) :
       IF job.state = "retrying"
       THEN /\ Transition("active", "retrying", toMillis(job.processAt), job)
            /\ notBefore' = now + job.policy.baseDelay
            /\ notAfter' = now + job.policy.maxDelay
       ELSE /\ MoveToDead(job)
            /\ UNCHANGED <<notBefore, notAfter>>
  /\ Done
  /\ UNCHANGED <<now, orphaned>>

\* JobProcessorService.kill: no handler for the task type.
ReportUnroutable ==
  /\ pc = "running"
  /\ MoveToDead(Kill(copy, "unroutable", now))
  /\ Done
  /\ UNCHANGED <<now, notBefore, notAfter, orphaned>>

\* The worker dies.
Abandon ==
  /\ Held
  /\ Done
  /\ UNCHANGED <<now, hash, score, notBefore, notAfter, orphaned>>

\* Mutant of Promote: every job of the set counts as due.
PromoteAll(source) ==
  /\ score[source] # Absent
  /\ hash' = PromoteFields(hash, toMillis(now))
  /\ score' = [score EXCEPT ![source] = Absent, !["pending"] = toMillis(now)]
  /\ UNCHANGED <<now, pc, copy, notBefore, notAfter, orphaned>>

\* promote.lua on the set of scheduled or of retrying jobs.
Promote(source) ==
  /\ score[source] # Absent /\ score[source] <= toMillis(now)
  /\ hash' = PromoteFields(hash, toMillis(now))
  /\ score' = [score EXCEPT ![source] = Absent, !["pending"] = toMillis(now)]
  /\ UNCHANGED <<now, pc, copy, notBefore, notAfter, orphaned>>

\* The last attempt of a trail, as a set: none when the trail is empty.
Current(attempts) == {i \in DOMAIN attempts : i = Len(attempts)}

\* The attempts of a document that no report has closed.
Open == {i \in DOMAIN hash.attempts : hash.attempts[i].finished_at_ms = 0}

\* reclaim.lua on a lapsed lease.
Reclaim ==
  /\ score["active"] # Absent /\ score["active"] <= toMillis(now)
  /\ hash' = ReclaimFields(hash, toMillis(now))
  /\ score' = [score EXCEPT !["active"] = Absent, !["pending"] = toMillis(now)]
  /\ orphaned' = orphaned \cup (Open \cap Current(hash.attempts))
  /\ UNCHANGED <<now, pc, copy, notBefore, notAfter>>

\* InspectorService.KillJob, its read and its writes in one step.
KillJob ==
  /\ Exists /\ ~Held
  /\ \E job \in toAggregate(hash) :
       guard(job, "dead") /\ MoveToDead(Kill(job, "killed", now))
  /\ UNCHANGED <<now, pc, copy, notBefore, notAfter, orphaned>>

\* InspectorService.RetryJob.
RetryJob ==
  /\ Exists /\ ~Held
  /\ \E job \in toAggregate(hash) :
       /\ job.state = "dead"
       /\ Transition("dead", "pending", toMillis(now), Requeue(job, now))
  /\ UNCHANGED <<now, pc, copy, notBefore, notAfter, orphaned>>

\* The handler is cut off at the job's timeout, and the report follows.
Deadline == copy.attempts[Len(copy.attempts)].startedAt + copy.timeout

Tick ==
  /\ now < End
  /\ Held => now < Deadline
  /\ now' = now + 1
  /\ UNCHANGED <<hash, score, pc, copy, notBefore, notAfter, orphaned>>

-----------------------------------------------------------------------------

Next ==
  \/ \E req \in Requests : Create(req)
  \/ Dequeue
  \/ Save
  \/ ReportComplete
  \/ ReportFailure
  \/ ReportUnroutable
  \/ Abandon
  \/ Promote("scheduled")
  \/ Promote("retrying")
  \/ Reclaim
  \/ KillJob
  \/ RetryJob
  \/ Tick

Spec == Init /\ [][Next]_vars

-----------------------------------------------------------------------------
(* Properties.                                                             *)

\* Every document can be read back, reading and writing it again changes
\* nothing, and a pending one can be leased: no claim ends in an error after
\* dequeue.lua has already moved the job (toJobFields, toAggregate, Dequeue).
ReadBack ==
  Exists =>
    /\ \E job \in toAggregate(hash) :
         /\ toJobFields(job) = hash
         /\ score["pending"] # Absent => guard(job, "active")

\* The stamps of a document are those of its state, through every mix of whole
\* writes from Go and field writes from Lua: completed_at only when completed,
\* died_at only when dead, a lease only when active, and the scores the sweeps
\* and the dead-letter listing go by are the stamps of the document.
StampsMatchState ==
  Exists =>
    /\ (hash.completed_at_ms # 0) <=> (hash.state = "completed")
    /\ (hash.died_at_ms # 0) <=> (hash.state = "dead")
    /\ (hash.lease_expiry_ms # 0) <=> (hash.state = "active")
    /\ (hash.worker_id # NoWorker) => hash.state \notin {"scheduled", "pending"}
    /\ \A s \in JobState : (score[s] # Absent) <=> (hash.state = s)
    /\ hash.state \in {"scheduled", "retrying"} => score[hash.state] = hash.process_at_ms
    /\ hash.state = "dead" => score["dead"] = hash.died_at_ms

\* A retry is planned no sooner than the floor of its policy and no later than
\* its ceiling, and a scheduled job for its instant, up to the millisecond the
\* document loses (Fail, NextDelay, clampDelay, toMillis).
DueWithinPolicy ==
  Exists /\ hash.state \in {"scheduled", "retrying"} =>
    /\ fromMillis(hash.process_at_ms) > notBefore - PerMilli
    /\ fromMillis(hash.process_at_ms) <= notAfter

\* No job becomes pending a full millisecond or more before the producer or
\* its retry policy lets it run (promote.lua, toMillis).
NeverEarly ==
  [][hash.state \in {"scheduled", "retrying"} /\ hash'.state = "pending"
       => now > notBefore - PerMilli]_vars

\* The scripts do what the methods of the aggregate they replace would do, and
\* when those would allow it: promote.lua what Promote does to a job that is
\* due, except that it also forgets the worker, and reclaim.lua what
\* ReclaimExpiredLease does to one whose lease has lapsed, to the millisecond.
\* Of the trail of a reclaimed job it says nothing: ReclaimClosesAttempt does.
ScriptsMatchAggregate ==
  [][/\ hash.state \in {"scheduled", "retrying"} /\ hash'.state = "pending" =>
          \E job \in toAggregate(hash) :
            /\ IsDue(job, fromMillis(toMillis(now)))
            /\ hash' = [toJobFields(PromoteJob(job, now)) EXCEPT !.worker_id = NoWorker]
     /\ hash.state = "active" /\ hash'.state = "pending" =>
          \E job \in toAggregate(hash) :
            /\ IsLeaseExpired(job, now + PerMilli)
            /\ hash' = [toJobFields(ReclaimExpiredLease(job, now)) EXCEPT
                          !.attempts = hash'.attempts]]_vars

\* An attempt that was never closed is the one under way or one whose worker
\* died: every report closes its own attempt, and nothing but a reclaim leaves
\* one open (closeCurrentAttempt, reclaim.lua).
OpenAttemptsAreOrphans ==
  Exists => \A i \in Open : i \in orphaned \/ (i = Len(hash.attempts) /\ hash.state = "active")

-----------------------------------------------------------------------------
(* What the repository says and the code does not do.                      *)

\* Only the attempt under way is open: the one of a worker that died is closed
\* when the job is reclaimed, as ReclaimExpiredLease, the specification of
\* reclaim.lua, says ("The failed attempt is closed with an explicit reason so
\* the trail shows the job was orphaned").  The script does not touch the trail.
ReclaimClosesAttempt ==
  Exists => Open \subseteq IF hash.state = "active" THEN Current(hash.attempts) ELSE {}

=============================================================================
