--------------------------- MODULE DeliveryProofs ---------------------------
(***************************************************************************)
(* How Delivery moves, for any number of jobs, workers, retries and        *)
(* faults: an invariant, what each script does to the jobs in a state that *)
(* satisfies it, and the ten shapes that makes of the steps; and that      *)
(* every variable keeps its type.                                          *)
(***************************************************************************)
EXTENDS Delivery, TLAPS

-----------------------------------------------------------------------------
(* The aggregate's methods return jobs.                                    *)

\* Closing the last attempt keeps the trail a trail (closeCurrentAttempt).
LEMMA CloseType ==
  ASSUME NEW attempts \in Seq(Attempt)
  PROVE  closeCurrentAttempt(attempts) \in Seq(Attempt)
<1>1. DOMAIN attempts = 1..Len(attempts) /\ Len(attempts) \in Nat
  OBVIOUS
<1>2. \A i \in DOMAIN attempts : attempts[i] \in Attempt
  OBVIOUS
<1>3. \A i \in DOMAIN attempts : [attempts[i] EXCEPT !.finished = TRUE] \in Attempt
  BY <1>2, Zenon DEF Attempt
<1>4. closeCurrentAttempt(attempts) \in [1..Len(attempts) -> Attempt]
  BY <1>1, <1>2, <1>3, Zenon DEF closeCurrentAttempt
<1> QED
  BY <1>1, <1>4

\* The jobs in a state of S that count n executions.
JobsIn(S, n) == {d \in Job(Workers) : d.state \in S /\ d.attemptsMade = n}

\* A new job is a job (NewJob).
LEMMA NewJobType ==
  ASSUME NEW later \in BOOLEAN
  PROVE  NewJob(later) \in JobsIn({"pending", "scheduled"}, 0)
  BY DEF NewJob, Job, JobState, JobsIn

\* What Job.Lease makes of a job.
LEMMA LeaseType ==
  ASSUME NEW d \in Job(Workers), NEW w \in Workers
  PROVE  Lease(d, w) \in JobsIn({"active"}, d.attemptsMade + 1) /\ Lease(d, w).workerID = w
<1>1. d.attemptsMade \in Nat /\ d.attempts \in Seq(Attempt)
  BY Zenon DEF Job
<1>2. [number |-> d.attemptsMade + 1, finished |-> FALSE] \in Attempt
  BY <1>1 DEF Attempt
<1>3. Append(d.attempts, [number |-> d.attemptsMade + 1, finished |-> FALSE]) \in Seq(Attempt)
  BY <1>1, <1>2
<1> QED
  BY <1>1, <1>3 DEF Lease, Job, JobState, JobsIn

\* What Job.Complete, Job.Fail and Job.Kill make of a job.
LEMMA ReportType ==
  ASSUME NEW d \in Job(Workers)
  PROVE  /\ Complete(d) \in JobsIn({"completed"}, d.attemptsMade)
         /\ Fail(d) \in JobsIn({IF AllowsRetry(d.attemptsMade) THEN "retrying" ELSE "dead"},
                               d.attemptsMade)
         /\ Kill(d) \in JobsIn({"dead"}, d.attemptsMade)
<1>1. d.attempts \in Seq(Attempt)
  BY Zenon DEF Job
<1>2. closeCurrentAttempt(d.attempts) \in Seq(Attempt)
  BY <1>1, CloseType, Zenon
<1> QED
  BY <1>2, Zenon DEF Complete, Fail, Kill, Job, JobState, JobsIn

\* A document that is there is a job.
LEMMA DocIsJob ==
  ASSUME NEW d \in Job(Workers) \cup {NoDoc}
  PROVE  d.state # "none" <=> d \in Job(Workers)
  BY DEF NoDoc, Job, JobState

-----------------------------------------------------------------------------

\* Jobs do not outlast the lease: the grace margin covers the rest.
TimeoutFitsLease == Timeout <= LeaseFor

\* Worker w is between its claim and its report.
Held(w) == pc[w] \in {"leased", "saved", "running"}

-----------------------------------------------------------------------------
(* The inductive invariant.                                                *)

\* What the store says about job j: its set is the one its document names,
\* only a completed document expires, and an id not handed out is nowhere.
JobInv(j) ==
  /\ \A s \in JobState :
       zset[s][j] # Absent => s = IF Exists(j) THEN docs[j].state ELSE "completed"
  /\ ttl[j] # NoTTL => docs[j].state = "completed"
  /\ j \notin used => ~Exists(j) /\ \A s \in JobState : zset[s][j] = Absent

\* What a worker may rely on while it holds a job.
WorkerInv(w) ==
  /\ Busy(w) => docs[job[w]].state = "active"
  /\ Held(w) => /\ copy[w] \in Job(Workers)
                /\ copy[w].state = "active"
                /\ copy[w].workerID = w
                /\ left[w] >= 1
                /\ zset["active"][job[w]] >= left[w]
  /\ pc[w] \in {"saved", "running"} => docs[job[w]] = copy[w]
  /\ pc[w] = "killing" => /\ copy[w] \in Job(Workers)
                          /\ copy[w].state = "dead"
                          /\ \A s \in JobState : zset[s][job[w]] = Absent

SafeInv ==
  /\ ExclusiveExecution
  /\ \A j \in Jobs : JobInv(j)
  /\ \A w \in Workers : WorkerInv(w)

-----------------------------------------------------------------------------
(* What a script does, job by job, in a state that satisfies JobInv.       *)

\* The step leaves job k alone in Redis.
Same(k) ==
  /\ docs'[k] = docs[k]
  /\ ttl'[k] = ttl[k]
  /\ \A s \in JobState : zset'[s][k] = zset[s][k]

\* After the step job k is in the set of its new state, and in no other.
Placed(k) ==
  /\ k \in used' /\ docs'[k] \in Job(Workers)
  /\ \A s \in JobState : IF s = docs'[k].state THEN zset'[s][k] \in Nat
                                               ELSE zset'[s][k] = Absent

\* Job j is in set s or in none.
AtMostIn(j, s) == \A q \in JobState : zset[q][j] # Absent => q = s

\* The step writes document d over job j with a TTL of e, and nothing else.
Writes(j, d, e) ==
  docs'[j] = d /\ ttl'[j] = e /\ Placed(j) /\ \A k \in Jobs \ {j} : Same(k)

\* dequeue.lua claims job j until n.
ClaimedBy(j, n) ==
  /\ docs[j] \in Job(Workers) /\ docs[j].state = "pending"
  /\ docs'[j].state = "active" /\ docs'[j].attemptsMade = docs[j].attemptsMade
  /\ ttl'[j] = NoTTL /\ zset'["active"][j] = n /\ Placed(j)
  /\ \A k \in Jobs \ {j} : Same(k)

\* promote.lua or reclaim.lua takes the jobs in B from s to pending.
Pended(s, B) ==
  /\ B \in SUBSET Jobs
  /\ \A k \in B : /\ zset[s][k] = 0 /\ docs[k].state = s
                  /\ docs'[k].state = "pending"
                  /\ docs'[k].attemptsMade = docs[k].attemptsMade
                  /\ ttl'[k] = NoTTL /\ Placed(k)
  /\ \A k \in Jobs \ B : Same(k)

\* purge_completed.lua drops the jobs in B, completed all of them.
Purged(B) ==
  /\ B \in SUBSET Jobs
  /\ \A k \in B : /\ docs[k].state \in {"completed", "none"}
                  /\ docs'[k] = NoDoc /\ ttl'[k] = NoTTL
                  /\ \A s \in JobState : zset'[s][k] = Absent
  /\ \A k \in Jobs \ B : Same(k)

\* Time takes a tick from the scores of job k, and may expire it if completed.
Aged(k) ==
  /\ \A s \in JobState : /\ zset'[s][k] = Absent <=> zset[s][k] = Absent
                         /\ zset[s][k] > 1 => zset'[s][k] = zset[s][k] - 1
  /\ \/ docs'[k] = docs[k] /\ (ttl'[k] # NoTTL => ttl[k] # NoTTL)
     \/ docs[k].state = "completed" /\ docs'[k] = NoDoc /\ ttl'[k] = NoTTL

\* dequeue.lua never finds a pending set of orphans only.
LEMMA NoOrphans ==
  ASSUME \A k \in Jobs : JobInv(k)
  PROVE  ~DrainOrphansLua
  BY Zenon DEF DrainOrphansLua, In, JobInv, JobState

\* transition.lua on a job that is at most in the set it comes from.
LEMMA TransitionEffect ==
  ASSUME StoreTypeOK, NEW j \in Jobs, j \in used', Exists(j), NEW s \in JobState,
         AtMostIn(j, s),
         NEW n \in Nat, NEW e, NEW d \in Job(Workers), TransitionLua(j, s, d.state, n, e, d)
  PROVE  Writes(j, d, e)
<1>1. PICK r \in JobState : r = d.state
  BY Zenon DEF Job
<1>2. \A k \in Jobs, q \in JobState :
        zset'[q][k] = IF q = r /\ k = j THEN n
                      ELSE IF q = s /\ k = j THEN Absent ELSE zset[q][k]
  BY <1>1 DEF TransitionLua, StoreTypeOK
<1> QED
  BY <1>1, <1>2 DEF TransitionLua, StoreTypeOK, AtMostIn, Writes, Placed, Same

-----------------------------------------------------------------------------
(* What each action does in a state that satisfies SafeInv.                *)

\* Worker v does not move.
SameWorker(v) == pc'[v] = pc[v] /\ job'[v] = job[v] /\ copy'[v] = copy[v] /\ left'[v] = left[v]

\* The step touches the jobs in B and the workers in W only, who hold no others.
Touches(B, W) ==
  /\ \A k \in Jobs \ B : Same(k) /\ runs'[k] = runs[k] /\ (k \in used' <=> k \in used)
  /\ \A v \in Workers \ W : SameWorker(v) /\ (Busy(v) => job[v] \notin B)
  /\ \A v \in W : Busy(v) => job[v] \in B

\* Enqueue: the job is new.
Adds(j) ==
  /\ j \notin used /\ Placed(j) /\ ttl'[j] = NoTTL
  /\ docs'[j].state \in {"pending", "scheduled"} /\ docs'[j].attemptsMade = 0
  /\ Touches({j}, {}) /\ UNCHANGED <<runs, faults>>

\* Dequeue, whether the worker hears of its claim or not.
Claims(w, j) ==
  /\ docs[j].state = "pending" /\ Placed(j) /\ ttl'[j] = NoTTL
  /\ docs'[j].state = "active" /\ docs'[j].attemptsMade = docs[j].attemptsMade
  /\ zset'["active"][j] = LeaseExpiry
  /\ \/ pc'[w] = "idle"
     \/ /\ pc'[w] = "leased" /\ job'[w] = j /\ left'[w] = Timeout + Grace
        /\ copy'[w] \in Job(Workers) /\ copy'[w].state = "active" /\ copy'[w].workerID = w
        /\ copy'[w].attemptsMade = docs[j].attemptsMade + 1
  /\ Touches({j}, {w}) /\ UNCHANGED <<used, runs>> /\ faults' \in {faults, faults + 1}

\* SaveLease.
Saves(w, j) ==
  /\ pc[w] = "leased" /\ job[w] = j
  /\ docs'[j] = copy[w]
  /\ pc'[w] = "saved" /\ job'[w] = j /\ copy'[w] = copy[w] /\ left'[w] = left[w]
  /\ Touches({j}, {w}) /\ UNCHANGED <<zset, ttl, used, runs, faults>>

\* StartHandler.
Runs(w, j) ==
  /\ pc[w] = "saved" /\ job[w] = j
  /\ runs'[j] = runs[j] + 1
  /\ pc'[w] = "running" /\ job'[w] = j /\ copy'[w] = copy[w] /\ left'[w] = left[w]
  /\ Touches({j}, {w}) /\ UNCHANGED <<docs, zset, ttl, used, faults>>

\* CompleteJob, RetryLater and KillWrite: the report moves the worker's job.
Reports(w, j) ==
  /\ Busy(w) /\ job[w] = j /\ pc'[w] = "idle"
  /\ Placed(j) /\ (ttl'[j] # NoTTL => docs'[j].state = "completed")
  /\ \/ /\ docs'[j].state \in {"completed", "retrying"}
        /\ docs'[j].attemptsMade = docs[j].attemptsMade
        /\ docs'[j].state = "retrying" => docs[j].attemptsMade <= MaxRetries
     \/ docs'[j].state = "dead" /\ pc[w] = "killing" /\ docs'[j] = copy[w]
  /\ Touches({j}, {w}) /\ UNCHANGED <<used, runs, faults>>

\* KillClear: the job is out of every set, and hopeless.
Clears(w, j) ==
  /\ Held(w) /\ job[w] = j /\ Hopeless(j)
  /\ \A s \in JobState : zset'[s][j] = Absent
  /\ copy'[w] \in Job(Workers) /\ copy'[w].state = "dead"
  /\ copy'[w].attemptsMade = docs[j].attemptsMade
  /\ pc'[w] = "killing" /\ job'[w] = j
  /\ Touches({j}, {w}) /\ UNCHANGED <<docs, ttl, used, runs, faults>>

\* Abandon: the worker lets go of its job.
Drops(w, j) ==
  /\ Busy(w) /\ job[w] = j /\ pc'[w] = "idle" /\ faults' = faults + 1
  /\ Touches({j}, {w}) /\ UNCHANGED <<docs, zset, ttl, used, runs>>

\* Promote and Reclaim: jobs nobody holds are pending again.
Returns(B) ==
  /\ \A k \in B : /\ docs[k].state \in {"scheduled", "retrying", "active"}
                  /\ Placed(k) /\ ttl'[k] = NoTTL /\ docs'[k].state = "pending"
                  /\ docs'[k].attemptsMade = docs[k].attemptsMade
  /\ Touches(B, {}) /\ UNCHANGED <<used, runs, faults>>

\* Purge: completed jobs are gone.
Forgets(B) ==
  /\ \A k \in B : /\ docs[k].state \in {"completed", "none"}
                  /\ docs'[k] = NoDoc /\ ttl'[k] = NoTTL
                  /\ \A s \in JobState : zset'[s][k] = Absent
  /\ Touches(B, {}) /\ UNCHANGED <<used, runs, faults>>

\* Tick: no job moves, completed documents may expire and leases grow shorter.
Ages ==
  /\ \A k \in Jobs :
       /\ \A s \in JobState : zset'[s][k] = Absent <=> zset[s][k] = Absent
       /\ \/ docs'[k] = docs[k] /\ (ttl'[k] # NoTTL => ttl[k] # NoTTL)
          \/ docs[k].state = "completed" /\ docs'[k] = NoDoc /\ ttl'[k] = NoTTL
  /\ \A w \in Workers : Held(w) => left'[w] >= 1 /\ zset'["active"][job[w]] >= left'[w]
  /\ UNCHANGED <<used, pc, job, copy, runs, faults>>

\* A worker holds its job alone, in Redis and among the workers.
Alone(w) ==
  /\ job[w] \in Jobs /\ job[w] \in used /\ Exists(job[w])
  /\ docs[job[w]].state = "active" /\ ttl[job[w]] = NoTTL /\ AtMostIn(job[w], "active")
  /\ \A v \in Workers \ {w} : Busy(v) => job[v] # job[w]

\* In a safe state a busy worker does.
LEMMA HeldAlone ==
  ASSUME TypeOK, SafeInv, NEW w \in Workers, Busy(w)
  PROVE  Alone(w)
<1>1. job[w] \in Jobs /\ docs[job[w]].state = "active"
  BY Zenon DEF TypeOK, SafeInv, WorkerInv
<1> QED
  BY <1>1, Zenon DEF SafeInv, JobInv, Exists, ExclusiveExecution, Alone, AtMostIn

\* Every step from a state that satisfies SafeInv has one of these shapes.
Shaped ==
  \/ \E j \in Jobs : Adds(j)
  \/ \E w \in Workers, j \in Jobs :
       \/ Claims(w, j) \/ Saves(w, j) \/ Runs(w, j)
       \/ Reports(w, j) \/ Clears(w, j) \/ Drops(w, j)
  \/ \E B \in SUBSET Jobs : Returns(B) \/ Forgets(B)
  \/ Ages

\* They do: one step of the proof per action, after what its script does.
LEMMA Shapes ==
  ASSUME TypeOK, SafeInv, [Next]_vars
  PROVE  Shaped
\* enqueue.lua of a new id makes it a member of one set.
<1>1. ASSUME StoreTypeOK, NEW j \in Jobs, JobInv(j), j \notin used, j \in used',
             NEW n \in Nat, NEW d \in Job(Workers), EnqueueLua(j, d.state, n, d)
      PROVE  Writes(j, d, NoTTL)
  <2> USE <1>1
  <2>1. ttl[j] = NoTTL /\ d.state \in JobState
    BY Zenon DEF JobInv, Exists, Job
  <2>2. \A k \in Jobs, s \in JobState :
          zset'[s][k] = IF s = d.state /\ k = j THEN n ELSE zset[s][k]
    BY <2>1, Zenon DEF EnqueueLua, StoreTypeOK
  <2> QED
    BY <2>1, <2>2 DEF EnqueueLua, StoreTypeOK, JobInv, Writes, Placed, Same
<1>2. ASSUME NEW j \in Jobs, NEW later \in BOOLEAN, Enqueue(j, later)
      PROVE  Adds(j)
  <2> USE <1>2
  <2> DEFINE d == NewJob(later)
             n == IF later THEN Delay ELSE 0
  <2>1. /\ d \in Job(Workers) /\ d.state \in {"pending", "scheduled"} /\ d.attemptsMade = 0
        /\ n \in Nat
    BY NewJobType, DeliveryAssumption, Zenon DEF JobsIn
  <2>2. /\ StoreTypeOK /\ j \notin used /\ JobInv(j) /\ EnqueueLua(j, d.state, n, d)
        /\ used' = used \cup {j} /\ UNCHANGED <<workerVars, runs, faults>>
    BY Zenon DEF Enqueue, TypeOK, SafeInv
  <2> HIDE DEF d, n
  <2>3. docs'[j] = d /\ ttl'[j] = NoTTL /\ Placed(j) /\ \A k \in Jobs \ {j} : Same(k)
    BY <2>1, <2>2, <1>1, Zenon DEF Writes
  <2>4. Touches({j}, {})
    BY <2>2, <2>3, HeldAlone, Zenon DEF Alone, Touches, SameWorker, workerVars
  <2> QED
    BY <2>1, <2>2, <2>3, <2>4, Zenon DEF Adds
\* dequeue.lua finds j pending, and there are no orphans to skip.
<1>3. ASSUME StoreTypeOK, \A k \in Jobs : JobInv(k), used' = used, NEW j \in Jobs,
             NEW B \in SUBSET {k \in In("pending") : ~Exists(k)}, NEW w \in Workers,
             NEW n \in Nat, DequeueLua(j, B, w, n)
      PROVE  ClaimedBy(j, n)
  <2> USE <1>3
  <2>1. {"pending", "active"} \subseteq JobState
    BY Zenon DEF JobState
  <2>2. docs[j] \in Job(Workers) /\ docs[j].state = "pending" /\ B = {}
    <3>1. docs[j] \in Job(Workers)
      BY DocIsJob, Zenon DEF DequeueLua, StoreTypeOK, Exists
    <3> QED
      BY <2>1, <3>1, Zenon DEF DequeueLua, In, JobInv
  <2>3. \A k \in Jobs, s \in JobState :
          zset'[s][k] = IF s = "active" /\ k = j THEN n
                        ELSE IF s = "pending" /\ k = j THEN Absent ELSE zset[s][k]
    BY <2>1, <2>2, Zenon DEF DequeueLua, StoreTypeOK
  <2>4. docs'[j] = [docs[j] EXCEPT !.state = "active", !.workerID = w]
        /\ \A k \in Jobs \ {j} : docs'[k] = docs[k]
    BY Zenon DEF DequeueLua, StoreTypeOK
  <2>5. /\ docs'[j] \in Job(Workers) /\ docs'[j].state = "active"
        /\ docs'[j].attemptsMade = docs[j].attemptsMade
    BY <2>2, <2>4, Zenon DEF Job, JobState
  <2>6. /\ ttl' = ttl /\ ttl[j] = NoTTL /\ j \in used
        /\ \A s \in JobState : zset[s][j] # Absent => s = "pending"
    BY <2>2, Zenon DEF DequeueLua, JobInv, Exists
  <2> QED
    BY <2>1, <2>2, <2>3, <2>4, <2>5, <2>6 DEF ClaimedBy, Placed, Same
<1>4. ASSUME NEW w \in Workers, NEW j \in Jobs,
             (Dequeue(w) /\ Claim(w, j)) \/ DequeueReplyLost(w, j)
      PROVE  Claims(w, j)
  <2> USE <1>4
  <2>1. PICK B \in SUBSET {k \in In("pending") : ~Exists(k)} : DequeueLua(j, B, w, LeaseExpiry)
    BY Zenon DEF Claim, DequeueReplyLost
  <2>2. /\ pc[w] = "idle" /\ UNCHANGED <<used, runs>> /\ faults' \in {faults, faults + 1}
        /\ LeaseExpiry \in Nat /\ StoreTypeOK /\ \A k \in Jobs : JobInv(k)
    BY DeliveryAssumption DEF Dequeue, DequeueReplyLost, LeaseExpiry, TypeOK, SafeInv
  <2>3. ClaimedBy(j, LeaseExpiry)
    BY <2>1, <2>2, <1>3, Zenon
  <2>4. /\ \A v \in Workers \ {w} : SameWorker(v)
        /\ \/ pc'[w] = "idle"
           \/ /\ pc'[w] = "leased" /\ job'[w] = j /\ left'[w] = Timeout + Grace
              /\ copy'[w] = Lease(docs[j], w)
    BY <2>2, <2>3
    DEF Claim, DequeueReplyLost, ClaimedBy, Goto, TypeOK, SameWorker, workerVars, CanLease,
        CanTransitionTo, allowedTransitions
  <2>5. Touches({j}, {w})
    BY <2>2, <2>3, <2>4, HeldAlone, Zenon DEF Alone, ClaimedBy, Touches, Busy
  <2> QED
    BY <2>2, <2>3, <2>4, <2>5, LeaseType DEF ClaimedBy, Claims, JobsIn
\* A step of worker w on the job it holds touches nothing else.
<1>5. ASSUME NEW w \in Workers, Busy(w), used' = used,
             \A k \in Jobs \ {job[w]} : Same(k) /\ runs'[k] = runs[k],
             \A v \in Workers \ {w} : SameWorker(v)
      PROVE  Touches({job[w]}, {w})
  BY <1>5, HeldAlone, Zenon DEF Alone, Touches
<1>6. ASSUME NEW w \in Workers, SaveLease(w)
      PROVE  Saves(w, job[w])
  <2> USE <1>6
  <2>1. /\ docs'[job[w]] = copy[w] /\ \A k \in Jobs \ {job[w]} : Same(k)
        /\ UNCHANGED <<zset, ttl, used, runs, faults>>
        /\ pc[w] = "leased" /\ pc'[w] = "saved" /\ UNCHANGED <<job, copy, left>>
        /\ \A v \in Workers \ {w} : SameWorker(v)
    BY Zenon DEF SaveLease, SaveDoc, Goto, TypeOK, StoreTypeOK, Same, SameWorker
  <2>2. Touches({job[w]}, {w})
    BY <2>1, <1>5, Zenon DEF Busy
  <2> QED
    BY <2>1, <2>2, Zenon DEF Saves
<1>7. ASSUME NEW w \in Workers, StartHandler(w)
      PROVE  Runs(w, job[w])
  <2> USE <1>7
  <2>1. /\ UNCHANGED <<docs, zset, ttl, used, faults>> /\ runs'[job[w]] = runs[job[w]] + 1
        /\ \A k \in Jobs \ {job[w]} : Same(k) /\ runs'[k] = runs[k]
        /\ pc[w] = "saved" /\ pc'[w] = "running" /\ UNCHANGED <<job, copy, left>>
        /\ \A v \in Workers \ {w} : SameWorker(v)
    BY Zenon DEF StartHandler, Goto, TypeOK, store, Same, SameWorker
  <2>2. Touches({job[w]}, {w})
    BY <2>1, <1>5, Zenon DEF Busy
  <2> QED
    BY <2>1, <2>2, Zenon DEF Runs
\* A worker that is through with its job touches nothing else.
<1>8. ASSUME NEW w \in Workers, Busy(w), Done(w), UNCHANGED <<used, runs>>,
             \A k \in Jobs \ {job[w]} : Same(k)
      PROVE  pc'[w] = "idle" /\ Touches({job[w]}, {w})
  <2> USE <1>8
  <2>1. pc'[w] = "idle" /\ \A v \in Workers \ {w} : SameWorker(v)
    BY Zenon DEF Done, Goto, TypeOK, SameWorker
  <2> QED
    BY <2>1, <1>5, Zenon
\* A report writes the worker's job, wherever it was.
<1>9. ASSUME NEW w \in Workers, Busy(w), Done(w), UNCHANGED <<used, runs, faults>>,
             NEW s \in JobState, AtMostIn(job[w], s), NEW n \in Nat, NEW e,
             NEW d \in Job(Workers), TransitionLua(job[w], s, d.state, n, e, d)
      PROVE  /\ docs'[job[w]] = d /\ ttl'[job[w]] = e /\ Placed(job[w])
             /\ pc'[w] = "idle" /\ Touches({job[w]}, {w})
  <2> USE <1>9
  <2>1. PICK j \in Jobs : j = job[w] /\ j \in used' /\ Exists(j)
    BY HeldAlone, Zenon DEF Alone
  <2>2. /\ docs'[j] = d /\ ttl'[j] = e /\ Placed(j) /\ \A k \in Jobs \ {j} : Same(k)
    BY <2>1, TransitionEffect, Zenon DEF TypeOK, Writes
  <2> QED
    BY <2>1, <2>2, <1>8, Zenon
<1>10. ASSUME NEW w \in Workers, CompleteJob(w) \/ RetryLater(w) \/ KillWrite(w)
       PROVE  Reports(w, job[w])
  <2> USE <1>10
  <2>1. Busy(w) /\ Done(w) /\ UNCHANGED <<used, runs, faults>>
    BY Zenon DEF CompleteJob, RetryLater, KillWrite, Busy
  <2>2. /\ "active" \in JobState /\ "pending" \in JobState
        /\ Retention \in Nat /\ Backoff \in Nat
    BY DeliveryAssumption, Zenon DEF JobState
  <2>3. ASSUME pc[w] = "running"
        PROVE  /\ docs[job[w]] = copy[w] /\ copy[w] \in Job(Workers)
               /\ AtMostIn(job[w], "active")
               /\ Complete(copy[w]) \in Job(Workers) /\ Complete(copy[w]).state = "completed"
               /\ Complete(copy[w]).attemptsMade = copy[w].attemptsMade
               /\ Fail(copy[w]) \in Job(Workers) /\ Fail(copy[w]).attemptsMade = copy[w].attemptsMade
               /\ Fail(copy[w]).state = "retrying" => copy[w].attemptsMade <= MaxRetries
    <3>1. docs[job[w]] = copy[w] /\ copy[w] \in Job(Workers)
      BY <2>3, Zenon DEF SafeInv, WorkerInv, Held
    <3> QED
      BY <2>1, <3>1, HeldAlone, ReportType, Zenon DEF Alone, AllowsRetry, JobsIn
  <2>4. CASE CompleteJob(w)
    <3>1. PICK d \in Job(Workers), e \in {Retention, NoTTL} :
            /\ d.state = "completed" /\ d.attemptsMade = docs[job[w]].attemptsMade
            /\ AtMostIn(job[w], "active")
            /\ TransitionLua(job[w], "active", d.state, Retention, e, d)
      BY <2>3, <2>4, Zenon DEF CompleteJob
    <3>2. /\ docs'[job[w]] = d /\ ttl'[job[w]] = e /\ Placed(job[w])
          /\ pc'[w] = "idle" /\ Touches({job[w]}, {w})
      BY <2>1, <2>2, <3>1, <1>9, Zenon
    <3> QED
      BY <2>1, <3>1, <3>2, Zenon DEF Reports
  <2>5. CASE RetryLater(w)
    <3>1. PICK d \in Job(Workers) :
            /\ d.state = "retrying" /\ d.attemptsMade = docs[job[w]].attemptsMade
            /\ d.attemptsMade <= MaxRetries
            /\ AtMostIn(job[w], "active")
            /\ TransitionLua(job[w], "active", d.state, Backoff, NoTTL, d)
      BY <2>3, <2>5, Zenon DEF RetryLater
    <3>2. /\ docs'[job[w]] = d /\ ttl'[job[w]] = NoTTL /\ Placed(job[w])
          /\ pc'[w] = "idle" /\ Touches({job[w]}, {w})
      BY <2>1, <2>2, <3>1, <1>9, Zenon
    <3> QED
      BY <2>1, <3>1, <3>2, Zenon DEF Reports
  <2>6. CASE KillWrite(w)
    <3>1. PICK d \in Job(Workers), n \in Nat :
            /\ d = copy[w] /\ d.state = "dead" /\ pc[w] = "killing"
            /\ AtMostIn(job[w], "pending")
            /\ TransitionLua(job[w], "pending", d.state, n, NoTTL, d)
      BY <2>6, Zenon DEF KillWrite, SafeInv, WorkerInv, AtMostIn
    <3>2. /\ AtMostIn(job[w], "pending")
          /\ TransitionLua(job[w], "pending", d.state, n, NoTTL, d)
      BY <3>1, Zenon
    <3>3. /\ docs'[job[w]] = d /\ ttl'[job[w]] = NoTTL /\ Placed(job[w])
          /\ pc'[w] = "idle" /\ Touches({job[w]}, {w})
      BY <2>1, <2>2, <3>2, <1>9, Zenon
    <3> QED
      BY <2>1, <3>1, <3>3, Zenon DEF Reports
  <2> QED
    BY <2>4, <2>5, <2>6, Zenon
\* The first call of JobBroker.Kill takes the job out of every set.
<1>11. ASSUME StoreTypeOK, NEW j \in Jobs, ClearMembership(j)
       PROVE  /\ docs' = docs /\ ttl' = ttl
              /\ \A s \in JobState : zset'[s][j] = Absent
              /\ \A k \in Jobs \ {j} : Same(k)
  <2> USE <1>11
  <2>1. \A k \in Jobs, s \in JobState : zset'[s][k] = IF k = j THEN Absent ELSE zset[s][k]
    BY Zenon DEF ClearMembership, StoreTypeOK
  <2> QED
    BY <2>1 DEF ClearMembership, Same
<1>12. ASSUME NEW w \in Workers, KillClear(w)
       PROVE  Clears(w, job[w])
  <2> USE <1>12
  <2>1. /\ job[w] \in Jobs /\ Held(w) /\ Busy(w)
        /\ copy[w] \in Job(Workers) /\ docs[job[w]] = copy[w] /\ copy[w].attemptsMade \in Nat
    BY Zenon DEF KillClear, TypeOK, SafeInv, WorkerInv, Held, Busy, Job
  <2>2. /\ UNCHANGED <<docs, ttl, used, runs, faults>> /\ \A s \in JobState : zset'[s][job[w]] = Absent
        /\ \A k \in Jobs \ {job[w]} : Same(k)
    BY <2>1, <1>11, Zenon DEF KillClear, TypeOK
  <2>3. /\ pc'[w] = "killing" /\ job' = job /\ \A v \in Workers \ {w} : SameWorker(v)
        /\ \/ copy'[w] = Fail(copy[w]) /\ Fail(copy[w]).state = "dead"
           \/ copy'[w] = Kill(copy[w]) /\ job[w] \in Unroutable
    BY <2>1, Zenon DEF KillClear, Goto, Resolve, TypeOK, SameWorker
  <2>4. /\ copy'[w] \in Job(Workers) /\ copy'[w].state = "dead"
        /\ copy'[w].attemptsMade = copy[w].attemptsMade
        /\ job[w] \in Unroutable \/ ~AllowsRetry(copy[w].attemptsMade)
    BY <2>1, <2>3, ReportType DEF JobsIn
  <2>5. Hopeless(job[w])
    BY <2>1, <2>4, MaxRetriesAssumption DEF Hopeless, AllowsRetry
  <2>6. Touches({job[w]}, {w})
    BY <2>1, <2>2, <2>3, <1>5, Zenon
  <2> QED
    BY <2>1, <2>2, <2>3, <2>4, <2>5, <2>6, Zenon DEF Clears
<1>13. ASSUME NEW w \in Workers, Abandon(w)
       PROVE  Drops(w, job[w])
  <2> USE <1>13
  <2>1. /\ Busy(w) /\ Done(w) /\ faults' = faults + 1 /\ UNCHANGED <<docs, zset, ttl, used, runs>>
        /\ \A k \in Jobs : Same(k)
    BY Zenon DEF Abandon, store, Same
  <2> QED
    BY <2>1, <1>8, Zenon DEF Drops
\* Nobody holds a job whose score in the set of its state is due: the lease of
\* a held job still has a tick left, and a job being killed is in no set.
<1>14. ASSUME NEW s, NEW B, \A k \in B : zset[s][k] = 0 /\ docs[k].state = s
       PROVE  \A v \in Workers : Busy(v) => job[v] \notin B
  <2> USE <1>14
  <2> SUFFICES ASSUME NEW v \in Workers, Busy(v), job[v] \in B PROVE FALSE
    OBVIOUS
  <2>0. docs[job[v]].state = "active"
    BY Zenon DEF SafeInv, WorkerInv
  <2>1. s = "active" /\ zset["active"][job[v]] = 0
    BY <2>0, Zenon
  <2>2. pc[v] \in {"leased", "saved", "running", "killing"} /\ left[v] \in Nat
    BY Zenon DEF Busy, TypeOK
  <2>3. CASE pc[v] = "killing"
    BY <2>1, <2>3 DEF SafeInv, WorkerInv, Absent, JobState
  <2>4. CASE Held(v)
    BY <2>1, <2>2, <2>4 DEF SafeInv, WorkerInv
  <2> QED
    BY <2>2, <2>3, <2>4, Zenon DEF Held
\* promote.lua and reclaim.lua move the jobs of their batch from s to pending.
<1>15. ASSUME StoreTypeOK, \A k \in Jobs : JobInv(k), used' = used,
              NEW s \in {"scheduled", "retrying", "active"}, NEW B \in SUBSET Due(s),
              ToPendingLua(s, B)
       PROVE  Pended(s, B)
  <2> USE <1>15
  <2>1. s \in JobState /\ "pending" \in JobState /\ s # "pending"
    BY Zenon DEF JobState
  <2>2. B \in SUBSET Jobs /\ \A k \in B : zset[s][k] = 0
    BY Zenon DEF Due
  <2>3. ASSUME NEW k \in B
        PROVE  /\ docs[k].state = s /\ Exists(k) /\ k \in used /\ ttl[k] = NoTTL
               /\ \A q \in JobState : zset[q][k] # Absent => q = s
    <3>1. k \in Jobs /\ JobInv(k) /\ zset[s][k] = 0 /\ s # "none" /\ s # "completed"
      BY <2>2, <2>3, Zenon
    <3> QED
      BY <2>1, <3>1 DEF JobInv, Absent, Exists
  <2>4. \A k \in Jobs : Exists(k) => docs[k] \in Job(Workers)
    BY DocIsJob, Zenon DEF StoreTypeOK, Exists
  <2>5. \A k \in Jobs, q \in JobState :
          zset'[q][k] = IF q = "pending" /\ k \in B THEN 0
                        ELSE IF q = s /\ k \in B THEN Absent ELSE zset[q][k]
    BY <2>1, <2>2, <2>3, Zenon DEF ToPendingLua, StoreTypeOK
  <2>6. /\ ttl' = ttl
        /\ \A k \in Jobs : docs'[k] = IF k \in B
                                      THEN [docs[k] EXCEPT !.state = "pending", !.workerID = NoWorker]
                                      ELSE docs[k]
    BY <2>2, <2>3, Zenon DEF ToPendingLua, StoreTypeOK
  <2>7. ASSUME NEW k \in B
        PROVE  /\ docs'[k] \in Job(Workers) /\ docs'[k].state = "pending"
               /\ docs'[k].attemptsMade = docs[k].attemptsMade
    <3>1. /\ docs[k] \in Job(Workers)
          /\ docs'[k] = [docs[k] EXCEPT !.state = "pending", !.workerID = NoWorker]
      BY <2>2, <2>3, <2>4, <2>6, Zenon
    <3> QED
      BY <3>1, Zenon DEF Job, JobState
  <2>8. \A k \in B : Placed(k)
    BY <2>2, <2>3, <2>5, <2>7 DEF Placed
  <2>9. \A k \in Jobs \ B : Same(k)
    BY <2>5, <2>6, Zenon DEF Same
  <2>10. \A k \in B : /\ docs'[k].state = "pending" /\ ttl'[k] = NoTTL
                       /\ docs'[k].attemptsMade = docs[k].attemptsMade
    BY <2>2, <2>3, <2>6, <2>7, Zenon
  <2> QED
    BY <2>2, <2>3, <2>8, <2>9, <2>10, Zenon DEF Pended
\* A promote or reclaim sweep takes no job out of a live worker's hands.
<1>16. ASSUME Promote("scheduled") \/ Promote("retrying") \/ Reclaim
       PROVE  \E B \in SUBSET Jobs : Returns(B)
  <2> USE <1>16
  <2>1. /\ \E s \in {"scheduled", "retrying", "active"} :
             \E B \in SUBSET Due(s) : ToPendingLua(s, B)
        /\ UNCHANGED <<used, workerVars, runs, faults>>
    BY Zenon DEF Promote, Reclaim, Batch
  <2>2. PICK s \in {"scheduled", "retrying", "active"} : \E B \in SUBSET Due(s) : ToPendingLua(s, B)
    BY <2>1, Zenon
  <2>3. PICK B \in SUBSET Due(s) : ToPendingLua(s, B)
    BY <2>2, Zenon
  <2>4. Pended(s, B)
    BY <2>1, <2>3, <1>15, Zenon DEF TypeOK, SafeInv
  <2>5. \A v \in Workers : Busy(v) => job[v] \notin B
    BY <2>4, <1>14, Zenon DEF Pended
  <2>6. Touches(B, {})
    BY <2>1, <2>4, <2>5, Zenon DEF Pended, Touches, SameWorker, workerVars
  <2> QED
    BY <2>1, <2>4, <2>6, Zenon DEF Pended, Returns
\* purge_completed.lua drops documents of completed jobs only.
<1>17. ASSUME StoreTypeOK, \A k \in Jobs : JobInv(k), NEW B \in SUBSET Due("completed"),
              PurgeCompletedLua(B)
       PROVE  Purged(B)
  <2> USE <1>17
  <2>1. "completed" \in JobState /\ B \in SUBSET Jobs /\ \A k \in B : zset["completed"][k] # Absent
    BY DEF JobState, Due, Absent
  <2>2. \A k \in B : /\ docs[k].state \in {"completed", "none"}
                     /\ \A s \in JobState : zset[s][k] # Absent => s = "completed"
    BY <2>1, Zenon DEF JobInv, Exists
  <2>3. \A k \in Jobs, s \in JobState :
          zset'[s][k] = IF s = "completed" /\ k \in B THEN Absent ELSE zset[s][k]
    BY <2>1, Zenon DEF PurgeCompletedLua, StoreTypeOK
  <2> QED
    BY <2>1, <2>2, <2>3 DEF PurgeCompletedLua, Purged, Same
\* The janitor's purge touches completed jobs only, which nobody holds.
<1>18. ASSUME Purge
       PROVE  \E B \in SUBSET Jobs : Forgets(B)
  <2> USE <1>18
  <2>1. UNCHANGED <<used, workerVars, runs, faults>>
    BY Zenon DEF Purge
  <2>2. PICK B \in SUBSET Due("completed") : PurgeCompletedLua(B)
    BY Zenon DEF Purge, Batch
  <2>3. Purged(B)
    BY <2>2, <1>17, Zenon DEF TypeOK, SafeInv
  <2>4. Touches(B, {})
    BY <2>1, <2>3, HeldAlone, Zenon DEF Purged, Alone, Touches, SameWorker, workerVars
  <2> QED
    BY <2>1, <2>3, <2>4, Zenon DEF Purged, Forgets
\* A tick moves nothing between sets and expires completed documents only.
<1>19. ASSUME StoreTypeOK, StoreTick, NEW k \in Jobs, JobInv(k)
       PROVE  Aged(k)
  <2> USE <1>19
  <2>1. \A s \in JobState : zset[s][k] \in Nat \cup {Absent} /\ zset'[s][k] = TickDown(zset[s][k])
    BY Zenon DEF StoreTypeOK, StoreTick
  <2>2. \A s \in JobState : /\ zset'[s][k] = Absent <=> zset[s][k] = Absent
                            /\ zset[s][k] > 1 => zset'[s][k] = zset[s][k] - 1
    BY <2>1 DEF TickDown, Absent
  <2>3. CASE ttl[k] = 1
    BY <2>2, <2>3 DEF Aged, StoreTick, JobInv, NoTTL
  <2>4. CASE ttl[k] # 1
    <3>1. docs'[k] = docs[k] /\ ttl'[k] = TickDown(ttl[k]) /\ ttl[k] \in Nat \cup {NoTTL}
      BY <2>4, Zenon DEF StoreTick, StoreTypeOK
    <3> QED
      BY <2>2, <3>1 DEF Aged, TickDown, NoTTL
  <2> QED
    BY <2>3, <2>4, Zenon
\* A lease that covers a worker's time still covers it a tick later.
<1>20. ASSUME NEW a \in Nat \cup {Absent}, NEW b, NEW m \in Nat, NEW n, a >= m, m > 1,
              a > 1 => b = a - 1, n = m - 1
       PROVE  n >= 1 /\ b >= n
  BY <1>20 DEF Absent
\* Time takes a tick from the leases and from the workers alike.
<1>21. ASSUME Tick
       PROVE  Ages
  <2> USE <1>21
  <2>1. /\ StoreTypeOK /\ StoreTick /\ \A k \in Jobs : JobInv(k)
        /\ "active" \in JobState /\ UNCHANGED <<used, pc, job, copy, runs, faults>>
    BY Zenon DEF TypeOK, Tick, SafeInv, JobState
  <2>2. \A k \in Jobs : Aged(k)
    BY <2>1, <1>19, Zenon
  <2>3. ASSUME NEW w \in Workers, Held(w)
        PROVE  left'[w] >= 1 /\ zset'["active"][job[w]] >= left'[w]
    <3>1. /\ left[w] \in Nat /\ left[w] > 1 /\ left'[w] = TickDown(left[w])
          /\ job[w] \in Jobs /\ zset["active"][job[w]] >= left[w]
          /\ zset["active"][job[w]] \in Nat \cup {Absent}
      BY <2>1, <2>3 DEF TypeOK, StoreTypeOK, SafeInv, WorkerInv, Tick, Held, Busy
    <3>2. left'[w] = left[w] - 1
      BY <3>1 DEF TickDown
    <3>3. zset["active"][job[w]] > 1 => zset'["active"][job[w]] = zset["active"][job[w]] - 1
      BY <2>1, <2>2, <3>1, Zenon DEF Aged
    <3> QED
      BY <3>1, <3>2, <3>3, <1>20, Zenon
  <2> QED
    BY <2>1, <2>2, <2>3, Zenon DEF Aged, Ages
<1>22. CASE \E w \in Workers : Dequeue(w) /\ FindNothing
  <2>1. ~DrainOrphansLua
    BY NoOrphans, Zenon DEF SafeInv
  <2> QED
    BY <1>22, <2>1, Zenon DEF FindNothing
<1>23. CASE UNCHANGED vars
  <2>1. Touches({}, {})
    BY <1>23, Zenon DEF vars, store, workerVars, Same, SameWorker, Touches
  <2> QED
    BY <1>23, <2>1, Zenon DEF Shaped, Returns, vars
<1>24. \A w \in Workers : job[w] \in Jobs
  BY Zenon DEF TypeOK
<1> QED
  BY <1>22, <1>23, <1>24, <1>2, <1>4, <1>6, <1>7, <1>10,
     <1>12, <1>13, <1>16, <1>18, <1>21, Zenon
  DEF Shaped, Next, WorkerStep, Dequeue, Sweep

-----------------------------------------------------------------------------
(* Type correctness.                                                       *)

\* transition.lua,
LEMMA TransitionLuaType ==
  ASSUME StoreTypeOK, NEW j \in Jobs, NEW s \in JobState, NEW r \in JobState,
         NEW n \in Nat, NEW e \in Nat \cup {NoTTL}, NEW d \in Job(Workers),
         TransitionLua(j, s, r, n, e, d)
  PROVE  StoreTypeOK'
<1>1. CASE Exists(j)
  <2>1. zset' = [zset EXCEPT ![s][j] = Absent, ![r][j] = n]
    BY <1>1, Zenon DEF TransitionLua
  <2>2. zset' \in [JobState -> [Jobs -> Nat \cup {Absent}]]
    BY <2>1, Zenon DEF StoreTypeOK
  <2> QED
    BY <1>1, <2>2 DEF TransitionLua, StoreTypeOK
<1>2. CASE ~Exists(j)
  BY <1>2 DEF TransitionLua, StoreTypeOK
<1> QED
  BY <1>1, <1>2, Zenon

\* The initial state is well typed.
LEMMA TypeInit == Init => TypeOK
<1> SUFFICES ASSUME Init PROVE TypeOK
  OBVIOUS
<1>1. (CHOOSE j \in Jobs : TRUE) \in Jobs
  BY DeliveryAssumption, Zenon
<1>2. StoreTypeOK
  BY Zenon DEF Init, StoreInit, StoreTypeOK, NoTTL
<1> QED
  BY <1>1, <1>2, DeliveryAssumption DEF Init, TypeOK

\* A copy is a job whenever a worker is about to write it.
CopyOK == \A w \in Workers : Busy(w) => copy[w] \in Job(Workers)

\* Every step keeps the types.
LEMMA TypeStep ==
  ASSUME TypeOK, CopyOK, [Next]_vars
  PROVE  TypeOK' /\ CopyOK'
\* A worker that is through with its job keeps the workers' types (Done).
<1>1. ASSUME NEW w \in Workers, Done(w)
      PROVE  /\ pc'   \in [Workers -> {"idle", "leased", "saved", "running", "killing"}]
             /\ job'  \in [Workers -> Jobs]
             /\ copy' \in [Workers -> Job(Workers) \cup {NoDoc}]
             /\ left' \in [Workers -> Nat]
  <2> USE <1>1
  <2>1. (CHOOSE j \in Jobs : TRUE) \in Jobs
    BY DeliveryAssumption, Zenon
  <2> QED
    BY <2>1, Zenon DEF Done, Goto, TypeOK
\* The time left until a score is due stays a time.
<1>2. ASSUME NEW n \in Nat \cup {Absent}
      PROVE  /\ TickDown(n) \in Nat \cup {Absent}
             /\ TickDown(n) = Absent <=> n = Absent
             /\ n \in Nat /\ n > 1 => TickDown(n) = n - 1
  BY <1>2 DEF TickDown, Absent
\* The store keeps its types through enqueue.lua,
<1>3. ASSUME StoreTypeOK, NEW j \in Jobs, NEW s \in JobState, NEW n \in Nat,
             NEW d \in Job(Workers), EnqueueLua(j, s, n, d)
      PROVE  StoreTypeOK'
  BY <1>3, Zenon DEF EnqueueLua, StoreTypeOK
\* dequeue.lua,
<1>4. ASSUME StoreTypeOK, NEW j \in Jobs, NEW B \in SUBSET Jobs, NEW w \in Workers,
             NEW n \in Nat, DequeueLua(j, B, w, n)
      PROVE  StoreTypeOK'
  <2> USE <1>4
  <2>1. {"pending", "active"} \subseteq JobState
    BY Zenon DEF JobState
  <2>2. docs[j] \in Job(Workers)
    BY DocIsJob, Zenon DEF DequeueLua, StoreTypeOK, Exists
  <2>3. [docs[j] EXCEPT !.state = "active", !.workerID = w] \in Job(Workers)
    BY <2>2, Zenon DEF Job, JobState
  <2>4. docs' \in [Jobs -> Job(Workers) \cup {NoDoc}]
    BY <2>3, Zenon DEF DequeueLua, StoreTypeOK
  <2> DEFINE p == [k \in Jobs |-> IF k \in B \cup {j} THEN Absent ELSE zset["pending"][k]]
             a == [zset["active"] EXCEPT ![j] = n]
  <2>5. p \in [Jobs -> Nat \cup {Absent}] /\ a \in [Jobs -> Nat \cup {Absent}]
    BY <2>1 DEF StoreTypeOK
  <2>6. zset' = [zset EXCEPT !["pending"] = p, !["active"] = a]
    BY <2>1, Zenon DEF DequeueLua, StoreTypeOK
  <2>7. zset' \in [JobState -> [Jobs -> Nat \cup {Absent}]]
    <3> HIDE DEF p, a
    <3> QED
      BY <2>5, <2>6, Zenon DEF StoreTypeOK
  <2> QED
    BY <2>4, <2>7, Zenon DEF DequeueLua, StoreTypeOK
\* promote.lua and reclaim.lua,
<1>5. ASSUME StoreTypeOK, NEW s \in JobState, NEW B \in SUBSET Jobs, ToPendingLua(s, B)
      PROVE  StoreTypeOK'
  <2> USE <1>5
  <2>1. \A k \in Jobs : Exists(k) => docs[k] \in Job(Workers)
    BY DocIsJob, Zenon DEF StoreTypeOK, Exists
  <2>2. \A k \in Jobs : Exists(k) =>
          [docs[k] EXCEPT !.state = "pending", !.workerID = NoWorker] \in Job(Workers)
    BY <2>1, Zenon DEF Job, JobState
  <2>3. docs' \in [Jobs -> Job(Workers) \cup {NoDoc}]
    BY <2>2, Zenon DEF ToPendingLua, StoreTypeOK
  <2>4. zset' \in [JobState -> [Jobs -> Nat \cup {Absent}]]
    <3>1. "pending" \in JobState
      BY Zenon DEF JobState
    <3> QED
      BY <3>1, Zenon DEF ToPendingLua, StoreTypeOK
  <2> QED
    BY <2>3, <2>4, Zenon DEF ToPendingLua, StoreTypeOK
\* and a tick of time.
<1>6. ASSUME StoreTypeOK, StoreTick
      PROVE  StoreTypeOK'
  <2> USE <1>6
  <2>1. \A m \in Nat \cup {Absent} : TickDown(m) \in Nat \cup {Absent}
    BY <1>2, Zenon
  <2>2. NoTTL = Absent
    BY Zenon DEF NoTTL, Absent
  <2>3. zset' \in [JobState -> [Jobs -> Nat \cup {Absent}]]
    BY <2>1, Zenon DEF StoreTick, StoreTypeOK
  <2>4. ttl' \in [Jobs -> Nat \cup {NoTTL}]
    BY <2>1, <2>2, Zenon DEF StoreTick, StoreTypeOK
  <2>5. docs' \in [Jobs -> Job(Workers) \cup {NoDoc}]
    BY Zenon DEF StoreTick, StoreTypeOK
  <2> QED
    BY <2>3, <2>4, <2>5, Zenon DEF StoreTypeOK
\* The sets a sweep takes are sets of jobs.
<1>7. ASSUME NEW s \in JobState, NEW B \in Batch(s)
      PROVE  B \in SUBSET Jobs /\ B \subseteq Due(s)
  BY <1>7, Zenon DEF Batch, Due
<1> USE DEF CopyOK, Busy
<1>8. StoreTypeOK
  BY Zenon DEF TypeOK
<1>9. /\ {"pending", "active", "completed", "scheduled", "retrying", "dead"} \subseteq JobState
      /\ LeaseExpiry \in Nat /\ Backoff \in Nat /\ Delay \in Nat /\ Retention \in Nat
      /\ Timeout + Grace \in Nat
  BY DeliveryAssumption DEF JobState, LeaseExpiry
<1>10. CASE UNCHANGED vars
  BY <1>10, Zenon DEF vars, workerVars, store, TypeOK, StoreTypeOK
<1>11. ASSUME NEW j \in Jobs, NEW later \in BOOLEAN, Enqueue(j, later)
      PROVE  TypeOK' /\ CopyOK'
  <2>1. NewJob(later) \in Job(Workers) /\ NewJob(later).state \in JobState
    BY NewJobType, <1>9, Zenon DEF JobsIn
  <2>2. (IF later THEN Delay ELSE 0) \in Nat
    BY <1>9, Zenon
  <2>3. StoreTypeOK'
    BY <1>8, <1>11, <2>1, <2>2, <1>3, Zenon DEF Enqueue
  <2> QED
    BY <1>11, <2>3, Zenon DEF Enqueue, TypeOK, workerVars
<1>12. ASSUME NEW w \in Workers, NEW j \in Jobs, Dequeue(w), Claim(w, j)
      PROVE  TypeOK' /\ CopyOK'
  <2>1. PICK orphans \in SUBSET {k \in In("pending") : ~Exists(k)} :
          DequeueLua(j, orphans, w, LeaseExpiry)
    BY <1>12, Zenon DEF Claim
  <2>2. orphans \in SUBSET Jobs
    BY Zenon DEF In
  <2>3. StoreTypeOK'
    BY <1>8, <1>9, <2>1, <2>2, <1>4, Zenon
  <2>4. docs[j] \in Job(Workers)
    BY <1>8, <2>1, DocIsJob, Zenon DEF DequeueLua, Exists, StoreTypeOK
  <2>5. Lease(docs[j], w) \in Job(Workers)
    BY <2>4, LeaseType, Zenon DEF JobsIn
  <2> QED
    BY <1>9, <1>12, <2>3, <2>5 DEF Dequeue, Claim, TypeOK, Goto, workerVars
<1>13. ASSUME NEW w \in Workers, Dequeue(w), FindNothing
      PROVE  TypeOK' /\ CopyOK'
  <2>1. StoreTypeOK'
    BY <1>8, <1>9, <1>13, Zenon DEF FindNothing, DrainOrphansLua, StoreTypeOK
  <2> QED
    BY <1>13, <2>1, Zenon DEF Dequeue, FindNothing, TypeOK, workerVars
<1>14. ASSUME NEW w \in Workers, SaveLease(w)
      PROVE  TypeOK' /\ CopyOK'
  <2>1. copy[w] \in Job(Workers) /\ job[w] \in Jobs
    BY <1>14, Zenon DEF SaveLease, TypeOK
  <2>2. StoreTypeOK'
    BY <1>8, <1>14, <2>1, Zenon DEF SaveLease, SaveDoc, StoreTypeOK
  <2> QED
    BY <1>14, <2>2, Zenon DEF SaveLease, TypeOK, Goto
<1>15. ASSUME NEW w \in Workers, StartHandler(w)
      PROVE  TypeOK' /\ CopyOK'
  BY <1>15 DEF StartHandler, TypeOK, StoreTypeOK, store, Goto
<1>16. ASSUME NEW w \in Workers, CompleteJob(w)
      PROVE  TypeOK' /\ CopyOK'
  <2>1. Complete(copy[w]) \in Job(Workers) /\ job[w] \in Jobs
    BY <1>16, ReportType, Zenon DEF CompleteJob, TypeOK, JobsIn
  <2>2. (IF Retention > 0 THEN Retention ELSE NoTTL) \in Nat \cup {NoTTL}
    BY <1>9, Zenon
  <2>3. StoreTypeOK'
    BY <1>8, <1>9, <1>16, <2>1, <2>2, TransitionLuaType, Zenon DEF CompleteJob
  <2> QED
    BY <1>16, <2>3, <1>1, Zenon DEF CompleteJob, TypeOK, Done, Goto
<1>17. ASSUME NEW w \in Workers, RetryLater(w)
      PROVE  TypeOK' /\ CopyOK'
  <2>1. Fail(copy[w]) \in Job(Workers) /\ job[w] \in Jobs
    BY <1>17, ReportType, Zenon DEF RetryLater, TypeOK, JobsIn
  <2>2. StoreTypeOK'
    BY <1>8, <1>9, <1>17, <2>1, TransitionLuaType, Zenon DEF RetryLater
  <2> QED
    BY <1>17, <2>2, <1>1, Zenon DEF RetryLater, TypeOK, Done, Goto
<1>18. ASSUME NEW w \in Workers, KillClear(w)
       PROVE  TypeOK' /\ CopyOK'
  <2>1. /\ copy[w] \in Job(Workers) /\ job[w] \in Jobs
        /\ Fail(copy[w]) \in Job(Workers) /\ Kill(copy[w]) \in Job(Workers)
    BY <1>18, ReportType, Zenon DEF KillClear, TypeOK, JobsIn
  <2>2. StoreTypeOK'
    BY <1>8, <1>18, <2>1, Zenon DEF KillClear, ClearMembership, StoreTypeOK
  <2>3. copy' \in [Workers -> Job(Workers) \cup {NoDoc}] /\ copy'[w] \in Job(Workers)
        /\ \A v \in Workers \ {w} : copy'[v] = copy[v]
    BY <1>18, <2>1, Zenon DEF KillClear, TypeOK
  <2> QED
    BY <1>18, <2>2, <2>3, Zenon DEF KillClear, TypeOK, Goto
<1>19. ASSUME NEW w \in Workers, KillWrite(w)
       PROVE  TypeOK' /\ CopyOK'
  <2>1. copy[w] \in Job(Workers) /\ job[w] \in Jobs
    BY <1>19, Zenon DEF KillWrite, TypeOK
  <2>2. StoreTypeOK'
    BY <1>8, <1>9, <1>19, <2>1, TransitionLuaType, Zenon DEF KillWrite
  <2> QED
    BY <1>19, <2>2, <1>1, Zenon DEF KillWrite, TypeOK, Done, Goto
<1>20. ASSUME NEW w \in Workers, Abandon(w)
       PROVE  TypeOK' /\ CopyOK'
  <2>1. StoreTypeOK'
    BY <1>8, <1>20, Zenon DEF Abandon, store, StoreTypeOK
  <2>2. faults' \in 0..MaxFaults
    BY <1>20, DeliveryAssumption DEF Abandon, TypeOK
  <2> QED
    BY <1>20, <2>1, <2>2, <1>1, Zenon DEF Abandon, TypeOK, Done, Goto
<1>21. ASSUME NEW w \in Workers, NEW j \in Jobs, DequeueReplyLost(w, j)
       PROVE  TypeOK' /\ CopyOK'
  <2>1. PICK orphans \in SUBSET {k \in In("pending") : ~Exists(k)} :
          DequeueLua(j, orphans, w, LeaseExpiry)
    BY <1>21, Zenon DEF DequeueReplyLost
  <2>2. orphans \in SUBSET Jobs
    BY Zenon DEF In
  <2>3. StoreTypeOK'
    BY <1>8, <1>9, <2>1, <2>2, <1>4, Zenon
  <2>4. faults' \in 0..MaxFaults
    BY <1>21, DeliveryAssumption DEF DequeueReplyLost, TypeOK
  <2> QED
    BY <1>21, <2>3, <2>4, Zenon DEF DequeueReplyLost, TypeOK, workerVars
<1>22. CASE Sweep
  <2>1. PICK B \in SUBSET Jobs :
          \/ \E s \in {"scheduled", "retrying", "active"} : ToPendingLua(s, B)
          \/ PurgeCompletedLua(B)
    BY <1>9, <1>22, <1>7, Zenon DEF Sweep, Promote, Reclaim, Purge
  <2>2. StoreTypeOK'
    <3>1. CASE \E s \in {"scheduled", "retrying", "active"} : ToPendingLua(s, B)
      <4>1. PICK s \in {"scheduled", "retrying", "active"} : ToPendingLua(s, B)
        BY <3>1, Zenon
      <4> QED
        BY <1>8, <1>9, <4>1, <1>5, Zenon
    <3>2. CASE PurgeCompletedLua(B)
      BY <1>8, <1>9, <3>2, Zenon DEF PurgeCompletedLua, StoreTypeOK
    <3> QED
      BY <2>1, <3>1, <3>2, Zenon
  <2> QED
    BY <1>22, <2>2, Zenon DEF Sweep, Promote, Reclaim, Purge, TypeOK, workerVars
<1>23. CASE Tick
  <2>1. Nat \subseteq Nat \cup {Absent} /\ \A n \in Nat : TickDown(n) \in Nat
    BY DEF TickDown
  <2>2. left' \in [Workers -> Nat]
    BY <1>23, <2>1, Zenon DEF Tick, TypeOK
  <2>3. StoreTypeOK'
    BY <1>8, <1>23, <1>6, Zenon DEF Tick
  <2> QED
    BY <1>23, <2>2, <2>3, Zenon DEF Tick, TypeOK
<1> QED
  BY <1>10, <1>11, <1>12, <1>13, <1>14, <1>15, <1>16, <1>17, <1>18, <1>19, <1>20, <1>21,
     <1>22, <1>23, Zenon
  DEF Next, WorkerStep, Dequeue

\* Spec keeps every variable in its type: documents and copies stay jobs,
\* scores and TTLs stay times, whatever the scripts, workers and faults do.
THEOREM TypeCorrect ==
  Spec => []TypeOK
<1>1. Init => TypeOK /\ CopyOK
  BY TypeInit, Zenon DEF Init, CopyOK, Busy
<1>2. TypeOK /\ CopyOK /\ [Next]_vars => (TypeOK /\ CopyOK)'
  BY TypeStep, Zenon
<1> QED
  BY <1>1, <1>2, PTL DEF Spec

=============================================================================
