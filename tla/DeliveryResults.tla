-------------------------- MODULE DeliveryResults ---------------------------
(***************************************************************************)
(* What Delivery guarantees, for any number of jobs, workers, retries and  *)
(* faults.  No two workers hold one job and the sets agree with the        *)
(* documents; every execution is counted, nothing that may still be tried  *)
(* is lost or dead-lettered, and a fault costs at most one execution; and  *)
(* every job moves along the lifecycle graph.  All this needs that no job  *)
(* may run longer than the pool's lease lasts.  The code does not enforce  *)
(* that, so the theorems carry it as a hypothesis.                         *)
(***************************************************************************)
EXTENDS DeliveryProofs

-----------------------------------------------------------------------------
(* A step of any shape preserves SafeInv.                                  *)

\* A job that was moved into the set of its new state satisfies it.
LEMMA JobMoved ==
  ASSUME NEW k \in Jobs, Placed(k), ttl'[k] # NoTTL => docs'[k].state = "completed"
  PROVE  JobInv(k)'
<1>1. docs'[k].state # "none"
  BY Zenon DEF Placed, Job, JobState
<1> QED
  BY <1>1, Zenon DEF JobInv, Placed, Exists

\* A step that touches jobs B and at most one worker, and keeps their invariants.
LEMMA SafeRest ==
  ASSUME TypeOK, SafeInv, NEW B \in SUBSET Jobs, NEW W \in SUBSET Workers, Touches(B, W),
         \A k \in B : JobInv(k)',
         \A v \in W : WorkerInv(v)' /\ (Busy(v)' => job'[v] \in B),
         \A v, w \in W : v = w
  PROVE  SafeInv'
\* A job that is left alone keeps its invariant.
<1>1. ASSUME NEW k \in Jobs, JobInv(k), Same(k), k \in used' <=> k \in used
      PROVE  JobInv(k)'
  BY <1>1, Zenon DEF JobInv, Same, Exists
\* A worker whose job is left alone keeps its invariant.
<1>2. ASSUME NEW v \in Workers, WorkerInv(v), SameWorker(v), Busy(v) => Same(job[v])
      PROVE  WorkerInv(v)'
  <2> USE <1>2
  <2>1. Held(v) => Busy(v)
    BY Zenon DEF Held, Busy
  <2>2. pc[v] \in {"saved", "running", "killing"} => Busy(v)
    BY Zenon DEF Busy
  <2>3. "active" \in JobState
    BY Zenon DEF JobState
  <2> QED
    BY <2>1, <2>2, <2>3 DEF WorkerInv, SameWorker, Same, Held, Busy
<1>3. \A k \in Jobs : JobInv(k)'
  BY <1>1, Zenon DEF SafeInv, Touches
<1>4. \A v \in Workers : job[v] \in Jobs
  BY Zenon DEF TypeOK
<1>5. \A v \in Workers : WorkerInv(v)'
  BY <1>4, <1>2, Zenon DEF SafeInv, Touches
<1>6. ExclusiveExecution'
  BY DEF SafeInv, ExclusiveExecution, Touches, SameWorker, Busy
<1> QED
  BY <1>3, <1>5, <1>6, Zenon DEF SafeInv

\* A step of nobody in particular.
LEMMA SafeOfNobody ==
  ASSUME TypeOK, SafeInv, NEW B \in SUBSET Jobs, Touches(B, {}), \A k \in B : JobInv(k)'
  PROVE  SafeInv'
  BY SafeRest

\* Every step of Delivery does: one step of the proof per shape.
LEMMA SafeStep ==
  ASSUME TypeOK, SafeInv, TimeoutFitsLease, [Next]_vars
  PROVE  SafeInv'
\* An idle worker has nothing to keep.
<1>1. ASSUME NEW v \in Workers, pc'[v] = "idle"
      PROVE  WorkerInv(v)' /\ ~Busy(v)'
  BY <1>1, Zenon DEF WorkerInv, Held, Busy
\* A step of one worker on one job.
<1>2. ASSUME NEW w \in Workers, NEW j \in Jobs, Touches({j}, {w}), JobInv(j)',
             WorkerInv(w)', Busy(w)' => job'[w] = j
      PROVE  SafeInv'
  BY <1>2, SafeRest
\* dequeue.lua: the claim's lease covers the worker's time.
<1>3. ASSUME NEW w \in Workers, NEW j \in Jobs, Claims(w, j)
      PROVE  SafeInv'
  <2> USE <1>3
  <2>1. JobInv(j)' /\ Touches({j}, {w})
    BY JobMoved, Zenon DEF Claims
  <2>2. Timeout + Grace >= 1 /\ LeaseExpiry >= Timeout + Grace
    BY DeliveryAssumption DEF TimeoutFitsLease, LeaseExpiry
  <2>3. WorkerInv(w)' /\ (Busy(w)' => job'[w] = j)
    BY <2>2, Zenon DEF Claims, WorkerInv, Held, Busy
  <2> QED
    BY <2>1, <2>3, <1>2, Zenon
\* SaveLease and StartHandler: the worker goes on with the job it holds.
<1>4. ASSUME NEW w \in Workers, NEW j \in Jobs, Saves(w, j) \/ Runs(w, j)
      PROVE  SafeInv'
  <2> USE <1>4
  <2>1. /\ Touches({j}, {w}) /\ Held(w) /\ Held(w)' /\ job[w] = j /\ job'[w] = j
        /\ docs'[j] = copy[w] /\ copy'[w] = copy[w] /\ left'[w] = left[w]
        /\ UNCHANGED <<zset, ttl, used>> /\ pc'[w] # "killing"
    BY DEF Saves, Runs, Held, SafeInv, WorkerInv
  <2>2. docs[j].state = "active" /\ copy[w].state = "active" /\ WorkerInv(w) /\ JobInv(j)
    BY <2>1, Zenon DEF SafeInv, WorkerInv, Held, Busy
  <2>3. JobInv(j)'
    BY <2>1, <2>2, Zenon DEF JobInv, Exists
  <2>4. WorkerInv(w)'
    BY <2>1, <2>2, Zenon DEF WorkerInv, Held
  <2> QED
    BY <2>1, <2>3, <2>4, <1>2, Zenon
\* Reports and deaths: the worker lets go of its job.
<1>5. ASSUME NEW w \in Workers, NEW j \in Jobs, Reports(w, j) \/ Drops(w, j)
      PROVE  SafeInv'
  <2> USE <1>5
  <2>1. Touches({j}, {w}) /\ pc'[w] = "idle"
    BY Zenon DEF Reports, Drops
  <2>2. JobInv(j)'
    <3>1. CASE Reports(w, j)
      BY <3>1, JobMoved, Zenon DEF Reports
    <3>2. CASE Drops(w, j)
      BY <3>2, Zenon DEF Drops, SafeInv, JobInv, Exists
    <3> QED
      BY <3>1, <3>2, Zenon
  <2> QED
    BY <2>1, <2>2, <1>1, <1>2, Zenon
\* The first call of JobBroker.Kill.
<1>6. ASSUME NEW w \in Workers, NEW j \in Jobs, Clears(w, j)
      PROVE  SafeInv'
  <2> USE <1>6
  <2>1. JobInv(j)'
    BY Zenon DEF Clears, SafeInv, JobInv, Exists
  <2>2. docs[j].state = "active"
    BY DEF Clears, Held, Busy, SafeInv, WorkerInv
  <2>3. WorkerInv(w)'
    BY <2>2, Zenon DEF Clears, WorkerInv, Held
  <2> QED
    BY <2>1, <2>3, <1>2, Zenon DEF Clears
\* Enqueue and the sweeps: nobody holds the jobs they touch.
<1>7. ASSUME NEW B \in SUBSET Jobs,
             Returns(B) \/ Forgets(B) \/ \E j \in Jobs : Adds(j) /\ B = {j}
      PROVE  SafeInv'
  <2> USE <1>7
  <2>1. Touches(B, {})
    BY Zenon DEF Returns, Forgets, Adds
  <2>2. ASSUME NEW k \in B
        PROVE  JobInv(k)'
    <3>1. CASE Placed(k) /\ ttl'[k] = NoTTL
      BY <3>1, JobMoved, Zenon
    <3>2. CASE Forgets(B)
      BY <3>2 DEF Forgets, JobInv, Exists, NoDoc
    <3> QED
      BY <3>1, <3>2, Zenon DEF Returns, Adds
  <2> QED
    BY <2>1, <2>2, SafeOfNobody, Zenon
\* Time.
<1>8. ASSUME Ages
      PROVE  SafeInv'
  <2> USE <1>8
  <2>1. \A k \in Jobs : JobInv(k)'
    BY DEF Ages, SafeInv, JobInv, Exists, NoDoc
  <2>2. ASSUME NEW w \in Workers
        PROVE  WorkerInv(w)'
    <3>1. /\ UNCHANGED <<pc, job, copy>> /\ WorkerInv(w) /\ job[w] \in Jobs
          /\ Held(w) => left'[w] >= 1 /\ zset'["active"][job[w]] >= left'[w]
      BY Zenon DEF Ages, SafeInv, TypeOK
    <3>2. Busy(w) => docs'[job[w]] = docs[job[w]]
      BY <3>1, Zenon DEF Ages, WorkerInv
    <3>3. \A s \in JobState : zset[s][job[w]] = Absent => zset'[s][job[w]] = Absent
      BY <3>1, Zenon DEF Ages
    <3> QED
      BY <3>1, <3>2, <3>3, Zenon DEF WorkerInv, Held, Busy
  <2>3. ExclusiveExecution'
    BY Zenon DEF Ages, SafeInv, ExclusiveExecution, Busy
  <2> QED
    BY <2>1, <2>2, <2>3, Zenon DEF SafeInv
<1>9. CASE \E j \in Jobs : Adds(j)
  BY <1>9, <1>7, Zenon
<1> QED
  BY <1>9, Shapes, <1>3, <1>4, <1>5, <1>6, <1>7, <1>8, Zenon
  DEF Shaped

-----------------------------------------------------------------------------
(* The safety theorems.                                                    *)

\* The initial state satisfies the invariant.
LEMMA SafeInit == Init => SafeInv
<1> SUFFICES ASSUME Init PROVE SafeInv
  OBVIOUS
<1>1. \A w \in Workers : pc[w] = "idle"
  BY Zenon DEF Init
<1>2. ExclusiveExecution
  BY <1>1, Zenon DEF ExclusiveExecution, Busy
<1>3. \A j \in Jobs : JobInv(j)
  BY Zenon DEF Init, StoreInit, JobInv, Exists, NoDoc
<1>4. \A w \in Workers : WorkerInv(w)
  BY <1>1, Zenon DEF WorkerInv, Busy, Held
<1> QED
  BY <1>2, <1>3, <1>4, Zenon DEF SafeInv

\* SafeInv is an invariant when no job may outlast the lease.
THEOREM Safety ==
  ASSUME TimeoutFitsLease
  PROVE  Spec => []SafeInv
<1>1. Init => SafeInv
  BY SafeInit, Zenon
<1>2. TypeOK /\ SafeInv /\ [Next]_vars => SafeInv'
  BY SafeStep, Zenon
<1> QED
  BY <1>1, <1>2, TypeCorrect, PTL DEF Spec

\* However many workers compete and die, no two ever hold one job
\* (dequeue.lua, reclaim.lua), if timeouts stay within LeaseDuration.
THEOREM ExclusiveClaims ==
  ASSUME TimeoutFitsLease
  PROVE  Spec => []ExclusiveExecution
<1>1. SafeInv => ExclusiveExecution
  BY Zenon DEF SafeInv
<1> QED
  BY <1>1, Safety, PTL

\* The sorted sets and the documents never disagree (the scripts of
\* infrastructure/persistence/redis/script), if timeouts stay within LeaseDuration.
THEOREM SetsAgree ==
  ASSUME TimeoutFitsLease
  PROVE  Spec => []SetMatchesState
<1>1. SafeInv => SetMatchesState
  BY Zenon DEF SafeInv, JobInv, SetMatchesState, Members
<1> QED
  BY <1>1, Safety, PTL

\* A live worker's lease never lapses before its report (Job.Lease), if
\* timeouts stay within LeaseDuration.
THEOREM LeaseKept ==
  ASSUME TimeoutFitsLease
  PROVE  Spec => []HandlerKeepsLease
<1>1. TypeOK /\ SafeInv => HandlerKeepsLease
  <2> SUFFICES ASSUME TypeOK, SafeInv, NEW w \in Workers, Held(w)
               PROVE  zset["active"][job[w]] > 0
    BY Zenon DEF HandlerKeepsLease, Held
  <2>1. left[w] \in Nat /\ zset["active"][job[w]] \in Nat \cup {-1}
    BY Zenon DEF TypeOK, StoreTypeOK, JobState, Absent
  <2>2. left[w] >= 1 /\ zset["active"][job[w]] >= left[w]
    BY Zenon DEF SafeInv, WorkerInv
  <2> QED
    BY <2>1, <2>2
<1> QED
  BY <1>1, TypeCorrect, Safety, PTL

\* While a handler runs, the document names its worker and nothing overwrites
\* it (JobProcessorService.Process), if timeouts stay within LeaseDuration.
THEOREM RunnerRecorded ==
  ASSUME TimeoutFitsLease
  PROVE  Spec => []RunnerIsRecorded
<1>1. SafeInv => RunnerIsRecorded
  BY DEF SafeInv, WorkerInv, RunnerIsRecorded, Held
<1> QED
  BY <1>1, Safety, PTL

-----------------------------------------------------------------------------
(* The budget of a job, an inductive invariant.                            *)

\* Nobody has job j, so a claim or a sweep may hand it out again.
Free(j) ==
  \/ docs[j].state \in {"pending", "scheduled", "retrying"}
  \/ docs[j].state = "active" /\ \A w \in Workers : Busy(w) => job[w] # j

\* What was spent on job j: g[j] executions and p[j] faults are written off, as
\* they are when an operator retries the job.  A free job has an attempt left,
\* or a fault pays for the next one.
JobBudget(j, g, p) ==
  /\ p[j] <= faults
  /\ j \notin used => runs[j] <= g[j]
  /\ runs[j] + p[j] <= g[j] + MaxRetries + 1 + faults
  /\ Exists(j) => /\ runs[j] <= g[j] + docs[j].attemptsMade
                  /\ docs[j].attemptsMade + p[j] <= MaxRetries + 1 + faults
  /\ Free(j) => docs[j].attemptsMade + p[j] <= MaxRetries + faults
  /\ docs[j].state = "dead" => Hopeless(j)
  /\ Exists(j) /\ (\A s \in JobState : zset[s][j] = Absent)
       => docs[j].state = "active" /\ Hopeless(j)

\* A claimed attempt is not yet run, and a job is killed for a reason.
WorkerBudget(w, g, p) ==
  /\ pc[w] \in {"leased", "saved"} =>
       /\ runs[job[w]] < g[job[w]] + copy[w].attemptsMade
       /\ copy[w].attemptsMade + p[job[w]] <= MaxRetries + 1 + faults
  /\ pc[w] = "killing" => /\ copy[w].attemptsMade = docs[job[w]].attemptsMade
                          /\ Hopeless(job[w])

BudgetInv(g, p) ==
  /\ \A j \in Jobs : JobBudget(j, g, p)
  /\ \A w \in Workers : WorkerBudget(w, g, p)

\* Nothing is written off.
Nothing == [j \in Jobs |-> 0]

-----------------------------------------------------------------------------
(* A step of any shape preserves BudgetInv.                                *)

\* The numbers the budget is counted in.
LEMMA Counts ==
  ASSUME TypeOK
  PROVE  /\ MaxRetries \in Nat /\ faults \in Nat
         /\ \A j \in Jobs : runs[j] \in Nat /\ docs[j].attemptsMade \in Nat
  BY MaxRetriesAssumption, DeliveryAssumption DEF TypeOK, StoreTypeOK, Job, NoDoc

\* A step that touches the jobs in B and the workers in W.
LEMMA BudgetRest ==
  ASSUME NEW g \in [Jobs -> Nat], NEW p \in [Jobs -> Nat],
         TypeOK, faults' \in Nat, faults' >= faults,
         NEW B \in SUBSET Jobs, NEW W \in SUBSET Workers, Touches(B, W),
         \A k \in Jobs \ B : JobBudget(k, g, p),
         \A v \in Workers \ W : WorkerBudget(v, g, p),
         \A k \in B : JobBudget(k, g, p)',
         \A v \in W : WorkerBudget(v, g, p)'
  PROVE  BudgetInv(g, p)'
<1>0. /\ MaxRetries \in Nat /\ faults \in Nat
      /\ \A j \in Jobs : runs[j] \in Nat /\ docs[j].attemptsMade \in Nat
  BY Counts, Zenon
<1>1. ASSUME NEW k \in Jobs \ B PROVE JobBudget(k, g, p)'
  <2>1. JobBudget(k, g, p) /\ Same(k) /\ runs'[k] = runs[k] /\ (k \in used' <=> k \in used)
    BY Zenon DEF Touches
  <2>2. Free(k)' => Free(k)
    <3> SUFFICES ASSUME docs[k].state = "active", \A v \in Workers : Busy(v)' => job'[v] # k,
                        NEW v \in Workers, Busy(v)
                 PROVE  job[v] # k
      BY <2>1, Zenon DEF Free, Same
    <3> QED
      BY Zenon DEF Touches, SameWorker, Busy
  <2>3. (Exists(k) <=> Exists(k)') /\ (Hopeless(k) <=> Hopeless(k)')
    BY <2>1, Zenon DEF Same, Exists, Hopeless
  <2> QED
    BY <1>0, <2>1, <2>2, <2>3 DEF JobBudget, Same
<1>2. ASSUME NEW v \in Workers \ W PROVE WorkerBudget(v, g, p)'
  <2>1. WorkerBudget(v, g, p) /\ SameWorker(v) /\ job[v] \in Jobs
    BY Zenon DEF TypeOK, Touches
  <2>2. Busy(v) => Same(job[v]) /\ runs'[job[v]] = runs[job[v]]
    BY <2>1, Zenon DEF Touches
  <2>3. pc[v] \in {"leased", "saved"} => Busy(v) /\ copy[v].attemptsMade \in Nat
    BY DEF Busy, TypeOK, Job, NoDoc
  <2>4. pc[v] = "killing" => Busy(v)
    BY Zenon DEF Busy
  <2> QED
    BY <1>0, <2>1, <2>2, <2>3, <2>4 DEF WorkerBudget, SameWorker, Same, Hopeless
<1> QED
  BY <1>1, <1>2, Zenon DEF BudgetInv

\* A job put into the set of its new state.
LEMMA BudgetMoved ==
  ASSUME NEW g \in [Jobs -> Nat], NEW p \in [Jobs -> Nat], NEW k \in Jobs, Placed(k),
         p[k] <= faults',
         runs'[k] + p[k] <= g[k] + MaxRetries + 1 + faults',
         runs'[k] <= g[k] + docs'[k].attemptsMade,
         docs'[k].attemptsMade + p[k] <= MaxRetries + 1 + faults',
         Free(k)' => docs'[k].attemptsMade + p[k] <= MaxRetries + faults',
         docs'[k].state = "dead" => Hopeless(k)'
  PROVE  JobBudget(k, g, p)'
<1>1. docs'[k].state \in JobState
  BY Zenon DEF Placed, Job
<1>2. k \in used' /\ zset'[docs'[k].state][k] # Absent
  BY <1>1 DEF Placed, Absent
<1> QED
  BY <1>1, <1>2, Zenon DEF JobBudget

-----------------------------------------------------------------------------
(* The budget theorems.                                                    *)

\* Writing nothing off is a way of writing off.
LEMMA NothingType == Nothing \in [Jobs -> Nat] /\ \A j \in Jobs : Nothing[j] = 0
  BY Zenon DEF Nothing

\* At first nothing is spent.
LEMMA BudgetInit == Init => BudgetInv(Nothing, Nothing)
<1> SUFFICES ASSUME Init PROVE BudgetInv(Nothing, Nothing)
  OBVIOUS
<1>1. MaxRetries \in Nat /\ faults = 0 /\ \A w \in Workers : pc[w] = "idle"
  BY MaxRetriesAssumption, Zenon DEF Init
<1>2. \A j \in Jobs : docs[j].state = "none" /\ runs[j] = 0
  BY Zenon DEF Init, StoreInit, NoDoc
<1>3. \A j \in Jobs : JobBudget(j, Nothing, Nothing)
  BY <1>1, <1>2 DEF JobBudget, Exists, Free, Nothing
<1>4. \A w \in Workers : WorkerBudget(w, Nothing, Nothing)
  BY <1>1, Zenon DEF WorkerBudget
<1> QED
  BY <1>3, <1>4, Zenon DEF BudgetInv

\* Every step of Delivery preserves BudgetInv: one step of the proof per shape.
LEMMA BudgetStep ==
  ASSUME NEW g \in [Jobs -> Nat], NEW p \in [Jobs -> Nat],
         TypeOK, SafeInv, BudgetInv(g, p), [Next]_vars
  PROVE  BudgetInv(g, p)'
\* A step of one worker on one job.
<1>1. ASSUME faults' \in {faults, faults + 1}, NEW w \in Workers,
             NEW j \in Jobs, Touches({j}, {w}), JobBudget(j, g, p)', WorkerBudget(w, g, p)'
      PROVE  BudgetInv(g, p)'
  <2> USE <1>1
  <2>1. faults' \in Nat /\ faults' >= faults
    BY Counts
  <2> QED
    BY <2>1, BudgetRest DEF BudgetInv
\* A step of nobody in particular.
<1>2. ASSUME faults' = faults, NEW B \in SUBSET Jobs, Touches(B, {}),
             \A k \in B : JobBudget(k, g, p)'
      PROVE  BudgetInv(g, p)'
  <2> USE <1>2
  <2>1. faults' \in Nat /\ faults' >= faults
    BY Counts
  <2> QED
    BY <2>1, BudgetRest DEF BudgetInv
\* A move that keeps the count: it frees only a job that was free or has
\* retries left, and a death is earned.
<1>3. ASSUME faults' \in {faults, faults + 1}, NEW k \in Jobs, Placed(k),
             runs'[k] = runs[k], Exists(k), docs'[k].attemptsMade = docs[k].attemptsMade,
             Free(k)' => Free(k) \/ docs[k].attemptsMade <= MaxRetries,
             docs'[k].state = "dead" => Hopeless(k)
      PROVE  JobBudget(k, g, p)'
  <2> USE <1>3
  <2>1. /\ MaxRetries \in Nat /\ faults \in Nat /\ runs[k] \in Nat /\ docs[k].attemptsMade \in Nat
        /\ g[k] \in Nat /\ p[k] \in Nat /\ JobBudget(k, g, p)
    BY Counts, Zenon DEF BudgetInv
  <2>2. /\ p[k] <= faults'
        /\ runs'[k] + p[k] <= g[k] + MaxRetries + 1 + faults'
        /\ runs'[k] <= g[k] + docs'[k].attemptsMade
        /\ docs'[k].attemptsMade + p[k] <= MaxRetries + 1 + faults'
        /\ Free(k)' => docs'[k].attemptsMade + p[k] <= MaxRetries + faults'
    BY <2>1 DEF JobBudget
  <2>3. docs'[k].state = "dead" => Hopeless(k)'
    BY Zenon DEF Hopeless
  <2> QED
    BY <2>2, <2>3, BudgetMoved, Zenon
\* A new job has spent nothing.
<1>4. ASSUME NEW j \in Jobs, Adds(j)
      PROVE  BudgetInv(g, p)'
  <2> USE <1>4
  <2>1. /\ Placed(j) /\ Touches({j}, {}) /\ runs' = runs /\ faults' = faults
        /\ docs'[j].attemptsMade = 0 /\ docs'[j].state # "dead"
    BY Zenon DEF Adds
  <2>2. /\ MaxRetries \in Nat /\ faults \in Nat /\ runs[j] \in Nat /\ g[j] \in Nat /\ p[j] \in Nat
        /\ runs[j] <= g[j] /\ p[j] <= faults
    BY Counts, Zenon DEF Adds, BudgetInv, JobBudget
  <2>3. /\ p[j] <= faults'
        /\ runs'[j] + p[j] <= g[j] + MaxRetries + 1 + faults'
        /\ runs'[j] <= g[j] + docs'[j].attemptsMade
        /\ docs'[j].attemptsMade + p[j] <= MaxRetries + 1 + faults'
        /\ docs'[j].attemptsMade + p[j] <= MaxRetries + faults'
    BY <2>1, <2>2
  <2>4. JobBudget(j, g, p)'
    BY <2>1, <2>3, BudgetMoved, Zenon
  <2> QED
    BY <2>1, <2>4, <1>2
\* A claim counts the attempt in the worker's copy.
<1>5. ASSUME NEW w \in Workers, NEW j \in Jobs, Claims(w, j)
      PROVE  BudgetInv(g, p)'
  <2> USE <1>5
  <2>1. /\ Placed(j) /\ Touches({j}, {w}) /\ runs' = runs /\ faults' \in {faults, faults + 1}
        /\ Exists(j) /\ Free(j) /\ docs'[j].state = "active"
        /\ docs'[j].attemptsMade = docs[j].attemptsMade
        /\ pc'[w] \in {"leased", "saved", "killing"} =>
             /\ pc'[w] = "leased" /\ job'[w] = j
             /\ copy'[w].attemptsMade = docs[j].attemptsMade + 1
    BY Zenon DEF Claims, Exists, Free
  <2>2. JobBudget(j, g, p)'
    BY <2>1, <1>3, Zenon
  <2>3. /\ MaxRetries \in Nat /\ faults \in Nat /\ runs[j] \in Nat /\ docs[j].attemptsMade \in Nat
        /\ g[j] \in Nat /\ p[j] \in Nat /\ JobBudget(j, g, p)
    BY Counts, Zenon DEF BudgetInv
  <2>4. /\ runs[j] < g[j] + (docs[j].attemptsMade + 1)
        /\ docs[j].attemptsMade + 1 + p[j] <= MaxRetries + 1 + faults'
    BY <2>1, <2>3 DEF JobBudget
  <2>5. WorkerBudget(w, g, p)'
    BY <2>1, <2>4, Zenon DEF WorkerBudget
  <2> QED
    BY <2>1, <2>2, <2>5, <1>1, Zenon
\* Saving the lease makes the count durable; the handler starts on an attempt
\* that was saved.
<1>6. ASSUME NEW w \in Workers, NEW j \in Jobs, Saves(w, j) \/ Runs(w, j)
      PROVE  BudgetInv(g, p)'
  <2> USE <1>6
  <2>1. /\ Touches({j}, {w}) /\ pc[w] \in {"leased", "saved"} /\ job[w] = j
        /\ docs'[j] = copy[w] /\ zset' = zset /\ used' = used /\ faults' = faults
        /\ pc'[w] \in {"saved", "running"} /\ job'[w] = j /\ copy'[w] = copy[w]
        /\ \/ runs'[j] = runs[j] /\ pc'[w] = "saved"
           \/ runs'[j] = runs[j] + 1 /\ pc'[w] = "running"
    BY DEF Saves, Runs, SafeInv, WorkerInv
  <2>2. /\ copy[w] \in Job(Workers) /\ copy[w].state = "active" /\ j \in used
        /\ left[w] >= 1 /\ zset["active"][j] >= left[w]
    BY <2>1, HeldAlone DEF Alone, SafeInv, WorkerInv, Held, Busy
  <2>3. /\ MaxRetries \in Nat /\ faults \in Nat /\ runs[j] \in Nat /\ copy[w].attemptsMade \in Nat
        /\ left[w] \in Nat /\ zset["active"][j] \in Nat \cup {Absent}
    BY <2>2, Counts, Zenon DEF Job, TypeOK, StoreTypeOK, JobState
  <2>4. /\ runs[j] < g[j] + copy[w].attemptsMade /\ copy[w].attemptsMade + p[j] <= MaxRetries + 1 + faults
        /\ p[j] <= faults /\ g[j] \in Nat /\ p[j] \in Nat
    BY <2>1, Zenon DEF BudgetInv, WorkerBudget, JobBudget
  <2>5. JobBudget(j, g, p)'
    <3>1. zset'["active"][j] # Absent /\ "active" \in JobState /\ ~Free(j)'
      BY <2>1, <2>2, <2>3 DEF Absent, JobState, Free, Busy
    <3> QED
      BY <2>1, <2>2, <2>3, <2>4, <3>1 DEF JobBudget
  <2>6. WorkerBudget(w, g, p)'
    BY <2>1, <2>4, Zenon DEF WorkerBudget
  <2> QED
    BY <2>1, <2>5, <2>6, <1>1, Zenon
\* A report keeps the count: a retry is within the budget, a death earned.
<1>7. ASSUME NEW w \in Workers, NEW j \in Jobs, Reports(w, j)
      PROVE  BudgetInv(g, p)'
  <2> USE <1>7
  <2>1. /\ Placed(j) /\ Touches({j}, {w}) /\ UNCHANGED <<runs, faults>> /\ pc'[w] = "idle"
        /\ Exists(j)
    BY HeldAlone, Zenon DEF Alone, Reports
  <2>2. /\ docs'[j].attemptsMade = docs[j].attemptsMade
        /\ docs'[j].state = "dead" => Hopeless(j)
        /\ Free(j)' => docs[j].attemptsMade <= MaxRetries
    BY Zenon DEF Reports, BudgetInv, WorkerBudget, Free
  <2>3. JobBudget(j, g, p)'
    BY <2>1, <2>2, <1>3, Zenon
  <2>4. WorkerBudget(w, g, p)'
    BY <2>1, Zenon DEF WorkerBudget
  <2> QED
    BY <2>1, <2>3, <2>4, <1>1, Zenon
\* The first call of Kill takes out of every set only what is hopeless; a
\* worker that lets go of its job pays for the next claim with a fault.
<1>8. ASSUME NEW w \in Workers, NEW j \in Jobs, Clears(w, j) \/ Drops(w, j)
      PROVE  BudgetInv(g, p)'
  <2> USE <1>8
  <2>1. /\ Touches({j}, {w}) /\ UNCHANGED <<docs, used, runs>> /\ Busy(w) /\ job[w] = j
        /\ \/ /\ faults' = faults /\ Hopeless(j) /\ pc'[w] = "killing" /\ job'[w] = j
              /\ copy'[w].attemptsMade = docs[j].attemptsMade
           \/ faults' = faults + 1 /\ zset' = zset /\ pc'[w] = "idle"
    BY Zenon DEF Clears, Drops, Held, Busy
  <2>2. docs[j].state = "active" /\ j \in used /\ Exists(j)
    BY <2>1, HeldAlone, Zenon DEF Alone
  <2>3. /\ MaxRetries \in Nat /\ faults \in Nat /\ runs[j] \in Nat /\ docs[j].attemptsMade \in Nat
        /\ g[j] \in Nat /\ p[j] \in Nat /\ JobBudget(j, g, p)
    BY Counts, Zenon DEF BudgetInv
  <2>4. /\ Exists(j)' /\ (Hopeless(j) <=> Hopeless(j)')
        /\ Free(j)' => faults' = faults + 1
    BY <2>1, <2>2, Zenon DEF Exists, Hopeless, Free, Busy
  <2>5. JobBudget(j, g, p)'
    BY <2>1, <2>2, <2>3, <2>4 DEF JobBudget
  <2>6. WorkerBudget(w, g, p)'
    BY <2>1, Zenon DEF WorkerBudget, Hopeless
  <2> QED
    BY <2>1, <2>5, <2>6, <1>1, Zenon
\* A sweep returns only jobs that nobody holds, with their count, and forgets
\* what was spent on completed ones.
<1>9. ASSUME NEW B \in SUBSET Jobs, Returns(B) \/ Forgets(B)
      PROVE  BudgetInv(g, p)'
  <2> USE <1>9
  <2>1. Touches(B, {}) /\ UNCHANGED <<used, runs, faults>>
    BY Zenon DEF Returns, Forgets
  <2>2. ASSUME NEW k \in B PROVE JobBudget(k, g, p)'
    <3>1. CASE Returns(B)
      <4>1. /\ Placed(k) /\ Exists(k) /\ Free(k) /\ docs'[k].state = "pending"
            /\ docs'[k].attemptsMade = docs[k].attemptsMade
        BY <3>1, Zenon DEF Returns, Touches, Exists, Free
      <4> QED
        BY <2>1, <4>1, <1>3, Zenon
    <3>2. CASE Forgets(B)
      <4>1. docs'[k].state = "none" /\ JobBudget(k, g, p)
        BY <3>2 DEF Forgets, NoDoc, BudgetInv
      <4> QED
        BY <2>1, <4>1, Zenon DEF JobBudget, Exists, Free
    <3> QED
      BY <3>1, <3>2, Zenon
  <2> QED
    BY <2>1, <2>2, <1>2, Zenon
\* Time spends nothing.
<1>10. ASSUME Ages
       PROVE  BudgetInv(g, p)'
  <2> USE <1>10
  <2>1. UNCHANGED <<used, pc, job, copy, runs, faults>>
    BY Zenon DEF Ages
  <2>2. ASSUME NEW k \in Jobs PROVE JobBudget(k, g, p)'
    <3>1. JobBudget(k, g, p)
      BY Zenon DEF BudgetInv
    <3>2. CASE docs'[k] = docs[k]
      <4>1. /\ (Exists(k) <=> Exists(k)') /\ (Hopeless(k) <=> Hopeless(k)') /\ (Free(k) <=> Free(k)')
            /\ \A s \in JobState : zset'[s][k] = Absent <=> zset[s][k] = Absent
        BY <2>1, <3>2, Zenon DEF Ages, Exists, Hopeless, Free, Busy
      <4> QED
        BY <2>1, <3>1, <3>2, <4>1, Zenon DEF JobBudget
    <3>3. CASE docs'[k] = NoDoc
      <4>1. docs'[k].state = "none"
        BY <3>3 DEF NoDoc
      <4> QED
        BY <2>1, <3>1, <4>1, Zenon DEF JobBudget, Exists, Free
    <3> QED
      BY <3>2, <3>3, Zenon DEF Ages
  <2>3. ASSUME NEW w \in Workers PROVE WorkerBudget(w, g, p)'
    <3>1. WorkerBudget(w, g, p) /\ job[w] \in Jobs
      BY Zenon DEF BudgetInv, TypeOK
    <3>2. pc[w] = "killing" => docs'[job[w]] = docs[job[w]]
      BY <3>1 DEF Ages, SafeInv, WorkerInv, Busy
    <3> QED
      BY <2>1, <3>1, <3>2, Zenon DEF WorkerBudget, Hopeless
  <2> QED
    BY <2>2, <2>3, Zenon DEF BudgetInv
<1> QED
  BY Shapes, <1>4, <1>5, <1>6, <1>7, <1>8, <1>9,
     <1>10, Zenon DEF Shaped

\* BudgetInv is an invariant when no job may outlast the lease.
THEOREM Budget ==
  ASSUME TimeoutFitsLease
  PROVE  Spec => []BudgetInv(Nothing, Nothing)
<1>1. Init => BudgetInv(Nothing, Nothing)
  BY BudgetInit, Zenon
<1>2. TypeOK /\ SafeInv /\ BudgetInv(Nothing, Nothing) /\ [Next]_vars => BudgetInv(Nothing, Nothing)'
  BY BudgetStep, NothingType, Zenon
<1> QED
  BY <1>1, <1>2, TypeCorrect, Safety, PTL DEF Spec

\* Wherever workers die, the document counts every start of a handler (Save
\* before the handler, and no script resets the count), if timeouts stay
\* within LeaseDuration.
THEOREM RunsCounted ==
  ASSUME TimeoutFitsLease
  PROVE  Spec => []EveryRunCounted
<1>1. TypeOK /\ BudgetInv(Nothing, Nothing) => EveryRunCounted
  BY NothingType, Counts DEF BudgetInv, JobBudget, EveryRunCounted
<1> QED
  BY <1>1, Budget, TypeCorrect, PTL

\* A job is executed at most MaxRetries + 1 times and once more per fault
\* (Fail, reclaim.lua), if timeouts stay within LeaseDuration.
THEOREM RunsBounded ==
  ASSUME TimeoutFitsLease
  PROVE  Spec => []BoundedRuns
<1>1. TypeOK /\ BudgetInv(Nothing, Nothing) => BoundedRuns
  BY NothingType, Counts DEF BudgetInv, JobBudget, BoundedRuns
<1> QED
  BY <1>1, Budget, TypeCorrect, PTL

\* Dead letters have used up their retries or have no handler
\* (JobProcessorService.fail and kill), if timeouts stay within LeaseDuration.
THEOREM DeathsEarned ==
  ASSUME TimeoutFitsLease
  PROVE  Spec => []DeadIsEarned
<1>1. BudgetInv(Nothing, Nothing) => DeadIsEarned
  BY Zenon DEF BudgetInv, JobBudget, DeadIsEarned
<1> QED
  BY <1>1, Budget, PTL

\* Only JobBroker.Kill leaves a job in no set, and only one that would not
\* have been tried again, if timeouts stay within LeaseDuration.
THEOREM RetryableKept ==
  ASSUME TimeoutFitsLease
  PROVE  Spec => []NothingRetryableLost
<1>1. BudgetInv(Nothing, Nothing) => NothingRetryableLost
  BY Zenon DEF BudgetInv, JobBudget, NothingRetryableLost, Members
<1> QED
  BY <1>1, Budget, PTL

-----------------------------------------------------------------------------
(* Every step moves every job along the lifecycle graph.                   *)

\* How a step may change the life of job k.
LifeStep(k) ==
  \/ docs'[k].state = docs[k].state /\ (k \in used' <=> k \in used)
  \/ k \notin used /\ docs'[k].state \in {"pending", "scheduled"}
  \/ docs[k].state \in JobState /\ docs'[k].state \in allowedTransitions[docs[k].state]
  \/ docs[k].state = "completed" /\ docs'[k].state = "none" /\ k \in used'

\* So do the sweeps and time.
LEMMA LifeOfAll ==
  ASSUME TypeOK, SafeInv, [Next]_vars
  PROVE  \A k \in Jobs : LifeStep(k)
\* A job that is left alone lives on.
<1>1. ASSUME NEW B, NEW W, Touches(B, W), \A k \in B : LifeStep(k)
      PROVE  \A k \in Jobs : LifeStep(k)
  BY <1>1, Zenon DEF Touches, Same, LifeStep
\* The edges the scripts take.
<1>2. /\ {"pending", "active", "scheduled", "retrying"} \subseteq JobState
      /\ "active" \in allowedTransitions["pending"]
      /\ {"completed", "retrying", "dead", "pending"} \subseteq allowedTransitions["active"]
      /\ "pending" \in allowedTransitions["scheduled"]
      /\ "pending" \in allowedTransitions["retrying"]
  BY Zenon DEF allowedTransitions, JobState
\* A claim and a report take the job along one of them,
<1>3. ASSUME NEW w \in Workers, NEW j \in Jobs, Claims(w, j) \/ Reports(w, j)
      PROVE  \A k \in Jobs : LifeStep(k)
  <2> USE <1>3
  <2>1. /\ Touches({j}, {w})
        /\ \/ docs[j].state = "pending" /\ docs'[j].state = "active"
           \/ docs[j].state = "active" /\ docs'[j].state \in {"completed", "retrying", "dead"}
    BY HeldAlone, Zenon DEF Alone, Claims, Reports
  <2>2. LifeStep(j)
    BY <2>1, <1>2, Zenon DEF LifeStep
  <2> QED
    BY <2>1, <2>2, <1>1
\* and a worker's other steps leave its state alone.
<1>4. ASSUME NEW w \in Workers, NEW j \in Jobs,
             \/ Saves(w, j) \/ Runs(w, j)
         \/ Clears(w, j) \/ Drops(w, j)
      PROVE  \A k \in Jobs : LifeStep(k)
  <2> USE <1>4
  <2>1. /\ Touches({j}, {w}) /\ used' = used
        /\ docs'[j] = docs[j] \/ Saves(w, j)
    BY Zenon DEF Saves, Runs, Clears, Drops
  <2>2. Saves(w, j) => docs[j].state = "active" /\ docs'[j].state = "active"
    BY Zenon DEF Saves, SafeInv, WorkerInv, Held, Busy
  <2>3. LifeStep(j)
    BY <2>1, <2>2, Zenon DEF LifeStep
  <2> QED
    BY <2>1, <2>3, <1>1
<1>5. (\A k \in Jobs : docs[k].state = "completed" => k \in used) /\ NoDoc.state = "none"
  BY Zenon DEF SafeInv, JobInv, Exists, NoDoc
<1>6. CASE \E j \in Jobs : Adds(j)
  BY <1>6, <1>1 DEF Adds, LifeStep
<1>7. ASSUME NEW B \in SUBSET Jobs, Returns(B)
      PROVE  \A k \in Jobs : LifeStep(k)
  <2>1. \A k \in B : LifeStep(k)
    BY <1>7, <1>2, Zenon DEF Returns, LifeStep
  <2> QED
    BY <1>7, <2>1, <1>1, Zenon DEF Returns
<1>8. ASSUME NEW B \in SUBSET Jobs, Forgets(B)
      PROVE  \A k \in Jobs : LifeStep(k)
  <2>1. \A k \in B : LifeStep(k)
    BY <1>5, <1>8, Zenon DEF Forgets, LifeStep
  <2> QED
    BY <1>8, <2>1, <1>1, Zenon DEF Forgets
<1>9. CASE Ages
  BY <1>5, <1>9, Zenon DEF Ages, LifeStep
<1> QED
  BY <1>6, <1>7, <1>8, <1>9, Shapes, <1>3, <1>4, Zenon DEF Shaped

\* A step of Delivery is a step of JobLifecycle.
LEMMA LifeNext ==
  ASSUME TypeOK, TypeOK', SafeInv, SafeInv', [Next]_vars
  PROVE  LC!Next
<1>1. /\ \A k \in Jobs : Life[k] = IF Exists(k) THEN docs[k].state
                                    ELSE IF k \in used THEN "gone" ELSE "unborn"
      /\ \A k \in Jobs : Life'[k] = IF Exists(k)' THEN docs'[k].state
                                     ELSE IF k \in used' THEN "gone" ELSE "unborn"
  BY Zenon DEF Life
<1>2. \A k \in Jobs : /\ Exists(k) => docs[k].state \in JobState
                      /\ Exists(k)' => docs'[k].state \in JobState
  BY DEF TypeOK, StoreTypeOK, Exists, Job, NoDoc
<1>3. LC!JobState = JobState
  BY Zenon DEF LC!JobState, JobState
<1>4. Life' \in [Jobs -> LC!JobState \cup {"unborn", "gone"}]
  BY <1>2, <1>3, Zenon DEF Life
<1>5. ASSUME NEW k \in Jobs PROVE LC!MayBecome(Life[k], Life'[k])
  <2>1. LifeStep(k)
    BY LifeOfAll, Zenon
  <2>2. JobInv(k) /\ JobInv(k)'
    BY Zenon DEF SafeInv
  <2>3. CASE docs'[k].state = docs[k].state /\ (k \in used' <=> k \in used)
    BY <1>1, <2>3, Zenon DEF Exists, LC!MayBecome
  <2>4. CASE k \notin used /\ docs'[k].state \in {"pending", "scheduled"}
    BY <1>1, <2>2, <2>4, Zenon DEF Exists, JobInv, LC!MayBecome
  <2>5. CASE docs[k].state \in JobState /\ docs'[k].state \in allowedTransitions[docs[k].state]
    <3>1. docs'[k].state \in JobState
      BY <2>5 DEF JobState, allowedTransitions
    <3>2. Life[k] = docs[k].state /\ Life'[k] = docs'[k].state
      BY <1>1, <2>5, <3>1, Zenon DEF Exists, JobState
    <3>3. LC!CanTransitionTo(docs[k].state, docs'[k].state)
      BY <2>5, Zenon DEF LC!CanTransitionTo, LC!allowedTransitions, allowedTransitions
    <3> QED
      BY <1>3, <2>5, <3>1, <3>2, <3>3, Zenon DEF LC!MayBecome
  <2>6. CASE docs[k].state = "completed" /\ docs'[k].state = "none" /\ k \in used'
    BY <1>1, <2>6, Zenon DEF Exists, LC!MayBecome
  <2> QED
    BY <2>1, <2>3, <2>4, <2>5, <2>6, Zenon DEF LifeStep
<1> QED
  BY <1>4, <1>5, Zenon DEF LC!Next

\* Delivery implements JobLifecycle: whatever is lost, reclaimed or repeated, a
\* job moves along the graph of job_state.go and never returns from completed,
\* if timeouts stay within LeaseDuration.
THEOREM LifecycleRefined ==
  ASSUME TimeoutFitsLease
  PROVE  Spec => Lifecycle
<1>1. Init => LC!Init
  BY DEF Init, StoreInit, LC!Init, Life, Exists, NoDoc
<1>2. TypeOK /\ TypeOK' /\ SafeInv /\ SafeInv' /\ [Next]_vars => [LC!Next]_Life
  BY LifeNext, Zenon
<1> QED
  BY <1>1, <1>2, TypeCorrect, Safety, PTL DEF Spec, Lifecycle, LC!Spec

=============================================================================
