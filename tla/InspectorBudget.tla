-------------------------- MODULE InspectorBudget ---------------------------
(***************************************************************************)
(* A single operator who only retries, for any number of jobs, workers,    *)
(* requests and faults: JobBroker.Requeue writes dead jobs only, so all    *)
(* that Delivery promises about a job still holds, and a job is executed   *)
(* at most one budget more per request.                                    *)
(***************************************************************************)
EXTENDS InspectorProofs, DeliveryResults

-----------------------------------------------------------------------------
(* One operator who only retries.                                          *)

\* There is at most one request at a time, and it retries dead jobs.
OneRetrier ==
  /\ \A o, q \in Operators : o = q
  /\ Requests \subseteq {"retry", "retryAll"}

\* The jobs it still has to write are dead, as it read them: nobody else takes
\* a job out of the dead set.
RetrierInv ==
  \A o \in Operators :
    /\ op[o] \in {"none", "requeue"}
    /\ op[o] = "none" => DOMAIN todo[o] = {}
    /\ \A j \in DOMAIN todo[o] : docs[j].state = "dead" /\ todo[o][j] = Requeue(docs[j])

\* No worker, sweep or producer writes the document of a completed or dead job;
\* that of a completed one may go.
LEMMA SettledKept ==
  ASSUME TypeOK, SafeInv, [Next]_vars, NEW j \in Jobs, docs[j].state \in {"completed", "dead"}
  PROVE  docs'[j] = docs[j] \/ (docs[j].state = "completed" /\ docs'[j] = NoDoc)
<1>1. \A w \in Workers : Busy(w) => docs[job[w]].state = "active"
  BY HeldAlone, Zenon DEF Alone
<1>2. ASSUME NEW k \in Jobs, Adds(k) PROVE docs'[j] = docs[j]
  <2>1. docs[k].state = "none"
    BY <1>2, Zenon DEF Adds, SafeInv, JobInv, Exists, NoDoc
  <2> QED
    BY <1>2, <2>1, Zenon DEF Adds, Touches, Same
<1>3. ASSUME NEW w \in Workers, NEW k \in Jobs,
             \/ Claims(w, k) \/ Saves(w, k) \/ Runs(w, k)
             \/ Reports(w, k) \/ Clears(w, k) \/ Drops(w, k)
      PROVE  docs'[j] = docs[j]
  <2>1. Touches({k}, {w}) /\ (docs[k].state = "pending" \/ (Busy(w) /\ job[w] = k))
    BY <1>3, Zenon DEF Claims, Saves, Runs, Reports, Clears, Drops, Held, Busy
  <2>2. j # k
    BY <1>1, <2>1, Zenon
  <2> QED
    BY <2>1, <2>2, Zenon DEF Touches, Same
<1>4. ASSUME NEW B \in SUBSET Jobs, Returns(B) PROVE docs'[j] = docs[j]
  BY <1>4, Zenon DEF Returns, Touches, Same
<1>5. ASSUME NEW B \in SUBSET Jobs, Forgets(B)
      PROVE  docs'[j] = docs[j] \/ (docs[j].state = "completed" /\ docs'[j] = NoDoc)
  BY <1>5, Zenon DEF Forgets, Touches, Same
<1>6. ASSUME Ages
      PROVE  docs'[j] = docs[j] \/ (docs[j].state = "completed" /\ docs'[j] = NoDoc)
  BY <1>6, Zenon DEF Ages
<1> QED
  BY <1>2, <1>3, <1>4, <1>5, <1>6, Shapes DEF Shaped

\* The steps of an operator who only retries.
LEMMA RetrierCases ==
  ASSUME OneRetrier, RetrierInv, NEW o \in Operators, OperatorStep(o)
  PROVE  \/ (\E j \in Jobs : RetryJob(o, j)) \/ RetryAllDead(o)
         \/ AbandonRequest(o) \/ \E j \in Jobs : RequeueFails(o, j)
         \/ \E j \in Jobs : RequeueWrite(o, j)
<1>1. /\ "kill" \notin Requests /\ "delete" \notin Requests
      /\ op[o] # "killClear" /\ op[o] # "killWrite" /\ op[o] # "delete"
  BY Zenon DEF OneRetrier, RetrierInv
<1> QED
  BY <1>1, Zenon
  DEF OperatorStep, KillJob, RequestDelete, Request, OperatorKillClear, OperatorKillWrite,
      DeleteWrite

\* The retry that arrives reads dead jobs.
LEMMA RetryArrives ==
  ASSUME InspectorTypeOK, NEW o \in Operators,
         (\E j \in Jobs : RetryJob(o, j)) \/ RetryAllDead(o)
  PROVE  /\ UNCHANGED <<vars, offers, deleted>>
         /\ op[o] = "none" /\ op'[o] = "requeue" /\ requests' = requests + 1
         /\ \A j \in DOMAIN todo'[o] : docs[j].state = "dead" /\ todo'[o][j] = Requeue(docs[j])
<1>0. OperatorOK /\ op \in [Operators -> {"none", "requeue", "killClear", "killWrite", "delete"}]
      /\ todo \in [Operators -> Copies]
  BY Zenon DEF InspectorTypeOK, OperatorOK
<1>1. ASSUME NEW D, NEW kind, Request(o, kind, "requeue", [k \in D |-> Requeue(docs[k])]),
             \A j \in D : CanRequeue(docs[j])
      PROVE  /\ UNCHANGED <<vars, offers, deleted>>
             /\ op[o] = "none" /\ op'[o] = "requeue" /\ requests' = requests + 1
             /\ \A j \in DOMAIN todo'[o] :
                  docs[j].state = "dead" /\ todo'[o][j] = Requeue(docs[j])
  BY <1>0, <1>1, Zenon DEF Request, CanRequeue
<1>2. ASSUME NEW j \in Jobs, RetryJob(o, j)
      PROVE  /\ UNCHANGED <<vars, offers, deleted>>
             /\ op[o] = "none" /\ op'[o] = "requeue" /\ requests' = requests + 1
             /\ \A k \in DOMAIN todo'[o] :
                  docs[k].state = "dead" /\ todo'[o][k] = Requeue(docs[k])
  <2>1. /\ Request(o, "retry", "requeue", [k \in {j} |-> Requeue(docs[k])])
        /\ \A k \in {j} : CanRequeue(docs[k])
    BY <1>2, Zenon DEF RetryJob
  <2> QED
    BY <1>0, <2>1 DEF Request, CanRequeue
<1>3. CASE RetryAllDead(o)
  <2>1. PICK page \in List("dead") :
          Request(o, "retryAll", "requeue",
                  [k \in {j \in page : CanRequeue(docs[j])} |-> Requeue(docs[k])])
    BY <1>3, Zenon DEF RetryAllDead
  <2>2. \A j \in {i \in page : CanRequeue(docs[i])} : CanRequeue(docs[j])
    OBVIOUS
  <2> QED
    BY <1>1, <2>1, <2>2, Zenon
<1> QED
  BY <1>1, <1>2, <1>3, Zenon

\* JobBroker.Requeue: a dead job nobody holds is pending again, with nothing
\* counted against it.
Requeues(j) ==
  /\ docs[j].state = "dead" /\ j \in used /\ Placed(j) /\ ttl'[j] = NoTTL
  /\ docs'[j].state = "pending" /\ docs'[j].attemptsMade = 0
  /\ Touches({j}, {}) /\ UNCHANGED <<used, runs, faults>>

\* The retrier's write has this shape.
LEMMA RequeueEffect ==
  ASSUME InspectorTypeOK, SafeInv, RetrierInv, NEW o \in Operators, NEW j \in Jobs,
         RequeueWrite(o, j)
  PROVE  Requeues(j)
<1>0. TypeOK /\ StoreTypeOK /\ JobInv(j)
  BY Zenon DEF InspectorTypeOK, TypeOK, SafeInv
<1>1. docs[j].state = "dead" /\ todo[o][j] = Requeue(docs[j])
  BY Zenon DEF RequeueWrite, RetrierInv
<1>2. docs[j] \in Job(Workers) /\ Exists(j) /\ j \in used
  BY <1>0, <1>1, DocIsJob DEF StoreTypeOK, Exists, JobInv
<1> DEFINE d == Requeue(docs[j])
<1>3. d \in Job(Workers) /\ d.state = "pending" /\ d.attemptsMade = 0
  BY <1>2, RequeueType, Zenon
<1>4. TransitionLua(j, "dead", "pending", 0, NoTTL, d)
  BY <1>1, Zenon DEF RequeueWrite
<1> HIDE DEF d
<1>5. AtMostIn(j, "dead") /\ "dead" \in JobState /\ 0 \in Nat
  BY <1>0, <1>1, <1>2, Zenon DEF JobInv, AtMostIn, JobState
<1>6. UNCHANGED <<used, workerVars, runs, faults>>
  BY Zenon DEF RequeueWrite
<1>7. TransitionLua(j, "dead", d.state, 0, NoTTL, d) /\ j \in used'
  BY <1>2, <1>3, <1>4, <1>6
<1>8. Writes(j, d, NoTTL)
  BY <1>0, <1>2, <1>3, <1>5, <1>7, TransitionEffect
<1>9. \A v \in Workers : SameWorker(v) /\ (Busy(v) => job[v] # j)
  BY <1>0, <1>1, <1>6, HeldAlone DEF Alone, SameWorker, workerVars
<1>10. Touches({j}, {})
  BY <1>6, <1>8, <1>9, Zenon DEF Touches, Writes
<1> QED
  BY <1>1, <1>2, <1>3, <1>6, <1>8, <1>10 DEF Requeues, Writes

\* A step that leaves Redis and the workers alone touches nothing,
LEMMA NothingTouched ==
  ASSUME UNCHANGED <<store, used, workerVars, runs>>
  PROVE  Touches({}, {})
  BY Zenon DEF store, workerVars, SameWorker, Same, Touches

\* and keeps SafeInv.
LEMMA SafeUnchanged ==
  ASSUME TypeOK, SafeInv, UNCHANGED <<store, used, workerVars, runs>>
  PROVE  SafeInv'
  BY NothingTouched, SafeOfNobody

\* The retrier's steps keep SafeInv,
LEMMA RetrierSafe ==
  ASSUME InspectorTypeOK, SafeInv, OneRetrier, RetrierInv, NEW o \in Operators, OperatorStep(o)
  PROVE  SafeInv'
<1>0. TypeOK
  BY Zenon DEF InspectorTypeOK
<1>1. CASE (\E j \in Jobs : RetryJob(o, j)) \/ RetryAllDead(o)
  <2>1. UNCHANGED <<store, used, workerVars, runs>>
    BY <1>1, RetryArrives DEF vars
  <2> QED
    BY <1>0, <2>1, SafeUnchanged, Zenon
<1>2. CASE AbandonRequest(o) \/ \E j \in Jobs : RequeueFails(o, j)
  <2>1. UNCHANGED <<store, used, workerVars, runs>>
    BY <1>2, FaultType, Zenon
  <2> QED
    BY <1>0, <2>1, SafeUnchanged, Zenon
<1>3. ASSUME NEW j \in Jobs, RequeueWrite(o, j) PROVE SafeInv'
  <2>1. Requeues(j)
    BY <1>3, RequeueEffect, Zenon
  <2>2. JobInv(j)'
    BY <2>1, JobMoved, Zenon DEF Requeues
  <2>3. {j} \in SUBSET Jobs /\ Touches({j}, {}) /\ \A k \in {j} : JobInv(k)'
    BY <2>1, <2>2, Zenon DEF Requeues
  <2> QED
    BY <1>0, <2>3, SafeOfNobody, Zenon
<1> QED
  BY <1>1, <1>2, <1>3, RetrierCases, Zenon

\* and they leave the jobs still to be written as they were.
LEMMA RetrierKept ==
  ASSUME InspectorTypeOK, SafeInv, OneRetrier, RetrierInv, NEW o \in Operators, OperatorStep(o)
  PROVE  RetrierInv'
<1>0. /\ op \in [Operators -> {"none", "requeue", "killClear", "killWrite", "delete"}]
      /\ todo \in [Operators -> Copies] /\ \A q \in Operators : q = o
  BY Zenon DEF InspectorTypeOK, OperatorOK, OneRetrier
<1>1. CASE (\E j \in Jobs : RetryJob(o, j)) \/ RetryAllDead(o)
  <2>1. /\ UNCHANGED docs /\ op'[o] = "requeue"
        /\ \A j \in DOMAIN todo'[o] : docs[j].state = "dead" /\ todo'[o][j] = Requeue(docs[j])
    BY <1>1, RetryArrives, Zenon DEF vars, store
  <2> QED
    BY <1>0, <2>1, Zenon DEF RetrierInv
<1>2. ASSUME NEW j, Wrote(o, j), \A k \in DOMAIN todo[o] \ {j} : docs'[k] = docs[k]
      PROVE  RetrierInv'
  <2>1. /\ todo'[o] = [k \in DOMAIN todo[o] \ {j} |-> todo[o][k]]
        /\ op'[o] = IF DOMAIN todo[o] = {j} THEN "none" ELSE op[o]
    BY <1>0, <1>2, Zenon DEF Wrote
  <2>2. DOMAIN todo'[o] = DOMAIN todo[o] \ {j} /\ \A k \in DOMAIN todo'[o] : todo'[o][k] = todo[o][k]
    BY <2>1, Zenon
  <2>3. /\ op[o] \in {"none", "requeue"}
        /\ op[o] = "none" => DOMAIN todo[o] = {}
        /\ \A k \in DOMAIN todo[o] : docs[k].state = "dead" /\ todo[o][k] = Requeue(docs[k])
    BY Zenon DEF RetrierInv
  <2>4. op'[o] \in {"none", "requeue"} /\ (op'[o] = "none" => DOMAIN todo'[o] = {})
    BY <2>1, <2>2, <2>3, Zenon
  <2>5. \A k \in DOMAIN todo'[o] : docs'[k].state = "dead" /\ todo'[o][k] = Requeue(docs'[k])
    BY <1>2, <2>2, <2>3, Zenon
  <2> QED
    BY <1>0, <2>4, <2>5, Zenon DEF RetrierInv
<1>3. CASE AbandonRequest(o)
  <2>1. op'[o] = "none" /\ todo'[o] = <<>> /\ DOMAIN <<>> = {}
    BY <1>0, <1>3 DEF AbandonRequest
  <2> QED
    BY <1>0, <2>1, Zenon DEF RetrierInv
<1>4. CASE \E j \in Jobs : RequeueFails(o, j)
  BY <1>2, <1>4, Zenon DEF RequeueFails, store
<1>5. ASSUME NEW j \in Jobs, RequeueWrite(o, j) PROVE RetrierInv'
  <2>1. Wrote(o, j) /\ DOMAIN todo[o] \in SUBSET Jobs
    BY <1>0, <1>5, CopiesType, Zenon DEF RequeueWrite
  <2>2. \A k \in Jobs \ {j} : docs'[k] = docs[k]
    BY <1>5, RequeueEffect DEF Requeues, Touches, Same
  <2> QED
    BY <1>2, <2>1, <2>2, Zenon
<1> QED
  BY <1>1, <1>3, <1>4, <1>5, RetrierCases

\* Delivery's steps leave them alone, too.
LEMMA RetrierStep ==
  ASSUME InspectorTypeOK, SafeInv, OneRetrier, TimeoutFitsLease, RetrierInv,
         [InspectorNext]_allVars
  PROVE  SafeInv' /\ RetrierInv'
<1>0. TypeOK /\ \A o \in Operators : DOMAIN todo[o] \in SUBSET Jobs
  BY CopiesType, Zenon DEF InspectorTypeOK, OperatorOK
<1>1. CASE Next /\ CountOffers /\ UNCHANGED <<op, todo, requests, deleted>>
  <2>1. SafeInv'
    BY <1>0, <1>1, SafeStep, Zenon
  <2>2. \A j \in Jobs : docs[j].state = "dead" => docs'[j] = docs[j]
    BY <1>0, <1>1, SettledKept, Zenon
  <2> QED
    BY <1>0, <1>1, <2>1, <2>2 DEF RetrierInv
<1>2. CASE \E o \in Operators : OperatorStep(o)
  BY <1>2, RetrierSafe, RetrierKept, Zenon
<1>3. CASE UNCHANGED allVars
  <2>1. UNCHANGED <<store, used, workerVars, runs>> /\ UNCHANGED <<docs, op, todo>>
    BY <1>3, Zenon DEF allVars, inspectorVars, vars, store
  <2> QED
    BY <1>0, <2>1, SafeUnchanged, Zenon DEF RetrierInv
<1> QED
  BY <1>1, <1>2, <1>3, Zenon DEF InspectorNext, Beside

\* A request that only retries keeps all that Delivery promises about a single
\* job (JobBroker.Requeue writes dead jobs only), if timeouts stay within
\* LeaseDuration.
THEOREM RetrierSafety ==
  ASSUME OneRetrier, TimeoutFitsLease
  PROVE  InspectorSpec => [](SafeInv /\ RetrierInv)
<1>1. InspectorInit => SafeInv /\ RetrierInv
  <2> SUFFICES ASSUME InspectorInit PROVE SafeInv /\ RetrierInv
    OBVIOUS
  <2>1. DOMAIN <<>> = {}
    OBVIOUS
  <2>2. SafeInv
    BY SafeInit, Zenon DEF InspectorInit
  <2> QED
    BY <2>1, <2>2, Zenon DEF InspectorInit, RetrierInv
<1>2. InspectorTypeOK /\ SafeInv /\ RetrierInv /\ [InspectorNext]_allVars
        => SafeInv' /\ RetrierInv'
  BY RetrierStep, Zenon
<1> QED
  BY <1>1, <1>2, InspectorTypes, PTL DEF InspectorSpec

\* Two workers never work on one job at the same time while an operator retries
\* dead jobs (dequeue.lua, JobBroker.Requeue), if timeouts stay within
\* LeaseDuration.
THEOREM RetrierExclusion ==
  ASSUME OneRetrier, TimeoutFitsLease
  PROVE  InspectorSpec => []ExclusiveExecution
<1>1. SafeInv => ExclusiveExecution
  BY Zenon DEF SafeInv
<1> QED
  BY <1>1, RetrierSafety, PTL

-----------------------------------------------------------------------------
(* One budget per retry.                                                   *)

\* A request under way has not yet granted job j what it asked for.
Asked(j) == IF \E o \in Operators : j \in DOMAIN todo[o] THEN 1 ELSE 0

\* What is written off for the jobs: no more than the requests have granted,
\* and the faults that were paid for before.
Within(g, p) ==
  \A j \in Jobs : g[j] <= (MaxRetries + 1) * (requests - Asked(j)) + p[j]

\* Each retry of job j writes off what was spent on it, and starts a budget.
GrantInv == \E g, p \in [Jobs -> Nat] : BudgetInv(g, p) /\ Within(g, p)

\* More requests and fewer of them under way leave no less to write off.
LEMMA WithinKept ==
  ASSUME NEW g \in [Jobs -> Nat], NEW p \in [Jobs -> Nat], requests \in Nat, requests' \in Nat,
         Within(g, p), NEW j \in Jobs,
         requests' - Asked(j)' >= requests - Asked(j)
  PROVE  (g[j] <= (MaxRetries + 1) * (requests - Asked(j)) + p[j])'
<1> DEFINE m == MaxRetries + 1
           a == requests - Asked(j)
           b == requests' - Asked(j)'
<1>1. m \in Nat /\ a \in Int /\ b \in Int /\ g[j] \in Nat /\ p[j] \in Nat
  BY MaxRetriesAssumption DEF Asked
<1>2. g[j] <= m * a + p[j] /\ b >= a
  BY Zenon DEF Within
<1>3. b - a \in Nat
  BY <1>1, <1>2
<1>4. m * (b - a) \in Nat /\ m * b = m * a + m * (b - a)
  <2> HIDE DEF m, a, b
  <2> QED
    BY <1>1, <1>3
<1>5. m * a \in Int /\ m * b \in Int
  <2> HIDE DEF m, a, b
  <2> QED
    BY <1>1
<1>6. g[j] <= m * b + p[j]
  <2> HIDE DEF m, a, b
  <2> QED
    BY <1>1, <1>2, <1>4, <1>5
<1> QED
  BY <1>6, Zenon

\* A step that leaves Redis and the workers alone costs nothing, even when a
\* request fails.
LEMMA BudgetUnchanged ==
  ASSUME NEW g \in [Jobs -> Nat], NEW p \in [Jobs -> Nat], TypeOK, BudgetInv(g, p),
         UNCHANGED <<store, used, workerVars, runs>>, faults' \in Nat, faults' >= faults
  PROVE  BudgetInv(g, p)'
<1>1. /\ {} \in SUBSET Jobs /\ {} \in SUBSET Workers /\ Touches({}, {})
      /\ \A k \in Jobs \ {} : JobBudget(k, g, p)
      /\ \A v \in Workers \ {} : WorkerBudget(v, g, p)
      /\ \A k \in {} : JobBudget(k, g, p)'
      /\ \A v \in {} : WorkerBudget(v, g, p)'
  BY NothingTouched, Zenon DEF BudgetInv
<1> QED
  BY <1>1, BudgetRest, Zenon

\* JobBroker.Requeue writes off what was spent on the job, and no more: the
\* request that asked for it is over.
LEMMA RequeueGrants ==
  ASSUME InspectorTypeOK, SafeInv, OneRetrier, RetrierInv, NEW o \in Operators, NEW j \in Jobs,
         RequeueWrite(o, j), GrantInv
  PROVE  GrantInv'
<1>1. PICK g \in [Jobs -> Nat], p \in [Jobs -> Nat] : BudgetInv(g, p) /\ Within(g, p)
  BY Zenon DEF GrantInv
<1>2. /\ TypeOK /\ MaxRetries \in Nat /\ faults \in Nat /\ requests \in Nat
      /\ runs[j] \in Nat /\ g[j] \in Nat /\ p[j] \in Nat
  BY Counts, Zenon DEF InspectorTypeOK, OperatorOK
<1>3. Requeues(j)
  BY RequeueEffect, Zenon
<1>4. PICK h \in [Jobs -> Nat], q \in [Jobs -> Nat] :
        /\ h[j] = runs[j] /\ q[j] = faults
        /\ \A k \in Jobs \ {j} : h[k] = g[k] /\ q[k] = p[k]
  <2> DEFINE a == [g EXCEPT ![j] = runs[j]]
             b == [p EXCEPT ![j] = faults]
  <2>1. /\ a \in [Jobs -> Nat] /\ b \in [Jobs -> Nat] /\ a[j] = runs[j] /\ b[j] = faults
        /\ \A k \in Jobs \ {j} : a[k] = g[k] /\ b[k] = p[k]
    BY <1>2, Zenon
  <2> HIDE DEF a, b
  <2> QED
    BY <2>1, Zenon
<1>5. \A k \in Jobs \ {j} : JobBudget(k, h, q)
  BY <1>1, <1>4, Zenon DEF BudgetInv, JobBudget
<1>6. \A v \in Workers : WorkerBudget(v, h, q)
  <2> SUFFICES ASSUME NEW v \in Workers PROVE WorkerBudget(v, h, q)
    OBVIOUS
  <2>1. WorkerBudget(v, g, p) /\ job[v] \in Jobs /\ (Busy(v) => job[v] # j)
    BY <1>1, <1>2, <1>3 DEF BudgetInv, TypeOK, Requeues, Touches
  <2>2. pc[v] \in {"leased", "saved", "killing"} => Busy(v)
    BY Zenon DEF Busy
  <2> QED
    BY <1>4, <2>1, <2>2 DEF WorkerBudget
<1>7. JobBudget(j, h, q)'
  <2>1. /\ Placed(j) /\ docs'[j].attemptsMade = 0 /\ docs'[j].state # "dead"
        /\ runs'[j] = runs[j] /\ faults' = faults
    BY <1>3, Zenon DEF Requeues
  <2>2. /\ q[j] <= faults'
        /\ runs'[j] + q[j] <= h[j] + MaxRetries + 1 + faults'
        /\ runs'[j] <= h[j] + docs'[j].attemptsMade
        /\ docs'[j].attemptsMade + q[j] <= MaxRetries + 1 + faults'
        /\ docs'[j].attemptsMade + q[j] <= MaxRetries + faults'
    BY <1>2, <1>4, <2>1
  <2> QED
    BY <1>4, <2>1, <2>2, BudgetMoved, Zenon
<1>8. BudgetInv(h, q)'
  <2>1. /\ {j} \in SUBSET Jobs /\ {} \in SUBSET Workers /\ Touches({j}, {})
        /\ faults' \in Nat /\ faults' >= faults
        /\ \A v \in Workers \ {} : WorkerBudget(v, h, q)
        /\ \A k \in {j} : JobBudget(k, h, q)'
        /\ \A v \in {} : WorkerBudget(v, h, q)'
    BY <1>2, <1>3, <1>6, <1>7 DEF Requeues
  <2> QED
    BY <1>2, <1>4, <1>5, <2>1, BudgetRest, Zenon
<1>9. /\ requests' = requests /\ j \in DOMAIN todo[o] /\ j \notin DOMAIN todo'[o]
      /\ DOMAIN todo'[o] \subseteq DOMAIN todo[o] /\ \A i \in Operators : i = o
  BY Zenon DEF RequeueWrite, Wrote, InspectorTypeOK, OperatorOK, OneRetrier
<1>10. Asked(j) = 1 /\ Asked(j)' = 0
  BY <1>9, Zenon DEF Asked
<1>11. h[j] <= (MaxRetries + 1) * (requests' - Asked(j)') + q[j]
  <2>1. g[j] <= (MaxRetries + 1) * (requests - 1) + p[j]
    BY <1>1, <1>10, Zenon DEF Within
  <2>2. runs[j] + p[j] <= g[j] + MaxRetries + 1 + faults
    BY <1>1, Zenon DEF BudgetInv, JobBudget
  <2>3. /\ (MaxRetries + 1) * requests = (MaxRetries + 1) * (requests - 1) + MaxRetries + 1
        /\ (MaxRetries + 1) * (requests - 1) \in Int
    BY <1>2
  <2>4. runs[j] <= (MaxRetries + 1) * requests + faults
    BY <1>2, <2>1, <2>2, <2>3
  <2> QED
    BY <1>2, <1>4, <1>9, <1>10, <2>4
<1>12. ASSUME NEW k \in Jobs \ {j}
       PROVE  h[k] <= (MaxRetries + 1) * (requests' - Asked(k)') + q[k]
  <2>1. requests' - Asked(k)' >= requests - Asked(k)
    BY <1>2, <1>9 DEF Asked
  <2>2. (g[k] <= (MaxRetries + 1) * (requests - Asked(k)) + p[k])'
    BY <1>1, <1>2, <1>9, <2>1, WithinKept, Zenon
  <2> QED
    BY <1>4, <2>2, Zenon
<1>13. Within(h, q)'
  BY <1>11, <1>12, Zenon DEF Within
<1> QED
  BY <1>4, <1>8, <1>13 DEF GrantInv

\* Every step keeps GrantInv.
LEMMA GrantStep ==
  ASSUME InspectorTypeOK, SafeInv, OneRetrier, RetrierInv, GrantInv, [InspectorNext]_allVars
  PROVE  GrantInv'
<1>0. /\ TypeOK /\ requests \in Nat /\ requests' \in Nat /\ faults \in Nat /\ faults' \in Nat
      /\ op \in [Operators -> {"none", "requeue", "killClear", "killWrite", "delete"}]
      /\ todo \in [Operators -> Copies]
  <2>1. InspectorTypeOK'
    BY InspectorTypeStep, Zenon
  <2> QED
    BY <2>1, DeliveryAssumption DEF InspectorTypeOK, OperatorOK, TypeOK
<1>1. PICK g \in [Jobs -> Nat], p \in [Jobs -> Nat] : BudgetInv(g, p) /\ Within(g, p)
  BY Zenon DEF GrantInv
<1>2. ASSUME BudgetInv(g, p)', \A j \in Jobs : requests' - Asked(j)' >= requests - Asked(j)
      PROVE  GrantInv'
  <2>1. \A j \in Jobs : (g[j] <= (MaxRetries + 1) * (requests - Asked(j)) + p[j])'
    BY <1>0, <1>1, <1>2, WithinKept, Zenon
  <2>2. Within(g, p)'
    BY <2>1, Zenon DEF Within
  <2> QED
    BY <1>2, <2>2, Zenon DEF GrantInv
<1>3. CASE Next /\ CountOffers /\ UNCHANGED <<op, todo, requests, deleted>>
  <2>1. BudgetInv(g, p)'
    BY <1>0, <1>1, <1>3, BudgetStep
  <2>2. \A j \in Jobs : requests' - Asked(j)' >= requests - Asked(j)
    BY <1>0, <1>3 DEF Asked
  <2> QED
    BY <1>2, <2>1, <2>2
<1>4. ASSUME NEW o \in Operators, OperatorStep(o) PROVE GrantInv'
  <2>1. CASE (\E j \in Jobs : RetryJob(o, j)) \/ RetryAllDead(o)
    <3>1. UNCHANGED vars /\ op[o] = "none" /\ requests' = requests + 1
      BY <2>1, RetryArrives, Zenon
    <3>2. UNCHANGED <<store, used, workerVars, runs>> /\ faults' = faults /\ faults' >= faults
      BY <1>0, <3>1 DEF vars
    <3>3. BudgetInv(g, p)'
      BY <1>0, <1>1, <3>2, BudgetUnchanged, Zenon
    <3>4. \A j \in Jobs : Asked(j) = 0 /\ Asked(j)' <= 1 /\ Asked(j)' \in Nat
      BY <3>1 DEF Asked, RetrierInv, OneRetrier
    <3> QED
      BY <1>0, <1>2, <3>1, <3>3, <3>4
  <2>2. CASE AbandonRequest(o) \/ \E j \in Jobs : RequeueFails(o, j)
    <3>1. UNCHANGED <<store, used, workerVars, runs, requests>>
      BY <2>2, FaultType, Zenon
    <3>2. UNCHANGED <<store, used, workerVars, runs>> /\ faults' >= faults
      BY <1>0, <2>2, <3>1 DEF AbandonRequest, RequeueFails
    <3>3. BudgetInv(g, p)'
      BY <1>0, <1>1, <3>2, BudgetUnchanged, Zenon
    <3>4. \A q \in Operators : DOMAIN todo'[q] \subseteq DOMAIN todo[q]
      <4>1. CASE AbandonRequest(o)
        <5>1. DOMAIN <<>> = {}
          OBVIOUS
        <5> QED
          BY <1>0, <4>1, <5>1 DEF AbandonRequest
      <4>2. CASE \E j \in Jobs : RequeueFails(o, j)
        BY <1>0, <4>2 DEF RequeueFails, Wrote
      <4> QED
        BY <2>2, <4>1, <4>2, Zenon
    <3>5. \A j \in Jobs : requests' - Asked(j)' >= requests - Asked(j)
      BY <1>0, <3>1, <3>4 DEF Asked
    <3> QED
      BY <1>2, <3>3, <3>5, Zenon
  <2>3. CASE \E j \in Jobs : RequeueWrite(o, j)
    BY <2>3, RequeueGrants
  <2> QED
    BY <1>4, <2>1, <2>2, <2>3, RetrierCases, Zenon
<1>5. CASE UNCHANGED allVars
  <2>1. /\ UNCHANGED <<store, used, workerVars, runs>> /\ faults' = faults /\ faults' >= faults
        /\ UNCHANGED <<todo, requests>>
    BY <1>0, <1>5 DEF allVars, inspectorVars, vars
  <2>2. BudgetInv(g, p)'
    BY <1>0, <1>1, <2>1, BudgetUnchanged
  <2>3. \A j \in Jobs : requests' - Asked(j)' >= requests - Asked(j)
    BY <1>0, <2>1 DEF Asked
  <2> QED
    BY <1>2, <2>2, <2>3, Zenon
<1> QED
  BY <1>3, <1>4, <1>5, Zenon DEF InspectorNext, Beside

\* Each retry of an operator grants a job one fresh budget and no more, however
\* often and wherever workers and requests fail (Job.Requeue, RetryAllDead), if
\* timeouts stay within LeaseDuration.
THEOREM RetriesBounded ==
  ASSUME OneRetrier, TimeoutFitsLease
  PROVE  InspectorSpec => []RunsPerRetry
<1>1. InspectorInit => GrantInv
  <2> SUFFICES ASSUME InspectorInit PROVE GrantInv
    OBVIOUS
  <2>1. BudgetInv(Nothing, Nothing)
    BY BudgetInit, Zenon DEF InspectorInit
  <2>2. \A j \in Jobs : requests = 0 /\ Asked(j) = 0
    <3>1. DOMAIN <<>> = {}
      OBVIOUS
    <3> QED
      BY <3>1, Zenon DEF InspectorInit, Asked
  <2>3. Within(Nothing, Nothing)
    BY <2>2, NothingType, MaxRetriesAssumption DEF Within
  <2> QED
    BY <2>1, <2>3, NothingType, Zenon DEF GrantInv
<1>2. InspectorTypeOK /\ SafeInv /\ RetrierInv /\ GrantInv /\ [InspectorNext]_allVars => GrantInv'
  BY GrantStep, Zenon
<1>3. InspectorTypeOK /\ GrantInv => RunsPerRetry
  <2> SUFFICES ASSUME InspectorTypeOK, GrantInv, NEW j \in Jobs
               PROVE  runs[j] <= (MaxRetries + 1) * (requests + 1) + faults
    BY Zenon DEF RunsPerRetry
  <2>1. PICK g \in [Jobs -> Nat], p \in [Jobs -> Nat] : BudgetInv(g, p) /\ Within(g, p)
    BY Zenon DEF GrantInv
  <2>2. /\ MaxRetries \in Nat /\ faults \in Nat /\ requests \in Nat
        /\ runs[j] \in Nat /\ g[j] \in Nat /\ p[j] \in Nat
    BY Counts, Zenon DEF InspectorTypeOK, OperatorOK
  <2>3. runs[j] + p[j] <= g[j] + MaxRetries + 1 + faults
    BY <2>1, Zenon DEF BudgetInv, JobBudget
  <2>4. g[j] <= (MaxRetries + 1) * requests + p[j]
    <3>1. g[j] <= (MaxRetries + 1) * (requests - Asked(j)) + p[j]
      BY <2>1, Zenon DEF Within
    <3>2. CASE Asked(j) = 0
      BY <2>2, <3>1, <3>2
    <3>3. CASE Asked(j) = 1
      <4>1. (MaxRetries + 1) * (requests - 1) + MaxRetries + 1 = (MaxRetries + 1) * requests
        BY <2>2
      <4>2. (MaxRetries + 1) * (requests - 1) \in Int /\ (MaxRetries + 1) * requests \in Int
        BY <2>2
      <4> QED
        BY <2>2, <3>1, <3>3, <4>1, <4>2
    <3> QED
      BY <3>2, <3>3 DEF Asked
  <2>5. /\ (MaxRetries + 1) * (requests + 1) = (MaxRetries + 1) * requests + MaxRetries + 1
        /\ (MaxRetries + 1) * requests \in Int
    BY <2>2
  <2> QED
    BY <2>2, <2>3, <2>4, <2>5
<1> QED
  BY <1>1, <1>2, <1>3, RetrierSafety, InspectorTypes, PTL DEF InspectorSpec

=============================================================================
