-------------------------- MODULE InspectorProofs ---------------------------
(***************************************************************************)
(* What operators cannot break, for any number of jobs, workers, requests  *)
(* and faults: every variable keeps its type, only a save brings a deleted *)
(* job back, and a job is never executed more often than it was put into   *)
(* pending.                                                                *)
(***************************************************************************)
EXTENDS Inspector, DeliveryProofs, FiniteSetTheorems

-----------------------------------------------------------------------------
(* Types.                                                                  *)

\* The copies a request still has to write.
Copies == UNION {[D -> Job(Workers)] : D \in SUBSET Jobs}

OperatorOK ==
  /\ op \in [Operators -> {"none", "requeue", "killClear", "killWrite", "delete"}]
  /\ todo \in [Operators -> Copies]
  /\ requests \in Nat
  /\ offers \in [Jobs -> Nat]
  /\ deleted \in SUBSET Jobs

InspectorTypeOK == TypeOK /\ CopyOK /\ OperatorOK

\* What a request still has to write are documents of jobs.
LEMMA CopiesType ==
  ASSUME NEW f \in Copies
  PROVE  DOMAIN f \in SUBSET Jobs /\ f \in [DOMAIN f -> Job(Workers)]
<1>1. PICK D \in SUBSET Jobs : f \in [D -> Job(Workers)]
  BY Zenon DEF Copies
<1>2. DOMAIN f = D
  BY <1>1, Zenon
<1> QED
  BY <1>1, <1>2, Zenon

\* The documents of some jobs are what a request may have to write.
LEMMA CopiesMade ==
  ASSUME NEW D \in SUBSET Jobs, NEW f \in [D -> Job(Workers)]
  PROVE  f \in Copies
  BY Zenon DEF Copies

\* A request that is over has nothing to write.
LEMMA NoCopies == <<>> \in Copies
<1>1. <<>> \in [{} -> Job(Workers)]
  OBVIOUS
<1> QED
  BY <1>1, CopiesMade, Zenon

\* What Job.Requeue makes of a job.
LEMMA RequeueType ==
  ASSUME NEW d \in Job(Workers)
  PROVE  /\ Requeue(d) \in Job(Workers) /\ Requeue(d).state = "pending"
         /\ Requeue(d).attemptsMade = 0
<1>1. "pending" \in JobState /\ 0 \in Nat /\ NoWorker \in Workers \cup {NoWorker}
  BY Zenon DEF JobState
<1> QED
  BY <1>1, Zenon DEF Requeue, Job

\* One write less leaves jobs to write (Wrote).
LEMMA WroteType ==
  ASSUME OperatorOK, NEW o \in Operators, NEW j, Wrote(o, j)
  PROVE  /\ op' \in [Operators -> {"none", "requeue", "killClear", "killWrite", "delete"}]
         /\ todo' \in [Operators -> Copies]
<1>1. todo[o] \in Copies
  BY Zenon DEF OperatorOK
<1>2. /\ DOMAIN todo[o] \ {j} \in SUBSET Jobs
      /\ [k \in DOMAIN todo[o] \ {j} |-> todo[o][k]] \in [DOMAIN todo[o] \ {j} -> Job(Workers)]
  BY <1>1, CopiesType, Zenon
<1>3. [k \in DOMAIN todo[o] \ {j} |-> todo[o][k]] \in Copies
  BY <1>2, CopiesMade, Zenon
<1> QED
  BY <1>3, Zenon DEF OperatorOK, Wrote

\* Counting the offers keeps them numbers (CountOffers).
LEMMA CountOffersType ==
  ASSUME OperatorOK, CountOffers
  PROVE  offers' \in [Jobs -> Nat]
  BY DEF OperatorOK, CountOffers

\* What a page of the dead jobs holds (JobRepo.List, RetryAllDead).
LEMMA DeadPage ==
  ASSUME NEW page \in List("dead")
  PROVE  page \in SUBSET Jobs /\ \A j \in page : Exists(j)
<1>1. PICK P \in SUBSET In("dead") : page = loadMany(P)
  BY Zenon DEF List
<1> QED
  BY <1>1, Zenon DEF loadMany, In

\* Arriving requests change nothing but the operators' own state.
LEMMA ArrivalType ==
  ASSUME InspectorTypeOK, NEW o \in Operators,
         \/ \E j \in Jobs : RetryJob(o, j) \/ KillJob(o, j) \/ RequestDelete(o, j)
         \/ RetryAllDead(o)
  PROVE  OperatorOK' /\ UNCHANGED <<vars, offers, deleted>>
\* The request reads documents: each of them is a job, and so is what the
\* aggregate makes of it.
<1>1. ASSUME TypeOK, NEW D \in SUBSET Jobs, \A k \in D : Exists(k)
      PROVE  /\ [k \in D |-> Requeue(docs[k])] \in [D -> Job(Workers)]
             /\ [k \in D |-> Kill(docs[k])] \in [D -> Job(Workers)]
             /\ [k \in D |-> docs[k]] \in [D -> Job(Workers)]
  <2> USE <1>1
  <2>1. \A k \in D : docs[k] \in Job(Workers)
    BY DocIsJob, Zenon DEF TypeOK, StoreTypeOK, Exists
  <2>2. \A k \in D : Requeue(docs[k]) \in Job(Workers) /\ Kill(docs[k]) \in Job(Workers)
    BY <2>1, RequeueType, ReportType, Zenon DEF JobsIn
  <2> QED
    BY <2>1, <2>2, Zenon
\* A request that arrives keeps jobs to write (Request).
<1>2. ASSUME OperatorOK, NEW kind, NEW D \in SUBSET Jobs,
             NEW call \in {"requeue", "killClear", "delete"}, NEW f \in [D -> Job(Workers)],
             Request(o, kind, call, f)
      PROVE  OperatorOK' /\ UNCHANGED vars
  <2> USE <1>2
  <2>1. f \in Copies
    BY CopiesMade, Zenon
  <2> QED
    BY <2>1 DEF OperatorOK, Request
<1>3. TypeOK /\ OperatorOK
  BY Zenon DEF InspectorTypeOK
<1>4. ASSUME NEW j \in Jobs, RetryJob(o, j) \/ KillJob(o, j) \/ RequestDelete(o, j)
      PROVE  OperatorOK' /\ UNCHANGED <<vars, offers, deleted>>
  <2>1. {j} \in SUBSET Jobs /\ \A k \in {j} : Exists(k)
    BY <1>4, Zenon DEF RetryJob, KillJob, RequestDelete
  <2>2. /\ [k \in {j} |-> Requeue(docs[k])] \in [{j} -> Job(Workers)]
        /\ [k \in {j} |-> Kill(docs[k])] \in [{j} -> Job(Workers)]
        /\ [k \in {j} |-> docs[k]] \in [{j} -> Job(Workers)]
    BY <1>3, <2>1, <1>1, Zenon
  <2>3. CASE RetryJob(o, j)
    BY <1>3, <2>1, <2>2, <2>3, <1>2, Zenon DEF RetryJob, Request
  <2>4. CASE KillJob(o, j)
    BY <1>3, <2>1, <2>2, <2>4, <1>2, Zenon DEF KillJob, Request
  <2>5. CASE RequestDelete(o, j)
    BY <1>3, <2>1, <2>2, <2>5, <1>2, Zenon DEF RequestDelete, Request
  <2> QED
    BY <1>4, <2>3, <2>4, <2>5, Zenon
<1>5. CASE RetryAllDead(o)
  <2>1. PICK page \in List("dead") :
          Request(o, "retryAll", "requeue",
                  [k \in {j \in page : CanRequeue(docs[j])} |-> Requeue(docs[k])])
    BY <1>5, Zenon DEF RetryAllDead
  <2> DEFINE D == {j \in page : CanRequeue(docs[j])}
  <2>2. D \in SUBSET Jobs /\ \A k \in D : Exists(k)
    BY DeadPage, Zenon
  <2>3. [k \in D |-> Requeue(docs[k])] \in [D -> Job(Workers)]
    BY <1>3, <2>2, <1>1, Zenon
  <2>4. Request(o, "retryAll", "requeue", [k \in D |-> Requeue(docs[k])])
    BY <2>1, Zenon
  <2> HIDE DEF D
  <2> QED
    BY <1>3, <2>2, <2>3, <2>4, <1>2, Zenon DEF Request
<1> QED
  BY <1>4, <1>5, Zenon

\* A failing or dying request writes nothing.
LEMMA FaultType ==
  ASSUME InspectorTypeOK, NEW o \in Operators,
         AbandonRequest(o) \/ \E j \in Jobs : RequeueFails(o, j)
  PROVE  InspectorTypeOK' /\ UNCHANGED <<store, used, workerVars, runs, requests, offers, deleted>>
<1>0. TypeOK /\ CopyOK /\ OperatorOK
  BY Zenon DEF InspectorTypeOK
<1>1. UNCHANGED <<store, used, workerVars, runs, requests, offers, deleted>>
  BY Zenon DEF AbandonRequest, RequeueFails
<1>2. faults' \in 0..MaxFaults
  BY <1>0, DeliveryAssumption DEF AbandonRequest, RequeueFails, TypeOK
<1>3. TypeOK' /\ CopyOK'
  BY <1>0, <1>1, <1>2, Zenon DEF TypeOK, StoreTypeOK, CopyOK, Busy, store, workerVars
<1>4. /\ op' \in [Operators -> {"none", "requeue", "killClear", "killWrite", "delete"}]
      /\ todo' \in [Operators -> Copies]
  <2>1. CASE AbandonRequest(o)
    BY <1>0, <2>1, NoCopies, Zenon DEF AbandonRequest, OperatorOK
  <2>2. CASE \E j \in Jobs : RequeueFails(o, j)
    BY <1>0, <2>2, WroteType, Zenon DEF RequeueFails
  <2> QED
    BY <2>1, <2>2, Zenon
<1>5. OperatorOK'
  BY <1>0, <1>1, <1>4, Zenon DEF OperatorOK
<1> QED
  BY <1>1, <1>3, <1>5, Zenon DEF InspectorTypeOK

\* The steps of an operator, by what they do to Redis: a request arrives, one
\* fails, or one writes.
LEMMA OperatorCases ==
  ASSUME NEW o \in Operators, OperatorStep(o)
  PROVE  \/ \/ \E j \in Jobs : RetryJob(o, j) \/ KillJob(o, j) \/ RequestDelete(o, j)
            \/ RetryAllDead(o)
         \/ AbandonRequest(o) \/ \E j \in Jobs : RequeueFails(o, j)
         \/ \E j \in Jobs : \/ RequeueWrite(o, j) \/ OperatorKillClear(o, j)
                            \/ OperatorKillWrite(o, j) \/ DeleteWrite(o, j)
  BY Zenon DEF OperatorStep

\* Every step keeps the types.
LEMMA InspectorTypeStep ==
  ASSUME InspectorTypeOK, [InspectorNext]_allVars
  PROVE  InspectorTypeOK'
\* The writes of an operator keep the types (JobBroker.Requeue and Kill,
\* JobRepo.Delete).
<1>1. ASSUME InspectorTypeOK, NEW o \in Operators, NEW j \in Jobs,
             \/ RequeueWrite(o, j) \/ OperatorKillClear(o, j)
         \/ OperatorKillWrite(o, j) \/ DeleteWrite(o, j)
      PROVE  InspectorTypeOK'
  <2> USE <1>1
  <2>0. TypeOK /\ CopyOK /\ OperatorOK /\ StoreTypeOK
    BY Zenon DEF InspectorTypeOK, TypeOK
  <2>1. j \in DOMAIN todo[o] /\ todo[o] \in Copies
    BY <2>0, Zenon DEF RequeueWrite, OperatorKillClear, OperatorKillWrite, DeleteWrite, OperatorOK
  <2>2. todo[o][j] \in Job(Workers)
    BY <2>1, CopiesType, Zenon
  <2>3. {"pending", "dead"} \subseteq JobState /\ 0 \in Nat /\ NoTTL \in Nat \cup {NoTTL}
    BY Zenon DEF JobState
  <2>4. StoreTypeOK'
    <3>1. CASE RequeueWrite(o, j)
      <4>1. TransitionLua(j, "dead", "pending", 0, NoTTL, todo[o][j])
        BY <3>1, Zenon DEF RequeueWrite
      <4> QED
        BY <2>0, <2>2, <2>3, <4>1, TransitionLuaType, Zenon
    <3>2. CASE OperatorKillClear(o, j)
      BY <2>0, <3>2, Zenon DEF OperatorKillClear, ClearMembership, StoreTypeOK
    <3>3. CASE OperatorKillWrite(o, j)
      <4>1. TransitionLua(j, "pending", "dead", 0, NoTTL, todo[o][j])
        BY <3>3, Zenon DEF OperatorKillWrite
      <4> QED
        BY <2>0, <2>2, <2>3, <4>1, TransitionLuaType, Zenon
    <3>4. CASE DeleteWrite(o, j)
      BY <2>0, <3>4, Zenon DEF DeleteWrite, DeleteJob, StoreTypeOK
    <3> QED
      BY <3>1, <3>2, <3>3, <3>4, Zenon
  <2>5. UNCHANGED <<used, workerVars, runs, faults, requests>>
    BY Zenon DEF RequeueWrite, OperatorKillClear, OperatorKillWrite, DeleteWrite
  <2>6. TypeOK' /\ CopyOK'
    BY <2>0, <2>4, <2>5, Zenon DEF TypeOK, CopyOK, Busy, workerVars
  <2>7. /\ op' \in [Operators -> {"none", "requeue", "killClear", "killWrite", "delete"}]
        /\ todo' \in [Operators -> Copies]
    <3>1. CASE OperatorKillClear(o, j)
      BY <2>0, <3>1, Zenon DEF OperatorKillClear, OperatorOK
    <3>2. CASE ~OperatorKillClear(o, j)
      BY <2>0, <3>2, WroteType, Zenon DEF RequeueWrite, OperatorKillWrite, DeleteWrite
    <3> QED
      BY <3>1, <3>2, Zenon
  <2>8. offers' \in [Jobs -> Nat]
    BY <2>0, CountOffersType, Zenon
    DEF RequeueWrite, OperatorKillClear, OperatorKillWrite, DeleteWrite, OperatorOK
  <2>9. deleted' \in SUBSET Jobs
    BY <2>0, Zenon DEF RequeueWrite, OperatorKillClear, OperatorKillWrite, DeleteWrite, OperatorOK
  <2>10. OperatorOK'
    BY <2>0, <2>5, <2>7, <2>8, <2>9, Zenon DEF OperatorOK
  <2> QED
    BY <2>6, <2>10, Zenon DEF InspectorTypeOK
\* Arriving requests keep all types.
<1>2. ASSUME InspectorTypeOK, OperatorOK', UNCHANGED vars
      PROVE  InspectorTypeOK'
  BY <1>2, Zenon DEF InspectorTypeOK, TypeOK, StoreTypeOK, CopyOK, Busy, vars, store, workerVars
<1>3. TypeOK /\ CopyOK /\ OperatorOK
  BY Zenon DEF InspectorTypeOK
<1>4. CASE Next /\ CountOffers /\ UNCHANGED <<op, todo, requests, deleted>>
  <2>1. TypeOK' /\ CopyOK'
    BY <1>3, <1>4, TypeStep, Zenon
  <2>2. offers' \in [Jobs -> Nat]
    BY <1>3, <1>4, CountOffersType, Zenon
  <2>3. OperatorOK'
    BY <1>3, <1>4, <2>2, Zenon DEF OperatorOK
  <2> QED
    BY <2>1, <2>3, Zenon DEF InspectorTypeOK
<1>5. ASSUME NEW o \in Operators, OperatorStep(o) PROVE InspectorTypeOK'
  <2>1. CASE \/ \E j \in Jobs : RetryJob(o, j) \/ KillJob(o, j) \/ RequestDelete(o, j)
             \/ RetryAllDead(o)
    <3>1. OperatorOK' /\ UNCHANGED vars
      BY <2>1, ArrivalType, Zenon
    <3> QED
      BY <3>1, <1>2, Zenon
  <2>2. CASE AbandonRequest(o) \/ \E j \in Jobs : RequeueFails(o, j)
    BY <2>2, FaultType, Zenon
  <2>3. CASE \E j \in Jobs : \/ RequeueWrite(o, j) \/ OperatorKillClear(o, j)
                             \/ OperatorKillWrite(o, j) \/ DeleteWrite(o, j)
    BY <2>3, <1>1, Zenon
  <2> QED
    BY <1>5, <2>1, <2>2, <2>3, OperatorCases, Zenon
<1>6. CASE UNCHANGED allVars
  <2>1. OperatorOK' /\ UNCHANGED vars
    BY <1>3, <1>6, Zenon DEF OperatorOK, allVars, inspectorVars
  <2> QED
    BY <2>1, <1>2, Zenon
<1> QED
  BY <1>4, <1>5, <1>6, Zenon DEF InspectorNext, Beside

\* The types hold at first.
LEMMA InspectorTypeInit == InspectorInit => InspectorTypeOK
<1> SUFFICES ASSUME InspectorInit PROVE InspectorTypeOK
  OBVIOUS
<1>1. TypeOK /\ CopyOK
  BY TypeInit, Zenon DEF InspectorInit, Init, CopyOK, Busy
<1>2. OperatorOK
  BY NoCopies, Zenon DEF InspectorInit, OperatorOK
<1> QED
  BY <1>1, <1>2, Zenon DEF InspectorTypeOK

\* Every variable keeps its type, and what a worker or an operator is about to
\* write is a job, whatever the operators do.
THEOREM InspectorTypes == InspectorSpec => []InspectorTypeOK
  BY InspectorTypeInit, InspectorTypeStep, PTL DEF InspectorSpec

-----------------------------------------------------------------------------
(* Only a save brings a deleted job back.                                  *)

\* Whatever exists, is worked on, is about to be written or was deleted has
\* been enqueued before, so no id is handed out for it again.
KnownInv ==
  /\ \A j \in Jobs : Exists(j) => j \in used
  /\ \A w \in Workers : Busy(w) => job[w] \in used
  /\ \A o \in Operators : DOMAIN todo[o] \subseteq used
  /\ deleted \subseteq used

\* Worker w saves the lease of job j.
SavesLease(w, j) == job[w] = j /\ pc[w] = "leased" /\ pc'[w] = "saved"

\* The document of job j comes from a document, an enqueue or a save.
Born(j) ==
  Exists(j)' => \/ Exists(j)
                \/ j \notin used /\ j \in used'
                \/ \E w \in Workers : SavesLease(w, j)

\* Worker w works on the job it had, or on one that exists.
Employed(w) == Busy(w)' => (Busy(w) /\ job'[w] = job[w]) \/ Exists(job'[w])

\* transition.lua and dequeue.lua write documents that exist.
LEMMA BornOfScript ==
  ASSUME TypeOK, NEW j \in Jobs, NEW k \in Jobs, NEW s, NEW r, NEW n, NEW e, NEW d, NEW w, NEW B,
         TransitionLua(k, s, r, n, e, d) \/ DequeueLua(k, B, w, n)
  PROVE  Exists(j)' => Exists(j)
<1>1. docs \in [Jobs -> Job(Workers) \cup {NoDoc}]
  BY Zenon DEF TypeOK, StoreTypeOK
<1>2. docs'[j] = docs[j] \/ (j = k /\ Exists(k))
  BY <1>1, Zenon DEF TransitionLua, DequeueLua
<1> QED
  BY <1>2, Zenon DEF Exists

\* Every step of the workers, the sweeps and the producers keeps to that.
LEMMA BornStep ==
  ASSUME TypeOK, [Next]_vars
  PROVE  /\ used \subseteq used'
         /\ \A j \in Jobs : Born(j)
         /\ \A v \in Workers : Employed(v)
\* A worker that is through works on nothing; the others go on.
<1>1. ASSUME TypeOK, NEW w \in Workers, Done(w), NEW v \in Workers
      PROVE  Employed(v)
  BY <1>1, Zenon DEF Done, Goto, TypeOK, Employed, Busy
<1>2. docs \in [Jobs -> Job(Workers) \cup {NoDoc}] /\ job \in [Workers -> Jobs]
  BY Zenon DEF TypeOK, StoreTypeOK
<1>3. ASSUME NEW k \in Jobs, NEW later \in BOOLEAN, Enqueue(k, later)
      PROVE  /\ used \subseteq used'
             /\ \A j \in Jobs : Born(j)
             /\ \A v \in Workers : Employed(v)
  <2>1. k \notin used /\ used' = used \cup {k} /\ \A j \in Jobs \ {k} : docs'[j] = docs[j]
    BY <1>2, <1>3, Zenon DEF Enqueue, EnqueueLua
  <2> QED
    BY <1>3, <2>1, Zenon DEF Enqueue, Born, Exists, Employed, Busy, workerVars
<1>4. ASSUME NEW w \in Workers, NEW k \in Jobs, Dequeue(w), Claim(w, k)
      PROVE  used' = used /\ (\A j \in Jobs : Born(j)) /\ (\A v \in Workers : Employed(v))
  <2>1. PICK orphans \in SUBSET {i \in In("pending") : ~Exists(i)} :
          DequeueLua(k, orphans, w, LeaseExpiry)
    BY <1>4, Zenon DEF Claim
  <2>2. \A j \in Jobs : Born(j)
    BY <2>1, BornOfScript, Zenon DEF Born
  <2>3. Exists(k)
    BY <2>1, Zenon DEF DequeueLua
  <2>4. \A v \in Workers : Employed(v)
    <3>1. CASE UNCHANGED workerVars
      BY <3>1, Zenon DEF workerVars, Employed, Busy
    <3>2. CASE Goto(w, "leased") /\ job' = [job EXCEPT ![w] = k]
      <4>1. job'[w] = k /\ \A v \in Workers \ {w} : pc'[v] = pc[v] /\ job'[v] = job[v]
        BY <3>2, Zenon DEF Goto, TypeOK
      <4> QED
        BY <2>3, <4>1, Zenon DEF Employed, Busy
    <3> QED
      BY <1>4, <3>1, <3>2, Zenon DEF Claim
  <2> QED
    BY <1>4, <2>2, <2>4, Zenon DEF Dequeue
<1>5. ASSUME NEW w \in Workers, SaveLease(w)
      PROVE  used' = used /\ (\A j \in Jobs : Born(j)) /\ (\A v \in Workers : Employed(v))
  <2>1. SavesLease(w, job[w]) /\ \A j \in Jobs \ {job[w]} : docs'[j] = docs[j]
    BY <1>2, <1>5, Zenon DEF SaveLease, SaveDoc, Goto, TypeOK, SavesLease
  <2>2. \A j \in Jobs : Born(j)
    BY <2>1, Zenon DEF Born, Exists
  <2>3. \A v \in Workers : Employed(v)
    BY <1>5, Zenon DEF SaveLease, Goto, TypeOK, Employed, Busy
  <2> QED
    BY <1>5, <2>2, <2>3, Zenon DEF SaveLease
<1>6. ASSUME NEW w \in Workers, StartHandler(w) \/ KillClear(w)
      PROVE  used' = used /\ (\A j \in Jobs : Born(j)) /\ (\A v \in Workers : Employed(v))
  <2>1. UNCHANGED <<docs, used, job>>
    BY <1>6, Zenon DEF StartHandler, KillClear, ClearMembership, store
  <2>2. \A v \in Workers : Employed(v)
    BY <1>6, <2>1, Zenon DEF StartHandler, KillClear, Goto, TypeOK, Employed, Busy
  <2> QED
    BY <2>1, <2>2, Zenon DEF Born, Exists
<1>7. ASSUME NEW w \in Workers, CompleteJob(w) \/ RetryLater(w) \/ KillWrite(w) \/ Abandon(w)
      PROVE  used' = used /\ (\A j \in Jobs : Born(j)) /\ (\A v \in Workers : Employed(v))
  <2>1. used' = used /\ Done(w) /\ job[w] \in Jobs
    BY <1>2, <1>7, Zenon DEF CompleteJob, RetryLater, KillWrite, Abandon
  <2>2. \A j \in Jobs : Exists(j)' => Exists(j)
    <3>1. CASE Abandon(w)
      BY <3>1, Zenon DEF Abandon, store, Exists
    <3>2. CASE CompleteJob(w) \/ RetryLater(w) \/ KillWrite(w)
      <4>1. \E s, r, n, e, d : TransitionLua(job[w], s, r, n, e, d)
        BY <3>2, Zenon DEF CompleteJob, RetryLater, KillWrite
      <4> QED
        BY <2>1, <4>1, BornOfScript, Zenon
    <3> QED
      BY <1>7, <3>1, <3>2, Zenon
  <2> QED
    BY <2>1, <2>2, <1>1, Zenon DEF Born
<1>8. ASSUME NEW w \in Workers, NEW k \in Jobs, DequeueReplyLost(w, k)
      PROVE  used' = used /\ (\A j \in Jobs : Born(j)) /\ (\A v \in Workers : Employed(v))
  <2>1. PICK orphans \in SUBSET {i \in In("pending") : ~Exists(i)} :
          DequeueLua(k, orphans, w, LeaseExpiry)
    BY <1>8, Zenon DEF DequeueReplyLost
  <2>2. \A j \in Jobs : Born(j)
    BY <2>1, BornOfScript, Zenon DEF Born
  <2> QED
    BY <1>8, <2>2, Zenon DEF DequeueReplyLost, Employed, Busy, workerVars
<1>9. ASSUME Sweep
      PROVE  used' = used /\ (\A j \in Jobs : Born(j)) /\ (\A v \in Workers : Employed(v))
  <2>1. UNCHANGED <<used, workerVars>>
    BY <1>9, Zenon DEF Sweep, Promote, Reclaim, Purge
  <2>2. \/ \E s, B : ToPendingLua(s, B)
        \/ \E B : PurgeCompletedLua(B)
    BY <1>9, Zenon DEF Sweep, Promote, Reclaim, Purge
  <2>3. \A j \in Jobs : docs'[j] = docs[j] \/ docs'[j] = NoDoc \/ Exists(j)
    BY <2>2, Zenon DEF ToPendingLua, PurgeCompletedLua
  <2>4. \A j \in Jobs : Exists(j)' => Exists(j)
    BY <2>3 DEF Exists, NoDoc
  <2> QED
    BY <2>1, <2>4, Zenon DEF Born, Employed, Busy, workerVars
<1>10. ASSUME Tick \/ UNCHANGED vars \/ \E w \in Workers : Dequeue(w) /\ FindNothing
      PROVE  used' = used /\ (\A j \in Jobs : Born(j)) /\ (\A v \in Workers : Employed(v))
  <2>1. UNCHANGED <<used, pc, job>>
    BY <1>10, Zenon DEF Tick, vars, workerVars, Dequeue, FindNothing
  <2>2. \A j \in Jobs : docs'[j] = docs[j] \/ docs'[j] = NoDoc
    BY <1>10, Zenon DEF Tick, StoreTick, vars, store, FindNothing, DrainOrphansLua
  <2>3. \A j \in Jobs : Exists(j)' => Exists(j)
    BY <2>2 DEF Exists, NoDoc
  <2> QED
    BY <2>1, <2>3, Zenon DEF Born, Employed, Busy
<1> QED
  BY <1>3, <1>4, <1>5, <1>6, <1>7, <1>8, <1>9, <1>10 DEF Next, WorkerStep, Dequeue

\* An operator's step creates no document and asks about jobs that exist.
LEMMA BornOperator ==
  ASSUME InspectorTypeOK, NEW o \in Operators, OperatorStep(o)
  PROVE  /\ UNCHANGED <<used, pc, job>>
         /\ \A j \in Jobs : Exists(j)' => Exists(j)
         /\ \A q \in Operators : \A j \in DOMAIN todo'[q] : j \in DOMAIN todo[q] \/ Exists(j)
         /\ \A j \in deleted' : j \in deleted \/ j \in DOMAIN todo[o]
<1>0. TypeOK /\ OperatorOK /\ todo \in [Operators -> Copies]
  BY Zenon DEF InspectorTypeOK, OperatorOK
<1>1. CASE \/ \E k \in Jobs : RetryJob(o, k) \/ KillJob(o, k) \/ RequestDelete(o, k)
           \/ RetryAllDead(o)
  <2>1. UNCHANGED <<vars, offers, deleted>>
    BY <1>1, ArrivalType, Zenon
  <2>2. PICK D, f, kind, call : /\ Request(o, kind, call, f) /\ DOMAIN f = D
                                /\ \A j \in D : Exists(j)
    <3>1. CASE \E k \in Jobs : RetryJob(o, k) \/ KillJob(o, k) \/ RequestDelete(o, k)
      BY <3>1 DEF RetryJob, KillJob, RequestDelete
    <3>2. CASE RetryAllDead(o)
      <4>1. PICK page \in List("dead") :
              Request(o, "retryAll", "requeue",
                      [k \in {j \in page : CanRequeue(docs[j])} |-> Requeue(docs[k])])
        BY <3>2, Zenon DEF RetryAllDead
      <4>2. \A j \in {i \in page : CanRequeue(docs[i])} : Exists(j)
        BY DeadPage, Zenon
      <4> QED
        BY <4>1, <4>2, Zenon
    <3> QED
      BY <1>1, <3>1, <3>2, Zenon
  <2>3. todo'[o] = f /\ \A q \in Operators \ {o} : todo'[q] = todo[q]
    BY <1>0, <2>2, Zenon DEF Request
  <2> QED
    BY <2>1, <2>2, <2>3, Zenon DEF vars, store, workerVars, Exists
<1>2. ASSUME NEW k, Wrote(o, k)
      PROVE  \A q \in Operators : DOMAIN todo'[q] \subseteq DOMAIN todo[q]
  BY <1>0, <1>2, Zenon DEF Wrote
<1>3. CASE AbandonRequest(o) \/ \E k \in Jobs : RequeueFails(o, k)
  <2>1. UNCHANGED <<store, used, workerVars, runs, requests, offers, deleted>>
    BY <1>3, FaultType, Zenon
  <2>2. \A q \in Operators : DOMAIN todo'[q] \subseteq DOMAIN todo[q]
    <3>1. CASE AbandonRequest(o)
      <4>1. DOMAIN <<>> = {}
        OBVIOUS
      <4> QED
        BY <1>0, <3>1, <4>1, Zenon DEF AbandonRequest
    <3>2. CASE \E k \in Jobs : RequeueFails(o, k)
      BY <1>2, <3>2, Zenon DEF RequeueFails
    <3> QED
      BY <1>3, <3>1, <3>2, Zenon
  <2> QED
    BY <2>1, <2>2, Zenon DEF store, workerVars, Exists
<1>4. ASSUME NEW k \in Jobs,
             \/ RequeueWrite(o, k) \/ OperatorKillClear(o, k)
             \/ OperatorKillWrite(o, k) \/ DeleteWrite(o, k)
      PROVE  /\ UNCHANGED <<used, pc, job>>
             /\ \A j \in Jobs : Exists(j)' => Exists(j)
             /\ \A q \in Operators : DOMAIN todo'[q] \subseteq DOMAIN todo[q]
             /\ \A j \in deleted' : j \in deleted \/ j \in DOMAIN todo[o]
  <2>1. /\ UNCHANGED <<used, workerVars>>
        /\ deleted' = deleted \/ (DeleteWrite(o, k) /\ deleted' = deleted \cup {k})
    BY <1>4, Zenon DEF RequeueWrite, OperatorKillClear, OperatorKillWrite, DeleteWrite
  <2>2. \A q \in Operators : DOMAIN todo'[q] \subseteq DOMAIN todo[q]
    BY <1>2, <1>4, Zenon DEF RequeueWrite, OperatorKillClear, OperatorKillWrite, DeleteWrite
  <2>3. \A j \in Jobs : Exists(j)' => Exists(j)
    <3>1. CASE RequeueWrite(o, k) \/ OperatorKillWrite(o, k)
      <4>1. \E s, r, n, e, d : TransitionLua(k, s, r, n, e, d)
        BY <3>1, Zenon DEF RequeueWrite, OperatorKillWrite
      <4> QED
        BY <1>0, <4>1, BornOfScript, Zenon
    <3>2. CASE OperatorKillClear(o, k) \/ DeleteWrite(o, k)
      <4>1. \A j \in Jobs : docs'[j] = docs[j] \/ docs'[j] = NoDoc
        BY <1>0, <3>2, Zenon
        DEF OperatorKillClear, DeleteWrite, ClearMembership, DeleteJob, TypeOK, StoreTypeOK
      <4> QED
        BY <4>1 DEF Exists, NoDoc
    <3> QED
      BY <1>4, <3>1, <3>2, Zenon
  <2>4. DeleteWrite(o, k) => k \in DOMAIN todo[o]
    BY Zenon DEF DeleteWrite
  <2> QED
    BY <2>1, <2>2, <2>3, <2>4, Zenon DEF workerVars
<1> QED
  BY <1>1, <1>3, <1>4, OperatorCases, Zenon

\* Every step keeps KnownInv.
LEMMA KnownStep ==
  ASSUME InspectorTypeOK, KnownInv, [InspectorNext]_allVars
  PROVE  KnownInv'
<1>0. /\ TypeOK /\ InspectorTypeOK' /\ job \in [Workers -> Jobs] /\ job' \in [Workers -> Jobs]
      /\ \A o \in Operators : DOMAIN todo'[o] \in SUBSET Jobs
  <2>1. InspectorTypeOK'
    BY InspectorTypeStep, Zenon
  <2>2. \A o \in Operators : todo'[o] \in Copies
    BY <2>1, Zenon DEF InspectorTypeOK, OperatorOK
  <2> QED
    BY <2>1, <2>2, CopiesType, Zenon DEF InspectorTypeOK, TypeOK
<1>1. CASE Next /\ CountOffers /\ UNCHANGED <<op, todo, requests, deleted>>
  <2>1. /\ used \subseteq used'
        /\ \A j \in Jobs : Born(j)
        /\ \A v \in Workers : Employed(v)
    BY <1>0, <1>1, BornStep, Zenon
  <2>2. \A j \in Jobs : Exists(j)' => j \in used'
    BY <2>1 DEF KnownInv, Born, SavesLease, Busy
  <2>3. \A w \in Workers : Busy(w)' => job'[w] \in used'
    BY <1>0, <2>1, Zenon DEF KnownInv, Employed
  <2> QED
    BY <1>1, <2>1, <2>2, <2>3, Zenon DEF KnownInv
<1>2. ASSUME NEW o \in Operators, OperatorStep(o) PROVE KnownInv'
  <2>1. /\ UNCHANGED <<used, pc, job>>
        /\ \A j \in Jobs : Exists(j)' => Exists(j)
        /\ \A q \in Operators : \A j \in DOMAIN todo'[q] : j \in DOMAIN todo[q] \/ Exists(j)
        /\ \A j \in deleted' : j \in deleted \/ j \in DOMAIN todo[o]
    BY <1>2, BornOperator, Zenon
  <2>2. \A q \in Operators : DOMAIN todo'[q] \subseteq used'
    BY <1>0, <2>1, Zenon DEF KnownInv
  <2> QED
    BY <2>1, <2>2, Zenon DEF KnownInv, Busy
<1>3. CASE UNCHANGED allVars
  BY <1>3, Zenon DEF allVars, inspectorVars, vars, store, workerVars, KnownInv, Exists, Busy
<1> QED
  BY <1>1, <1>2, <1>3, Zenon DEF InspectorNext, Beside

\* A deleted job comes back only when the worker that had claimed it before
\* saves its lease (Process, JobRepo.Save): every script looks for the document
\* before it writes one, and ids are not handed out twice.
THEOREM Resurrection == InspectorSpec => OnlySaveResurrects
<1>1. InspectorInit => KnownInv
  <2> SUFFICES ASSUME InspectorInit PROVE KnownInv
    OBVIOUS
  <2>1. DOMAIN <<>> = {}
    OBVIOUS
  <2> QED
    BY <2>1, Zenon DEF InspectorInit, Init, StoreInit, NoDoc, KnownInv, Exists, Busy
<1>2. InspectorTypeOK /\ KnownInv /\ [InspectorNext]_allVars => KnownInv'
  BY KnownStep, Zenon
<1>3. InspectorTypeOK /\ KnownInv /\ [InspectorNext]_allVars =>
        [\A j \in deleted :
           ~Exists(j) /\ Exists(j)' =>
             \E w \in Workers : job[w] = j /\ pc[w] = "leased" /\ pc'[w] = "saved"]_allVars
  <2> SUFFICES ASSUME InspectorTypeOK, KnownInv, InspectorNext,
                      NEW j \in deleted, ~Exists(j), Exists(j)'
               PROVE  \E w \in Workers : job[w] = j /\ pc[w] = "leased" /\ pc'[w] = "saved"
    OBVIOUS
  <2>1. j \in Jobs /\ j \in used /\ TypeOK
    BY Zenon DEF InspectorTypeOK, OperatorOK, KnownInv
  <2>2. CASE Next
    BY <2>1, <2>2, BornStep, Zenon DEF Born, SavesLease
  <2>3. CASE \E o \in Operators : OperatorStep(o)
    BY <2>1, <2>3, BornOperator, Zenon
  <2> QED
    BY <2>2, <2>3, Zenon DEF InspectorNext, Beside
<1> QED
  BY <1>1, <1>2, <1>3, InspectorTypes, PTL DEF InspectorSpec, OnlySaveResurrects

-----------------------------------------------------------------------------
(* A job that is through stays so.                                         *)

\* A step leaves job j where it lies: its document is not rewritten, though it
\* may go, and the job enters no set.
Lies(j) ==
  /\ docs'[j] = docs[j] \/ docs'[j] = NoDoc
  /\ \A s \in JobState : zset[s][j] = Absent => zset'[s][j] = Absent

\* Scripts that move another job leave it alone.
LEMMA LiesElsewhere ==
  ASSUME TypeOK, NEW j \in Jobs, NEW k \in Jobs, j # k,
         NEW s \in JobState, NEW r \in JobState, NEW n, NEW e, NEW d, NEW w, NEW B,
         \/ EnqueueLua(k, s, n, d) \/ TransitionLua(k, s, r, n, e, d)
         \/ DequeueLua(k, B, w, n) \/ ClearMembership(k) \/ DeleteJob(k)
  PROVE  Lies(j)
<1>1. /\ docs \in [Jobs -> Job(Workers) \cup {NoDoc}]
      /\ zset \in [JobState -> [Jobs -> Nat \cup {Absent}]]
  BY Zenon DEF TypeOK, StoreTypeOK
<1>2. \A t \in JobState : zset[t] \in [Jobs -> Nat \cup {Absent}]
  BY <1>1, Zenon
<1>3. docs'[j] = docs[j]
  BY <1>1, Zenon DEF EnqueueLua, TransitionLua, DequeueLua, ClearMembership, DeleteJob
<1>4. CASE EnqueueLua(k, s, n, d) \/ TransitionLua(k, s, r, n, e, d)
  BY <1>1, <1>2, <1>3, <1>4 DEF EnqueueLua, TransitionLua, Lies
<1>5. CASE DequeueLua(k, B, w, n)
  <2>1. "pending" \in JobState /\ "active" \in JobState
    BY DEF JobState
  <2> QED
    BY <1>1, <1>2, <1>3, <1>5, <2>1 DEF DequeueLua, Lies
<1>6. CASE ClearMembership(k) \/ DeleteJob(k)
  BY <1>2, <1>3, <1>6, Zenon DEF ClearMembership, DeleteJob, Lies
<1> QED
  BY <1>4, <1>5, <1>6, Zenon

\* No worker, sweep or producer takes up a job that nobody holds and that is in
\* no working set.
LEMMA LiesStep ==
  ASSUME TypeOK, [Next]_vars, NEW j \in Jobs, j \in used, Members(j) \subseteq {"completed"},
         \A w \in Workers : Busy(w) => job[w] # j
  PROVE  Lies(j) /\ j \in used' /\ \A w \in Workers : Busy(w)' => job'[w] # j
<1>1. /\ docs \in [Jobs -> Job(Workers) \cup {NoDoc}]
      /\ zset \in [JobState -> [Jobs -> Nat \cup {Absent}]]
      /\ job \in [Workers -> Jobs] /\ pc \in [Workers -> {"idle", "leased", "saved", "running", "killing"}]
  BY Zenon DEF TypeOK, StoreTypeOK
<1>2. \A s \in JobState \ {"completed"} : zset[s][j] = Absent
  BY Zenon DEF Members
<1>3. /\ {"scheduled", "pending", "active", "retrying", "completed", "dead"} = JobState
      /\ {"scheduled", "pending", "active", "retrying"} \subseteq JobState \ {"completed"}
  BY DEF JobState
<1>4. j \in used'
  BY BornStep, Zenon
\* A worker that is through works on nothing; the others go on.
<1>5. ASSUME NEW w \in Workers, Done(w), NEW v \in Workers, Busy(v)'
      PROVE  job'[v] # j
  BY <1>1, <1>5, Zenon DEF Done, Goto, Busy
<1>6. ASSUME NEW k \in Jobs, NEW later \in BOOLEAN, Enqueue(k, later)
      PROVE  Lies(j) /\ \A v \in Workers : Busy(v)' => job'[v] # j
  <2>1. k # j /\ UNCHANGED workerVars
    BY <1>6, Zenon DEF Enqueue
  <2>2. NewJob(later).state \in JobState
    BY <1>3 DEF NewJob
  <2>3. Lies(j)
    BY <1>6, <2>1, <2>2, LiesElsewhere, Zenon DEF Enqueue
  <2> QED
    BY <2>1, <2>3, Zenon DEF workerVars, Busy
\* A claim takes an entry of pending, which is another job's.
<1>7. ASSUME NEW w \in Workers, NEW k \in Jobs, NEW B, DequeueLua(k, B, w, LeaseExpiry)
      PROVE  k # j /\ Lies(j)
  <2>1. k # j
    BY <1>2, <1>3, <1>7, Zenon DEF DequeueLua, In
  <2> QED
    BY <1>3, <1>7, <2>1, LiesElsewhere, Zenon
<1>8. ASSUME NEW w \in Workers, NEW k \in Jobs, Claim(w, k)
      PROVE  Lies(j) /\ \A v \in Workers : Busy(v)' => job'[v] # j
  <2>1. k # j /\ Lies(j)
    BY <1>7, <1>8, Zenon DEF Claim
  <2>2. CASE UNCHANGED workerVars
    BY <2>1, <2>2, Zenon DEF workerVars, Busy
  <2>3. CASE Goto(w, "leased") /\ job' = [job EXCEPT ![w] = k]
    BY <1>1, <2>1, <2>3, Zenon DEF Goto, Busy
  <2> QED
    BY <1>8, <2>1, <2>2, <2>3, Zenon DEF Claim
<1>9. ASSUME NEW w \in Workers, SaveLease(w)
      PROVE  Lies(j) /\ \A v \in Workers : Busy(v)' => job'[v] # j
  <2>1. job[w] # j
    BY <1>9, Zenon DEF SaveLease, Busy
  <2> QED
    BY <1>1, <1>9, <2>1, Zenon DEF SaveLease, SaveDoc, Goto, Busy, Lies
<1>10. ASSUME NEW w \in Workers, StartHandler(w) \/ KillClear(w)
       PROVE  Lies(j) /\ \A v \in Workers : Busy(v)' => job'[v] # j
  <2>1. job[w] # j /\ job[w] \in Jobs
    BY <1>1, <1>10, Zenon DEF StartHandler, KillClear, Busy
  <2>2. CASE StartHandler(w)
    BY <1>1, <2>1, <2>2, Zenon DEF StartHandler, store, Goto, Busy, Lies
  <2>3. CASE KillClear(w)
    <3>1. Lies(j)
      BY <1>3, <2>1, <2>3, LiesElsewhere, Zenon DEF KillClear
    <3> QED
      BY <1>1, <2>1, <2>3, <3>1, Zenon DEF KillClear, Goto, Busy
  <2> QED
    BY <1>10, <2>2, <2>3, Zenon
<1>11. ASSUME NEW w \in Workers, CompleteJob(w) \/ RetryLater(w) \/ KillWrite(w) \/ Abandon(w)
       PROVE  Lies(j) /\ \A v \in Workers : Busy(v)' => job'[v] # j
  <2>1. job[w] # j /\ job[w] \in Jobs /\ Done(w)
    BY <1>1, <1>11, Zenon DEF CompleteJob, RetryLater, KillWrite, Abandon, Busy
  <2>2. CASE Abandon(w)
    BY <1>5, <2>1, <2>2, Zenon DEF Abandon, store, Lies
  <2>3. CASE CompleteJob(w) \/ RetryLater(w) \/ KillWrite(w)
    <3>1. \E s, r \in JobState : \E n, e, d : TransitionLua(job[w], s, r, n, e, d)
      BY <1>3, <2>3, Zenon DEF CompleteJob, RetryLater, KillWrite
    <3> QED
      BY <1>5, <2>1, <3>1, LiesElsewhere, Zenon
  <2> QED
    BY <1>11, <2>2, <2>3, Zenon
<1>12. ASSUME NEW w \in Workers, NEW k \in Jobs, DequeueReplyLost(w, k)
       PROVE  Lies(j) /\ \A v \in Workers : Busy(v)' => job'[v] # j
  BY <1>7, <1>12, Zenon DEF DequeueReplyLost, workerVars, Busy
\* The sweeps take entries whose time has come.
<1>13. ASSUME Sweep
       PROVE  Lies(j) /\ \A v \in Workers : Busy(v)' => job'[v] # j
  <2>1. UNCHANGED workerVars
    BY <1>13, Zenon DEF Sweep, Promote, Reclaim, Purge
  <2>2. ASSUME \E s \in {"scheduled", "retrying", "active"} : \E B \in Batch(s) : ToPendingLua(s, B)
        PROVE  Lies(j)
    <3>1. PICK s \in {"scheduled", "retrying", "active"} :
            \E B \in Batch(s) : ToPendingLua(s, B)
      BY <2>2, Zenon
    <3>2. PICK B \in Batch(s) : ToPendingLua(s, B)
      BY <3>1, Zenon
    <3>3. j \notin B
      <4>1. zset[s][j] = Absent
        BY <1>2, <1>3, <3>1, Zenon
      <4>2. Absent # 0
        BY DEF Absent
      <4> QED
        BY <3>2, <4>1, <4>2, Zenon DEF Batch, Due
    <3>4. docs'[j] = docs[j]
      BY <3>2, <3>3, Zenon DEF ToPendingLua
    <3>5. ASSUME NEW t \in JobState, zset[t][j] = Absent PROVE zset'[t][j] = Absent
      <4>1. s \in JobState /\ "pending" \in JobState
        BY <1>3, <3>1, Zenon
      <4> QED
        BY <1>1, <3>2, <3>3, <3>5, <4>1 DEF ToPendingLua
    <3> QED
      BY <3>4, <3>5, Zenon DEF Lies
  <2>3. ASSUME \E B : PurgeCompletedLua(B)
        PROVE  Lies(j)
    <3>1. PICK B : PurgeCompletedLua(B)
      BY <2>3, Zenon
    <3>2. docs'[j] = docs[j] \/ docs'[j] = NoDoc
      BY <3>1, Zenon DEF PurgeCompletedLua
    <3>3. ASSUME NEW t \in JobState, zset[t][j] = Absent PROVE zset'[t][j] = Absent
      BY <1>1, <3>1, <3>3, SMT DEF PurgeCompletedLua
    <3> QED
      BY <3>2, <3>3, Zenon DEF Lies
  <2>4. Lies(j)
    BY <1>13, <2>2, <2>3, Zenon DEF Sweep, Promote, Reclaim, Purge
  <2> QED
    BY <2>1, <2>4, Zenon DEF workerVars, Busy
<1>14. ASSUME Tick \/ UNCHANGED vars \/ \E w \in Workers : Dequeue(w) /\ FindNothing
       PROVE  Lies(j) /\ \A v \in Workers : Busy(v)' => job'[v] # j
  <2>1. UNCHANGED <<pc, job>>
    BY <1>14, Zenon DEF Tick, vars, workerVars, Dequeue, FindNothing
  <2>2. ASSUME Tick PROVE Lies(j)
    <3>1. TickDown(Absent) = Absent
      BY DEF TickDown, Absent
    <3>2. docs'[j] = docs[j] \/ docs'[j] = NoDoc
      BY <2>2, Zenon DEF Tick, StoreTick
    <3>3. \A s \in JobState : zset'[s][j] = TickDown(zset[s][j])
      BY <2>2, Zenon DEF Tick, StoreTick
    <3> QED
      BY <3>1, <3>2, <3>3, Zenon DEF Lies
  <2>3. ASSUME UNCHANGED vars PROVE Lies(j)
    <3>1. docs' = docs /\ zset' = zset
      BY <2>3, Zenon DEF vars, store
    <3> QED
      BY <3>1, Zenon DEF Lies
  <2>4. ASSUME \E w \in Workers : Dequeue(w) /\ FindNothing
        PROVE  Lies(j)
    <3>1. docs' = docs /\ zset' = [zset EXCEPT !["pending"] = [k \in Jobs |-> Absent]]
      BY <2>4, Zenon DEF FindNothing, DrainOrphansLua
    <3>2. ASSUME NEW t \in JobState, zset[t][j] = Absent PROVE zset'[t][j] = Absent
      BY <1>1, <3>1, <3>2, SMT
    <3> QED
      BY <3>1, <3>2, Zenon DEF Lies
  <2>5. Lies(j)
    BY <1>14, <2>2, <2>3, <2>4, Zenon
  <2> QED
    BY <2>1, <2>5, Zenon DEF Busy
<1>15. CASE \/ \E k \in Jobs, later \in BOOLEAN : Enqueue(k, later)
            \/ \E w \in Workers, k \in Jobs : DequeueReplyLost(w, k)
            \/ Sweep \/ Tick \/ UNCHANGED vars
  BY <1>4, <1>6, <1>12, <1>13, <1>14, <1>15, Zenon
<1>16. CASE \E w \in Workers : WorkerStep(w) \/ Abandon(w)
  BY <1>4, <1>8, <1>9, <1>10, <1>11, <1>14, <1>16, Zenon DEF WorkerStep, Dequeue
<1> QED
  BY <1>15, <1>16, Zenon DEF Next

\* No operator takes it up either: the aggregate refuses to requeue or kill it
\* (CanRequeue, CanKill), and only a deletion of it may be under way.
LEMMA ThroughOperator ==
  ASSUME InspectorTypeOK, NEW o \in Operators, OperatorStep(o), NEW j \in Jobs, Through(j)
  PROVE  Lies(j) /\ \A q \in Operators : j \in DOMAIN todo'[q] => op'[q] = "delete"
<1>0. /\ TypeOK /\ todo \in [Operators -> Copies]
      /\ op \in [Operators -> {"none", "requeue", "killClear", "killWrite", "delete"}]
  BY Zenon DEF InspectorTypeOK, OperatorOK
<1>1. Exists(j) => ~CanRequeue(docs[j]) /\ ~CanKill(docs[j])
  BY DEF Through, Exists, CanRequeue, CanKill, CanTransitionTo, allowedTransitions
<1>2. CASE \/ \E k \in Jobs : RetryJob(o, k) \/ KillJob(o, k) \/ RequestDelete(o, k)
           \/ RetryAllDead(o)
  <2>1. Lies(j)
    BY <1>2, ArrivalType, Zenon DEF vars, store, Lies
  <2>2. ASSUME NEW kind, NEW call, NEW f, Request(o, kind, call, f),
               j \in DOMAIN f => call = "delete"
        PROVE  \A q \in Operators : j \in DOMAIN todo'[q] => op'[q] = "delete"
    <3>1. /\ todo'[o] = f /\ op'[o] = call
          /\ \A q \in Operators \ {o} : todo'[q] = todo[q] /\ op'[q] = op[q]
      BY <1>0, <2>2, Zenon DEF Request
    <3> QED
      BY <2>2, <3>1, Zenon DEF Through
  <2>3. ASSUME NEW k \in Jobs, RetryJob(o, k) \/ KillJob(o, k) \/ RequestDelete(o, k)
        PROVE  \A q \in Operators : j \in DOMAIN todo'[q] => op'[q] = "delete"
    <3>1. CASE RequestDelete(o, k)
      BY <2>2, <3>1, Zenon DEF RequestDelete
    <3>2. CASE RetryJob(o, k)
      <4>1. k # j
        BY <1>1, <3>2, Zenon DEF RetryJob
      <4>2. j \notin DOMAIN [i \in {k} |-> Requeue(docs[i])]
        BY <4>1, Zenon
      <4> QED
        BY <2>2, <3>2, <4>2, Zenon DEF RetryJob
    <3>3. CASE KillJob(o, k)
      <4>1. k # j
        BY <1>1, <3>3, Zenon DEF KillJob
      <4>2. j \notin DOMAIN [i \in {k} |-> Kill(docs[i])]
        BY <4>1, Zenon
      <4> QED
        BY <2>2, <3>3, <4>2, Zenon DEF KillJob
    <3> QED
      BY <2>3, <3>1, <3>2, <3>3, Zenon
  <2>4. CASE RetryAllDead(o)
    <3>1. PICK page \in List("dead") :
            Request(o, "retryAll", "requeue",
                    [k \in {i \in page : CanRequeue(docs[i])} |-> Requeue(docs[k])])
      BY <2>4, Zenon DEF RetryAllDead
    <3>2. j \notin DOMAIN [k \in {i \in page : CanRequeue(docs[i])} |-> Requeue(docs[k])]
      BY <1>1, DeadPage, Zenon
    <3> QED
      BY <2>1, <2>2, <3>1, <3>2, Zenon
  <2> QED
    BY <1>2, <2>1, <2>3, <2>4, Zenon
\* What a request still has to write only shrinks, and it does not turn into
\* another one.
<1>3. ASSUME NEW k, Wrote(o, k), op[o] \in {"requeue", "killWrite", "delete"}
      PROVE  \A q \in Operators : j \in DOMAIN todo'[q] => op'[q] = "delete"
  <2>1. /\ DOMAIN todo'[o] = DOMAIN todo[o] \ {k}
        /\ op'[o] = IF DOMAIN todo[o] = {k} THEN "none" ELSE op[o]
        /\ \A q \in Operators \ {o} : todo'[q] = todo[q] /\ op'[q] = op[q]
    BY <1>0, <1>3, Zenon DEF Wrote
  <2> QED
    BY <2>1, Zenon DEF Through
<1>4. CASE AbandonRequest(o)
  <2>1. DOMAIN <<>> = {}
    OBVIOUS
  <2>2. /\ todo'[o] = <<>>
        /\ \A q \in Operators \ {o} : todo'[q] = todo[q] /\ op'[q] = op[q]
    BY <1>0, <1>4, Zenon DEF AbandonRequest
  <2> QED
    BY <1>4, <2>1, <2>2, Zenon DEF AbandonRequest, store, Lies, Through
<1>5. ASSUME NEW k \in Jobs, RequeueFails(o, k)
      PROVE  Lies(j) /\ \A q \in Operators : j \in DOMAIN todo'[q] => op'[q] = "delete"
  BY <1>3, <1>5, Zenon DEF RequeueFails, store, Lies
<1>6. ASSUME NEW k \in Jobs, RequeueWrite(o, k) \/ OperatorKillWrite(o, k)
      PROVE  Lies(j) /\ \A q \in Operators : j \in DOMAIN todo'[q] => op'[q] = "delete"
  <2>1. k # j
    BY <1>6 DEF RequeueWrite, OperatorKillWrite, Through
  <2>2. \E s, r \in JobState : \E n, e, d : TransitionLua(k, s, r, n, e, d)
    <3>1. {"pending", "dead"} \subseteq JobState
      BY DEF JobState
    <3> QED
      BY <1>6, <3>1, Zenon DEF RequeueWrite, OperatorKillWrite
  <2>3. Lies(j)
    BY <1>0, <2>1, <2>2, LiesElsewhere, Zenon
  <2> QED
    BY <1>3, <1>6, <2>3, Zenon DEF RequeueWrite, OperatorKillWrite
<1>7. ASSUME NEW k \in Jobs, OperatorKillClear(o, k)
      PROVE  Lies(j) /\ \A q \in Operators : j \in DOMAIN todo'[q] => op'[q] = "delete"
  <2>1. k # j /\ "pending" \in JobState
    BY <1>7 DEF OperatorKillClear, Through, JobState
  <2>2. Lies(j)
    BY <1>0, <1>7, <2>1, LiesElsewhere, Zenon DEF OperatorKillClear
  <2>3. j \notin DOMAIN todo[o]
    BY <1>7 DEF OperatorKillClear, Through
  <2>4. todo' = todo /\ \A q \in Operators \ {o} : op'[q] = op[q]
    BY <1>0, <1>7, Zenon DEF OperatorKillClear
  <2> QED
    BY <2>2, <2>3, <2>4, Zenon DEF Through
<1>8. ASSUME NEW k \in Jobs, DeleteWrite(o, k)
      PROVE  Lies(j) /\ \A q \in Operators : j \in DOMAIN todo'[q] => op'[q] = "delete"
  <2>1. Lies(j)
    <3>1. CASE k # j
      <4>1. "pending" \in JobState
        BY DEF JobState
      <4> QED
        BY <1>0, <1>8, <3>1, <4>1, LiesElsewhere, Zenon DEF DeleteWrite
    <3>2. CASE k = j
      <4>1. /\ docs \in [Jobs -> Job(Workers) \cup {NoDoc}]
            /\ \A s \in JobState : zset[s] \in [Jobs -> Nat \cup {Absent}]
        BY <1>0, Zenon DEF TypeOK, StoreTypeOK
      <4> QED
        BY <1>8, <3>2, <4>1, Zenon DEF DeleteWrite, DeleteJob, Lies
    <3> QED
      BY <3>1, <3>2, Zenon
  <2> QED
    BY <1>3, <1>8, <2>1, Zenon DEF DeleteWrite
<1> QED
  BY <1>2, <1>4, <1>5, <1>6, <1>7, <1>8, OperatorCases, Zenon

\* Once a job is completed, and nobody is left who read it before that, no
\* operator, worker, sweep or fault takes it up again, however many there are:
\* the aggregate refuses (job_state.go), and no script puts a job into a set
\* that was in none.
THEOREM CompletionIsFinal == InspectorSpec => ThroughIsFinal
<1>1. InspectorTypeOK /\ [InspectorNext]_allVars =>
        [\A j \in Jobs : Through(j) => Through(j)']_allVars
  <2> SUFFICES ASSUME InspectorTypeOK, InspectorNext, NEW j \in Jobs, Through(j)
               PROVE  Through(j)'
    OBVIOUS
  <2>1. Lies(j) => docs'[j].state \in {"completed", "none"} /\ Members(j)' \subseteq {"completed"}
    BY DEF Lies, Through, NoDoc, Members
  <2>2. CASE Next /\ Beside
    <3>1. Lies(j) /\ j \in used' /\ \A w \in Workers : Busy(w)' => job'[w] # j
      BY <2>2, LiesStep, Zenon DEF Through, InspectorTypeOK
    <3>2. \A o \in Operators : j \in DOMAIN todo'[o] => op'[o] = "delete"
      BY <2>2, Zenon DEF Beside, Through
    <3> QED
      BY <2>1, <3>1, <3>2, Zenon DEF Through
  <2>3. ASSUME NEW o \in Operators, OperatorStep(o) PROVE Through(j)'
    <3>1. Lies(j) /\ \A q \in Operators : j \in DOMAIN todo'[q] => op'[q] = "delete"
      BY <2>3, ThroughOperator, Zenon
    <3>2. UNCHANGED <<used, pc, job>>
      BY <2>3, BornOperator, Zenon
    <3> QED
      BY <2>1, <3>1, <3>2, Zenon DEF Through, Busy
  <2> QED
    BY <2>2, <2>3, Zenon DEF InspectorNext
<1> QED
  BY <1>1, InspectorTypes, PTL DEF InspectorSpec, ThroughIsFinal

-----------------------------------------------------------------------------
(* Every execution was offered.                                            *)

\* The workers that have claimed job j and not yet started its handler.
Waiting(j) == {w \in Workers : pc[w] \in {"leased", "saved"} /\ job[w] = j}

\* The offer of job j that nobody has taken yet.
Pending(j) == IF zset["pending"][j] # Absent THEN 1 ELSE 0

\* An offer is pending, or some worker took it and is about to run the job, or
\* it was run, or it came to nothing.
OfferInv == \A j \in Jobs : runs[j] + Cardinality(Waiting(j)) + Pending(j) <= offers[j]

\* What a step does to the executions of job j: nothing; a waiting worker
\* starts one; or a worker takes the offer and waits.
NoRun(j) == runs'[j] = runs[j] /\ Waiting(j)' \subseteq Waiting(j)
Starts(w, j) ==
  /\ w \in Waiting(j) /\ runs'[j] = runs[j] + 1 /\ Waiting(j)' \subseteq Waiting(j) \ {w}
Takes(w, j) ==
  /\ runs'[j] = runs[j] /\ Waiting(j)' \subseteq Waiting(j) \cup {w}
  /\ zset["pending"][j] # Absent /\ zset'["pending"][j] = Absent

\* Every step of the workers, the sweeps and the producers is one of these.
LEMMA RunStep ==
  ASSUME TypeOK, [Next]_vars, NEW j \in Jobs
  PROVE  NoRun(j) \/ \E w \in Workers : Starts(w, j) \/ Takes(w, j)
\* A worker that goes to a place where it does not wait leaves no one waiting
\* who did not wait before.
<1>1. ASSUME TypeOK, NEW w \in Workers, NEW label \in {"idle", "running", "killing"},
             Goto(w, label), \A v \in Workers \ {w} : job'[v] = job[v]
      PROVE  Waiting(j)' \subseteq Waiting(j) \ {w}
  <2> USE <1>1
  <2>1. pc'[w] = label /\ \A v \in Workers \ {w} : pc'[v] = pc[v]
    BY Zenon DEF Goto, TypeOK
  <2> QED
    BY <2>1, Zenon DEF Waiting
\* The worker that is through with its job does not wait (Done).
<1>2. ASSUME TypeOK, NEW w \in Workers, Done(w)
      PROVE  Waiting(j)' \subseteq Waiting(j)
  <2> USE <1>2
  <2>1. Goto(w, "idle") /\ \A v \in Workers \ {w} : job'[v] = job[v]
    BY Zenon DEF Done, TypeOK
  <2>2. "idle" \in {"idle", "running", "killing"}
    OBVIOUS
  <2> QED
    BY <2>1, <2>2, <1>1, Zenon
<1>3. CASE UNCHANGED <<pc, job, runs>>
  BY <1>3, Zenon DEF NoRun, Waiting
<1>4. ASSUME NEW w \in Workers, NEW k \in Jobs, Dequeue(w), Claim(w, k)
      PROVE  NoRun(j) \/ Takes(w, j)
  <2>0. runs' = runs
    BY <1>4, Zenon DEF Dequeue
  <2>1. CASE UNCHANGED workerVars
    BY <2>0, <2>1, Zenon DEF NoRun, Waiting, workerVars
  <2>2. CASE Goto(w, "leased") /\ job' = [job EXCEPT ![w] = k]
    <3>1. /\ pc'[w] = "leased" /\ job'[w] = k
          /\ \A v \in Workers \ {w} : pc'[v] = pc[v] /\ job'[v] = job[v]
      BY <2>2, Zenon DEF Goto, TypeOK
    <3>2. Waiting(j)' \subseteq Waiting(j) \cup {w}
      BY <3>1, Zenon DEF Waiting
    <3>3. j # k => Waiting(j)' \subseteq Waiting(j)
      BY <3>1, Zenon DEF Waiting
    <3>4. PICK orphans \in SUBSET {i \in In("pending") : ~Exists(i)} :
            DequeueLua(k, orphans, w, LeaseExpiry)
      BY <1>4, Zenon DEF Claim
    <3>5. zset["pending"][k] # Absent /\ zset'["pending"][k] = Absent
      BY <3>4, Zenon DEF DequeueLua, In, TypeOK, StoreTypeOK, JobState
    <3> QED
      BY <2>0, <3>2, <3>3, <3>5, Zenon DEF NoRun, Takes
  <2> QED
    BY <1>4, <2>1, <2>2, Zenon DEF Claim
<1>5. ASSUME NEW w \in Workers, SaveLease(w) PROVE NoRun(j)
  <2>1. pc[w] = "leased" /\ \A v \in Workers \ {w} : pc'[v] = pc[v]
    BY <1>5, Zenon DEF SaveLease, Goto, TypeOK
  <2> QED
    BY <1>5, <2>1, Zenon DEF SaveLease, NoRun, Waiting
<1>6. ASSUME NEW w \in Workers, StartHandler(w) PROVE NoRun(j) \/ Starts(w, j)
  <2>1. Waiting(j)' \subseteq Waiting(j) \ {w}
    <3>1. Goto(w, "running") /\ \A v \in Workers \ {w} : job'[v] = job[v]
      BY <1>6, Zenon DEF StartHandler
    <3>2. "running" \in {"idle", "running", "killing"}
      OBVIOUS
    <3> QED
      BY <3>1, <3>2, <1>1, Zenon
  <2>2. job[w] = j => runs'[j] = runs[j] + 1 /\ w \in Waiting(j)
    BY <1>6, Zenon DEF StartHandler, TypeOK, Waiting
  <2>3. job[w] # j => runs'[j] = runs[j]
    BY <1>6, Zenon DEF StartHandler, TypeOK
  <2> QED
    BY <2>1, <2>2, <2>3, Zenon DEF NoRun, Starts
<1>7. ASSUME NEW w \in Workers, CompleteJob(w) \/ RetryLater(w) \/ KillWrite(w) \/ Abandon(w)
      PROVE  NoRun(j)
  <2>1. Done(w) /\ runs' = runs
    BY <1>7, Zenon DEF CompleteJob, RetryLater, KillWrite, Abandon
  <2> QED
    BY <2>1, <1>2, Zenon DEF NoRun
<1>8. ASSUME NEW w \in Workers, KillClear(w) PROVE NoRun(j)
  <2>1. Goto(w, "killing") /\ runs' = runs /\ \A v \in Workers \ {w} : job'[v] = job[v]
    BY <1>8, Zenon DEF KillClear
  <2>2. "killing" \in {"idle", "running", "killing"}
    OBVIOUS
  <2>3. Waiting(j)' \subseteq Waiting(j) \ {w}
    BY <2>1, <2>2, <1>1, Zenon
  <2> QED
    BY <2>1, <2>3, Zenon DEF NoRun
<1>9. ASSUME \/ \E k \in Jobs, later \in BOOLEAN : Enqueue(k, later)
             \/ \E w \in Workers : Dequeue(w) /\ FindNothing
             \/ \E w \in Workers, k \in Jobs : DequeueReplyLost(w, k)
             \/ Sweep \/ Tick \/ UNCHANGED vars
      PROVE  UNCHANGED <<pc, job, runs>>
  BY <1>9, Zenon DEF Enqueue, Dequeue, FindNothing, DequeueReplyLost, Sweep, Promote, Reclaim,
                     Purge, Tick, vars, workerVars
<1> QED
  BY <1>3, <1>4, <1>5, <1>6, <1>7, <1>8, <1>9 DEF Next, WorkerStep, Dequeue

\* The workers that wait are finitely many.
LEMMA WaitingFinite ==
  /\ IsFiniteSet(Workers)
  /\ \A S \in SUBSET Workers : IsFiniteSet(S) /\ Cardinality(S) \in Nat
<1>1. IsFiniteSet(Workers)
  BY InspectorAssumption, Zenon
<1> QED
  BY <1>1, FS_Subset, FS_CardinalityType, Zenon

\* One job, one step.
LEMMA OfferOne ==
  ASSUME InspectorTypeOK, InspectorTypeOK', OfferInv, NEW j \in Jobs,
         Pending(j)' + offers[j] <= Pending(j) + offers'[j],
         \/ NoRun(j)
         \/ \E w \in Workers : Starts(w, j)
         \/ \E w \in Workers : /\ Takes(w, j)
                               /\ Pending(j)' + 1 + offers[j] <= Pending(j) + offers'[j]
  PROVE  (runs[j] + Cardinality(Waiting(j)) + Pending(j) <= offers[j])'
\* Taking and starting, counted.
<1>1. ASSUME NEW S \in SUBSET Workers, NEW T \in SUBSET Workers, NEW w \in Workers
      PROVE  /\ S \subseteq T => Cardinality(S) <= Cardinality(T)
             /\ w \in T /\ S \subseteq T \ {w} => Cardinality(S) + 1 <= Cardinality(T)
             /\ S \subseteq T \cup {w} => Cardinality(S) <= Cardinality(T) + 1
  <2> USE <1>1
  <2>1. IsFiniteSet(T) /\ Cardinality(T) \in Nat /\ Cardinality(S) \in Nat
    BY WaitingFinite, Zenon
  <2>2. S \subseteq T => Cardinality(S) <= Cardinality(T)
    BY <2>1, FS_Subset, Zenon
  <2>3. ASSUME w \in T, S \subseteq T \ {w} PROVE Cardinality(S) + 1 <= Cardinality(T)
    <3>1. IsFiniteSet(T \ {w}) /\ Cardinality(T \ {w}) = Cardinality(T) - 1
      BY <2>1, <2>3, FS_RemoveElement, Zenon
    <3>2. Cardinality(S) <= Cardinality(T \ {w})
      BY <2>3, <3>1, FS_Subset, Zenon
    <3> QED
      BY <2>1, <3>1, <3>2
  <2>4. ASSUME S \subseteq T \cup {w} PROVE Cardinality(S) <= Cardinality(T) + 1
    <3>1. /\ IsFiniteSet(T \cup {w})
          /\ \/ Cardinality(T \cup {w}) = Cardinality(T)
             \/ Cardinality(T \cup {w}) = Cardinality(T) + 1
      BY <2>1, FS_AddElement, Zenon
    <3>2. Cardinality(S) <= Cardinality(T \cup {w})
      BY <2>4, <3>1, FS_Subset, Zenon
    <3> QED
      BY <2>1, <3>1, <3>2
  <2> QED
    BY <2>2, <2>3, <2>4, Zenon
<1>2. Waiting(j) \in SUBSET Workers /\ Waiting(j)' \in SUBSET Workers
  BY Zenon DEF Waiting
<1>3. /\ runs[j] \in Nat /\ runs'[j] \in Nat /\ offers[j] \in Nat /\ offers'[j] \in Nat
      /\ Pending(j) \in Nat /\ Pending(j)' \in Nat
  BY Zenon DEF InspectorTypeOK, TypeOK, OperatorOK, Pending
<1>4. Cardinality(Waiting(j)) \in Nat /\ Cardinality(Waiting(j)') \in Nat
  BY <1>2, WaitingFinite, Zenon
<1>5. runs[j] + Cardinality(Waiting(j)) + Pending(j) <= offers[j]
  BY Zenon DEF OfferInv
<1>6. CASE NoRun(j)
  <2>1. Cardinality(Waiting(j)') <= Cardinality(Waiting(j))
    <3>1. Waiting(j)' \subseteq Waiting(j) /\ IsFiniteSet(Waiting(j))
      BY <1>2, <1>6, WaitingFinite, Zenon DEF NoRun
    <3> QED
      BY <3>1, FS_Subset, Zenon
  <2> QED
    BY <1>3, <1>4, <1>5, <1>6, <2>1 DEF NoRun
<1>7. ASSUME NEW w \in Workers, Starts(w, j)
      PROVE  runs'[j] + Cardinality(Waiting(j)') + Pending(j)' <= offers'[j]
  <2>1. Cardinality(Waiting(j)') + 1 <= Cardinality(Waiting(j))
    BY <1>2, <1>7, <1>1, Zenon DEF Starts
  <2> QED
    BY <1>3, <1>4, <1>5, <1>7, <2>1 DEF Starts
<1>8. ASSUME NEW w \in Workers, Takes(w, j),
             Pending(j)' + 1 + offers[j] <= Pending(j) + offers'[j]
      PROVE  runs'[j] + Cardinality(Waiting(j)') + Pending(j)' <= offers'[j]
  <2>1. Cardinality(Waiting(j)') <= Cardinality(Waiting(j)) + 1
    BY <1>2, <1>8, <1>1, Zenon DEF Takes
  <2> QED
    BY <1>3, <1>4, <1>5, <1>8, <2>1 DEF Takes
<1> QED
  BY <1>6, <1>7, <1>8, Zenon

\* Every step keeps OfferInv: one step of the proof per kind of step.
LEMMA OfferStep ==
  ASSUME InspectorTypeOK, OfferInv, [InspectorNext]_allVars
  PROVE  OfferInv'
\* Counting the offers pays for every entry that comes into pending.
<1>1. ASSUME OperatorOK, CountOffers, NEW j \in Jobs
      PROVE  /\ Pending(j)' + offers[j] <= Pending(j) + offers'[j]
             /\ zset["pending"][j] # Absent /\ zset'["pending"][j] = Absent
                  => Pending(j)' + 1 + offers[j] <= Pending(j) + offers'[j]
  <2> USE <1>1
  <2>1. /\ offers[j] \in Nat
        /\ offers'[j] = IF zset'["pending"][j] # Absent /\ zset["pending"][j] = Absent
                        THEN offers[j] + 1 ELSE offers[j]
    BY Zenon DEF OperatorOK, CountOffers
  <2> QED
    BY <2>1 DEF Pending
\* An operator's step runs nothing, and what it puts into pending is counted.
<1>2. ASSUME InspectorTypeOK, NEW o \in Operators, OperatorStep(o), NEW j \in Jobs
      PROVE  NoRun(j) /\ Pending(j)' + offers[j] <= Pending(j) + offers'[j]
  <2> USE <1>2
  <2>0. OperatorOK /\ TypeOK /\ offers[j] \in Nat /\ Pending(j) \in Nat
    BY Zenon DEF InspectorTypeOK, OperatorOK, Pending
  <2>1. CASE \/ \E k \in Jobs : RetryJob(o, k) \/ KillJob(o, k) \/ RequestDelete(o, k)
             \/ RetryAllDead(o)
    <3>1. UNCHANGED <<vars, offers, deleted>>
      BY <2>1, ArrivalType, Zenon
    <3> QED
      BY <2>0, <3>1 DEF vars, store, workerVars, NoRun, Waiting, Pending
  <2>2. CASE AbandonRequest(o) \/ \E k \in Jobs : RequeueFails(o, k)
    <3>1. UNCHANGED <<store, used, workerVars, runs, requests, offers, deleted>>
      BY <2>2, FaultType, Zenon
    <3> QED
      BY <2>0, <3>1 DEF store, workerVars, NoRun, Waiting, Pending
  <2>3. ASSUME NEW k \in Jobs, RequeueWrite(o, k)
        PROVE  NoRun(j) /\ Pending(j)' + offers[j] <= Pending(j) + offers'[j]
    <3>1. CountOffers /\ UNCHANGED <<workerVars, runs>>
      BY <2>3, Zenon DEF RequeueWrite
    <3>2. NoRun(j)
      BY <3>1, Zenon DEF workerVars, NoRun, Waiting
    <3> QED
      BY <2>0, <3>1, <3>2, <1>1, Zenon
  <2>4. ASSUME NEW k \in Jobs,
               OperatorKillClear(o, k) \/ OperatorKillWrite(o, k) \/ DeleteWrite(o, k)
        PROVE  NoRun(j) /\ Pending(j)' + offers[j] <= Pending(j) + offers'[j]
    <3>1. UNCHANGED <<workerVars, runs, offers>>
      BY <2>4, Zenon DEF OperatorKillClear, OperatorKillWrite, DeleteWrite
    <3>2. zset'["pending"][j] = zset["pending"][j] \/ zset'["pending"][j] = Absent
      BY <2>0, <2>4
      DEF OperatorKillClear, OperatorKillWrite, DeleteWrite, ClearMembership, TransitionLua,
          DeleteJob, TypeOK, StoreTypeOK, JobState
    <3>3. NoRun(j)
      BY <3>1, Zenon DEF workerVars, NoRun, Waiting
    <3> QED
      BY <2>0, <3>1, <3>2, <3>3 DEF Pending
  <2> QED
    BY <2>1, <2>2, <2>3, <2>4, OperatorCases
<1>3. InspectorTypeOK' /\ TypeOK /\ OperatorOK
  BY InspectorTypeStep, Zenon DEF InspectorTypeOK
<1>4. SUFFICES ASSUME NEW j \in Jobs
               PROVE  (runs[j] + Cardinality(Waiting(j)) + Pending(j) <= offers[j])'
  BY Zenon DEF OfferInv
<1>5. CASE Next /\ CountOffers
  <2>1. NoRun(j) \/ \E w \in Workers : Starts(w, j) \/ Takes(w, j)
    BY <1>3, <1>5, RunStep, Zenon
  <2>2. /\ Pending(j)' + offers[j] <= Pending(j) + offers'[j]
        /\ \A w \in Workers : Takes(w, j)
             => Pending(j)' + 1 + offers[j] <= Pending(j) + offers'[j]
    BY <1>3, <1>5, <1>1, Zenon DEF Takes
  <2> QED
    BY <1>3, <2>1, <2>2, OfferOne, Zenon
<1>6. CASE \E o \in Operators : OperatorStep(o)
  BY <1>3, <1>6, <1>2, OfferOne, Zenon
<1>7. CASE UNCHANGED allVars
  BY <1>7, Zenon DEF allVars, inspectorVars, vars, store, workerVars, OfferInv, Waiting, Pending
<1> QED
  BY <1>5, <1>6, <1>7, Zenon DEF InspectorNext, Beside

\* Handlers start at most as often as the job was put into pending, whatever
\* operators, faults and sweeps do: dequeue.lua pops and leases in one step.
THEOREM Offered == InspectorSpec => []EveryRunWasOffered
<1>1. InspectorInit => OfferInv
  <2> SUFFICES ASSUME InspectorInit, NEW j \in Jobs
               PROVE  runs[j] + Cardinality(Waiting(j)) + Pending(j) <= offers[j]
    BY Zenon DEF OfferInv
  <2>1. Waiting(j) = {} /\ Pending(j) = 0 /\ runs[j] = 0 /\ offers[j] = 0
    BY Zenon DEF InspectorInit, Init, StoreInit, Waiting, Pending, JobState
  <2> QED
    BY <2>1, FS_EmptySet
<1>2. InspectorTypeOK /\ OfferInv => EveryRunWasOffered
  <2> SUFFICES ASSUME InspectorTypeOK, OfferInv, NEW j \in Jobs PROVE runs[j] <= offers[j]
    BY Zenon DEF EveryRunWasOffered
  <2>1. Cardinality(Waiting(j)) \in Nat
    BY WaitingFinite, Zenon DEF Waiting
  <2>2. runs[j] \in Nat /\ offers[j] \in Nat /\ Pending(j) \in Nat
    BY Zenon DEF InspectorTypeOK, TypeOK, OperatorOK, Pending
  <2> QED
    BY <2>1, <2>2 DEF OfferInv
<1>3. InspectorTypeOK /\ OfferInv /\ [InspectorNext]_allVars => OfferInv'
  BY OfferStep, Zenon
<1> QED
  BY <1>1, <1>2, <1>3, InspectorTypes, PTL DEF InspectorSpec

=============================================================================
