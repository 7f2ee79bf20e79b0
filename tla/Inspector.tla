----------------------------- MODULE Inspector ------------------------------
(***************************************************************************)
(* The operator actions of InspectorService running beside the workers and *)
(* the sweeps of Delivery.  RetryJob, KillJob and RetryAllDead read the    *)
(* documents, apply the aggregate's transition to their copies and write   *)
(* them back in later Redis calls, so an operator may write what it read   *)
(* before somebody else moved the job.                                     *)
(***************************************************************************)
EXTENDS Delivery

CONSTANTS
  Operators,   \* concurrent dashboard or API requests
  Requests,    \* the kinds of request considered
  MaxRequests, \* requests considered in one behaviour
  PageLimit    \* jobs JobRepo.List returns at most

ASSUME InspectorAssumption ==
  /\ Requests \subseteq {"retry", "retryAll", "kill", "delete"}
  /\ {MaxRequests, PageLimit} \subseteq Nat
  /\ IsFiniteSet(Workers)

VARIABLES
  op,       \* op[o]: the call request o makes next
  todo,     \* todo[o]: the copies it still has to write, by job id
  requests, \* requests so far
  offers,   \* offers[j]: times j was put into the pending set
  deleted   \* jobs an operator has deleted

inspectorVars == <<op, todo, requests, offers, deleted>>
allVars == <<vars, inspectorVars>>

InspectorInit ==
  /\ Init
  /\ op = [o \in Operators |-> "none"]
  /\ todo = [o \in Operators |-> <<>>]
  /\ requests = 0
  /\ offers = [j \in Jobs |-> 0]
  /\ deleted = {}

-----------------------------------------------------------------------------

\* Every ZADD to pending offers the job once more; bookkeeping only.
CountOffers ==
  offers' = [j \in Jobs |->
    IF zset'["pending"][j] # Absent /\ zset["pending"][j] = Absent
    THEN offers[j] + 1 ELSE offers[j]]

\* A request arrives, reads the documents and keeps the copies to write.
Request(o, kind, call, copies) ==
  /\ kind \in Requests
  /\ op[o] = "none"
  /\ requests < MaxRequests
  /\ requests' = requests + 1
  /\ op' = [op EXCEPT ![o] = call]
  /\ todo' = [todo EXCEPT ![o] = copies]
  /\ UNCHANGED <<vars, offers, deleted>>

\* RetryJob up to the write: FindByID, then Job.Requeue.
RetryJob(o, j) ==
  /\ Exists(j) /\ CanRequeue(docs[j])
  /\ Request(o, "retry", "requeue", [k \in {j} |-> Requeue(docs[k])])

\* JobRepo.loadMany skips the ids whose document is gone.
loadMany(ids) == {j \in ids : Exists(j)}

\* JobRepo.List of one state: the documents of the first page of the set.
List(s) ==
  {loadMany(page) : page \in {P \in SUBSET In(s) :
     Cardinality(P) <= PageLimit /\ (P = In(s) \/ Cardinality(P) = PageLimit)}}

\* RetryAllDead up to its loop: the listed dead jobs, each through Requeue.
\* Catalog has the calls of the listing one by one.
RetryAllDead(o) ==
  \E page \in List("dead") :
    LET dead == {j \in page : CanRequeue(docs[j])}
    IN  /\ dead # {}
        /\ Request(o, "retryAll", "requeue", [k \in dead |-> Requeue(docs[k])])

\* KillJob up to its first write: FindByID, then Job.Kill.
KillJob(o, j) ==
  /\ Exists(j) /\ CanKill(docs[j])
  /\ Request(o, "kill", "killClear", [k \in {j} |-> Kill(docs[k])])

\* DeleteJob: JobRepo.Delete reads the document to learn its queue.
RequestDelete(o, j) ==
  /\ Exists(j)
  /\ Request(o, "delete", "delete", [k \in {j} |-> docs[k]])

\* One write done; the request ends with its last one.
Wrote(o, j) ==
  /\ todo' = [todo EXCEPT ![o] = [k \in DOMAIN todo[o] \ {j} |-> todo[o][k]]]
  /\ op' = [op EXCEPT ![o] = IF DOMAIN todo[o] = {j} THEN "none" ELSE @]

\* JobBroker.Requeue.
RequeueWrite(o, j) ==
  /\ op[o] = "requeue" /\ j \in DOMAIN todo[o]
  /\ TransitionLua(j, "dead", "pending", 0, NoTTL, todo[o][j])
  /\ Wrote(o, j)
  /\ CountOffers
  /\ UNCHANGED <<used, workerVars, runs, faults, requests, deleted>>

\* JobBroker.Kill, in two calls.
OperatorKillClear(o, j) ==
  /\ op[o] = "killClear" /\ j \in DOMAIN todo[o]
  /\ ClearMembership(j)
  /\ op' = [op EXCEPT ![o] = "killWrite"]
  /\ UNCHANGED <<used, workerVars, runs, faults, todo, requests, offers, deleted>>

OperatorKillWrite(o, j) ==
  /\ op[o] = "killWrite" /\ j \in DOMAIN todo[o]
  /\ TransitionLua(j, "pending", "dead", 0, NoTTL, todo[o][j])
  /\ Wrote(o, j)
  /\ UNCHANGED <<used, workerVars, runs, faults, requests, offers, deleted>>

DeleteWrite(o, j) ==
  /\ op[o] = "delete" /\ j \in DOMAIN todo[o]
  /\ DeleteJob(j)
  /\ Wrote(o, j)
  /\ deleted' = deleted \cup {j}
  /\ UNCHANGED <<used, workerVars, runs, faults, requests, offers>>

\* A call of the request fails, or the server dies between two calls.
AbandonRequest(o) ==
  /\ op[o] # "none"
  /\ faults < MaxFaults
  /\ faults' = faults + 1
  /\ op' = [op EXCEPT ![o] = "none"]
  /\ todo' = [todo EXCEPT ![o] = <<>>]
  /\ UNCHANGED <<store, used, workerVars, runs, requests, offers, deleted>>

\* RetryAllDead goes on with the next job when one write fails.
RequeueFails(o, j) ==
  /\ op[o] = "requeue" /\ j \in DOMAIN todo[o]
  /\ faults < MaxFaults
  /\ faults' = faults + 1
  /\ Wrote(o, j)
  /\ UNCHANGED <<store, used, workerVars, runs, requests, offers, deleted>>

-----------------------------------------------------------------------------

OperatorStep(o) ==
  \/ \E j \in Jobs : RetryJob(o, j)
  \/ RetryAllDead(o)
  \/ \E j \in Jobs : KillJob(o, j)
  \/ \E j \in Jobs : RequestDelete(o, j)
  \/ \E j \in Jobs : RequeueWrite(o, j)
  \/ \E j \in Jobs : RequeueFails(o, j)
  \/ \E j \in Jobs : OperatorKillClear(o, j)
  \/ \E j \in Jobs : OperatorKillWrite(o, j)
  \/ \E j \in Jobs : DeleteWrite(o, j)
  \/ AbandonRequest(o)

\* What a step of a worker, a sweep or a producer leaves to the operators.
Beside == CountOffers /\ UNCHANGED <<op, todo, requests, deleted>>

InspectorNext ==
  \/ Next /\ Beside
  \/ \E o \in Operators : OperatorStep(o)

InspectorSpec == InspectorInit /\ [][InspectorNext]_allVars

\* A request that has started makes its next call, unless it fails.
FairInspectorSpec ==
  /\ InspectorSpec
  /\ WF_allVars(Tick /\ Beside)
  /\ \A w \in Workers : WF_allVars(WorkerStep(w) /\ Beside)
  /\ WF_allVars(Promote("scheduled") /\ Beside)
  /\ WF_allVars(Promote("retrying") /\ Beside)
  /\ WF_allVars(Reclaim /\ Beside)
  /\ WF_allVars(Purge /\ Beside)
  /\ \A o \in Operators : WF_allVars(op[o] # "none" /\ OperatorStep(o))

-----------------------------------------------------------------------------
(* Properties.  But for the last, they hold whatever the operators do.     *)

\* Handlers start at most as often as the job was put into pending: the pop
\* and the lease of dequeue.lua are one step, so no entry feeds two workers,
\* even when operators have put the job into several sets.
EveryRunWasOffered == \A j \in Jobs : runs[j] <= offers[j]

\* A deleted job comes back only through the lease its worker had claimed
\* before and saves after the deletion: every script checks that the document
\* exists before it writes it (transition.lua, promote.lua, reclaim.lua).
OnlySaveResurrects ==
  [][\A j \in deleted :
       ~Exists(j) /\ Exists(j)' =>
         \E w \in Workers : job[w] = j /\ pc[w] = "leased" /\ pc'[w] = "saved"]_allVars

\* Job j is through: its document says completed or is gone, it is in no working
\* set, no worker holds a copy of it, and no operator is about to requeue or
\* kill it.
Through(j) ==
  /\ j \in used /\ docs[j].state \in {"completed", "none"}
  /\ Members(j) \subseteq {"completed"}
  /\ \A w \in Workers : Busy(w) => job[w] # j
  /\ \A o \in Operators : j \in DOMAIN todo[o] => op[o] = "delete"

\* A job that is through stays so: from then on "the type refuses" (README,
\* job_state.go) every retry and kill, and no sweep, report or fault brings it
\* back.  A job that is completed while somebody still holds an older copy of
\* it is not through, and is what CompletedIsFinal is about.
ThroughIsFinal == [][\A j \in Jobs : Through(j) => Through(j)']_allVars

\* One job, whatever the operators and one fault leave behind: from some point
\* on it neither waits nor holds a lease (promote.lua, reclaim.lua and
\* dequeue.lua drop entries without a document).  That bounded batches get to
\* all of several jobs is EventuallySettled.
QueueDrains ==
  <>[](\A j \in Jobs : Members(j) \subseteq {"completed", "dead"})

\* One operator at a time who only retries: each request grants a job one fresh
\* budget and no more (Job.Requeue).
RunsPerRetry ==
  \A j \in Jobs : runs[j] <= (MaxRetries + 1) * (requests + 1) + faults

-----------------------------------------------------------------------------
(* What the repository says and the code does not do.                      *)

\* A completed job is never moved out of completed again, except to be
\* forgotten (README: "Nothing can move a job from completed back to pending").
CompletedIsFinal ==
  [][\A j \in Jobs :
       docs[j].state = "completed" => docs'[j].state \in {"completed", "none"}]_allVars

=============================================================================
