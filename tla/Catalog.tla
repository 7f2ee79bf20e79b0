------------------------------- MODULE Catalog -------------------------------
(***************************************************************************)
(* What an operator sees of the queues while they are in use:              *)
(* JobRepo.List behind GET /jobs, QueueRepo.StatsAll behind GET /queues,   *)
(* and InspectorService.RetryAllDead.  None of them is atomic: a listing   *)
(* counts and reads the lifecycle sets one call at a time and then loads   *)
(* the documents, the counts of the statistics are separate commands, and  *)
(* a bulk retry requeues the jobs of the page it read one by one.  Workers,*)
(* sweeps and other operators move jobs in between.                        *)
(*                                                                         *)
(* A document is its state; queue, task type and creation time of a job    *)
(* never change.  Job ids are numbers, so that they have an order.  The    *)
(* jobs are at rest, in any way the start allows, when an operation        *)
(* begins; an operation that others disturbed is the last.  Every page     *)
(* size asked for is positive and no offset negative: toFilter, the        *)
(* binding of the query and RetryAllDead see to that.                      *)
(*                                                                         *)
(* The reference is the in-memory store of the tests (fake.go), which      *)
(* answers from its map of documents under one lock.                       *)
(***************************************************************************)
EXTENDS Integers, FiniteSets, SequencesExt

CONSTANTS
  Jobs,         \* ids, a set of numbers
  QueueOf,      \* the queue of each job
  TaskOf,       \* its task type
  CreatedAt,    \* its creation time
  StartsIn,     \* the states each job may start in; "expired" is a completed
                \* job whose document is gone and whose entry is not
  Scores,       \* scores in the sets
  Filters,      \* queries: [queue, state, task, offset, limit]
  AnyValue,     \* a field of a filter that is left out
  maxPageSize,  \* no page is longer
  maxBulkRetry, \* what RetryAllDead asks for
  MaxMoves      \* moves of jobs considered

ASSUME CatalogAssumption ==
  /\ Jobs \subseteq Nat /\ IsFiniteSet(Jobs)
  /\ Scores \subseteq Nat \ {0}
  /\ {maxPageSize, maxBulkRetry} \subseteq Nat \ {0}
  /\ MaxMoves \in Nat
  /\ \A f \in Filters : f.limit \in Nat \ {0} /\ f.offset \in Nat

VARIABLES
  doc,      \* doc[j]: the state in the document of j, "new" before it is
            \* created, "none" once it is gone
  zset,     \* zset[s][j]: the score of j in the set of its queue and state s
  killing,  \* jobs between the two calls of JobBroker.Kill
  moves,    \* moves so far
  steady,   \* jobs nobody else touched since the operation began
  op        \* the operation under way

store == <<doc, zset, killing>>
vars == <<doc, zset, killing, moves, steady, op>>

\* The lifecycle graph is the one of JobAggregate.
Graph == INSTANCE JobAggregate WITH MaxRetries <- 0, NoWorker <- "none"

AllStates == <<"scheduled", "pending", "active", "retrying", "completed", "dead">>

Queues == {QueueOf[j] : j \in Jobs}
Absent == 0
Idle == [kind |-> "idle", phase |-> "done"]

Init ==
  /\ \E start \in [Jobs -> UNION {StartsIn[j] : j \in Jobs}], score \in [Jobs -> Scores] :
       LET in(j) == IF start[j] = "expired" THEN "completed" ELSE start[j]
       IN  /\ \A j \in Jobs : start[j] \in StartsIn[j]
           /\ doc = [j \in Jobs |-> IF start[j] = "expired" THEN "none" ELSE start[j]]
           /\ zset = [s \in Graph!JobState |->
                        [j \in Jobs |-> IF in(j) = s THEN score[j] ELSE Absent]]
  /\ killing = {}
  /\ moves = 0
  /\ steady = Jobs
  /\ op = Idle

-----------------------------------------------------------------------------
(* Moves of other clients.  Each is one script, pipeline or command.       *)

Touch(j) ==
  /\ op.phase # "done"
  /\ moves < MaxMoves
  /\ moves' = moves + 1
  /\ steady' = steady \ {j}
  /\ UNCHANGED op

\* j leaves the sets of from and enters the set of to.
Moved(j, from, to, score) ==
  [s \in Graph!JobState |->
     [zset[s] EXCEPT ![j] = IF s = to THEN score ELSE IF s \in from THEN Absent ELSE @]]

\* JobBroker.insert of the next job.
Insert(j) ==
  /\ doc[j] = "new"
  /\ \A i \in Jobs : doc[i] # "new" => CreatedAt[i] <= CreatedAt[j]
  /\ \E s \in {"pending", "scheduled"}, score \in Scores :
       doc' = [doc EXCEPT ![j] = s] /\ zset' = Moved(j, {}, s, score)
  /\ Touch(j)
  /\ UNCHANGED killing

\* A claim, a report, a sweep or a requeue: one script, along the lifecycle,
\* that goes by the set it finds the job in.
Move(j) ==
  /\ doc[j] \notin {"new", "none"}
  /\ \E from \in Graph!JobState, score \in Scores :
       /\ zset[from][j] # Absent
       /\ \E to \in Graph!allowedTransitions[from] \ {"dead"} :
            doc' = [doc EXCEPT ![j] = to] /\ zset' = Moved(j, {from}, to, score)
  /\ Touch(j)
  /\ UNCHANGED killing

\* JobBroker.Kill takes the job out of every set, then writes it.
KillClear(j) ==
  /\ doc[j] \notin {"new", "none"} /\ j \notin killing
  /\ Graph!CanTransitionTo(doc[j], "dead")
  /\ zset' = Moved(j, Graph!JobState, "none", Absent)
  /\ killing' = killing \cup {j}
  /\ Touch(j)
  /\ UNCHANGED doc

KillWrite(j) ==
  /\ j \in killing
  /\ doc[j] # "none"
  /\ doc' = [doc EXCEPT ![j] = "dead"]
  /\ \E score \in Scores : zset' = Moved(j, {"pending"}, "dead", score)
  /\ killing' = killing \ {j}
  /\ Touch(j)

\* The document of a completed job expires; its entry waits for the purge.
Expire(j) ==
  /\ doc[j] = "completed"
  /\ doc' = [doc EXCEPT ![j] = "none"]
  /\ Touch(j)
  /\ UNCHANGED <<zset, killing>>

\* purge_completed.lua on one entry.
Purge(j) ==
  /\ zset["completed"][j] # Absent
  /\ doc' = [doc EXCEPT ![j] = "none"]
  /\ zset' = Moved(j, {"completed"}, "none", Absent)
  /\ Touch(j)
  /\ UNCHANGED killing

\* JobRepo.Delete.
Delete(j) ==
  /\ doc[j] \notin {"new", "none"}
  /\ doc' = [doc EXCEPT ![j] = "none"]
  /\ zset' = Moved(j, Graph!JobState, "none", Absent)
  /\ Touch(j)
  /\ UNCHANGED killing

-----------------------------------------------------------------------------
(* JobRepo.List.                                                           *)

Members(q, s) == {j \in Jobs : QueueOf[j] = q /\ zset[s][j] # Absent}

\* A set as Redis keeps it: by score, then by member.
Sorted(q, s) ==
  LET Before(i, j) == zset[s][i] < zset[s][j] \/ (zset[s][i] = zset[s][j] /\ i < j)
  IN  SetToSortSeq(Members(q, s), Before)

\* Mutant of ZRange: from the highest score.
ZRevRange(q, s, n) ==
  LET sorted == Reverse(Sorted(q, s))
  IN  SubSeq(sorted, 1, IF n < Len(sorted) THEN n ELSE Len(sorted))

\* ZRANGE 0 n-1.
ZRange(q, s, n) ==
  LET sorted == Sorted(q, s)
  IN  SubSeq(sorted, 1, IF n < Len(sorted) THEN n ELSE Len(sorted))

\* Mutant of resolveStates: the last state is left out.
resolveStatesButLast(state) == IF state = AnyValue THEN SubSeq(AllStates, 1, 5) ELSE <<state>>

resolveStates(state) == IF state = AnyValue THEN AllStates ELSE <<state>>

\* The keys to read, queue by queue; the registry has no order.
resolveQueues(queue) == IF queue = AnyValue THEN SetToSeqs(Queues) ELSE {<<queue>>}

Keys(queues, states) ==
  FlattenSeq([i \in 1..Len(queues) |->
    [k \in 1..Len(states) |-> [queue |-> queues[i], state |-> states[k]]]])

pageLimit(filter) == IF filter.limit > maxPageSize THEN maxPageSize ELSE filter.limit

Listing(kind, filter, queues) ==
  [kind   |-> kind,
   filter |-> filter,
   todo   |-> Keys(queues, resolveStates(filter.state)),
   phase  |-> "count",
   total  |-> 0,
   ids    |-> <<>>,
   jobs   |-> <<>>,
   dead   |-> <<>>,
   moved  |-> {},
   affected |-> 0]

\* An operation begins with the jobs at rest, which the start ranges over.
Begin ==
  /\ op = Idle /\ moves = 0
  /\ steady' = Jobs
  /\ UNCHANGED <<doc, zset, killing, moves>>

BeginList(filter) ==
  /\ Begin
  /\ \E queues \in resolveQueues(filter.queue) : op' = Listing("list", filter, queues)

\* ZCARD of the next set.
CountSet ==
  /\ op.phase = "count" /\ op.kind # "stats"
  /\ op' = [op EXCEPT !.phase = "range",
                      !.total = @ + Cardinality(Members(op.todo[1].queue, op.todo[1].state))]
  /\ UNCHANGED <<store, moves, steady>>

\* Mutant of ReadSet: the offset is not added.
ReadOnePage ==
  /\ op.phase = "range"
  /\ LET page == ZRange(op.todo[1].queue, op.todo[1].state, pageLimit(op.filter))
     IN  op' = [op EXCEPT !.phase = IF Len(op.todo) = 1 THEN "load" ELSE "count",
                          !.todo = Tail(@),
                          !.ids = @ \o page]
  /\ UNCHANGED <<store, moves, steady>>

\* ZRANGE of the same set, then on to the next.
ReadSet ==
  /\ op.phase = "range"
  /\ LET page == ZRange(op.todo[1].queue, op.todo[1].state,
                        op.filter.offset + pageLimit(op.filter))
     IN  op' = [op EXCEPT !.phase = IF Len(op.todo) = 1 THEN "load" ELSE "count",
                          !.todo = Tail(@),
                          !.ids = @ \o page]
  /\ UNCHANGED <<store, moves, steady>>

\* loadMany: HGETALL of the next id.  An entry without document is skipped.
Load ==
  /\ op.phase = "load" /\ op.ids # <<>>
  /\ LET id == op.ids[1]
     IN  op' = [op EXCEPT !.ids = Tail(@),
                          !.jobs = IF doc[id] = "none" THEN @
                                   ELSE Append(@, [id |-> id, state |-> doc[id]])]
  /\ UNCHANGED <<store, moves, steady>>

\* Newest first, ids break ties.
Newer(a, b) ==
  \/ CreatedAt[a.id] > CreatedAt[b.id]
  \/ CreatedAt[a.id] = CreatedAt[b.id] /\ a.id < b.id

sortJobsByCreatedAtDesc(jobs) == SortSeq(jobs, Newer)

\* jobs[offset:offset+limit], cut at the end.
PageOf(jobs, offset, limit) ==
  SubSeq(jobs, offset + 1, IF offset + limit < Len(jobs) THEN offset + limit ELSE Len(jobs))

\* Everything is loaded: the task filter, the order and the page.
Answer ==
  /\ op.phase = "load" /\ op.ids = <<>>
  /\ LET ofTask(job) == op.filter.task \in {AnyValue, TaskOf[job.id]}
         kept == SelectSeq(op.jobs, ofTask)
     IN  op' = [op EXCEPT !.phase = IF op.kind = "bulk" THEN "requeue" ELSE "done",
                          !.total = IF op.filter.task = AnyValue THEN @ ELSE Len(kept),
                          !.jobs = PageOf(sortJobsByCreatedAtDesc(kept),
                                          op.filter.offset, pageLimit(op.filter))]
  /\ UNCHANGED <<store, moves, steady>>

-----------------------------------------------------------------------------
(* QueueRepo.StatsAll.                                                     *)

ListAll == SetToSeqs(Queues)

\* The order of the commands in the pipeline of statsFor.
Counted == <<"pending", "active", "scheduled", "retrying", "completed", "dead">>

BeginStats ==
  /\ Begin
  /\ \E queues \in ListAll :
       op' = [kind |-> "stats", phase |-> "count", todo |-> Keys(queues, Counted),
              counts |-> [q \in Queues |-> [s \in Graph!JobState |-> 0]]]

\* Mutant of CountState: dead jobs are counted as completed.
CountStateMerged ==
  /\ op.kind = "stats" /\ op.phase = "count"
  /\ LET key == op.todo[1]
     IN  op' = [op EXCEPT !.phase = IF Len(op.todo) = 1 THEN "done" ELSE "count",
                          !.todo = Tail(@),
                          !.counts[key.queue][IF key.state = "dead" THEN "completed" ELSE key.state] =
                             @ + Cardinality(Members(key.queue, key.state))]
  /\ UNCHANGED <<store, moves, steady>>

\* One ZCARD of statsFor.
CountState ==
  /\ op.kind = "stats" /\ op.phase = "count"
  /\ LET key == op.todo[1]
     IN  op' = [op EXCEPT !.phase = IF Len(op.todo) = 1 THEN "done" ELSE "count",
                          !.todo = Tail(@),
                          !.counts[key.queue][key.state] =
                             Cardinality(Members(key.queue, key.state))]
  /\ UNCHANGED <<store, moves, steady>>

\* Stats.Backlog and Stats.Total.
Backlog(counts) == counts["pending"] + counts["active"] + counts["scheduled"] + counts["retrying"]
Total(counts) == Backlog(counts) + counts["completed"] + counts["dead"]

-----------------------------------------------------------------------------
(* InspectorService.RetryAllDead: the page, then one Requeue after the     *)
(* other.  dead, the dead-letter set as it was, and moved are history.     *)

BeginBulk(q) ==
  /\ Begin
  /\ LET filter == [queue |-> q, state |-> "dead", task |-> AnyValue, offset |-> 0,
                    limit |-> maxBulkRetry]
     IN  op' = [Listing("bulk", filter, <<q>>)
                  EXCEPT !.dead = Sorted(q, "dead")]

\* The aggregate refuses a job that was not dead when it was loaded, and the
\* sweep goes on.  transition.lua takes a job whose document is gone out of the
\* dead-letter set and writes nothing, and the sweep counts it all the same.
RequeueNext ==
  /\ op.kind = "bulk" /\ op.phase = "requeue" /\ op.jobs # <<>>
  /\ LET job == op.jobs[1]
         ok  == job.state = "dead"
         to  == IF doc[job.id] = "none" THEN "none" ELSE "pending"
     IN  /\ op' = [op EXCEPT !.jobs = Tail(@),
                             !.affected = IF ok THEN @ + 1 ELSE @,
                             !.moved = IF ok /\ to = "pending" THEN @ \cup {job.id} ELSE @]
         /\ doc' = IF ok THEN [doc EXCEPT ![job.id] = to] ELSE doc
         /\ \E score \in Scores :
              zset' = IF ok THEN Moved(job.id, {"dead"}, to, score) ELSE zset
  /\ UNCHANGED <<killing, moves, steady>>

EndBulk ==
  /\ op.kind = "bulk" /\ op.phase = "requeue" /\ op.jobs = <<>>
  /\ op' = [op EXCEPT !.phase = "done"]
  /\ UNCHANGED <<store, moves, steady>>

\* The answer is sent.
Reply ==
  /\ op # Idle /\ op.phase = "done"
  /\ op' = Idle
  /\ steady' = Jobs
  /\ UNCHANGED <<store, moves>>

-----------------------------------------------------------------------------

Elsewhere ==
  \E j \in Jobs :
    \/ Insert(j)
    \/ Move(j)
    \/ KillClear(j)
    \/ KillWrite(j)
    \/ Expire(j)
    \/ Purge(j)
    \/ Delete(j)

Next ==
  \/ Elsewhere
  \/ \E filter \in Filters : BeginList(filter)
  \/ BeginStats
  \/ \E q \in Queues : BeginBulk(q)
  \/ CountSet
  \/ ReadSet
  \/ Load
  \/ Answer
  \/ CountState
  \/ RequeueNext
  \/ EndBulk
  \/ Reply

Spec == Init /\ [][Next]_vars

-----------------------------------------------------------------------------
(* Properties.                                                             *)

\* Nobody else moved a job since the operation began, and none is being killed.
Quiet == steady = Jobs /\ killing = {}

Done(kind) == op.kind = kind /\ op.phase = "done"

\* Store.List of the tests: every document that matches, newest first.
Matched(filter) ==
  {[id |-> j, state |-> doc[j]] :
     j \in {i \in Jobs : /\ doc[i] \notin {"new", "none"}
                         /\ filter.queue \in {AnyValue, QueueOf[i]}
                         /\ filter.state \in {AnyValue, doc[i]}
                         /\ filter.task \in {AnyValue, TaskOf[i]}}}

FakeList(filter) ==
  PageOf(SetToSortSeq(Matched(filter), Newer), filter.offset, filter.limit)

\* The sets a filter reads, and whether each fits in what one ZRANGE returns.
SetsOf(filter) ==
  {Members(q, s) : q \in {p \in Queues : filter.queue \in {AnyValue, p}},
                   s \in {t \in Graph!JobState : filter.state \in {AnyValue, t}}}

Fits(filter) ==
  \A set \in SetsOf(filter) : Cardinality(set) <= filter.offset + pageLimit(filter)

\* A listing that nobody disturbs returns the page the store of the tests
\* returns, and its total, provided that no set is longer than offset + limit
\* and the limit is within the cap.  Entries whose document expired are only
\* in the total.  Past that size the pages differ: ZRANGE starts at the lowest
\* score, so the newest jobs are the ones that are missing (JobRepo.List).
ListMatchesReference ==
  Done("list") /\ Quiet /\ Fits(op.filter) /\ op.filter.limit <= maxPageSize =>
    /\ op.jobs = FakeList(op.filter)
    /\ op.total = IF op.filter.task # AnyValue THEN Cardinality(Matched(op.filter))
                  ELSE Cardinality(UNION SetsOf(op.filter))

\* Whatever moves meanwhile, a job that stays where it is is listed at most
\* once, as it is; and a first page that is not full, read from sets that fit,
\* has it: the separate reads neither lose nor repeat it (JobRepo.List, loadMany).
SteadyListedOnce ==
  Done("list") =>
    LET At(j) == {i \in DOMAIN op.jobs : op.jobs[i].id = j}
        room  == /\ op.filter.offset = 0
                 /\ Len(op.jobs) < pageLimit(op.filter)
                 /\ \A set \in SetsOf(op.filter) :
                      Cardinality(set \cup (Jobs \ steady)) <= pageLimit(op.filter)
    IN  \A job \in Matched(op.filter) :
          job.id \in steady \ killing =>
            /\ Cardinality(At(job.id)) <= 1
            /\ \A i \in At(job.id) : op.jobs[i] = job
            /\ room => At(job.id) # {}

\* Store.statsFor of the tests: the documents of a queue by state.
FakeStats(q) ==
  [s \in Graph!JobState |-> Cardinality({j \in Jobs : QueueOf[j] = q /\ doc[j] = s})]

\* Each count of the statistics covers the jobs that stayed in the set and at
\* most, beyond them, jobs that moved meanwhile.  Undisturbed statistics are
\* those of the store of the tests, except that a completed job counts until
\* the purge; their backlog is the work still owed and their total every job
\* there is.  Disturbed ones may count a job twice or not at all (StatsAll).
StatsCountSteady ==
  Done("stats") =>
    \A q \in Queues :
      /\ \A s \in Graph!JobState :
           LET stayed == Cardinality(Members(q, s) \cap steady)
               others == Cardinality({j \in Jobs \ steady : QueueOf[j] = q})
           IN  op.counts[q][s] \in stayed..(stayed + others)
      /\ Quiet =>
           LET owed == {j \in Jobs : QueueOf[j] = q /\ doc[j] \notin {"new", "none", "completed", "dead"}}
               expired == {j \in Jobs : QueueOf[j] = q /\ doc[j] = "none" /\ zset["completed"][j] # Absent}
           IN  /\ op.counts[q] = [FakeStats(q) EXCEPT !["completed"] = @ + Cardinality(expired)]
               /\ Backlog(op.counts[q]) = Cardinality(owed)
               /\ Total(op.counts[q]) = Total(FakeStats(q)) + Cardinality(expired)

\* A bulk retry requeues a job that nobody else touches only if it was dead
\* when the call began, and the number it answers exceeds what it moved by no
\* more than the jobs whose document went meanwhile.  Undisturbed it moves the
\* jobs that died first: it leaves none dead that died before one it moved, it
\* moves at least one if there is one, so calling it again gets to the rest,
\* and its count is exact (RetryAllDead, ZRANGE on the time of death).
BulkRetriesLongestDead ==
  Done("bulk") =>
    LET gone == {j \in Jobs : doc[j] = "none"}
    IN  /\ op.moved \cap steady \subseteq Range(op.dead)
        /\ op.affected - Cardinality(op.moved) \in 0..Cardinality(gone \ steady)
        /\ Quiet =>
             /\ op.dead # <<>> => op.dead[1] \in op.moved
             /\ \A i, k \in DOMAIN op.dead :
                  i < k /\ op.dead[k] \in op.moved => op.dead[i] \in op.moved

=============================================================================
