------------------------------ MODULE JobStore ------------------------------
(***************************************************************************)
(* The Redis side of one queue: the job documents, their TTLs, the six     *)
(* lifecycle sorted sets, and the Lua scripts that move jobs between them. *)
(* Redis runs a script or a MULTI/EXEC block without interleaving, so each *)
(* one is a single action on the three variables.                          *)
(*                                                                         *)
(* A score that the code compares with the current time (a lease expiry, a *)
(* process-at instant, a retention deadline) is kept as the number of      *)
(* ticks left until that time; 0 means the score is <= now.  Scores of     *)
(* pending and dead only order a set and are kept as 0: here ZPOPMIN may   *)
(* return any member.                                                      *)
(***************************************************************************)
EXTENDS JobAggregate, FiniteSets

CONSTANTS
  Jobs,        \* job ids
  Workers,     \* worker ids
  BatchLimit   \* jobs one sweep script moves at most

VARIABLES
  docs,   \* docs[j]: the hash of job j, NoDoc when the key does not exist
  ttl,    \* ttl[j]: ticks until Redis expires the hash, NoTTL when persistent
  zset    \* zset[s][j]: score of j in the set of state s, Absent when no member

store == <<docs, ttl, zset>>

Absent == -1
NoTTL  == -1
NoDoc  == [state |-> "none", attemptsMade |-> 0, attempts |-> <<>>, workerID |-> NoWorker]

Exists(j)  == docs[j].state # "none"
In(s)      == {j \in Jobs : zset[s][j] # Absent}
Due(s)     == {j \in Jobs : zset[s][j] = 0}
Members(j) == {s \in JobState : zset[s][j] # Absent}

StoreTypeOK ==
  /\ docs \in [Jobs -> Job(Workers) \cup {NoDoc}]
  /\ ttl  \in [Jobs -> Nat \cup {NoTTL}]
  /\ zset \in [JobState -> [Jobs -> Nat \cup {Absent}]]

StoreInit ==
  /\ docs = [j \in Jobs |-> NoDoc]
  /\ ttl  = [j \in Jobs |-> NoTTL]
  /\ zset = [s \in JobState |-> [j \in Jobs |-> Absent]]

-----------------------------------------------------------------------------
(* The scripts.                                                            *)

\* enqueue.lua, when no document with this id exists.
EnqueueLua(j, target, score, fields) ==
  /\ ~Exists(j)
  /\ docs' = [docs EXCEPT ![j] = fields]
  /\ zset' = [zset EXCEPT ![target][j] = score]
  /\ UNCHANGED ttl

\* Mutants of DequeueLua: the entry stays in pending, or no lease is written.
DequeueLuaKeepsEntry(j, orphans, workerID, leaseExpiry) ==
  /\ j \in In("pending") /\ Exists(j)
  /\ zset' = [zset EXCEPT !["active"][j] = leaseExpiry]
  /\ docs' = [docs EXCEPT ![j].state = "active", ![j].workerID = workerID]
  /\ UNCHANGED ttl
DequeueLuaNoLease(j, orphans, workerID, leaseExpiry) ==
  /\ j \in In("pending") /\ Exists(j)
  /\ zset' = [zset EXCEPT !["pending"][j] = Absent]
  /\ docs' = [docs EXCEPT ![j].state = "active", ![j].workerID = workerID]
  /\ UNCHANGED ttl

\* dequeue.lua: orphans are entries popped before j that have no document.
DequeueLua(j, orphans, workerID, leaseExpiry) ==
  /\ j \in In("pending") /\ Exists(j)
  /\ zset' = [zset EXCEPT
       !["pending"] = [k \in Jobs |-> IF k \in orphans \cup {j} THEN Absent ELSE @[k]],
       !["active"][j] = leaseExpiry]
  /\ docs' = [docs EXCEPT ![j].state = "active", ![j].workerID = workerID]
  /\ UNCHANGED ttl

\* dequeue.lua on a pending set that holds only entries without a document.
DrainOrphansLua ==
  /\ In("pending") # {}
  /\ \A j \in In("pending") : ~Exists(j)
  /\ zset' = [zset EXCEPT !["pending"] = [k \in Jobs |-> Absent]]
  /\ UNCHANGED <<docs, ttl>>

\* Mutants of TransitionLua: no ZREM, or no EXISTS check.
TransitionLuaNoRemove(j, from, to, score, expire, fields) ==
  /\ Exists(j)
  /\ zset' = [zset EXCEPT ![to][j] = score]
  /\ docs' = [docs EXCEPT ![j] = fields]
  /\ ttl'  = [ttl EXCEPT ![j] = expire]
TransitionLuaUnchecked(j, from, to, score, expire, fields) ==
  /\ zset' = [zset EXCEPT ![from][j] = Absent, ![to][j] = score]
  /\ docs' = [docs EXCEPT ![j] = fields]
  /\ ttl'  = [ttl EXCEPT ![j] = expire]

\* transition.lua: no check of where the job is or who holds it.
TransitionLua(j, from, to, score, expire, fields) ==
  \/ /\ Exists(j)
     /\ zset' = [zset EXCEPT ![from][j] = Absent, ![to][j] = score]
     /\ docs' = [docs EXCEPT ![j] = fields]
     /\ ttl'  = [ttl EXCEPT ![j] = expire]
  \/ /\ ~Exists(j)
     /\ zset' = [zset EXCEPT ![from][j] = Absent]
     /\ UNCHANGED <<docs, ttl>>

\* The batch a sweep takes: everything due, or as much as the limit allows.
Batch(s) ==
  {B \in SUBSET Due(s) : B # {} /\ (B = Due(s) \/ Cardinality(B) = BatchLimit)
                                /\ Cardinality(B) <= BatchLimit}

\* Mutant of ToPendingLua: the entry stays in its source set.
ToPendingLuaKeepsEntry(source, batch) ==
  /\ zset' = [zset EXCEPT
       !["pending"] = [j \in Jobs |-> IF j \in batch /\ Exists(j) THEN 0 ELSE @[j]]]
  /\ docs' = [j \in Jobs |-> IF j \in batch /\ Exists(j)
                             THEN [docs[j] EXCEPT !.state = "pending", !.workerID = NoWorker]
                             ELSE docs[j]]
  /\ UNCHANGED ttl

\* promote.lua and reclaim.lua: the same move into pending.
ToPendingLua(source, batch) ==
  /\ zset' = [zset EXCEPT
       ![source]    = [j \in Jobs |-> IF j \in batch THEN Absent ELSE @[j]],
       !["pending"] = [j \in Jobs |-> IF j \in batch /\ Exists(j) THEN 0 ELSE @[j]]]
  /\ docs' = [j \in Jobs |-> IF j \in batch /\ Exists(j)
                             THEN [docs[j] EXCEPT !.state = "pending", !.workerID = NoWorker]
                             ELSE docs[j]]
  /\ UNCHANGED ttl

\* purge_completed.lua: drops the entry and deletes the document.
PurgeCompletedLua(batch) ==
  /\ zset' = [zset EXCEPT
       !["completed"] = [j \in Jobs |-> IF j \in batch THEN Absent ELSE @[j]]]
  /\ docs' = [j \in Jobs |-> IF j \in batch THEN NoDoc ELSE docs[j]]
  /\ ttl'  = [j \in Jobs |-> IF j \in batch THEN NoTTL ELSE ttl[j]]

\* JobRepo.Save: a plain HSET, which creates the key when it is missing.
SaveDoc(j, fields) ==
  /\ docs' = [docs EXCEPT ![j] = fields]
  /\ UNCHANGED <<ttl, zset>>

\* The MULTI/EXEC block of transitionFromAny: out of every set.
ClearMembership(j) ==
  /\ zset' = [s \in JobState |-> [zset[s] EXCEPT ![j] = Absent]]
  /\ UNCHANGED <<docs, ttl>>

\* The MULTI/EXEC block of JobRepo.Delete.
DeleteJob(j) ==
  /\ zset' = [s \in JobState |-> [zset[s] EXCEPT ![j] = Absent]]
  /\ docs' = [docs EXCEPT ![j] = NoDoc]
  /\ ttl'  = [ttl EXCEPT ![j] = NoTTL]

\* Mutant of TickDown: no floor at "now".
TickDownForever(n) == n - 1

\* One tick of time: scores come closer, documents whose TTL ends are gone.
TickDown(n) == IF n > 0 THEN n - 1 ELSE n

StoreTick ==
  /\ zset' = [s \in JobState |-> [j \in Jobs |-> TickDown(zset[s][j])]]
  /\ docs' = [j \in Jobs |-> IF ttl[j] = 1 THEN NoDoc ELSE docs[j]]
  /\ ttl'  = [j \in Jobs |-> IF ttl[j] = 1 THEN NoTTL ELSE TickDown(ttl[j])]

=============================================================================
