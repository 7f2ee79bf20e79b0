------------------------------ MODULE Enqueuer ------------------------------
(***************************************************************************)
(* POST /jobs with idempotency keys: EnqueuerService.Enqueue on top of the *)
(* claims of IdempotencyStore.  Requests run concurrently, each one makes  *)
(* its Redis calls one after the other, and any call may fail, with or     *)
(* without its effect.  A request builds its job with a fresh id before    *)
(* its first call, so the request itself stands for that id.               *)
(*                                                                         *)
(* Around it: claims expire, completed jobs are purged, and operators      *)
(* delete jobs, which deletes the key named in the document as well.       *)
(***************************************************************************)
EXTENDS Integers

CONSTANTS
  Requests,    \* enqueue requests, and the ids of the jobs they build
  Keys,        \* idempotency keys
  None,        \* no key, no owner, no job
  Operators,   \* concurrent calls of JobRepo.Delete
  Expiring,    \* whether a claim may reach the end of its TTL
  FaultKinds,  \* what may go wrong: "refused", "applied", "crash"
  MaxFaults    \* faults considered in one behaviour

ASSUME EnqueuerAssumption ==
  /\ None \notin Requests \cup Keys
  /\ Expiring \in BOOLEAN
  /\ FaultKinds \subseteq {"refused", "applied", "crash"}
  /\ MaxFaults \in Nat

VARIABLES
  pc,       \* pc[r]: the call request r makes next
  key,      \* key[r]: the idempotency key it carries, or None
  existing, \* existing[r]: the id Claim returned to it
  answer,   \* answer[r]: what its client is told
  owner,    \* owner[k]: the value of key k in Redis
  stored,   \* the jobs whose documents exist
  ever,     \* the jobs whose documents ever existed
  dropped,  \* keys that were freed although their owner has or may get a job
  del,      \* del[o]: the job operator o is about to delete
  faults    \* faults so far

vars == <<pc, key, existing, answer, owner, stored, ever, dropped, del, faults>>

Calls == {"claim", "get", "find", "persist", "release"}
Answers == {"created", "duplicate", "conflict", "invalid",
            "claim_failed", "read_failed", "enqueue_failed", "none"}

EnqueuerTypeOK ==
  /\ pc \in [Requests -> Calls \cup {"new", "done"}]
  /\ key \in [Requests -> Keys \cup {None}]
  /\ existing \in [Requests -> Requests \cup {None}]
  /\ answer \in [Requests -> Answers]
  /\ owner \in [Keys -> Requests \cup {None}]
  /\ stored \in SUBSET ever
  /\ ever \in SUBSET Requests
  /\ dropped \in SUBSET Keys
  /\ del \in [Operators -> Requests \cup {None}]
  /\ faults \in 0..MaxFaults

Init ==
  /\ pc = [r \in Requests |-> "new"]
  /\ key = [r \in Requests |-> None]
  /\ existing = [r \in Requests |-> None]
  /\ answer = [r \in Requests |-> "none"]
  /\ owner = [k \in Keys |-> None]
  /\ stored = {} /\ ever = {} /\ dropped = {}
  /\ del = [o \in Operators |-> None]
  /\ faults = 0

-----------------------------------------------------------------------------
(* What the calls do to Redis.                                             *)

redis == <<owner, stored, ever, dropped>>

\* SET NX: the claim goes to the request unless somebody holds the key.
SetNX(r) ==
  /\ owner' = [owner EXCEPT ![key[r]] = IF @ = None THEN r ELSE @]
  /\ UNCHANGED <<stored, ever, dropped>>

\* The job of the owner of k exists, has existed or is about to.
Protects(k) == owner[k] # None /\ (owner[k] \in ever \/ pc[owner[k]] = "persist")

\* Mutant of DropClaim: the claim stays.
DropClaimNot(k) == UNCHANGED <<owner, dropped>>

\* DEL of the key, whoever holds it.
DropClaim(k) ==
  /\ owner' = [owner EXCEPT ![k] = None]
  /\ dropped' = IF Protects(k) THEN dropped \cup {k} ELSE dropped

\* enqueue.lua; the id is fresh, so no document with it exists.
Insert(r) ==
  /\ stored' = stored \cup {r}
  /\ ever' = ever \cup {r}
  /\ UNCHANGED <<owner, dropped>>

-----------------------------------------------------------------------------
(* EnqueuerService.Enqueue.                                                *)

Goto(r, call) == pc' = [pc EXCEPT ![r] = call] /\ UNCHANGED answer

Reply(r, a) == pc' = [pc EXCEPT ![r] = "done"] /\ answer' = [answer EXCEPT ![r] = a]

\* buildJob: a request without a key skips the claim.
Arrive(r, k) ==
  /\ pc[r] = "new"
  /\ key' = [key EXCEPT ![r] = k]
  /\ Goto(r, IF k = None THEN "persist" ELSE "claim")
  /\ UNCHANGED <<existing, redis, del, faults>>

\* buildJob: a value object refuses a field.
Reject(r) ==
  /\ pc[r] = "new"
  /\ Reply(r, "invalid")
  /\ UNCHANGED <<key, existing, redis, del, faults>>

\* Mutant of Claim: the loser of SET NX goes on as if it had won.
ClaimIgnored(r) ==
  /\ pc[r] = "claim"
  /\ SetNX(r)
  /\ Goto(r, "persist")
  /\ UNCHANGED <<key, existing, del, faults>>

Claim(r) ==
  /\ pc[r] = "claim"
  /\ SetNX(r)
  /\ Goto(r, IF owner[key[r]] = None THEN "persist" ELSE "get")
  /\ UNCHANGED <<key, existing, del, faults>>

\* Mutant of ReadClaim: a claim that is gone again is not dealt with.
ReadClaimStuck(r) ==
  /\ pc[r] = "get" /\ owner[key[r]] # None
  /\ existing' = [existing EXCEPT ![r] = owner[key[r]]]
  /\ Goto(r, "find")
  /\ UNCHANGED <<key, redis, del, faults>>

\* Claim, after a lost SET NX: GET the id of the job that holds the key, which
\* may be gone by now.
ReadClaim(r) ==
  /\ pc[r] = "get"
  /\ existing' = [existing EXCEPT ![r] = owner[key[r]]]
  /\ IF owner[key[r]] = None THEN Reply(r, "conflict") ELSE Goto(r, "find")
  /\ UNCHANGED <<key, redis, del, faults>>

\* Mutant of ResolveDuplicate: answers without looking for the job.
ResolveDuplicateBlindly(r) ==
  /\ pc[r] = "find"
  /\ Reply(r, "duplicate")
  /\ UNCHANGED <<key, existing, redis, del, faults>>

ResolveDuplicate(r) ==
  /\ pc[r] = "find"
  /\ Reply(r, IF existing[r] \in stored THEN "duplicate" ELSE "conflict")
  /\ UNCHANGED <<key, existing, redis, del, faults>>

Persist(r) ==
  /\ pc[r] = "persist"
  /\ Insert(r)
  /\ Reply(r, "created")
  /\ UNCHANGED <<key, existing, del, faults>>

\* The roll-back after a failed insert.
Release(r) ==
  /\ pc[r] = "release"
  /\ DropClaim(key[r])
  /\ Reply(r, "enqueue_failed")
  /\ UNCHANGED <<key, existing, stored, ever, del, faults>>

-----------------------------------------------------------------------------
(* Faults.                                                                 *)

Fault(kind) ==
  /\ kind \in FaultKinds
  /\ faults < MaxFaults
  /\ faults' = faults + 1

\* The effect of request r's next call.
Effect(r) ==
  CASE pc[r] = "claim"   -> SetNX(r)
    [] pc[r] = "persist" -> Insert(r)
    [] pc[r] = "release" -> DropClaim(key[r]) /\ UNCHANGED <<stored, ever>>
    [] OTHER             -> UNCHANGED redis

\* A call returns an error.  When it was the insert, the claim is rolled back;
\* when it was the roll-back, its error is only logged.  Both calls run under
\* the context of the request, so a client that goes away may fail both: here
\* that is two faults.
CallFails(r) ==
  /\ pc[r] \in Calls
  /\ \/ Fault("refused") /\ UNCHANGED redis
     \/ Fault("applied") /\ Effect(r)
  /\ CASE pc[r] = "claim"           -> Reply(r, "claim_failed")
       [] pc[r] \in {"get", "find"} -> Reply(r, "read_failed")
       [] pc[r] = "persist"         -> IF key[r] = None THEN Reply(r, "enqueue_failed")
                                                        ELSE Goto(r, "release")
       [] pc[r] = "release"         -> Reply(r, "enqueue_failed")
  /\ UNCHANGED <<key, existing, del>>

\* The server dies; the client is never answered.
Crash(r) ==
  /\ pc[r] \in Calls
  /\ Fault("crash")
  /\ Reply(r, "none")
  /\ UNCHANGED <<key, existing, redis, del>>

-----------------------------------------------------------------------------
(* Around the service.                                                     *)

\* Redis expires the claim.
Expire(k) ==
  /\ Expiring
  /\ owner[k] # None
  /\ DropClaim(k)
  /\ UNCHANGED <<pc, key, existing, answer, stored, ever, del, faults>>

\* A completed job reaches the end of its retention; its key is left alone.
Retire(j) ==
  /\ j \in stored
  /\ stored' = stored \ {j}
  /\ UNCHANGED <<pc, key, existing, answer, owner, ever, dropped, del, faults>>

\* JobRepo.Delete: reads the document, then deletes it and the key it names.
BeginDelete(o, j) ==
  /\ del[o] = None
  /\ j \in stored
  /\ del' = [del EXCEPT ![o] = j]
  /\ UNCHANGED <<pc, key, existing, answer, redis, faults>>

EndDelete(o) ==
  /\ del[o] # None
  /\ stored' = stored \ {del[o]}
  /\ IF key[del[o]] = None THEN UNCHANGED <<owner, dropped>> ELSE DropClaim(key[del[o]])
  /\ del' = [del EXCEPT ![o] = None]
  /\ UNCHANGED <<pc, key, existing, answer, ever, faults>>

-----------------------------------------------------------------------------

Step(r) ==
  \/ Claim(r)
  \/ ReadClaim(r)
  \/ ResolveDuplicate(r)
  \/ Persist(r)
  \/ Release(r)

Next ==
  \/ \E r \in Requests, k \in Keys \cup {None} : Arrive(r, k)
  \/ \E r \in Requests : Reject(r)
  \/ \E r \in Requests : Step(r)
  \/ \E r \in Requests : CallFails(r)
  \/ \E r \in Requests : Crash(r)
  \/ \E k \in Keys : Expire(k)
  \/ \E j \in Requests : Retire(j)
  \/ \E o \in Operators, j \in Requests : BeginDelete(o, j)
  \/ \E o \in Operators : EndDelete(o)

Spec == Init /\ [][Next]_vars

\* A request that is being served makes its next call.
FairSpec == Spec /\ \A r \in Requests : WF_vars(Step(r))

-----------------------------------------------------------------------------
(* Properties.                                                             *)

\* A key creates at most one job for as long as no claim was taken away from a
\* job: roll-backs, crashes and the expiry of claims without a job never let a
\* second one in (IIdempotencyStore, EnqueuerService.Enqueue).
OneJobPerHeldKey ==
  \A r, s \in ever :
    key[r] = key[s] /\ key[r] \in Keys \ dropped => r = s

\* A client told "duplicate" was given a job that was created under its own
\* key by another request (resolveDuplicate).
DuplicateNamesOriginal ==
  \A r \in Requests :
    answer[r] = "duplicate" =>
      existing[r] \in ever \ {r} /\ key[existing[r]] = key[r]

\* A failed enqueue does not poison its key: only the failure of the roll-back
\* as well, of its own or because the request was cancelled before the insert,
\* leaves the claim behind (Enqueue, Release).
RollbackFreesKey ==
  \A r \in Requests :
    answer[r] = "enqueue_failed" /\ key[r] # None /\ owner[key[r]] = r => faults >= 2

\* Every request that starts is answered or dies with its server: a claim that
\* disappears between SET NX and GET does not keep it waiting (Claim).
Answered == \A r \in Requests : (pc[r] \in Calls) ~> (pc[r] = "done")

-----------------------------------------------------------------------------
(* What the repository says and the code does not do.                      *)

\* A client that resends with the same key gets the same job: no key ever
\* creates two (resolveDuplicate: "safe to retry").
OneJobPerKey == \A r, s \in ever : key[r] = key[s] /\ key[r] # None => r = s

=============================================================================
