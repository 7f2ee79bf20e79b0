--------------------------- MODULE EnqueuerProofs ---------------------------
(***************************************************************************)
(* One job per idempotency key, and what a client is told, for any number  *)
(* of requests, keys, operators and faults.                                *)
(***************************************************************************)
EXTENDS Enqueuer, TLAPS

\* Request r has a job or is about to have one.
Committed(r) == r \in ever \/ pc[r] = "persist"

\* The strengthening: as long as a key was never taken away from a job, it is
\* held by each request that is committed under it.
HeldInv ==
  /\ EnqueuerTypeOK
  /\ \A r \in ever : pc[r] # "new"
  /\ \A r \in Requests : pc[r] \in Calls \ {"persist"} => key[r] # None
  /\ \A r \in Requests :
       Committed(r) /\ key[r] \in Keys \ dropped => owner[key[r]] = r

LEMMA HeldInit == Init => HeldInv
BY EnqueuerAssumption
DEF Init, HeldInv, EnqueuerTypeOK, Committed, Calls, Answers

\* A SET NX takes the key from nobody.
LEMMA SetNXHolds ==
  ASSUME HeldInv, NEW r \in Requests, key[r] \in Keys, SetNX(r)
  PROVE  /\ owner' \in [Keys -> Requests \cup {None}]
         /\ \A k \in Keys : owner[k] # None => owner'[k] = owner[k]
         /\ owner[key[r]] = None => owner'[key[r]] = r
BY DEF HeldInv, EnqueuerTypeOK, SetNX

\* A key that is deleted while a committed request holds it counts as dropped.
LEMMA DropClaimHolds ==
  ASSUME HeldInv, NEW k \in Keys, DropClaim(k)
  PROVE  /\ owner' \in [Keys -> Requests \cup {None}]
         /\ dropped' \in SUBSET Keys
         /\ \A r \in Requests :
              Committed(r) /\ key[r] \in Keys \ dropped' => owner'[key[r]] = r
<1>1. owner' \in [Keys -> Requests \cup {None}] /\ dropped' \in SUBSET Keys
  BY DEF HeldInv, EnqueuerTypeOK, DropClaim
<1>2. ASSUME NEW r \in Requests, Committed(r), key[r] \in Keys \ dropped'
      PROVE  owner'[key[r]] = r
  <2>1. dropped \subseteq dropped'
    BY DEF DropClaim
  <2>2. owner[key[r]] = r
    BY <1>2, <2>1 DEF HeldInv
  <2>3. CASE key[r] = k
    <3>1. Protects(k)
      BY <2>2, <2>3, <1>2, EnqueuerAssumption DEF Protects, Committed
    <3>2. k \in dropped'
      BY <3>1 DEF DropClaim
    <3> QED BY <3>2, <2>3, <1>2
  <2>4. CASE key[r] # k
    BY <2>2, <2>4, <1>2 DEF DropClaim, HeldInv, EnqueuerTypeOK
  <2> QED BY <2>3, <2>4
<1> QED BY <1>1, <1>2

LEMMA HeldStep == HeldInv /\ [Next]_vars => HeldInv'
<1> SUFFICES ASSUME HeldInv, [Next]_vars PROVE HeldInv'
  OBVIOUS
<1> USE EnqueuerAssumption
<1>1. ASSUME NEW r \in Requests, NEW k \in Keys \cup {None}, Arrive(r, k) PROVE HeldInv'
  BY <1>1 DEF Arrive, Goto, redis, HeldInv, EnqueuerTypeOK, Committed, Calls
<1>2. ASSUME NEW r \in Requests, Reject(r) PROVE HeldInv'
  BY <1>2 DEF Reject, Reply, redis, HeldInv, EnqueuerTypeOK, Committed, Calls, Answers
<1>3. ASSUME NEW r \in Requests, Claim(r) PROVE HeldInv'
  <2>1. key[r] \in Keys
    BY <1>3 DEF Claim, HeldInv, EnqueuerTypeOK, Calls
  <2>2. SetNX(r)
    BY <1>3 DEF Claim
  <2>3. /\ owner' \in [Keys -> Requests \cup {None}]
        /\ \A k \in Keys : owner[k] # None => owner'[k] = owner[k]
        /\ owner[key[r]] = None => owner'[key[r]] = r
    BY <2>1, <2>2, SetNXHolds
  <2> QED
    BY <1>3, <2>1, <2>3 DEF Claim, SetNX, Goto, HeldInv, EnqueuerTypeOK, Committed, Calls
<1>4. ASSUME NEW r \in Requests, ReadClaim(r) PROVE HeldInv'
  BY <1>4 DEF ReadClaim, Goto, Reply, redis, HeldInv, EnqueuerTypeOK, Committed, Calls, Answers
<1>5. ASSUME NEW r \in Requests, ResolveDuplicate(r) PROVE HeldInv'
  BY <1>5 DEF ResolveDuplicate, Reply, redis, HeldInv, EnqueuerTypeOK, Committed, Calls, Answers
<1>6. ASSUME NEW r \in Requests, Persist(r) PROVE HeldInv'
  BY <1>6 DEF Persist, Insert, Reply, HeldInv, EnqueuerTypeOK, Committed, Calls, Answers
<1>7. ASSUME NEW r \in Requests, Release(r) PROVE HeldInv'
  <2>1. key[r] \in Keys
    BY <1>7 DEF Release, HeldInv, EnqueuerTypeOK, Calls
  <2>2. DropClaim(key[r])
    BY <1>7 DEF Release
  <2>3. /\ owner' \in [Keys -> Requests \cup {None}]
        /\ dropped' \in SUBSET Keys
        /\ \A q \in Requests :
             Committed(q) /\ key[q] \in Keys \ dropped' => owner'[key[q]] = q
    BY <2>1, <2>2, DropClaimHolds
  <2> QED
    BY <1>7, <2>3 DEF Release, Reply, HeldInv, EnqueuerTypeOK, Committed, Calls, Answers
<1>8. ASSUME NEW r \in Requests, CallFails(r) PROVE HeldInv'
  <2>1. /\ pc[r] \in Calls
        /\ faults' \in 0..MaxFaults
        /\ UNCHANGED <<key, existing, del>>
        /\ pc' \in [Requests -> Calls \cup {"new", "done"}]
        /\ answer' \in [Requests -> Answers]
        /\ \A q \in Requests \ {r} : pc'[q] = pc[q]
        /\ pc'[r] \in {"release", "done"}
        /\ pc'[r] = "release" => pc[r] = "persist" /\ key[r] # None
    <3>1. \/ \E a \in Answers : Reply(r, a)
          \/ pc[r] = "persist" /\ key[r] # None /\ Goto(r, "release")
      <4>1. CASE pc[r] = "claim"
        BY <1>8, <4>1 DEF CallFails, Answers
      <4>2. CASE pc[r] \in {"get", "find"}
        BY <1>8, <4>2, Zenon DEF CallFails, Answers
      <4>3. CASE pc[r] = "persist"
        BY <1>8, <4>3 DEF CallFails, Answers
      <4>4. CASE pc[r] = "release"
        BY <1>8, <4>4 DEF CallFails, Answers
      <4> QED BY <1>8, <4>1, <4>2, <4>3, <4>4 DEF CallFails, Calls
    <3>2. pc[r] \in Calls /\ faults' \in 0..MaxFaults /\ UNCHANGED <<key, existing, del>>
      BY <1>8 DEF CallFails, Fault, HeldInv, EnqueuerTypeOK
    <3> QED
      BY <3>1, <3>2 DEF Goto, Reply, HeldInv, EnqueuerTypeOK, Calls
  <2>2. CASE UNCHANGED redis
    BY <2>1, <2>2 DEF redis, HeldInv, EnqueuerTypeOK, Committed, Calls
  <2>3. CASE Effect(r) /\ pc[r] = "claim"
    <3>1. key[r] \in Keys /\ SetNX(r)
      BY <2>3 DEF Effect, HeldInv, EnqueuerTypeOK, Calls
    <3>2. /\ owner' \in [Keys -> Requests \cup {None}]
          /\ \A k \in Keys : owner[k] # None => owner'[k] = owner[k]
      BY <3>1, SetNXHolds
    <3> QED
      BY <2>1, <2>3, <3>1, <3>2 DEF SetNX, HeldInv, EnqueuerTypeOK, Committed, Calls
  <2>4. CASE Effect(r) /\ pc[r] = "persist"
    <3>1. Insert(r)
      BY <2>4 DEF Effect
    <3> QED
      BY <2>1, <2>4, <3>1 DEF Insert, HeldInv, EnqueuerTypeOK, Committed, Calls
  <2>5. CASE Effect(r) /\ pc[r] = "release"
    <3>1. key[r] \in Keys /\ DropClaim(key[r]) /\ UNCHANGED <<stored, ever>>
      BY <2>5 DEF Effect, HeldInv, EnqueuerTypeOK, Calls
    <3>2. /\ owner' \in [Keys -> Requests \cup {None}]
          /\ dropped' \in SUBSET Keys
          /\ \A q \in Requests :
               Committed(q) /\ key[q] \in Keys \ dropped' => owner'[key[q]] = q
      BY <3>1, DropClaimHolds
    <3> QED
      BY <2>1, <2>5, <3>1, <3>2 DEF HeldInv, EnqueuerTypeOK, Committed, Calls
  <2>6. CASE Effect(r) /\ pc[r] \in {"get", "find"}
    <3>1. UNCHANGED redis
      BY <2>6 DEF Effect
    <3> QED BY <3>1, <2>2
  <2>7. UNCHANGED redis \/ Effect(r)
    BY <1>8 DEF CallFails
  <2> QED BY <2>1, <2>2, <2>3, <2>4, <2>5, <2>6, <2>7 DEF Calls
<1>9. ASSUME NEW r \in Requests, Crash(r) PROVE HeldInv'
  BY <1>9 DEF Crash, Fault, Reply, redis, HeldInv, EnqueuerTypeOK, Committed, Calls, Answers
<1>10. ASSUME NEW k \in Keys, Expire(k) PROVE HeldInv'
  <2>1. DropClaim(k)
    BY <1>10 DEF Expire
  <2>2. /\ owner' \in [Keys -> Requests \cup {None}]
        /\ dropped' \in SUBSET Keys
        /\ \A q \in Requests :
             Committed(q) /\ key[q] \in Keys \ dropped' => owner'[key[q]] = q
    BY <2>1, DropClaimHolds
  <2> QED BY <1>10, <2>2 DEF Expire, HeldInv, EnqueuerTypeOK, Committed
<1>11. ASSUME NEW j \in Requests, Retire(j) PROVE HeldInv'
  BY <1>11 DEF Retire, HeldInv, EnqueuerTypeOK, Committed
<1>12. ASSUME NEW o \in Operators, NEW j \in Requests, BeginDelete(o, j) PROVE HeldInv'
  BY <1>12 DEF BeginDelete, redis, HeldInv, EnqueuerTypeOK, Committed
<1>13. ASSUME NEW o \in Operators, EndDelete(o) PROVE HeldInv'
  <2>1. PICK j \in Requests : j = del[o]
    BY <1>13 DEF EndDelete, HeldInv, EnqueuerTypeOK
  <2>2. /\ stored' = stored \ {j}
        /\ del' = [del EXCEPT ![o] = None]
        /\ UNCHANGED <<pc, key, existing, answer, ever, faults>>
        /\ UNCHANGED <<owner, dropped>> \/ (key[j] # None /\ DropClaim(key[j]))
    BY <1>13, <2>1 DEF EndDelete
  <2>3. CASE UNCHANGED <<owner, dropped>>
    BY <2>2, <2>3 DEF HeldInv, EnqueuerTypeOK, Committed
  <2>4. CASE key[j] # None /\ DropClaim(key[j])
    <3>1. key[j] \in Keys
      BY <2>4 DEF HeldInv, EnqueuerTypeOK
    <3>2. /\ owner' \in [Keys -> Requests \cup {None}]
          /\ dropped' \in SUBSET Keys
          /\ \A q \in Requests :
               Committed(q) /\ key[q] \in Keys \ dropped' => owner'[key[q]] = q
      BY <2>4, <3>1, DropClaimHolds
    <3> QED BY <2>2, <3>2 DEF HeldInv, EnqueuerTypeOK, Committed
  <2> QED BY <2>2, <2>3, <2>4
<1>14. CASE UNCHANGED vars
  BY <1>14 DEF vars, HeldInv, EnqueuerTypeOK, Committed
<1> QED
  BY <1>1, <1>2, <1>3, <1>4, <1>5, <1>6, <1>7, <1>8, <1>9, <1>10, <1>11, <1>12, <1>13, <1>14
  DEF Next, Step

\* While no claim is taken away from a job, its key creates no second one: the
\* promise of IIdempotencyStore, for every interleaving of requests, failing
\* calls, crashes, expiring claims and deletions.
THEOREM Deduplication == Spec => []OneJobPerHeldKey
<1>1. HeldInv => OneJobPerHeldKey
  BY DEF HeldInv, EnqueuerTypeOK, OneJobPerHeldKey, Committed
<1> QED BY <1>1, HeldInit, HeldStep, PTL DEF Spec

\* The type invariant of Enqueuer, which HeldInv contains.
THEOREM EnqueuerTypeCorrect == Spec => []EnqueuerTypeOK
<1>1. HeldInv => EnqueuerTypeOK
  BY DEF HeldInv
<1> QED BY <1>1, HeldInit, HeldStep, PTL DEF Spec

-----------------------------------------------------------------------------
(* What a client is told.                                                  *)

\* The strengthening: a key is held by a request that carries it and has made
\* its claim, so the id read back is that of another request under the key; and
\* a roll-back follows a first fault.
AnswerInv ==
  /\ \A k \in Keys : owner[k] # None => /\ key[owner[k]] = k
                                        /\ pc[owner[k]] \notin {"new", "claim"}
  /\ \A r \in Requests : pc[r] = "get" => owner[key[r]] # r
  /\ \A r \in Requests : pc[r] = "find" => /\ existing[r] \in Requests \ {r}
                                           /\ key[existing[r]] = key[r]
                                           /\ pc[existing[r]] # "new"
  /\ \A r \in Requests : pc[r] = "release" => faults >= 1
  /\ \A r \in Requests : pc[r] # "done" => answer[r] = "none"
  /\ DuplicateNamesOriginal
  /\ RollbackFreesKey

LEMMA AnswerInit == Init => AnswerInv
BY DEF Init, AnswerInv, DuplicateNamesOriginal, RollbackFreesKey

\* A step that only takes keys away, adds jobs or counts faults.
LEMMA AnswerFrame ==
  ASSUME HeldInv, AnswerInv, UNCHANGED <<pc, key, existing, answer>>,
         \A k \in Keys : owner'[k] = owner[k] \/ owner'[k] = None,
         ever \subseteq ever', faults' = faults
  PROVE  AnswerInv'
<1> USE EnqueuerAssumption DEF HeldInv, EnqueuerTypeOK
<1>1. \A r \in Requests : pc[r] = "get" => key[r] \in Keys
  BY DEF Calls
<1>2. DuplicateNamesOriginal'
  BY DEF AnswerInv, DuplicateNamesOriginal
<1>3. RollbackFreesKey'
  BY DEF AnswerInv, RollbackFreesKey
<1> QED
  BY <1>1, <1>2, <1>3 DEF AnswerInv

\* Request r is answered, and at most its own key changes hands.
LEMMA AnswerReply ==
  ASSUME HeldInv, AnswerInv, NEW r \in Requests, NEW a \in Answers, Reply(r, a),
         pc[r] # "done", key' = key,
         \A q \in Requests \ {r} : existing'[q] = existing[q],
         \A k \in Keys : \/ owner'[k] = owner[k] \/ owner'[k] = None
                         \/ k = key[r] /\ pc[r] = "claim" /\ owner'[k] = r,
         ever \subseteq ever', faults' \in Nat, faults' >= faults,
         a = "duplicate" => /\ existing'[r] \in ever' \ {r}
                            /\ key[existing'[r]] = key[r],
         a = "enqueue_failed" => \/ key[r] = None \/ owner'[key[r]] # r
                                 \/ faults' >= 2
  PROVE  AnswerInv'
<1> USE EnqueuerAssumption DEF HeldInv, EnqueuerTypeOK
<1>1. /\ pc'[r] = "done" /\ answer'[r] = a
      /\ \A q \in Requests \ {r} : pc'[q] = pc[q] /\ answer'[q] = answer[q]
  BY DEF Reply
<1>2. faults \in Nat /\ \A q \in Requests : pc[q] = "get" => key[q] \in Keys
  BY DEF Calls
<1>3. \A k \in Keys : owner'[k] # None => /\ key'[owner'[k]] = k
                                          /\ pc'[owner'[k]] \notin {"new", "claim"}
  BY <1>1 DEF AnswerInv
<1>4. \A q \in Requests : pc'[q] = "get" => owner'[key'[q]] # q
  BY <1>1, <1>2 DEF AnswerInv
<1>5. \A q \in Requests : pc'[q] = "find" => /\ existing'[q] \in Requests \ {q}
                                             /\ key'[existing'[q]] = key'[q]
                                             /\ pc'[existing'[q]] # "new"
  BY <1>1 DEF AnswerInv
<1>6. \A q \in Requests : /\ pc'[q] = "release" => faults' >= 1
                          /\ pc'[q] # "done" => answer'[q] = "none"
  BY <1>1, <1>2 DEF AnswerInv
<1>7. DuplicateNamesOriginal'
  BY <1>1 DEF AnswerInv, DuplicateNamesOriginal
<1>8. RollbackFreesKey'
  <2> SUFFICES ASSUME NEW q \in Requests, answer'[q] = "enqueue_failed", key[q] # None,
                      owner'[key[q]] = q
               PROVE  faults' >= 2
    BY DEF RollbackFreesKey
  <2>1. CASE q = r
    BY <1>1, <2>1
  <2>2. CASE q # r
    BY <1>1, <1>2, <2>2 DEF AnswerInv, RollbackFreesKey
  <2> QED BY <2>1, <2>2
<1> QED
  BY <1>3, <1>4, <1>5, <1>6, <1>7, <1>8 DEF AnswerInv

\* Request r goes on to its next call.
LEMMA AnswerGoto ==
  ASSUME HeldInv, AnswerInv, NEW r \in Requests, NEW c \in Calls, Goto(r, c),
         pc[r] \in Calls, key' = key,
         \A q \in Requests \ {r} : existing'[q] = existing[q],
         \A k \in Keys : \/ owner'[k] = owner[k]
                         \/ k = key[r] /\ pc[r] = "claim" /\ owner'[k] = r,
         ever \subseteq ever', faults' \in Nat, faults' >= faults, c # "claim",
         c = "get" => owner'[key[r]] # r,
         c = "find" => /\ existing'[r] \in Requests \ {r} /\ key[existing'[r]] = key[r]
                       /\ pc[existing'[r]] # "new",
         c = "release" => faults' >= 1
  PROVE  AnswerInv'
<1> USE EnqueuerAssumption DEF HeldInv, EnqueuerTypeOK
<1>1. /\ pc'[r] = c /\ c \notin {"new", "done"} /\ answer' = answer /\ answer[r] = "none"
      /\ \A q \in Requests \ {r} : pc'[q] = pc[q]
  BY DEF Goto, Calls, AnswerInv
<1>2. faults \in Nat /\ \A q \in Requests : pc[q] = "get" => key[q] \in Keys
  BY DEF Calls
<1>3. \A k \in Keys : owner'[k] # None => /\ key'[owner'[k]] = k
                                          /\ pc'[owner'[k]] \notin {"new", "claim"}
  BY <1>1 DEF AnswerInv
<1>4. \A q \in Requests : pc'[q] = "get" => owner'[key'[q]] # q
  BY <1>1, <1>2 DEF AnswerInv
<1>5. \A q \in Requests : pc'[q] = "find" => /\ existing'[q] \in Requests \ {q}
                                             /\ key'[existing'[q]] = key'[q]
                                             /\ pc'[existing'[q]] # "new"
  BY <1>1 DEF AnswerInv
<1>6. \A q \in Requests : /\ pc'[q] = "release" => faults' >= 1
                          /\ pc'[q] # "done" => answer'[q] = "none"
  BY <1>1, <1>2 DEF AnswerInv
<1>7. DuplicateNamesOriginal'
  BY <1>1 DEF AnswerInv, DuplicateNamesOriginal
<1>8. RollbackFreesKey'
  BY <1>1, <1>2 DEF AnswerInv, RollbackFreesKey
<1> QED
  BY <1>3, <1>4, <1>5, <1>6, <1>7, <1>8 DEF AnswerInv

\* A call that fails leaves its request answered or rolling back.
LEMMA AnswerFault ==
  ASSUME HeldInv, AnswerInv, NEW r \in Requests, CallFails(r)
  PROVE  AnswerInv'
<1> USE EnqueuerAssumption
<1>1. /\ pc[r] \in Calls /\ pc[r] \notin {"done", "new"} /\ key' = key /\ existing' = existing
      /\ faults \in Nat /\ faults' = faults + 1
      /\ UNCHANGED redis \/ Effect(r)
  BY DEF CallFails, Fault, HeldInv, EnqueuerTypeOK, Calls
<1>2. pc[r] # "persist" => key[r] \in Keys
  BY <1>1 DEF HeldInv, EnqueuerTypeOK
<1>3. CASE pc[r] = "claim"
  <2>1. Reply(r, "claim_failed") /\ "claim_failed" \in Answers
    BY <1>3 DEF CallFails, Answers
  <2>2. UNCHANGED redis \/ SetNX(r)
    BY <1>1, <1>3 DEF Effect
  <2>3. /\ ever' = ever
        /\ \A k \in Keys : owner'[k] = owner[k] \/ (k = key[r] /\ owner'[k] = r)
    BY <1>2, <1>3, <2>2 DEF redis, SetNX, HeldInv, EnqueuerTypeOK
  <2> QED
    BY <1>1, <1>3, <2>1, <2>3, AnswerReply
<1>4. CASE pc[r] \in {"get", "find"}
  <2>1. Reply(r, "read_failed") /\ "read_failed" \in Answers
    BY <1>4, Zenon DEF CallFails, Answers
  <2>2. UNCHANGED redis
    BY <1>1, <1>4 DEF Effect
  <2> QED
    BY <1>1, <2>1, <2>2, AnswerReply DEF redis
<1>5. CASE pc[r] = "persist"
  <2>1. IF key[r] = None THEN Reply(r, "enqueue_failed") ELSE Goto(r, "release")
    BY <1>5 DEF CallFails
  <2>2. UNCHANGED redis \/ Insert(r)
    BY <1>1, <1>5 DEF Effect
  <2>3. ever \subseteq ever' /\ owner' = owner
    BY <2>2 DEF redis, Insert
  <2>4. "enqueue_failed" \in Answers /\ "release" \in Calls
    BY DEF Answers, Calls
  <2>5. CASE key[r] = None
    BY <1>1, <2>1, <2>3, <2>4, <2>5, AnswerReply
  <2>6. CASE key[r] # None
    BY <1>1, <2>1, <2>3, <2>4, <2>6, AnswerGoto
  <2> QED BY <2>5, <2>6
<1>6. CASE pc[r] = "release"
  <2>1. Reply(r, "enqueue_failed") /\ "enqueue_failed" \in Answers
    BY <1>6 DEF CallFails, Answers
  <2>2. UNCHANGED redis \/ (DropClaim(key[r]) /\ UNCHANGED <<stored, ever>>)
    BY <1>1, <1>6 DEF Effect
  <2>3. ever' = ever /\ \A k \in Keys : owner'[k] = owner[k] \/ owner'[k] = None
    BY <1>2, <1>6, <2>2 DEF redis, DropClaim, HeldInv, EnqueuerTypeOK
  <2>4. faults' >= 2
    BY <1>1, <1>6 DEF AnswerInv
  <2> QED
    BY <1>1, <2>1, <2>3, <2>4, AnswerReply
<1> QED
  BY <1>1, <1>3, <1>4, <1>5, <1>6 DEF Calls

LEMMA AnswerStep == HeldInv /\ AnswerInv /\ [Next]_vars => AnswerInv'
<1> SUFFICES ASSUME HeldInv, AnswerInv, [Next]_vars PROVE AnswerInv'
  OBVIOUS
<1> USE EnqueuerAssumption
<1>0. faults \in Nat /\ \A r \in Requests : pc[r] \in Calls \ {"persist"} => key[r] \in Keys
  BY DEF HeldInv, EnqueuerTypeOK
<1>1. ASSUME NEW r \in Requests, NEW k \in Keys \cup {None}, Arrive(r, k) PROVE AnswerInv'
  <2>1. /\ pc[r] = "new" /\ pc'[r] \in {"persist", "claim"} /\ key'[r] = k
        /\ \A q \in Requests \ {r} : pc'[q] = pc[q] /\ key'[q] = key[q]
        /\ UNCHANGED <<existing, answer, owner, ever, faults>>
    BY <1>1 DEF Arrive, Goto, redis, HeldInv, EnqueuerTypeOK
  <2>2. \A k2 \in Keys : owner[k2] # r
    BY <2>1 DEF AnswerInv
  <2>3. r \notin ever /\ answer[r] = "none"
    BY <2>1 DEF AnswerInv, HeldInv
  <2>4. DuplicateNamesOriginal'
    <3>1. ever \subseteq Requests \ {r}
      BY <2>3 DEF HeldInv, EnqueuerTypeOK
    <3> QED
      BY <2>1, <2>3, <3>1 DEF AnswerInv, DuplicateNamesOriginal
  <2>5. RollbackFreesKey'
    BY <2>1, <2>3 DEF AnswerInv, RollbackFreesKey
  <2> QED
    BY <2>1, <2>2, <2>3, <2>4, <2>5 DEF AnswerInv, HeldInv, EnqueuerTypeOK
<1>2. ASSUME NEW r \in Requests, Reject(r) PROVE AnswerInv'
  BY <1>0, <1>2, AnswerReply DEF Reject, redis, Answers
<1>3. ASSUME NEW r \in Requests, Claim(r) PROVE AnswerInv'
  <2>1. pc[r] = "claim" /\ key[r] \in Keys /\ SetNX(r) /\ pc[r] \in Calls
    BY <1>0, <1>3 DEF Claim, Calls
  <2>2. /\ key' = key /\ existing' = existing /\ faults' = faults /\ ever' = ever
        /\ \A k \in Keys : owner'[k] = owner[k] \/ (k = key[r] /\ owner'[k] = r)
        /\ owner[key[r]] # None => owner'[key[r]] = owner[key[r]]
    BY <1>3, <2>1 DEF Claim, SetNX, HeldInv, EnqueuerTypeOK
  <2>3. owner[key[r]] # r
    BY <2>1 DEF AnswerInv, HeldInv, EnqueuerTypeOK
  <2>4. {"persist", "get"} \subseteq Calls
    BY DEF Calls
  <2>5. CASE owner[key[r]] = None
    <3>1. Goto(r, "persist")
      BY <1>3, <2>5 DEF Claim
    <3> QED BY <1>0, <2>1, <2>2, <2>4, <3>1, AnswerGoto
  <2>6. CASE owner[key[r]] # None
    <3>1. Goto(r, "get")
      BY <1>3, <2>6 DEF Claim
    <3> QED BY <1>0, <2>1, <2>2, <2>3, <2>4, <2>6, <3>1, AnswerGoto
  <2> QED BY <2>5, <2>6
<1>4. ASSUME NEW r \in Requests, ReadClaim(r) PROVE AnswerInv'
  <2>1. pc[r] = "get" /\ key[r] \in Keys /\ pc[r] \in Calls
    BY <1>0, <1>4 DEF ReadClaim, Calls
  <2>2. /\ key' = key /\ owner' = owner /\ ever' = ever /\ faults' = faults
        /\ existing'[r] = owner[key[r]]
        /\ \A q \in Requests \ {r} : existing'[q] = existing[q]
    BY <1>4 DEF ReadClaim, redis, HeldInv, EnqueuerTypeOK
  <2>3. CASE owner[key[r]] = None
    <3>1. Reply(r, "conflict") /\ "conflict" \in Answers
      BY <1>4, <2>3 DEF ReadClaim, Answers
    <3> QED BY <1>0, <2>1, <2>2, <3>1, AnswerReply
  <2>4. CASE owner[key[r]] # None
    <3>1. Goto(r, "find") /\ "find" \in Calls
      BY <1>4, <2>4 DEF ReadClaim, Calls
    <3>2. /\ existing'[r] \in Requests \ {r} /\ key[existing'[r]] = key[r]
          /\ pc[existing'[r]] # "new"
      BY <2>1, <2>2, <2>4 DEF AnswerInv, HeldInv, EnqueuerTypeOK
    <3> QED BY <1>0, <2>1, <2>2, <3>1, <3>2, AnswerGoto
  <2> QED BY <2>3, <2>4
<1>5. ASSUME NEW r \in Requests, ResolveDuplicate(r) PROVE AnswerInv'
  <2>1. /\ pc[r] = "find" /\ key' = key /\ existing' = existing /\ owner' = owner
        /\ ever' = ever /\ faults' = faults
    BY <1>5 DEF ResolveDuplicate, redis
  <2>2. {"duplicate", "conflict"} \subseteq Answers
    BY DEF Answers
  <2>3. CASE existing[r] \in stored
    <3>1. existing[r] \in ever \ {r} /\ key[existing[r]] = key[r]
      BY <2>1, <2>3 DEF AnswerInv, HeldInv, EnqueuerTypeOK
    <3>2. Reply(r, "duplicate")
      BY <1>5, <2>3 DEF ResolveDuplicate
    <3> QED BY <1>0, <2>1, <2>2, <3>1, <3>2, AnswerReply
  <2>4. CASE existing[r] \notin stored
    <3>1. Reply(r, "conflict")
      BY <1>5, <2>4 DEF ResolveDuplicate
    <3> QED BY <1>0, <2>1, <2>2, <3>1, AnswerReply
  <2> QED BY <2>3, <2>4
<1>6. ASSUME NEW r \in Requests, Persist(r) PROVE AnswerInv'
  BY <1>0, <1>6, AnswerReply DEF Persist, Insert, Answers
<1>7. ASSUME NEW r \in Requests, Release(r) PROVE AnswerInv'
  <2>1. /\ pc[r] = "release" /\ key[r] \in Keys /\ Reply(r, "enqueue_failed")
        /\ key' = key /\ existing' = existing /\ ever' = ever /\ faults' = faults
    BY <1>0, <1>7 DEF Release, Calls
  <2>2. owner'[key[r]] = None /\ \A k \in Keys : owner'[k] = owner[k] \/ owner'[k] = None
    BY <1>7, <2>1 DEF Release, DropClaim, HeldInv, EnqueuerTypeOK
  <2>3. "enqueue_failed" \in Answers
    BY DEF Answers
  <2> QED
    BY <1>0, <2>1, <2>2, <2>3, AnswerReply
<1>8. ASSUME NEW r \in Requests, CallFails(r) PROVE AnswerInv'
  BY <1>8, AnswerFault
<1>9. ASSUME NEW r \in Requests, Crash(r) PROVE AnswerInv'
  BY <1>0, <1>9, AnswerReply DEF Crash, Fault, redis, Answers, Calls
<1>10. ASSUME NEW k \in Keys, Expire(k) PROVE AnswerInv'
  BY <1>10, AnswerFrame DEF Expire, DropClaim, HeldInv, EnqueuerTypeOK
<1>11. ASSUME NEW j \in Requests, Retire(j) PROVE AnswerInv'
  BY <1>11, AnswerFrame DEF Retire
<1>12. ASSUME NEW o \in Operators, NEW j \in Requests, BeginDelete(o, j) PROVE AnswerInv'
  BY <1>12, AnswerFrame DEF BeginDelete, redis
<1>13. ASSUME NEW o \in Operators, EndDelete(o) PROVE AnswerInv'
  <2>1. \A k \in Keys : owner'[k] = owner[k] \/ owner'[k] = None
    BY <1>13 DEF EndDelete, DropClaim, HeldInv, EnqueuerTypeOK
  <2> QED
    BY <1>13, <2>1, AnswerFrame DEF EndDelete
<1>14. CASE UNCHANGED vars
  BY <1>14, AnswerFrame DEF vars
<1> QED
  BY <1>1, <1>2, <1>3, <1>4, <1>5, <1>6, <1>7, <1>8, <1>9, <1>10, <1>11, <1>12, <1>13, <1>14
  DEF Next, Step

\* Whatever fails, expires or is deleted meanwhile, a client told "duplicate"
\* was given a job another request created under the same key (resolveDuplicate).
THEOREM DuplicatesTraced == Spec => []DuplicateNamesOriginal
<1>1. AnswerInv => DuplicateNamesOriginal
  BY DEF AnswerInv
<1> QED BY <1>1, HeldInit, HeldStep, AnswerInit, AnswerStep, PTL DEF Spec

\* It takes a second fault, of the roll-back itself, for a failed enqueue to
\* keep its key (EnqueuerService.Enqueue, Release).
THEOREM RollbacksFree == Spec => []RollbackFreesKey
<1>1. AnswerInv => RollbackFreesKey
  BY DEF AnswerInv
<1> QED BY <1>1, HeldInit, HeldStep, AnswerInit, AnswerStep, PTL DEF Spec

=============================================================================
