--------------------------- MODULE DispatchProofs ---------------------------
(***************************************************************************)
(* Claims respect the operators' pauses and the priorities, for any number *)
(* of queues, pools and pending jobs and any configuration of the weights. *)
(***************************************************************************)
EXTENDS Dispatch, TLAPS

-----------------------------------------------------------------------------
(* The inductive invariant.                                                *)

\* What a pending job is: a priority and a time within the band of scores.
PendingJob == (0..MaxPriority) \X (0..MaxTime)

DispatchTypeOK ==
  /\ paused \in [Queues -> BOOLEAN]
  /\ pending \in [Queues -> SUBSET PendingJob]
  /\ clock \in 0..MaxTime
  /\ up \in [Pools -> {"down", "registering", "up"}]
  /\ order \in [Pools -> {<<>>} \cup {BuildDequeueOrder(weights(p)) : p \in Pools}]

\* The flags the scripts read are the ones the operators asked for, and running
\* pools poll in the order of their configuration.
DispatchInv ==
  /\ DispatchTypeOK
  /\ wanted = paused
  /\ \A p \in Pools : up[p] = "up" => order[p] = BuildDequeueOrder(weights(p))

\* Every name that is accepted stands for a priority in range (ParsePriority).
LEMMA ParsedPriority ==
  ASSUME NEW name \in DOMAIN ParsePriority
  PROVE  ParsePriority[name] \in 0..MaxPriority
<1>1. \/ ParsePriority[name] = 1 \/ ParsePriority[name] = 8
      \/ ParsePriority[name] = 10 \/ ParsePriority[name] = 5
  BY Zenon DEF ParsePriority
<1> QED
  BY <1>1 DEF MaxPriority

\* A job that beats another one has the lower score: times stay below the band.
LEMMA BetterScore ==
  ASSUME NEW j \in PendingJob, NEW k \in PendingJob, beats(k, j)
  PROVE  Score(k) < Score(j)
<1>1. PICK p \in 0..10, t \in 0..MaxTime : j = <<p, t>>
  BY DEF PendingJob, MaxPriority
<1>2. PICK q \in 0..10, u \in 0..MaxTime : k = <<q, u>>
  BY DEF PendingJob, MaxPriority
<1>3. Band \in Nat /\ MaxTime \in Nat /\ Band > MaxTime
  BY DispatchAssumption, Zenon
<1>4. Score(j) = (10 - p) * Band + t /\ Score(k) = (10 - q) * Band + u
  BY <1>1, <1>2, Zenon DEF Score, PendingScore, MaxPriority
<1>5. CASE q = p
  BY <1>1, <1>2, <1>3, <1>4, <1>5 DEF beats
<1>6. CASE q > p
  <2>1. (10 - p) * Band = (10 - q) * Band + (q - p) * Band
    BY <1>3
  <2>2. (q - p) * Band >= Band
    BY <1>3, <1>6
  <2>3. (10 - q) * Band \in Int /\ (10 - p) * Band \in Int /\ (q - p) * Band \in Int
    BY <1>3
  <2> QED
    BY <1>3, <1>4, <2>1, <2>2, <2>3
<1> QED
  BY <1>1, <1>2, <1>5, <1>6, Zenon DEF beats

-----------------------------------------------------------------------------
(* Every step preserves the invariant, and a claim is what it should be.   *)

LEMMA DispatchInit == Init => DispatchInv
  BY DispatchAssumption DEF Init, DispatchInv, DispatchTypeOK

\* A claim takes one job of an unpaused queue, with the lowest score.
LEMMA DequeueEffect ==
  ASSUME DispatchInv, NEW p \in Pools, Dequeue(p)
  PROVE  /\ UNCHANGED <<paused, wanted, clock, up, order>>
         /\ \E r : \E j \in pending[r] :
              /\ ~ paused[r]
              /\ \A k \in pending[r] : Score(j) <= Score(k)
              /\ pending' = [pending EXCEPT ![r] = @ \ {j}]
  BY Zenon DEF Dequeue, Servable, meta

LEMMA DispatchStep == DispatchInv /\ [Next]_vars => DispatchInv'
<1> SUFFICES ASSUME DispatchInv, [Next]_vars PROVE DispatchInv'
  OBVIOUS
<1> USE DEF DispatchInv, DispatchTypeOK
<1>1. CASE \E p \in Pools : Start(p) \/ StartFails(p) \/ LaunchWorkers(p) \/ Stop(p)
  <2>1. UNCHANGED <<paused, wanted, clock, pending>>
    BY <1>1, Zenon DEF Start, StartFails, LaunchWorkers, Stop, meta
  <2>2. PICK p \in Pools : Start(p) \/ StartFails(p) \/ LaunchWorkers(p) \/ Stop(p)
    BY <1>1, Zenon
  <2>3. \/ /\ up' = [up EXCEPT ![p] = "registering"] \/ up' = [up EXCEPT ![p] = "down"]
           /\ order' = order
        \/ /\ up' = [up EXCEPT ![p] = "up"]
           /\ order' = [order EXCEPT ![p] = BuildDequeueOrder(weights(p))]
        \/ /\ up' = [up EXCEPT ![p] = "down"]
           /\ order' = [order EXCEPT ![p] = <<>>]
    BY <2>2, Zenon DEF Start, StartFails, LaunchWorkers, Stop
  <2> QED
    BY <2>1, <2>3
<1>2. CASE \E p \in Pools, q \in Queues : Register(p, q)
  BY <1>2, Zenon DEF Register
<1>3. CASE \E q \in Queues, name \in Names : Enqueue(q, name)
  <2>1. PICK q \in Queues, name \in Names : Enqueue(q, name)
    BY <1>3, Zenon
  <2>2. ParsePriority[name] \in 0..MaxPriority
    BY <2>1, ParsedPriority, Zenon DEF Enqueue
  <2>3. <<ParsePriority[name], clock>> \in PendingJob
    BY <2>2, Zenon DEF PendingJob
  <2> QED
    BY <2>1, <2>3, Zenon DEF Enqueue
<1>4. CASE \E q \in Queues, value \in BOOLEAN : SetPaused(q, value)
  BY <1>4, Zenon DEF SetPaused, WritePaused
<1>5. CASE \E p \in Pools : Dequeue(p)
  BY <1>5, DequeueEffect, Zenon
<1>6. CASE Tick
  BY <1>6, DispatchAssumption DEF Tick, meta
<1>7. CASE UNCHANGED vars
  BY <1>7, Zenon DEF vars, meta
<1> QED
  BY <1>1, <1>2, <1>3, <1>4, <1>5, <1>6, <1>7, Zenon DEF Next

\* Only Dequeue takes jobs away.
LEMMA ClaimedByDequeue ==
  ASSUME DispatchInv, [Next]_vars, NEW q \in Queues, Claimed(q) # {}
  PROVE  \E p \in Pools : Dequeue(p)
<1> SUFFICES ASSUME \A p \in Pools : ~ Dequeue(p)
             PROVE  pending[q] \subseteq pending'[q]
  BY Zenon DEF Claimed
<1>1. CASE pending' = pending
  BY <1>1, Zenon
<1>2. CASE \E r \in Queues, name \in Names : Enqueue(r, name)
  BY <1>2 DEF Enqueue, DispatchInv, DispatchTypeOK
<1>3. pending' = pending \/ \E r \in Queues, name \in Names : Enqueue(r, name)
  BY Zenon DEF Next, vars, Start, Register, StartFails, LaunchWorkers, Stop, SetPaused, Tick
<1> QED
  BY <1>1, <1>2, <1>3, Zenon

\* What a step claims from q.
LEMMA ClaimIsBest ==
  ASSUME DispatchInv, [Next]_vars, NEW q \in Queues, NEW j \in Claimed(q)
  PROVE  ~ paused[q] /\ \A k \in pending[q] : Score(j) <= Score(k)
<1>1. PICK p \in Pools : Dequeue(p)
  BY ClaimedByDequeue, Zenon
<1>2. PICK r : \E i \in pending[r] :
        /\ ~ paused[r]
        /\ \A k \in pending[r] : Score(i) <= Score(k)
        /\ pending' = [pending EXCEPT ![r] = @ \ {i}]
  BY <1>1, DequeueEffect, Zenon
<1>3. PICK i \in pending[r] :
        /\ ~ paused[r]
        /\ \A k \in pending[r] : Score(i) <= Score(k)
        /\ pending' = [pending EXCEPT ![r] = @ \ {i}]
  BY <1>2, Zenon
<1>4. r = q /\ i = j
  BY <1>3, Zenon DEF Claimed, DispatchInv, DispatchTypeOK
<1> QED
  BY <1>3, <1>4, Zenon

-----------------------------------------------------------------------------
(* The results.                                                            *)

\* The paused flags are the ones the operators asked for, whoever registers
\* or creates the queue, and scores stay within their bands.
THEOREM DispatchSafety == Spec => []DispatchInv
  BY DispatchInit, DispatchStep, PTL DEF Spec

\* Nothing is claimed from a queue the operators want paused, for any pools,
\* restarts and producers (Register, SetPaused, dequeue.lua).
THEOREM Paused == Spec => PauseHolds
<1>1. DispatchInv /\ [Next]_vars => [\A q \in Queues : Claimed(q) # {} => ~wanted[q]]_vars
  BY ClaimIsBest, Zenon DEF DispatchInv
<1> QED
  BY <1>1, DispatchSafety, PTL DEF Spec, PauseHolds

\* No pending job of the queue beats the one that is claimed, in the order the
\* in-memory store defines, as long as times stay below the band (PendingScore).
THEOREM Best == Spec => BestJobFirst
<1>1. DispatchInv /\ [Next]_vars
        => [\A q \in Queues : \A j \in Claimed(q) : \A k \in pending[q] : ~beats(k, j)]_vars
  <2> SUFFICES ASSUME DispatchInv, [Next]_vars, NEW q \in Queues, NEW j \in Claimed(q),
                      NEW k \in pending[q], beats(k, j)
               PROVE  FALSE
    OBVIOUS
  <2>1. Score(j) <= Score(k)
    BY ClaimIsBest, Zenon
  <2>2. j \in PendingJob /\ k \in PendingJob
    BY Zenon DEF Claimed, DispatchInv, DispatchTypeOK
  <2>3. Score(k) < Score(j)
    BY <2>2, BetterScore, Zenon
  <2>4. Score(k) \in Int /\ Score(j) \in Int
    BY <2>2, DispatchAssumption DEF PendingJob, Score, PendingScore, MaxPriority
  <2> QED
    BY <2>1, <2>3, <2>4
<1> QED
  BY <1>1, DispatchSafety, PTL DEF Spec, BestJobFirst

\* If the polling orders the pools compute are ranked by weight, which is
\* evaluated for bounded weights in MCDispatch, then a claim leaves no heavier
\* queue of its pool waiting, however registrations, restarts, pauses and
\* producers interleave (LaunchWorkers, dequeue.lua).
THEOREM Heavier ==
  ASSUME \A p \in Pools : Ranked(weights(p), dedupeQueues(BuildDequeueOrder(weights(p))))
  PROVE  Spec => HeavierQueuesFirst
<1> DEFINE Polled(p) == dedupeQueues(BuildDequeueOrder(weights(p)))
<1>1. ASSUME DispatchInv, [Next]_vars, NEW q \in Queues, Claimed(q) # {}
      PROVE  \E p \in Pools :
               /\ up[p] = "up" /\ q \in DOMAIN Config[p]
               /\ \A r \in DOMAIN Config[p] :
                    Before(weights(p), r, q) => paused[r] \/ pending[r] = {}
  <2>1. PICK p \in Pools : Dequeue(p)
    BY <1>1, ClaimedByDequeue, Zenon
  <2>2. up[p] = "up" /\ dedupeQueues(order[p]) = Polled(p)
    BY <1>1, <2>1, Zenon DEF Dequeue, DispatchInv
  <2> HIDE DEF Polled
  <2>3. PICK i \in DOMAIN Polled(p) :
          /\ \A n \in 1..(i - 1) : ~Servable(Polled(p)[n])
          /\ \E j \in pending[Polled(p)[i]] : pending' = [pending EXCEPT ![Polled(p)[i]] = @ \ {j}]
    BY <2>1, <2>2, Zenon DEF Dequeue
  <2>4. Polled(p)[i] = q
    BY <1>1, <2>3, Zenon DEF Claimed, DispatchInv, DispatchTypeOK
  <2>5. Ranked(weights(p), Polled(p)) /\ DOMAIN weights(p) = DOMAIN Config[p]
    BY Zenon DEF Polled, weights
  <2>6. ASSUME NEW r \in DOMAIN Config[p], Before(weights(p), r, q)
        PROVE  paused[r] \/ pending[r] = {}
    <3>1. PICK k \in DOMAIN Polled(p) : Polled(p)[k] = r
      BY <2>5, Zenon DEF Ranked, ToSet
    <3>2. i \in Nat \ {0} /\ k \in Nat \ {0}
      BY <2>5 DEF Ranked
    <3>3. q \in DOMAIN Config[p]
      BY <2>4, <2>5 DEF Ranked
    <3>4. /\ weights(p)[q] \in Nat /\ weights(p)[r] \in Nat
          /\ q \in Nat /\ r \in Nat
      <4>1. Config[p][q] \in Nat /\ Config[p][r] \in Nat /\ q \in Nat /\ r \in Nat
        <5>1. /\ Config[p][q] \in 0..255 /\ Config[p][r] \in 0..255
              /\ DOMAIN Config[p] \subseteq Queues /\ Queues \subseteq Nat
          BY <3>3, DispatchAssumption, Zenon
        <5>2. q \in Nat /\ r \in Nat
          BY <3>3, <5>1, Zenon
        <5>3. \A n \in 0..255 : n \in Nat
          OBVIOUS
        <5> QED
          BY <5>1, <5>2, <5>3, Zenon
      <4>2. /\ weights(p)[q] = NewWeight(Config[p][q])
            /\ weights(p)[r] = NewWeight(Config[p][r])
        BY <3>3, Zenon DEF weights
      <4> QED
        BY <4>1, <4>2 DEF NewWeight, DefaultWeight
    <3>5. ~ Before(weights(p), q, r) /\ q # r
      BY <2>6, <3>4 DEF Before
    <3>6. k < i
      BY <2>4, <2>5, <3>1, <3>2, <3>5 DEF Ranked
    <3> QED
      BY <2>3, <3>1, <3>2, <3>6 DEF Servable
  <2>7. q \in DOMAIN Config[p]
    BY <2>4, <2>5 DEF Ranked
  <2> QED
    BY <2>2, <2>6, <2>7, Zenon
<1>2. DispatchInv /\ [Next]_vars
        => [\A q \in Queues : Claimed(q) # {} =>
              \E p \in Pools :
                /\ up[p] = "up" /\ q \in DOMAIN Config[p]
                /\ \A r \in DOMAIN Config[p] :
                     Before(weights(p), r, q) => paused[r] \/ pending[r] = {}]_vars
  BY <1>1, Zenon
<1> QED
  BY <1>2, DispatchSafety, PTL DEF Spec, HeavierQueuesFirst

=============================================================================
