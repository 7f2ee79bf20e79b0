------------------------------ MODULE Dispatch ------------------------------
(***************************************************************************)
(* Which job is claimed next: the queue registry with its weights and      *)
(* paused flags, the polling order each worker pool computes when it       *)
(* starts, and the part of dequeue.lua that walks that order and pops the  *)
(* best pending job.  Pools start, fail to start and stop while producers  *)
(* create queues and operators pause them.                                 *)
(*                                                                         *)
(* A queue name is a number, its rank in alphabetical order.  A pending    *)
(* job is its priority and the time it was enqueued at.                    *)
(***************************************************************************)
EXTENDS Integers, Sequences, SequencesExt

CONSTANTS
  Queues,      \* queue names, numbers
  Pools,       \* processes with a worker pool
  Config,      \* Config[p][q]: raw weight of q in the configuration of p
  Names,       \* priority names producers send
  Band,        \* priorityBand
  MaxTime,     \* the clock stops here
  MaxPending   \* jobs pending in one queue at most

Weights == 1..100
DefaultWeight == 1
MaxPriority == 10

\* No name means normal; any other name is refused.
ParsePriority ==
  [name \in {"", "low", "normal", "default", "high", "critical"} |->
     CASE name = "low" -> 1
       [] name = "high" -> 8
       [] name = "critical" -> 10
       [] OTHER -> 5]

ASSUME DispatchAssumption ==
  /\ Queues \subseteq Nat
  /\ \A p \in Pools : DOMAIN Config[p] \subseteq Queues /\ DOMAIN Config[p] # {}
  /\ \A p \in Pools : \A q \in DOMAIN Config[p] : Config[p][q] \in 0..255
  /\ {MaxTime, MaxPending} \subseteq Nat
  /\ Band \in Nat /\ Band > MaxTime

VARIABLES
  registry,  \* the queues that are listed
  weight,    \* weight[q] in the queue's meta hash, 0 when there is no hash
  paused,    \* paused[q] in the queue's meta hash
  wanted,    \* wanted[q]: whether the operators want q paused
  up,        \* up[p]: "down", "registering" or "up"
  todo,      \* todo[p]: configured queues p still has to register
  order,     \* order[p]: Pool.dequeueOrder
  pending,   \* pending[q]: the pending jobs of q, as <<priority, time>>
  clock      \* now

meta == <<registry, weight, paused>>
vars == <<meta, wanted, up, todo, order, pending, clock>>

Init ==
  /\ registry = {}
  /\ weight = [q \in Queues |-> 0]
  /\ paused = [q \in Queues |-> FALSE]
  /\ wanted = [q \in Queues |-> FALSE]
  /\ up = [p \in Pools |-> "down"]
  /\ todo = [p \in Pools |-> {}]
  /\ order = [p \in Pools |-> <<>>]
  /\ pending = [q \in Queues |-> {}]
  /\ clock = 0

-----------------------------------------------------------------------------
(* Queue configuration.                                                    *)

ValidWeight(raw) == raw = 0 \/ raw \in Weights
NewWeight(raw) == IF raw = 0 THEN DefaultWeight ELSE raw

\* Heavier queues first, ties by name.
Before(w, q, r) == w[q] > w[r] \/ (w[q] = w[r] /\ q < r)

\* Each queue as often as its weight says.  The queues are fresh from the
\* configuration and never paused here.
BuildDequeueOrder(w) ==
  LET sorted == SetToSortSeq(DOMAIN w, LAMBDA q, r : Before(w, q, r))
  IN  FlattenSeq([i \in DOMAIN sorted |-> [n \in 1..w[sorted[i]] |-> sorted[i]]])

dedupeQueues(list) ==
  FoldLeft(LAMBDA out, q : IF q \in ToSet(out) THEN out ELSE Append(out, q), <<>>, list)

\* What a polling order for the weights w has to be: every queue once, heavier
\* ones first.
Ranked(w, queues) ==
  /\ queues \in Seq(DOMAIN w) /\ ToSet(queues) = DOMAIN w
  /\ \A i, k \in DOMAIN queues : i < k => Before(w, queues[i], queues[k])

-----------------------------------------------------------------------------
(* Pools.                                                                  *)

\* The queues of pool p, as registered.
weights(p) == [q \in DOMAIN Config[p] |-> NewWeight(Config[p][q])]

Start(p) ==
  /\ up[p] = "down"
  /\ up' = [up EXCEPT ![p] = "registering"]
  /\ todo' = [todo EXCEPT ![p] = DOMAIN Config[p]]
  /\ UNCHANGED <<meta, wanted, order, pending, clock>>

\* Mutant of Register: the paused flag is written like the weight.
RegisterResumes(p, q) ==
  /\ q \in todo[p] /\ ValidWeight(Config[p][q])
  /\ registry' = registry \cup {q}
  /\ weight' = [weight EXCEPT ![q] = NewWeight(Config[p][q])]
  /\ paused' = [paused EXCEPT ![q] = FALSE]
  /\ todo' = [todo EXCEPT ![p] = @ \ {q}]
  /\ UNCHANGED <<wanted, up, order, pending, clock>>

\* QueueRepo.Register: the weight always, the flag only when there is none, in
\* which case it is FALSE already.
Register(p, q) ==
  /\ q \in todo[p] /\ ValidWeight(Config[p][q])
  /\ registry' = registry \cup {q}
  /\ weight' = [weight EXCEPT ![q] = NewWeight(Config[p][q])]
  /\ todo' = [todo EXCEPT ![p] = @ \ {q}]
  /\ UNCHANGED <<paused, wanted, up, order, pending, clock>>

\* A weight out of range, or a failed call: Start returns the error.
StartFails(p) ==
  /\ up[p] = "registering"
  /\ up' = [up EXCEPT ![p] = "down"]
  /\ todo' = [todo EXCEPT ![p] = {}]
  /\ UNCHANGED <<meta, wanted, order, pending, clock>>

\* Mutant of LaunchWorkers: the queues are sorted by name.
LaunchWorkersByName(p) ==
  /\ up[p] = "registering" /\ todo[p] = {}
  /\ up' = [up EXCEPT ![p] = "up"]
  /\ order' = [order EXCEPT ![p] = SetToSortSeq(DOMAIN weights(p), <)]
  /\ UNCHANGED <<meta, wanted, todo, pending, clock>>

LaunchWorkers(p) ==
  /\ up[p] = "registering" /\ todo[p] = {}
  /\ up' = [up EXCEPT ![p] = "up"]
  /\ order' = [order EXCEPT ![p] = BuildDequeueOrder(weights(p))]
  /\ UNCHANGED <<meta, wanted, todo, pending, clock>>

Stop(p) ==
  /\ up[p] = "up"
  /\ up' = [up EXCEPT ![p] = "down"]
  /\ order' = [order EXCEPT ![p] = <<>>]
  /\ UNCHANGED <<meta, wanted, todo, pending, clock>>

-----------------------------------------------------------------------------
(* Producers, operators and workers.                                       *)

\* enqueue.lua: lists the queue and configures it if nobody has.
Enqueue(q, name) ==
  /\ name \in DOMAIN ParsePriority
  /\ Cardinality(pending[q]) < MaxPending
  /\ <<ParsePriority[name], clock>> \notin pending[q]
  /\ pending' = [pending EXCEPT ![q] = @ \cup {<<ParsePriority[name], clock>>}]
  /\ registry' = registry \cup {q}
  /\ weight' = [weight EXCEPT ![q] = IF @ = 0 THEN DefaultWeight ELSE @]
  /\ UNCHANGED <<paused, wanted, up, todo, order, clock>>

FindByName(q) == q \in registry

\* QueueRepo.SetPaused: the flag dequeue.lua reads, set whatever it was.
WritePaused(q, value) == paused' = [paused EXCEPT ![q] = value]

\* InspectorService.SetQueuePaused: a queue that is not listed is not found.
SetPaused(q, value) ==
  /\ FindByName(q)
  /\ WritePaused(q, value)
  /\ wanted' = [wanted EXCEPT ![q] = value]
  /\ UNCHANGED <<registry, weight, up, todo, order, pending, clock>>

\* Mutant of PendingScore: the band is not inverted.
PendingScoreUpward(priority, time) == priority * Band + time

PendingScore(priority, time) == (MaxPriority - priority) * Band + time

Score(j) == PendingScore(j[1], j[2])

\* Mutant of Servable: a queue with a single job passes for empty.
ServableIfTwo(q) == ~paused[q] /\ Cardinality(pending[q]) > 1

\* dequeue.lua would pop from q.
Servable(q) == ~paused[q] /\ pending[q] # {}

\* JobBroker.Dequeue by a worker of p: the first queue that is not paused and
\* has a job gives the one with the lowest score.
Dequeue(p) ==
  /\ up[p] = "up"
  /\ \E queues \in {dedupeQueues(order[p])} : \E i \in DOMAIN queues :
       /\ Servable(queues[i])
       /\ \A n \in 1..(i - 1) : ~Servable(queues[n])
       /\ \E j \in pending[queues[i]] :
            /\ \A k \in pending[queues[i]] : Score(j) <= Score(k)
            /\ pending' = [pending EXCEPT ![queues[i]] = @ \ {j}]
  /\ UNCHANGED <<meta, wanted, up, todo, order, clock>>

Tick ==
  /\ clock < MaxTime
  /\ clock' = clock + 1
  /\ UNCHANGED <<meta, wanted, up, todo, order, pending>>

-----------------------------------------------------------------------------

Next ==
  \/ \E p \in Pools : Start(p)
  \/ \E p \in Pools, q \in Queues : Register(p, q)
  \/ \E p \in Pools : StartFails(p)
  \/ \E p \in Pools : LaunchWorkers(p)
  \/ \E p \in Pools : Stop(p)
  \/ \E q \in Queues, name \in Names : Enqueue(q, name)
  \/ \E q \in Queues, value \in BOOLEAN : SetPaused(q, value)
  \/ \E p \in Pools : Dequeue(p)
  \/ Tick

Spec == Init /\ [][Next]_vars

\* The workers of a pool poll until the pool is stopped.
FairSpec == Spec /\ \A p \in Pools : WF_vars(Dequeue(p))

-----------------------------------------------------------------------------
(* Properties.                                                             *)

\* What a step claims from q.
Claimed(q) == pending[q] \ pending'[q]

\* Nothing is claimed from a queue the operators want paused, however often
\* pools restart and whoever creates the queue (Register, dequeue.lua).
PauseHolds == [][\A q \in Queues : Claimed(q) # {} => ~wanted[q]]_vars

\* A claim comes from a queue of a running pool, and all queues that pool ranks
\* higher are paused or empty (BuildDequeueOrder, dequeue.lua).
HeavierQueuesFirst ==
  [][\A q \in Queues : Claimed(q) # {} =>
       \E p \in Pools :
         /\ up[p] = "up" /\ q \in DOMAIN Config[p]
         /\ \A r \in DOMAIN Config[p] :
              Before(weights(p), r, q) => paused[r] \/ pending[r] = {}]_vars

\* beats of the in-memory store: higher priority first, then older first.
beats(j, k) == IF j[1] # k[1] THEN j[1] > k[1] ELSE j[2] < k[2]

\* Within a queue no pending job beats the one claimed: one score per job gives
\* the order the store of the tests defines (PendingScore, ZPOPMIN, fake.go).
BestJobFirst ==
  [][\A q \in Queues : \A j \in Claimed(q) : \A k \in pending[q] : ~beats(k, j)]_vars

\* Pool p runs and q waits, unpaused.
Waiting(p, q) ==
  up[p] = "up" /\ q \in DOMAIN Config[p] /\ ~paused[q] /\ pending[q] # {}

KeepsBeingServed(p, q) == <>[]Waiting(p, q) => []<><<Claimed(q) # {}>>_vars

\* The queue a pool ranks first is served for as long as it has jobs.
FirstQueueIsServed ==
  \A p \in Pools : \A q \in DOMAIN Config[p] :
    (\A r \in DOMAIN Config[p] \ {q} : Before(weights(p), q, r)) => KeepsBeingServed(p, q)

-----------------------------------------------------------------------------
(* What the repository says and the code does not do.                      *)

\* The low-traffic queue never starves (weight.go, README).
NoQueueStarves ==
  \A p \in Pools : \A q \in DOMAIN Config[p] : KeepsBeingServed(p, q)

=============================================================================
