--------------------------- MODULE ShutdownProofs ---------------------------
(***************************************************************************)
(* The drain of a process, for any number of workers, sweeps, requests and *)
(* faults: it is complete, it is in order, and cancelled workers claim at  *)
(* most one more job.                                                      *)
(***************************************************************************)
EXTENDS Shutdown, FiniteSetTheorems, TLAPS

-----------------------------------------------------------------------------
(* The inductive invariant.                                                *)

ShutdownTypeOK ==
  /\ role \in SUBSET {"pool", "scheduler"}
  /\ main \in {"scheduler", "pool", "http", "serving", "stopping", "exited", "failed"}
  /\ stops \in Seq(Components)
  /\ asked \in SUBSET Components
  /\ request \in [Listeners -> Nat]
  /\ worker \in [Workers -> {"none", "check", "dequeue", "process", "asleep", "exit"}]
  /\ claims \in [Workers -> Nat]
  /\ sweep \in [Sweeps -> {"none", "waiting", "sweeping", "exit"}]
  /\ {pending, active, lost, faults} \subseteq Nat

\* Where a component comes in the order of shutdown().
Rank(c) ==
  IF c = "public" THEN 1 ELSE IF c = "private" THEN 2 ELSE IF c = "pool" THEN 3 ELSE 4

\* The components this process has, and those shutdown() has yet to stop.
Enabled == Listeners \cup role
Left == {stops[i] : i \in DOMAIN stops}

\* What shutdown() is through with was asked to stop, and is quiet unless its
\* deadline elapsed; what comes later was not even asked.
OrderInv ==
  /\ main \in {"scheduler", "pool", "http", "serving", "failed"} => asked = {} /\ stops = <<>>
  /\ main = "exited" => stops = <<>>
  /\ \A i, j \in DOMAIN stops : i < j => Rank(stops[i]) < Rank(stops[j])
  /\ asked \cup Left \subseteq Enabled
  /\ \A c \in asked : c \in Left => c = stops[1]
  /\ main \in {"stopping", "exited"} =>
       \A c \in Enabled \ Left :
         /\ c \in asked
         /\ Quiet(c) \/ Deadline(c) \in late
         /\ \A d \in Left : Rank(c) < Rank(d)

\* The goroutines that are inside Process.
Processing == {w \in Workers : worker[w] = "process"}

\* Every claim in Redis is held by a worker or lost.
ClaimInv == active = lost + Cardinality(Processing)

\* Workers exist only in a process that has a pool, once it was started.
WorkerInv ==
  /\ main \in {"scheduler", "pool", "failed"} \/ "pool" \notin role
       => \A w \in Workers : worker[w] = "none"
  /\ \A w \in Workers : /\ claims[w] <= 1
                        /\ claims[w] > 0 => Cancelled
                        /\ worker[w] = "dequeue" => claims[w] = 0

SweepInv == \A s \in Sweeps : sweep[s] = "exit" => "scheduler" \in asked

DrainInv ==
  /\ ShutdownTypeOK
  /\ OrderInv
  /\ ClaimInv
  /\ WorkerInv
  /\ SweepInv

-----------------------------------------------------------------------------
(* Counting the workers that are inside Process.                           *)

\* There are finitely many.
LEMMA ProcessingFinite == IsFiniteSet(Processing) /\ Cardinality(Processing) \in Nat
<1>1. Processing \in SUBSET Workers
  BY Zenon DEF Processing
<1>2. IsFiniteSet(Processing)
  BY <1>1, FS_Subset, ShutdownAssumption, Zenon
<1> QED
  BY <1>2, FS_CardinalityType, Zenon

\* A worker that goes on elsewhere changes nothing.
LEMMA CountSame ==
  ASSUME \A w \in Workers : worker'[w] = "process" <=> worker[w] = "process"
  PROVE  Cardinality(Processing)' = Cardinality(Processing)
<1>1. Processing' = Processing
  BY Zenon DEF Processing
<1> QED
  BY <1>1, Zenon

\* A claim adds one (DequeueJob).
LEMMA CountEnter ==
  ASSUME ShutdownTypeOK, NEW w \in Workers, worker[w] # "process",
         worker' = [worker EXCEPT ![w] = "process"]
  PROVE  Cardinality(Processing)' = Cardinality(Processing) + 1
<1>1. Processing' = Processing \cup {w} /\ w \notin Processing
  BY Zenon DEF Processing, ShutdownTypeOK
<1> QED
  BY <1>1, ProcessingFinite, FS_AddElement, Zenon

\* A report removes one (ProcessEnds, ProcessFails).
LEMMA CountLeave ==
  ASSUME ShutdownTypeOK, NEW w \in Workers, worker[w] = "process",
         worker' = [worker EXCEPT ![w] = "check"]
  PROVE  Cardinality(Processing)' = Cardinality(Processing) - 1
<1>1. Processing' = Processing \ {w} /\ w \in Processing
  BY Zenon DEF Processing, ShutdownTypeOK
<1> QED
  BY <1>1, ProcessingFinite, FS_RemoveElement, Zenon

-----------------------------------------------------------------------------
(* The order of shutdown().                                                *)

\* While shutdown() stays where it is, quiet components have to stay quiet.
LEMMA OrderFrame ==
  ASSUME OrderInv, role' = role, main' = main, stops' = stops, asked' = asked,
         late \subseteq late', \A c \in asked : Quiet(c) => Quiet(c)'
  PROVE  OrderInv'
<1>1. Left' = Left /\ Enabled' = Enabled
  BY Zenon DEF Left, Enabled
<1>2. \A c \in Enabled \ Left : main \in {"stopping", "exited"} =>
        c \in asked' /\ (Quiet(c)' \/ Deadline(c) \in late')
  BY Zenon DEF OrderInv
<1> QED
  BY <1>1, <1>2, Zenon DEF OrderInv

\* Before the shutdown there is nothing to say.
LEMMA OrderEarly ==
  ASSUME OrderInv, role' = role, stops' = stops, asked' = asked, asked = {}, stops = <<>>,
         main' \in {"scheduler", "pool", "http", "serving", "failed"}
  PROVE  OrderInv'
  BY DEF OrderInv, Left

\* The list shutdown() starts from has every component, in the order of ranks.
LEMMA ShutdownOrderSorted ==
  ASSUME ShutdownTypeOK
  PROVE  /\ ShutdownOrder \in Seq(Components)
         /\ {ShutdownOrder[i] : i \in DOMAIN ShutdownOrder} = Enabled
         /\ \A i, j \in DOMAIN ShutdownOrder :
              i < j => Rank(ShutdownOrder[i]) < Rank(ShutdownOrder[j])
<1> DEFINE tail == Reverse(running)
<1>1. \/ role = {} /\ tail = <<>>
      \/ role = {"pool"} /\ tail = <<"pool">>
      \/ role = {"scheduler"} /\ tail = <<"scheduler">>
      \/ role = {"pool", "scheduler"} /\ tail = <<"pool", "scheduler">>
  <2>1. CASE role = {}
    BY <2>1 DEF running, Reverse
  <2>2. CASE role = {"pool"}
    BY <2>2 DEF running, Reverse
  <2>3. CASE role = {"scheduler"}
    BY <2>3 DEF running, Reverse
  <2>4. CASE role = {"pool", "scheduler"}
    BY <2>4 DEF running, Reverse
  <2> QED
    BY <2>1, <2>2, <2>3, <2>4, Zenon DEF ShutdownTypeOK
<1>2. ShutdownOrder = <<"public", "private">> \o tail
  BY Zenon DEF ShutdownOrder
<1> HIDE DEF tail
<1>3. CASE role = {} /\ tail = <<>>
  <2>1. ShutdownOrder = <<"public", "private">>
    BY <1>2, <1>3
  <2>2. /\ DOMAIN ShutdownOrder = {1, 2} /\ ShutdownOrder \in Seq(Components)
        /\ ShutdownOrder[1] = "public" /\ ShutdownOrder[2] = "private"
    BY <2>1 DEF Components, Listeners
  <2>3. {ShutdownOrder[i] : i \in DOMAIN ShutdownOrder} = {"public", "private"}
    BY <2>2, Zenon
  <2> QED
    BY <1>3, <2>2, <2>3, Zenon DEF Listeners, Enabled, Rank
<1>4. CASE role = {"pool"} /\ tail = <<"pool">>
  <2>1. ShutdownOrder \in Seq(Components) /\ Len(ShutdownOrder) = 3
    BY <1>2, <1>4 DEF Components, Listeners
  <2>2. /\ DOMAIN ShutdownOrder = {1, 2, 3} /\ ShutdownOrder \in Seq(Components)
        /\ ShutdownOrder[1] = "public" /\ ShutdownOrder[2] = "private"
        /\ ShutdownOrder[3] = "pool"
    BY <1>2, <1>4, <2>1
  <2>3. {ShutdownOrder[i] : i \in DOMAIN ShutdownOrder} = {"public", "private", "pool"}
    BY <2>2, Zenon
  <2> QED
    BY <1>4, <2>2, <2>3, Zenon DEF Listeners, Enabled, Rank
<1>5. CASE role = {"scheduler"} /\ tail = <<"scheduler">>
  <2>1. ShutdownOrder \in Seq(Components) /\ Len(ShutdownOrder) = 3
    BY <1>2, <1>5 DEF Components, Listeners
  <2>2. /\ DOMAIN ShutdownOrder = {1, 2, 3} /\ ShutdownOrder \in Seq(Components)
        /\ ShutdownOrder[1] = "public" /\ ShutdownOrder[2] = "private"
        /\ ShutdownOrder[3] = "scheduler"
    BY <1>2, <1>5, <2>1
  <2>3. {ShutdownOrder[i] : i \in DOMAIN ShutdownOrder} = {"public", "private", "scheduler"}
    BY <2>2, Zenon
  <2> QED
    BY <1>5, <2>2, <2>3 DEF Listeners, Enabled, Rank
<1>6. CASE role = {"pool", "scheduler"} /\ tail = <<"pool", "scheduler">>
  <2>1. ShutdownOrder \in Seq(Components) /\ Len(ShutdownOrder) = 4
    BY <1>2, <1>6 DEF Components, Listeners
  <2>2. /\ DOMAIN ShutdownOrder = {1, 2, 3, 4} /\ ShutdownOrder \in Seq(Components)
        /\ ShutdownOrder[1] = "public" /\ ShutdownOrder[2] = "private"
        /\ ShutdownOrder[3] = "pool" /\ ShutdownOrder[4] = "scheduler"
    BY <1>2, <1>6, <2>1
  <2>3. {ShutdownOrder[i] : i \in DOMAIN ShutdownOrder} = {"public", "private", "pool", "scheduler"}
    BY <2>2, Zenon
  <2> QED
    BY <1>6, <2>2, <2>3, Zenon DEF Listeners, Enabled, Rank
<1> QED
  BY <1>1, <1>3, <1>4, <1>5, <1>6, Zenon

\* shutdown() begins.
LEMMA OrderBegin ==
  ASSUME ShutdownTypeOK, OrderInv, BeginShutdown
  PROVE  OrderInv'
<1>1. /\ main' = "stopping" /\ stops' = ShutdownOrder
      /\ asked' = {} /\ role' = role
  BY Zenon DEF BeginShutdown, OrderInv
<1>2. Left' = Enabled /\ Enabled' = Enabled
  BY <1>1, ShutdownOrderSorted, Zenon DEF Left, Enabled
<1>3. \A i, j \in DOMAIN stops' : i < j => Rank(stops'[i]) < Rank(stops'[j])
  BY <1>1, ShutdownOrderSorted, Zenon
<1> QED
  BY <1>1, <1>2, <1>3 DEF OrderInv

\* The component at the head is told to stop.
LEMMA OrderAsk ==
  ASSUME ShutdownTypeOK, OrderInv, NEW c \in Components, AskToStop(c)
  PROVE  OrderInv'
<1>1. /\ main = "stopping" /\ main' = main /\ stops' = stops /\ stops # <<>> /\ c = stops[1]
      /\ asked' = asked \cup {c} /\ late' = late /\ role' = role
      /\ request' = request /\ worker' = worker /\ sweep' = sweep
  BY DEF AskToStop, Stopping, httpVars, poolVars, ShutdownTypeOK
<1>2. Left' = Left /\ Enabled' = Enabled /\ \A d : Quiet(d)' <=> Quiet(d)
  BY <1>1, Zenon DEF Left, Enabled, Quiet
<1>3. c \in Enabled
  <2>1. c \in Left
    BY <1>1 DEF Left, ShutdownTypeOK
  <2> QED
    BY <1>1, <2>1, Zenon DEF OrderInv
<1> QED
  BY <1>1, <1>2, <1>3, Zenon DEF OrderInv

\* Stop returned, and shutdown() goes on to the next component.
LEMMA OrderPop ==
  ASSUME ShutdownTypeOK, OrderInv, NEW c \in Components, StopReturns(c)
  PROVE  OrderInv'
<1>1. /\ main = "stopping" /\ main' = main /\ stops' = Tail(stops)
      /\ stops # <<>> /\ c = stops[1] /\ c \in asked
      /\ asked' = asked /\ late' = late /\ role' = role
      /\ request' = request /\ worker' = worker /\ sweep' = sweep
  BY DEF StopReturns, Stopping, httpVars, poolVars, ShutdownTypeOK
<1>2. Enabled' = Enabled /\ \A d : Quiet(d)' <=> Quiet(d)
  BY <1>1, Zenon DEF Enabled, Quiet
<1>3. /\ Len(stops) \in Nat \ {0} /\ DOMAIN stops = 1..Len(stops)
      /\ DOMAIN stops' = 1..(Len(stops) - 1)
      /\ \A i \in DOMAIN stops' : stops'[i] = stops[i + 1]
  BY <1>1 DEF ShutdownTypeOK
<1>4. \A i, j \in DOMAIN stops' : i < j => Rank(stops'[i]) < Rank(stops'[j])
  BY <1>3 DEF OrderInv
<1>5. \A d \in Left' : d \in Left /\ Rank(c) < Rank(d)
  <2> SUFFICES ASSUME NEW d \in Left'
               PROVE  d \in Left /\ Rank(c) < Rank(d)
    OBVIOUS
  <2>1. PICK i \in DOMAIN stops' : d = stops'[i]
    BY Zenon DEF Left
  <2>2. i + 1 \in DOMAIN stops /\ 1 \in DOMAIN stops /\ 1 < i + 1 /\ d = stops[i + 1]
    BY <1>3, <2>1
  <2> QED
    BY <1>1, <2>2, Zenon DEF Left, OrderInv
<1>6. Rank(c) \in Nat
  BY Zenon DEF Rank
<1>7. c \notin Left'
  BY <1>5, <1>6
<1>8. \A d \in Left : d = c \/ d \in Left'
  <2> SUFFICES ASSUME NEW d \in Left, d # c
               PROVE  d \in Left'
    OBVIOUS
  <2>1. PICK i \in DOMAIN stops : d = stops[i]
    BY Zenon DEF Left
  <2>2. i - 1 \in DOMAIN stops' /\ d = stops'[i - 1]
    BY <1>1, <1>3, <2>1
  <2> QED
    BY <2>2, Zenon DEF Left
<1>9. Quiet(c) \/ Deadline(c) \in late
  BY Zenon DEF StopReturns
<1>10. \A d \in Enabled \ Left' :
         /\ d \in asked
         /\ Quiet(d) \/ Deadline(d) \in late
         /\ \A e \in Left' : Rank(d) < Rank(e)
  <2> SUFFICES ASSUME NEW d \in Enabled \ Left'
               PROVE  /\ d \in asked
                      /\ Quiet(d) \/ Deadline(d) \in late
                      /\ \A e \in Left' : Rank(d) < Rank(e)
    OBVIOUS
  <2>1. CASE d = c
    BY <1>1, <1>5, <1>9, <2>1, Zenon
  <2>2. CASE d \in Enabled \ Left
    BY <1>1, <1>5, <2>2, Zenon DEF OrderInv
  <2> QED
    BY <1>8, <2>1, <2>2, Zenon
<1>11. \A d \in asked : d \notin Left'
  BY <1>1, <1>5, <1>7, Zenon DEF OrderInv
<1>12. asked \cup Left' \subseteq Enabled
  BY <1>5, Zenon DEF OrderInv
<1>13. /\ main' = "stopping" /\ asked' = asked
       /\ \A d : Deadline(d) \in late' <=> Deadline(d) \in late
  BY <1>1, Zenon
<1> QED
  BY <1>2, <1>4, <1>10, <1>11, <1>12, <1>13, Zenon DEF OrderInv

\* A step of a running worker does not disturb the order.
LEMMA OrderPool ==
  ASSUME ShutdownTypeOK, OrderInv, WorkerInv, SweepInv, NEW w \in Workers, NEW pc,
         worker[w] \notin {"none", "exit"}, worker' = [worker EXCEPT ![w] = pc],
         UNCHANGED <<mainVars, httpVars, sweep>>
  PROVE  /\ OrderInv'
         /\ SweepInv'
         /\ main' \in {"scheduler", "pool", "failed"} \/ "pool" \notin role'
              => \A v \in Workers : worker'[v] = "none"
<1>1. /\ role' = role /\ main' = main /\ stops' = stops /\ asked' = asked /\ late' = late
      /\ request' = request /\ sweep' = sweep
  BY Zenon DEF mainVars, httpVars
<1>2. ~ \A v \in Workers : worker[v] = "exit"
  OBVIOUS
<1>3. \A c \in asked : Quiet(c) => Quiet(c)'
  BY <1>1, <1>2, Zenon DEF Quiet
<1>4. OrderInv'
  BY <1>1, <1>3, OrderFrame
<1> QED
  BY <1>1, <1>4, Zenon DEF SweepInv, WorkerInv

-----------------------------------------------------------------------------
(* Every step preserves the invariant.                                     *)

LEMMA DrainInit == Init => DrainInv
<1> SUFFICES ASSUME Init PROVE DrainInv
  OBVIOUS
<1>1. ShutdownTypeOK
  BY ShutdownAssumption DEF Init, ShutdownTypeOK, Listeners, Components
<1>2. OrderInv
  BY DEF Init, OrderInv, Left
<1>3. ClaimInv
  <2>1. Processing = {}
    BY Zenon DEF Init, Processing
  <2> QED
    BY <2>1, FS_EmptySet DEF Init, ClaimInv
<1>4. WorkerInv /\ SweepInv
  BY DEF Init, WorkerInv, SweepInv
<1> QED
  BY <1>1, <1>2, <1>3, <1>4 DEF DrainInv

\* run() up to the point where it waits.
LEMMA StartStep ==
  ASSUME DrainInv, StartScheduler \/ StartPool \/ StartPoolFails \/ StartHTTP
  PROVE  DrainInv'
<1> USE DEF DrainInv
<1>1. /\ role' = role /\ stops' = stops /\ asked' = asked /\ late' = late
      /\ request' = request /\ claims' = claims
      /\ pending' = pending /\ active' = active /\ lost' = lost
      /\ main \in {"scheduler", "pool", "http"}
      /\ main' \in {"pool", "http", "serving", "failed"}
  BY Zenon DEF StartScheduler, StartPool, StartPoolFails, StartHTTP, httpVars, poolVars, jobVars
<1>2. asked = {} /\ stops = <<>>
  BY <1>1, Zenon DEF OrderInv
<1>3. OrderInv'
  BY <1>1, <1>2, OrderEarly, Zenon
<1>4. /\ worker' \in [Workers -> {"none", "check", "dequeue", "process", "asleep", "exit"}]
      /\ sweep' \in [Sweeps -> {"none", "waiting", "sweeping", "exit"}]
      /\ faults' \in Nat
      /\ \A w \in Workers : worker'[w] = "process" <=> worker[w] = "process"
      /\ main' \in {"scheduler", "pool", "failed"} \/ "pool" \notin role
           => \A w \in Workers : worker'[w] = "none"
      /\ \A w \in Workers : worker'[w] = "dequeue" => worker[w] = "dequeue"
      /\ \A t \in Sweeps : sweep'[t] = "exit" => sweep[t] = "exit"
  <2>1. CASE StartScheduler
    BY <2>1, Zenon DEF StartScheduler, poolVars, jobVars, ShutdownTypeOK, WorkerInv
  <2>2. CASE StartPool
    BY <2>2, Zenon DEF StartPool, jobVars, ShutdownTypeOK, WorkerInv
  <2>3. CASE StartPoolFails
    BY <2>3 DEF StartPoolFails, poolVars, ShutdownTypeOK, WorkerInv
  <2>4. CASE StartHTTP
    BY <2>4, Zenon DEF StartHTTP, poolVars, jobVars, ShutdownTypeOK, WorkerInv
  <2> QED
    BY <2>1, <2>2, <2>3, <2>4, Zenon
<1>5. ShutdownTypeOK'
  BY <1>1, <1>4 DEF ShutdownTypeOK
<1>6. ClaimInv'
  BY <1>1, <1>4, CountSame, Zenon DEF ClaimInv
<1>7. WorkerInv' /\ SweepInv'
  BY <1>1, <1>4 DEF WorkerInv, SweepInv, Cancelled
<1> QED
  BY <1>3, <1>5, <1>6, <1>7, Zenon

\* The steps of shutdown(), a signal and a listener that fails leave the
\* goroutines where they are.
LEMMA ShutdownStep ==
  ASSUME DrainInv,
         \/ BeginShutdown \/ Exit \/ Signal
         \/ \E l \in Listeners : ListenerFails(l)
         \/ \E c \in Components : AskToStop(c) \/ DeadlineElapses(c) \/ StopReturns(c)
  PROVE  DrainInv'
<1> USE DEF DrainInv
<1>1. /\ UNCHANGED <<role, httpVars, poolVars, sweep, jobVars>>
      /\ asked \subseteq asked' /\ asked' \subseteq Components
      /\ stops' \in Seq(Components)
      /\ main' \in {"scheduler", "pool", "http", "serving", "stopping", "exited", "failed"}
      /\ main' \in {"scheduler", "pool", "failed"} => main' = main
  <2>1. CASE BeginShutdown
    BY <2>1, ShutdownOrderSorted, Zenon DEF BeginShutdown, ShutdownTypeOK
  <2>2. CASE Exit \/ Signal \/ \E l \in Listeners : ListenerFails(l)
    BY <2>2, Zenon DEF Exit, Signal, ListenerFails, ShutdownTypeOK
  <2>3. CASE \E c \in Components : AskToStop(c) \/ DeadlineElapses(c) \/ StopReturns(c)
    <3>1. PICK c \in Components : AskToStop(c) \/ DeadlineElapses(c) \/ StopReturns(c)
      BY <2>3, Zenon
    <3>2. CASE AskToStop(c)
      BY <3>2, Zenon DEF AskToStop, ShutdownTypeOK
    <3>3. CASE DeadlineElapses(c)
      BY <3>3, Zenon DEF DeadlineElapses, ShutdownTypeOK
    <3>4. CASE StopReturns(c)
      BY <3>4 DEF StopReturns, Stopping, ShutdownTypeOK
    <3> QED
      BY <3>1, <3>2, <3>3, <3>4
  <2> QED
    BY <2>1, <2>2, <2>3
<1>2. /\ role' = role /\ request' = request /\ worker' = worker /\ claims' = claims
      /\ sweep' = sweep /\ pending' = pending /\ active' = active /\ lost' = lost
      /\ faults' = faults
  BY <1>1, Zenon DEF httpVars, poolVars, jobVars
<1>3. ShutdownTypeOK'
  BY <1>1, <1>2, Zenon DEF ShutdownTypeOK
<1>4. ClaimInv'
  BY <1>2, CountSame, Zenon DEF ClaimInv
<1>5. WorkerInv' /\ SweepInv'
  BY <1>1, <1>2, Zenon DEF WorkerInv, SweepInv, Cancelled
<1>6. \A c : Quiet(c)' <=> Quiet(c)
  BY <1>2, Zenon DEF Quiet
<1>7. OrderInv'
  <2>1. CASE BeginShutdown
    BY <2>1, OrderBegin
  <2>2. CASE Exit
    BY <1>6, <2>2 DEF Exit, OrderInv, Left, Enabled
  <2>3. CASE Signal \/ \E l \in Listeners : ListenerFails(l)
    BY <1>2, <1>6, <2>3, OrderFrame, Zenon DEF Signal, ListenerFails
  <2>4. CASE \E c \in Components : AskToStop(c)
    BY <2>4, OrderAsk, Zenon
  <2>5. CASE \E c \in Components : DeadlineElapses(c)
    <3>1. /\ role' = role /\ main' = main /\ stops' = stops /\ asked' = asked
          /\ late \subseteq late'
      BY <2>5, Zenon DEF DeadlineElapses
    <3> QED
      BY <1>6, <3>1, OrderFrame, Zenon
  <2>6. CASE \E c \in Components : StopReturns(c)
    BY <2>6, OrderPop, Zenon
  <2> QED
    BY <2>1, <2>2, <2>3, <2>4, <2>5, <2>6, Zenon
<1> QED
  BY <1>3, <1>4, <1>5, <1>7

\* A listener that was told to stop accepts nothing.
LEMMA RequestStep ==
  ASSUME DrainInv, NEW l \in Listeners, Accept(l) \/ Respond(l)
  PROVE  DrainInv'
<1> USE DEF DrainInv
<1>1. /\ role' = role /\ main' = main /\ stops' = stops /\ asked' = asked /\ late' = late
      /\ worker' = worker /\ claims' = claims /\ sweep' = sweep
      /\ active' = active /\ lost' = lost /\ faults' = faults
  BY Zenon DEF Accept, Respond, mainVars, poolVars, jobVars
<1>2. /\ request' \in [Listeners -> Nat] /\ pending' \in Nat
      /\ \A c \in asked \cap Listeners : request[c] = 0 => request'[c] = 0
  <2>1. CASE Accept(l)
    BY <2>1 DEF Accept, jobVars, ShutdownTypeOK
  <2>2. CASE Respond(l)
    BY <2>2 DEF Respond, ShutdownTypeOK
  <2> QED
    BY <2>1, <2>2, Zenon
<1>3. \A c \in asked : Quiet(c) => Quiet(c)'
  BY <1>1, <1>2, Zenon DEF Quiet
<1>4. OrderInv'
  BY <1>1, <1>3, OrderFrame
<1>5. ShutdownTypeOK'
  BY <1>1, <1>2, Zenon DEF ShutdownTypeOK
<1>6. ClaimInv'
  BY <1>1, CountSame, Zenon DEF ClaimInv
<1>7. WorkerInv' /\ SweepInv'
  BY <1>1, Zenon DEF WorkerInv, SweepInv, Cancelled
<1> QED
  BY <1>4, <1>5, <1>6, <1>7, Zenon

\* The counters are numbers.
LEMMA Numbers ==
  ASSUME DrainInv
  PROVE  pending \in Nat /\ active \in Nat /\ lost \in Nat /\ faults \in Nat /\ lost <= active
  BY ProcessingFinite DEF DrainInv, ShutdownTypeOK, ClaimInv

\* Only a worker that was already asking for a job is counted.
LEMMA ClaimCounted ==
  ASSUME DrainInv, NEW w \in Workers, UNCHANGED asked,
         claims' = claims \/ (worker[w] = "dequeue" /\ CountClaim(w))
  PROVE  /\ claims' \in [Workers -> Nat]
         /\ \A v \in Workers : v # w => claims'[v] = claims[v]
         /\ \A v \in Workers : claims'[v] <= 1 /\ (claims'[v] > 0 => Cancelled')
<1> USE DEF DrainInv
<1>1. Cancelled' = Cancelled
  BY Zenon DEF Cancelled
<1>2. CASE claims' = claims
  BY <1>1, <1>2, Zenon DEF WorkerInv, ShutdownTypeOK
<1>3. CASE worker[w] = "dequeue" /\ CountClaim(w)
  <2>1. claims[w] = 0
    BY <1>3, Zenon DEF WorkerInv
  <2>2. /\ claims' \in [Workers -> Nat]
        /\ claims'[w] = IF Cancelled THEN 1 ELSE 0
        /\ \A v \in Workers : v # w => claims'[v] = claims[v]
    BY <1>3, <2>1 DEF CountClaim, ShutdownTypeOK
  <2> QED
    BY <1>1, <2>2 DEF WorkerInv, ShutdownTypeOK
<1> QED
  BY <1>2, <1>3, Zenon

\* A worker that has no claim goes on without one.
LEMMA IdleStep ==
  ASSUME DrainInv, NEW w \in Workers,
         \/ Check(w) \/ DequeueNothing(w) \/ DequeueFails(w) \/ DequeueReplyLost(w) \/ Wake(w)
  PROVE  DrainInv'
<1> USE DEF DrainInv
<1>1. PICK pc \in {"check", "dequeue", "asleep", "exit"} :
        /\ worker' = [worker EXCEPT ![w] = pc]
        /\ pc = "dequeue" => worker[w] = "check" /\ ~ Cancelled /\ claims' = claims
  BY Zenon DEF Check, DequeueNothing, DequeueFails, DequeueReplyLost, Wake
<1>2. /\ UNCHANGED <<mainVars, httpVars, sweep>>
      /\ worker[w] \in {"check", "dequeue", "asleep"}
      /\ pending' \in Nat /\ active' \in Nat /\ lost' \in Nat /\ faults' \in Nat
      /\ active' - lost' = active - lost
      /\ \/ claims' = claims
         \/ worker[w] = "dequeue" /\ CountClaim(w)
  <2>1. CASE Check(w) \/ DequeueNothing(w) \/ Wake(w)
    BY <2>1, Numbers, Zenon DEF Check, DequeueNothing, Wake, jobVars
  <2>2. CASE DequeueFails(w)
    BY <2>2, Numbers DEF DequeueFails
  <2>3. CASE DequeueReplyLost(w)
    BY <2>3, Numbers DEF DequeueReplyLost
  <2> QED
    BY <2>1, <2>2, <2>3, Zenon
<1>3. /\ role' = role /\ main' = main /\ stops' = stops /\ asked' = asked /\ late' = late
      /\ request' = request /\ sweep' = sweep
  BY <1>2, Zenon DEF mainVars, httpVars
<1>4. /\ OrderInv' /\ SweepInv'
      /\ main' \in {"scheduler", "pool", "failed"} \/ "pool" \notin role'
           => \A v \in Workers : worker'[v] = "none"
  BY <1>1, <1>2, OrderPool, Zenon
<1>5. /\ claims' \in [Workers -> Nat]
      /\ \A v \in Workers : v # w => claims'[v] = claims[v]
      /\ \A v \in Workers : claims'[v] <= 1 /\ (claims'[v] > 0 => Cancelled')
  BY <1>2, <1>3, ClaimCounted
<1>6. WorkerInv'
  <2>1. \A v \in Workers : worker'[v] = "dequeue" => claims'[v] = 0
    <3> SUFFICES ASSUME NEW v \in Workers, worker'[v] = "dequeue"
                 PROVE  claims'[v] = 0
      OBVIOUS
    <3>1. CASE v = w
      BY <1>1, <3>1 DEF WorkerInv, ShutdownTypeOK
    <3>2. CASE v # w
      BY <1>1, <1>5, <3>2, Zenon DEF WorkerInv, ShutdownTypeOK
    <3> QED
      BY <3>1, <3>2
  <2> QED
    BY <1>4, <1>5, <2>1 DEF WorkerInv
<1>7. ShutdownTypeOK'
  BY <1>1, <1>2, <1>3, <1>5, Zenon DEF ShutdownTypeOK
<1>8. ClaimInv'
  <2>1. \A v \in Workers : worker'[v] = "process" <=> worker[v] = "process"
    BY <1>1, <1>2 DEF ShutdownTypeOK
  <2>2. Cardinality(Processing)' = Cardinality(Processing)
    BY <2>1, CountSame
  <2> QED
    BY <1>2, <2>2, ProcessingFinite, Numbers DEF ClaimInv
<1> QED
  BY <1>4, <1>6, <1>7, <1>8, Zenon

\* A worker claims a job, or is done with one.
LEMMA BusyStep ==
  ASSUME DrainInv, NEW w \in Workers, DequeueJob(w) \/ ProcessEnds(w) \/ ProcessFails(w)
  PROVE  DrainInv'
<1> USE DEF DrainInv
<1>1. PICK pc \in {"check", "process"} : worker' = [worker EXCEPT ![w] = pc]
  BY Zenon DEF DequeueJob, ProcessEnds, ProcessFails
<1>2. /\ UNCHANGED <<mainVars, httpVars, sweep>>
      /\ worker[w] \in {"dequeue", "process"}
      /\ \/ claims' = claims
         \/ worker[w] = "dequeue" /\ CountClaim(w)
  BY Zenon DEF DequeueJob, ProcessEnds, ProcessFails
<1>3. /\ role' = role /\ main' = main /\ stops' = stops /\ asked' = asked /\ late' = late
      /\ request' = request /\ sweep' = sweep
  BY <1>2, Zenon DEF mainVars, httpVars
<1>4. /\ OrderInv' /\ SweepInv'
      /\ main' \in {"scheduler", "pool", "failed"} \/ "pool" \notin role'
           => \A v \in Workers : worker'[v] = "none"
  BY <1>1, <1>2, OrderPool, Zenon
<1>5. /\ claims' \in [Workers -> Nat]
      /\ \A v \in Workers : v # w => claims'[v] = claims[v]
      /\ \A v \in Workers : claims'[v] <= 1 /\ (claims'[v] > 0 => Cancelled')
  BY <1>2, <1>3, ClaimCounted
<1>6. WorkerInv'
  <2>1. \A v \in Workers : worker'[v] = "dequeue" => claims'[v] = 0
    BY <1>1, <1>5, Zenon DEF WorkerInv, ShutdownTypeOK
  <2> QED
    BY <1>4, <1>5, <2>1 DEF WorkerInv
<1>7. /\ pending' \in Nat /\ active' \in Nat /\ lost' \in Nat /\ faults' \in Nat
      /\ ClaimInv'
  <2>1. CASE DequeueJob(w)
    <3>1. Cardinality(Processing)' = Cardinality(Processing) + 1
      BY <2>1, CountEnter, Zenon DEF DequeueJob
    <3> QED
      BY <2>1, <3>1, ProcessingFinite, Numbers DEF DequeueJob, ClaimInv
  <2>2. CASE ProcessEnds(w) \/ ProcessFails(w)
    <3>1. Cardinality(Processing)' = Cardinality(Processing) - 1
      BY <2>2, CountLeave, Zenon DEF ProcessEnds, ProcessFails
    <3>2. Cardinality(Processing) > 0
      <4>1. Processing # {}
        BY <2>2, Zenon DEF ProcessEnds, ProcessFails, Processing
      <4> QED
        BY <4>1, ProcessingFinite, FS_EmptySet
    <3> QED
      BY <2>2, <3>1, <3>2, ProcessingFinite, Numbers DEF ProcessEnds, ProcessFails, ClaimInv
  <2> QED
    BY <2>1, <2>2
<1>8. ShutdownTypeOK'
  BY <1>1, <1>3, <1>5, <1>7, Zenon DEF ShutdownTypeOK
<1> QED
  BY <1>4, <1>6, <1>7, <1>8

\* The sweeps give back lost claims only.
LEMMA SweepStep ==
  ASSUME DrainInv, NEW s \in Sweeps, SweepBegins(s) \/ SweepEnds(s) \/ SweepStops(s)
  PROVE  DrainInv'
<1> USE DEF DrainInv
<1>1. /\ role' = role /\ main' = main /\ stops' = stops /\ asked' = asked /\ late' = late
      /\ request' = request /\ worker' = worker /\ claims' = claims /\ faults' = faults
      /\ sweep[s] # "exit"
  BY Zenon DEF SweepBegins, SweepEnds, SweepStops, mainVars, httpVars, poolVars, jobVars
<1>2. PICK pc \in {"waiting", "sweeping", "exit"} :
        sweep' = [sweep EXCEPT ![s] = pc] /\ (pc = "exit" => "scheduler" \in asked)
  BY Zenon DEF SweepBegins, SweepEnds, SweepStops
<1>3. \A c \in asked : Quiet(c) => Quiet(c)'
  BY <1>1, Zenon DEF Quiet
<1>4. OrderInv'
  BY <1>1, <1>3, OrderFrame
<1>5. /\ pending' \in Nat /\ active' \in Nat /\ lost' \in Nat
      /\ active' - lost' = active - lost
  <2>1. CASE SweepEnds(s)
    BY <2>1, Numbers DEF SweepEnds
  <2>2. CASE SweepBegins(s) \/ SweepStops(s)
    BY <2>2, Numbers, Zenon DEF SweepBegins, SweepStops, jobVars
  <2> QED
    BY <2>1, <2>2
<1>6. ShutdownTypeOK'
  BY <1>1, <1>2, <1>5 DEF ShutdownTypeOK
<1>7. ClaimInv'
  <2>1. Cardinality(Processing)' = Cardinality(Processing)
    BY <1>1, CountSame, Zenon
  <2> QED
    BY <1>5, <2>1, ProcessingFinite, Numbers DEF ClaimInv
<1>8. WorkerInv' /\ SweepInv'
  BY <1>1, <1>2, Zenon DEF WorkerInv, SweepInv, Cancelled, ShutdownTypeOK
<1> QED
  BY <1>4, <1>6, <1>7, <1>8

LEMMA DrainStep == DrainInv /\ [Next]_vars => DrainInv'
<1> SUFFICES ASSUME DrainInv, [Next]_vars PROVE DrainInv'
  OBVIOUS
<1>1. CASE Main
  BY <1>1, StartStep, ShutdownStep, Zenon DEF Main
<1>2. CASE Signal \/ \E l \in Listeners : ListenerFails(l)
  BY <1>2, ShutdownStep, Zenon
<1>3. CASE \E l \in Listeners : Accept(l) \/ Respond(l)
  BY <1>3, RequestStep
<1>4. CASE \E w \in Workers : \/ Check(w) \/ DequeueNothing(w) \/ DequeueFails(w)
                              \/ DequeueReplyLost(w) \/ Wake(w)
  BY <1>4, IdleStep
<1>5. CASE \E w \in Workers : DequeueJob(w) \/ ProcessEnds(w) \/ ProcessFails(w)
  BY <1>5, BusyStep
<1>6. CASE \E t \in Sweeps : SweepBegins(t) \/ SweepEnds(t) \/ SweepStops(t)
  BY <1>6, SweepStep
<1>7. CASE UNCHANGED vars
  <2>1. /\ role' = role /\ main' = main /\ stops' = stops /\ asked' = asked /\ late' = late
        /\ request' = request /\ worker' = worker /\ claims' = claims /\ sweep' = sweep
        /\ pending' = pending /\ active' = active /\ lost' = lost /\ faults' = faults
    BY <1>7, Zenon DEF vars, mainVars, httpVars, poolVars, jobVars
  <2>2. OrderInv'
    <3>1. \A c \in asked : Quiet(c) => Quiet(c)'
      BY <2>1, Zenon DEF Quiet
    <3> QED
      BY <2>1, <3>1, OrderFrame DEF DrainInv
  <2>3. ClaimInv'
    BY <2>1, CountSame DEF DrainInv, ClaimInv
  <2> QED
    BY <2>1, <2>2, <2>3 DEF DrainInv, ShutdownTypeOK, WorkerInv, SweepInv, Cancelled
<1> QED
  BY <1>1, <1>2, <1>3, <1>4, <1>5, <1>6, <1>7 DEF Next

-----------------------------------------------------------------------------
(* The results.                                                            *)

\* The invariant behind the four results: the claims in Redis are those of the
\* workers and the lost ones, and shutdown() is through with exactly the
\* components that come before the ones it has left.
THEOREM DrainSafety == Spec => []DrainInv
  BY DrainInit, DrainStep, PTL DEF Spec

\* A process that exits with its pool drained in time leaves no claimed job
\* behind but the lost ones (Pool.Stop, shutdown).
THEOREM Drain == Spec => []DrainIsComplete
<1>1. DrainInv => DrainIsComplete
  <2> SUFFICES ASSUME DrainInv, main = "exited", "pool" \notin late
               PROVE  active = lost
    BY Zenon DEF DrainIsComplete
  <2> USE DEF DrainInv
  <2>1. \A w \in Workers : worker[w] \in {"none", "exit"}
    <3>1. CASE "pool" \in role
      <4>1. "pool" \in Enabled \ Left
        BY <3>1 DEF OrderInv, Left, Enabled
      <4>2. Quiet("pool") \/ Deadline("pool") \in late
        BY <4>1, Zenon DEF OrderInv
      <4> QED
        BY <4>2, Zenon DEF Quiet, Deadline, Listeners
    <3>2. CASE "pool" \notin role
      BY <3>2, Zenon DEF WorkerInv
    <3> QED
      BY <3>1, <3>2, Zenon
  <2>2. Processing = {}
    BY <2>1, Zenon DEF Processing
  <2> QED
    BY <2>2, FS_EmptySet, Numbers DEF ClaimInv
<1> QED
  BY <1>1, DrainSafety, PTL

\* A worker told to stop claims at most the job it was asking for (Pool.run).
THEOREM Cancel == Spec => []OneClaimAfterCancel
<1>1. DrainInv => OneClaimAfterCancel
  BY DEF DrainInv, WorkerInv, OneClaimAfterCancel
<1> QED
  BY <1>1, DrainSafety, PTL

\* The pool is not told to stop while a request is open, unless the listeners
\* ran out of time (shutdown, HTTPServer.Stop).
THEOREM APIFirst == Spec => []APIClosedBeforeDrain
<1>1. DrainInv => APIClosedBeforeDrain
  <2> SUFFICES ASSUME DrainInv, "pool" \in asked, "http" \notin late, NEW l \in Listeners
               PROVE  l \in asked /\ request[l] = 0
    BY Zenon DEF APIClosedBeforeDrain, Cancelled
  <2> USE DEF DrainInv
  <2>1. main \in {"stopping", "exited"} /\ "pool" \in Enabled /\ l \in Enabled
    BY Zenon DEF OrderInv, ShutdownTypeOK, Enabled
  <2>2. Rank(l) < Rank("pool")
    BY DEF Rank, Listeners
  <2>3. l \notin Left
    <3> SUFFICES ASSUME l \in Left PROVE FALSE
      OBVIOUS
    <3>1. Rank(l) \in Nat /\ Rank("pool") \in Nat
      BY Zenon DEF Rank
    <3>2. PICK i \in DOMAIN stops : l = stops[i]
      BY Zenon DEF Left
    <3>3. CASE "pool" \in Left
      <4>1. "pool" = stops[1] /\ 1 \in DOMAIN stops /\ (i = 1 \/ 1 < i)
        BY <3>2, <3>3 DEF OrderInv, ShutdownTypeOK
      <4> QED
        BY <2>2, <3>1, <3>2, <4>1 DEF OrderInv
    <3>4. CASE "pool" \notin Left
      BY <2>1, <2>2, <3>1, <3>4 DEF OrderInv
    <3> QED
      BY <3>3, <3>4
  <2>4. l \in asked /\ (Quiet(l) \/ Deadline(l) \in late)
    BY <2>1, <2>3 DEF OrderInv
  <2> QED
    BY <2>4, Zenon DEF Quiet, Deadline, Listeners
<1> QED
  BY <1>1, DrainSafety, PTL

\* The sweeps go on until the pool has drained or given up (shutdown).
THEOREM SweepsLast == Spec => []SweepsOutliveWorkers
<1>1. DrainInv => SweepsOutliveWorkers
  <2> SUFFICES ASSUME DrainInv, NEW s \in Sweeps, sweep[s] = "exit", "pool" \notin late,
                      NEW w \in Workers
               PROVE  worker[w] \in {"none", "exit"}
    BY Zenon DEF SweepsOutliveWorkers
  <2> USE DEF DrainInv
  <2>1. CASE "pool" \notin role
    BY <2>1, Zenon DEF WorkerInv
  <2>2. CASE "pool" \in role
    <3>1. "scheduler" \in asked
      BY Zenon DEF SweepInv
    <3>2. /\ main \in {"stopping", "exited"}
          /\ "pool" \in Enabled /\ "scheduler" \in Enabled
      BY <2>2, <3>1 DEF OrderInv, ShutdownTypeOK, Enabled
    <3>3. Rank("pool") = 3 /\ Rank("scheduler") = 4
      BY Zenon DEF Rank
    <3>4. "pool" \notin Left
      <4> SUFFICES ASSUME "pool" \in Left PROVE FALSE
        OBVIOUS
      <4>1. PICK i \in DOMAIN stops : "pool" = stops[i]
        BY Zenon DEF Left
      <4>2. CASE "scheduler" \in Left
        <5>1. "scheduler" = stops[1] /\ 1 \in DOMAIN stops /\ (i = 1 \/ 1 < i)
          BY <3>1, <4>1, <4>2 DEF OrderInv, ShutdownTypeOK
        <5> QED
          BY <3>3, <4>1, <5>1 DEF OrderInv
      <4>3. CASE "scheduler" \notin Left
        BY <3>2, <3>3, <4>3 DEF OrderInv
      <4> QED
        BY <4>2, <4>3, Zenon
    <3>5. Quiet("pool") \/ Deadline("pool") \in late
      BY <3>2, <3>4, Zenon DEF OrderInv
    <3> QED
      BY <3>5, Zenon DEF Quiet, Deadline, Listeners
  <2> QED
    BY <2>1, <2>2
<1> QED
  BY <1>1, DrainSafety, PTL

=============================================================================
