----------------------------- MODULE MCDispatch -----------------------------
(* Three pools over two queues: in "a" the second queue outweighs the      *)
(* first; in "b" they tie, the first by the default weight; "c" never      *)
(* starts, because its weight is out of range.                              *)
EXTENDS Dispatch

MCConfig ==
  "a" :> (1 :> 1 @@ 2 :> 3) @@ "b" :> (1 :> 0 @@ 2 :> 1) @@ "c" :> (2 :> 101)

\* The polling order is what it has to be, for up to three queues and weights
\* (BuildDequeueOrder, dedupeQueues).
ASSUME PolledInOrder ==
  \A Q \in SUBSET (1..3) : \A w \in [Q -> 1..3] : Ranked(w, dedupeQueues(BuildDequeueOrder(w)))

=============================================================================
