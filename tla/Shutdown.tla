------------------------------ MODULE Shutdown ------------------------------
(***************************************************************************)
(* The life of one process: cmd/main.go starts the scheduler, the worker   *)
(* pool and the two HTTP listeners, waits for a signal or for a listener   *)
(* that fails, and stops everything in reverse order while requests,       *)
(* workers and sweeps are still under way.                                 *)
(*                                                                         *)
(* Jobs are counted, not named.  The lease of a job this process is        *)
(* running does not lapse here (Delivery has that case); a claim that no   *)
(* worker holds any longer is given back by the reclaim sweep.             *)
(***************************************************************************)
EXTENDS Integers, Sequences, FiniteSets, SequencesExt

CONSTANTS
  Workers,     \* goroutines of the pool
  Sweeps,      \* loops of the scheduler, "reclaim" one of them
  MaxBacklog,  \* jobs pending when the process starts, at most
  MaxRequests, \* requests accepted in one behaviour
  MaxFaults    \* failing Redis calls in one behaviour

ASSUME ShutdownAssumption ==
  /\ "reclaim" \in Sweeps /\ IsFiniteSet(Workers)
  /\ {MaxBacklog, MaxRequests, MaxFaults} \subseteq Nat

Listeners == {"public", "private"}
Components == Listeners \cup {"pool", "scheduler"}

VARIABLES
  role,      \* the components the configuration enables besides HTTP
  main,      \* where run() is
  signalled, \* a signal has arrived
  failed,    \* listeners that died
  stops,     \* components shutdown() still has to stop, in order
  asked,     \* components that have been told to stop
  late,      \* the deadlines that have elapsed, "http" and "pool"
  request,   \* request[l]: requests in flight on listener l
  accepted,  \* requests accepted so far
  worker,    \* worker[w]: where Pool.run is
  claims,    \* claims[w]: jobs w claimed after the pool was told to stop
  sweep,     \* sweep[s]: where the loop of spawn is
  pending,   \* pending jobs
  active,    \* jobs claimed in Redis
  lost,      \* those among them that no worker holds any longer
  faults     \* failed calls so far

mainVars == <<role, main, signalled, failed, stops, asked, late>>
httpVars == <<request, accepted>>
poolVars == <<worker, claims>>
jobVars == <<pending, active, lost, faults>>
vars == <<mainVars, httpVars, poolVars, sweep, jobVars>>

MaxJobs == MaxBacklog + MaxRequests

Init ==
  /\ role \in SUBSET {"pool", "scheduler"}
  /\ main = "scheduler"
  /\ signalled = FALSE
  /\ failed = {} /\ stops = <<>> /\ asked = {} /\ late = {}
  /\ request = [l \in Listeners |-> 0]
  /\ accepted = 0
  /\ worker = [w \in Workers |-> "none"]
  /\ claims = [w \in Workers |-> 0]
  /\ sweep = [s \in Sweeps |-> "none"]
  /\ pending \in 0..MaxBacklog
  /\ active = 0 /\ lost = 0 /\ faults = 0

Running == main \notin {"exited", "failed"}

-----------------------------------------------------------------------------
(* run() and shutdown().                                                   *)

Signal ==
  /\ Running /\ ~signalled
  /\ signalled' = TRUE
  /\ UNCHANGED <<role, main, failed, stops, asked, late, httpVars, poolVars, sweep, jobVars>>

StartScheduler ==
  /\ main = "scheduler"
  /\ main' = "pool"
  /\ sweep' = [s \in Sweeps |-> IF "scheduler" \in role THEN "waiting" ELSE "none"]
  /\ UNCHANGED <<role, signalled, failed, stops, asked, late, httpVars, poolVars, jobVars>>

\* Registering the queues needs the signal context to be alive.
StartPool ==
  /\ main = "pool"
  /\ "pool" \in role => ~signalled
  /\ main' = "http"
  /\ worker' = [w \in Workers |-> IF "pool" \in role THEN "check" ELSE "none"]
  /\ UNCHANGED <<role, signalled, failed, stops, asked, late, httpVars, claims, sweep, jobVars>>

\* run() returns the error and stops nothing.
StartPoolFails ==
  /\ main = "pool" /\ "pool" \in role
  /\ signalled \/ faults < MaxFaults
  /\ main' = "failed"
  /\ faults' = IF signalled THEN faults ELSE faults + 1
  /\ UNCHANGED <<role, signalled, failed, stops, asked, late, httpVars, poolVars, sweep,
                 pending, active, lost>>

StartHTTP ==
  /\ main = "http"
  /\ main' = "serving"
  /\ UNCHANGED <<role, signalled, failed, stops, asked, late, httpVars, poolVars, sweep, jobVars>>

ListenerFails(l) ==
  /\ main = "serving" /\ l \notin failed
  /\ failed' = failed \cup {l}
  /\ UNCHANGED <<role, main, signalled, stops, asked, late, httpVars, poolVars, sweep, jobVars>>

\* The background components in the order they were started.
running ==
  (IF "scheduler" \in role THEN <<"scheduler">> ELSE <<>>)
    \o (IF "pool" \in role THEN <<"pool">> ELSE <<>>)

\* Mutant of ShutdownOrder: the listeners last.
ShutdownOrderHTTPLast == Reverse(running) \o <<"public", "private">>

\* Mutant of ShutdownOrder: the components in start order.
ShutdownOrderForward == <<"public", "private">> \o running

ShutdownOrder == <<"public", "private">> \o Reverse(running)

BeginShutdown ==
  /\ main = "serving"
  /\ signalled \/ failed # {}
  /\ main' = "stopping"
  /\ stops' = ShutdownOrder
  /\ UNCHANGED <<role, signalled, failed, asked, late, httpVars, poolVars, sweep, jobVars>>

Stopping(c) == main = "stopping" /\ stops # <<>> /\ c = Head(stops)

\* Closes a listener, or cancels the context of the pool or the scheduler.
AskToStop(c) ==
  /\ Stopping(c) /\ c \notin asked
  /\ asked' = asked \cup {c}
  /\ UNCHANGED <<role, main, signalled, failed, stops, late, httpVars, poolVars, sweep, jobVars>>

Deadline(c) == IF c \in Listeners THEN "http" ELSE c

\* The listeners share one deadline, the pool has its own, the scheduler none.
DeadlineElapses(c) ==
  /\ Stopping(c) /\ c \in asked /\ c # "scheduler"
  /\ Deadline(c) \notin late
  /\ late' = late \cup {Deadline(c)}
  /\ UNCHANGED <<role, main, signalled, failed, stops, asked, httpVars, poolVars, sweep, jobVars>>

\* Mutant of Quiet: Stop of the pool does not wait for its goroutines.
QuietPoolAtOnce(c) ==
  \/ c \in Listeners /\ request[c] = 0
  \/ c = "pool"
  \/ c = "scheduler" /\ \A s \in Sweeps : sweep[s] = "exit"

Quiet(c) ==
  \/ c \in Listeners /\ request[c] = 0
  \/ c = "pool" /\ \A w \in Workers : worker[w] = "exit"
  \/ c = "scheduler" /\ \A s \in Sweeps : sweep[s] = "exit"

\* Mutant of StopReturns: the pool waits for its workers for ever.
StopReturnsNoPoolTimeout(c) ==
  /\ Stopping(c) /\ c \in asked
  /\ Quiet(c) \/ (c \in Listeners /\ Deadline(c) \in late)
  /\ stops' = Tail(stops)
  /\ UNCHANGED <<role, main, signalled, failed, asked, late, httpVars, poolVars, sweep, jobVars>>

\* shutdown() goes on to the next component whatever Stop returned.
StopReturns(c) ==
  /\ Stopping(c) /\ c \in asked
  /\ Quiet(c) \/ Deadline(c) \in late
  /\ stops' = Tail(stops)
  /\ UNCHANGED <<role, main, signalled, failed, asked, late, httpVars, poolVars, sweep, jobVars>>

Exit ==
  /\ main = "stopping" /\ stops = <<>>
  /\ main' = "exited"
  /\ UNCHANGED <<role, signalled, failed, stops, asked, late, httpVars, poolVars, sweep, jobVars>>

-----------------------------------------------------------------------------
(* HTTP requests.                                                          *)

Accept(l) ==
  /\ main \in {"serving", "stopping"}
  /\ l \notin asked \cup failed
  /\ accepted < MaxRequests
  /\ accepted' = accepted + 1
  /\ request' = [request EXCEPT ![l] = @ + 1]
  /\ UNCHANGED <<mainVars, poolVars, sweep, jobVars>>

\* A request is served; it may have enqueued a job.  Both listeners mount the API.
Respond(l) ==
  /\ Running /\ request[l] > 0
  /\ request' = [request EXCEPT ![l] = @ - 1]
  /\ pending' \in {pending, pending + 1}
  /\ UNCHANGED <<mainVars, accepted, poolVars, sweep, active, lost, faults>>

-----------------------------------------------------------------------------
(* Pool.run.                                                               *)

Cancelled == "pool" \in asked

\* Mutant of Check: the context is not looked at.
CheckNoContext(w) ==
  /\ Running /\ worker[w] = "check"
  /\ worker' = [worker EXCEPT ![w] = "dequeue"]
  /\ UNCHANGED <<mainVars, httpVars, claims, sweep, jobVars>>

Check(w) ==
  /\ Running /\ worker[w] = "check"
  /\ worker' = [worker EXCEPT ![w] = IF Cancelled THEN "exit" ELSE "dequeue"]
  /\ UNCHANGED <<mainVars, httpVars, claims, sweep, jobVars>>

CountClaim(w) == claims' = [claims EXCEPT ![w] = IF Cancelled THEN @ + 1 ELSE @]

DequeueJob(w) ==
  /\ Running /\ worker[w] = "dequeue" /\ pending > 0
  /\ pending' = pending - 1
  /\ active' = active + 1
  /\ worker' = [worker EXCEPT ![w] = "process"]
  /\ CountClaim(w)
  /\ UNCHANGED <<mainVars, httpVars, sweep, lost, faults>>

DequeueNothing(w) ==
  /\ Running /\ worker[w] = "dequeue" /\ pending = 0
  /\ worker' = [worker EXCEPT ![w] = "asleep"]
  /\ UNCHANGED <<mainVars, httpVars, claims, sweep, jobVars>>

\* The call fails, because of the cancelled context or by itself.
DequeueFails(w) ==
  /\ Running /\ worker[w] = "dequeue"
  /\ \/ Cancelled /\ faults' = faults
     \/ faults < MaxFaults /\ faults' = faults + 1
  /\ worker' = [worker EXCEPT ![w] = IF Cancelled THEN "exit" ELSE "asleep"]
  /\ UNCHANGED <<mainVars, httpVars, claims, sweep, pending, active, lost>>

\* The script ran, but its reply is lost: the job is claimed for nobody.
DequeueReplyLost(w) ==
  /\ Running /\ worker[w] = "dequeue" /\ pending > 0 /\ faults < MaxFaults
  /\ faults' = faults + 1
  /\ pending' = pending - 1
  /\ active' = active + 1
  /\ lost' = lost + 1
  /\ worker' = [worker EXCEPT ![w] = IF Cancelled THEN "exit" ELSE "asleep"]
  /\ CountClaim(w)
  /\ UNCHANGED <<mainVars, httpVars, sweep>>

\* sleep: the timer, or the context once it is cancelled.
Wake(w) ==
  /\ Running /\ worker[w] = "asleep"
  /\ \/ worker' = [worker EXCEPT ![w] = "check"]
     \/ Cancelled /\ worker' = [worker EXCEPT ![w] = "exit"]
  /\ UNCHANGED <<mainVars, httpVars, claims, sweep, jobVars>>

\* Process ends and its outcome is recorded.
ProcessEnds(w) ==
  /\ Running /\ worker[w] = "process"
  /\ worker' = [worker EXCEPT ![w] = "check"]
  /\ active' = active - 1
  /\ UNCHANGED <<mainVars, httpVars, claims, sweep, pending, lost, faults>>

\* Process ends and its outcome cannot be recorded.
ProcessFails(w) ==
  /\ Running /\ worker[w] = "process" /\ faults < MaxFaults
  /\ faults' = faults + 1
  /\ worker' = [worker EXCEPT ![w] = "check"]
  /\ lost' = lost + 1
  /\ UNCHANGED <<mainVars, httpVars, claims, sweep, pending, active>>

-----------------------------------------------------------------------------
(* The sweep loops.                                                        *)

SweepBegins(s) ==
  /\ Running /\ sweep[s] = "waiting"
  /\ sweep' = [sweep EXCEPT ![s] = "sweeping"]
  /\ UNCHANGED <<mainVars, httpVars, poolVars, jobVars>>

\* Reclaiming gives lapsed claims back; errors are logged and the loop goes on.
SweepEnds(s) ==
  /\ Running /\ sweep[s] = "sweeping"
  /\ sweep' = [sweep EXCEPT ![s] = "waiting"]
  /\ \E n \in 0..(IF s = "reclaim" THEN lost ELSE 0) :
       /\ pending' = pending + n
       /\ active' = active - n
       /\ lost' = lost - n
  /\ UNCHANGED <<mainVars, httpVars, poolVars, faults>>

SweepStops(s) ==
  /\ Running /\ sweep[s] = "waiting" /\ "scheduler" \in asked
  /\ sweep' = [sweep EXCEPT ![s] = "exit"]
  /\ UNCHANGED <<mainVars, httpVars, poolVars, jobVars>>

-----------------------------------------------------------------------------

Main ==
  \/ StartScheduler
  \/ StartPool
  \/ StartPoolFails
  \/ StartHTTP
  \/ BeginShutdown
  \/ \E c \in Components : AskToStop(c)
  \/ \E c \in Components : DeadlineElapses(c)
  \/ \E c \in Components : StopReturns(c)
  \/ Exit

Next ==
  \/ Main
  \/ Signal
  \/ \E l \in Listeners : ListenerFails(l)
  \/ \E l \in Listeners : Accept(l)
  \/ \E l \in Listeners : Respond(l)
  \/ \E w \in Workers : Check(w)
  \/ \E w \in Workers : DequeueJob(w)
  \/ \E w \in Workers : DequeueNothing(w)
  \/ \E w \in Workers : DequeueFails(w)
  \/ \E w \in Workers : DequeueReplyLost(w)
  \/ \E w \in Workers : Wake(w)
  \/ \E w \in Workers : ProcessEnds(w)
  \/ \E w \in Workers : ProcessFails(w)
  \/ \E s \in Sweeps : SweepBegins(s)
  \/ \E s \in Sweeps : SweepEnds(s)
  \/ \E s \in Sweeps : SweepStops(s)

Spec == Init /\ [][Next]_vars

\* main runs and its timers fire.  A sweep ends, since every Redis call has a
\* timeout, and select chooses the cancelled context sooner or later.  Handlers
\* and requests need not end.
FairSpec ==
  /\ Spec
  /\ WF_vars(Main)
  /\ \A s \in Sweeps : WF_vars(SweepEnds(s)) /\ SF_vars(SweepStops(s))

-----------------------------------------------------------------------------
(* Properties.                                                             *)

\* A process that exits with the pool drained in time leaves no claimed job
\* behind, except for those a failed call had lost (Pool.Stop).
DrainIsComplete == main = "exited" /\ "pool" \notin late => active = lost

\* Once told to stop, a worker claims at most the job it was already asking for
\* (the check at the head of the loop in Pool.run).
OneClaimAfterCancel == \A w \in Workers : claims[w] <= 1

\* While the pool drains no request is open that could enqueue, unless the
\* listeners ran out of time (shutdown, HTTPServer.Stop).
APIClosedBeforeDrain ==
  Cancelled /\ "http" \notin late => \A l \in Listeners : l \in asked /\ request[l] = 0

\* The sweeps go on until the pool has drained or given up (shutdown).
SweepsOutliveWorkers ==
  (\E s \in Sweeps : sweep[s] = "exit") /\ "pool" \notin late
    => \A w \in Workers : worker[w] \in {"none", "exit"}

\* A signal, or a listener that fails, ends the process even if a handler or a
\* request never returns (Pool.Stop, HTTPServer.Stop).
ShutdownTerminates == (signalled \/ failed # {}) ~> ~Running

=============================================================================
