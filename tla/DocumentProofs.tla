--------------------------- MODULE DocumentProofs ---------------------------
(***************************************************************************)
(* The document of a job stays readable and consistent, and nothing runs   *)
(* early, for every policy, request, timeout, lease and length of life.    *)
(* First the facts about the retry policy, the methods of the aggregate    *)
(* and the stored form: what a delay may be, what encoding keeps, and that *)
(* every method turns a well-formed job into a well-formed job.            *)
(***************************************************************************)
EXTENDS DocumentLife, TLAPS

-----------------------------------------------------------------------------
(* Retry policies.                                                         *)

\* What NewRetryPolicy accepts from a producer or from a document.
GoodPolicy ==
  {p \in Policy : /\ p.maxRetries <= MaxAllowedRetries
                  /\ PerMilli <= p.baseDelay
                  /\ p.baseDelay <= MaxAllowedBaseDelay
                  /\ p.baseDelay <= p.maxDelay}

\* Whatever the curve, the attempt and the jitter, a policy that was accepted
\* waits at least its floor and at most its ceiling (BackoffStrategy.Delay,
\* clampDelay, RetryPolicy.NextDelay).
THEOREM DelayWithinPolicy ==
  ASSUME NEW policy \in GoodPolicy, NEW attempt \in Nat
  PROVE  \A d \in NextDelay(policy, attempt) :
           d \in Nat /\ policy.baseDelay <= d /\ d <= policy.maxDelay
<1> DEFINE base == policy.baseDelay
           max  == policy.maxDelay
<1>1. /\ base \in Nat /\ max \in Nat /\ 0 < base /\ base <= max
      /\ policy.strategy \in Strategies
  BY DocumentAssumption DEF GoodPolicy, Policy
<1>2. Nth(attempt) \in Nat /\ Nth(attempt) >= 1
  BY DEF Nth
<1> HIDE DEF base, max
<1>3. \A d \in base..max : clampDelay(d, max) = d
  BY <1>1 DEF clampDelay
<1>4. \A d \in ExponentialDelay(attempt, base, max) : d \in base..max
  <2>1. ExponentialScale(attempt, base, max) \in Int /\ ExponentialScale(attempt, base, max) <= max
    <3> DEFINE e == IF Nth(attempt) - 1 > 32 THEN 32 ELSE Nth(attempt) - 1
               scaled == base * 2^e
    <3>1. e \in Nat
      BY <1>2
    <3>2. scaled \in Int
      BY <3>1, <1>1
    <3>3. ExponentialScale(attempt, base, max) = IF scaled > max THEN max ELSE scaled
      BY Zenon DEF ExponentialScale
    <3> QED
      BY <3>2, <3>3, <1>1
  <2> QED
    BY <2>1, <1>1, <1>3 DEF ExponentialDelay
<1>5. \A d \in LinearDelay(attempt, base, max) : d \in base..max
  <2>1. Nth(attempt) * base \in Int /\ Nth(attempt) * base >= base
    BY <1>1, <1>2
  <2> QED
    BY <2>1, <1>1 DEF LinearDelay, clampDelay
<1>6. \A d \in ConstantDelay(base, max) : d \in base..max
  BY <1>1, <1>3 DEF ConstantDelay
<1>7. \A d \in base..max : d \in Nat /\ base <= d /\ d <= max
  BY <1>1
<1> QED
  BY <1>1, <1>4, <1>5, <1>6, <1>7, Zenon DEF NextDelay, Strategies, base, max

\* NewRetryPolicy accepts nothing else, given a floor of a millisecond or more.
LEMMA AcceptedPolicy ==
  ASSUME NEW retries \in Nat, NEW base \in Int, NEW max \in Int, NEW name,
         PerMilli <= base, max # 0
  PROVE  /\ NewRetryPolicy(retries, base, max, name) \subseteq GoodPolicy
         /\ \A p \in NewRetryPolicy(retries, base, max, name) :
              p = [maxRetries |-> retries, baseDelay |-> base, maxDelay |-> max,
                   strategy |-> p.strategy]
         /\ /\ name \in Strategies /\ retries <= MaxAllowedRetries
            /\ base <= MaxAllowedBaseDelay /\ base <= max
            => NewRetryPolicy(retries, base, max, name) =
                 {[maxRetries |-> retries, baseDelay |-> base, maxDelay |-> max,
                   strategy |-> name]}
<1>1. PerMilli \in Nat /\ PerMilli > 0 /\ base # 0
  BY DocumentAssumption
<1>2. NewRetryPolicy(retries, base, max, name) =
        {[maxRetries |-> retries, baseDelay |-> base, maxDelay |-> max, strategy |-> s] :
           s \in {t \in NewBackoffStrategy(name) :
                    /\ retries <= MaxAllowedRetries
                    /\ base \in 0..MaxAllowedBaseDelay
                    /\ max >= base}}
  BY <1>1, Zenon DEF NewRetryPolicy
<1>3. NewBackoffStrategy(name) \subseteq Strategies
  BY Zenon DEF NewBackoffStrategy, Strategies
<1>4. name \in Strategies => NewBackoffStrategy(name) = {name}
  BY Zenon DEF NewBackoffStrategy, Strategies
<1>5. NewRetryPolicy(retries, base, max, name) \subseteq GoodPolicy
  BY <1>1, <1>2, <1>3, PolicyAssumption DEF GoodPolicy, Policy
<1>6. ASSUME name \in Strategies, retries <= MaxAllowedRetries,
             base <= MaxAllowedBaseDelay, base <= max
      PROVE  NewRetryPolicy(retries, base, max, name) =
               {[maxRetries |-> retries, baseDelay |-> base, maxDelay |-> max,
                 strategy |-> name]}
  <2>1. base \in 0..MaxAllowedBaseDelay /\ max >= base
    BY <1>1, <1>6, PolicyAssumption
  <2> QED
    BY <2>1, <1>2, <1>4, <1>6, Zenon
<1>7. \A p \in NewRetryPolicy(retries, base, max, name) :
        p = [maxRetries |-> retries, baseDelay |-> base, maxDelay |-> max,
             strategy |-> p.strategy]
  BY <1>2
<1> QED
  BY <1>5, <1>6, <1>7, Zenon

-----------------------------------------------------------------------------
(* Instants and their stored form.                                         *)

Stamp == {t \in Nat : PerMilli <= t}
Time == Stamp \cup {Unset}

\* Encoding rounds down to a millisecond, keeps the order, and decoding then
\* encoding gives the same number (toMillis, fromMillis).
LEMMA Millis ==
  /\ \A t \in Time : toMillis(t) \in Nat /\ (toMillis(t) = 0 <=> t = Unset)
  /\ \A ms \in Nat : fromMillis(ms) \in Time /\ toMillis(fromMillis(ms)) = ms
  /\ \A t \in Stamp : /\ fromMillis(toMillis(t)) <= t
                      /\ fromMillis(toMillis(t)) > t - PerMilli
<1>1. PerMilli \in Nat /\ PerMilli > 0
  BY DocumentAssumption
<1>2. \A t \in Nat : /\ t \div PerMilli \in Nat
                     /\ PerMilli * (t \div PerMilli) <= t
                     /\ t < PerMilli * (t \div PerMilli) + PerMilli
  BY <1>1
<1>3. \A t \in Stamp : t \div PerMilli \in Nat /\ t \div PerMilli # 0 /\ t # Unset
  BY <1>1, <1>2 DEF Stamp, Unset
<1>4. \A ms \in Nat : ms # 0 => /\ ms * PerMilli \in Stamp
                                /\ (ms * PerMilli) \div PerMilli = ms
  <2> TAKE ms \in Nat
  <2> HAVE ms # 0
  <2>1. ms * PerMilli \in Nat /\ ms * PerMilli >= PerMilli
    BY <1>1
  <2>2. (ms * PerMilli) \div PerMilli = ms
    BY <1>1
  <2> QED
    BY <2>1, <2>2, Zenon DEF Stamp
<1>5. \A t \in Time : toMillis(t) \in Nat /\ (toMillis(t) = 0 <=> t = Unset)
  BY <1>3, Zenon DEF Time, toMillis
<1>6. \A ms \in Nat : fromMillis(ms) \in Time /\ toMillis(fromMillis(ms)) = ms
  BY <1>3, <1>4, Zenon DEF Time, toMillis, fromMillis
<1>7. \A t \in Stamp : /\ fromMillis(toMillis(t)) <= t
                       /\ fromMillis(toMillis(t)) > t - PerMilli
  <2> TAKE t \in Stamp
  <2>1. fromMillis(toMillis(t)) = (t \div PerMilli) * PerMilli
    BY <1>3, Zenon DEF toMillis, fromMillis
  <2>2. t \in Nat
    BY Zenon DEF Stamp
  <2>3. (t \div PerMilli) * PerMilli = PerMilli * (t \div PerMilli)
    BY <2>2, <1>1, <1>2
  <2>4. (t \div PerMilli) * PerMilli \in Nat
    BY <1>1, <1>3
  <2> QED
    BY <2>1, <2>2, <2>3, <2>4, <1>1, <1>2
<1> QED
  BY <1>5, <1>6, <1>7, Zenon

\* Encoding keeps the order, strictly when the instants are a millisecond apart.
LEMMA MillisMonotone ==
  ASSUME NEW t \in Stamp, NEW u \in Stamp
  PROVE  /\ t <= u => toMillis(t) <= toMillis(u)
         /\ t + PerMilli <= u => toMillis(t) < toMillis(u)
<1>1. PerMilli \in Nat /\ PerMilli > 0 /\ t \in Nat /\ u \in Nat /\ t # Unset /\ u # Unset
  BY DocumentAssumption DEF Stamp, Unset
<1>2. t <= u => t \div PerMilli <= u \div PerMilli
  BY <1>1
<1>3. t + PerMilli <= u => t \div PerMilli < u \div PerMilli
  BY <1>1
<1> QED
  BY <1>1, <1>2, <1>3, Zenon DEF toMillis

-----------------------------------------------------------------------------
(* Jobs and documents.                                                     *)

WorkerIDs == {Worker, NoWorker}
Messages == {"", "failed", "unroutable", "killed", "orphaned"}

Attempt ==
  [number : Nat, startedAt : Time, finishedAt : Time, error : Messages, workerID : WorkerIDs]

Job ==
  [state : JobState, policy : GoodPolicy, timeout : Nat, attemptsMade : Nat,
   attempts : Seq(Attempt), lastError : Messages, createdAt : Time, processAt : Time,
   completedAt : Time, diedAt : Time, leaseExpiry : Time, workerID : WorkerIDs]

AttemptDoc ==
  [number : Nat, started_at_ms : Nat, finished_at_ms : Nat, error : Messages, worker_id : WorkerIDs]

Fields ==
  [state : JobState, max_retries : Nat, base_delay_ms : Nat, max_delay_ms : Nat,
   backoff : Strategies, timeout_ms : Nat, attempts_made : Nat, attempts : Seq(AttemptDoc),
   last_error : Messages, created_at_ms : Nat, process_at_ms : Nat, completed_at_ms : Nat,
   died_at_ms : Nat, lease_expiry_ms : Nat, worker_id : WorkerIDs]

\* A document whose policy passes the validation of toAggregate.
Document ==
  {h \in Fields : /\ h.max_retries <= MaxAllowedRetries
                  /\ 1 <= h.base_delay_ms
                  /\ h.base_delay_ms * PerMilli <= MaxAllowedBaseDelay
                  /\ h.base_delay_ms <= h.max_delay_ms}

EncodeAttempt(a) ==
  [number |-> a.number, started_at_ms |-> toMillis(a.startedAt),
   finished_at_ms |-> toMillis(a.finishedAt), error |-> a.error, worker_id |-> a.workerID]

DecodeAttempt(a) ==
  [number |-> a.number, startedAt |-> fromMillis(a.started_at_ms),
   finishedAt |-> fromMillis(a.finished_at_ms), error |-> a.error, workerID |-> a.worker_id]

\* Attempts survive the encoding, and an attempt is open on both sides or on none.
LEMMA AttemptCodec ==
  /\ \A a \in Attempt : /\ EncodeAttempt(a) \in AttemptDoc
                        /\ EncodeAttempt(a).finished_at_ms = 0 <=> a.finishedAt = Unset
  /\ \A a \in AttemptDoc : /\ DecodeAttempt(a) \in Attempt
                           /\ EncodeAttempt(DecodeAttempt(a)) = a
                           /\ DecodeAttempt(a).finishedAt = Unset <=> a.finished_at_ms = 0
<1>1. \A a \in Attempt : /\ EncodeAttempt(a) \in AttemptDoc
                         /\ EncodeAttempt(a).finished_at_ms = 0 <=> a.finishedAt = Unset
  BY Millis, Zenon DEF EncodeAttempt, Attempt, AttemptDoc
<1>2. \A a \in AttemptDoc : /\ DecodeAttempt(a) \in Attempt
                            /\ EncodeAttempt(DecodeAttempt(a)) = a
  BY Millis DEF EncodeAttempt, DecodeAttempt, Attempt, AttemptDoc
<1>3. \A a \in AttemptDoc : DecodeAttempt(a).finishedAt = Unset <=> a.finished_at_ms = 0
  <2> TAKE a \in AttemptDoc
  <2>1. EncodeAttempt(DecodeAttempt(a)).finished_at_ms = a.finished_at_ms
    BY <1>2, Zenon
  <2> QED
    BY <2>1, <1>1, <1>2, Zenon
<1> QED
  BY <1>1, <1>2, <1>3, Zenon

\* A well-formed job is stored as a well-formed document (toJobFields).
LEMMA Encode ==
  ASSUME NEW job \in Job
  PROVE  /\ toJobFields(job) \in Document
         /\ toJobFields(job).attempts =
              [i \in DOMAIN job.attempts |-> EncodeAttempt(job.attempts[i])]
<1>1. PerMilli \in Nat /\ PerMilli > 0
  BY DocumentAssumption
<1>2. /\ job.policy.maxRetries \in Nat /\ job.policy.maxRetries <= MaxAllowedRetries
      /\ job.policy.baseDelay \in Nat /\ job.policy.maxDelay \in Nat
      /\ PerMilli <= job.policy.baseDelay /\ job.policy.baseDelay <= job.policy.maxDelay
      /\ job.policy.baseDelay <= MaxAllowedBaseDelay /\ job.policy.strategy \in Strategies
  BY Zenon DEF Job, GoodPolicy, Policy
<1> DEFINE base == job.policy.baseDelay
           max  == job.policy.maxDelay
<1>3. /\ base \div PerMilli \in Nat /\ max \div PerMilli \in Nat
      /\ 1 <= base \div PerMilli /\ base \div PerMilli <= max \div PerMilli
      /\ (base \div PerMilli) * PerMilli <= MaxAllowedBaseDelay
  <2>1. base \in Nat /\ max \in Nat /\ PerMilli <= base /\ base <= max
    BY <1>2, Zenon
  <2> HIDE DEF base, max
  <2>2. base \div PerMilli \in Nat /\ max \div PerMilli \in Nat
    BY <1>1, <2>1
  <2>3. 1 <= base \div PerMilli
    BY <1>1, <2>1
  <2>4. base \div PerMilli <= max \div PerMilli
    BY <1>1, <2>1
  <2>5. (base \div PerMilli) * PerMilli <= base /\ (base \div PerMilli) * PerMilli \in Nat
    BY <1>1, <2>1
  <2> QED
    BY <2>1, <2>2, <2>3, <2>4, <2>5, <1>2, PolicyAssumption DEF base
<1>4. job.timeout \in Nat /\ job.timeout \div PerMilli \in Nat
  <2>1. job.timeout \in Nat
    BY Zenon DEF Job
  <2> QED
    BY <1>1, <2>1
<1>5. toJobFields(job).attempts = [i \in DOMAIN job.attempts |-> EncodeAttempt(job.attempts[i])]
  BY Zenon DEF toJobFields, EncodeAttempt
<1>6. toJobFields(job).attempts \in Seq(AttemptDoc)
  <2>1. job.attempts \in Seq(Attempt)
    BY Zenon DEF Job
  <2>2. \A i \in DOMAIN job.attempts : EncodeAttempt(job.attempts[i]) \in AttemptDoc
    BY <2>1, AttemptCodec
  <2> QED
    BY <1>5, <2>1, <2>2
<1>7. /\ toMillis(job.createdAt) \in Nat /\ toMillis(job.processAt) \in Nat
      /\ toMillis(job.completedAt) \in Nat /\ toMillis(job.diedAt) \in Nat
      /\ toMillis(job.leaseExpiry) \in Nat
  BY Millis, Zenon DEF Job
<1>8. toJobFields(job) \in Fields
  BY <1>2, <1>3, <1>4, <1>6, <1>7, Zenon DEF toJobFields, Fields, Job
<1>9. /\ toJobFields(job).max_retries = job.policy.maxRetries
      /\ toJobFields(job).base_delay_ms = base \div PerMilli
      /\ toJobFields(job).max_delay_ms = max \div PerMilli
  BY Zenon DEF toJobFields
<1> QED
  BY <1>2, <1>3, <1>5, <1>8, <1>9, Zenon DEF Document

\* A well-formed document decodes, to one job, which is well-formed and encodes
\* to the same document (toAggregate).
LEMMA Decode ==
  ASSUME NEW h \in Document
  PROVE  /\ toAggregate(h) # {}
         /\ \A job \in toAggregate(h) :
              /\ job \in Job
              /\ toJobFields(job) = h
              /\ job.state = h.state /\ job.workerID = h.worker_id
              /\ job.timeout = h.timeout_ms * PerMilli
              /\ job.processAt = fromMillis(h.process_at_ms)
              /\ job.completedAt = fromMillis(h.completed_at_ms)
              /\ job.diedAt = fromMillis(h.died_at_ms)
              /\ job.leaseExpiry = fromMillis(h.lease_expiry_ms)
              /\ job.attempts = [i \in DOMAIN h.attempts |-> DecodeAttempt(h.attempts[i])]
<1>1. PerMilli \in Nat /\ PerMilli > 0
  BY DocumentAssumption
<1>2. /\ h \in Fields
      /\ h.max_retries \in Nat /\ h.max_retries <= MaxAllowedRetries
      /\ h.base_delay_ms \in Nat /\ h.max_delay_ms \in Nat /\ h.timeout_ms \in Nat
      /\ 1 <= h.base_delay_ms /\ h.base_delay_ms <= h.max_delay_ms
      /\ h.base_delay_ms * PerMilli <= MaxAllowedBaseDelay
      /\ h.backoff \in Strategies
  BY Zenon DEF Document, Fields
<1> DEFINE base == h.base_delay_ms * PerMilli
           max  == h.max_delay_ms * PerMilli
           policy == [maxRetries |-> h.max_retries, baseDelay |-> base, maxDelay |-> max,
                      strategy |-> h.backoff]
<1>3. \A n \in Nat : n * PerMilli \in Nat /\ (n * PerMilli) \div PerMilli = n
  BY <1>1
<1>4. PerMilli <= base /\ base <= max /\ max # 0 /\ base \in Nat /\ max \in Nat
  <2> DEFINE b == h.base_delay_ms  m == h.max_delay_ms
  <2>1. b \in Nat /\ m \in Nat /\ 1 <= b /\ b <= m
    BY <1>2, Zenon
  <2> HIDE DEF b, m
  <2>2. PerMilli <= b * PerMilli /\ b * PerMilli <= m * PerMilli
    BY <1>1, <2>1
  <2>3. b * PerMilli \in Nat /\ m * PerMilli \in Nat
    BY <1>3, <2>1, Zenon
  <2>4. m * PerMilli # 0
    BY <1>1, <2>2, <2>3
  <2> QED
    BY <2>2, <2>3, <2>4, Zenon DEF b, m
<1> HIDE DEF base, max
<1>5. /\ NewRetryPolicy(h.max_retries, base, max, h.backoff) = {policy}
      /\ policy \in GoodPolicy
  <2>1. base \in Int /\ max \in Int /\ base <= MaxAllowedBaseDelay
    BY <1>2, <1>4 DEF base
  <2>2. NewRetryPolicy(h.max_retries, base, max, h.backoff) = {policy}
    BY <2>1, <1>2, <1>4, AcceptedPolicy, Zenon
  <2>3. NewRetryPolicy(h.max_retries, base, max, h.backoff) \subseteq GoodPolicy
    BY <2>1, <1>2, <1>4, AcceptedPolicy, Zenon
  <2> QED
    BY <2>2, <2>3, Zenon
<1>6. \A job \in toAggregate(h) :
        job = [state |-> h.state, policy |-> policy, timeout |-> h.timeout_ms * PerMilli,
               attemptsMade |-> h.attempts_made,
               attempts |-> [i \in DOMAIN h.attempts |-> DecodeAttempt(h.attempts[i])],
               lastError |-> h.last_error, createdAt |-> fromMillis(h.created_at_ms),
               processAt |-> fromMillis(h.process_at_ms),
               completedAt |-> fromMillis(h.completed_at_ms),
               diedAt |-> fromMillis(h.died_at_ms),
               leaseExpiry |-> fromMillis(h.lease_expiry_ms), workerID |-> h.worker_id]
  BY <1>5, Zenon DEF toAggregate, DecodeAttempt, base, max
<1>7. toAggregate(h) # {}
  BY <1>5, Zenon DEF toAggregate, base, max
<1> SUFFICES ASSUME NEW job \in toAggregate(h)
             PROVE  /\ job \in Job
                    /\ toJobFields(job) = h
                    /\ job.state = h.state /\ job.workerID = h.worker_id
                    /\ job.timeout = h.timeout_ms * PerMilli
                    /\ job.processAt = fromMillis(h.process_at_ms)
                    /\ job.completedAt = fromMillis(h.completed_at_ms)
                    /\ job.diedAt = fromMillis(h.died_at_ms)
                    /\ job.leaseExpiry = fromMillis(h.lease_expiry_ms)
                    /\ job.attempts = [i \in DOMAIN h.attempts |-> DecodeAttempt(h.attempts[i])]
  BY <1>7, Zenon
<1>8. /\ job.attempts = [i \in DOMAIN h.attempts |-> DecodeAttempt(h.attempts[i])]
      /\ job.attempts \in Seq(Attempt)
      /\ [i \in DOMAIN job.attempts |-> EncodeAttempt(job.attempts[i])] = h.attempts
  <2>1. h.attempts \in Seq(AttemptDoc)
    BY <1>2, Zenon DEF Fields
  <2>2. job.attempts = [i \in DOMAIN h.attempts |-> DecodeAttempt(h.attempts[i])]
    BY <1>6
  <2>3. \A i \in DOMAIN h.attempts : /\ DecodeAttempt(h.attempts[i]) \in Attempt
                                     /\ EncodeAttempt(DecodeAttempt(h.attempts[i])) = h.attempts[i]
    BY <2>1, AttemptCodec
  <2>4. job.attempts \in Seq(Attempt)
    BY <2>1, <2>2, <2>3
  <2>5. DOMAIN job.attempts = DOMAIN h.attempts
    BY <2>2, Zenon
  <2>6. \A i \in DOMAIN h.attempts : EncodeAttempt(job.attempts[i]) = h.attempts[i]
    BY <2>2, <2>3, Zenon
  <2>7. h.attempts = [i \in DOMAIN h.attempts |-> h.attempts[i]]
    BY <2>1
  <2> QED
    BY <2>2, <2>4, <2>5, <2>6, <2>7, Zenon
<1>9. job \in Job
  <2>1. h.timeout_ms * PerMilli \in Nat
    BY <1>2, <1>3, Zenon
  <2>2. \A ms \in Nat : fromMillis(ms) \in Time
    BY Millis, Zenon
  <2>3. /\ h.state \in JobState /\ h.attempts_made \in Nat /\ h.last_error \in Messages
        /\ h.worker_id \in WorkerIDs
        /\ h.created_at_ms \in Nat /\ h.process_at_ms \in Nat /\ h.completed_at_ms \in Nat
        /\ h.died_at_ms \in Nat /\ h.lease_expiry_ms \in Nat
    BY <1>2, Zenon DEF Fields
  <2> QED
    BY <1>5, <1>6, <1>8, <2>1, <2>2, <2>3, SMTT(30) DEF Job
<1>10. toJobFields(job) = h
  <2>1. /\ job.state = h.state /\ job.policy = policy
        /\ job.timeout = h.timeout_ms * PerMilli
        /\ job.attemptsMade = h.attempts_made /\ job.lastError = h.last_error
        /\ job.workerID = h.worker_id
    BY <1>6
  <2>2. /\ toMillis(job.createdAt) = h.created_at_ms /\ toMillis(job.processAt) = h.process_at_ms
        /\ toMillis(job.completedAt) = h.completed_at_ms /\ toMillis(job.diedAt) = h.died_at_ms
        /\ toMillis(job.leaseExpiry) = h.lease_expiry_ms
    BY <1>2, <1>6, Millis DEF Fields
  <2>3. /\ job.policy.maxRetries = h.max_retries /\ job.policy.strategy = h.backoff
        /\ job.policy.baseDelay \div PerMilli = h.base_delay_ms
        /\ job.policy.maxDelay \div PerMilli = h.max_delay_ms
        /\ job.timeout \div PerMilli = h.timeout_ms
    BY <2>1, <1>2, <1>3 DEF base, max
  <2>4. toJobFields(job).attempts = h.attempts
    BY <1>8, <1>9, Encode, Zenon
  <2>5. toJobFields(job) \in Fields
    BY <1>9, Encode, Zenon DEF Document
  <2> QED
    BY <2>1, <2>2, <2>3, <2>4, <2>5, <1>2, SMTT(30) DEF toJobFields, Fields
<1> QED
  BY <1>6, <1>8, <1>9, <1>10

-----------------------------------------------------------------------------
(* What the methods do to the stamps and to the trail of a job.            *)

\* The stamps of a job are those of its state, and its timeout fits the lease.
JobStamps(job) ==
  /\ job.completedAt # Unset <=> job.state = "completed"
  /\ job.diedAt # Unset <=> job.state = "dead"
  /\ job.leaseExpiry # Unset <=> job.state = "active"
  /\ job.workerID # NoWorker => job.state \notin {"scheduled", "pending"}
  /\ job.timeout <= LeaseFor

\* An open attempt of a job is an orphan or the current one of an active job.
JobTrail(job, orphans) ==
  \A i \in DOMAIN job.attempts :
    job.attempts[i].finishedAt = Unset =>
      i \in orphans \/ (i = Len(job.attempts) /\ job.state = "active")

-----------------------------------------------------------------------------
(* Methods.                                                                *)

\* Closing the current attempt keeps the trail well-formed; what is open then
\* was open before and is not the last.
LEMMA CloseAttempt ==
  ASSUME NEW attempts \in Seq(Attempt), NEW n \in Stamp, NEW message \in Messages
  PROVE  LET closed == closeCurrentAttempt(attempts, n, message)
         IN  /\ closed \in Seq(Attempt)
             /\ Len(closed) = Len(attempts) /\ DOMAIN closed = DOMAIN attempts
             /\ \A i \in DOMAIN attempts : closed[i].finishedAt = Unset =>
                  attempts[i].finishedAt = Unset /\ i # Len(attempts)
<1> DEFINE closed == closeCurrentAttempt(attempts, n, message)
<1>1. n \in Time /\ n # Unset
  BY DocumentAssumption DEF Time, Stamp, Unset
<1>2. DOMAIN closed = DOMAIN attempts
  BY Zenon DEF closeCurrentAttempt
<1>3. \A i \in DOMAIN attempts :
        /\ closed[i] \in Attempt
        /\ closed[i].finishedAt = Unset => attempts[i].finishedAt = Unset /\ i # Len(attempts)
  <2> TAKE i \in DOMAIN attempts
  <2>1. attempts[i] \in Attempt
    OBVIOUS
  <2>2. closed[i] = IF i = Len(attempts) /\ attempts[i].finishedAt = Unset
                    THEN [attempts[i] EXCEPT !.finishedAt = n, !.error = message]
                    ELSE attempts[i]
    BY Zenon DEF closeCurrentAttempt
  <2> QED
    BY <1>1, <2>1, <2>2, Zenon DEF Attempt
<1>4. closed = [i \in 1..Len(attempts) |-> closed[i]]
  BY DEF closeCurrentAttempt
<1> HIDE DEF closed
<1>5. closed \in Seq(Attempt)
  <2>1. Len(attempts) \in Nat /\ DOMAIN attempts = 1..Len(attempts)
    OBVIOUS
  <2>2. closed \in [1..Len(attempts) -> Attempt]
    BY <2>1, <1>3, <1>4, Zenon
  <2> QED
    BY <2>1, <2>2
<1>6. Len(closed) = Len(attempts)
  BY <1>2, <1>5
<1> QED
  BY <1>2, <1>3, <1>5, <1>6, Zenon DEF closed

\* Job.Lease opens a new attempt, started now, and leaves the others alone.
LEMMA LeaseJob ==
  ASSUME NEW job \in Job, JobStamps(job), job.state = "pending", NEW n \in Stamp, NEW orphans,
         JobTrail(job, orphans)
  PROVE  LET leased == Lease(job, Worker, n, leaseGrace)
         IN  /\ leased \in Job /\ leased.state = "active"
             /\ JobStamps(leased) /\ JobTrail(leased, orphans)
             /\ leased.leaseExpiry = n + job.timeout + leaseGrace
             /\ leased.timeout = job.timeout
             /\ Len(leased.attempts) \in Nat /\ Len(leased.attempts) >= 1
             /\ leased.attempts[Len(leased.attempts)].startedAt = n
<1> DEFINE leased == Lease(job, Worker, n, leaseGrace)
           attempt == [number |-> job.attemptsMade + 1, startedAt |-> n, finishedAt |-> Unset,
                       error |-> "", workerID |-> Worker]
<1>1. /\ PerMilli \in Nat /\ n \in Nat /\ n \in Time /\ n >= PerMilli
      /\ leaseGrace \in Nat /\ Worker \in WorkerIDs /\ Worker # NoWorker
  BY DocumentAssumption, LifeAssumption, Zenon DEF Time, Stamp, WorkerIDs
<1>2. job.timeout \in Nat /\ job.attemptsMade \in Nat /\ job.attempts \in Seq(Attempt)
  BY Zenon DEF Job
<1>3. attempt \in Attempt
  <2>1. job.attemptsMade + 1 \in Nat
    BY <1>2
  <2> QED
    BY <1>1, <2>1, Zenon DEF Attempt, Time, Messages
<1>4. n + job.timeout + leaseGrace \in Time /\ n + job.timeout + leaseGrace # Unset
  BY <1>1, <1>2 DEF Time, Stamp, Unset
<1>5. leased = [job EXCEPT !.state = "active", !.workerID = Worker,
                           !.leaseExpiry = n + job.timeout + leaseGrace,
                           !.attemptsMade = job.attemptsMade + 1,
                           !.attempts = Append(job.attempts, attempt)]
  BY Zenon DEF Lease, Job
<1> HIDE DEF leased, attempt
<1>6. leased \in Job
  <2>1. Append(job.attempts, attempt) \in Seq(Attempt)
    BY <1>2, <1>3
  <2>2. job.attemptsMade + 1 \in Nat /\ "active" \in JobState
    BY <1>2 DEF JobState, Graph!JobState
  <2> QED
    BY <1>1, <1>4, <1>5, <2>1, <2>2, Zenon DEF Job
<1>7. /\ leased.state = "active" /\ leased.workerID = Worker
      /\ leased.leaseExpiry = n + job.timeout + leaseGrace
      /\ leased.timeout = job.timeout
      /\ leased.completedAt = job.completedAt /\ leased.diedAt = job.diedAt
      /\ leased.attempts = Append(job.attempts, attempt)
  BY <1>5, Zenon DEF Job
<1>8. JobStamps(leased)
  BY <1>4, <1>7, Zenon DEF JobStamps
<1>9. /\ Len(leased.attempts) = Len(job.attempts) + 1
      /\ DOMAIN leased.attempts = 1..(Len(job.attempts) + 1)
      /\ leased.attempts[Len(leased.attempts)] = attempt
      /\ \A i \in 1..Len(job.attempts) : leased.attempts[i] = job.attempts[i]
      /\ DOMAIN job.attempts = 1..Len(job.attempts) /\ Len(job.attempts) \in Nat
  BY <1>2, <1>3, <1>7
<1>10. JobTrail(leased, orphans)
  <2> SUFFICES ASSUME NEW i \in DOMAIN leased.attempts,
                      leased.attempts[i].finishedAt = Unset, i # Len(leased.attempts)
               PROVE  i \in orphans
    BY <1>7, Zenon DEF JobTrail
  <2>1. i \in 1..Len(job.attempts)
    BY <1>9
  <2> QED
    BY <2>1, <1>9, Zenon DEF JobTrail
<1>11. attempt.startedAt = n
  BY Zenon DEF attempt
<1> QED
  BY <1>6, <1>7, <1>8, <1>9, <1>10, <1>11 DEF leased

\* Job.Complete closes the attempt and stamps the completion.
LEMMA CompleteJob ==
  ASSUME NEW job \in Job, JobStamps(job), job.state = "active", NEW n \in Stamp, NEW orphans,
         JobTrail(job, orphans)
  PROVE  LET done == Complete(job, n)
         IN  /\ done \in Job /\ done.state = "completed"
             /\ JobStamps(done) /\ JobTrail(done, orphans)
<1> DEFINE message == ""
           done == Complete(job, n)
           attempts == closeCurrentAttempt(job.attempts, n, message)
<1>1. n \in Time /\ n # Unset /\ Unset \in Time
  BY DocumentAssumption DEF Time, Stamp, Unset
<1>2. message \in Messages /\ job.attempts \in Seq(Attempt) /\ "completed" \in JobState
  BY Zenon DEF Messages, Job, JobState, Graph!JobState
<1> HIDE DEF message
<1>3. /\ attempts \in Seq(Attempt)
      /\ Len(attempts) = Len(job.attempts) /\ DOMAIN attempts = DOMAIN job.attempts
      /\ \A i \in DOMAIN job.attempts : attempts[i].finishedAt = Unset =>
           job.attempts[i].finishedAt = Unset /\ i # Len(job.attempts)
  BY <1>2, CloseAttempt
<1> HIDE DEF attempts
<1>4. done = [job EXCEPT !.state = "completed", !.completedAt = n, !.leaseExpiry = Unset,
                         !.lastError = message, !.attempts = attempts]
  BY Zenon DEF Complete, Job, attempts, message
<1> HIDE DEF done
<1>5. /\ done.state = "completed" /\ done.completedAt = n /\ done.leaseExpiry = Unset
      /\ done.attempts = attempts /\ done.diedAt = job.diedAt
      /\ done.timeout = job.timeout /\ done.workerID = job.workerID
  BY <1>4, Zenon DEF Job
<1>6. done \in Job
  BY <1>1, <1>2, <1>3, <1>4, Zenon DEF Job
<1>7. JobStamps(done)
  BY <1>1, <1>5, Zenon DEF JobStamps
<1>8. JobTrail(done, orphans)
  BY <1>3, <1>5, Zenon DEF JobTrail
<1> QED
  BY <1>5, <1>6, <1>7, <1>8, Zenon DEF done

\* Job.Kill closes the attempt, if one is open, and stamps the death.
LEMMA KillEffect ==
  ASSUME NEW job \in Job, JobStamps(job), job.state # "completed", NEW n \in Stamp, NEW orphans,
         JobTrail(job, orphans), NEW reason \in Messages
  PROVE  LET dead == Kill(job, reason, n)
         IN  /\ dead \in Job /\ dead.state = "dead" /\ dead.diedAt = n
             /\ JobStamps(dead) /\ JobTrail(dead, orphans)
<1> DEFINE message == IF reason = "" THEN job.lastError ELSE reason
           dead == Kill(job, reason, n)
           attempts == closeCurrentAttempt(job.attempts, n, message)
<1>1. n \in Time /\ n # Unset /\ Unset \in Time
  BY DocumentAssumption DEF Time, Stamp, Unset
<1>2. message \in Messages /\ job.attempts \in Seq(Attempt) /\ "dead" \in JobState
  BY Zenon DEF Job, JobState, Graph!JobState
<1> HIDE DEF message
<1>3. /\ attempts \in Seq(Attempt)
      /\ Len(attempts) = Len(job.attempts) /\ DOMAIN attempts = DOMAIN job.attempts
      /\ \A i \in DOMAIN job.attempts : attempts[i].finishedAt = Unset =>
           job.attempts[i].finishedAt = Unset /\ i # Len(job.attempts)
  BY <1>2, CloseAttempt
<1> HIDE DEF attempts
<1>4. dead = [job EXCEPT !.state = "dead", !.diedAt = n, !.leaseExpiry = Unset,
                         !.lastError = message, !.attempts = attempts]
  BY Zenon DEF Kill, Job, attempts, message
<1> HIDE DEF dead
<1>5. /\ dead.state = "dead" /\ dead.diedAt = n /\ dead.leaseExpiry = Unset
      /\ dead.attempts = attempts /\ dead.completedAt = job.completedAt
      /\ dead.timeout = job.timeout /\ dead.workerID = job.workerID
  BY <1>4, Zenon DEF Job
<1>6. dead \in Job
  BY <1>1, <1>2, <1>3, <1>4, Zenon DEF Job
<1>7. JobStamps(dead)
  BY <1>1, <1>5, Zenon DEF JobStamps
<1>8. JobTrail(dead, orphans)
  BY <1>3, <1>5, Zenon DEF JobTrail
<1> QED
  BY <1>5, <1>6, <1>7, <1>8, Zenon DEF dead

\* Job.Requeue keeps the trail and forgets worker, lease and death.
LEMMA RequeueEffect ==
  ASSUME NEW job \in Job, JobStamps(job), job.state = "dead", NEW n \in Stamp, NEW orphans,
         JobTrail(job, orphans)
  PROVE  LET again == Requeue(job, n)
         IN  /\ again \in Job /\ again.state = "pending"
             /\ JobStamps(again) /\ JobTrail(again, orphans)
<1> DEFINE again == Requeue(job, n)
<1>1. n \in Time /\ Unset \in Time /\ 0 \in Nat /\ NoWorker \in WorkerIDs /\ "pending" \in JobState
  BY Zenon DEF Time, WorkerIDs, JobState, Graph!JobState
<1>2. again = [job EXCEPT !.state = "pending", !.processAt = n, !.attemptsMade = 0,
                          !.diedAt = Unset, !.leaseExpiry = Unset, !.workerID = NoWorker]
  BY Zenon DEF Requeue
<1> HIDE DEF again
<1>3. /\ again.state = "pending" /\ again.diedAt = Unset /\ again.leaseExpiry = Unset
      /\ again.attempts = job.attempts /\ again.completedAt = job.completedAt
      /\ again.timeout = job.timeout /\ again.workerID = NoWorker
  BY <1>2, Zenon DEF Job
<1>4. again \in Job
  BY <1>1, <1>2, Zenon DEF Job
<1>5. JobStamps(again)
  BY <1>3, Zenon DEF JobStamps
<1>6. JobTrail(again, orphans)
  BY <1>3, Zenon DEF JobTrail
<1> QED
  BY <1>3, <1>4, <1>5, <1>6, Zenon DEF again

\* Job.Fail plans the retry within the policy, or stamps the death.
LEMMA FailEffect ==
  ASSUME NEW job \in Job, JobStamps(job), job.state = "active", NEW n \in Stamp, NEW orphans,
         JobTrail(job, orphans), NEW failed \in Fail(job, "failed", n)
  PROVE  /\ failed \in Job /\ JobStamps(failed) /\ JobTrail(failed, orphans)
         /\ failed.policy = job.policy
         /\ \/ /\ failed.state = "retrying" /\ failed.processAt \in Stamp
               /\ n + job.policy.baseDelay <= failed.processAt
               /\ failed.processAt <= n + job.policy.maxDelay
            \/ failed.state = "dead" /\ failed.diedAt = n
<1> DEFINE attempts == closeCurrentAttempt(job.attempts, n, "failed")
           closed == [job EXCEPT !.lastError = "failed", !.attempts = attempts,
                                 !.leaseExpiry = Unset]
<1>1. n \in Time /\ n # Unset /\ Unset \in Time /\ n \in Nat /\ PerMilli \in Nat /\ PerMilli <= n
  BY DocumentAssumption DEF Time, Stamp, Unset
<1>2. /\ "failed" \in Messages /\ job.attempts \in Seq(Attempt)
      /\ "dead" \in JobState /\ "retrying" \in JobState
      /\ job.policy \in GoodPolicy /\ job.attemptsMade \in Nat
  BY Zenon DEF Messages, Job, JobState, Graph!JobState
<1>3. /\ attempts \in Seq(Attempt)
      /\ Len(attempts) = Len(job.attempts) /\ DOMAIN attempts = DOMAIN job.attempts
      /\ \A i \in DOMAIN job.attempts : attempts[i].finishedAt = Unset =>
           job.attempts[i].finishedAt = Unset /\ i # Len(job.attempts)
  BY <1>2, CloseAttempt
<1>4. \/ \E delay \in NextDelay(job.policy, job.attemptsMade) :
             failed = [closed EXCEPT !.state = "retrying", !.processAt = n + delay]
      \/ failed = [closed EXCEPT !.state = "dead", !.diedAt = n]
  BY Zenon DEF Fail
<1> HIDE DEF attempts
<1>5. closed \in Job
  BY <1>1, <1>2, <1>3, Zenon DEF Job
<1>6. /\ closed.completedAt = job.completedAt /\ closed.diedAt = job.diedAt
      /\ closed.leaseExpiry = Unset /\ closed.timeout = job.timeout
      /\ closed.attempts = attempts /\ closed.policy = job.policy
  BY Zenon DEF Job
<1> HIDE DEF closed
<1>7. CASE failed = [closed EXCEPT !.state = "dead", !.diedAt = n]
  <2>1. /\ failed.state = "dead" /\ failed.diedAt = n /\ failed.attempts = attempts
        /\ failed.completedAt = job.completedAt /\ failed.leaseExpiry = Unset
        /\ failed.timeout = job.timeout /\ failed.policy = job.policy
    BY <1>5, <1>6, <1>7, Zenon DEF Job
  <2>2. failed \in Job
    BY <1>1, <1>2, <1>5, <1>7, Zenon DEF Job
  <2>3. JobStamps(failed)
    BY <1>1, <2>1, Zenon DEF JobStamps
  <2>4. JobTrail(failed, orphans)
    BY <1>3, <2>1, Zenon DEF JobTrail
  <2> QED
    BY <2>1, <2>2, <2>3, <2>4, Zenon
<1>8. ASSUME NEW delay \in NextDelay(job.policy, job.attemptsMade),
             failed = [closed EXCEPT !.state = "retrying", !.processAt = n + delay]
      PROVE  /\ failed \in Job /\ JobStamps(failed) /\ JobTrail(failed, orphans)
             /\ failed.policy = job.policy
             /\ failed.state = "retrying" /\ failed.processAt \in Stamp
             /\ n + job.policy.baseDelay <= failed.processAt
             /\ failed.processAt <= n + job.policy.maxDelay
  <2>1. /\ delay \in Nat /\ job.policy.baseDelay <= delay /\ delay <= job.policy.maxDelay
        /\ job.policy.baseDelay \in Nat /\ job.policy.maxDelay \in Nat
    BY <1>2, DelayWithinPolicy, Zenon DEF GoodPolicy, Policy
  <2>2. n + delay \in Stamp /\ n + delay \in Time
    BY <1>1, <2>1 DEF Stamp, Time
  <2>3. /\ failed.state = "retrying" /\ failed.processAt = n + delay
        /\ failed.attempts = attempts /\ failed.diedAt = job.diedAt
        /\ failed.completedAt = job.completedAt /\ failed.leaseExpiry = Unset
        /\ failed.timeout = job.timeout /\ failed.policy = job.policy
    BY <1>5, <1>6, <1>8, Zenon DEF Job
  <2>4. failed \in Job
    BY <1>2, <1>5, <1>8, <2>2, Zenon DEF Job
  <2>5. JobStamps(failed)
    BY <1>1, <2>3, Zenon DEF JobStamps
  <2>6. JobTrail(failed, orphans)
    BY <1>3, <2>3, Zenon DEF JobTrail
  <2> QED
    BY <1>1, <2>1, <2>2, <2>3, <2>4, <2>5, <2>6
<1> QED
  BY <1>4, <1>7, <1>8, Zenon

\* EnqueuerService.buildJob returns a job that runs now or waits for its instant.
LEMMA BuildEffect ==
  ASSUME NEW req \in Requests, NEW n \in Stamp, NEW job \in buildJob(req, n), NEW orphans
  PROVE  /\ job \in Job /\ JobStamps(job) /\ JobTrail(job, orphans)
         /\ job.state \in {"scheduled", "pending"} /\ job.processAt \in Stamp
<1>1. /\ n \in Time /\ n \in Nat /\ PerMilli \in Nat /\ PerMilli <= n /\ Unset \in Time
      /\ PerMilli > 0 /\ PerSecond \in Nat /\ PerSecond >= PerMilli
  BY DocumentAssumption DEF Time, Stamp, Unset
<1>2. /\ req.maxRetries \in Nat \cup {Unset} /\ req.baseDelay \in Int /\ req.maxDelay \in Int
      /\ req.timeout \in Int /\ req.delay \in Nat \cup {Unset} /\ req.runAt \in Nat \cup {Unset}
  BY LifeAssumption, Zenon DEF Request
<1>3. derefOr(req.maxRetries, DefaultMaxRetries) \in Nat
  BY <1>2, PolicyAssumption, Zenon DEF derefOr
<1>4. /\ secondsOr(req.baseDelay, DefaultBaseDelay) \in Int
      /\ PerMilli <= secondsOr(req.baseDelay, DefaultBaseDelay)
  <2>1. \A k \in Int : k > 0 => k * PerSecond \in Int /\ PerMilli <= k * PerSecond
    BY <1>1
  <2> QED
    BY <1>2, <2>1, PolicyAssumption, LifeAssumption DEF secondsOr
<1>5. /\ secondsOr(req.maxDelay, DefaultMaxDelay) \in Int
      /\ secondsOr(req.maxDelay, DefaultMaxDelay) # 0
  <2>1. \A k \in Int : k > 0 => k * PerSecond \in Int /\ k * PerSecond # 0
    BY <1>1
  <2> QED
    BY <1>2, <2>1, PolicyAssumption DEF secondsOr
<1>6. /\ secondsOr(req.timeout, DefaultTimeout) \in Nat
      /\ secondsOr(req.timeout, DefaultTimeout) # 0
      /\ secondsOr(req.timeout, DefaultTimeout) <= LeaseFor
  <2>1. \A k \in Int : k > 0 => k * PerSecond \in Nat /\ k * PerSecond # 0
    BY <1>1
  <2>2. secondsOr(req.timeout, DefaultTimeout) <= LeaseFor
    BY LifeAssumption, Zenon
  <2> QED
    BY <1>2, <2>1, <2>2, DocumentAssumption DEF secondsOr
<1> DEFINE timeout == secondsOr(req.timeout, DefaultTimeout)
           policies == NewRetryPolicy(derefOr(req.maxRetries, DefaultMaxRetries),
                                      secondsOr(req.baseDelay, DefaultBaseDelay),
                                      secondsOr(req.maxDelay, DefaultMaxDelay), req.strategy)
<1>7. policies \subseteq GoodPolicy
  BY <1>3, <1>4, <1>5, AcceptedPolicy, Zenon
<1>8. PICK policy \in policies, at \in resolveProcessAt(req, n) :
        job \in NewJob(policy, timeout, at, n)
  BY DEF buildJob
<1>9. at \in Int
  <2>1. \A k \in Nat : n + k * PerSecond \in Int
    BY <1>1
  <2>2. \/ req.delay \in Nat /\ at = n + req.delay * PerSecond
        \/ req.runAt \in Nat /\ at = req.runAt
        \/ at = n
    BY <1>2, <1>8, Zenon DEF resolveProcessAt
  <2> QED
    BY <1>1, <2>1, <2>2
<1> HIDE DEF timeout, policies
<1>10. job = [state |-> IF at > n THEN "scheduled" ELSE "pending", policy |-> policy,
              timeout |-> timeout, attemptsMade |-> 0, attempts |-> <<>>, lastError |-> "",
              createdAt |-> n, processAt |-> IF at > n THEN at ELSE n,
              completedAt |-> Unset, diedAt |-> Unset, leaseExpiry |-> Unset,
              workerID |-> NoWorker]
  <2>1. timeout # 0
    BY <1>6, Zenon DEF timeout
  <2> QED
    BY <1>8, <2>1, Zenon DEF NewJob
<1>11. (IF at > n THEN at ELSE n) \in Stamp /\ (IF at > n THEN at ELSE n) \in Time
  BY <1>1, <1>9 DEF Stamp, Time
<1>12. (IF at > n THEN "scheduled" ELSE "pending") \in JobState \cap {"scheduled", "pending"}
  BY Zenon DEF JobState, Graph!JobState
<1>13. /\ "" \in Messages /\ NoWorker \in WorkerIDs /\ 0 \in Nat /\ timeout \in Nat
       /\ policy \in GoodPolicy /\ <<>> \in Seq(Attempt)
  <2>1. <<>> \in Seq(Attempt)
    OBVIOUS
  <2>2. timeout \in Nat
    BY <1>6, Zenon DEF timeout
  <2> QED
    BY <2>1, <2>2, <1>7, <1>8, Zenon DEF Messages, WorkerIDs
<1>14. job \in Job
  BY <1>1, <1>10, <1>11, <1>12, <1>13, Zenon DEF Job
<1>15. /\ job.state \in {"scheduled", "pending"} /\ job.processAt \in Stamp
       /\ job.completedAt = Unset /\ job.diedAt = Unset /\ job.leaseExpiry = Unset
       /\ job.workerID = NoWorker /\ job.timeout = timeout /\ job.attempts = <<>>
  BY <1>10, <1>11, <1>12, Zenon
<1>16. JobStamps(job)
  BY <1>6, <1>15, Zenon DEF JobStamps, timeout
<1>17. JobTrail(job, orphans)
  BY <1>15 DEF JobTrail
<1> QED
  BY <1>14, <1>15, <1>16, <1>17, Zenon

-----------------------------------------------------------------------------
(* The inductive invariant.                                                *)

\* The job is in the set of its state, and in no other.
InSet(sc, s, n) == sc = [t \in JobState |-> IF t = s THEN n ELSE Absent]

\* What holds of a document and its score once the job exists.
StoreInv(h, sc) ==
  /\ h \in Document
  /\ sc[h.state] \in Nat /\ InSet(sc, h.state, sc[h.state])
  /\ h.completed_at_ms # 0 <=> h.state = "completed"
  /\ h.died_at_ms # 0 <=> h.state = "dead"
  /\ h.lease_expiry_ms # 0 <=> h.state = "active"
  /\ h.worker_id # NoWorker => h.state \notin {"scheduled", "pending"}
  /\ h.state \in {"scheduled", "retrying"} => sc[h.state] = h.process_at_ms
  /\ h.state = "dead" => sc[h.state] = h.died_at_ms
  /\ h.state = "active" => h.lease_expiry_ms <= sc[h.state]
  /\ h.timeout_ms * PerMilli <= LeaseFor

TrailInv(h, orphans) ==
  \A i \in DOMAIN h.attempts :
    h.attempts[i].finished_at_ms = 0 =>
      i \in orphans \/ (i = Len(h.attempts) /\ h.state = "active")

\* When the attempt under way started.
Began == copy.attempts[Len(copy.attempts)].startedAt

\* What a worker may rely on between its claim and its report.
CopyInv ==
  /\ hash.state = "active"
  /\ copy \in Job /\ copy.state = "active"
  /\ JobStamps(copy) /\ JobTrail(copy, orphaned)
  /\ Began \in Stamp /\ now <= Began + copy.timeout
  /\ score["active"] = toMillis(Began + LeaseFor + leaseGrace)
  /\ toMillis(copy.leaseExpiry) <= score["active"]

DocumentInv ==
  /\ now \in Stamp
  /\ pc \in {"idle", "leased", "running"}
  /\ notBefore \in Nat /\ notAfter \in Nat
  /\ hash = None => score = [s \in JobState |-> Absent]
  /\ hash # None => StoreInv(hash, score) /\ TrailInv(hash, orphaned)
  /\ DueWithinPolicy
  /\ Held => CopyInv

-----------------------------------------------------------------------------

\* A job written by Go is stored consistently if its own stamps are consistent.
LEMMA Stored ==
  ASSUME NEW job \in Job, JobStamps(job), NEW orphans, JobTrail(job, orphans),
         NEW sc, NEW n \in Nat, InSet(sc, job.state, n),
         job.state \in {"scheduled", "retrying"} => n = toMillis(job.processAt),
         job.state = "dead" => n = toMillis(job.diedAt),
         job.state = "active" => toMillis(job.leaseExpiry) <= n
  PROVE  /\ StoreInv(toJobFields(job), sc)
         /\ TrailInv(toJobFields(job), orphans)
<1> DEFINE h == toJobFields(job)
<1>1. h \in Document
  BY Encode, Zenon
<1>2. h.attempts = [i \in DOMAIN job.attempts |-> EncodeAttempt(job.attempts[i])]
  BY Encode, Zenon
<1>3. /\ h.state = job.state /\ h.worker_id = job.workerID
      /\ h.process_at_ms = toMillis(job.processAt)
      /\ h.completed_at_ms = toMillis(job.completedAt)
      /\ h.died_at_ms = toMillis(job.diedAt)
      /\ h.lease_expiry_ms = toMillis(job.leaseExpiry)
      /\ h.timeout_ms = job.timeout \div PerMilli
  BY Zenon DEF toJobFields
<1>4. /\ job.completedAt \in Time /\ job.diedAt \in Time /\ job.leaseExpiry \in Time
      /\ job.timeout \in Nat /\ job.attempts \in Seq(Attempt) /\ job.state \in JobState
  BY Zenon DEF Job
<1> HIDE DEF h
<1>5. sc[h.state] = n
  BY <1>3, <1>4, Zenon DEF InSet
<1>6. h.timeout_ms * PerMilli <= LeaseFor
  <2>1. PerMilli \in Nat /\ PerMilli > 0 /\ LeaseFor \in Nat
    BY DocumentAssumption, LifeAssumption
  <2>2. \A t \in Nat : (t \div PerMilli) * PerMilli <= t /\ (t \div PerMilli) * PerMilli \in Nat
    BY <2>1
  <2>3. job.timeout <= LeaseFor
    BY Zenon DEF JobStamps
  <2> QED
    BY <2>1, <2>2, <2>3, <1>3, <1>4
<1>7. StoreInv(h, sc)
  <2>1. /\ h.completed_at_ms # 0 <=> h.state = "completed"
        /\ h.died_at_ms # 0 <=> h.state = "dead"
        /\ h.lease_expiry_ms # 0 <=> h.state = "active"
        /\ h.worker_id # NoWorker => h.state \notin {"scheduled", "pending"}
    BY <1>3, <1>4, Millis, Zenon DEF JobStamps
  <2> QED
    BY <1>1, <1>3, <1>5, <1>6, <2>1, Zenon DEF StoreInv
<1>8. TrailInv(h, orphans)
  <2>1. DOMAIN h.attempts = DOMAIN job.attempts /\ Len(h.attempts) = Len(job.attempts)
    <3>1. h.attempts \in Seq(AttemptDoc)
      BY <1>1, Zenon DEF Document, Fields
    <3>2. DOMAIN h.attempts = DOMAIN job.attempts
      BY <1>2, Zenon
    <3> QED
      BY <3>1, <3>2, <1>4
  <2>2. \A i \in DOMAIN job.attempts :
          h.attempts[i].finished_at_ms = 0 <=> job.attempts[i].finishedAt = Unset
    BY <1>2, <1>4, AttemptCodec
  <2> QED
    BY <2>1, <2>2, <1>3, Zenon DEF TrailInv, JobTrail
<1> QED
  BY <1>7, <1>8, Zenon DEF h

\* A consistent document decodes to a job with consistent stamps.
LEMMA Loaded ==
  ASSUME NEW h, NEW sc, StoreInv(h, sc), NEW orphans, TrailInv(h, orphans),
         NEW job \in toAggregate(h)
  PROVE  /\ job \in Job /\ JobStamps(job) /\ JobTrail(job, orphans)
         /\ job.state = h.state
<1>1. h \in Document
  BY Zenon DEF StoreInv
<1>2. /\ job \in Job /\ job.state = h.state /\ job.workerID = h.worker_id
      /\ job.timeout = h.timeout_ms * PerMilli
      /\ job.completedAt = fromMillis(h.completed_at_ms)
      /\ job.diedAt = fromMillis(h.died_at_ms)
      /\ job.leaseExpiry = fromMillis(h.lease_expiry_ms)
      /\ job.attempts = [i \in DOMAIN h.attempts |-> DecodeAttempt(h.attempts[i])]
  BY <1>1, Decode, Zenon
<1>3. /\ h.completed_at_ms \in Nat /\ h.died_at_ms \in Nat /\ h.lease_expiry_ms \in Nat
      /\ h.attempts \in Seq(AttemptDoc)
  BY <1>1, Zenon DEF Document, Fields
<1>4. \A ms \in Nat : fromMillis(ms) # Unset <=> ms # 0
  BY Millis, Zenon
<1>5. JobStamps(job)
  BY <1>2, <1>3, <1>4, Zenon DEF JobStamps, StoreInv
<1>6. JobTrail(job, orphans)
  <2>1. DOMAIN h.attempts = DOMAIN job.attempts /\ Len(h.attempts) = Len(job.attempts)
    <3>1. job.attempts \in Seq(Attempt)
      BY <1>2, Zenon DEF Job
    <3>2. DOMAIN h.attempts = DOMAIN job.attempts
      BY <1>2, Zenon
    <3> QED
      BY <3>1, <3>2, <1>3
  <2>2. \A i \in DOMAIN h.attempts :
          h.attempts[i].finished_at_ms = 0 <=> job.attempts[i].finishedAt = Unset
    BY <1>2, <1>3, AttemptCodec
  <2> QED
    BY <2>1, <2>2, <1>2, Zenon DEF TrailInv, JobTrail
<1> QED
  BY <1>2, <1>5, <1>6, Zenon

\* The scripts leave one set and enter another.
LEMMA ScoreMoves ==
  ASSUME NEW sc, NEW s \in JobState, NEW t \in JobState, s # t, NEW n, NEW k,
         InSet(sc, s, n)
  PROVE  InSet([sc EXCEPT ![s] = Absent, ![t] = k], t, k)
BY Zenon DEF InSet

\* An instant is planned within the millisecond it is stored as.
LEMMA Planned ==
  ASSUME NEW at \in Stamp, NEW from \in Nat, NEW to \in Nat, from <= at, at <= to
  PROVE  /\ fromMillis(toMillis(at)) > from - PerMilli
         /\ fromMillis(toMillis(at)) <= to
<1>1. at \in Nat /\ PerMilli \in Nat /\ at # Unset
  BY DocumentAssumption DEF Stamp, Unset
<1>2. at \in Time /\ toMillis(at) \in Nat /\ toMillis(at) # 0
  BY <1>1, Millis, Zenon DEF Time
<1>3. fromMillis(toMillis(at)) \in Int
  BY <1>1, <1>2, DocumentAssumption DEF fromMillis
<1> QED
  BY <1>1, <1>3, Millis

\* What a step relies on when a job is in the set s.
LEMMA Member ==
  ASSUME DocumentInv, NEW s \in JobState, score[s] # Absent
  PROVE  /\ hash # None /\ hash.state = s /\ hash \in Document
         /\ StoreInv(hash, score) /\ TrailInv(hash, orphaned)
         /\ InSet(score, s, score[s]) /\ score[s] \in Nat
<1>1. hash # None
  BY Zenon DEF DocumentInv
<1>2. StoreInv(hash, score) /\ TrailInv(hash, orphaned)
  BY <1>1, Zenon DEF DocumentInv
<1>3. hash.state = s
  BY <1>2, Zenon DEF StoreInv, InSet
<1> QED
  BY <1>1, <1>2, <1>3, Zenon DEF StoreInv

\* A document is not the empty one.
LEMMA NotNone ==
  ASSUME NEW h \in Document
  PROVE  h # None /\ h.state \in JobState
<1>1. h.state \in JobState
  BY Zenon DEF Document, Fields
<1>2. None.state = "none" /\ "none" \notin JobState
  BY Zenon DEF None, JobState, Graph!JobState
<1> QED
  BY <1>1, <1>2, Zenon

-----------------------------------------------------------------------------
(* The invariant.                                                          *)

LEMMA DocumentInit == Init => DocumentInv
<1> SUFFICES ASSUME Init
             PROVE  DocumentInv
  OBVIOUS
<1>1. Start \in Stamp /\ Start \in Nat
  BY LifeAssumption, Zenon DEF Stamp
<1>2. /\ now = Start /\ hash = None /\ score = [s \in JobState |-> Absent] /\ pc = "idle"
      /\ notBefore = Start /\ notAfter = Start
  BY Zenon DEF Init
<1> QED
  BY <1>1, <1>2, Zenon DEF DocumentInv, DueWithinPolicy, Exists, Held

LEMMA CreateStep ==
  ASSUME DocumentInv, NEW req \in Requests, Create(req)
  PROVE  DocumentInv'
<1>1. PICK job \in buildJob(req, now) :
        /\ hash' = toJobFields(job)
        /\ score' = [score EXCEPT ![job.state] = toMillis(job.processAt)]
        /\ notBefore' = job.processAt /\ notAfter' = job.processAt
  BY Zenon DEF Create
<1>2. hash = None /\ now' = now /\ pc' = pc /\ copy' = copy /\ orphaned' = orphaned
  BY Zenon DEF Create, Exists
<1>3. /\ now \in Stamp /\ pc = "idle" /\ score = [s \in JobState |-> Absent]
  <2>1. None.state # "active"
    BY Zenon DEF None
  <2> QED
    BY <2>1, <1>2, Zenon DEF DocumentInv, Held, CopyInv
<1>4. /\ job \in Job /\ JobStamps(job) /\ JobTrail(job, orphaned)
      /\ job.state \in {"scheduled", "pending"} /\ job.processAt \in Stamp
  BY <1>3, BuildEffect, Zenon
<1>5. toMillis(job.processAt) \in Nat /\ job.processAt \in Nat
  BY <1>4, Millis, Zenon DEF Time, Stamp
<1>6. InSet(score', job.state, toMillis(job.processAt))
  BY <1>1, <1>3, Zenon DEF InSet
<1>7. StoreInv(hash', score') /\ TrailInv(hash', orphaned)
  <2>1. job.state # "dead" /\ job.state # "active"
    BY <1>4, Zenon
  <2> QED
    BY <1>1, <1>4, <1>5, <1>6, <2>1, Stored, Zenon
<1>8. hash'.process_at_ms = toMillis(job.processAt)
  BY <1>1, Zenon DEF toJobFields
<1>9. DueWithinPolicy'
  BY <1>1, <1>4, <1>5, <1>8, Planned DEF DueWithinPolicy
<1>10. hash' # None
  BY <1>7, NotNone, Zenon DEF StoreInv
<1> QED
  BY <1>1, <1>2, <1>3, <1>5, <1>7, <1>9, <1>10, Zenon DEF DocumentInv, Held

LEMMA DequeueStep ==
  ASSUME DocumentInv, Dequeue
  PROVE  DocumentInv'
<1> DEFINE expiry == toMillis(now + LeaseFor + leaseGrace)
<1>1. /\ pc = "idle" /\ score["pending"] # Absent
      /\ hash' = LeaseFields(hash, Worker, expiry)
      /\ score' = [score EXCEPT !["pending"] = Absent, !["active"] = expiry]
      /\ now' = now /\ notBefore' = notBefore /\ notAfter' = notAfter
      /\ orphaned' = orphaned
  BY Zenon DEF Dequeue, Held
<1>2. "pending" \in JobState /\ "active" \in JobState
  BY Zenon DEF JobState, Graph!JobState
<1>3. /\ hash.state = "pending" /\ hash \in Document
      /\ StoreInv(hash, score) /\ TrailInv(hash, orphaned)
      /\ InSet(score, "pending", score["pending"])
  BY <1>1, <1>2, Member, Zenon
<1>4. /\ now \in Stamp /\ now \in Nat /\ LeaseFor \in Nat /\ leaseGrace \in Nat
      /\ PerMilli \in Nat /\ PerMilli <= now
  BY DocumentAssumption, LifeAssumption, Zenon DEF DocumentInv, Stamp
<1>5. now + LeaseFor + leaseGrace \in Stamp /\ now + LeaseFor + leaseGrace # Unset
  BY <1>4 DEF Stamp, Unset
<1>6. expiry \in Nat /\ expiry # 0
  BY <1>5, Millis, Zenon DEF Time
<1>7. InSet(score', "active", expiry) /\ score'["active"] = expiry
  <2>1. InSet(score', "active", expiry)
    BY <1>1, <1>2, <1>3, ScoreMoves, Zenon
  <2> QED
    BY <2>1, <1>2, Zenon DEF InSet
<1> HIDE DEF expiry
<1>8. /\ hash' \in Document /\ hash'.state = "active" /\ hash'.lease_expiry_ms = expiry
      /\ hash'.attempts = hash.attempts /\ hash'.timeout_ms = hash.timeout_ms
      /\ hash'.completed_at_ms = hash.completed_at_ms /\ hash'.died_at_ms = hash.died_at_ms
  <2>1. hash \in Fields /\ Worker \in WorkerIDs
    BY <1>3, Zenon DEF Document, WorkerIDs
  <2>2. hash' = [hash EXCEPT !.state = "active", !.worker_id = Worker, !.lease_expiry_ms = expiry]
    BY <1>1, Zenon DEF LeaseFields
  <2>3. /\ hash'.state = "active" /\ hash'.lease_expiry_ms = expiry
        /\ hash'.attempts = hash.attempts /\ hash'.timeout_ms = hash.timeout_ms
        /\ hash'.completed_at_ms = hash.completed_at_ms /\ hash'.died_at_ms = hash.died_at_ms
        /\ hash'.max_retries = hash.max_retries /\ hash'.base_delay_ms = hash.base_delay_ms
        /\ hash'.max_delay_ms = hash.max_delay_ms
    BY <2>1, <2>2, Zenon DEF Fields
  <2>4. hash' \in Fields
    BY <1>2, <1>6, <2>1, <2>2, Zenon DEF Fields
  <2> QED
    BY <1>3, <2>3, <2>4, Zenon DEF Document
<1>9. StoreInv(hash', score')
  BY <1>3, <1>6, <1>7, <1>8 DEF StoreInv
<1>10. TrailInv(hash', orphaned)
  BY <1>3, <1>8, Zenon DEF TrailInv
<1>11. PICK job \in toAggregate(hash) : pc' = "leased" /\ copy' = Lease(job, Worker, now, leaseGrace)
  <2>0. toAggregate(hash) # {}
    BY <1>3, Decode, Zenon
  <2>1. PICK loaded \in toAggregate(hash) : loaded.state = "pending"
    BY <1>3, <2>0, Loaded, Zenon
  <2>2. guard(loaded, "active")
    BY <2>1 DEF guard, Graph!CanTransitionTo, Graph!allowedTransitions
  <2> QED
    BY <2>1, <2>2, Zenon DEF Dequeue
<1>12. /\ job \in Job /\ JobStamps(job) /\ JobTrail(job, orphaned) /\ job.state = "pending"
  BY <1>3, <1>11, Loaded, Zenon
<1>13. /\ copy' \in Job /\ copy'.state = "active"
       /\ JobStamps(copy') /\ JobTrail(copy', orphaned)
       /\ copy'.leaseExpiry = now + job.timeout + leaseGrace
       /\ copy'.timeout = job.timeout
       /\ Began' = now
  BY <1>4, <1>11, <1>12, LeaseJob, Zenon DEF Began
<1>14. job.timeout \in Nat /\ job.timeout <= LeaseFor
  BY <1>12, Zenon DEF Job, JobStamps
<1>15. toMillis(now + job.timeout + leaseGrace) <= expiry
  <2>1. now + job.timeout + leaseGrace \in Stamp
    BY <1>4, <1>14 DEF Stamp
  <2>2. now + job.timeout + leaseGrace <= now + LeaseFor + leaseGrace
    BY <1>4, <1>14
  <2> QED
    BY <2>1, <2>2, <1>5, MillisMonotone, Zenon DEF expiry
<1>16. CopyInv'
  BY <1>1, <1>4, <1>7, <1>8, <1>13, <1>14, <1>15 DEF CopyInv, expiry
<1>17. hash' # None
  BY <1>8, NotNone, Zenon
<1>18. DueWithinPolicy'
  BY <1>8, Zenon DEF DueWithinPolicy
<1>19. notBefore \in Nat /\ notAfter \in Nat
  BY Zenon DEF DocumentInv
<1> QED
  BY <1>1, <1>4, <1>9, <1>10, <1>11, <1>16, <1>17, <1>18, <1>19, Zenon DEF DocumentInv

\* What the worker knows while it holds the job.
LEMMA Holding ==
  ASSUME DocumentInv, Held
  PROVE  /\ CopyInv /\ hash # None /\ StoreInv(hash, score) /\ TrailInv(hash, orphaned)
         /\ InSet(score, "active", score["active"]) /\ score["active"] \in Nat
         /\ now \in Stamp /\ notBefore \in Nat /\ notAfter \in Nat
<1>1. CopyInv
  BY Zenon DEF DocumentInv
<1>2. hash # None
  <2>1. None.state # "active"
    BY Zenon DEF None
  <2> QED
    BY <1>1, <2>1, Zenon DEF CopyInv
<1>3. StoreInv(hash, score) /\ TrailInv(hash, orphaned)
  BY <1>2, Zenon DEF DocumentInv
<1>4. InSet(score, "active", score["active"]) /\ score["active"] \in Nat
  BY <1>1, <1>3, Zenon DEF StoreInv, CopyInv
<1> QED
  BY <1>1, <1>2, <1>3, <1>4, Zenon DEF DocumentInv

LEMMA SaveStep ==
  ASSUME DocumentInv, Save
  PROVE  DocumentInv'
<1>1. /\ Held /\ hash' = toJobFields(copy) /\ pc' = "running"
      /\ now' = now /\ score' = score /\ copy' = copy /\ notBefore' = notBefore
      /\ notAfter' = notAfter /\ orphaned' = orphaned
  BY Zenon DEF Save, Held
<1>2. /\ CopyInv /\ InSet(score, "active", score["active"]) /\ score["active"] \in Nat
      /\ now \in Stamp /\ notBefore \in Nat /\ notAfter \in Nat
  BY <1>1, Holding, Zenon
<1>3. /\ copy \in Job /\ copy.state = "active" /\ JobStamps(copy) /\ JobTrail(copy, orphaned)
      /\ toMillis(copy.leaseExpiry) <= score["active"]
  BY <1>2, Zenon DEF CopyInv
<1>4. StoreInv(hash', score') /\ TrailInv(hash', orphaned')
  BY <1>1, <1>2, <1>3, Stored, Zenon
<1>5. hash'.state = "active"
  BY <1>1, <1>3, Zenon DEF toJobFields
<1>6. CopyInv'
  BY <1>1, <1>2, <1>5, Zenon DEF CopyInv, Began
<1>7. hash' # None
  BY <1>4, NotNone, Zenon DEF StoreInv
<1>8. DueWithinPolicy'
  BY <1>5, Zenon DEF DueWithinPolicy
<1> QED
  BY <1>1, <1>2, <1>4, <1>6, <1>7, <1>8, Zenon DEF DocumentInv

\* A worker's report writes a job with consistent stamps and lets go of it.
LEMMA Reported ==
  ASSUME DocumentInv, NEW job \in Job, JobStamps(job), JobTrail(job, orphaned), NEW n \in Nat,
         job.state # "active", hash' = toJobFields(job), InSet(score', job.state, n),
         job.state \in {"scheduled", "retrying"} => n = toMillis(job.processAt),
         job.state = "dead" => n = toMillis(job.diedAt),
         pc' = "idle", now' = now, orphaned' = orphaned,
         notBefore' \in Nat, notAfter' \in Nat, DueWithinPolicy'
  PROVE  DocumentInv'
<1>1. StoreInv(hash', score') /\ TrailInv(hash', orphaned')
  BY Stored, Zenon
<1>2. hash' # None
  BY <1>1, NotNone, Zenon DEF StoreInv
<1>3. now' \in Stamp
  BY Zenon DEF DocumentInv
<1> QED
  BY <1>1, <1>2, <1>3, Zenon DEF DocumentInv, Held

\* A job that moves to the dead-letter set, by whatever hand.
LEMMA DeadStep ==
  ASSUME DocumentInv, NEW job \in Job, JobStamps(job), JobTrail(job, orphaned),
         job.state = "dead", MoveToDead(job), pc' = "idle",
         UNCHANGED <<now, notBefore, notAfter, orphaned>>
  PROVE  DocumentInv'
<1>1. /\ hash' = toJobFields(job) /\ InSet(score', "dead", toMillis(job.diedAt))
      /\ notBefore' = notBefore /\ notAfter' = notAfter /\ now' = now /\ orphaned' = orphaned
  BY Zenon DEF MoveToDead, InSet
<1>2. toMillis(job.diedAt) \in Nat /\ notBefore \in Nat /\ notAfter \in Nat
  BY Millis, Zenon DEF Job, DocumentInv
<1>3. hash'.state = "dead"
  BY <1>1, Zenon DEF toJobFields
<1>4. DueWithinPolicy'
  BY <1>3, Zenon DEF DueWithinPolicy
<1> QED
  BY <1>1, <1>2, <1>4, Reported, Zenon

LEMMA ReportCompleteStep ==
  ASSUME DocumentInv, ReportComplete
  PROVE  DocumentInv'
<1> DEFINE done == Complete(copy, now)
           n == toMillis(now + Retention)
<1>1. /\ Held /\ hash' = toJobFields(done) /\ pc' = "idle"
      /\ score' = [score EXCEPT !["active"] = Absent, !["completed"] = n]
      /\ now' = now /\ notBefore' = notBefore /\ notAfter' = notAfter /\ orphaned' = orphaned
  BY Zenon DEF ReportComplete, Held, Transition, Done
<1>2. /\ CopyInv /\ InSet(score, "active", score["active"])
      /\ now \in Stamp /\ notBefore \in Nat /\ notAfter \in Nat
  BY <1>1, Holding, Zenon
<1>3. /\ done \in Job /\ done.state = "completed" /\ JobStamps(done) /\ JobTrail(done, orphaned)
  BY <1>2, CompleteJob, Zenon DEF CopyInv
<1>4. n \in Nat
  <2>1. now + Retention \in Time
    BY <1>2, LifeAssumption, DocumentAssumption DEF Stamp, Time
  <2> QED
    BY <2>1, Millis, Zenon
<1>5. InSet(score', "completed", n)
  <2>1. "active" \in JobState /\ "completed" \in JobState
    BY Zenon DEF JobState, Graph!JobState
  <2> QED
    BY <2>1, <1>1, <1>2, ScoreMoves, Zenon
<1>6. hash'.state = done.state
  BY <1>1, Zenon DEF toJobFields
<1> HIDE DEF done, n
<1>7. DueWithinPolicy'
  BY <1>3, <1>6, Zenon DEF DueWithinPolicy
<1> QED
  BY <1>1, <1>2, <1>3, <1>4, <1>5, <1>7, Reported, Zenon

LEMMA ReportFailureStep ==
  ASSUME DocumentInv, ReportFailure
  PROVE  DocumentInv'
<1>1. Held /\ pc' = "idle" /\ now' = now /\ orphaned' = orphaned
  BY Zenon DEF ReportFailure, Held, Done
<1>2. PICK job \in Fail(copy, "failed", now) :
        IF job.state = "retrying"
        THEN /\ Transition("active", "retrying", toMillis(job.processAt), job)
             /\ notBefore' = now + job.policy.baseDelay
             /\ notAfter' = now + job.policy.maxDelay
        ELSE /\ MoveToDead(job)
             /\ UNCHANGED <<notBefore, notAfter>>
  BY Zenon DEF ReportFailure
<1>3. /\ CopyInv /\ InSet(score, "active", score["active"])
      /\ now \in Stamp /\ now \in Nat /\ notBefore \in Nat /\ notAfter \in Nat
  BY <1>1, Holding, Zenon DEF Stamp
<1>4. /\ job \in Job /\ JobStamps(job) /\ JobTrail(job, orphaned)
      /\ job.policy = copy.policy
      /\ \/ /\ job.state = "retrying" /\ job.processAt \in Stamp
            /\ now + copy.policy.baseDelay <= job.processAt
            /\ job.processAt <= now + copy.policy.maxDelay
         \/ job.state = "dead" /\ job.diedAt = now
  BY <1>2, <1>3, FailEffect DEF CopyInv
<1>5. job.policy.baseDelay \in Nat /\ job.policy.maxDelay \in Nat
  BY <1>4, Zenon DEF Job, GoodPolicy, Policy
<1>6. "active" \in JobState /\ "retrying" \in JobState
  BY Zenon DEF JobState, Graph!JobState
<1>7. CASE job.state = "retrying"
  <2>1. /\ hash' = toJobFields(job)
        /\ score' = [score EXCEPT !["active"] = Absent, !["retrying"] = toMillis(job.processAt)]
        /\ notBefore' = now + job.policy.baseDelay
        /\ notAfter' = now + job.policy.maxDelay
    BY <1>2, <1>7, Zenon DEF Transition
  <2>2. InSet(score', "retrying", toMillis(job.processAt))
    BY <2>1, <1>3, <1>6, ScoreMoves, Zenon
  <2>3. /\ job.processAt \in Stamp
        /\ notBefore' <= job.processAt /\ job.processAt <= notAfter'
        /\ notBefore' \in Nat /\ notAfter' \in Nat
    BY <1>3, <1>4, <1>5, <1>7, <2>1
  <2>4. toMillis(job.processAt) \in Nat
    BY <2>3, Millis, Zenon DEF Time
  <2>5. hash'.process_at_ms = toMillis(job.processAt)
    BY <2>1, Zenon DEF toJobFields
  <2>6. DueWithinPolicy'
    BY <2>3, <2>5, Planned, Zenon DEF DueWithinPolicy
  <2> QED
    BY <1>1, <1>4, <1>7, <2>1, <2>2, <2>3, <2>4, <2>6, Reported, Zenon
<1>8. CASE job.state = "dead"
  <2>1. MoveToDead(job) /\ UNCHANGED <<now, notBefore, notAfter, orphaned>>
    BY <1>1, <1>2, <1>8, Zenon
  <2> QED
    BY <2>1, <1>1, <1>4, <1>8, DeadStep, Zenon
<1> QED
  BY <1>4, <1>7, <1>8, Zenon

LEMMA ReportUnroutableStep ==
  ASSUME DocumentInv, ReportUnroutable
  PROVE  DocumentInv'
<1>1. /\ Held /\ MoveToDead(Kill(copy, "unroutable", now)) /\ pc' = "idle"
      /\ UNCHANGED <<now, notBefore, notAfter, orphaned>>
  BY Zenon DEF ReportUnroutable, Held, Done
<1>2. CopyInv /\ now \in Stamp
  BY <1>1, Holding, Zenon
<1>3. "unroutable" \in Messages
  BY Zenon DEF Messages
<1>4. /\ Kill(copy, "unroutable", now) \in Job /\ Kill(copy, "unroutable", now).state = "dead"
      /\ JobStamps(Kill(copy, "unroutable", now))
      /\ JobTrail(Kill(copy, "unroutable", now), orphaned)
  BY <1>2, <1>3, KillEffect, Zenon DEF CopyInv
<1> QED
  BY <1>1, <1>4, DeadStep, Zenon

LEMMA AbandonStep ==
  ASSUME DocumentInv, Abandon
  PROVE  DocumentInv'
<1>1. /\ pc' = "idle" /\ now' = now /\ hash' = hash /\ score' = score
      /\ notBefore' = notBefore /\ notAfter' = notAfter /\ orphaned' = orphaned
  BY Zenon DEF Abandon, Done
<1> QED
  BY <1>1, Zenon DEF DocumentInv, DueWithinPolicy, Exists, Held

\* promote.lua and reclaim.lua give a job back to the pending set.
Returned(h, ms, message) ==
  [h EXCEPT !.state = "pending", !.process_at_ms = ms, !.lease_expiry_ms = 0,
            !.worker_id = NoWorker, !.last_error = message]

LEMMA ReturnedFields ==
  ASSUME NEW h \in Document, NEW ms \in Nat, NEW message \in Messages
  PROVE  LET f == Returned(h, ms, message)
         IN  /\ f \in Document /\ f.state = "pending"
             /\ f.lease_expiry_ms = 0 /\ f.worker_id = NoWorker
             /\ f.attempts = h.attempts /\ f.timeout_ms = h.timeout_ms
             /\ f.completed_at_ms = h.completed_at_ms /\ f.died_at_ms = h.died_at_ms
<1> DEFINE f == Returned(h, ms, message)
<1>1. h \in Fields /\ NoWorker \in WorkerIDs /\ "pending" \in JobState
  BY Zenon DEF Document, WorkerIDs, JobState, Graph!JobState
<1>2. f \in Fields
  BY <1>1, Zenon DEF Fields, Returned
<1>3. /\ f.state = "pending" /\ f.lease_expiry_ms = 0 /\ f.worker_id = NoWorker
      /\ f.attempts = h.attempts /\ f.timeout_ms = h.timeout_ms
      /\ f.completed_at_ms = h.completed_at_ms /\ f.died_at_ms = h.died_at_ms
      /\ f.max_retries = h.max_retries /\ f.base_delay_ms = h.base_delay_ms
      /\ f.max_delay_ms = h.max_delay_ms
  BY <1>1, Zenon DEF Fields, Returned
<1>4. f \in Document
  BY <1>2, <1>3, Zenon DEF Document
<1> QED
  BY <1>3, <1>4, Zenon

\* A sweep moves a job that nobody holds to the pending set.
LEMMA SweepStep ==
  ASSUME DocumentInv, NEW s \in {"scheduled", "retrying", "active"}, score[s] # Absent, ~Held,
         NEW message \in Messages, hash' = Returned(hash, toMillis(now), message),
         score' = [score EXCEPT ![s] = Absent, !["pending"] = toMillis(now)],
         orphaned \subseteq orphaned',
         \A i \in DOMAIN hash.attempts :
           hash.attempts[i].finished_at_ms = 0 /\ i = Len(hash.attempts) /\ s = "active"
             => i \in orphaned',
         UNCHANGED <<now, pc, copy, notBefore, notAfter>>
  PROVE  DocumentInv'
<1>1. s \in JobState /\ "pending" \in JobState /\ s # "pending"
  BY Zenon DEF JobState, Graph!JobState
<1>2. /\ hash.state = s /\ hash \in Document
      /\ StoreInv(hash, score) /\ TrailInv(hash, orphaned) /\ InSet(score, s, score[s])
  BY <1>1, Member, Zenon
<1>3. now \in Stamp /\ toMillis(now) \in Nat
  BY Millis, Zenon DEF DocumentInv, Time
<1>4. /\ hash' \in Document /\ hash'.state = "pending"
      /\ hash'.lease_expiry_ms = 0 /\ hash'.worker_id = NoWorker
      /\ hash'.attempts = hash.attempts /\ hash'.timeout_ms = hash.timeout_ms
      /\ hash'.completed_at_ms = hash.completed_at_ms /\ hash'.died_at_ms = hash.died_at_ms
  BY <1>2, <1>3, ReturnedFields, Zenon
<1>5. InSet(score', "pending", toMillis(now)) /\ score'["pending"] = toMillis(now)
  <2>1. InSet(score', "pending", toMillis(now))
    BY <1>1, <1>2, ScoreMoves, Zenon
  <2> QED
    BY <2>1, <1>1, Zenon DEF InSet
<1>6. StoreInv(hash', score')
  BY <1>2, <1>3, <1>4, <1>5, Zenon DEF StoreInv
<1>7. TrailInv(hash', orphaned')
  BY <1>2, <1>4, Zenon DEF TrailInv
<1>8. hash' # None
  BY <1>4, NotNone, Zenon
<1>9. DueWithinPolicy'
  BY <1>4, Zenon DEF DueWithinPolicy
<1> QED
  BY <1>3, <1>6, <1>7, <1>8, <1>9, Zenon DEF DocumentInv, Held

LEMMA PromoteStep ==
  ASSUME DocumentInv, NEW s \in {"scheduled", "retrying"}, Promote(s)
  PROVE  DocumentInv'
<1>1. /\ score[s] # Absent /\ hash' = PromoteFields(hash, toMillis(now))
      /\ score' = [score EXCEPT ![s] = Absent, !["pending"] = toMillis(now)]
      /\ orphaned' = orphaned /\ UNCHANGED <<now, pc, copy, notBefore, notAfter>>
  BY Zenon DEF Promote
<1>2. hash \in Document /\ hash.state = s
  <2>1. s \in JobState
    BY Zenon DEF JobState, Graph!JobState
  <2> QED
    BY <2>1, <1>1, Member, Zenon
<1>3. ~Held
  BY <1>2, Zenon DEF DocumentInv, CopyInv
<1>4. hash \in Fields /\ hash.last_error \in Messages
  BY <1>2, Zenon DEF Document, Fields
<1>5. hash' = Returned(hash, toMillis(now), hash.last_error)
  BY <1>1, <1>4, Zenon DEF PromoteFields, Returned, Fields
<1> QED
  BY <1>1, <1>3, <1>4, <1>5, SweepStep, Zenon

\* A lease does not lapse while its worker is within the timeout.
LEMMA LeaseOutlastsWorker ==
  ASSUME DocumentInv, Held
  PROVE  score["active"] > toMillis(now)
<1>1. CopyInv /\ now \in Stamp
  BY Holding, Zenon
<1>2. /\ Began \in Stamp /\ now <= Began + copy.timeout
      /\ score["active"] = toMillis(Began + LeaseFor + leaseGrace)
      /\ copy.timeout \in Nat /\ copy.timeout <= LeaseFor
  BY <1>1, Zenon DEF CopyInv, JobStamps, Job
<1>3. /\ LeaseFor \in Nat /\ leaseGrace \in Nat /\ PerMilli \in Nat /\ PerMilli <= leaseGrace
      /\ now \in Nat /\ Began \in Nat /\ PerMilli <= Began
  BY <1>1, <1>2, LifeAssumption, DocumentAssumption, Zenon DEF Stamp
<1>4. /\ Began + LeaseFor + leaseGrace \in Stamp
      /\ now + PerMilli <= Began + LeaseFor + leaseGrace
  BY <1>2, <1>3 DEF Stamp
<1>5. toMillis(now) < toMillis(Began + LeaseFor + leaseGrace)
  BY <1>1, <1>4, MillisMonotone, Zenon
<1>6. toMillis(now) \in Nat /\ toMillis(Began + LeaseFor + leaseGrace) \in Nat
  BY <1>1, <1>4, Millis, Zenon DEF Time
<1> QED
  BY <1>2, <1>5, <1>6, Zenon

LEMMA ReclaimStep ==
  ASSUME DocumentInv, Reclaim
  PROVE  DocumentInv'
<1>1. /\ score["active"] # Absent /\ score["active"] <= toMillis(now)
      /\ hash' = ReclaimFields(hash, toMillis(now))
      /\ score' = [score EXCEPT !["active"] = Absent, !["pending"] = toMillis(now)]
      /\ orphaned' = orphaned \cup (Open \cap Current(hash.attempts))
      /\ UNCHANGED <<now, pc, copy, notBefore, notAfter>>
  BY Zenon DEF Reclaim
<1>2. hash \in Document /\ score["active"] \in Nat
  <2>1. "active" \in JobState
    BY Zenon DEF JobState, Graph!JobState
  <2> QED
    BY <2>1, <1>1, Member, Zenon
<1>3. ~Held
  <2>1. toMillis(now) \in Nat
    BY Millis, Zenon DEF DocumentInv, Time
  <2> QED
    BY <2>1, <1>1, <1>2, LeaseOutlastsWorker
<1>4. hash \in Fields /\ "orphaned" \in Messages
  BY <1>2, Zenon DEF Document, Messages
<1>5. hash' = Returned(hash, toMillis(now), "orphaned")
  BY <1>1, <1>4, SMTT(30) DEF PromoteFields, ReclaimFields, Returned, Fields
<1>6. \A i \in DOMAIN hash.attempts :
        hash.attempts[i].finished_at_ms = 0 /\ i = Len(hash.attempts) => i \in orphaned'
  BY <1>1, Zenon DEF Open, Current
<1>7. orphaned \subseteq orphaned'
  BY <1>1, Zenon
<1> QED
  BY <1>1, <1>3, <1>4, <1>5, <1>6, <1>7, SweepStep, Zenon

LEMMA KillJobStep ==
  ASSUME DocumentInv, KillJob
  PROVE  DocumentInv'
<1>1. PICK job \in toAggregate(hash) :
        guard(job, "dead") /\ MoveToDead(Kill(job, "killed", now))
  BY Zenon DEF KillJob
<1>2. /\ pc' = "idle" /\ UNCHANGED <<now, notBefore, notAfter, orphaned>>
      /\ StoreInv(hash, score) /\ TrailInv(hash, orphaned) /\ now \in Stamp
  BY Zenon DEF KillJob, Exists, Held, DocumentInv
<1>3. job \in Job /\ JobStamps(job) /\ JobTrail(job, orphaned)
  BY <1>2, Loaded, Zenon
<1>4. job.state # "completed"
  BY <1>1 DEF guard, Graph!CanTransitionTo, Graph!allowedTransitions
<1>5. "killed" \in Messages
  BY Zenon DEF Messages
<1>6. /\ Kill(job, "killed", now) \in Job /\ Kill(job, "killed", now).state = "dead"
      /\ JobStamps(Kill(job, "killed", now)) /\ JobTrail(Kill(job, "killed", now), orphaned)
  BY <1>2, <1>3, <1>4, <1>5, KillEffect
<1> QED
  BY <1>1, <1>2, <1>6, DeadStep, Zenon

LEMMA RetryJobStep ==
  ASSUME DocumentInv, RetryJob
  PROVE  DocumentInv'
<1>1. PICK job \in toAggregate(hash) :
        job.state = "dead" /\ Transition("dead", "pending", toMillis(now), Requeue(job, now))
  BY Zenon DEF RetryJob
<1>2. /\ pc' = "idle" /\ UNCHANGED <<now, notBefore, notAfter, orphaned>>
      /\ StoreInv(hash, score) /\ TrailInv(hash, orphaned) /\ now \in Stamp
      /\ notBefore \in Nat /\ notAfter \in Nat
  BY Zenon DEF RetryJob, Exists, Held, DocumentInv
<1>3. job \in Job /\ JobStamps(job) /\ JobTrail(job, orphaned) /\ job.state = hash.state
  BY <1>2, Loaded, Zenon
<1> DEFINE again == Requeue(job, now)
<1>4. /\ again \in Job /\ again.state = "pending" /\ JobStamps(again) /\ JobTrail(again, orphaned)
  BY <1>1, <1>2, <1>3, RequeueEffect, Zenon
<1>5. /\ hash' = toJobFields(again)
      /\ score' = [score EXCEPT !["dead"] = Absent, !["pending"] = toMillis(now)]
  BY <1>1, Zenon DEF Transition
<1> HIDE DEF again
<1>6. InSet(score', "pending", toMillis(now)) /\ toMillis(now) \in Nat
  <2>1. InSet(score, "dead", score["dead"]) /\ "dead" \in JobState /\ "pending" \in JobState
    BY <1>1, <1>2, <1>3, Zenon DEF StoreInv, JobState, Graph!JobState
  <2>2. toMillis(now) \in Nat
    BY <1>2, Millis, Zenon DEF Time
  <2> QED
    BY <1>5, <2>1, <2>2, ScoreMoves, Zenon
<1>7. hash'.state = "pending"
  BY <1>4, <1>5, Zenon DEF toJobFields
<1>8. DueWithinPolicy'
  BY <1>7, Zenon DEF DueWithinPolicy
<1> QED
  BY <1>2, <1>4, <1>5, <1>6, <1>8, Reported, Zenon

LEMMA TickStep ==
  ASSUME DocumentInv, Tick
  PROVE  DocumentInv'
<1>1. /\ now' = now + 1 /\ hash' = hash /\ score' = score /\ pc' = pc /\ copy' = copy
      /\ notBefore' = notBefore /\ notAfter' = notAfter /\ orphaned' = orphaned
      /\ Held => now < Began + copy.timeout
  BY Zenon DEF Tick, Deadline, Began
<1>2. now \in Nat /\ now' \in Stamp
  BY <1>1, DocumentAssumption DEF DocumentInv, Stamp
<1>3. ASSUME Held
      PROVE  CopyInv'
  <2>1. CopyInv
    BY <1>3, Zenon DEF DocumentInv
  <2>2. now' <= Began + copy.timeout
    BY <1>1, <1>2, <1>3, <2>1 DEF CopyInv, Stamp, Job
  <2> QED
    BY <1>1, <2>1, <2>2, Zenon DEF CopyInv, Began
<1> QED
  BY <1>1, <1>2, <1>3, Zenon DEF DocumentInv, DueWithinPolicy, Exists, Held

LEMMA DocumentNext == DocumentInv /\ [Next]_vars => DocumentInv'
<1> SUFFICES ASSUME DocumentInv, [Next]_vars
             PROVE  DocumentInv'
  OBVIOUS
<1>1. CASE UNCHANGED vars
  BY <1>1, Zenon DEF vars, DocumentInv, CopyInv, Began, DueWithinPolicy, Exists, Held
<1>2. ASSUME NEW req \in Requests, Create(req) PROVE DocumentInv'
  BY <1>2, CreateStep, Zenon
<1>3. ASSUME NEW s \in {"scheduled", "retrying"}, Promote(s) PROVE DocumentInv'
  BY <1>3, PromoteStep, Zenon
<1> QED
  BY <1>1, <1>2, <1>3, DequeueStep, SaveStep, ReportCompleteStep, ReportFailureStep,
     ReportUnroutableStep, AbandonStep, ReclaimStep, KillJobStep, RetryJobStep, TickStep, Zenon
     DEF Next

\* The invariant holds throughout (every operation of DocumentLife).
THEOREM DocumentSafety == Spec => []DocumentInv
BY DocumentInit, DocumentNext, PTL DEF Spec

-----------------------------------------------------------------------------
(* What DocumentInv gives: the properties of DocumentLife.                 *)

\* Every document the system writes decodes, encodes to itself again, and can
\* be leased while it is pending (toJobFields, toAggregate, JobBroker.Dequeue).
THEOREM DocumentReadable == Spec => []ReadBack
<1>1. DocumentInv => ReadBack
  <2> SUFFICES ASSUME DocumentInv, hash # None
               PROVE  \E job \in toAggregate(hash) :
                        /\ toJobFields(job) = hash
                        /\ score["pending"] # Absent => guard(job, "active")
    BY Zenon DEF ReadBack, Exists
  <2>1. StoreInv(hash, score) /\ hash \in Document
    BY Zenon DEF DocumentInv, StoreInv
  <2>2. PICK job \in toAggregate(hash) : TRUE
    BY <2>1, Decode, Zenon
  <2>3. toJobFields(job) = hash /\ job.state = hash.state
    BY <2>1, Decode, Zenon
  <2>4. ASSUME score["pending"] # Absent
        PROVE  guard(job, "active")
    <3>1. "pending" \in JobState
      BY Zenon DEF JobState, Graph!JobState
    <3>2. job.state = "pending"
      BY <2>3, <2>4, <3>1, Member, Zenon
    <3> QED
      BY <3>2 DEF guard, Graph!CanTransitionTo, Graph!allowedTransitions
  <2> QED
    BY <2>3, <2>4, Zenon
<1> QED
  BY <1>1, DocumentSafety, PTL

\* Stamps and scores follow the state through every mix of writes from Go and
\* from Lua (job_model.go, dequeue.lua, promote.lua, reclaim.lua, transition.lua).
THEOREM StampsAgree == Spec => []StampsMatchState
<1>1. DocumentInv => StampsMatchState
  <2> SUFFICES ASSUME DocumentInv, hash # None
               PROVE  StampsMatchState
    BY Zenon DEF StampsMatchState, Exists
  <2>1. StoreInv(hash, score)
    BY Zenon DEF DocumentInv
  <2>2. \A s \in JobState : (score[s] # Absent) <=> (hash.state = s)
    BY <2>1 DEF StoreInv, InSet, Absent
  <2> QED
    BY <2>1, <2>2, Zenon DEF StoreInv, StampsMatchState
<1> QED
  BY <1>1, DocumentSafety, PTL

\* Retries and scheduled runs are planned within the bounds that the policy and
\* the producer set, whatever the curve and the jitter (Job.Fail, NextDelay).
THEOREM RetriesWithinPolicy == Spec => []DueWithinPolicy
<1>1. DocumentInv => DueWithinPolicy
  BY Zenon DEF DocumentInv
<1> QED
  BY <1>1, DocumentSafety, PTL

\* What the trail shows as open is under way or was orphaned
\* (closeCurrentAttempt, reclaim.lua).
THEOREM TrailExplained == Spec => []OpenAttemptsAreOrphans
<1>1. DocumentInv => OpenAttemptsAreOrphans
  BY Zenon DEF DocumentInv, TrailInv, OpenAttemptsAreOrphans, Open, Exists
<1> QED
  BY <1>1, DocumentSafety, PTL

\* Only the sweeps make a waiting or an active job pending.
LEMMA OnlySweepsReturn ==
  ASSUME DocumentInv, [Next]_vars, hash'.state = "pending",
         hash.state \in {"scheduled", "retrying", "active"}
  PROVE  \/ hash.state = "active" /\ Reclaim
         \/ hash.state \in {"scheduled", "retrying"} /\ Promote(hash.state)
<1>1. \A job : toJobFields(job).state = job.state
  BY Zenon DEF toJobFields
<1>2. {"scheduled", "pending", "retrying", "active"} \subseteq JobState
  BY Zenon DEF JobState, Graph!JobState
<1>3. CASE hash' = hash
  BY <1>3, Zenon
<1>4. ASSUME NEW req \in Requests, Create(req) PROVE FALSE
  <2>1. hash = None
    BY <1>4, Zenon DEF Create, Exists
  <2> QED
    BY <2>1, Zenon DEF None
<1>5. CASE Dequeue
  <2>1. hash.state = "pending"
    BY <1>2, <1>5, Member, Zenon DEF Dequeue
  <2> QED
    BY <2>1, Zenon
<1>6. ASSUME Held, hash' # hash, Save \/ ReportComplete \/ ReportFailure \/ ReportUnroutable
      PROVE  FALSE
  <2>1. CopyInv /\ now \in Stamp
    BY <1>6, Holding, Zenon
  <2>2. CASE Save
    BY <1>1, <2>1, <2>2, Zenon DEF Save, CopyInv
  <2>3. CASE ReportComplete
    <3>1. Complete(copy, now).state = "completed"
      BY <2>1, CompleteJob, Zenon DEF CopyInv
    <3> QED
      BY <1>1, <2>3, <3>1, Zenon DEF ReportComplete, Transition
  <2>4. CASE ReportFailure
    <3>1. \A job \in Fail(copy, "failed", now) : job.state \in {"retrying", "dead"}
      BY <2>1, FailEffect DEF CopyInv
    <3>2. \E job \in Fail(copy, "failed", now) : hash' = toJobFields(job)
      BY <2>4, Zenon DEF ReportFailure, Transition, MoveToDead
    <3> QED
      BY <1>1, <3>1, <3>2, Zenon
  <2>5. CASE ReportUnroutable
    <3>1. "unroutable" \in Messages
      BY Zenon DEF Messages
    <3>2. Kill(copy, "unroutable", now).state = "dead"
      BY <2>1, <3>1, KillEffect DEF CopyInv
    <3> QED
      BY <1>1, <2>5, <3>2, Zenon DEF ReportUnroutable, MoveToDead
  <2> QED
    BY <1>6, <2>2, <2>3, <2>4, <2>5, Zenon
<1>7. ASSUME NEW s \in {"scheduled", "retrying"}, Promote(s) PROVE s = hash.state
  BY <1>2, <1>7, Member, Zenon DEF Promote
<1>8. Reclaim => hash.state = "active"
  BY <1>2, Member, Zenon DEF Reclaim
<1>9. ASSUME KillJob PROVE FALSE
  <2>1. PICK job \in toAggregate(hash) : hash' = toJobFields(Kill(job, "killed", now))
    BY <1>9, Zenon DEF KillJob, MoveToDead
  <2>2. /\ job \in Job /\ job.state = hash.state /\ now \in Stamp
    BY <1>9, Loaded, Zenon DEF KillJob, Exists, DocumentInv
  <2>3. Kill(job, "killed", now).state = "dead"
    BY <2>2, Zenon DEF Kill, Job
  <2> QED
    BY <1>1, <2>1, <2>3, Zenon
<1>10. ASSUME RetryJob PROVE FALSE
  <2>1. PICK job \in toAggregate(hash) : job.state = "dead"
    BY <1>10, Zenon DEF RetryJob
  <2>2. job.state = hash.state
    BY <1>10, <2>1, Loaded, Zenon DEF RetryJob, Exists, DocumentInv
  <2> QED
    BY <2>1, <2>2, Zenon
<1> QED
  <2>1. Save \/ ReportComplete \/ ReportFailure \/ ReportUnroutable => Held
    BY Zenon DEF Save, ReportComplete, ReportFailure, ReportUnroutable, Held
  <2>2. Abandon \/ Tick \/ UNCHANGED vars => hash' = hash
    BY Zenon DEF Abandon, Tick, vars
  <2> QED
    BY <2>1, <2>2, <1>3, <1>4, <1>5, <1>6, <1>7, <1>8, <1>9, <1>10, Zenon DEF Next

\* A stored instant that is not after now in milliseconds is not after now.
LEMMA DueNow ==
  ASSUME NEW ms \in Nat, NEW n \in Stamp, ms <= toMillis(n)
  PROVE  fromMillis(ms) <= fromMillis(toMillis(n)) /\ fromMillis(ms) <= n
<1>1. PerMilli \in Nat /\ PerMilli > 0 /\ n \in Nat
  BY DocumentAssumption DEF Stamp
<1>2. toMillis(n) \in Nat /\ toMillis(n) # 0 /\ fromMillis(toMillis(n)) <= n
  BY <1>1, Millis DEF Time, Unset
<1>3. fromMillis(toMillis(n)) = toMillis(n) * PerMilli
  BY <1>2, Zenon DEF fromMillis
<1>4. \A a, b \in Nat : a <= b => a * PerMilli <= b * PerMilli /\ a * PerMilli \in Nat
  BY <1>1
<1>5. toMillis(n) * PerMilli \in Nat
  BY <1>2, <1>4
<1>6. fromMillis(ms) \in Int /\ fromMillis(ms) <= toMillis(n) * PerMilli
  BY <1>2, <1>4, <1>5 DEF fromMillis, Unset
<1> QED
  BY <1>1, <1>2, <1>3, <1>5, <1>6

\* No job becomes pending a millisecond or more before it may run, whatever the
\* policy, the jitter and the delay (promote.lua, toMillis, Job.Fail).
THEOREM NothingEarly == Spec => NeverEarly
<1>1. ASSUME DocumentInv, [Next]_vars, hash.state \in {"scheduled", "retrying"},
             hash'.state = "pending"
      PROVE  now > notBefore - PerMilli
  <2>1. Promote(hash.state)
    BY <1>1, OnlySweepsReturn, Zenon
  <2>2. {"scheduled", "retrying"} \subseteq JobState
    BY Zenon DEF JobState, Graph!JobState
  <2>3. /\ score[hash.state] # Absent /\ score[hash.state] <= toMillis(now)
    BY <2>1, Zenon DEF Promote
  <2>4. hash # None /\ StoreInv(hash, score) /\ hash \in Document
    BY <1>1, <2>2, <2>3, Member, Zenon
  <2>5. hash.process_at_ms <= toMillis(now) /\ hash.process_at_ms \in Nat
    BY <1>1, <2>3, <2>4, Zenon DEF StoreInv, Document, Fields
  <2>6. /\ now \in Stamp /\ now \in Nat /\ notBefore \in Nat /\ PerMilli \in Nat
        /\ fromMillis(hash.process_at_ms) > notBefore - PerMilli
    BY <1>1, <2>4, DocumentAssumption, Zenon DEF DocumentInv, DueWithinPolicy, Exists, Stamp
  <2>7. fromMillis(hash.process_at_ms) <= now /\ fromMillis(hash.process_at_ms) \in Int
    <3>1. fromMillis(hash.process_at_ms) \in Time
      BY <2>5, Millis, Zenon
    <3> QED
      BY <2>5, <2>6, <3>1, DueNow DEF Time, Stamp, Unset
  <2> QED
    BY <2>6, <2>7
<1>2. DocumentInv /\ [Next]_vars =>
        [hash.state \in {"scheduled", "retrying"} /\ hash'.state = "pending"
           => now > notBefore - PerMilli]_vars
  BY <1>1, Zenon
<1> QED
  BY <1>2, DocumentSafety, PTL DEF Spec, NeverEarly

\* Documents with the same fields are the same.
LEMMA SameFields ==
  ASSUME NEW f \in Fields, NEW g \in Fields,
         f.state = g.state, f.max_retries = g.max_retries,
         f.base_delay_ms = g.base_delay_ms, f.max_delay_ms = g.max_delay_ms,
         f.backoff = g.backoff, f.timeout_ms = g.timeout_ms,
         f.attempts_made = g.attempts_made, f.attempts = g.attempts,
         f.last_error = g.last_error, f.created_at_ms = g.created_at_ms,
         f.process_at_ms = g.process_at_ms, f.completed_at_ms = g.completed_at_ms,
         f.died_at_ms = g.died_at_ms, f.lease_expiry_ms = g.lease_expiry_ms,
         f.worker_id = g.worker_id
  PROVE  f = g
BY SMTT(30) DEF Fields

\* p is job returned to the pending set, up to its worker, its trail and its error.
Returns(job, p, n) ==
  /\ p.state = "pending" /\ p.processAt = n /\ p.leaseExpiry = Unset
  /\ p.policy = job.policy /\ p.timeout = job.timeout /\ p.attemptsMade = job.attemptsMade
  /\ p.createdAt = job.createdAt /\ p.completedAt = job.completedAt /\ p.diedAt = job.diedAt

\* Such a job is stored as the document of job with the fields the scripts write.
LEMMA ReturnedAgrees ==
  ASSUME NEW job \in Job, NEW p \in Job, NEW n, Returns(job, p, n)
  PROVE  Returned(toJobFields(job), toMillis(n), p.lastError) =
           [toJobFields(p) EXCEPT !.worker_id = NoWorker, !.attempts = toJobFields(job).attempts]
<1> DEFINE h == toJobFields(job)
           f == Returned(h, toMillis(n), p.lastError)
           g == [toJobFields(p) EXCEPT !.worker_id = NoWorker, !.attempts = h.attempts]
<1>1. h \in Fields /\ toJobFields(p) \in Fields
  BY Encode, Zenon DEF Document
<1>2. toMillis(Unset) = 0
  BY Zenon DEF toMillis
<1>3. /\ toJobFields(p).state = "pending" /\ toJobFields(p).process_at_ms = toMillis(n)
      /\ toJobFields(p).lease_expiry_ms = 0 /\ toJobFields(p).last_error = p.lastError
      /\ toJobFields(p).max_retries = h.max_retries
      /\ toJobFields(p).base_delay_ms = h.base_delay_ms
      /\ toJobFields(p).max_delay_ms = h.max_delay_ms
      /\ toJobFields(p).backoff = h.backoff /\ toJobFields(p).timeout_ms = h.timeout_ms
      /\ toJobFields(p).attempts_made = h.attempts_made
      /\ toJobFields(p).created_at_ms = h.created_at_ms
      /\ toJobFields(p).completed_at_ms = h.completed_at_ms
      /\ toJobFields(p).died_at_ms = h.died_at_ms
  BY <1>2, Zenon DEF toJobFields, Returns
<1> HIDE DEF h
<1>4. NoWorker \in WorkerIDs /\ h.attempts \in Seq(AttemptDoc) /\ "pending" \in JobState
  BY <1>1, Zenon DEF WorkerIDs, Fields, JobState, Graph!JobState
<1>5. toMillis(n) \in Nat /\ p.lastError \in Messages
  BY <1>1, <1>3, Zenon DEF Fields
<1>6. g \in Fields
  BY <1>1, <1>4, Zenon DEF Fields
<1>7. /\ g.state = "pending" /\ g.process_at_ms = toMillis(n) /\ g.lease_expiry_ms = 0
      /\ g.last_error = p.lastError /\ g.worker_id = NoWorker /\ g.attempts = h.attempts
      /\ g.max_retries = h.max_retries /\ g.base_delay_ms = h.base_delay_ms
      /\ g.max_delay_ms = h.max_delay_ms /\ g.backoff = h.backoff
      /\ g.timeout_ms = h.timeout_ms /\ g.attempts_made = h.attempts_made
      /\ g.created_at_ms = h.created_at_ms /\ g.completed_at_ms = h.completed_at_ms
      /\ g.died_at_ms = h.died_at_ms
  BY <1>1, <1>3, Zenon DEF Fields
<1>8. /\ f \in Fields
      /\ f.state = "pending" /\ f.process_at_ms = toMillis(n) /\ f.lease_expiry_ms = 0
      /\ f.last_error = p.lastError /\ f.worker_id = NoWorker /\ f.attempts = h.attempts
      /\ f.max_retries = h.max_retries /\ f.base_delay_ms = h.base_delay_ms
      /\ f.max_delay_ms = h.max_delay_ms /\ f.backoff = h.backoff
      /\ f.timeout_ms = h.timeout_ms /\ f.attempts_made = h.attempts_made
      /\ f.created_at_ms = h.created_at_ms /\ f.completed_at_ms = h.completed_at_ms
      /\ f.died_at_ms = h.died_at_ms
  BY <1>1, <1>4, <1>5, Zenon DEF Fields, Returned
<1> HIDE DEF f, g
<1>9. f = g
  BY <1>6, <1>7, <1>8, SameFields
<1> QED
  BY <1>9, Zenon DEF f, g, h

\* promote.lua on a document is Promote on its job, but for the worker.
LEMMA PromoteAgrees ==
  ASSUME NEW h \in Document, NEW job \in toAggregate(h), NEW n \in Stamp
  PROVE  PromoteFields(h, toMillis(n)) =
           [toJobFields(PromoteJob(job, n)) EXCEPT !.worker_id = NoWorker]
<1>1. job \in Job /\ toJobFields(job) = h
  BY Decode, Zenon
<1> DEFINE p == PromoteJob(job, n)
           g == [toJobFields(p) EXCEPT !.worker_id = NoWorker]
<1>2. /\ p.state = "pending" /\ p.processAt = n /\ p.leaseExpiry = Unset
      /\ p.policy = job.policy /\ p.timeout = job.timeout
      /\ p.attemptsMade = job.attemptsMade /\ p.attempts = job.attempts
      /\ p.lastError = job.lastError /\ p.createdAt = job.createdAt
      /\ p.completedAt = job.completedAt /\ p.diedAt = job.diedAt
  BY <1>1, Zenon DEF PromoteJob, Job
<1>3. p \in Job
  BY <1>1, Zenon DEF PromoteJob, Job, Time, JobState, Graph!JobState
<1> HIDE DEF p
<1>4. toJobFields(p).attempts = toJobFields(job).attempts
  BY <1>2, Zenon DEF toJobFields
<1>5. g = [toJobFields(p) EXCEPT !.worker_id = NoWorker, !.attempts = toJobFields(job).attempts]
  <2>1. toJobFields(p) \in Fields
    BY <1>3, Encode, Zenon DEF Document
  <2> QED
    BY <1>4, <2>1, Zenon DEF Fields
<1> HIDE DEF g
<1>6. Returned(h, toMillis(n), p.lastError) = g
  <2>1. Returns(job, p, n)
    BY <1>2, Zenon DEF Returns
  <2> QED
    BY <1>1, <1>3, <1>5, <2>1, ReturnedAgrees, Zenon
<1>7. h.last_error = p.lastError
  BY <1>1, <1>2, Zenon DEF toJobFields
<1>8. PromoteFields(h, toMillis(n)) = Returned(h, toMillis(n), h.last_error)
  <2>1. h \in Fields
    BY Zenon DEF Document
  <2> QED
    BY <2>1, Zenon DEF PromoteFields, Returned, Fields
<1> QED
  BY <1>6, <1>7, <1>8, Zenon DEF g, p

\* reclaim.lua on a document is ReclaimExpiredLease on its job, but for the trail.
LEMMA ReclaimAgrees ==
  ASSUME NEW h \in Document, NEW job \in toAggregate(h), NEW n \in Stamp
  PROVE  ReclaimFields(h, toMillis(n)) =
           [toJobFields(ReclaimExpiredLease(job, n)) EXCEPT !.attempts = h.attempts]
<1>1. job \in Job /\ toJobFields(job) = h /\ job.attempts \in Seq(Attempt)
  BY Decode, Zenon DEF Job
<1> DEFINE p == ReclaimExpiredLease(job, n)
           g == [toJobFields(p) EXCEPT !.attempts = h.attempts]
<1>2. /\ p.state = "pending" /\ p.processAt = n /\ p.leaseExpiry = Unset
      /\ p.policy = job.policy /\ p.timeout = job.timeout
      /\ p.attemptsMade = job.attemptsMade /\ p.workerID = NoWorker
      /\ p.lastError = "orphaned" /\ p.createdAt = job.createdAt
      /\ p.completedAt = job.completedAt /\ p.diedAt = job.diedAt
  BY <1>1, Zenon DEF ReclaimExpiredLease, Job
<1>3. p \in Job
  <2>1. "orphaned" \in Messages
    BY Zenon DEF Messages
  <2>2. closeCurrentAttempt(job.attempts, n, "orphaned") \in Seq(Attempt)
    BY <1>1, <2>1, CloseAttempt, Zenon
  <2> QED
    BY <1>1, <2>1, <2>2, Zenon
    DEF ReclaimExpiredLease, Job, Time, JobState, Graph!JobState, WorkerIDs
<1> HIDE DEF p
<1>4. g = [toJobFields(p) EXCEPT !.worker_id = NoWorker, !.attempts = toJobFields(job).attempts]
  <2>1. toJobFields(p) \in Fields
    BY <1>3, Encode, Zenon DEF Document
  <2>2. toJobFields(p).worker_id = NoWorker
    BY <1>2, Zenon DEF toJobFields
  <2> QED
    BY <1>1, <2>1, <2>2, Zenon DEF Fields
<1> HIDE DEF g
<1>5. Returned(h, toMillis(n), p.lastError) = g
  <2>1. Returns(job, p, n)
    BY <1>2, Zenon DEF Returns
  <2> QED
    BY <1>1, <1>3, <1>4, <2>1, ReturnedAgrees, Zenon
<1>6. ReclaimFields(h, toMillis(n)) = Returned(h, toMillis(n), "orphaned")
  <2>1. h \in Fields
    BY Zenon DEF Document
  <2> QED
    BY <2>1, SMTT(30) DEF ReclaimFields, PromoteFields, Returned, Fields
<1> QED
  BY <1>2, <1>5, <1>6, Zenon DEF g, p

\* promote.lua and reclaim.lua do what Job.Promote and Job.ReclaimExpiredLease
\* would, when these would allow it: promote.lua up to the worker it forgets,
\* reclaim.lua in every field but the trail of attempts.
THEOREM ScriptsAgree == Spec => ScriptsMatchAggregate
<1>1. ASSUME DocumentInv, [Next]_vars, hash.state \in {"scheduled", "retrying"},
             hash'.state = "pending"
      PROVE  \E job \in toAggregate(hash) :
               /\ IsDue(job, fromMillis(toMillis(now)))
               /\ hash' = [toJobFields(PromoteJob(job, now)) EXCEPT !.worker_id = NoWorker]
  <2>1. Promote(hash.state)
    BY <1>1, OnlySweepsReturn, Zenon
  <2>2. /\ score[hash.state] # Absent /\ score[hash.state] <= toMillis(now)
        /\ hash' = PromoteFields(hash, toMillis(now))
    BY <2>1, Zenon DEF Promote
  <2>3. hash.state \in JobState
    BY <1>1, Zenon DEF JobState, Graph!JobState
  <2>4. StoreInv(hash, score) /\ hash \in Document
    BY <1>1, <2>2, <2>3, Member, Zenon
  <2>5. hash.process_at_ms <= toMillis(now) /\ hash.process_at_ms \in Nat /\ now \in Stamp
    BY <1>1, <2>2, <2>4, Zenon DEF StoreInv, Document, Fields, DocumentInv
  <2>6. PICK job \in toAggregate(hash) : job.processAt = fromMillis(hash.process_at_ms)
    BY <2>4, Decode, Zenon
  <2>7. IsDue(job, fromMillis(toMillis(now)))
    BY <2>5, <2>6, DueNow, Zenon DEF IsDue
  <2> QED
    BY <2>2, <2>4, <2>5, <2>7, PromoteAgrees, Zenon
<1>2. ASSUME DocumentInv, [Next]_vars, hash.state = "active", hash'.state = "pending"
      PROVE  \E job \in toAggregate(hash) :
               /\ IsLeaseExpired(job, now + PerMilli)
               /\ hash' = [toJobFields(ReclaimExpiredLease(job, now)) EXCEPT
                             !.attempts = hash'.attempts]
  <2>1. Reclaim
    BY <1>2, OnlySweepsReturn, Zenon
  <2>2. /\ score["active"] # Absent /\ score["active"] <= toMillis(now)
        /\ hash' = ReclaimFields(hash, toMillis(now))
    BY <2>1, Zenon DEF Reclaim
  <2>3. "active" \in JobState
    BY Zenon DEF JobState, Graph!JobState
  <2>4. StoreInv(hash, score) /\ hash \in Document /\ score["active"] \in Nat
    BY <1>2, <2>2, <2>3, Member, Zenon
  <2>5. /\ hash.lease_expiry_ms <= toMillis(now) /\ hash.lease_expiry_ms \in Nat
        /\ hash.lease_expiry_ms # 0
        /\ now \in Stamp /\ now \in Nat /\ PerMilli \in Nat /\ PerMilli > 0
    <3>1. /\ hash.lease_expiry_ms \in Nat /\ hash.lease_expiry_ms <= score["active"]
          /\ hash.lease_expiry_ms # 0
      BY <1>2, <2>4, Zenon DEF StoreInv, Document, Fields
    <3>2. now \in Stamp /\ now \in Nat /\ PerMilli \in Nat /\ PerMilli > 0
      BY <1>2, DocumentAssumption DEF DocumentInv, Stamp
    <3>3. toMillis(now) \in Nat
      BY <3>2, Millis, Zenon DEF Time
    <3> QED
      BY <2>2, <2>4, <3>1, <3>2, <3>3
  <2>6. PICK job \in toAggregate(hash) :
          job.leaseExpiry = fromMillis(hash.lease_expiry_ms) /\ job.state = hash.state
    BY <2>4, Decode, Zenon
  <2>7. IsLeaseExpired(job, now + PerMilli)
    <3>1. job.leaseExpiry \in Time /\ job.leaseExpiry # Unset
      BY <2>5, <2>6, Millis, Zenon
    <3>2. job.leaseExpiry <= now
      BY <2>5, <2>6, DueNow, Zenon
    <3> QED
      BY <1>2, <2>5, <2>6, <3>1, <3>2 DEF IsLeaseExpired, Time, Stamp
  <2>8. hash'.attempts = hash.attempts
    BY <2>2, <2>4, SMT DEF ReclaimFields, PromoteFields, Document, Fields
  <2>9. hash' = [toJobFields(ReclaimExpiredLease(job, now)) EXCEPT !.attempts = hash.attempts]
    BY <2>2, <2>4, <2>5, ReclaimAgrees, Zenon
  <2>10. hash' = [toJobFields(ReclaimExpiredLease(job, now)) EXCEPT !.attempts = hash'.attempts]
    BY <2>8, <2>9, SMT
  <2> QED
    BY <2>7, <2>10, Zenon
<1>3. DocumentInv /\ [Next]_vars =>
        [/\ hash.state \in {"scheduled", "retrying"} /\ hash'.state = "pending" =>
              \E job \in toAggregate(hash) :
                /\ IsDue(job, fromMillis(toMillis(now)))
                /\ hash' = [toJobFields(PromoteJob(job, now)) EXCEPT !.worker_id = NoWorker]
         /\ hash.state = "active" /\ hash'.state = "pending" =>
              \E job \in toAggregate(hash) :
                /\ IsLeaseExpired(job, now + PerMilli)
                /\ hash' = [toJobFields(ReclaimExpiredLease(job, now)) EXCEPT
                              !.attempts = hash'.attempts]]_vars
  BY <1>1, <1>2, Zenon
<1> QED
  BY <1>3, DocumentSafety, PTL DEF Spec, ScriptsMatchAggregate

=============================================================================
