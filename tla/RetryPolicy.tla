----------------------------- MODULE RetryPolicy -----------------------------
(***************************************************************************)
(* The retry policy of a job (retry_policy.go) and the three waiting       *)
(* curves it chooses from (backoff.go), as pure operators.  A constructor  *)
(* that can fail is the set of what it may return: empty when it refuses.  *)
(* A jittered delay is the set of delays the generator may pick.           *)
(*                                                                         *)
(* Durations are whole ticks.  Strategy names arrive trimmed and in lower  *)
(* case: requests are bound to the three exact spellings or none, and      *)
(* documents hold what Name returned.                                      *)
(***************************************************************************)
EXTENDS Integers

CONSTANTS
  DefaultMaxRetries,    \* retries of a request that names no number
  DefaultBaseDelay,     \* floor of a delay when none is given
  DefaultMaxDelay,      \* ceiling of a delay when none is given
  MaxAllowedRetries,    \* more retries are refused
  MaxAllowedBaseDelay   \* a higher floor is refused

ASSUME PolicyAssumption ==
  /\ {DefaultMaxRetries, DefaultBaseDelay, DefaultMaxDelay,
      MaxAllowedRetries, MaxAllowedBaseDelay} \subseteq Nat
  /\ DefaultMaxRetries <= MaxAllowedRetries
  /\ 0 < DefaultBaseDelay /\ DefaultBaseDelay <= DefaultMaxDelay
  /\ DefaultBaseDelay <= MaxAllowedBaseDelay

Strategies == {"exponential", "linear", "constant"}

Policy ==
  [maxRetries : Nat, baseDelay : Nat, maxDelay : Nat, strategy : Strategies]

-----------------------------------------------------------------------------

NewBackoffStrategy(name) ==
  IF name = "" THEN {"exponential"} ELSE {name} \cap Strategies

\* Zero means the default, for the floor and for the ceiling.
NewRetryPolicy(maxRetries, baseDelay, maxDelay, name) ==
  LET base == IF baseDelay = 0 THEN DefaultBaseDelay ELSE baseDelay
      max  == IF maxDelay = 0 THEN DefaultMaxDelay ELSE maxDelay
  IN  {[maxRetries |-> maxRetries, baseDelay |-> base, maxDelay |-> max, strategy |-> s] :
         s \in {t \in NewBackoffStrategy(name) :
                  /\ maxRetries <= MaxAllowedRetries
                  /\ baseDelay \in 0..MaxAllowedBaseDelay
                  /\ max >= base}}

AllowsRetry(policy, attemptsMade) == attemptsMade <= policy.maxRetries

-----------------------------------------------------------------------------

clampDelay(d, maxDelay) ==
  IF d < 0 THEN 0 ELSE IF maxDelay > 0 /\ d > maxDelay THEN maxDelay ELSE d

\* Delay counts attempts from one.
Nth(attempt) == IF attempt = 0 THEN 1 ELSE attempt

\* The exponent is capped so that the product stays in range.
ExponentialScale(attempt, base, maxDelay) ==
  LET exponent == IF Nth(attempt) - 1 > 32 THEN 32 ELSE Nth(attempt) - 1
      scaled   == base * 2^exponent
  IN  IF scaled > maxDelay THEN maxDelay ELSE scaled

\* Mutant of ExponentialDelay: the jitter starts at zero.
ExponentialDelayFromZero(attempt, base, maxDelay) ==
  {clampDelay(d, maxDelay) : d \in 0..ExponentialScale(attempt, base, maxDelay)}

\* ExponentialBackoff.Delay: anything between the floor and the doubled delay.
ExponentialDelay(attempt, base, maxDelay) ==
  LET scaled == ExponentialScale(attempt, base, maxDelay)
  IN  IF scaled <= base THEN {clampDelay(base, maxDelay)}
      ELSE {clampDelay(d, maxDelay) : d \in base..scaled}

LinearDelay(attempt, base, maxDelay) == {clampDelay(Nth(attempt) * base, maxDelay)}

ConstantDelay(base, maxDelay) == {clampDelay(base, maxDelay)}

\* RetryPolicy.NextDelay: the waits the policy may choose after an attempt.
NextDelay(policy, attempt) ==
  CASE policy.strategy = "exponential" ->
         ExponentialDelay(attempt, policy.baseDelay, policy.maxDelay)
    [] policy.strategy = "linear" ->
         LinearDelay(attempt, policy.baseDelay, policy.maxDelay)
    [] policy.strategy = "constant" ->
         ConstantDelay(policy.baseDelay, policy.maxDelay)

=============================================================================
