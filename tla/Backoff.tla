------------------------------ MODULE Backoff ------------------------------
(***************************************************************************)
(* p2p.Backoff.  Delays are integers; a delay with jitter is counted in    *)
(* tenths, as jitter is a factor between 0.8 and 1.2.                      *)
(***************************************************************************)
EXTENDS Naturals

CONSTANTS InitialInterval, MaxInterval, Multiplier, Jitter,
          RetryLimits,  \* values of MaxRetries; 0 means unlimited
          AttemptsCap   \* bound: the counter of attempts stops there

ASSUME BackoffAssumption ==
    /\ InitialInterval \in Nat \ {0} /\ MaxInterval \in Nat \ {0}
    /\ Multiplier \in Nat \ {0, 1}   \* NewBackoff replaces a factor of 1 or less
    /\ RetryLimits \subseteq Nat /\ Jitter \in BOOLEAN
    /\ AttemptsCap \in Nat /\ \A n \in RetryLimits : AttemptsCap > n

\* The powers of the factor, as far as the counter goes: what x ^ n means.
ASSUME PowerAssumption ==
    /\ Multiplier ^ 0 = 1
    /\ \A n \in 0..AttemptsCap : Multiplier ^ (n + 1) = Multiplier * Multiplier ^ n

VARIABLES maxRetries,  \* cfg.MaxRetries
          currentDelay, attempts,
          slept   \* the delay of the last Sleep, in tenths; 0 before it

backoffVars == <<maxRetries, currentDelay, attempts, slept>>

\* NewBackoff: the maximum is at least the initial interval.
MaxDelay == IF MaxInterval < InitialInterval THEN InitialInterval ELSE MaxInterval

BackoffInit ==
    /\ maxRetries \in RetryLimits
    /\ currentDelay = InitialInterval /\ attempts = 0 /\ slept = 0

BackoffTypeOK ==
    /\ maxRetries \in RetryLimits
    /\ currentDelay \in InitialInterval..MaxDelay
    /\ attempts \in 0..AttemptsCap
    /\ slept \in 0..12 * MaxDelay

ResetKeepsDelay ==
    /\ attempts' = 0
    /\ UNCHANGED <<maxRetries, currentDelay, slept>>
Reset ==
    /\ currentDelay' = InitialInterval
    /\ attempts' = 0
    /\ UNCHANGED <<maxRetries, slept>>

HasNextLimited == attempts < maxRetries
HasNext == maxRetries = 0 \/ attempts < maxRetries

\* The delay to sleep now, and the one of the next attempt.
NextDelay ==
    /\ attempts' = IF attempts < AttemptsCap THEN attempts + 1 ELSE attempts
    /\ currentDelay' = IF currentDelay * Multiplier > MaxDelay THEN MaxDelay
                       ELSE currentDelay * Multiplier
    /\ slept' \in IF Jitter THEN 8 * currentDelay .. 12 * currentDelay
                            ELSE {10 * currentDelay}
    /\ UNCHANGED maxRetries

\* Reference definition of the delay before the retry after `attempts` others:
\* exponential up to the maximum, and back to the start after Reset.
DelayIsExponential ==
    LET power == InitialInterval * Multiplier ^ attempts IN
    attempts < AttemptsCap => currentDelay = IF power > MaxDelay THEN MaxDelay ELSE power
=============================================================================
