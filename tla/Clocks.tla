------------------------------- MODULE Clocks -------------------------------
(***************************************************************************)
(* The clocks of the worker's replicas, as TokenBucket and RateLimiter use *)
(* them.  Time is counted in ticks of the fastest replica's clock.  A      *)
(* reading of Date.now() is used by a command that Redis executes at most  *)
(* MaxDelay ticks later; the skew of a slower replica is part of MaxDelay. *)
(***************************************************************************)
EXTENDS Integers

CONSTANTS
    MaxDelay,    \* age of a clock reading when Redis executes its command
    Horizon      \* bound on the clock

ASSUME ClockAssumption == MaxDelay \in Nat /\ Horizon \in Nat

VARIABLE now     \* the clock

\* A clock reading that a command executed now may carry.
Readings == {at \in 0 .. now : now <= at + MaxDelay}

Advance ==
    /\ now < Horizon
    /\ now' = now + 1
=============================================================================
