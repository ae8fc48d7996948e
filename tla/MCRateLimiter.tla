---------------------------- MODULE MCRateLimiter ----------------------------
(***************************************************************************)
(* A small instance of RateLimiter: minutes of two ticks, days of four;    *)
(* the minute's counter outlives its minute, the day's does not.           *)
(***************************************************************************)
EXTENDS RateLimiter, TLC

CONSTANTS r1, r2, r3

MCLength == [w \in Windows |-> IF w = "minute" THEN 2 ELSE 4]
MCLimit == [w \in Windows |-> IF w = "minute" THEN 1 ELSE 2]
MCCounterTTL == [w \in Windows |-> 4]
MCPeriods == 0 .. (Horizon \div 2)

RequestSymmetry == Permutations(Requests)

==============================================================================
