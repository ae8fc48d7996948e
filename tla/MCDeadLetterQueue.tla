-------------------------- MODULE MCDeadLetterQueue --------------------------
(***************************************************************************)
(* Small instances of DeadLetterQueue: n1 is an email, n2 a realtime       *)
(* notification, n3 an SMS whose recipient is a number; two or three       *)
(* messages, so that an operator can retry and a producer can resend.      *)
(***************************************************************************)
EXTENDS DeadLetterQueue, TLC

CONSTANTS n1, n2, n3, d1, d2, d3, o1, o2

Renamings == Permutations(Dispatches) \cup Permutations(Operators)
==============================================================================
