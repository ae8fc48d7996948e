--------------------------- MODULE DeliveryOutcome ---------------------------
(***************************************************************************)
(* What becomes of a message handed to the topic notification.dispatch:    *)
(* the provider accepts it once, or it is moved to the dead letters, or,   *)
(* where the environment is Lossy, it disappears.  Each of the three is    *)
(* final: nothing delivered is buried later, nothing buried or lost is     *)
(* delivered behind the operator's back.                                   *)
(*                                                                         *)
(* GatewayDelivery and DeadLetterQueue implement it.                       *)
(***************************************************************************)
CONSTANTS
    Dispatches,  \* messages put on the topic
    Lossy        \* BOOLEAN: whether a message may disappear

VARIABLE outcome

Init == outcome = [d \in Dispatches |-> "unused"]

Accept(d) ==
    /\ outcome[d] = "unused"
    /\ outcome' = [outcome EXCEPT ![d] = "pending"]

Deliver(d) ==
    /\ outcome[d] = "pending"
    /\ outcome' = [outcome EXCEPT ![d] = "delivered"]

Bury(d) ==
    /\ outcome[d] = "pending"
    /\ outcome' = [outcome EXCEPT ![d] = "buried"]

\* A shutdown takes several messages at once.
Lose ==
    /\ Lossy
    /\ \E gone \in SUBSET {d \in Dispatches : outcome[d] = "pending"} :
          outcome' = [d \in Dispatches |->
                         IF d \in gone THEN "lost" ELSE outcome[d]]

Next == Lose \/ \E d \in Dispatches : Accept(d) \/ Deliver(d) \/ Bury(d)

Spec == Init /\ [][Next]_outcome
=============================================================================
