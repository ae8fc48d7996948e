------------------------- MODULE MCNotificationRouter -------------------------
(***************************************************************************)
(* Small instances of NotificationRouter: event e2 is a guest's whose      *)
(* userId is empty, so that PUSH is skipped and the row of an EMAIL is     *)
(* refused; the eventType of event e3 is a number; EMAIL has two versions, *)
(* so that one can replace the other, and the first cannot be rendered.    *)
(***************************************************************************)
EXTENDS NotificationRouter

CONSTANTS t1, t2, e1, e2, e3

OneTenant == [e \in Events |-> t1]
TwoTenants == [e \in Events |-> IF e = e1 THEN t1 ELSE t2]
TwoEmails == [c \in Channels |-> IF c = "EMAIL" THEN 2 ELSE 1]
OneOfEach == [c \in Channels |-> 1]
FirstEmail == {<<t1, [channel |-> "EMAIL", version |-> 1]>>}
===============================================================================
