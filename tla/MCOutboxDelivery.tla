-------------------------- MODULE MCOutboxDelivery --------------------------
(* Small instances of OutboxDelivery for TLC. *)
EXTENDS OutboxDelivery, TLC

CONSTANTS e1, e2, w1, w2

OneNotification  == [e \in Events |-> "notification"]
ActionAndDisplay == [e \in Events |-> IF e = e1 THEN "action" ELSE "display"]

TwoAttempts == [e \in Events |-> 2]
\* Actions have a limit of their own.
MoreForActions == [e \in Events |-> IF KindOf[e] = "action" THEN 2 ELSE 1]

WorkerSymmetry == Permutations(Deliverers)
=============================================================================
