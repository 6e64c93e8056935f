--------------------------- MODULE MCTaskDelivery ---------------------------
(* TaskDelivery with one plugin call and its Worker. *)
EXTENDS TaskDelivery, TLC

CONSTANTS w1

MCTarget == [t \in Task |-> w1]
=============================================================================
