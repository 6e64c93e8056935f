---------------------------- MODULE MCClaimWait -----------------------------
(* ClaimWait with two calls of one Worker. *)
EXTENDS ClaimWait, TLC

CONSTANTS w1

MCTarget == [t \in Task |-> w1]
=============================================================================
