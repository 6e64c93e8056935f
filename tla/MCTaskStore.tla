---------------------------- MODULE MCTaskStore -----------------------------
(* TaskStore with two tasks of one Worker, and a second Worker that has no *)
(* task of its own but may report on the first one's.                      *)
EXTENDS TaskStore, TLC

CONSTANTS t1, t2, w1, w2

MCTarget == (t1 :> w1) @@ (t2 :> w1)
=============================================================================
