------------------------------- MODULE Queues -------------------------------
(***************************************************************************)
(* Sequences used as the in-memory FIFO queues of the Master's task store  *)
(* (master/internal/tasks/task_store.go): deleting entries wherever they   *)
(* are, and popping entries from the front until enough were usable.  The  *)
(* recursion is that of a function, so that TaskStoreProofs can prove      *)
(* facts about it.                                                         *)
(***************************************************************************)
EXTENDS Naturals, Sequences, FiniteSets, Functions

(***************************************************************************)
(* q without its entries in X, in the same order: the `out := q[:0]` loop  *)
(* of removeWorkLocked and removeCancelLocked.                             *)
(***************************************************************************)
Without(q, X) ==
  LET kept[i \in 0 .. Len(q)] ==
        IF i = 0 THEN << >>
        ELSE IF q[i] \in X THEN kept[i - 1] ELSE Append(kept[i - 1], q[i])
  IN  kept[Len(q)]

(***************************************************************************)
(* The positions among the first k of q at which a pop loop keeps the      *)
(* entry: it is usable, and was not already kept at an earlier position.   *)
(***************************************************************************)
Kept(q, usable, k) ==
  {i \in 1 .. k : q[i] \in usable /\ \A j \in 1 .. (i - 1) : q[j] # q[i]}

(***************************************************************************)
(* How many entries `for len(jobs) < n && len(q) > 0` pops off q: it stops *)
(* once n entries were kept, or at the end of the queue.                   *)
(***************************************************************************)
PopCount(q, usable, n) ==
  LET stops == {k \in 0 .. Len(q) :
                  k = Len(q) \/ Cardinality(Kept(q, usable, k)) >= n}
  IN  CHOOSE k \in stops : \A m \in stops : k <= m

\* The orders in which a loop over a map can visit the keys in X.
Orders(X) == Bijection(1 .. Cardinality(X), X)
=============================================================================
