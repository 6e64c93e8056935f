--------------------------- MODULE TaskLifecycle ----------------------------
(***************************************************************************)
(* What the task store promises its callers, whatever its queues, leases   *)
(* and maps: a task is offered to a Worker under a delivery number that    *)
(* was never used before; it runs under the delivery that was on offer     *)
(* when the Worker confirmed it; only that delivery can end the run with a *)
(* result; a run or an offer can be taken back, after which the task is    *)
(* pending again or canceled; and a task that has ended stays as it is.    *)
(* protocol/plugin-protocol.md section 9 lists the same transitions.       *)
(*                                                                         *)
(* One call of the store may move many tasks (a claim takes back expired   *)
(* offers and makes new ones), so a step moves every task or leaves it.    *)
(***************************************************************************)
EXTENDS Naturals

CONSTANT Task

VARIABLES
  state,   \* the status of each task
  offer,   \* the delivery each task is on offer under, 0 if none
  owner,   \* the delivery each task runs or ended under, 0 if none
  last     \* no delivery above this number was ever on offer

lifecycle == << state, offer, owner, last >>

Ended == {"completed", "failed", "timeout", "canceled"}

Init ==
  /\ state = [t \in Task |-> "absent"]
  /\ offer = [t \in Task |-> 0]
  /\ owner = [t \in Task |-> 0]
  /\ last = 0

Stay(t) ==
  state'[t] = state[t] /\ offer'[t] = offer[t] /\ owner'[t] = owner[t]

Submit(t) ==
  /\ state[t] = "absent" /\ state'[t] = "pending"
  /\ offer'[t] = 0 /\ owner'[t] = 0

\* A new offer, in place of one that ran out if there was one.
Offer(t) ==
  /\ state[t] = "pending" /\ state'[t] = "pending"
  /\ offer'[t] \in (last + 1) .. last'
  /\ \A u \in Task \ {t} : offer'[u] # offer'[t]
  /\ owner'[t] = 0

\* The offer ran out, or the Worker was declared stale.
Withdraw(t) ==
  /\ state[t] \in {"pending", "running"} /\ state'[t] = "pending"
  /\ offer'[t] = 0 /\ owner'[t] = 0

Confirm(t) ==
  /\ state[t] = "pending" /\ state'[t] = "running"
  /\ offer[t] # 0
  /\ offer'[t] = 0 /\ owner'[t] = offer[t]

Finish(t) ==
  /\ state[t] = "running" /\ state'[t] \in Ended
  /\ offer'[t] = 0 /\ owner'[t] = owner[t]

\* Canceled without a Worker's word: while pending, or from a stale Worker.
Cancel(t) ==
  /\ state[t] \in {"pending", "running"} /\ state'[t] = "canceled"
  /\ offer'[t] = 0 /\ owner'[t] = 0

Move(t) ==
  \/ Stay(t) \/ Submit(t) \/ Offer(t) \/ Withdraw(t)
  \/ Confirm(t) \/ Finish(t) \/ Cancel(t)

Next == last' >= last /\ \A t \in Task : Move(t)

Spec == Init /\ [][Next]_lifecycle
=============================================================================
