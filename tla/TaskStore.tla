----------------------------- MODULE TaskStore ------------------------------
(***************************************************************************)
(* The Master's in-memory task store, master/internal/tasks/task_store.go. *)
(*                                                                         *)
(* `store` is the Store struct.  Every exported method holds s.mu from its *)
(* first statement to its last, so a call is one step: an operator from    *)
(* the struct to the struct, built from the operators that model the       *)
(* private ...Locked helpers.  The actions below call the methods in any   *)
(* order and with any arguments, which covers every caller the Master has; *)
(* TaskDelivery composes the same operators with the actual callers.       *)
(*                                                                         *)
(* Time is the number of the youngest delivery whose lease has run out:    *)
(* all leases last equally long, so they run out in the order in which     *)
(* they were granted.                                                      *)
(***************************************************************************)
EXTENDS Queues

CONSTANTS
  Task,         \* task IDs, each generated once by a dispatch handler
  Worker,       \* worker IDs
  NoWorker,     \* the worker of a lease that does not exist
  Target,       \* Target[t]: Task.TargetWorker, never written after creation
  Outcome,      \* the terminal statuses a Worker may report
  Chan,         \* the channels of the claim calls that can wait at once
  Limit,        \* the values of the claim endpoint's `limit`
  MaxDelivery   \* bound: deliveries issued

Terminal == {"completed", "failed", "timeout", "canceled"}
Status == {"absent", "pending", "running"} \cup Terminal

ASSUME TaskAssumption == IsFiniteSet(Task)
ASSUME TargetAssumption == Target \in [Task -> Worker]
ASSUME WorkerAssumption == NoWorker \notin Worker
ASSUME OutcomeAssumption == Outcome \subseteq Terminal
ASSUME LimitAssumption == Limit \subseteq Nat \ {0}
ASSUME MaxDeliveryAssumption == MaxDelivery \in Nat

VARIABLES
  store,    \* the Store struct
  issued,   \* deliveries issued so far: generateDeliveryID never repeats one
  overdue   \* the leases of deliveries 1 .. overdue are past expiresAt

vars == << store, issued, overdue >>

Delivery == 1 .. MaxDelivery
Lease == [id : 0 .. MaxDelivery, worker : Worker \cup {NoWorker}]
NoLease == [id |-> 0, worker |-> NoWorker]

(***************************************************************************)
(* The struct.  status[t] is tasks[t].Status, "absent" where the map has   *)
(* no entry; a map entry that does not exist is NoLease, 0, << >> or {};   *)
(* pending[t] is "none" without a registered result channel, "empty" for   *)
(* an empty one and otherwise the status of the result it holds; notify is *)
(* the set of the waiters' channels that hold a token.                     *)
(***************************************************************************)
Store ==
  [status         : [Task -> Status],
   pending        : [Task -> {"none", "empty"} \cup Terminal],
   workQueues     : [Worker -> Seq(Task)],
   cancelQ        : [Worker -> Seq(Task)],
   cancelSet      : [Worker -> SUBSET Task],
   taskLeases     : [Task -> Lease],
   cancelLeases   : [Task -> Lease],
   deliveries     : [Task -> 0 .. MaxDelivery],
   waiters        : [Worker -> SUBSET Chan],
   notify         : SUBSET Chan,
   blockedWorkers : SUBSET Worker]

NewStore ==
  [status         |-> [t \in Task |-> "absent"],
   pending        |-> [t \in Task |-> "none"],
   workQueues     |-> [w \in Worker |-> << >>],
   cancelQ        |-> [w \in Worker |-> << >>],
   cancelSet      |-> [w \in Worker |-> {}],
   taskLeases     |-> [t \in Task |-> NoLease],
   cancelLeases   |-> [t \in Task |-> NoLease],
   deliveries     |-> [t \in Task |-> 0],
   waiters        |-> [w \in Worker |-> {}],
   notify         |-> {},
   blockedWorkers |-> {}]

-----------------------------------------------------------------------------
(* The private helpers, called with s.mu held. *)

\* A token for every channel of w that waits; a channel holds at most one.
SignalWaiters(s, w) == [s EXCEPT !.notify = @ \cup s.waiters[w]]

\* A result sent without blocking to the channel registered for t, if any.
NotifyResult(s, t, r) ==
  [s EXCEPT !.pending[t] = IF @ = "empty" THEN r ELSE @]

RemoveWork(s, w, X) == [s EXCEPT !.workQueues[w] = Without(@, X)]

Revoke(leases, X) == [t \in Task |-> IF t \in X THEN NoLease ELSE leases[t]]

RemoveCancel(s, w, X) ==
  [s EXCEPT !.cancelLeases = Revoke(s.cancelLeases, X),
            !.cancelSet[w] = s.cancelSet[w] \ X,
            !.cancelQ[w] = Without(s.cancelQ[w], X)]

HasCancelIntent(s, w, t) ==
  s.cancelLeases[t] # NoLease \/ t \in s.cancelSet[w]

\* The tasks that w holds under a lease past its expiresAt.
Expired(leases, w) == {t \in Task : leases[t].worker = w /\ leases[t].id <= overdue}

\* The tasks that reapExpiredLocked puts back into w's two queues.
LateWork(s, w) ==
  {t \in Expired(s.taskLeases, w) :
     s.status[t] = "pending" /\ t \notin Range(s.workQueues[w])}
LateCancels(s, w) ==
  {t \in Expired(s.cancelLeases, w) :
     s.status[t] = "running" /\ t \notin s.cancelSet[w]}

\* Mutant: expired leases are deleted and nothing is queued again.
ReapOnly(s, w, work, cancels) ==
  [s EXCEPT !.taskLeases = Revoke(s.taskLeases, Expired(s.taskLeases, w)),
            !.cancelLeases = Revoke(s.cancelLeases, Expired(s.cancelLeases, w))]

(***************************************************************************)
(* reapExpiredLocked: w's expired leases go, and what is still to be done  *)
(* goes to the tail of w's queues, in the order the maps are visited.      *)
(***************************************************************************)
ReapExpired(s, w, work, cancels) ==
  LET r == [s EXCEPT !.taskLeases = Revoke(s.taskLeases, Expired(s.taskLeases, w)),
                     !.cancelLeases = Revoke(s.cancelLeases, Expired(s.cancelLeases, w)),
                     !.workQueues[w] = s.workQueues[w] \o work,
                     !.cancelSet[w] = s.cancelSet[w] \cup Range(cancels),
                     !.cancelQ[w] = s.cancelQ[w] \o cancels]
  IN  IF work = << >> /\ cancels = << >> THEN r ELSE SignalWaiters(r, w)

\* Every result the reaping of w's leases can have.
Reaped(s, w) ==
  {ReapExpired(s, w, work, cancels) :
     work \in Orders(LateWork(s, w)), cancels \in Orders(LateCancels(s, w))}

\* The leases with delivery numbers above base for q's kept entries.
Grant(leases, q, kept, base, w) ==
  [t \in Task |-> IF \E i \in kept : q[i] = t
                  THEN [id |-> base + (CHOOSE i \in kept : q[i] = t), worker |-> w]
                  ELSE leases[t]]

(***************************************************************************)
(* The first c entries leave w's cancel queue and the first k its work     *)
(* queue.  The kept ones are leased, under the delivery numbers after      *)
(* base; the others are dropped.                                           *)
(***************************************************************************)
HandOut(s, w, base, c, keptCancels, k, keptTasks) ==
  LET cq == s.cancelQ[w]
      wq == s.workQueues[w]
  IN  [s EXCEPT
        !.cancelQ[w] = SubSeq(cq, c + 1, Len(cq)),
        !.cancelSet[w] = s.cancelSet[w] \ {cq[i] : i \in 1 .. c},
        !.cancelLeases = Grant(s.cancelLeases, cq, keptCancels, base, w),
        !.workQueues[w] = SubSeq(wq, k + 1, Len(wq)),
        !.taskLeases = Grant(s.taskLeases, wq, keptTasks, base + c, w)]

-----------------------------------------------------------------------------
(* The methods that answer the dispatch and cancel handlers. *)

EnqueuePending(t) ==
  /\ store.status[t] = "absent"
  /\ store' = SignalWaiters([store EXCEPT !.status[t] = "pending",
                                          !.workQueues[Target[t]] = Append(@, t)],
                            Target[t])
  /\ UNCHANGED << issued, overdue >>

\* A synchronous dispatch registers its channel before it enqueues the task.
RegisterPending(t) ==
  /\ store.status[t] = "absent"
  /\ store' = [store EXCEPT !.pending[t] = "empty"]
  /\ UNCHANGED << issued, overdue >>

\* WaitForResult returns a result, and the handler's deferred Unregister runs.
ReceiveResult(t) ==
  /\ store.pending[t] \in Terminal
  /\ store' = [store EXCEPT !.pending[t] = "none"]
  /\ UNCHANGED << issued, overdue >>

\* The wait timed out: the channel is forgotten, with a result in it or not.
UnregisterPending(t) ==
  /\ store.pending[t] # "none"
  /\ store' = [store EXCEPT !.pending[t] = "none"]
  /\ UNCHANGED << issued, overdue >>

\* Mutant: whoever waits for the task's result is not told.
CancelPendingSilently(t) ==
  /\ store.status[t] = "pending"
  /\ store' = RemoveWork([store EXCEPT !.status[t] = "canceled",
                                       !.taskLeases[t] = NoLease,
                                       !.deliveries[t] = 0],
                         Target[t], {t})
  /\ UNCHANGED << issued, overdue >>

CancelPending(t) ==
  /\ store.status[t] = "pending"
  /\ store' = NotifyResult(
                RemoveWork([store EXCEPT !.status[t] = "canceled",
                                         !.taskLeases[t] = NoLease,
                                         !.deliveries[t] = 0],
                           Target[t], {t}),
                t, "canceled")
  /\ UNCHANGED << issued, overdue >>

\* A cancel job already leased or queued is not queued again.
EnqueueCancel(t) ==
  /\ store.status[t] = "running"
  /\ ~ HasCancelIntent(store, Target[t], t)
  /\ store' = SignalWaiters([store EXCEPT !.cancelSet[Target[t]] = @ \cup {t},
                                          !.cancelQ[Target[t]] = Append(@, t)],
                            Target[t])
  /\ UNCHANGED << issued, overdue >>

-----------------------------------------------------------------------------
(* The methods that answer a Worker. *)

\* Mutant: a report of `running` need not come from the delivery on offer.
VerdictAnyDelivery(s, t, w, d, r) ==
  IF s.status[t] = "pending" /\ r = "running" /\ s.taskLeases[t] # NoLease
  THEN "ok" ELSE "invalid_transition"

\* Mutant: any delivery may end a run.
VerdictAnyResult(s, t, w, d, r) ==
  CASE s.status[t] = "pending" ->
         IF r = "running" /\ s.taskLeases[t] = [id |-> d, worker |-> w]
         THEN "ok" ELSE "invalid_transition"
    [] s.status[t] = "running" -> IF r = "running" THEN "terminal" ELSE "ok"
    [] OTHER -> "terminal"

\* ApplyResult's answer to `Worker w says r of t under delivery d`.
Verdict(s, t, w, d, r) ==
  CASE s.status[t] = "absent" -> "not_found"
    [] s.status[t] # "absent" /\ Target[t] # w -> "wrong_worker"
    [] s.status[t] \in Terminal /\ Target[t] = w ->
         IF s.status[t] = r /\ s.deliveries[t] = d THEN "ok" ELSE "terminal"
    [] s.status[t] = "pending" /\ Target[t] = w ->
         IF r = "running" /\ s.taskLeases[t] = [id |-> d, worker |-> w]
         THEN "ok" ELSE "invalid_transition"
    [] s.status[t] = "running" /\ Target[t] = w ->
         IF s.deliveries[t] = d THEN "ok" ELSE "invalid_transition"

\* What an accepted report does.  One that repeats what is known changes nothing.
Applied(s, t, w, d, r) ==
  IF s.status[t] = r THEN s
  ELSE IF r = "running"
       THEN RemoveWork([s EXCEPT !.status[t] = r,
                                 !.taskLeases[t] = NoLease,
                                 !.deliveries[t] = d], w, {t})
       ELSE NotifyResult(
              RemoveCancel([s EXCEPT !.status[t] = r,
                                     !.taskLeases[t] = NoLease], w, {t}),
              t, r)

\* Mutant: leases that have run out are not reaped first.
ApplyResultUnreaped(t, w, d, r) ==
  /\ store' = IF Verdict(store, t, w, d, r) = "ok"
              THEN Applied(store, t, w, d, r) ELSE store
  /\ UNCHANGED << issued, overdue >>

ApplyResult(t, w, d, r) ==
  /\ \E s \in Reaped(store, w) :
       store' = IF Verdict(s, t, w, d, r) = "ok" THEN Applied(s, t, w, d, r) ELSE s
  /\ UNCHANGED << issued, overdue >>

(***************************************************************************)
(* Claim: reap, then lease up to n jobs, cancel jobs first.  The i-th      *)
(* entry popped gets delivery number issued + i, so numbers follow the     *)
(* order of the grants.                                                    *)
(***************************************************************************)
Claim(w, n) ==
  /\ w \notin store.blockedWorkers
  /\ \E s \in Reaped(store, w) :
       LET cancelable == {t \in Task : s.status[t] = "running" /\ s.cancelLeases[t] = NoLease}
           startable == {t \in Task : s.status[t] = "pending" /\ s.taskLeases[t] = NoLease}
           c == PopCount(s.cancelQ[w], cancelable, n)
           cancels == Kept(s.cancelQ[w], cancelable, c)
           k == PopCount(s.workQueues[w], startable, n - Cardinality(cancels))
           tasks == Kept(s.workQueues[w], startable, k)
       IN  /\ issued + c + k \in 0 .. MaxDelivery
           /\ issued' = issued + c + k
           /\ store' = HandOut(s, w, issued, c, cancels, k, tasks)
  /\ UNCHANGED overdue

-----------------------------------------------------------------------------
(* The methods that answer the sweeper and the account handlers. *)

(***************************************************************************)
(* RecoverWorker: each task of w that is not terminal loses its leases and *)
(* its delivery; it is canceled if a cancel was requested and otherwise    *)
(* goes back to the queue, in the order in which the map is visited.       *)
(***************************************************************************)
Open(s, w) == {t \in Task : Target[t] = w /\ s.status[t] \in {"pending", "running"}}

\* Mutant: recovery takes every open task for one that is wanted.
DoomedNone(s, w) == {t \in Open(s, w) : FALSE}

Doomed(s, w) == {t \in Open(s, w) : HasCancelIntent(s, w, t)}

Recovered(s, w, order) ==
  LET open == Open(s, w)
      cleared == RemoveCancel(RemoveWork(s, w, open), w, open)
  IN  [cleared EXCEPT
        !.taskLeases = Revoke(s.taskLeases, open),
        !.deliveries = [t \in Task |-> IF t \in open THEN 0 ELSE s.deliveries[t]],
        !.status = [t \in Task |-> CASE t \in Doomed(s, w) -> "canceled"
                                     [] t \in open \ Doomed(s, w) -> "pending"
                                     [] t \notin open -> s.status[t]],
        !.pending = [t \in Task |-> IF t \in Doomed(s, w) /\ s.pending[t] = "empty"
                                    THEN "canceled" ELSE s.pending[t]],
        !.workQueues[w] = cleared.workQueues[w] \o order]

RecoverWorker(w) ==
  /\ Open(store, w) # {}
  /\ \E order \in Orders(Open(store, w) \ Doomed(store, w)) :
       store' = SignalWaiters(Recovered(store, w, order), w)
  /\ UNCHANGED << issued, overdue >>

BlockWorker(w) ==
  /\ store' = SignalWaiters([store EXCEPT !.blockedWorkers = @ \cup {w}], w)
  /\ UNCHANGED << issued, overdue >>

UnblockWorker(w) ==
  /\ store' = [store EXCEPT !.blockedWorkers = @ \ {w}]
  /\ UNCHANGED << issued, overdue >>

-----------------------------------------------------------------------------
(* The wait list of ClaimOrWait (module ClaimWait), and time. *)

\* Mutant: the queues are not looked at again.
AddWaiterBlindly(c, w) ==
  /\ \A v \in Worker : c \notin store.waiters[v]
  /\ store' = [store EXCEPT !.waiters[w] = @ \cup {c}]
  /\ UNCHANGED << issued, overdue >>

\* A new channel, with a token at once if jobs are already queued.
AddWaiter(c, w) ==
  /\ \A v \in Worker : c \notin store.waiters[v]
  /\ store' = [store EXCEPT
                !.waiters[w] = @ \cup {c},
                !.notify = IF store.workQueues[w] # << >> \/ store.cancelQ[w] # << >>
                           THEN @ \cup {c} ELSE @]
  /\ UNCHANGED << issued, overdue >>

RemoveWaiter(c, w) ==
  /\ c \in store.waiters[w]
  /\ store' = [store EXCEPT !.waiters[w] = @ \ {c}, !.notify = @ \ {c}]
  /\ UNCHANGED << issued, overdue >>

\* The receive on its channel in a call's select statement.
TakeToken(c) ==
  /\ c \in store.notify
  /\ store' = [store EXCEPT !.notify = @ \ {c}]
  /\ UNCHANGED << issued, overdue >>

\* Time passes: more of the deliveries issued so far are past their lease.
LeaseTimePasses ==
  /\ overdue' \in (overdue + 1) .. issued
  /\ UNCHANGED << store, issued >>

Init ==
  /\ store = NewStore
  /\ issued = 0
  /\ overdue = 0

Next ==
  \/ \E t \in Task : \/ EnqueuePending(t) \/ RegisterPending(t)
                      \/ ReceiveResult(t) \/ UnregisterPending(t)
                      \/ CancelPending(t) \/ EnqueueCancel(t)
  \/ \E t \in Task, w \in Worker, d \in Delivery, r \in {"running"} \cup Outcome :
       ApplyResult(t, w, d, r)
  \/ \E w \in Worker, n \in Limit : Claim(w, n)
  \/ \E w \in Worker : RecoverWorker(w) \/ BlockWorker(w) \/ UnblockWorker(w)
  \/ \E c \in Chan, w \in Worker : AddWaiter(c, w) \/ RemoveWaiter(c, w)
  \/ \E c \in Chan : TakeToken(c)
  \/ LeaseTimePasses

Spec == Init /\ [][Next]_vars

-----------------------------------------------------------------------------
(* Properties.  Each is stated of a struct s, for it also holds between the *)
(* reaping of leases and the rest of a call.                               *)

\* The struct has the shape of its declaration, and time follows the grants.
TypeOK ==
  /\ store \in Store
  /\ issued \in 0 .. MaxDelivery
  /\ overdue \in 0 .. issued

(***************************************************************************)
(* No pending task is lost and none is handed out twice: it either stands  *)
(* once in the queue of its own Worker or is leased to that Worker, and    *)
(* nothing else is queued or leased.  Seven methods move tasks between the *)
(* queue, the lease map and the running state; a requeue that forgets one  *)
(* place strands a task for good.                                          *)
(***************************************************************************)
WorkQueuesIn(s) ==
  \A w \in Worker :
    /\ IsInjective(s.workQueues[w])
    /\ \A t \in Range(s.workQueues[w]) :
         Target[t] = w /\ s.status[t] = "pending" /\ s.taskLeases[t] = NoLease

TaskLeasesIn(s, last) ==
  \A t \in Task :
    /\ s.taskLeases[t] # NoLease =>
         /\ s.status[t] = "pending"
         /\ s.taskLeases[t] \in [id : 1 .. last, worker : {Target[t]}]
    /\ s.status[t] = "pending" =>
         t \in Range(s.workQueues[Target[t]]) \/ s.taskLeases[t] # NoLease

PendingIsPlaced == WorkQueuesIn(store) /\ TaskLeasesIn(store, issued)

(***************************************************************************)
(* A cancel job exists only for a running task, once, at its own Worker:   *)
(* queued, with the set that deduplicates the queue in step, or leased.    *)
(***************************************************************************)
CancelQueuesIn(s) ==
  \A w \in Worker :
    /\ IsInjective(s.cancelQ[w])
    /\ Range(s.cancelQ[w]) = s.cancelSet[w]
    /\ \A t \in s.cancelSet[w] :
         Target[t] = w /\ s.status[t] = "running" /\ s.cancelLeases[t] = NoLease

CancelLeasesIn(s, last) ==
  \A t \in Task :
    s.cancelLeases[t] # NoLease =>
      /\ s.status[t] = "running"
      /\ s.cancelLeases[t] \in [id : 1 .. last, worker : {Target[t]}]

CancelIsPlaced == CancelQueuesIn(store) /\ CancelLeasesIn(store, issued)

(***************************************************************************)
(* Every delivery number in use belongs to one task: a report can be taken *)
(* for at most one of the tasks that are leased, running or ended.         *)
(***************************************************************************)
Numbers(s, t) == {s.taskLeases[t].id, s.deliveries[t]} \ {0}

DeliveriesIn(s, last) ==
  \A t \in Task :
    /\ Numbers(s, t) \subseteq 1 .. last
    /\ \A u \in Task \ {t} : Numbers(s, t) \cap Numbers(s, u) = {}
    /\ s.status[t] = "running" => s.deliveries[t] # 0
    /\ s.status[t] \in {"absent", "pending"} => s.deliveries[t] = 0

DeliveriesDistinct == DeliveriesIn(store, issued)

(***************************************************************************)
(* No dispatcher waits for a result that has been and gone: the channel of *)
(* an ended task is not empty, and what a channel holds is the status the  *)
(* task has for good.                                                      *)
(***************************************************************************)
ResultsIn(s) ==
  \A t \in Task :
    /\ s.status[t] \in Terminal => s.pending[t] # "empty"
    /\ s.pending[t] \in Terminal => s.status[t] = s.pending[t]

ResultsReachWaiters == ResultsIn(store)

(***************************************************************************)
(* A cancel request for a running task is never forgotten: it stays on     *)
(* record, queued or leased, until the task has ended -- also when the     *)
(* cancel job's lease runs out, when it is claimed again, and when the     *)
(* Worker is declared stale.                                               *)
(***************************************************************************)
CancelSticks ==
  [][\A t \in Task : HasCancelIntent(store, Target[t], t)
       => HasCancelIntent(store, Target[t], t)' \/ store.status'[t] \in Terminal]_vars

(***************************************************************************)
(* A delivery whose lease has run out never confirms: once the deadline is *)
(* past, a late `running` report loses even if nobody has noticed yet.     *)
(***************************************************************************)
LateNeverConfirms ==
  [][\A t \in Task : store.status[t] = "pending" /\ store.status'[t] = "running"
       => store.deliveries'[t] = store.taskLeases[t].id /\ store.deliveries'[t] > overdue]_vars

(***************************************************************************)
(* The store implements the life cycle it promises (TaskLifecycle): the    *)
(* lease map is the offer, the deliveries map the owner.                   *)
(***************************************************************************)
Lifecycle == INSTANCE TaskLifecycle WITH
  state <- store.status,
  offer <- [t \in Task |-> store.taskLeases[t].id],
  owner <- store.deliveries,
  last  <- issued

KeepsLifecycle == Lifecycle!Spec
=============================================================================
