----------------------------- MODULE ClaimWait ------------------------------
(***************************************************************************)
(* Store.ClaimOrWait, the long poll behind `claim jobs`                    *)
(* (master/internal/tasks/task_store.go), run by several HTTP requests at  *)
(* once while the rest of the Master calls the other methods.              *)
(*                                                                         *)
(* ClaimOrWait itself holds no lock: it is a sequence of calls that each   *)
(* take s.mu, with a select in between.  A call is a member of Chan, for   *)
(* the channel it waits on; call[c].pc is the statement it is about to     *)
(* execute, and each step below is one acquisition of s.mu.                *)
(***************************************************************************)
EXTENDS TaskStore

VARIABLE call

waitVars == << store, issued, overdue, call >>

(***************************************************************************)
(* late: the deadline is past (from the start for `wait <= 0`).  timer: the *)
(* youngest delivery that must run out for the timer to fire before the    *)
(* deadline, 0 for none.                                                   *)
(***************************************************************************)
Pc == {"idle", "check", "first", "loop", "last", "delay", "add", "select",
       "leave", "quit", "again"}
Idle == [pc |-> "idle", worker |-> NoWorker, n |-> 0, late |-> FALSE, timer |-> 0]
CallState == {Idle} \cup
             [pc : Pc \ {"idle"}, worker : Worker, n : Limit, late : BOOLEAN, timer : 0 .. MaxDelivery]

Goto(c, pc) ==
  call' = [call EXCEPT ![c] = IF pc = "idle" THEN Idle ELSE [@ EXCEPT !.pc = pc, !.timer = 0]]

\* A request comes in; c is not used by another one.
Start(c) ==
  /\ call[c].pc = "idle"
  /\ \E w \in Worker, n \in Limit, late \in BOOLEAN :
       call' = [call EXCEPT ![c] = [pc |-> "check", worker |-> w, n |-> n,
                                    late |-> late, timer |-> 0]]
  /\ UNCHANGED vars

CheckBlocked(c) ==
  /\ call[c].pc = "check"
  /\ Goto(c, IF call[c].worker \in store.blockedWorkers THEN "idle" ELSE "first")
  /\ UNCHANGED vars

(***************************************************************************)
(* Claim.  With jobs the call returns them, otherwise it goes on at        *)
(* `next`.  A blocked Worker gets nothing and nothing is reaped.           *)
(***************************************************************************)
ClaimOr(c, next) ==
  \/ /\ Claim(call[c].worker, call[c].n)
     /\ Goto(c, IF issued' # issued THEN "idle" ELSE next)
  \/ /\ call[c].worker \in store.blockedWorkers
     /\ Goto(c, next)
     /\ UNCHANGED vars

FirstClaim(c) ==
  call[c].pc = "first" /\ ClaimOr(c, IF call[c].late THEN "idle" ELSE "loop")

\* Mutant: the deadline is left to the timer.
LoopHeadTimeless(c) ==
  /\ call[c].pc = "loop"
  /\ Goto(c, IF call[c].worker \in store.blockedWorkers THEN "idle" ELSE "delay")
  /\ UNCHANGED vars

\* IsWorkerBlocked, and the time that remains, read before the next lock.
LoopHead(c) ==
  /\ call[c].pc = "loop"
  /\ Goto(c, IF call[c].worker \in store.blockedWorkers THEN "idle"
             ELSE IF call[c].late THEN "last" ELSE "delay")
  /\ UNCHANGED vars

LastClaim(c) == call[c].pc = "last" /\ ClaimOr(c, "idle")

\* The numbers of the leases that w holds.
HeldBy(w) ==
  {store.taskLeases[t].id : t \in {u \in Task : store.taskLeases[u].worker = w}} \cup
  {store.cancelLeases[t].id : t \in {u \in Task : store.cancelLeases[u].worker = w}}

\* nextLeaseDelay; for a delay of 0 the loop starts over.
LeaseDelay(c) ==
  /\ call[c].pc = "delay"
  /\ LET held == HeldBy(call[c].worker)
     IN  IF \E d \in held : d <= overdue THEN Goto(c, "loop")
         ELSE \E d \in IF held = {} THEN {0} ELSE held :
                /\ \A e \in held : d <= e
                /\ call' = [call EXCEPT ![c].pc = "add", ![c].timer = d]
  /\ UNCHANGED vars

Add(c) ==
  /\ call[c].pc = "add"
  /\ AddWaiter(c, call[c].worker)
  /\ call' = [call EXCEPT ![c].pc = "select"]

\* The three cases of the select; whichever is ready may be taken.
ContextDone(c) ==
  /\ call[c].pc = "select"
  /\ Goto(c, "quit")
  /\ UNCHANGED vars

TimerFires(c) ==
  /\ call[c].pc = "select"
  /\ call[c].late \/ call[c].timer \in 1 .. overdue
  /\ Goto(c, "leave")
  /\ UNCHANGED vars

Notified(c) ==
  /\ call[c].pc = "select"
  /\ TakeToken(c)
  /\ Goto(c, "leave")

\* Mutant: a call that leaves wakes the others.
LeaveWaking(c) ==
  /\ call[c].pc \in {"leave", "quit"}
  /\ LET w == call[c].worker
     IN  store' = SignalWaiters([store EXCEPT !.waiters[w] = @ \ {c},
                                              !.notify = @ \ {c}], w)
  /\ UNCHANGED << issued, overdue >>
  /\ Goto(c, IF call[c].pc = "leave" THEN "again" ELSE "idle")

Leave(c) ==
  /\ call[c].pc \in {"leave", "quit"}
  /\ RemoveWaiter(c, call[c].worker)
  /\ Goto(c, IF call[c].pc = "leave" THEN "again" ELSE "idle")

ClaimAgain(c) == call[c].pc = "again" /\ ClaimOr(c, "loop")

DeadlinePasses(c) ==
  /\ call[c].pc \notin {"idle", "check", "first"}
  /\ ~ call[c].late
  /\ call' = [call EXCEPT ![c].late = TRUE]
  /\ UNCHANGED vars

Step(c) ==
  \/ CheckBlocked(c) \/ FirstClaim(c) \/ LoopHead(c) \/ LastClaim(c) \/ LeaseDelay(c)
  \/ Add(c) \/ TimerFires(c) \/ Notified(c) \/ Leave(c) \/ ClaimAgain(c)

-----------------------------------------------------------------------------
(***************************************************************************)
(* The other methods, called by other handlers and by the sweeper.  What   *)
(* they make claimable stays within MaxDelivery, so that this bound never  *)
(* holds up a call.                                                        *)
(***************************************************************************)
Claimable ==
  LET count(P(_)) == Cardinality({t \in Task : P(t)})
  IN  count(LAMBDA t : t \in Range(store.workQueues[Target[t]]))
        + count(LAMBDA t : t \in Range(store.cancelQ[Target[t]]))
        + count(LAMBDA t : store.taskLeases[t].id \in 1 .. overdue)
        + count(LAMBDA t : store.cancelLeases[t].id \in 1 .. overdue)

WaitsAffordable == issued + Claimable <= MaxDelivery

Others ==
  /\ \/ \E t \in Task : EnqueuePending(t) \/ CancelPending(t) \/ EnqueueCancel(t)
     \/ \E t \in Task, w \in Worker, d \in Delivery, r \in {"running"} \cup Outcome :
          ApplyResult(t, w, d, r)
     \/ \E w \in Worker : RecoverWorker(w) \/ BlockWorker(w) \/ UnblockWorker(w)
     \/ LeaseTimePasses
  /\ WaitsAffordable'
  /\ UNCHANGED call

WaitInit ==
  /\ Init
  /\ call = [c \in Chan |-> Idle]

WaitNext ==
  \/ \E c \in Chan : Start(c) \/ Step(c) \/ ContextDone(c) \/ DeadlinePasses(c)
  \/ Others

(***************************************************************************)
(* A goroutine that can take its next step takes it, for s.mu is held only *)
(* for the length of a method; and clocks run.  Nothing else is fair: no   *)
(* client need hang up, no lease need run out, no other call need come.    *)
(***************************************************************************)
WaitSpec ==
  /\ WaitInit
  /\ [][WaitNext]_waitVars
  /\ \A c \in Chan : WF_waitVars(Step(c)) /\ WF_waitVars(DeadlinePasses(c))

-----------------------------------------------------------------------------
CallTypeOK == call \in [Chan -> CallState]

(***************************************************************************)
(* No wakeup is lost: a call blocked in its select has a token whenever    *)
(* there is something in its Worker's queues, however the enqueueing and   *)
(* the three locks between Claim and select fall.                          *)
(***************************************************************************)
NoLostWakeup ==
  \A c \in Chan :
    call[c].pc = "select" =>
      LET w == call[c].worker
      IN  store.workQueues[w] # << >> \/ store.cancelQ[w] # << >> => c \in store.notify

(***************************************************************************)
(* Every call returns, whatever is enqueued, claimed by others, recovered  *)
(* or blocked in the meantime.                                             *)
(***************************************************************************)
EveryCallReturns == \A c \in Chan : call[c].pc # "idle" ~> call[c].pc = "idle"

(***************************************************************************)
(* Whatever the calls do, the store takes only the steps of TaskStore, so  *)
(* what is checked and proved of its Spec holds under ClaimOrWait too.     *)
(***************************************************************************)
WaitsKeepStore == Spec
=============================================================================
