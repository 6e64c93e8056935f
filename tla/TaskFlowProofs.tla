--------------------------- MODULE TaskFlowProofs ---------------------------
(***************************************************************************)
(* ClaimWait and TaskDelivery, the two systems around the task store, for  *)
(* any number of tasks, Workers, deliveries, calls and abandoned requests. *)
(* Long polls, handlers, the sweeper and the reports of the Workers take   *)
(* only steps of the store, so that what TaskStoreProofs proves holds of   *)
(* both; and what each promises beyond the store follows from an invariant *)
(* of its own.                                                             *)
(***************************************************************************)
EXTENDS ClaimWait, TaskDelivery, TaskStoreProofs

(***************************************************************************)
(* The long poll.                                                          *)
(***************************************************************************)
(* A call of a worker in `call` claims with that worker and its limit. *)
LEMMA WaitTypeInit == WaitInit => CallTypeOK
BY DEF WaitInit, CallTypeOK, CallState

(* Goto leads to a call of the right shape. *)
LEMMA GotoType ==
  ASSUME CallTypeOK, NEW c \in Chan, call[c].pc # "idle", NEW pc \in Pc, Goto(c, pc)
  PROVE  CallTypeOK'
<1>1. call[c] \in CallState /\ call[c] # Idle
  BY DEF CallTypeOK, Idle
<1>2. call[c] \in [pc : Pc \ {"idle"}, worker : Worker, n : Limit,
                   late : BOOLEAN, timer : 0 .. MaxDelivery]
  BY <1>1 DEF CallState
<1>3. 0 \in 0 .. MaxDelivery
  BY MaxDeliveryAssumption
<1>4. CASE pc = "idle"
  BY <1>4 DEF Goto, CallTypeOK, CallState
<1>5. CASE pc # "idle"
  <2>1. [call[c] EXCEPT !.pc = pc, !.timer = 0] \in CallState
    BY <1>2, <1>3, <1>5 DEF CallState
  <2>2. QED
    BY <1>5, <2>1 DEF Goto, CallTypeOK
<1>6. QED
  BY <1>4, <1>5

(* A call in progress belongs to a Worker and has a limit. *)
LEMMA ActiveCall ==
  ASSUME CallTypeOK, NEW c \in Chan, call[c].pc # "idle"
  PROVE  /\ call[c].worker \in Worker /\ call[c].n \in Limit
         /\ call[c].late \in BOOLEAN /\ call[c].timer \in 0 .. MaxDelivery
BY DEF CallTypeOK, CallState, Idle

(* Changing single fields of an active call. *)
LEMMA RecordType ==
  ASSUME CallTypeOK, NEW c \in Chan, call[c].pc # "idle",
         \/ \E pc \in Pc \ {"idle"} : call' = [call EXCEPT ![c].pc = pc]
         \/ \E pc \in Pc \ {"idle"}, d \in 0 .. MaxDelivery :
              call' = [call EXCEPT ![c].pc = pc, ![c].timer = d]
         \/ call' = [call EXCEPT ![c].late = TRUE]
  PROVE  CallTypeOK'
<1>1. call[c] \in [pc : Pc \ {"idle"}, worker : Worker, n : Limit,
                   late : BOOLEAN, timer : 0 .. MaxDelivery]
  BY DEF CallTypeOK, CallState, Idle
<1>2. ASSUME NEW k \in [pc : Pc \ {"idle"}, worker : Worker, n : Limit,
                         late : BOOLEAN, timer : 0 .. MaxDelivery],
             call' = [call EXCEPT ![c] = k]
      PROVE  CallTypeOK'
  BY <1>2 DEF CallTypeOK, CallState
<1>3. CASE \E pc \in Pc \ {"idle"} : call' = [call EXCEPT ![c].pc = pc]
  <2>1. PICK pc \in Pc \ {"idle"} : call' = [call EXCEPT ![c] = [call[c] EXCEPT !.pc = pc]]
    BY <1>3
  <2>2. QED
    BY <1>1, <1>2, <2>1
<1>4. CASE \E pc \in Pc \ {"idle"}, d \in 0 .. MaxDelivery :
             call' = [call EXCEPT ![c].pc = pc, ![c].timer = d]
  <2>1. PICK pc \in Pc \ {"idle"}, d \in 0 .. MaxDelivery :
          call' = [call EXCEPT ![c] = [call[c] EXCEPT !.pc = pc, !.timer = d]]
    BY <1>4 DEF CallTypeOK
  <2>2. QED
    BY <1>1, <1>2, <2>1
<1>5. CASE call' = [call EXCEPT ![c].late = TRUE]
  <2>1. call' = [call EXCEPT ![c] = [call[c] EXCEPT !.late = TRUE]]
    BY <1>5
  <2>2. QED
    BY <1>1, <1>2, <2>1
<1>6. QED
  BY <1>3, <1>4, <1>5

LEMMA ClaimOrType ==
  ASSUME CallTypeOK, NEW c \in Chan, call[c].pc # "idle", NEW next \in Pc, ClaimOr(c, next)
  PROVE  CallTypeOK'
<1>1. "idle" \in Pc
  BY DEF Pc
<1>2. \E pc \in Pc : Goto(c, pc)
  BY <1>1 DEF ClaimOr
<1>3. QED
  BY <1>2, GotoType

(* Lease numbers are delivery numbers. *)
LEMMA HeldType ==
  ASSUME IInv, NEW w
  PROVE  HeldBy(w) \subseteq 0 .. MaxDelivery
<1>1. store.taskLeases \in [Task -> Lease] /\ store.cancelLeases \in [Task -> Lease]
  BY DEF IInv, SoundIn, Store
<1>2. QED
  BY <1>1 DEF HeldBy, Lease

(* Each step of the composition keeps the shape of `call`. *)
LEMMA WaitTypeStep ==
  ASSUME CallTypeOK, IInv, [WaitNext]_waitVars
  PROVE  CallTypeOK'
<1>1. ASSUME NEW c \in Chan, Start(c) PROVE CallTypeOK'
  <2>1. PICK w \in Worker, n \in Limit, late \in BOOLEAN :
          call' = [call EXCEPT ![c] = [pc |-> "check", worker |-> w, n |-> n,
                                       late |-> late, timer |-> 0]]
    BY <1>1 DEF Start
  <2>2. [pc |-> "check", worker |-> w, n |-> n, late |-> late, timer |-> 0] \in CallState
    BY MaxDeliveryAssumption DEF CallState, Pc
  <2>3. QED
    BY <2>1, <2>2 DEF CallTypeOK
<1>2. ASSUME NEW c \in Chan, Step(c) PROVE CallTypeOK'
  <2>1. CASE CheckBlocked(c)
    BY <2>1, GotoType DEF CheckBlocked, Pc
  <2>2. CASE FirstClaim(c)
    BY <2>2, ClaimOrType DEF FirstClaim, Pc
  <2>3. CASE LoopHead(c)
    BY <2>3, GotoType DEF LoopHead, Pc
  <2>4. CASE LastClaim(c)
    BY <2>4, ClaimOrType DEF LastClaim, Pc
  <2>5. CASE LeaseDelay(c)
    <3>1. CASE Goto(c, "loop")
      BY <2>5, <3>1, GotoType DEF LeaseDelay, Pc
    <3>2. CASE ~ Goto(c, "loop")
      <4>1. PICK d \in (IF HeldBy(call[c].worker) = {} THEN {0} ELSE HeldBy(call[c].worker)) :
              call' = [call EXCEPT ![c].pc = "add", ![c].timer = d]
        BY <2>5, <3>2 DEF LeaseDelay
      <4>2. d \in 0 .. MaxDelivery
        <5>1. 0 \in 0 .. MaxDelivery /\ HeldBy(call[c].worker) \subseteq 0 .. MaxDelivery
          BY HeldType, MaxDeliveryAssumption
        <5>2. QED
          BY <5>1
      <4>3. QED
        BY <2>5, <4>1, <4>2, RecordType DEF LeaseDelay, Pc
    <3>3. QED
      BY <3>1, <3>2
  <2>6. CASE Add(c)
    BY <2>6, RecordType DEF Add, Pc
  <2>7. CASE TimerFires(c)
    BY <2>7, GotoType DEF TimerFires, Pc
  <2>8. CASE Notified(c)
    BY <2>8, GotoType DEF Notified, Pc
  <2>9. CASE Leave(c)
    BY <2>9, GotoType DEF Leave, Pc
  <2>10. CASE ClaimAgain(c)
    BY <2>10, ClaimOrType DEF ClaimAgain, Pc
  <2>11. QED
    BY <1>2, <2>1, <2>2, <2>3, <2>4, <2>5, <2>6, <2>7, <2>8, <2>9, <2>10 DEF Step
<1>3. ASSUME NEW c \in Chan, ContextDone(c) PROVE CallTypeOK'
  BY <1>3, GotoType DEF ContextDone, Pc
<1>4. ASSUME NEW c \in Chan, DeadlinePasses(c) PROVE CallTypeOK'
  <2>1. call[c].pc # "idle" /\ call' = [call EXCEPT ![c].late = TRUE]
    BY <1>4 DEF DeadlinePasses
  <2>2. QED
    BY <2>1, RecordType
<1>5. ASSUME Others \/ UNCHANGED waitVars PROVE CallTypeOK'
  BY <1>5 DEF Others, waitVars, CallTypeOK
<1>6. QED
  BY <1>1, <1>2, <1>3, <1>4, <1>5 DEF WaitNext

(* Each step of the composition is a step of the store, or leaves it alone. *)
LEMMA WaitStepIsStoreStep ==
  ASSUME CallTypeOK, [WaitNext]_waitVars
  PROVE  [Next]_vars
<1>1. ASSUME NEW c \in Chan, NEW next, call[c].pc # "idle", ClaimOr(c, next) PROVE [Next]_vars
  <2>1. call[c].worker \in Worker /\ call[c].n \in Limit
    BY <1>1, ActiveCall
  <2>2. QED
    BY <1>1, <2>1 DEF ClaimOr, Next
<1>2. ASSUME NEW c \in Chan, Start(c) \/ ContextDone(c) \/ DeadlinePasses(c) PROVE [Next]_vars
  BY <1>2 DEF Start, ContextDone, DeadlinePasses
<1>3. ASSUME NEW c \in Chan, Step(c) PROVE [Next]_vars
  <2>1. CASE CheckBlocked(c) \/ LoopHead(c) \/ LeaseDelay(c) \/ TimerFires(c)
    BY <2>1 DEF CheckBlocked, LoopHead, LeaseDelay, TimerFires
  <2>2. CASE FirstClaim(c) \/ LastClaim(c) \/ ClaimAgain(c)
    BY <2>2, <1>1 DEF FirstClaim, LastClaim, ClaimAgain
  <2>3. CASE Add(c) \/ Leave(c)
    <3>1. call[c].worker \in Worker
      BY <2>3, ActiveCall DEF Add, Leave
    <3>2. QED
      BY <2>3, <3>1 DEF Add, Leave, Next
  <2>4. CASE Notified(c)
    BY <2>4 DEF Notified, Next
  <2>5. QED
    BY <1>3, <2>1, <2>2, <2>3, <2>4 DEF Step
<1>4. ASSUME Others PROVE [Next]_vars
  BY <1>4 DEF Others, Next
<1>5. ASSUME UNCHANGED waitVars PROVE [Next]_vars
  BY <1>5 DEF waitVars, vars
<1>6. QED
  BY <1>2, <1>3, <1>4, <1>5 DEF WaitNext

-----------------------------------------------------------------------------
(* Tokens: whatever a method puts into an empty pair of queues, it signals.  *)

Jobless(s, w) == s.workQueues[w] = << >> /\ s.cancelQ[w] = << >>

\* No waiter leaves, no token is taken, and a Worker that had no jobs and now
\* has some has a token in the channel of each of its waiters.
Wakes(r, s) ==
  /\ r.waiters = s.waiters
  /\ s.notify \subseteq r.notify
  /\ \A w \in Worker : Jobless(s, w) /\ ~ Jobless(r, w) => s.waiters[w] \subseteq r.notify

LEMMA WakesChain ==
  ASSUME NEW s, NEW m, NEW r, Wakes(m, s), Wakes(r, m)
  PROVE  Wakes(r, s)
BY DEF Wakes

LEMMA WithoutEmpty ==
  ASSUME NEW X, NEW q, q = << >>
  PROVE  Without(q, X) = << >>
<1>1. << >> \in Seq({})
  OBVIOUS
<1>2. Without(q, X) \in Seq({})
  BY <1>1, WithoutProperties
<1>3. QED
  BY <1>2

(* r gives nobody a job: what is in its queues comes from those of s. *)
LEMMA QuietWakes ==
  ASSUME NEW s, NEW r, r.waiters = s.waiters, s.notify \subseteq r.notify,
         \A v \in Worker : Jobless(s, v) => Jobless(r, v)
  PROVE  Wakes(r, s)
BY DEF Wakes

(* The queues of w may have got jobs, and its waiters are signaled. *)
LEMMA SignalWakes ==
  ASSUME NEW s \in Store, NEW z \in Store, NEW w \in Worker,
         z.waiters = s.waiters, z.notify = s.notify,
         \A v \in Worker \ {w} : Jobless(s, v) => Jobless(z, v)
  PROVE  Wakes(SignalWaiters(z, w), s)
<1> DEFINE r == SignalWaiters(z, w)
<1>1. /\ r.waiters = s.waiters /\ r.notify = s.notify \cup s.waiters[w]
      /\ r.workQueues = z.workQueues /\ r.cancelQ = z.cancelQ
  BY DEF SignalWaiters, Store
<1> HIDE DEF r
<1>2. QED
  BY <1>1 DEF Wakes, Jobless, r

LEMMA NotifyKeepsTokens ==
  ASSUME NEW s \in Store, NEW t \in Task, NEW o
  PROVE  /\ NotifyResult(s, t, o).waiters = s.waiters /\ NotifyResult(s, t, o).notify = s.notify
         /\ NotifyResult(s, t, o).workQueues = s.workQueues
         /\ NotifyResult(s, t, o).cancelQ = s.cancelQ
BY DEF NotifyResult, Store

LEMMA RemoveWorkQuiet ==
  ASSUME NEW s \in Store, NEW w \in Worker, NEW X
  PROVE  /\ RemoveWork(s, w, X).waiters = s.waiters /\ RemoveWork(s, w, X).notify = s.notify
         /\ \A v \in Worker : Jobless(s, v) => Jobless(RemoveWork(s, w, X), v)
<1> DEFINE r == RemoveWork(s, w, X)
<1>1. /\ r.waiters = s.waiters /\ r.notify = s.notify /\ r.cancelQ = s.cancelQ
      /\ \A v \in Worker : r.workQueues[v] = IF v = w THEN Without(s.workQueues[w], X)
                                                      ELSE s.workQueues[v]
  BY DEF RemoveWork, Store
<1> HIDE DEF r
<1>2. QED
  BY <1>1, WithoutEmpty DEF Jobless, r

LEMMA RemoveCancelQuiet ==
  ASSUME NEW s \in Store, NEW w \in Worker, NEW X
  PROVE  /\ RemoveCancel(s, w, X).waiters = s.waiters /\ RemoveCancel(s, w, X).notify = s.notify
         /\ \A v \in Worker : Jobless(s, v) => Jobless(RemoveCancel(s, w, X), v)
<1> DEFINE r == RemoveCancel(s, w, X)
           cl == Revoke(s.cancelLeases, X)
           cs == s.cancelSet[w] \ X
           cq == Without(s.cancelQ[w], X)
<1>1. r = [s EXCEPT !.cancelLeases = cl, !.cancelSet[w] = cs, !.cancelQ[w] = cq]
  BY DEF RemoveCancel
<1> HIDE DEF r, cl, cs, cq
<1>2. /\ r.waiters = s.waiters /\ r.notify = s.notify /\ r.workQueues = s.workQueues
      /\ \A v \in Worker : r.cancelQ[v] = IF v = w THEN cq ELSE s.cancelQ[v]
  BY <1>1 DEF Store
<1>3. QED
  BY <1>2, WithoutEmpty DEF Jobless, cq, r

LEMMA ReapWakes ==
  ASSUME NEW s \in Store, NEW w \in Worker, NEW r \in Reaped(s, w)
  PROVE  Wakes(r, s) /\ r \in Store
<1>1. PICK work \in Orders(LateWork(s, w)), cancels \in Orders(LateCancels(s, w)) :
        r = ReapExpired(s, w, work, cancels)
  BY DEF Reaped
<1>2. work \in Seq(Task) /\ cancels \in Seq(Task)
  <2>1. /\ LateWork(s, w) \in SUBSET Task /\ IsFiniteSet(LateWork(s, w))
        /\ LateCancels(s, w) \in SUBSET Task /\ IsFiniteSet(LateCancels(s, w))
    <3>1. LateWork(s, w) \subseteq Task /\ LateCancels(s, w) \subseteq Task
      BY DEF LateWork, LateCancels, Expired
    <3>2. QED
      BY <3>1, TaskAssumption, FS_Subset
  <2>2. QED
    BY <2>1, OrdersFacts
<1> DEFINE tl == Revoke(s.taskLeases, Expired(s.taskLeases, w))
           cl == Revoke(s.cancelLeases, Expired(s.cancelLeases, w))
           wq == s.workQueues[w] \o work
           cs == s.cancelSet[w] \cup Range(cancels)
           cq == s.cancelQ[w] \o cancels
           z == [s EXCEPT !.taskLeases = tl, !.cancelLeases = cl, !.workQueues[w] = wq,
                          !.cancelSet[w] = cs, !.cancelQ[w] = cq]
<1>3. tl \in [Task -> Lease] /\ cl \in [Task -> Lease]
  BY RevokeType DEF Store
<1>4. /\ s.workQueues[w] \in Seq(Task) /\ s.cancelQ[w] \in Seq(Task)
      /\ wq \in Seq(Task) /\ cq \in Seq(Task)
  BY <1>2 DEF Store
<1>5. cs \in SUBSET Task
  BY <1>2, RangeOfSeq DEF Store
<1>6. r = IF work = << >> /\ cancels = << >> THEN z ELSE SignalWaiters(z, w)
  BY <1>1 DEF ReapExpired
<1>7. (work = << >> => wq = s.workQueues[w]) /\ (cancels = << >> => cq = s.cancelQ[w])
  BY <1>4
<1> HIDE DEF tl, cl, wq, cs, cq
<1>8. /\ z \in Store /\ z.waiters = s.waiters /\ z.notify = s.notify
      /\ \A v \in Worker : /\ z.workQueues[v] = IF v = w THEN wq ELSE s.workQueues[v]
                           /\ z.cancelQ[v] = IF v = w THEN cq ELSE s.cancelQ[v]
  BY <1>3, <1>4, <1>5 DEF Store
<1> HIDE DEF z
<1>9. CASE work = << >> /\ cancels = << >>
  <2>1. \A v \in Worker : Jobless(s, v) => Jobless(z, v)
    BY <1>7, <1>8, <1>9 DEF Jobless
  <2>2. QED
    BY <1>6, <1>8, <1>9, <2>1, QuietWakes
<1>10. CASE ~ (work = << >> /\ cancels = << >>)
  <2>1. \A v \in Worker \ {w} : Jobless(s, v) => Jobless(z, v)
    BY <1>8 DEF Jobless
  <2>2. Wakes(SignalWaiters(z, w), s) /\ SignalWaiters(z, w) \in Store
    BY <1>8, <2>1, SignalWakes, SignalFields
  <2>3. QED
    BY <1>6, <1>10, <2>2
<1>11. QED
  BY <1>9, <1>10

LEMMA AppliedWakes ==
  ASSUME NEW s \in Store, NEW t \in Task, NEW w \in Worker, NEW d \in Delivery,
         NEW o \in {"running"} \cup Outcome
  PROVE  Wakes(Applied(s, t, w, d, o), s)
<1>1. CASE s.status[t] = o
  BY <1>1 DEF Applied, Wakes
<1>2. CASE s.status[t] # o /\ o = "running"
  <2> DEFINE z == [s EXCEPT !.status[t] = "running", !.taskLeases[t] = NoLease,
                            !.deliveries[t] = d]
  <2>1. Applied(s, t, w, d, o) = RemoveWork(z, w, {t})
    BY <1>2 DEF Applied
  <2>2. d \in 0 .. MaxDelivery /\ NoLease \in Lease /\ "running" \in Status
    BY MaxDeliveryAssumption DEF Delivery, NoLease, Lease, Status
  <2>3. /\ z \in Store /\ z.waiters = s.waiters /\ z.notify = s.notify
        /\ z.workQueues = s.workQueues /\ z.cancelQ = s.cancelQ
    BY <2>2 DEF Store
  <2> HIDE DEF z
  <2>4. /\ RemoveWork(z, w, {t}).waiters = s.waiters /\ RemoveWork(z, w, {t}).notify = s.notify
        /\ \A v \in Worker : Jobless(s, v) => Jobless(RemoveWork(z, w, {t}), v)
    BY <2>3, RemoveWorkQuiet DEF Jobless
  <2>5. QED
    BY <2>1, <2>4, QuietWakes
<1>3. CASE s.status[t] # o /\ o # "running"
  <2> DEFINE z == [s EXCEPT !.status[t] = o, !.taskLeases[t] = NoLease]
             y == RemoveCancel(z, w, {t})
  <2>1. Applied(s, t, w, d, o) = NotifyResult(y, t, o)
    BY <1>3 DEF Applied
  <2>2. NoLease \in Lease /\ o \in Status
    BY <1>3, MaxDeliveryAssumption, OutcomeAssumption DEF NoLease, Lease, Status
  <2>3. /\ z \in Store /\ z.waiters = s.waiters /\ z.notify = s.notify
        /\ z.workQueues = s.workQueues /\ z.cancelQ = s.cancelQ
    BY <2>2 DEF Store
  <2> HIDE DEF z
  <2>4. /\ y \in Store /\ y.waiters = s.waiters /\ y.notify = s.notify
        /\ \A v \in Worker : Jobless(s, v) => Jobless(y, v)
    <3>1. Fields(y, z.status, z.pending, z.workQueues,
                 [z.cancelQ EXCEPT ![w] = Without(z.cancelQ[w], {t})],
                 [z.cancelSet EXCEPT ![w] = z.cancelSet[w] \ {t}],
                 z.taskLeases, Revoke(z.cancelLeases, {t}), z.deliveries)
      BY <2>3, RemoveCancelFields
    <3>2. /\ y.waiters = z.waiters /\ y.notify = z.notify
          /\ \A v \in Worker : Jobless(z, v) => Jobless(y, v)
      BY <2>3, RemoveCancelQuiet
    <3>3. y \in Store
      BY <3>1 DEF Fields
    <3> HIDE DEF y
    <3>4. QED
      BY <2>3, <3>2, <3>3 DEF Jobless
  <2> HIDE DEF y
  <2>5. /\ NotifyResult(y, t, o).waiters = s.waiters /\ NotifyResult(y, t, o).notify = s.notify
        /\ \A v \in Worker : Jobless(s, v) => Jobless(NotifyResult(y, t, o), v)
    BY <2>4, NotifyKeepsTokens DEF Jobless
  <2>6. QED
    BY <2>1, <2>5, QuietWakes
<1>4. QED
  BY <1>1, <1>2, <1>3

LEMMA HandOutWakes ==
  ASSUME NEW s \in Store, NEW w \in Worker, NEW base, NEW c \in Nat, NEW k \in Nat,
         NEW cancels, NEW tasks
  PROVE  Wakes(HandOut(s, w, base, c, cancels, k, tasks), s)
<1> DEFINE r == HandOut(s, w, base, c, cancels, k, tasks)
           cq == SubSeq(s.cancelQ[w], c + 1, Len(s.cancelQ[w]))
           cs == s.cancelSet[w] \ {s.cancelQ[w][i] : i \in 1 .. c}
           cl == Grant(s.cancelLeases, s.cancelQ[w], cancels, base, w)
           wq == SubSeq(s.workQueues[w], k + 1, Len(s.workQueues[w]))
           tl == Grant(s.taskLeases, s.workQueues[w], tasks, base + c, w)
<1>1. r = [s EXCEPT !.cancelQ[w] = cq, !.cancelSet[w] = cs, !.cancelLeases = cl,
                    !.workQueues[w] = wq, !.taskLeases = tl]
  BY DEF HandOut
<1>2. s.cancelQ[w] = << >> => cq = << >>
  OBVIOUS
<1>3. s.workQueues[w] = << >> => wq = << >>
  OBVIOUS
<1> HIDE DEF r, cq, cs, cl, wq, tl
<1>4. /\ r.waiters = s.waiters /\ r.notify = s.notify
      /\ \A v \in Worker : /\ r.workQueues[v] = IF v = w THEN wq ELSE s.workQueues[v]
                           /\ r.cancelQ[v] = IF v = w THEN cq ELSE s.cancelQ[v]
  BY <1>1 DEF Store
<1>5. \A v \in Worker : Jobless(s, v) => Jobless(r, v)
  BY <1>2, <1>3, <1>4 DEF Jobless
<1>6. QED
  BY <1>4, <1>5, QuietWakes DEF r

LEMMA RecoverWakes ==
  ASSUME NEW s \in Store, NEW w \in Worker, NEW order \in Seq(Task)
  PROVE  Wakes(SignalWaiters(Recovered(s, w, order), w), s)
<1> DEFINE open == Open(s, w)
           y == RemoveWork(s, w, open)
           cleared == RemoveCancel(y, w, open)
           r == Recovered(s, w, order)
<1>1. Fields(r,
        [t \in Task |-> CASE t \in Doomed(s, w) -> "canceled"
                          [] t \in Open(s, w) \ Doomed(s, w) -> "pending"
                          [] t \notin Open(s, w) -> s.status[t]],
        [t \in Task |-> IF t \in Doomed(s, w) /\ s.pending[t] = "empty"
                        THEN "canceled" ELSE s.pending[t]],
        [s.workQueues EXCEPT ![w] = Without(s.workQueues[w], Open(s, w)) \o order],
        [s.cancelQ EXCEPT ![w] = Without(s.cancelQ[w], Open(s, w))],
        [s.cancelSet EXCEPT ![w] = s.cancelSet[w] \ Open(s, w)],
        Revoke(s.taskLeases, Open(s, w)), Revoke(s.cancelLeases, Open(s, w)),
        [t \in Task |-> IF t \in Open(s, w) THEN 0 ELSE s.deliveries[t]])
  BY RecoverFields
<1>2. /\ r \in Store
      /\ r.workQueues = [s.workQueues EXCEPT ![w] = Without(s.workQueues[w], Open(s, w)) \o order]
      /\ r.cancelQ = [s.cancelQ EXCEPT ![w] = Without(s.cancelQ[w], Open(s, w))]
  BY <1>1 DEF Fields
<1>3. Fields(y, s.status, s.pending,
             [s.workQueues EXCEPT ![w] = Without(s.workQueues[w], open)],
             s.cancelQ, s.cancelSet, s.taskLeases, s.cancelLeases, s.deliveries)
  BY RemoveWorkFields
<1>4. y \in Store /\ y.waiters = s.waiters /\ y.notify = s.notify
  BY <1>3, RemoveWorkQuiet DEF Fields
<1> HIDE DEF y
<1>5. Fields(cleared, y.status, y.pending, y.workQueues,
             [y.cancelQ EXCEPT ![w] = Without(y.cancelQ[w], open)],
             [y.cancelSet EXCEPT ![w] = y.cancelSet[w] \ open],
             y.taskLeases, Revoke(y.cancelLeases, open), y.deliveries)
  BY <1>4, RemoveCancelFields
<1>6. cleared \in Store /\ cleared.waiters = s.waiters /\ cleared.notify = s.notify
  BY <1>4, <1>5, RemoveCancelQuiet DEF Fields
<1> HIDE DEF cleared
<1>7. r.waiters = s.waiters /\ r.notify = s.notify
  BY <1>6 DEF Recovered, cleared, y, Store
<1> HIDE DEF r
<1>8. \A v \in Worker \ {w} : Jobless(s, v) => Jobless(r, v)
  BY <1>2 DEF Jobless, Store
<1>9. QED
  BY <1>2, <1>7, <1>8, SignalWakes DEF r

(* Every method that calls of ClaimOrWait do not make themselves, and Claim. *)
LEMMA ClaimWakes ==
  ASSUME store \in Store, NEW w \in Worker, NEW n, Claim(w, n)
  PROVE  Wakes(store', store)
<1> DEFINE cancelable(s) == {t \in Task : s.status[t] = "running" /\ s.cancelLeases[t] = NoLease}
           startable(s) == {t \in Task : s.status[t] = "pending" /\ s.taskLeases[t] = NoLease}
<1>1. PICK s \in Reaped(store, w) :
        \E c, k, m, cancels, tasks :
          /\ c = PopCount(s.cancelQ[w], cancelable(s), n)
          /\ k = PopCount(s.workQueues[w], startable(s), m)
          /\ store' = HandOut(s, w, issued, c, cancels, k, tasks)
  BY DEF Claim
<1>2. s \in Store /\ Wakes(s, store)
  BY ReapWakes
<1>3. s.cancelQ[w] \in Seq(Task) /\ s.workQueues[w] \in Seq(Task)
  BY <1>2 DEF Store
<1> HIDE DEF cancelable, startable
<1>4. PICK c, k, m, cancels, tasks :
          /\ c = PopCount(s.cancelQ[w], cancelable(s), n)
          /\ k = PopCount(s.workQueues[w], startable(s), m)
          /\ store' = HandOut(s, w, issued, c, cancels, k, tasks)
  BY <1>1
<1>5. c \in 0 .. Len(s.cancelQ[w]) /\ k \in 0 .. Len(s.workQueues[w])
  BY <1>3, <1>4, PopCountType
<1>6. c \in Nat /\ k \in Nat
  BY <1>3, <1>5
<1>7. Wakes(store', s)
  BY <1>2, <1>4, <1>6, HandOutWakes
<1>8. QED
  BY <1>2, <1>7, WakesChain

LEMMA OthersWake ==
  ASSUME store \in Store, Others
  PROVE  Wakes(store', store)
<1>1. ASSUME NEW t \in Task, EnqueuePending(t) PROVE Wakes(store', store)
  <2> DEFINE w == Target[t]
             wq == Append(store.workQueues[w], t)
             z == [store EXCEPT !.status[t] = "pending", !.workQueues[w] = wq]
  <2>1. w \in Worker
    BY TargetAssumption
  <2>2. wq \in Seq(Task) /\ "pending" \in Status
    BY <2>1 DEF Store, Status
  <2>3. store' = SignalWaiters(z, w)
    BY <1>1 DEF EnqueuePending
  <2> HIDE DEF w, wq
  <2>4. /\ z \in Store /\ z.waiters = store.waiters /\ z.notify = store.notify
        /\ z.cancelQ = store.cancelQ
        /\ \A v \in Worker \ {w} : z.workQueues[v] = store.workQueues[v]
    BY <2>1, <2>2 DEF Store
  <2> HIDE DEF z
  <2>5. \A v \in Worker \ {w} : Jobless(store, v) => Jobless(z, v)
    BY <2>4 DEF Jobless
  <2>6. QED
    BY <2>1, <2>3, <2>4, <2>5, SignalWakes
<1>2. ASSUME NEW t \in Task, CancelPending(t) PROVE Wakes(store', store)
  <2> DEFINE w == Target[t]
             z == [store EXCEPT !.status[t] = "canceled", !.taskLeases[t] = NoLease,
                                !.deliveries[t] = 0]
             y == RemoveWork(z, w, {t})
  <2>1. w \in Worker
    BY TargetAssumption
  <2>2. NoLease \in Lease /\ "canceled" \in Status /\ 0 \in 0 .. MaxDelivery
    BY MaxDeliveryAssumption DEF NoLease, Lease, Status, Terminal
  <2>3. store' = NotifyResult(y, t, "canceled")
    BY <1>2 DEF CancelPending
  <2>4. /\ z \in Store /\ z.waiters = store.waiters /\ z.notify = store.notify
        /\ z.workQueues = store.workQueues /\ z.cancelQ = store.cancelQ
    BY <2>2 DEF Store
  <2> HIDE DEF z, w
  <2>5. Fields(y, z.status, z.pending,
               [z.workQueues EXCEPT ![w] = Without(z.workQueues[w], {t})],
               z.cancelQ, z.cancelSet, z.taskLeases, z.cancelLeases, z.deliveries)
    BY <2>1, <2>4, RemoveWorkFields
  <2>6. /\ y.waiters = z.waiters /\ y.notify = z.notify
        /\ \A v \in Worker : Jobless(z, v) => Jobless(y, v)
    BY <2>1, <2>4, RemoveWorkQuiet
  <2>7. y \in Store
    BY <2>5 DEF Fields
  <2> HIDE DEF y
  <2>8. /\ store'.waiters = store.waiters /\ store'.notify = store.notify
        /\ \A v \in Worker : Jobless(store, v) => Jobless(store', v)
    BY <2>3, <2>4, <2>6, <2>7, NotifyKeepsTokens DEF Jobless
  <2>9. QED
    BY <2>8, QuietWakes
<1>3. ASSUME NEW t \in Task, EnqueueCancel(t) PROVE Wakes(store', store)
  <2> DEFINE w == Target[t]
             cq == Append(store.cancelQ[w], t)
             cs == store.cancelSet[w] \cup {t}
             z == [store EXCEPT !.cancelSet[w] = cs, !.cancelQ[w] = cq]
  <2>1. w \in Worker
    BY TargetAssumption
  <2>2. cq \in Seq(Task) /\ cs \in SUBSET Task
    BY <2>1 DEF Store
  <2>3. store' = SignalWaiters(z, w)
    BY <1>3 DEF EnqueueCancel
  <2> HIDE DEF w, cq, cs
  <2>4. /\ z \in Store /\ z.waiters = store.waiters /\ z.notify = store.notify
        /\ z.workQueues = store.workQueues
        /\ \A v \in Worker \ {w} : z.cancelQ[v] = store.cancelQ[v]
    BY <2>1, <2>2 DEF Store
  <2> HIDE DEF z
  <2>5. \A v \in Worker \ {w} : Jobless(store, v) => Jobless(z, v)
    BY <2>4 DEF Jobless
  <2>6. QED
    BY <2>1, <2>3, <2>4, <2>5, SignalWakes
<1>4. ASSUME NEW t \in Task, NEW w \in Worker, NEW d \in Delivery,
             NEW r \in {"running"} \cup Outcome, ApplyResult(t, w, d, r)
      PROVE  Wakes(store', store)
  <2>1. PICK s \in Reaped(store, w) :
          store' = IF Verdict(s, t, w, d, r) = "ok" THEN Applied(s, t, w, d, r) ELSE s
    BY <1>4 DEF ApplyResult
  <2>2. s \in Store /\ Wakes(s, store)
    BY ReapWakes
  <2>3. Wakes(Applied(s, t, w, d, r), s)
    BY <2>2, AppliedWakes
  <2>4. Wakes(Applied(s, t, w, d, r), store)
    BY <2>2, <2>3, WakesChain
  <2>5. QED
    BY <2>1, <2>2, <2>4
<1>5. ASSUME NEW w \in Worker, RecoverWorker(w) PROVE Wakes(store', store)
  <2>1. PICK order \in Orders(Open(store, w) \ Doomed(store, w)) :
          store' = SignalWaiters(Recovered(store, w, order), w)
    BY <1>5 DEF RecoverWorker
  <2>2. Open(store, w) \ Doomed(store, w) \in SUBSET Task
    BY DEF Open
  <2>3. IsFiniteSet(Open(store, w) \ Doomed(store, w))
    BY <2>2, TaskAssumption, FS_Subset
  <2>4. order \in Seq(Task)
    BY <2>2, <2>3, OrdersFacts
  <2>5. QED
    BY <2>1, <2>4, RecoverWakes
<1>6. ASSUME NEW w \in Worker, BlockWorker(w) PROVE Wakes(store', store)
  <2> DEFINE z == [store EXCEPT !.blockedWorkers = @ \cup {w}]
  <2>1. /\ z \in Store /\ z.waiters = store.waiters /\ z.notify = store.notify
        /\ z.workQueues = store.workQueues /\ z.cancelQ = store.cancelQ
    BY DEF Store
  <2>2. store' = SignalWaiters(z, w)
    BY <1>6 DEF BlockWorker
  <2> HIDE DEF z
  <2>3. QED
    BY <2>1, <2>2, SignalWakes DEF Jobless
<1>7. ASSUME NEW w \in Worker, UnblockWorker(w) PROVE Wakes(store', store)
  <2>1. /\ store'.waiters = store.waiters /\ store'.notify = store.notify
        /\ store'.workQueues = store.workQueues /\ store'.cancelQ = store.cancelQ
    BY <1>7 DEF UnblockWorker, Store
  <2>2. QED
    BY <2>1 DEF Wakes, Jobless
<1>8. ASSUME LeaseTimePasses PROVE Wakes(store', store)
  BY <1>8 DEF LeaseTimePasses, Wakes
<1>9. QED
  BY <1>1, <1>2, <1>3, <1>4, <1>5, <1>6, <1>7, <1>8 DEF Others

-----------------------------------------------------------------------------
(* The invariant of the waits.  A call in its select is on the wait list   *)
(* of its Worker, so that the signal of every other method reaches it.     *)

WaitingIsListed ==
  \A c \in Chan : call[c].pc = "select" => c \in store.waiters[call[c].worker]

WaitInv == IInv /\ CallTypeOK /\ WaitingIsListed /\ NoLostWakeup

(* A step that signals what it enqueues, and puts no call into its select. *)
LEMMA WakesKeepWaits ==
  ASSUME WaitInv, Wakes(store', store),
         \A c \in Chan : call'[c].pc = "select" =>
           call[c].pc = "select" /\ call'[c].worker = call[c].worker
  PROVE  (WaitingIsListed /\ NoLostWakeup)'
<1>1. \A c \in Chan : call[c].pc = "select" => call[c].worker \in Worker
  BY ActiveCall DEF WaitInv
<1>2. WaitingIsListed'
  BY DEF WaitInv, WaitingIsListed, Wakes
<1>3. NoLostWakeup'
  <2>1. SUFFICES ASSUME NEW c \in Chan, call'[c].pc = "select",
                        ~ Jobless(store', call[c].worker)
                 PROVE  c \in store'.notify
    BY DEF NoLostWakeup, Jobless
  <2>2. /\ call[c].pc = "select" /\ call[c].worker \in Worker
        /\ c \in store.waiters[call[c].worker]
    BY <1>1, <2>1 DEF WaitInv, WaitingIsListed
  <2>3. CASE Jobless(store, call[c].worker)
    BY <2>1, <2>2, <2>3 DEF Wakes
  <2>4. CASE ~ Jobless(store, call[c].worker)
    BY <2>2, <2>4 DEF Wakes, WaitInv, NoLostWakeup, Jobless
  <2>5. QED
    BY <2>3, <2>4
<1>4. QED
  BY <1>2, <1>3

(* After a Goto to anywhere but the select, the other calls stay where they are. *)
LEMMA GotoElsewhere ==
  ASSUME CallTypeOK, NEW c \in Chan, NEW pc \in Pc \ {"select"}, Goto(c, pc)
  PROVE  /\ call'[c].pc # "select"
         /\ \A d \in Chan \ {c} : call'[d] = call[d]
<1>1. call[c] \in CallState
  BY DEF CallTypeOK
<1>2. CASE pc = "idle"
  BY <1>2 DEF Goto, CallTypeOK, Idle
<1>3. CASE pc # "idle"
  <2>1. call' = [call EXCEPT ![c] = [call[c] EXCEPT !.pc = pc, !.timer = 0]]
    BY <1>3 DEF Goto
  <2>2. [call[c] EXCEPT !.pc = pc, !.timer = 0].pc = pc
    BY <1>1 DEF CallState, Idle
  <2>3. QED
    BY <2>1, <2>2 DEF CallTypeOK
<1>4. QED
  BY <1>2, <1>3

LEMMA GotoKeepsWaits ==
  ASSUME WaitInv, NEW c \in Chan, NEW pc \in Pc \ {"select"}, Goto(c, pc),
         Wakes(store', store)
  PROVE  (WaitingIsListed /\ NoLostWakeup)'
<1>1. /\ call'[c].pc # "select"
      /\ \A d \in Chan \ {c} : call'[d] = call[d]
  BY GotoElsewhere DEF WaitInv
<1>2. QED
  BY <1>1, WakesKeepWaits

(* A call that takes its token, or leaves the list, is no longer in its select. *)
LEMMA LeavingKeepsWaits ==
  ASSUME WaitInv, NEW c \in Chan, NEW pc \in Pc \ {"select"}, Goto(c, pc),
         \/ TakeToken(c)
         \/ \E w \in Worker : RemoveWaiter(c, w)
  PROVE  (WaitingIsListed /\ NoLostWakeup)'
<1>1. /\ call'[c].pc # "select"
      /\ \A d \in Chan \ {c} : call'[d] = call[d]
  BY GotoElsewhere DEF WaitInv
<1>2. store \in Store
  BY DEF WaitInv, IInv, SoundIn
<1>3. /\ store'.workQueues = store.workQueues /\ store'.cancelQ = store.cancelQ
      /\ store.notify \ {c} \subseteq store'.notify
      /\ \A v \in Worker : store.waiters[v] \ {c} \subseteq store'.waiters[v]
  <2>1. CASE TakeToken(c)
    BY <1>2, <2>1 DEF TakeToken, Store
  <2>2. ASSUME NEW w \in Worker, RemoveWaiter(c, w)
        PROVE  /\ store'.workQueues = store.workQueues /\ store'.cancelQ = store.cancelQ
               /\ store.notify \ {c} \subseteq store'.notify
               /\ \A v \in Worker : store.waiters[v] \ {c} \subseteq store'.waiters[v]
    <3> DEFINE less == store.waiters[w] \ {c}
    <3>1. store' = [store EXCEPT !.waiters[w] = less, !.notify = store.notify \ {c}]
      BY <2>2 DEF RemoveWaiter
    <3> HIDE DEF less
    <3>2. /\ store'.workQueues = store.workQueues /\ store'.cancelQ = store.cancelQ
          /\ store'.notify = store.notify \ {c}
          /\ \A v \in Worker : store'.waiters[v] = IF v = w THEN less ELSE store.waiters[v]
      BY <1>2, <3>1 DEF Store
    <3>3. QED
      BY <3>2 DEF less
  <2>3. QED
    BY <2>1, <2>2
<1>4. \A d \in Chan : call'[d].pc = "select" =>
         d # c /\ call[d].pc = "select" /\ call'[d].worker = call[d].worker /\ call[d].worker \in Worker
  BY <1>1, ActiveCall DEF WaitInv
<1>5. QED
  BY <1>3, <1>4 DEF WaitInv, WaitingIsListed, NoLostWakeup

(* A call enters its select with a token if there are jobs. *)
LEMMA AddKeepsWaits ==
  ASSUME WaitInv, NEW c \in Chan, Add(c)
  PROVE  (WaitingIsListed /\ NoLostWakeup)'
<1> DEFINE w == call[c].worker
           tokens == IF store.workQueues[w] # << >> \/ store.cancelQ[w] # << >>
                     THEN store.notify \cup {c} ELSE store.notify
           more == store.waiters[w] \cup {c}
<1>1. store \in Store /\ w \in Worker
  BY ActiveCall DEF WaitInv, IInv, SoundIn, Add
<1>2. store' = [store EXCEPT !.waiters[w] = more, !.notify = tokens]
  BY DEF Add, AddWaiter
<1> HIDE DEF tokens, more
<1>3. /\ store'.workQueues = store.workQueues /\ store'.cancelQ = store.cancelQ
      /\ store'.notify = tokens
      /\ \A v \in Worker : store'.waiters[v] = IF v = w THEN more ELSE store.waiters[v]
  BY <1>1, <1>2 DEF Store
<1>4. /\ call'[c].worker = w
      /\ \A d \in Chan \ {c} : call'[d] = call[d]
  BY DEF Add, WaitInv, CallTypeOK, CallState, Idle
<1>5. /\ store.notify \subseteq tokens
      /\ store.workQueues[w] # << >> \/ store.cancelQ[w] # << >> => c \in tokens
      /\ store.waiters[w] \cup {c} = more
  BY DEF tokens, more
<1> HIDE DEF w
<1>6. \A d \in Chan \ {c} : call[d].pc = "select" => call[d].worker \in Worker
  BY ActiveCall DEF WaitInv
<1>7. WaitingIsListed'
  BY <1>1, <1>3, <1>4, <1>5, <1>6 DEF WaitInv, WaitingIsListed
<1>8. NoLostWakeup'
  BY <1>1, <1>3, <1>4, <1>5, <1>6 DEF WaitInv, NoLostWakeup
<1>9. QED
  BY <1>7, <1>8

LEMMA ClaimOrKeepsWaits ==
  ASSUME WaitInv, NEW c \in Chan, call[c].pc # "idle", NEW next \in Pc \ {"select"},
         ClaimOr(c, next)
  PROVE  (WaitingIsListed /\ NoLostWakeup)'
<1>1. call[c].worker \in Worker
  BY ActiveCall DEF WaitInv
<1>2. store \in Store
  BY DEF WaitInv, IInv, SoundIn
<1>3. Wakes(store', store)
  <2>1. CASE Claim(call[c].worker, call[c].n)
    BY <1>1, <1>2, <2>1, ClaimWakes
  <2>2. CASE UNCHANGED vars
    BY <2>2 DEF vars, Wakes
  <2>3. QED
    BY <2>1, <2>2 DEF ClaimOr
<1>4. PICK pc \in Pc \ {"select"} : Goto(c, pc)
  <2>1. "idle" \in Pc \ {"select"}
    BY DEF Pc
  <2>2. QED
    BY <2>1 DEF ClaimOr
<1>5. QED
  BY <1>3, <1>4, GotoKeepsWaits

LEMMA WaitInvStep ==
  ASSUME WaitInv, [WaitNext]_waitVars
  PROVE  (WaitingIsListed /\ NoLostWakeup)'
<1>1. ASSUME UNCHANGED vars PROVE Wakes(store', store)
  BY <1>1 DEF vars, Wakes
<1>2. ASSUME NEW c \in Chan, Start(c) PROVE (WaitingIsListed /\ NoLostWakeup)'
  <2>1. /\ UNCHANGED vars /\ call'[c].pc = "check"
        /\ \A d \in Chan \ {c} : call'[d] = call[d]
    BY <1>2 DEF Start, WaitInv, CallTypeOK
  <2>2. QED
    BY <1>1, <2>1, WakesKeepWaits
<1>3. ASSUME NEW c \in Chan, Step(c) PROVE (WaitingIsListed /\ NoLostWakeup)'
  <2>1. CASE CheckBlocked(c)
    BY <1>1, <2>1, GotoKeepsWaits DEF CheckBlocked, Pc
  <2>2. CASE FirstClaim(c)
    BY <2>2, ClaimOrKeepsWaits DEF FirstClaim, Pc
  <2>3. CASE LoopHead(c)
    BY <1>1, <2>3, GotoKeepsWaits DEF LoopHead, Pc
  <2>4. CASE LastClaim(c)
    BY <2>4, ClaimOrKeepsWaits DEF LastClaim, Pc
  <2>5. CASE LeaseDelay(c)
    <3>1. UNCHANGED vars
      BY <2>5 DEF LeaseDelay
    <3>2. CASE Goto(c, "loop")
      BY <1>1, <3>1, <3>2, GotoKeepsWaits DEF Pc
    <3>3. CASE ~ Goto(c, "loop")
      <4>1. PICK d : call' = [call EXCEPT ![c].pc = "add", ![c].timer = d]
        BY <2>5, <3>3 DEF LeaseDelay
      <4>2. call' = [call EXCEPT ![c] = [call[c] EXCEPT !.pc = "add", !.timer = d]]
        BY <4>1 DEF WaitInv, CallTypeOK
      <4>3. [call[c] EXCEPT !.pc = "add", !.timer = d].pc = "add"
        BY DEF WaitInv, CallTypeOK, CallState, Idle
      <4>4. call'[c].pc = "add" /\ \A e \in Chan \ {c} : call'[e] = call[e]
        BY <4>2, <4>3 DEF WaitInv, CallTypeOK
      <4>5. QED
        BY <1>1, <3>1, <4>4, WakesKeepWaits
    <3>4. QED
      BY <3>2, <3>3
  <2>6. CASE Add(c)
    BY <2>6, AddKeepsWaits
  <2>7. CASE TimerFires(c)
    BY <1>1, <2>7, GotoKeepsWaits DEF TimerFires, Pc
  <2>8. CASE Notified(c)
    BY <2>8, LeavingKeepsWaits DEF Notified, Pc
  <2>9. CASE Leave(c)
    <3>1. call[c].worker \in Worker
      BY <2>9, ActiveCall DEF Leave, WaitInv
    <3>2. QED
      BY <2>9, <3>1, LeavingKeepsWaits DEF Leave, Pc
  <2>10. CASE ClaimAgain(c)
    BY <2>10, ClaimOrKeepsWaits DEF ClaimAgain, Pc
  <2>11. QED
    BY <1>3, <2>1, <2>2, <2>3, <2>4, <2>5, <2>6, <2>7, <2>8, <2>9, <2>10 DEF Step
<1>4. ASSUME NEW c \in Chan, ContextDone(c) PROVE (WaitingIsListed /\ NoLostWakeup)'
  BY <1>1, <1>4, GotoKeepsWaits DEF ContextDone, Pc
<1>5. ASSUME NEW c \in Chan, DeadlinePasses(c) PROVE (WaitingIsListed /\ NoLostWakeup)'
  <2>1. UNCHANGED vars /\ call' = [call EXCEPT ![c] = [call[c] EXCEPT !.late = TRUE]]
    BY <1>5 DEF DeadlinePasses
  <2>2. /\ [call[c] EXCEPT !.late = TRUE].pc = call[c].pc
        /\ [call[c] EXCEPT !.late = TRUE].worker = call[c].worker
    BY DEF WaitInv, CallTypeOK, CallState, Idle
  <2>3. \A d \in Chan : call'[d].pc = call[d].pc /\ call'[d].worker = call[d].worker
    BY <2>1, <2>2 DEF WaitInv, CallTypeOK
  <2>4. QED
    BY <1>1, <2>1, <2>3, WakesKeepWaits
<1>6. ASSUME Others PROVE (WaitingIsListed /\ NoLostWakeup)'
  <2>1. Wakes(store', store)
    BY <1>6, OthersWake DEF WaitInv, IInv, SoundIn
  <2>2. UNCHANGED call
    BY <1>6 DEF Others
  <2>3. QED
    BY <2>1, <2>2, WakesKeepWaits
<1>7. ASSUME UNCHANGED waitVars PROVE (WaitingIsListed /\ NoLostWakeup)'
  BY <1>7 DEF waitVars, WaitInv, WaitingIsListed, NoLostWakeup
<1>8. QED
  BY <1>2, <1>3, <1>4, <1>5, <1>6, <1>7 DEF WaitNext

-----------------------------------------------------------------------------
(* Theorems. *)

(* The store stays sound and every call is at one of the program's positions. *)
THEOREM WaitsAreSound == WaitSpec => [](IInv /\ CallTypeOK)
<1>1. WaitInit => IInv /\ CallTypeOK
  BY InitSound, WaitTypeInit DEF WaitInit
<1>2. IInv /\ CallTypeOK /\ [WaitNext]_waitVars => (IInv /\ CallTypeOK)'
  BY WaitTypeStep, WaitStepIsStoreStep, StepSound
<1>3. QED
  BY <1>1, <1>2, PTL DEF WaitSpec

(* `call` always records, for every call, one of the program's positions. *)
THEOREM CallsAreTyped == WaitSpec => []CallTypeOK
<1>1. QED
  BY WaitsAreSound, PTL

(* The long poll implements the store's specification. *)
THEOREM WaitKeepsStore == WaitSpec => WaitsKeepStore
<1>1. WaitInit => Init
  BY DEF WaitInit
<1>2. CallTypeOK /\ [WaitNext]_waitVars => [Next]_vars
  BY WaitStepIsStoreStep
<1>3. QED
  BY <1>1, <1>2, CallsAreTyped, PTL DEF WaitSpec, WaitsKeepStore, Spec

(* So no task is lost, nor handed out twice, under any number of long polls. *)
THEOREM NoTaskIsLostInWaits == WaitSpec => []PendingIsPlaced
<1>1. QED
  BY WaitKeepsStore, NoTaskIsLost, PTL DEF WaitsKeepStore

(* No wakeup is lost, for any number of tasks, Workers and concurrent long polls: *)
(* a call in its select has a token whenever its Worker has queued jobs.          *)
THEOREM NoWakeupIsLost == WaitSpec => []NoLostWakeup
<1>1. WaitInit => WaitInv
  <2>1. WaitInit => WaitingIsListed /\ NoLostWakeup
    BY DEF WaitInit, WaitingIsListed, NoLostWakeup, Idle
  <2>2. QED
    BY <2>1, InitSound, WaitTypeInit DEF WaitInv, WaitInit
<1>2. WaitInv /\ [WaitNext]_waitVars => WaitInv'
  <2>1. WaitInv /\ [WaitNext]_waitVars => IInv' /\ CallTypeOK'
    BY WaitTypeStep, WaitStepIsStoreStep, StepSound DEF WaitInv
  <2>2. QED
    BY <2>1, WaitInvStep DEF WaitInv
<1>3. WaitInv => NoLostWakeup
  BY DEF WaitInv
<1>4. QED
  BY <1>1, <1>2, <1>3, PTL DEF WaitSpec

(***************************************************************************)
(* The delivery of tasks.                                                  *)
(***************************************************************************)
LEMMA DeliveryTypeInit == DeliveryInit => DeliveryTypeOK
<1>1. QED
  BY DEF DeliveryInit, DeliveryTypeOK

(* A job that was handed out belongs to a task and has a known outcome. *)
LEMMA JobFacts ==
  ASSUME DeliveryTypeOK, NEW d \in Delivery, exec[d].pc # "none"
  PROVE  /\ exec[d] \in Jobs
         /\ exec[d].task \in Task
         /\ Target[exec[d].task] \in Worker
         /\ exec[d].outcome \in {"running"} \cup Outcome
<1>1. exec[d] \in Jobs
  BY DEF DeliveryTypeOK, NoJob
<1>2. exec[d].task \in Task /\ exec[d].outcome \in {"running"} \cup Outcome
  BY <1>1 DEF Jobs
<1>3. QED
  BY <1>1, <1>2, TargetAssumption

LEMMA NewJobType ==
  ASSUME NEW pc \in ExecPc \ {"none"}, NEW t \in Task
  PROVE  Job(pc, t) \in Jobs
<1>1. QED
  BY DEF Job, Jobs

(* Changing one or more fields of a job leaves a job. *)
LEMMA JobUpdate ==
  ASSUME NEW e \in Jobs, NEW pc \in ExecPc \ {"none"}, NEW ran \in BOOLEAN,
         NEW r \in {"running"} \cup Outcome
  PROVE  /\ [e EXCEPT !.pc = pc] \in Jobs
         /\ [e EXCEPT !.aborted = TRUE] \in Jobs
         /\ [e EXCEPT !.pc = pc, !.outcome = r] \in Jobs
         /\ [e EXCEPT !.pc = pc, !.ran = ran] \in Jobs
<1>1. QED
  BY DEF Jobs

\* The shape of the Workers' side, without the link between posted and exec.
TypesOK ==
  /\ exec \in [Delivery -> {NoJob} \cup Jobs]
  /\ posted \subseteq Delivery \X ({"running"} \cup Outcome)
  /\ request \in [Task -> {"new", "checked", "idle", "cancelPending", "look",
                           "checkOnline", "enqueue"}]
  /\ online \subseteq Worker
  /\ sweep \in [Worker -> {"idle", "stale", "recovered"}]
  /\ taken \subseteq Delivery

LEMMA TypesStep ==
  ASSUME TypeOK, DeliveryTypeOK, [DeliveryNext]_deliveryVars
  PROVE  TypesOK'
<1> DEFINE JobsOK == exec \in [Delivery -> {NoJob} \cup Jobs]
<1>1. ASSUME NEW t \in Task, NEW from, NEW to,
             to \in {"new", "checked", "idle", "cancelPending", "look", "checkOnline", "enqueue"},
             Handler(t, from, to), UNCHANGED handlerUnchanged
      PROVE  TypesOK'
  BY <1>1 DEF Handler, handlerUnchanged, DeliveryTypeOK, TypesOK
<1>2. ASSUME NEW t \in Task,
             \/ DispatchCheck(t) \/ DispatchEnqueue(t) \/ CancelGet(t) \/ CancelTry(t)
             \/ CancelLook(t) \/ CancelCheckOnline(t) \/ CancelEnqueue(t)
      PROVE  TypesOK'
  <2>1. CASE DispatchCheck(t) \/ DispatchEnqueue(t)
    BY <2>1, <1>1 DEF DispatchCheck, DispatchEnqueue
  <2>2. CASE CancelGet(t) \/ CancelLook(t) \/ CancelCheckOnline(t)
    BY <2>2, <1>1 DEF CancelGet, CancelLook, CancelCheckOnline
  <2>3. CASE CancelTry(t) \/ CancelEnqueue(t)
    BY <2>3, <1>1 DEF CancelTry, CancelEnqueue
  <2>4. QED
    BY <1>2, <2>1, <2>2, <2>3
<1>3. ASSUME NEW w \in Worker, ClaimJobs(w) PROVE TypesOK'
  <2>1. JobsOK'
    <3>1. ASSUME NEW d \in Delivery PROVE exec'[d] \in {NoJob} \cup Jobs
      <4>1. CASE \E t \in Task : d > issued /\ store'.taskLeases[t].id = d
        <5>1. (CHOOSE t \in Task : store'.taskLeases[t].id = d) \in Task
          BY <4>1
        <5>2. Job("sent", CHOOSE t \in Task : store'.taskLeases[t].id = d) \in Jobs
          BY <5>1, NewJobType DEF ExecPc
        <5>3. exec'[d] = Job("sent", CHOOSE t \in Task : store'.taskLeases[t].id = d)
          BY <1>3, <4>1 DEF ClaimJobs
        <5>4. QED
          BY <5>2, <5>3
      <4>2. CASE /\ ~ \E t \in Task : d > issued /\ store'.taskLeases[t].id = d
                 /\ \E t \in Task : d > issued /\ store'.cancelLeases[t].id = d
        <5>1. (CHOOSE t \in Task : store'.cancelLeases[t].id = d) \in Task
          BY <4>2
        <5>2. Job("cancel", CHOOSE t \in Task : store'.cancelLeases[t].id = d) \in Jobs
          BY <5>1, NewJobType DEF ExecPc
        <5>3. exec'[d] = Job("cancel", CHOOSE t \in Task : store'.cancelLeases[t].id = d)
          BY <1>3, <4>2 DEF ClaimJobs
        <5>4. QED
          BY <5>2, <5>3
      <4>3. CASE /\ ~ \E t \in Task : d > issued /\ store'.taskLeases[t].id = d
                 /\ ~ \E t \in Task : d > issued /\ store'.cancelLeases[t].id = d
        <5>1. exec'[d] = exec[d]
          BY <1>3, <4>3 DEF ClaimJobs
        <5>2. QED
          BY <5>1 DEF DeliveryTypeOK
      <4>4. QED
        BY <4>1, <4>2, <4>3
    <3>2. QED
      BY <1>3, <3>1 DEF ClaimJobs
  <2>2. QED
    BY <1>3, <2>1 DEF ClaimJobs, masterVars, DeliveryTypeOK, TypesOK
<1>4. ASSUME NEW d \in Delivery,
             \/ LoseJob(d) \/ ArriveTask(d) \/ Finish(d) \/ Report(d)
      PROVE  TypesOK'
  <2>1. exec[d] \in Jobs
    <3>1. exec[d].pc # "none"
      BY <1>4 DEF LoseJob, ArriveTask, Finish, Report, Reporting
    <3>2. QED
      BY <3>1, JobFacts
  <2>2. \E e \in Jobs : exec' = [exec EXCEPT ![d] = e]
    <3>1. CASE LoseJob(d)
      BY <3>1, <2>1, JobUpdate DEF LoseJob, ExecPc
    <3>2. CASE ArriveTask(d)
      BY <3>2, <2>1, JobUpdate DEF ArriveTask, ExecPc
    <3>3. CASE Finish(d)
      <4>1. PICK r \in Outcome :
              exec' = [exec EXCEPT ![d].pc = "reporting", ![d].outcome = r]
        BY <3>3, CanceledAssumption DEF Finish
      <4>2. [exec[d] EXCEPT !.pc = "reporting", !.outcome = r] \in Jobs
        BY <2>1, JobUpdate DEF ExecPc
      <4>3. exec' = [exec EXCEPT ![d] = [exec[d] EXCEPT !.pc = "reporting", !.outcome = r]]
        BY <4>1
      <4>4. QED
        BY <4>2, <4>3
    <3>4. CASE Report(d)
      <4> DEFINE go == exec[d].pc = "confirming" /\ Accepts(d, "running")
                 pc == IF go THEN "working" ELSE "over"
                 ran == exec[d].ran \/ go
      <4>1. ran \in BOOLEAN /\ pc \in ExecPc \ {"none"}
        BY <2>1 DEF Jobs, ExecPc
      <4>2. [exec[d] EXCEPT !.pc = pc, !.ran = ran] \in Jobs
        <5> HIDE DEF pc, ran
        <5>1. QED
          BY <2>1, <4>1, JobUpdate
      <4>3. exec' = [exec EXCEPT ![d] = [exec[d] EXCEPT !.pc = pc, !.ran = ran]]
        BY <3>4 DEF Report
      <4>4. QED
        BY <4>2, <4>3
    <3>5. QED
      BY <1>4, <3>1, <3>2, <3>3, <3>4
  <2>3. JobsOK'
    BY <2>2 DEF DeliveryTypeOK
  <2>4. QED
    BY <1>4, <2>3 DEF LoseJob, ArriveTask, Finish, Report, masterVars, DeliveryTypeOK, TypesOK
<1>5. ASSUME NEW d \in Delivery, ArriveCancel(d) PROVE TypesOK'
  <2> DEFINE hit == IF exec[d].task \in Call THEN ActiveFor(exec[d].task) ELSE {}
  <2>1. ASSUME NEW e \in Delivery PROVE exec'[e] \in {NoJob} \cup Jobs
    <3>1. CASE e = d
      <4>1. exec[d] \in Jobs
        BY <1>5, JobFacts DEF ArriveCancel
      <4>2. [exec[d] EXCEPT !.pc = "over"] \in Jobs
        BY <4>1, JobUpdate DEF ExecPc
      <4>3. exec'[e] = [exec[d] EXCEPT !.pc = "over"]
        BY <1>5, <3>1 DEF ArriveCancel
      <4>4. QED
        BY <4>2, <4>3
    <3>2. CASE e # d /\ e \in hit
      <4>1. exec[e] \in Jobs
        BY <3>2, JobFacts DEF ActiveFor, Active
      <4>2. [exec[e] EXCEPT !.aborted = TRUE] \in Jobs
        BY <4>1 DEF Jobs
      <4>3. exec'[e] = [exec[e] EXCEPT !.aborted = TRUE]
        BY <1>5, <3>2 DEF ArriveCancel
      <4>4. QED
        BY <4>2, <4>3
    <3>3. CASE e # d /\ e \notin hit
      BY <1>5, <3>3 DEF ArriveCancel, DeliveryTypeOK
    <3>4. QED
      BY <3>1, <3>2, <3>3
  <2>2. JobsOK'
    BY <1>5, <2>1 DEF ArriveCancel
  <2>3. QED
    BY <1>5, <2>2 DEF ArriveCancel, masterVars, DeliveryTypeOK, TypesOK
<1>6. ASSUME NEW d \in Delivery, ReportUnanswered(d) PROVE TypesOK'
  <2>1. exec[d].outcome \in {"running"} \cup Outcome
    BY <1>6, JobFacts DEF ReportUnanswered, Reporting
  <2>2. QED
    BY <1>6, <2>1 DEF ReportUnanswered, masterVars, DeliveryTypeOK, TypesOK
<1>7. ASSUME NEW d \in Delivery, NEW r \in {"running"} \cup Outcome, TakeLate(d, r)
      PROVE  TypesOK'
  BY <1>7 DEF TakeLate, masterVars, DeliveryTypeOK, TypesOK
<1>8. ASSUME NEW w \in Worker, Crash(w) PROVE TypesOK'
  <2> DEFINE dead == {d \in Delivery : /\ exec[d].pc \in Active \cup {"sent", "cancel"}
                                       /\ Target[exec[d].task] = w}
  <2>1. ASSUME NEW d \in Delivery PROVE exec'[d] \in {NoJob} \cup Jobs
    <3>1. CASE d \in dead
      <4> DEFINE pc == IF exec[d].pc \in Active THEN "crashed" ELSE "over"
      <4>1. exec[d] \in Jobs
        BY <3>1, JobFacts DEF Active
      <4>2. [exec[d] EXCEPT !.pc = pc] \in Jobs
        BY <4>1, JobUpdate DEF ExecPc
      <4>3. exec'[d] = [exec[d] EXCEPT !.pc = pc]
        BY <1>8, <3>1 DEF Crash
      <4>4. QED
        BY <4>2, <4>3
    <3>2. CASE d \notin dead
      BY <1>8, <3>2 DEF Crash, DeliveryTypeOK
    <3>3. QED
      BY <3>1, <3>2
  <2>2. JobsOK'
    BY <1>8, <2>1 DEF Crash
  <2>3. QED
    BY <1>8, <2>2 DEF Crash, masterVars, DeliveryTypeOK, TypesOK
<1>9. ASSUME NEW w \in Worker, Heartbeat(w) \/ SweepMarkOffline(w) PROVE TypesOK'
  BY <1>9 DEF Heartbeat, SweepMarkOffline, workerVars, DeliveryTypeOK, TypesOK
<1>10. ASSUME NEW w \in Worker, SweepRecover(w) PROVE TypesOK'
  <2>1. ASSUME NEW t \in Open(store, w) PROVE store.deliveries[t] \in 0 .. MaxDelivery
    BY DEF Open, TypeOK, Store
  <2>2. {store.deliveries[t] : t \in Open(store, w)} \ {0} \subseteq Delivery
    BY <2>1, MaxDeliveryAssumption DEF Delivery
  <2>3. taken' \subseteq Delivery
    BY <1>10, <2>2 DEF SweepRecover, DeliveryTypeOK
  <2>4. QED
    BY <1>10, <2>3 DEF SweepRecover, workerVars, DeliveryTypeOK, TypesOK
<1>11. ASSUME SweepStale PROVE TypesOK'
  BY <1>11 DEF SweepStale, workerVars, DeliveryTypeOK, TypesOK
<1>12. ASSUME LeasesRunOut \/ UNCHANGED deliveryVars PROVE TypesOK'
  BY <1>12 DEF LeasesRunOut, deliveryVars, workerVars, masterVars, DeliveryTypeOK, TypesOK
<1>13. QED
  BY <1>2, <1>3, <1>4, <1>5, <1>6, <1>7, <1>8, <1>9, <1>10, <1>11, <1>12 DEF DeliveryNext

(* A delivery that was handed out stays so, whatever becomes of the job. *)
LEMMA JobsStay ==
  ASSUME DeliveryTypeOK, [DeliveryNext]_deliveryVars,
         NEW d \in Delivery, exec[d].pc # "none"
  PROVE  exec'[d].pc # "none"
<1>1. exec[d] \in Jobs /\ exec \in [Delivery -> {NoJob} \cup Jobs]
  BY JobFacts DEF DeliveryTypeOK
<1>2. ASSUME UNCHANGED exec PROVE exec'[d].pc # "none"
  BY <1>2
<1>3. ASSUME NEW t \in Task,
             \/ DispatchCheck(t) \/ DispatchEnqueue(t) \/ CancelGet(t) \/ CancelTry(t)
             \/ CancelLook(t) \/ CancelCheckOnline(t) \/ CancelEnqueue(t)
      PROVE  exec'[d].pc # "none"
  BY <1>2, <1>3 DEF DispatchCheck, DispatchEnqueue, CancelGet, CancelTry, CancelLook,
                    CancelCheckOnline, CancelEnqueue, handlerUnchanged
<1>4. ASSUME NEW w \in Worker, Heartbeat(w) \/ SweepRecover(w) \/ SweepMarkOffline(w)
      PROVE  exec'[d].pc # "none"
  BY <1>2, <1>4 DEF Heartbeat, SweepRecover, SweepMarkOffline, workerVars
<1>5. ASSUME NEW w \in Worker, ClaimJobs(w) PROVE exec'[d].pc # "none"
  BY <1>5 DEF ClaimJobs, Job
<1>6. ASSUME NEW w \in Worker, Crash(w) PROVE exec'[d].pc # "none"
  BY <1>1, <1>6 DEF Crash, Jobs
<1>7. ASSUME NEW e \in Delivery, LoseJob(e) \/ ArriveTask(e) \/ Finish(e) \/ Report(e)
      PROVE  exec'[d].pc # "none"
  <2>1. CASE e # d
    BY <1>1, <1>7, <2>1 DEF LoseJob, ArriveTask, Finish, Report
  <2>2. CASE e = d
    BY <1>1, <1>7, <2>2 DEF LoseJob, ArriveTask, Finish, Report, Jobs
  <2>3. QED
    BY <2>1, <2>2
<1>8. ASSUME NEW e \in Delivery, ArriveCancel(e) PROVE exec'[d].pc # "none"
  BY <1>1, <1>8 DEF ArriveCancel, Jobs
<1>9. ASSUME NEW e \in Delivery, NEW r \in {"running"} \cup Outcome,
             ReportUnanswered(e) \/ TakeLate(e, r)
      PROVE  exec'[d].pc # "none"
  BY <1>2, <1>9 DEF ReportUnanswered, TakeLate
<1>10. ASSUME SweepStale \/ LeasesRunOut \/ UNCHANGED deliveryVars
       PROVE  exec'[d].pc # "none"
  BY <1>2, <1>10 DEF SweepStale, LeasesRunOut, deliveryVars, workerVars
<1>11. QED
  BY <1>3, <1>4, <1>5, <1>6, <1>7, <1>8, <1>9, <1>10 DEF DeliveryNext

(* A report was posted by a job that was handed out. *)
LEMMA PostedStep ==
  ASSUME DeliveryTypeOK, [DeliveryNext]_deliveryVars, NEW p \in posted'
  PROVE  p \in posted \/ \E d \in Delivery : p[1] = d /\ exec[d].pc # "none"
<1>1. ASSUME NEW d \in Delivery, ReportUnanswered(d)
      PROVE  p \in posted \/ (p[1] = d /\ exec[d].pc # "none")
  BY <1>1 DEF ReportUnanswered, Reporting
<1>2. CASE \E d \in Delivery : ReportUnanswered(d)
  BY <1>1, <1>2
<1>3. CASE \E d \in Delivery, r \in {"running"} \cup Outcome : TakeLate(d, r)
  BY <1>3 DEF TakeLate
<1>4. CASE UNCHANGED posted
  BY <1>4
<1>5. \/ UNCHANGED posted
      \/ \E d \in Delivery : ReportUnanswered(d)
      \/ \E d \in Delivery, r \in {"running"} \cup Outcome : TakeLate(d, r)
  BY DEF DeliveryNext, deliveryVars, DispatchCheck, DispatchEnqueue, CancelGet, CancelTry,
         CancelLook, CancelCheckOnline, CancelEnqueue, handlerUnchanged, ClaimJobs, Crash,
         Heartbeat, SweepRecover, SweepMarkOffline, SweepStale, LeasesRunOut, workerVars,
         LoseJob, ArriveTask, ArriveCancel, Finish, Report
<1>6. QED
  BY <1>2, <1>3, <1>4, <1>5

LEMMA DeliveryTypeStep ==
  ASSUME TypeOK, DeliveryTypeOK, [DeliveryNext]_deliveryVars
  PROVE  DeliveryTypeOK'
<1>1. TypesOK'
  BY TypesStep
<1>2. ASSUME NEW p \in posted'
      PROVE  p \in {d \in Delivery : exec'[d].pc # "none"} \X ({"running"} \cup Outcome)
  <2>1. p \in Delivery \X ({"running"} \cup Outcome)
    BY <1>1, <1>2 DEF TypesOK
  <2>2. exec[p[1]].pc # "none"
    BY <1>2, PostedStep DEF DeliveryTypeOK
  <2>3. exec'[p[1]].pc # "none"
    BY <2>1, <2>2, JobsStay
  <2>4. QED
    BY <2>1, <2>3
<1>3. QED
  BY <1>1, <1>2 DEF TypesOK, DeliveryTypeOK

(* A report that reaches the Master is one call of ApplyResult. *)
LEMMA TakeIsStoreStep ==
  ASSUME DeliveryTypeOK, NEW d \in Delivery, exec[d].pc # "none",
         NEW r \in {"running"} \cup Outcome, Take(d, r)
  PROVE  Next
<1>1. exec[d].task \in Task /\ Target[exec[d].task] \in Worker
  BY JobFacts
<1>2. ApplyResult(exec[d].task, Target[exec[d].task], d, r)
  BY DEF Take
<1>3. QED
  BY <1>1, <1>2 DEF Next

(* Each step of the composition is a step of the store, or leaves it alone. *)
LEMMA DeliveryStepIsStoreStep ==
  ASSUME DeliveryTypeOK, [DeliveryNext]_deliveryVars
  PROVE  [Next]_vars
<1>1. ASSUME NEW t \in Task,
             \/ DispatchCheck(t) \/ DispatchEnqueue(t) \/ CancelGet(t) \/ CancelTry(t)
             \/ CancelLook(t) \/ CancelCheckOnline(t) \/ CancelEnqueue(t)
      PROVE  [Next]_vars
  BY <1>1 DEF DispatchCheck, DispatchEnqueue, CancelGet, CancelTry, CancelLook,
              CancelCheckOnline, CancelEnqueue, Next
<1>2. ASSUME NEW w \in Worker,
             \/ ClaimJobs(w) \/ Crash(w) \/ Heartbeat(w) \/ SweepRecover(w)
             \/ SweepMarkOffline(w)
      PROVE  [Next]_vars
  BY <1>2 DEF ClaimJobs, Crash, Heartbeat, SweepRecover, SweepMarkOffline, Next
<1>3. ASSUME NEW d \in Delivery,
             \/ LoseJob(d) \/ ArriveTask(d) \/ ArriveCancel(d) \/ Finish(d)
             \/ ReportUnanswered(d)
      PROVE  [Next]_vars
  BY <1>3 DEF LoseJob, ArriveTask, ArriveCancel, Finish, ReportUnanswered
<1>4. ASSUME NEW d \in Delivery, Report(d) PROVE [Next]_vars
  <2>1. exec[d].pc # "none" /\ Take(d, exec[d].outcome)
    BY <1>4 DEF Report, Reporting
  <2>2. QED
    BY <2>1, JobFacts, TakeIsStoreStep
<1>5. ASSUME NEW d \in Delivery, NEW r \in {"running"} \cup Outcome, TakeLate(d, r)
      PROVE  [Next]_vars
  BY <1>5, TakeIsStoreStep DEF TakeLate, DeliveryTypeOK
<1>6. ASSUME SweepStale \/ LeasesRunOut \/ UNCHANGED deliveryVars PROVE [Next]_vars
  BY <1>6 DEF SweepStale, LeasesRunOut, deliveryVars, vars, Next
<1>7. QED
  BY <1>1, <1>2, <1>3, <1>4, <1>5, <1>6 DEF DeliveryNext

-----------------------------------------------------------------------------
(* The inductive invariant: how far a job is, what it has posted and which   *)
(* delivery the store knows its task by go together.                         *)

\* A job that is not done knows its outcome once it has run.
JobIn(d) ==
  /\ exec[d].pc # "none" => d <= issued
  /\ exec[d].pc \in {"sent", "cancel", "confirming"} =>
       ~ exec[d].ran /\ exec[d].outcome = "running"
  /\ exec[d].pc = "working" => exec[d].ran /\ exec[d].outcome = "running"
  /\ exec[d].pc = "reporting" => exec[d].ran /\ exec[d].outcome \in Outcome

\* A late `running` finds its sender waiting or dead as long as it can start
\* the task; a late result is that of a run.
PostIn(p) ==
  LET e == exec[p[1]]
  IN  /\ p[2] = "running" /\ store.taskLeases[e.task].id = p[1]
           => e.pc \in {"confirming", "crashed"}
      /\ p[2] # "running" => e.ran /\ e.outcome = p[2]

\* A delivery that ran is the one its task is known by, or was taken back, and
\* the task has had no older number since.
RunIn(d) ==
  exec[d].pc # "none" /\ exec[d].ran =>
    /\ d \in taken \/ store.deliveries[exec[d].task] = d
    /\ \A n \in Numbers(store, exec[d].task) : d <= n

HeldIn(t) ==
  store.status[t] = "running" =>
    LET e == exec[store.deliveries[t]]
    IN  e.pc \in Active \cup {"crashed"} /\ e.task = t

EarnedIn(t) ==
  store.status[t] \in Terminal /\ store.deliveries[t] # 0 =>
    LET e == exec[store.deliveries[t]]
    IN  e.pc # "none" /\ e.task = t /\ e.ran /\ e.outcome = store.status[t]

DeliveryInv ==
  /\ \A d \in Delivery : JobIn(d) /\ RunIn(d)
  /\ \A p \in posted : PostIn(p)
  /\ \A t \in Task : HeldIn(t) /\ EarnedIn(t)

(* What the soundness of the store says of one task's numbers. *)
LEMMA TaskFacts ==
  ASSUME IInv, NEW t \in Task
  PROVE  /\ issued \in Nat /\ issued <= MaxDelivery /\ overdue \in Nat
         /\ store.deliveries[t] \in 0 .. issued /\ store.taskLeases[t].id \in 0 .. issued
         /\ store.status[t] \in Status
         /\ store.status[t] = "running" => store.deliveries[t] \in Delivery
         /\ store.deliveries[t] # 0 => store.deliveries[t] \in Delivery
         /\ store.status[t] # "pending" => store.taskLeases[t] = NoLease
         /\ store.status[t] \in {"absent", "pending"} => store.deliveries[t] = 0
         /\ store.taskLeases[t].id # 0 =>
              /\ store.status[t] = "pending" /\ store.taskLeases[t].id \in Delivery
              /\ store.taskLeases[t] = [id |-> store.taskLeases[t].id, worker |-> Target[t]]
<1>1. issued \in 0 .. MaxDelivery /\ overdue \in 0 .. issued /\ SoundIn(store, issued)
  BY DEF IInv
<1>2. /\ store.deliveries[t] \in 0 .. MaxDelivery /\ store.taskLeases[t] \in Lease
      /\ store.status[t] \in Status
  BY <1>1 DEF SoundIn, Store
<1>3. Numbers(store, t) \subseteq 1 .. issued
  BY <1>1 DEF SoundIn, DeliveriesIn
<1>4. store.deliveries[t] \in 0 .. issued /\ store.taskLeases[t].id \in 0 .. issued
  BY <1>1, <1>2, <1>3, MaxDeliveryAssumption DEF Numbers
<1>5. /\ store.status[t] = "running" => store.deliveries[t] # 0
      /\ store.status[t] \in {"absent", "pending"} => store.deliveries[t] = 0
  BY <1>1 DEF SoundIn, DeliveriesIn
<1>6. /\ store.taskLeases[t] # NoLease => store.status[t] = "pending"
      /\ store.taskLeases[t].id # 0 =>
           store.taskLeases[t] = [id |-> store.taskLeases[t].id, worker |-> Target[t]]
  <2>1. store.taskLeases[t] # NoLease =>
          /\ store.status[t] = "pending"
          /\ store.taskLeases[t] \in [id : 1 .. issued, worker : {Target[t]}]
    BY <1>1 DEF SoundIn, TaskLeasesIn
  <2>2. store.taskLeases[t].id # 0 => store.taskLeases[t] # NoLease
    BY DEF NoLease
  <2>3. QED
    BY <2>1, <2>2
<1>7. \A n \in 0 .. issued : n # 0 => n \in Delivery
  BY <1>1, MaxDeliveryAssumption DEF Delivery
<1>8. QED
  BY <1>1, <1>2, <1>4, <1>5, <1>6, <1>7, MaxDeliveryAssumption DEF NoLease

LEMMA DeliveryInvInit == DeliveryInit => DeliveryInv
<1> SUFFICES ASSUME DeliveryInit PROVE DeliveryInv
  OBVIOUS
<1>1. /\ \A d \in Delivery : exec[d].pc = "none"
      /\ posted = {} /\ \A t \in Task : store.status[t] = "absent"
  BY DEF DeliveryInit, NoJob, Init, NewStore
<1>2. QED
  BY <1>1 DEF DeliveryInv, JobIn, RunIn, HeldIn, EarnedIn, Terminal

-----------------------------------------------------------------------------
(* Steps of the store that no job takes part in: each task stays, is queued, *)
(* or is returned after its run, if it had one, was taken back.              *)

LEMMA StoreAloneKeeps ==
  ASSUME IInv, IInv', DeliveryTypeOK, DeliveryInv, UNCHANGED << exec, posted, issued >>,
         taken \subseteq taken',
         \A t \in Task :
           \/ Stays(store', store, t) \/ Queued(store', store, t)
           \/ /\ Returned(store', store, t)
              /\ store.deliveries[t] = 0 \/ store.deliveries[t] \in taken'
  PROVE  DeliveryInv'
<1>1. ASSUME NEW t \in Task
      PROVE  /\ Numbers(store', t) \subseteq Numbers(store, t)
             /\ store'.taskLeases[t].id # 0 => store'.taskLeases[t].id = store.taskLeases[t].id
             /\ store'.deliveries[t] = store.deliveries[t] \/ store.deliveries[t] \in taken'
                  \/ store.deliveries[t] = 0
             /\ store'.deliveries[t] # 0 => store'.deliveries[t] = store.deliveries[t]
             /\ store'.status[t] = "running" =>
                  store.status[t] = "running" /\ store'.deliveries[t] = store.deliveries[t]
             /\ store'.status[t] \in Terminal /\ store'.deliveries[t] # 0 =>
                  /\ store'.status[t] = store.status[t]
                  /\ store'.deliveries[t] = store.deliveries[t]
  BY DEF Stays, Queued, Returned, Numbers, NoLease, Terminal
<1>2. ASSUME NEW d \in Delivery PROVE JobIn(d)' /\ RunIn(d)'
  <2>1. JobIn(d) /\ RunIn(d)
    BY DEF DeliveryInv
  <2>2. JobIn(d)'
    BY <2>1 DEF JobIn
  <2>3. RunIn(d)'
    <3>1. SUFFICES ASSUME exec[d].pc # "none", exec[d].ran
                   PROVE  /\ d \in taken' \/ store'.deliveries[exec[d].task] = d
                          /\ \A n \in Numbers(store', exec[d].task) : d <= n
      BY DEF RunIn
    <3>2. exec[d].task \in Task
      BY <3>1, JobFacts
    <3>3. /\ d \in taken \/ store.deliveries[exec[d].task] = d
          /\ \A n \in Numbers(store, exec[d].task) : d <= n
      BY <2>1, <3>1 DEF RunIn
    <3>4. d # 0
      BY DEF Delivery
    <3>5. QED
      BY <1>1, <3>2, <3>3, <3>4
  <2>4. QED
    BY <2>2, <2>3
<1>3. ASSUME NEW p \in posted PROVE PostIn(p)'
  <2>1. p[1] \in Delivery /\ exec[p[1]].pc # "none" /\ exec[p[1]].task \in Task /\ p[1] # 0
    BY <1>3, JobFacts DEF DeliveryTypeOK, Delivery
  <2>2. PostIn(p)
    BY <1>3 DEF DeliveryInv
  <2>3. QED
    BY <1>1, <2>1, <2>2 DEF PostIn
<1>4. ASSUME NEW t \in Task PROVE HeldIn(t)' /\ EarnedIn(t)'
  <2>1. HeldIn(t) /\ EarnedIn(t)
    BY DEF DeliveryInv
  <2>2. QED
    BY <1>1, <2>1 DEF HeldIn, EarnedIn
<1>5. QED
  BY <1>2, <1>3, <1>4 DEF DeliveryInv

-----------------------------------------------------------------------------
(* Steps of the Workers that the store takes no part in. *)

\* Job d is lost or arrives, is aborted, comes to its outcome, or dies.
Lives(d) ==
  /\ exec'[d].pc # "none" /\ exec'[d].task = exec[d].task /\ exec'[d].ran = exec[d].ran
  /\ \/ exec'[d].pc = exec[d].pc /\ exec'[d].outcome = exec[d].outcome
     \/ /\ exec[d].pc \in {"sent", "cancel"} /\ exec'[d].pc \in {"over", "confirming"}
        /\ exec'[d].outcome = exec[d].outcome
     \/ /\ exec[d].pc = "working" /\ exec'[d].pc = "reporting"
        /\ exec'[d].outcome \in Outcome
     \/ /\ exec[d].pc \in Active /\ exec'[d].pc = "crashed"
        /\ exec'[d].outcome = exec[d].outcome

LEMMA JobsLive ==
  ASSUME DeliveryTypeOK,
         \/ \E d \in Delivery : LoseJob(d) \/ ArriveTask(d) \/ ArriveCancel(d) \/ Finish(d)
         \/ \E w \in Worker : Crash(w),
         NEW e \in Delivery
  PROVE  IF exec[e].pc = "none" THEN exec'[e] = exec[e] ELSE Lives(e)
<1>1. exec \in [Delivery -> {NoJob} \cup Jobs] /\ (exec[e].pc # "none" => exec[e] \in Jobs)
  BY JobFacts DEF DeliveryTypeOK
<1>2. ASSUME NEW d \in Delivery, LoseJob(d)
      PROVE  IF exec[e].pc = "none" THEN exec'[e] = exec[e] ELSE Lives(e)
  BY <1>1, <1>2 DEF LoseJob, Lives, Jobs
<1>3. ASSUME NEW d \in Delivery, ArriveTask(d)
      PROVE  IF exec[e].pc = "none" THEN exec'[e] = exec[e] ELSE Lives(e)
  BY <1>1, <1>3 DEF ArriveTask, Lives, Jobs
<1>4. ASSUME NEW d \in Delivery, ArriveCancel(d)
      PROVE  IF exec[e].pc = "none" THEN exec'[e] = exec[e] ELSE Lives(e)
  <2>1. \/ e = d /\ exec'[e] = [exec[e] EXCEPT !.pc = "over"] /\ exec[e].pc = "cancel"
        \/ exec'[e] = [exec[e] EXCEPT !.aborted = TRUE] /\ exec[e].pc \in Active
        \/ exec'[e] = exec[e]
    BY <1>4 DEF ArriveCancel, ActiveFor
  <2>2. QED
    BY <1>1, <2>1 DEF Lives, Jobs, Active
<1>5. ASSUME NEW d \in Delivery, Finish(d)
      PROVE  IF exec[e].pc = "none" THEN exec'[e] = exec[e] ELSE Lives(e)
  <2>1. PICK r \in Outcome : exec' = [exec EXCEPT ![d].pc = "reporting", ![d].outcome = r]
    BY <1>5, CanceledAssumption DEF Finish
  <2>2. exec[d].pc = "working"
    BY <1>5 DEF Finish
  <2>3. QED
    BY <1>1, <2>1, <2>2 DEF Lives, Jobs
<1>6. ASSUME NEW w \in Worker, Crash(w)
      PROVE  IF exec[e].pc = "none" THEN exec'[e] = exec[e] ELSE Lives(e)
  <2>1. \/ exec'[e] = exec[e]
        \/ exec[e].pc \in Active /\ exec'[e] = [exec[e] EXCEPT !.pc = "crashed"]
        \/ exec[e].pc \in {"sent", "cancel"} /\ exec'[e] = [exec[e] EXCEPT !.pc = "over"]
    BY <1>6 DEF Crash, Active
  <2>2. QED
    BY <1>1, <2>1 DEF Lives, Jobs, Active
<1>7. QED
  BY <1>2, <1>3, <1>4, <1>5, <1>6

LEMMA JobsAloneKeep ==
  ASSUME IInv, DeliveryTypeOK, DeliveryInv, UNCHANGED << store, issued, taken, posted >>,
         \A d \in Delivery : IF exec[d].pc = "none" THEN exec'[d] = exec[d] ELSE Lives(d)
  PROVE  DeliveryInv'
<1>1. ASSUME NEW d \in Delivery PROVE JobIn(d)' /\ RunIn(d)'
  <2>1. JobIn(d) /\ RunIn(d)
    BY DEF DeliveryInv
  <2>2. CASE exec[d].pc = "none"
    BY <2>1, <2>2 DEF JobIn, RunIn, Numbers
  <2>3. CASE exec[d].pc # "none"
    <3>1. Lives(d)
      BY <2>3
    <3>2. JobIn(d)'
      BY <2>1, <2>3, <3>1 DEF JobIn, Lives, Active
    <3>3. RunIn(d)'
      BY <2>1, <2>3, <3>1 DEF RunIn, Lives, Numbers
    <3>4. QED
      BY <3>2, <3>3
  <2>4. QED
    BY <2>2, <2>3
<1>2. ASSUME NEW p \in posted PROVE PostIn(p)'
  <2>1. p[1] \in Delivery /\ exec[p[1]].pc # "none"
    BY <1>2 DEF DeliveryTypeOK
  <2>2. PostIn(p) /\ JobIn(p[1]) /\ Lives(p[1])
    BY <1>2, <2>1 DEF DeliveryInv
  <2>3. QED
    BY <2>2 DEF PostIn, JobIn, Lives, Active
<1>3. ASSUME NEW t \in Task PROVE HeldIn(t)' /\ EarnedIn(t)'
  <2>1. HeldIn(t) /\ EarnedIn(t) /\ store.status[t] \in Status
    BY TaskFacts DEF DeliveryInv
  <2>2. ASSUME store.deliveries[t] # 0
        PROVE  /\ store.deliveries[t] \in Delivery
               /\ JobIn(store.deliveries[t])
               /\ exec[store.deliveries[t]].pc # "none" => Lives(store.deliveries[t])
               /\ exec[store.deliveries[t]].pc = "none" =>
                    exec'[store.deliveries[t]] = exec[store.deliveries[t]]
    BY <2>2, TaskFacts DEF DeliveryInv
  <2>3. HeldIn(t)'
    <3>1. SUFFICES ASSUME store.status[t] = "running"
                   PROVE  /\ exec'[store.deliveries[t]].pc \in Active \cup {"crashed"}
                          /\ exec'[store.deliveries[t]].task = t
      BY DEF HeldIn
    <3>2. store.deliveries[t] # 0
      <4>1. store.deliveries[t] \in Delivery
        BY <3>1, TaskFacts
      <4>2. QED
        BY <4>1 DEF Delivery
    <3>3. /\ exec[store.deliveries[t]].pc \in Active \cup {"crashed"}
          /\ exec[store.deliveries[t]].task = t
      BY <2>1, <3>1 DEF HeldIn
    <3>4. Lives(store.deliveries[t])
      BY <2>2, <3>2, <3>3 DEF Active
    <3>5. QED
      BY <3>3, <3>4 DEF Lives, Active
  <2>4. EarnedIn(t)'
    <3>1. SUFFICES ASSUME store.status[t] \in Terminal, store.deliveries[t] # 0
                   PROVE  /\ exec'[store.deliveries[t]].pc # "none"
                          /\ exec'[store.deliveries[t]].task = t
                          /\ exec'[store.deliveries[t]].ran
                          /\ exec'[store.deliveries[t]].outcome = store.status[t]
      BY DEF EarnedIn
    <3>2. /\ exec[store.deliveries[t]].pc # "none"
          /\ exec[store.deliveries[t]].task = t /\ exec[store.deliveries[t]].ran
          /\ exec[store.deliveries[t]].outcome = store.status[t]
      BY <2>1, <3>1 DEF EarnedIn
    <3>3. QED
      BY <2>2, <3>1, <3>2 DEF Lives, JobIn, Terminal
  <2>5. QED
    BY <2>3, <2>4
<1>4. QED
  BY <1>1, <1>2, <1>3 DEF DeliveryInv

LEMMA UnansweredKeeps ==
  ASSUME DeliveryTypeOK, DeliveryInv, NEW d \in Delivery, ReportUnanswered(d)
  PROVE  DeliveryInv'
<1>1. /\ UNCHANGED << store, issued, taken, exec >> /\ Reporting(d)
      /\ \A p \in posted' : p \in posted \/ p = << d, exec[d].outcome >>
  BY DEF ReportUnanswered, vars, masterVars
<1>2. ASSUME NEW p \in posted' PROVE PostIn(p)'
  <2>1. CASE p \in posted
    BY <1>1, <2>1 DEF DeliveryInv, PostIn
  <2>2. CASE p = << d, exec[d].outcome >>
    <3>1. JobIn(d) /\ p[1] = d /\ p[2] = exec[d].outcome
      BY <2>2 DEF DeliveryInv
    <3>2. QED
      BY <1>1, <3>1, OutcomeAssumption DEF JobIn, PostIn, Reporting, Terminal
  <2>3. QED
    BY <1>1, <2>1, <2>2
<1>3. QED
  BY <1>1, <1>2 DEF DeliveryInv, JobIn, RunIn, HeldIn, EarnedIn, Numbers

-----------------------------------------------------------------------------
(* Reports. *)

(* The answer to a report does not depend on the order in which leases are reaped. *)
LEMMA VerdictDetermined ==
  ASSUME NEW s, NEW last, SoundIn(s, last), NEW t \in Task, NEW w \in Worker, NEW d, NEW o,
         NEW m \in Reaped(s, w), NEW n \in Reaped(s, w)
  PROVE  Verdict(m, t, w, d, o) = Verdict(n, t, w, d, o)
<1>1. /\ m.status[t] = n.status[t] /\ m.deliveries[t] = n.deliveries[t]
      /\ m.taskLeases[t] = n.taskLeases[t]
  BY ReapTasks
<1>2. QED
  BY <1>1 DEF Verdict

(* A task has the status of a report that was accepted. *)
LEMMA AppliedStatus ==
  ASSUME NEW s \in Store, NEW t \in Task, NEW w \in Worker, NEW d \in Delivery,
         NEW o \in {"running"} \cup Outcome
  PROVE  Applied(s, t, w, d, o).status[t] = o
<1>1. CASE s.status[t] = o
  BY <1>1 DEF Applied
<1>2. CASE s.status[t] # o /\ o = "running"
  <2> DEFINE r == RemoveWork([s EXCEPT !.status[t] = "running", !.taskLeases[t] = NoLease,
                                       !.deliveries[t] = d], w, {t})
  <2>1. Applied(s, t, w, d, o) = r
    BY <1>2 DEF Applied
  <2>2. Fields(r, [s.status EXCEPT ![t] = "running"], s.pending,
               [s.workQueues EXCEPT ![w] = Without(s.workQueues[w], {t})], s.cancelQ,
               s.cancelSet, [s.taskLeases EXCEPT ![t] = NoLease], s.cancelLeases,
               [s.deliveries EXCEPT ![t] = d])
    BY StartFields
  <2> HIDE DEF r
  <2>3. QED
    BY <1>2, <2>1, <2>2 DEF Fields, Store
<1>3. CASE s.status[t] # o /\ o # "running"
  <2> DEFINE r == NotifyResult(RemoveCancel([s EXCEPT !.status[t] = o, !.taskLeases[t] = NoLease],
                                            w, {t}), t, o)
  <2>1. Applied(s, t, w, d, o) = r
    BY <1>3 DEF Applied
  <2>2. o \in Terminal
    BY <1>3, OutcomeAssumption
  <2>3. Fields(r, [s.status EXCEPT ![t] = o],
               [s.pending EXCEPT ![t] = IF s.pending[t] = "empty" THEN o ELSE s.pending[t]],
               s.workQueues,
               [s.cancelQ EXCEPT ![w] = Without(s.cancelQ[w], {t})],
               [s.cancelSet EXCEPT ![w] = s.cancelSet[w] \ {t}],
               [s.taskLeases EXCEPT ![t] = NoLease], Revoke(s.cancelLeases, {t}), s.deliveries)
    BY <2>2, EndFields
  <2> HIDE DEF r
  <2>4. QED
    BY <2>1, <2>3 DEF Fields, Store
<1>4. QED
  BY <1>1, <1>2, <1>3

(* A report moves no task but its own, and its own only as ReportMoves says. *)
LEMMA TakeMoves ==
  ASSUME IInv, NEW t \in Task, NEW d \in Delivery, NEW o \in {"running"} \cup Outcome,
         ApplyResult(t, Target[t], d, o), NEW u \in Task
  PROVE  /\ issued' = issued
         /\ \/ Stays(store', store, u)
            \/ u = t /\ o = "running" /\ Started(store', store, t, Target[t], d)
            \/ u = t /\ o \in Outcome /\ Ended(store', store, t, Target[t], d, o)
<1>1. SoundIn(store, issued) /\ issued \in Nat /\ overdue \in Nat /\ Target[t] \in Worker
  BY MaxDeliveryAssumption, TargetAssumption DEF IInv
<1>2. PICK m \in Reaped(store, Target[t]) :
        store' = IF Verdict(m, t, Target[t], d, o) = "ok"
                 THEN Applied(m, t, Target[t], d, o) ELSE m
  BY DEF ApplyResult
<1>3. QED
  BY <1>1, <1>2, ReportMoves DEF ApplyResult

(* What a Worker concludes from the answer: an accepted `running` means that the *)
(* task runs under its delivery; after a rejected one, or a result, it does not, *)
(* nor is it on offer under that delivery.                                       *)
LEMMA TakeAnswers ==
  ASSUME IInv, NEW t \in Task, NEW d \in Delivery, NEW o \in {"running"} \cup Outcome,
         ApplyResult(t, Target[t], d, o)
  PROVE  IF o = "running" /\ \E m \in Reaped(store, Target[t]) :
                               Verdict(m, t, Target[t], d, o) = "ok"
         THEN store'.status[t] = "running" /\ store'.deliveries[t] = d
         ELSE /\ store'.status[t] = "running" => store'.deliveries[t] # d
              /\ o = "running" => store'.taskLeases[t].id # d
<1>1. SoundIn(store, issued) /\ issued \in Nat /\ Target[t] \in Worker
  BY MaxDeliveryAssumption, TargetAssumption DEF IInv
<1>2. PICK m \in Reaped(store, Target[t]) :
        store' = IF Verdict(m, t, Target[t], d, o) = "ok"
                 THEN Applied(m, t, Target[t], d, o) ELSE m
  BY DEF ApplyResult
<1>3. SoundIn(m, issued) /\ m \in Store
  BY <1>1, ReapSound DEF SoundIn
<1>4. CASE Verdict(m, t, Target[t], d, o) = "ok"
  <2>1. store'.status[t] = o
    BY <1>1, <1>2, <1>3, <1>4, AppliedStatus
  <2>2. CASE o = "running"
    <3>1. \/ Stays(store', store, t)
          \/ Started(store', store, t, Target[t], d)
      BY <2>2, TakeMoves, OutcomeAssumption DEF Terminal
    <3>2. CASE Stays(store', store, t)
      <4>1. store.status[t] = "running" /\ store'.deliveries[t] = store.deliveries[t]
        BY <2>1, <2>2, <3>2 DEF Stays
      <4>2. m.status[t] = "running" /\ m.deliveries[t] = store.deliveries[t]
        BY <1>1, <4>1, ReapTasks
      <4>3. m.deliveries[t] = d
        <5>1. /\ Target[t] = Target[t]
              /\ \/ m.status[t] = o /\ m.deliveries[t] = d
                 \/ /\ m.status[t] = "pending" /\ o = "running"
                    /\ m.taskLeases[t] = [id |-> d, worker |-> Target[t]]
                 \/ m.status[t] = "running" /\ o \in Outcome /\ m.deliveries[t] = d
          BY <1>1, <1>3, <1>4, VerdictOk
        <5>2. QED
          BY <4>2, <5>1
      <4>4. QED
        BY <1>2, <1>4, <2>1, <2>2, <4>1, <4>2, <4>3
    <3>3. CASE Started(store', store, t, Target[t], d)
      BY <1>2, <1>4, <2>2, <3>3 DEF Started
    <3>4. QED
      BY <3>1, <3>2, <3>3
  <2>3. CASE o # "running"
    BY <2>1, <2>3
  <2>4. QED
    BY <2>2, <2>3
<1>5. CASE Verdict(m, t, Target[t], d, o) # "ok"
  <2>1. store' = m
    BY <1>2, <1>5
  <2>2. ~ \E n \in Reaped(store, Target[t]) : Verdict(n, t, Target[t], d, o) = "ok"
    BY <1>1, <1>5, VerdictDetermined
  <2>3. m.status[t] = "running" => m.deliveries[t] # d
    BY <1>5 DEF Verdict, Terminal
  <2>4. ASSUME o = "running", m.taskLeases[t].id = d PROVE FALSE
    <3>1. m.taskLeases[t] # NoLease
      BY <2>4 DEF NoLease, Delivery
    <3>2. /\ m.status[t] = "pending"
          /\ m.taskLeases[t] \in [id : 1 .. issued, worker : {Target[t]}]
      BY <1>3, <3>1 DEF SoundIn, TaskLeasesIn
    <3>3. m.taskLeases[t] = [id |-> d, worker |-> Target[t]]
      BY <2>4, <3>2
    <3>4. QED
      BY <1>5, <2>4, <3>2, <3>3 DEF Verdict, Terminal
  <2>5. QED
    BY <2>1, <2>2, <2>3, <2>4
<1>6. QED
  BY <1>4, <1>5

(* Job d has become e while the Master took a report of status o from it. *)
LEMMA TakeKeeps ==
  ASSUME IInv, DeliveryTypeOK, DeliveryInv, NEW d \in Delivery, exec[d].pc # "none",
         NEW o \in {"running"} \cup Outcome, Take(d, o),
         o = "running" \/ (exec[d].ran /\ exec[d].outcome = o),
         posted' \subseteq posted, UNCHANGED taken,
         NEW e \in Jobs, exec' = [exec EXCEPT ![d] = e],
         e.task = exec[d].task, e.outcome = exec[d].outcome,
         \/ e.pc \in {exec[d].pc, "over"} /\ e.ran = exec[d].ran
         \/ /\ exec[d].pc = "confirming" /\ e.pc = "working" /\ e.ran
            /\ store'.status[e.task] = "running" /\ store'.deliveries[e.task] = d,
         store'.taskLeases[e.task].id = d =>
           exec[d].pc \notin {"confirming", "crashed"} \/ e.pc = exec[d].pc,
         store'.status[e.task] = "running" /\ store'.deliveries[e.task] = d
           => e.pc \in Active \cup {"crashed"}
  PROVE  DeliveryInv'
<1> DEFINE t == e.task
<1>1. /\ t \in Task /\ d \in Nat /\ d # 0 /\ ApplyResult(t, Target[t], d, o)
      /\ exec \in [Delivery -> {NoJob} \cup Jobs]
  BY JobFacts DEF Take, Delivery, DeliveryTypeOK
<1>2. \A f \in Delivery : exec'[f] = IF f = d THEN e ELSE exec[f]
  BY <1>1
<1> HIDE DEF t
<1>3. /\ issued' = issued
      /\ \A u \in Task : \/ Stays(store', store, u)
                         \/ u = t /\ o = "running" /\ Started(store', store, t, Target[t], d)
                         \/ u = t /\ o \in Outcome /\ Ended(store', store, t, Target[t], d, o)
  BY <1>1, TakeMoves
<1>4. ASSUME NEW u \in Task
      PROVE  /\ Numbers(store', u) \subseteq Numbers(store, u)
             /\ store.deliveries[u] # 0 => store'.deliveries[u] = store.deliveries[u]
             /\ store'.taskLeases[u].id # 0 => store'.taskLeases[u].id = store.taskLeases[u].id
             /\ store'.status[u] = "running" => store'.taskLeases[u].id = 0
  <2>1. /\ store.status[u] = "pending" => store.deliveries[u] = 0
        /\ store.status[u] = "running" => store.taskLeases[u] = NoLease
    BY TaskFacts
  <2>2. CASE Stays(store', store, u)
    BY <2>1, <2>2 DEF Stays, Numbers, NoLease
  <2>3. CASE u = t /\ Started(store', store, t, Target[t], d)
    BY <2>1, <2>3 DEF Started, Numbers, NoLease
  <2>4. CASE u = t /\ Ended(store', store, t, Target[t], d, o)
    BY <2>1, <2>4 DEF Ended, Numbers, NoLease
  <2>5. QED
    BY <1>3, <2>2, <2>3, <2>4
<1>5. ASSUME NEW f \in Delivery PROVE JobIn(f)' /\ RunIn(f)'
  <2>1. JobIn(f) /\ RunIn(f)
    BY DEF DeliveryInv
  <2>2. JobIn(f)'
    BY <1>2, <1>3, <2>1 DEF JobIn
  <2>3. RunIn(f)'
    <3>1. SUFFICES ASSUME exec'[f].pc # "none", exec'[f].ran
                   PROVE  /\ f \in taken \/ store'.deliveries[exec'[f].task] = f
                          /\ \A n \in Numbers(store', exec'[f].task) : f <= n
      BY DEF RunIn
    <3>2. CASE exec[f].pc # "none" /\ exec[f].ran
      <4>1. exec[f].task \in Task /\ exec'[f].task = exec[f].task /\ f # 0
        BY <1>2, <3>2, JobFacts DEF Delivery
      <4>2. /\ f \in taken \/ store.deliveries[exec[f].task] = f
            /\ \A n \in Numbers(store, exec[f].task) : f <= n
        BY <2>1, <3>2 DEF RunIn
      <4>3. QED
        BY <1>4, <4>1, <4>2
    <3>3. CASE ~ (exec[f].pc # "none" /\ exec[f].ran)
      <4>1. f = d /\ store'.status[t] = "running" /\ store'.deliveries[t] = d
        BY <1>2, <3>1, <3>3 DEF t
      <4>2. Numbers(store', t) = {d}
        BY <1>1, <1>4, <4>1 DEF Numbers
      <4>3. QED
        BY <1>1, <1>2, <4>1, <4>2 DEF t
    <3>4. QED
      BY <3>2, <3>3
  <2>4. QED
    BY <2>2, <2>3
<1>6. ASSUME NEW p \in posted' PROVE PostIn(p)'
  <2>1. p \in posted /\ p[1] \in Delivery /\ exec[p[1]].pc # "none"
    BY DEF DeliveryTypeOK
  <2>2. PostIn(p) /\ exec[p[1]].task \in Task /\ p[1] # 0
    BY <2>1, JobFacts DEF DeliveryInv, Delivery
  <2>3. exec'[p[1]].task = exec[p[1]].task
    BY <1>2, <2>1
  <2>4. ASSUME p[2] = "running", store'.taskLeases[exec[p[1]].task].id = p[1]
        PROVE  exec'[p[1]].pc \in {"confirming", "crashed"}
    <3>1. exec[p[1]].pc \in {"confirming", "crashed"}
      BY <1>4, <2>2, <2>4 DEF PostIn
    <3>2. QED
      BY <1>2, <2>1, <2>4, <3>1
  <2>5. p[2] # "running" => exec'[p[1]].ran /\ exec'[p[1]].outcome = p[2]
    BY <1>2, <2>1, <2>2 DEF PostIn
  <2>6. QED
    BY <2>3, <2>4, <2>5 DEF PostIn
<1>7. ASSUME NEW u \in Task PROVE HeldIn(u)' /\ EarnedIn(u)'
  <2>1. HeldIn(u) /\ EarnedIn(u)
    BY DEF DeliveryInv
  <2>2. CASE Stays(store', store, u)
    <3>1. ASSUME store'.status[u] = "running"
          PROVE  /\ exec'[store'.deliveries[u]].pc \in Active \cup {"crashed"}
                 /\ exec'[store'.deliveries[u]].task = u
      <4>1. store.status[u] = "running" /\ store'.deliveries[u] = store.deliveries[u]
        BY <2>2, <3>1 DEF Stays
      <4>2. /\ exec[store.deliveries[u]].pc \in Active \cup {"crashed"}
            /\ exec[store.deliveries[u]].task = u
        BY <2>1, <4>1 DEF HeldIn
      <4>3. store.deliveries[u] \in Delivery
        BY <4>1, TaskFacts
      <4>4. QED
        BY <1>2, <3>1, <4>1, <4>2, <4>3
    <3>2. ASSUME store'.status[u] \in Terminal, store'.deliveries[u] # 0
          PROVE  /\ exec'[store'.deliveries[u]].pc # "none"
                 /\ exec'[store'.deliveries[u]].task = u /\ exec'[store'.deliveries[u]].ran
                 /\ exec'[store'.deliveries[u]].outcome = store'.status[u]
      <4>1. /\ store.status[u] = store'.status[u] /\ store'.deliveries[u] = store.deliveries[u]
            /\ store.deliveries[u] \in Delivery
        BY <2>2, <3>2, TaskFacts DEF Stays
      <4>2. /\ exec[store.deliveries[u]].pc # "none"
            /\ exec[store.deliveries[u]].task = u /\ exec[store.deliveries[u]].ran
            /\ exec[store.deliveries[u]].outcome = store.status[u]
        BY <2>1, <3>2, <4>1 DEF EarnedIn
      <4>3. QED
        BY <1>2, <4>1, <4>2 DEF Jobs
    <3>3. QED
      BY <3>1, <3>2 DEF HeldIn, EarnedIn
  <2>3. CASE u = t /\ Started(store', store, t, Target[t], d)
    BY <1>2, <2>3 DEF Started, HeldIn, EarnedIn, Terminal, t
  <2>4. CASE u = t /\ o \in Outcome /\ Ended(store', store, t, Target[t], d, o)
    BY <1>2, <2>4, OutcomeAssumption DEF Ended, HeldIn, EarnedIn, Terminal, Jobs, t
  <2>5. QED
    BY <1>3, <2>2, <2>3, <2>4
<1>8. QED
  BY <1>5, <1>6, <1>7 DEF DeliveryInv

LEMMA ReportKeeps ==
  ASSUME IInv, DeliveryTypeOK, DeliveryInv, NEW d \in Delivery, Report(d)
  PROVE  DeliveryInv'
<1> DEFINE t == exec[d].task
           o == exec[d].outcome
           go == exec[d].pc = "confirming" /\ Accepts(d, "running")
           pc == IF go THEN "working" ELSE "over"
           ran == exec[d].ran \/ go
           e == [exec[d] EXCEPT !.pc = pc, !.ran = ran]
<1>1. /\ exec[d] \in Jobs /\ exec[d].pc # "none" /\ Reporting(d) /\ JobIn(d)
      /\ t \in Task /\ o \in {"running"} \cup Outcome /\ "running" \notin Outcome
  BY JobFacts, OutcomeAssumption DEF Report, Reporting, DeliveryInv, Terminal
<1>2. /\ exec' = [exec EXCEPT ![d] = e] /\ UNCHANGED << posted, taken >> /\ Take(d, o)
  BY DEF Report, masterVars
<1>3. ran \in BOOLEAN /\ pc \in ExecPc \ {"none"}
  BY <1>1 DEF Jobs, ExecPc
<1>4. o = "running" <=> exec[d].pc = "confirming"
  BY <1>1 DEF JobIn, Reporting
<1>5. ApplyResult(t, Target[t], d, o)
  BY <1>2 DEF Take
<1>6. IF go
      THEN store'.status[t] = "running" /\ store'.deliveries[t] = d
      ELSE /\ store'.status[t] = "running" => store'.deliveries[t] # d
           /\ o = "running" => store'.taskLeases[t].id # d
  BY <1>1, <1>4, <1>5, TakeAnswers DEF Accepts
<1>7. exec[d].pc = "confirming" => store'.taskLeases[t].id # d
  <2>1. CASE go
    <3>1. store'.status[t] = "running" /\ store'.deliveries[t] = d
      BY <1>6, <2>1
    <3>2. CASE Stays(store', store, t)
      <4>1. store.taskLeases[t].id = 0
        BY <1>1, <3>1, <3>2, TaskFacts DEF Stays, NoLease
      <4>2. QED
        BY <3>2, <4>1 DEF Stays, NoLease, Delivery
    <3>3. Stays(store', store, t) \/ Started(store', store, t, Target[t], d)
      BY <1>1, <1>4, <1>5, <2>1, TakeMoves
    <3>4. CASE Started(store', store, t, Target[t], d)
      BY <3>4 DEF Started, NoLease, Delivery
    <3>5. QED
      BY <3>2, <3>3, <3>4
  <2>2. CASE ~ go
    BY <1>4, <1>6, <2>2
  <2>3. QED
    BY <2>1, <2>2
<1> HIDE DEF go, pc, ran
<1>8. /\ e \in Jobs /\ e.task = t /\ e.outcome = o /\ e.pc = pc /\ e.ran = ran
  BY <1>1, <1>3 DEF Jobs
<1>9. o = "running" \/ (exec[d].ran /\ exec[d].outcome = o)
  BY <1>1, <1>4 DEF JobIn, Reporting
<1> HIDE DEF e
<1>10. \/ e.pc \in {exec[d].pc, "over"} /\ e.ran = exec[d].ran
       \/ /\ exec[d].pc = "confirming" /\ e.pc = "working" /\ e.ran
          /\ store'.status[t] = "running" /\ store'.deliveries[t] = d
  <2>1. CASE go
    BY <1>6, <1>8, <2>1 DEF pc, ran, go
  <2>2. CASE ~ go
    <3>1. exec[d].ran \in BOOLEAN /\ ran = exec[d].ran
      BY <1>1, <2>2 DEF Jobs, ran
    <3>2. QED
      BY <1>8, <2>2, <3>1 DEF pc
  <2>3. QED
    BY <2>1, <2>2
<1>11. /\ store'.taskLeases[t].id = d => exec[d].pc \notin {"confirming", "crashed"}
       /\ store'.status[t] = "running" /\ store'.deliveries[t] = d => e.pc = "working"
  BY <1>1, <1>6, <1>7, <1>8 DEF Reporting, pc
<1>12. QED
  BY <1>1, <1>2, <1>8, <1>9, <1>10, <1>11, TakeKeeps DEF Active

LEMMA LateKeeps ==
  ASSUME IInv, DeliveryTypeOK, DeliveryInv, NEW d \in Delivery,
         NEW r \in {"running"} \cup Outcome, TakeLate(d, r)
  PROVE  DeliveryInv'
<1> DEFINE t == exec[d].task
<1>1. /\ << d, r >> \in posted /\ Take(d, r) /\ posted' \subseteq posted
      /\ UNCHANGED << exec, taken >>
  BY DEF TakeLate, masterVars
<1>2. /\ exec[d].pc # "none" /\ exec[d] \in Jobs /\ t \in Task /\ PostIn(<< d, r >>)
      /\ exec' = [exec EXCEPT ![d] = exec[d]]
  BY <1>1, JobFacts DEF DeliveryTypeOK, DeliveryInv
<1>3. r = "running" \/ (exec[d].ran /\ exec[d].outcome = r)
  BY <1>2 DEF PostIn
<1>4. ASSUME store'.status[t] = "running", store'.deliveries[t] = d
      PROVE  exec[d].pc \in Active \cup {"crashed"}
  <2>1. ApplyResult(t, Target[t], d, r) /\ HeldIn(t)
    BY <1>1, <1>2 DEF Take, DeliveryInv
  <2>2. \/ Stays(store', store, t)
        \/ r = "running" /\ Started(store', store, t, Target[t], d)
        \/ r \in Outcome /\ Ended(store', store, t, Target[t], d, r)
    BY <1>2, <2>1, TakeMoves
  <2>3. CASE Stays(store', store, t)
    BY <1>4, <2>1, <2>3 DEF Stays, HeldIn
  <2>4. CASE r = "running" /\ Started(store', store, t, Target[t], d)
    BY <1>2, <2>4 DEF Started, PostIn, Active
  <2>5. CASE r \in Outcome /\ Ended(store', store, t, Target[t], d, r)
    BY <1>4, <2>5, OutcomeAssumption DEF Ended, Terminal
  <2>6. QED
    BY <2>2, <2>3, <2>4, <2>5
<1>5. QED
  BY <1>1, <1>2, <1>3, <1>4, TakeKeeps

-----------------------------------------------------------------------------
(* Claims. *)

LEMMA ClaimKeeps ==
  ASSUME IInv, IInv', DeliveryTypeOK, DeliveryInv, NEW w \in Worker, ClaimJobs(w)
  PROVE  DeliveryInv'
<1>1. PICK n \in Limit : Claim(w, n)
  BY DEF ClaimJobs
<1>2. UNCHANGED << posted, taken >>
  BY DEF ClaimJobs, masterVars
<1>3. issued \in Nat /\ issued' \in Nat /\ issued <= issued' /\ SoundIn(store', issued')
  BY <1>1, ClaimStep, MaxDeliveryAssumption DEF IInv
<1>4. \A t \in Task : Stays(store', store, t) \/ Offered(store', store, t, issued, issued')
  BY <1>1, ClaimMoves
<1>5. ASSUME NEW d \in Delivery
      PROVE  \/ exec'[d] = exec[d]
             \/ /\ exec[d].pc = "none" /\ d <= issued' /\ ~ exec'[d].ran
                /\ exec'[d].pc \in {"sent", "cancel"} /\ exec'[d].outcome = "running"
  <2>1. exec[d].pc # "none" => d <= issued
    BY DEF DeliveryInv, JobIn
  <2>2. d \in Nat /\ d # 0
    BY DEF Delivery
  <2>3. CASE \E t \in Task : d > issued /\ store'.taskLeases[t].id = d
    <3>1. PICK t \in Task : d > issued /\ store'.taskLeases[t].id = d
      BY <2>3
    <3>2. exec'[d] = Job("sent", CHOOSE u \in Task : store'.taskLeases[u].id = d)
      BY <2>3 DEF ClaimJobs
    <3>3. store'.taskLeases[t] \in [id : 1 .. issued', worker : {Target[t]}]
      BY <1>3, <2>2, <3>1 DEF SoundIn, TaskLeasesIn, NoLease
    <3>4. exec[d].pc = "none" /\ d <= issued'
      BY <1>3, <2>1, <2>2, <3>1, <3>3
    <3>5. QED
      BY <3>2, <3>4 DEF Job
  <2>4. CASE /\ ~ \E t \in Task : d > issued /\ store'.taskLeases[t].id = d
             /\ \E t \in Task : d > issued /\ store'.cancelLeases[t].id = d
    <3>1. PICK t \in Task : d > issued /\ store'.cancelLeases[t].id = d
      BY <2>4
    <3>2. exec'[d] = Job("cancel", CHOOSE u \in Task : store'.cancelLeases[u].id = d)
      BY <2>4 DEF ClaimJobs
    <3>3. store'.cancelLeases[t] \in [id : 1 .. issued', worker : {Target[t]}]
      BY <1>3, <2>2, <3>1 DEF SoundIn, CancelLeasesIn, NoLease
    <3>4. exec[d].pc = "none" /\ d <= issued'
      BY <1>3, <2>1, <2>2, <3>1, <3>3
    <3>5. QED
      BY <3>2, <3>4 DEF Job
  <2>5. CASE /\ ~ \E t \in Task : d > issued /\ store'.taskLeases[t].id = d
             /\ ~ \E t \in Task : d > issued /\ store'.cancelLeases[t].id = d
    BY <2>5 DEF ClaimJobs
  <2>6. QED
    BY <2>3, <2>4, <2>5
<1>6. ASSUME NEW d \in Delivery PROVE JobIn(d)' /\ RunIn(d)'
  <2>1. JobIn(d) /\ RunIn(d) /\ d \in Nat
    BY DEF DeliveryInv, Delivery
  <2>2. JobIn(d)'
    BY <1>3, <1>5, <2>1 DEF JobIn
  <2>3. ASSUME exec'[d].pc # "none", exec'[d].ran
        PROVE  /\ d \in taken' \/ store'.deliveries[exec'[d].task] = d
               /\ \A m \in Numbers(store', exec'[d].task) : d <= m
    <3>1. exec'[d] = exec[d]
      BY <1>5, <2>3
    <3>2. exec[d].task \in Task /\ d <= issued
      BY <2>1, <2>3, <3>1, JobFacts DEF JobIn
    <3>3. /\ d \in taken \/ store.deliveries[exec[d].task] = d
          /\ \A m \in Numbers(store, exec[d].task) : d <= m
      BY <2>1, <2>3, <3>1 DEF RunIn
    <3>4. CASE Stays(store', store, exec[d].task)
      BY <1>2, <3>1, <3>3, <3>4 DEF Stays, Numbers, NoLease
    <3>5. CASE Offered(store', store, exec[d].task, issued, issued')
      <4>1. /\ store'.deliveries[exec[d].task] = store.deliveries[exec[d].task]
            /\ store'.taskLeases[exec[d].task].id \in (issued + 1) .. issued'
        BY <3>5 DEF Offered
      <4>2. d <= store'.taskLeases[exec[d].task].id
        BY <1>3, <2>1, <3>2, <4>1
      <4>3. QED
        BY <1>2, <3>1, <3>3, <4>1, <4>2 DEF Numbers
    <3>6. QED
      BY <1>4, <3>2, <3>4, <3>5
  <2>4. QED
    BY <2>2, <2>3 DEF RunIn
<1>7. ASSUME NEW p \in posted PROVE PostIn(p)'
  <2>1. p[1] \in Delivery /\ exec[p[1]].pc # "none" /\ PostIn(p) /\ p[1] # 0
    BY <1>7 DEF DeliveryTypeOK, DeliveryInv, Delivery
  <2>2. exec[p[1]].task \in Task /\ exec'[p[1]] = exec[p[1]] /\ p[1] <= issued /\ p[1] \in Nat
    BY <1>5, <2>1, JobFacts DEF DeliveryInv, JobIn, Delivery
  <2>3. store'.taskLeases[exec[p[1]].task].id = p[1] => store.taskLeases[exec[p[1]].task].id = p[1]
    <3>1. CASE Stays(store', store, exec[p[1]].task)
      BY <2>1, <3>1 DEF Stays, NoLease
    <3>2. CASE Offered(store', store, exec[p[1]].task, issued, issued')
      BY <1>3, <2>2, <3>2 DEF Offered
    <3>3. QED
      BY <1>4, <2>2, <3>1, <3>2
  <2>4. QED
    BY <2>1, <2>2, <2>3 DEF PostIn
<1>8. ASSUME NEW t \in Task PROVE HeldIn(t)' /\ EarnedIn(t)'
  <2>1. HeldIn(t) /\ EarnedIn(t)
    BY DEF DeliveryInv
  <2>2. store'.status[t] = store.status[t] /\ store'.deliveries[t] = store.deliveries[t]
    BY <1>4 DEF Stays, Offered
  <2>3. ASSUME store.deliveries[t] # 0, exec[store.deliveries[t]].pc # "none"
        PROVE  exec'[store.deliveries[t]] = exec[store.deliveries[t]]
    BY <1>5, <2>3, TaskFacts
  <2>4. store.status[t] = "running" => store.deliveries[t] # 0
    <3>1. store.status[t] = "running" => store.deliveries[t] \in Delivery
      BY TaskFacts
    <3>2. QED
      BY <3>1 DEF Delivery
  <2>5. HeldIn(t)' /\ EarnedIn(t)'
    BY <2>1, <2>2, <2>3, <2>4 DEF HeldIn, EarnedIn, Active
  <2>6. QED
    BY <2>5
<1>9. QED
  BY <1>2, <1>6, <1>7, <1>8 DEF DeliveryInv

-----------------------------------------------------------------------------
(* Each step keeps the invariant. *)

LEMMA HandlerKeeps ==
  ASSUME IInv, IInv', DeliveryTypeOK, DeliveryInv, NEW t \in Task,
         \/ DispatchCheck(t) \/ DispatchEnqueue(t) \/ CancelGet(t) \/ CancelTry(t)
         \/ CancelLook(t) \/ CancelCheckOnline(t) \/ CancelEnqueue(t)
  PROVE  DeliveryInv'
<1>1. UNCHANGED << exec, posted, taken >>
  BY DEF DispatchCheck, DispatchEnqueue, CancelGet, CancelTry, CancelLook,
         CancelCheckOnline, CancelEnqueue, handlerUnchanged
<1>2. SoundIn(store, issued) /\ store \in Store /\ issued \in Nat
  BY MaxDeliveryAssumption DEF IInv, SoundIn
<1>3. ASSUME UNCHANGED vars PROVE DeliveryInv'
  <2>1. \A u \in Task : Stays(store', store, u)
    BY <1>3 DEF vars, Stays
  <2>2. QED
    BY <1>1, <1>3, <2>1, StoreAloneKeeps DEF vars
<1>4. ASSUME EnqueuePending(t) PROVE DeliveryInv'
  <2>1. issued' = issued /\ \A u \in Task : Stays(store', store, u) \/ Queued(store', store, u)
    BY <1>2, <1>4, EnqueueMoves DEF EnqueuePending
  <2>2. QED
    BY <1>1, <2>1, StoreAloneKeeps
<1>5. ASSUME CancelPending(t) PROVE DeliveryInv'
  <2>1. \A u \in Task : IF u = t THEN Returned(store', store, u) ELSE Stays(store', store, u)
    BY <1>2, <1>5, CancelPendingMoves DEF CancelPending
  <2>2. store.deliveries[t] = 0 /\ issued' = issued
    BY <1>5, TaskFacts DEF CancelPending
  <2>3. QED
    BY <1>1, <2>1, <2>2, StoreAloneKeeps
<1>6. ASSUME EnqueueCancel(t) PROVE DeliveryInv'
  <2>1. issued' = issued /\ \A u \in Task : Stays(store', store, u)
    BY <1>2, <1>6, EnqueueCancelMoves DEF EnqueueCancel
  <2>2. QED
    BY <1>1, <2>1, StoreAloneKeeps
<1>7. UNCHANGED vars \/ EnqueuePending(t) \/ CancelPending(t) \/ EnqueueCancel(t)
  BY DEF DispatchCheck, DispatchEnqueue, CancelGet, CancelTry, CancelLook,
         CancelCheckOnline, CancelEnqueue
<1>8. QED
  BY <1>3, <1>4, <1>5, <1>6, <1>7

(* Recovery records the runs it takes back. *)
LEMMA SweepKeeps ==
  ASSUME IInv, IInv', DeliveryTypeOK, DeliveryInv, NEW w \in Worker, SweepRecover(w)
  PROVE  DeliveryInv'
<1>1. /\ UNCHANGED << exec, posted >> /\ taken \subseteq taken'
      /\ \A t \in Open(store, w) : store.deliveries[t] = 0 \/ store.deliveries[t] \in taken'
  BY DEF SweepRecover, workerVars
<1>2. CASE RecoverWorker(w)
  <2>1. SoundIn(store, issued) /\ issued \in Nat
    BY MaxDeliveryAssumption DEF IInv
  <2>2. PICK order \in Orders(Open(store, w) \ Doomed(store, w)) :
          store' = SignalWaiters(Recovered(store, w, order), w)
    BY <1>2 DEF RecoverWorker
  <2>3. \A t \in Task :
          IF t \in Open(store, w) THEN Returned(store', store, t) ELSE Stays(store', store, t)
    BY <2>1, <2>2, RecoverMoves
  <2>4. issued' = issued
    BY <1>2 DEF RecoverWorker
  <2>5. QED
    BY <1>1, <2>3, <2>4, StoreAloneKeeps
<1>3. CASE UNCHANGED vars
  <2>1. \A t \in Task : Stays(store', store, t)
    BY <1>3 DEF vars, Stays
  <2>2. QED
    BY <1>1, <1>3, <2>1, StoreAloneKeeps DEF vars
<1>4. QED
  BY <1>2, <1>3 DEF SweepRecover

LEMMA DeliveryInvStep ==
  ASSUME IInv, IInv', DeliveryTypeOK, DeliveryInv, [DeliveryNext]_deliveryVars
  PROVE  DeliveryInv'
<1>1. ASSUME NEW t \in Task,
             \/ DispatchCheck(t) \/ DispatchEnqueue(t) \/ CancelGet(t) \/ CancelTry(t)
             \/ CancelLook(t) \/ CancelCheckOnline(t) \/ CancelEnqueue(t)
      PROVE  DeliveryInv'
  BY <1>1, HandlerKeeps
<1>2. ASSUME NEW w \in Worker, ClaimJobs(w) PROVE DeliveryInv'
  BY <1>2, ClaimKeeps
<1>3. ASSUME NEW w \in Worker, SweepRecover(w) PROVE DeliveryInv'
  BY <1>3, SweepKeeps
<1>4. ASSUME \/ \E d \in Delivery : LoseJob(d) \/ ArriveTask(d) \/ ArriveCancel(d) \/ Finish(d)
             \/ \E w \in Worker : Crash(w)
      PROVE  DeliveryInv'
  <2>1. UNCHANGED << store, issued, taken, posted >>
    BY <1>4 DEF LoseJob, ArriveTask, ArriveCancel, Finish, Crash, vars, masterVars
  <2>2. \A d \in Delivery : IF exec[d].pc = "none" THEN exec'[d] = exec[d] ELSE Lives(d)
    BY <1>4, JobsLive
  <2>3. QED
    BY <2>1, <2>2, JobsAloneKeep
<1>5. ASSUME NEW d \in Delivery, Report(d) PROVE DeliveryInv'
  BY <1>5, ReportKeeps
<1>6. ASSUME NEW d \in Delivery, ReportUnanswered(d) PROVE DeliveryInv'
  BY <1>6, UnansweredKeeps
<1>7. ASSUME NEW d \in Delivery, NEW r \in {"running"} \cup Outcome, TakeLate(d, r)
      PROVE  DeliveryInv'
  BY <1>7, LateKeeps
<1>8. ASSUME \/ \E w \in Worker : Heartbeat(w) \/ SweepMarkOffline(w)
             \/ SweepStale \/ LeasesRunOut \/ UNCHANGED deliveryVars
      PROVE  DeliveryInv'
  <2>1. UNCHANGED << store, issued, exec, posted, taken >>
    BY <1>8 DEF Heartbeat, SweepMarkOffline, SweepStale, LeasesRunOut, LeaseTimePasses,
                deliveryVars, vars, workerVars, masterVars
  <2>2. \A t \in Task : Stays(store', store, t)
    BY <2>1 DEF Stays
  <2>3. QED
    BY <2>1, <2>2, StoreAloneKeeps
<1>9. QED
  BY <1>1, <1>2, <1>3, <1>4, <1>5, <1>6, <1>7, <1>8 DEF DeliveryNext

-----------------------------------------------------------------------------
(* Theorems. *)

(* The store stays sound and what the Workers know of it has its type. *)
THEOREM DeliveryIsSound == DeliverySpec => [](IInv /\ DeliveryTypeOK)
<1>1. DeliveryInit => IInv /\ DeliveryTypeOK
  BY InitSound, DeliveryTypeInit DEF DeliveryInit
<1>2. IInv /\ DeliveryTypeOK /\ [DeliveryNext]_deliveryVars => (IInv /\ DeliveryTypeOK)'
  <2>1. IInv => TypeOK
    BY DEF IInv, SoundIn, TypeOK
  <2>2. QED
    BY <2>1, DeliveryTypeStep, DeliveryStepIsStoreStep, StepSound
<1>3. QED
  BY <1>1, <1>2, PTL DEF DeliverySpec

(* What the Workers hold, what is on the network and where the handlers and *)
(* the sweeper stand always has its type.                                   *)
THEOREM DeliveryIsTyped == DeliverySpec => []DeliveryTypeOK
<1>1. QED
  BY DeliveryIsSound, PTL

(* The composed system implements the store's specification. *)
THEOREM DeliveryKeepsStore == DeliverySpec => KeepsStore
<1>1. DeliveryInit => Init
  BY DEF DeliveryInit
<1>2. DeliveryTypeOK /\ [DeliveryNext]_deliveryVars => [Next]_vars
  BY DeliveryStepIsStoreStep
<1>3. QED
  BY <1>1, <1>2, DeliveryIsSound, PTL DEF DeliverySpec, KeepsStore, Spec

(* So no task is lost between dispatch and result, whatever is lost, late,   *)
(* repeated or crashes on the way.                                          *)
THEOREM NoTaskIsLostInDelivery == DeliverySpec => []PendingIsPlaced
<1>1. QED
  BY DeliveryIsSound, PTL DEF IInv, SoundIn, PendingIsPlaced

(* How far the jobs are, what they have posted and what the store knows of  *)
(* their tasks go together in every state: the invariant of the next three. *)
THEOREM DeliveryIsConsistent == DeliverySpec => []DeliveryInv
<1>1. DeliveryInit => DeliveryInv
  BY DeliveryInvInit
<1>2. /\ IInv /\ DeliveryTypeOK /\ (IInv /\ DeliveryTypeOK)'
      /\ DeliveryInv /\ [DeliveryNext]_deliveryVars
      => DeliveryInv'
  BY DeliveryInvStep
<1>3. QED
  BY <1>1, <1>2, DeliveryIsSound, PTL DEF DeliverySpec

(* What the Master takes for running is at work, under the delivery that    *)
(* confirmed it, or was until its process died.                             *)
THEOREM RunningTasksAreHeld == DeliverySpec => []RunningIsHeld
<1>1. DeliveryInv => RunningIsHeld
  BY DEF DeliveryInv, HeldIn, RunningIsHeld
<1>2. QED
  BY <1>1, DeliveryIsConsistent, PTL

(* A recorded result is the outcome of the run that the Master confirmed.   *)
THEOREM RecordedResultsAreEarned == DeliverySpec => []ResultsAreEarned
<1>1. DeliveryInv => ResultsAreEarned
  BY DEF DeliveryInv, EarnedIn, ResultsAreEarned
<1>2. QED
  BY <1>1, DeliveryIsConsistent, PTL

(* No loss, delay or repetition of messages and no lapse of a lease makes a *)
(* task run twice: an earlier run was taken back by the sweeper.            *)
THEOREM TasksRunOnce == DeliverySpec => []SecondRunOnlyAfterRecovery
<1>1. IInv /\ DeliveryTypeOK /\ DeliveryInv => SecondRunOnlyAfterRecovery
  <2> SUFFICES ASSUME IInv, DeliveryTypeOK, DeliveryInv, NEW d \in Delivery, NEW e \in Delivery,
                      d < e, exec[d].pc # "none", exec[e].pc # "none",
                      exec[d].task = exec[e].task, exec[d].ran, exec[e].ran
               PROVE  d \in taken
    BY DEF SecondRunOnlyAfterRecovery
  <2>1. RunIn(d) /\ RunIn(e)
    BY DEF DeliveryInv
  <2>2. CASE store.deliveries[exec[d].task] = d
    <3>1. d \in Numbers(store, exec[d].task) /\ d \in Nat /\ e \in Nat
      BY <2>2 DEF Numbers, Delivery
    <3>2. e <= d
      BY <2>1, <3>1 DEF RunIn
    <3>3. QED
      BY <3>1, <3>2
  <2>3. QED
    BY <2>1, <2>2 DEF RunIn
<1>2. QED
  BY <1>1, DeliveryIsSound, DeliveryIsConsistent, PTL
=============================================================================
