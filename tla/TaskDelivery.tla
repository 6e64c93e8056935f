---------------------------- MODULE TaskDelivery ----------------------------
(***************************************************************************)
(* A task from its dispatch to its result: the Master's task store, the    *)
(* dispatch and cancel handlers (master/internal/httpapi/task_handlers.go, *)
(* mcp.go), the sweeper (master/internal/service/cleanup.go) and the       *)
(* Worker process that claims jobs, runs them and reports back             *)
(* (worker/src/runner.ts), over HTTP that may lose a request or its answer *)
(* and deliver a request after its sender has given up on it.              *)
(*                                                                         *)
(* A delivery ID is handed out once, so exec[d] is the whole life on the   *)
(* Worker's side of the job delivered as d.  A runner handles the jobs of  *)
(* a response one after the other, each up to its first await, and no two  *)
(* of them share state before it; they arrive here one by one.             *)
(***************************************************************************)
EXTENDS TaskStore

CONSTANTS
  Call,      \* the tasks that a runner keeps in _activeTasks while they run
  MaxPosted  \* bound: abandoned requests that may still reach the Master

ASSUME CallAssumption == Call \subseteq Task
ASSUME CanceledAssumption == "canceled" \in Outcome
ASSUME MaxPostedAssumption == MaxPosted \in Nat

VARIABLES
  exec,      \* the jobs the Workers were given
  posted,    \* reports given up on that may still arrive: <<delivery, status>>
  request,   \* the handler at work on each task
  online,    \* the Workers whose row says status = 'online'
  sweep,     \* where the sweeper is with each Worker
  taken      \* history: the runs that RecoverWorker took back

deliveryVars == << store, issued, overdue, exec, posted, request, online, sweep, taken >>

masterVars == << request, online, sweep, taken >>
workerVars == << exec, posted >>

(***************************************************************************)
(* pc of a job: "sent" and "cancel" (a task job, a cancel job) in a claim  *)
(* response on its way; "confirming" while `running` is being reported;    *)
(* "working" in the plugin; "reporting" its outcome; "over" when it was    *)
(* lost, ignored or is done with; "crashed" when the process died with it. *)
(***************************************************************************)
ExecPc == {"none", "sent", "cancel", "confirming", "working", "reporting", "over", "crashed"}
Active == {"confirming", "working", "reporting"}
NoJob == [pc |-> "none"]
Job(pc, t) == [pc |-> pc, task |-> t, ran |-> FALSE, aborted |-> FALSE, outcome |-> "running"]
Jobs == [pc : ExecPc \ {"none"}, task : Task, ran : BOOLEAN, aborted : BOOLEAN,
         outcome : {"running"} \cup Outcome]

ActiveFor(t) == {d \in Delivery : exec[d].pc \in Active /\ exec[d].task = t}

-----------------------------------------------------------------------------
(***************************************************************************)
(* Bounds.  Deliveries that are certain to be issued, if claims go on: for *)
(* what is queued, and for the leases with nobody left to end them before  *)
(* they run out.  Faults and requests keep within MaxDelivery, so that the *)
(* bound never holds up a claim.                                           *)
(***************************************************************************)
Doubtful(lease, answered) ==
  lease # NoLease /\ (lease.id <= overdue \/ ~ answered)

Awaited(lease) == exec[lease.id].pc \in {"sent", "cancel", "confirming"}

Ending(t) == \E d \in ActiveFor(t) : exec[d].aborted \/ exec[d].pc = "reporting"

Due ==
  LET count(P(_)) == Cardinality({t \in Task : P(t)})
  IN  count(LAMBDA t : t \in Range(store.workQueues[Target[t]]))
        + count(LAMBDA t : t \in store.cancelSet[Target[t]])
        + count(LAMBDA t : Doubtful(store.taskLeases[t], Awaited(store.taskLeases[t])))
        + count(LAMBDA t : Doubtful(store.cancelLeases[t],
                                    Awaited(store.cancelLeases[t]) \/ Ending(t)))

Affordable == issued + Due <= MaxDelivery

-----------------------------------------------------------------------------
(* The dispatch and cancel handlers. *)

\* It answers yes only if the row says so, and the last heartbeat is not older
\* than the timeout; how old it is when somebody looks is left open.
isWorkerOnline(w, answer) == answer => w \in online

Handler(t, from, to) == request[t] = from /\ request' = [request EXCEPT ![t] = to]

handlerUnchanged == << exec, posted, online, sweep, taken >>

\* The handler looks at the Worker, and stores the task some time later.
DispatchCheck(t) ==
  /\ isWorkerOnline(Target[t], TRUE)
  /\ Handler(t, "new", "checked")
  /\ UNCHANGED << vars, handlerUnchanged >>

DispatchEnqueue(t) ==
  /\ Handler(t, "checked", "idle")
  /\ EnqueuePending(t)
  /\ UNCHANGED handlerUnchanged
  /\ Affordable'

\* handleCancelTask's first Get; an ended task is answered at once.
CancelGet(t) ==
  /\ store.status[t] \in {"pending", "running"}
  /\ Handler(t, "idle", IF store.status[t] = "pending" THEN "cancelPending" ELSE "checkOnline")
  /\ UNCHANGED << vars, handlerUnchanged >>

CancelTry(t) ==
  /\ \/ /\ CancelPending(t)
        /\ Handler(t, "cancelPending", "idle")
     \/ /\ store.status[t] # "pending"
        /\ Handler(t, "cancelPending", "look")
        /\ UNCHANGED vars
  /\ UNCHANGED handlerUnchanged

\* "Raced into running between Get and CancelPending": it looks again.
CancelLook(t) ==
  /\ Handler(t, "look", IF store.status[t] \in Terminal THEN "idle" ELSE "checkOnline")
  /\ UNCHANGED << vars, handlerUnchanged >>

CancelCheckOnline(t) ==
  /\ \E answer \in BOOLEAN :
       /\ isWorkerOnline(Target[t], answer)
       /\ Handler(t, "checkOnline", IF answer THEN "enqueue" ELSE "idle")
  /\ UNCHANGED << vars, handlerUnchanged >>

\* Answers 200, whatever EnqueueCancel said.
CancelEnqueue(t) ==
  /\ Handler(t, "enqueue", "idle")
  /\ \/ EnqueueCancel(t)
     \/ /\ store.status[t] # "running" \/ HasCancelIntent(store, Target[t], t)
        /\ UNCHANGED vars
  /\ UNCHANGED handlerUnchanged
  /\ Affordable'

-----------------------------------------------------------------------------
(* The Worker's claims and the jobs it is given. *)

\* A claim by the process that runs now, or by one that does no more.
ClaimJobs(w) ==
  /\ \E n \in Limit : Claim(w, n)
  /\ exec' = [d \in Delivery |->
       IF \E t \in Task : d > issued /\ store'.taskLeases[t].id = d
       THEN Job("sent", CHOOSE t \in Task : store'.taskLeases[t].id = d)
       ELSE IF \E t \in Task : d > issued /\ store'.cancelLeases[t].id = d
       THEN Job("cancel", CHOOSE t \in Task : store'.cancelLeases[t].id = d)
       ELSE exec[d]]
  /\ UNCHANGED << posted, masterVars >>

LoseJob(d) ==
  /\ exec[d].pc \in {"sent", "cancel"}
  /\ exec' = [exec EXCEPT ![d].pc = "over"]
  /\ UNCHANGED << vars, posted, masterVars >>
  /\ Affordable'

\* A task that this process has in _activeTasks already is ignored.
ArriveTask(d) ==
  /\ exec[d].pc = "sent"
  /\ IF exec[d].task \in Call /\ ActiveFor(exec[d].task) # {}
     THEN exec' = [exec EXCEPT ![d].pc = "over"]
     ELSE exec' = [exec EXCEPT ![d].pc = "confirming"]
  /\ UNCHANGED << vars, posted, masterVars >>
  /\ Affordable'

\* A cancel job aborts what is in _activeTasks, if anything is.
ArriveCancel(d) ==
  /\ exec[d].pc = "cancel"
  /\ LET hit == IF exec[d].task \in Call THEN ActiveFor(exec[d].task) ELSE {}
     IN  exec' = [e \in Delivery |->
                    IF e = d THEN [exec[e] EXCEPT !.pc = "over"]
                    ELSE IF e \in hit THEN [exec[e] EXCEPT !.aborted = TRUE] ELSE exec[e]]
  /\ UNCHANGED << vars, posted, masterVars >>

\* Mutant: an aborted call returns without a report.
FinishSilently(d) ==
  /\ exec[d].pc = "working"
  /\ IF exec[d].aborted
     THEN exec' = [exec EXCEPT ![d].pc = "over"]
     ELSE \E r \in Outcome : exec' = [exec EXCEPT ![d].pc = "reporting", ![d].outcome = r]
  /\ UNCHANGED << vars, posted, masterVars >>

\* The plugin answers, fails or times out; an aborted call counts as canceled.
Finish(d) ==
  /\ exec[d].pc = "working"
  /\ \E r \in IF exec[d].aborted THEN {"canceled"} ELSE Outcome \ {"canceled"} :
       exec' = [exec EXCEPT ![d].pc = "reporting", ![d].outcome = r]
  /\ UNCHANGED << vars, posted, masterVars >>

-----------------------------------------------------------------------------
(* Reports.  _reportTaskResult repeats a request until it is answered. *)

Reporting(d) == exec[d].pc \in {"confirming", "reporting"}

\* The Master takes in that job d has come to status r.
Take(d, r) == ApplyResult(exec[d].task, Target[exec[d].task], d, r)

Accepts(d, r) ==
  LET w == Target[exec[d].task]
  IN  \E s \in Reaped(store, w) : Verdict(s, exec[d].task, w, d, r) = "ok"

\* Mutant: the job goes to work whatever the answer was.
ReportAndGo(d) ==
  /\ Reporting(d)
  /\ Take(d, exec[d].outcome)
  /\ exec' = [exec EXCEPT ![d].pc = IF @ = "confirming" THEN "working" ELSE "over",
                          ![d].ran = TRUE]
  /\ UNCHANGED << posted, masterVars >>

\* A request is answered: a job whose `running` is accepted goes to work.
Report(d) ==
  /\ Reporting(d)
  /\ Take(d, exec[d].outcome)
  /\ exec' = [exec EXCEPT
       ![d].pc = IF @ = "confirming" /\ Accepts(d, "running") THEN "working" ELSE "over",
       ![d].ran = @ \/ (exec[d].pc = "confirming" /\ Accepts(d, "running"))]
  /\ UNCHANGED << posted, masterVars >>

\* Mutant: a request without an answer counts as rejected.
ReportOnce(d) ==
  /\ Reporting(d)
  /\ posted' = {<< d, exec[d].outcome >>}
  /\ exec' = [exec EXCEPT ![d].pc = "over"]
  /\ UNCHANGED << vars, masterVars >>

\* A request is sent and given up on; it, and others, may be lost or late.
ReportUnanswered(d) ==
  /\ Reporting(d)
  /\ \E kept \in SUBSET posted :
       /\ Cardinality(kept) < MaxPosted
       /\ posted' = kept \cup {<< d, exec[d].outcome >>}
  /\ UNCHANGED << vars, exec, masterVars >>

\* The Master takes such a request, its sender listening or not.
TakeLate(d, r) ==
  /\ << d, r >> \in posted
  /\ Take(d, r)
  /\ posted' = posted \ {<< d, r >>}
  /\ UNCHANGED << exec, masterVars >>

-----------------------------------------------------------------------------
(* Crashes, heartbeats and the sweeper. *)

\* The process dies, with the jobs it has and those on their way to it.
Crash(w) ==
  LET dead == {d \in Delivery : /\ exec[d].pc \in Active \cup {"sent", "cancel"}
                                /\ Target[exec[d].task] = w}
  IN  /\ dead # {}
      /\ exec' = [d \in Delivery |->
           IF d \notin dead THEN exec[d]
           ELSE [exec[d] EXCEPT !.pc = IF @ \in Active THEN "crashed" ELSE "over"]]
      /\ UNCHANGED << vars, posted, masterVars >>
      /\ Affordable'

\* handleUpdateRuntime: ReconnectWorker.
Heartbeat(w) ==
  /\ w \notin online
  /\ online' = online \cup {w}
  /\ UNCHANGED << vars, workerVars, request, sweep, taken >>

\* SweepStale selects Workers whose heartbeat is late, among the online ones.
SweepStale ==
  /\ \A w \in Worker : sweep[w] = "idle"
  /\ \E late \in SUBSET online \ {{}} :
       sweep' = [w \in Worker |-> IF w \in late THEN "stale" ELSE "idle"]
  /\ UNCHANGED << vars, workerVars, request, online, taken >>

\* The loop takes them one by one: RecoverWorker, then MarkOffline.

SweepRecover(w) ==
  /\ sweep[w] = "stale"
  /\ \A v \in Worker : sweep[v] # "recovered"
  /\ sweep' = [sweep EXCEPT ![w] = "recovered"]
  /\ \/ RecoverWorker(w)
     \/ Open(store, w) = {} /\ UNCHANGED vars
  /\ taken' = taken \cup ({store.deliveries[t] : t \in Open(store, w)} \ {0})
  /\ UNCHANGED << workerVars, request, online >>
  /\ Affordable'

SweepMarkOffline(w) ==
  /\ sweep[w] = "recovered"
  /\ sweep' = [sweep EXCEPT ![w] = "idle"]
  /\ online' = online \ {w}
  /\ UNCHANGED << vars, workerVars, request, taken >>

LeasesRunOut ==
  /\ LeaseTimePasses
  /\ UNCHANGED << workerVars, masterVars >>
  /\ Affordable'

-----------------------------------------------------------------------------
DeliveryInit ==
  /\ Init
  /\ exec = [d \in Delivery |-> NoJob]
  /\ posted = {}
  /\ request = [t \in Task |-> "new"]
  /\ online = {}
  /\ sweep = [w \in Worker |-> "idle"]
  /\ taken = {}

DeliveryNext ==
  \/ \E t \in Task : \/ DispatchCheck(t) \/ DispatchEnqueue(t)
                      \/ CancelGet(t) \/ CancelTry(t) \/ CancelLook(t)
                      \/ CancelCheckOnline(t) \/ CancelEnqueue(t)
  \/ \E w \in Worker : \/ ClaimJobs(w) \/ Crash(w) \/ Heartbeat(w)
                        \/ SweepRecover(w) \/ SweepMarkOffline(w)
  \/ \E d \in Delivery : \/ LoseJob(d) \/ ArriveTask(d) \/ ArriveCancel(d) \/ Finish(d)
                          \/ Report(d) \/ ReportUnanswered(d)
                          \/ \E r \in {"running"} \cup Outcome : TakeLate(d, r)
  \/ SweepStale
  \/ LeasesRunOut

(***************************************************************************)
(* The claim loop claims again and again; a job that is not lost arrives;  *)
(* a report is repeated until it is answered; a plugin call that has been  *)
(* aborted returns (it may run for ever otherwise); a lease runs out.      *)
(* Nothing makes a handler finish, a Worker beat or a sweep come.          *)
(***************************************************************************)
Fairness ==
  /\ \A w \in Worker : WF_deliveryVars(ClaimJobs(w))
  /\ \A d \in Delivery :
       /\ WF_deliveryVars(ArriveTask(d)) /\ WF_deliveryVars(ArriveCancel(d))
       /\ WF_deliveryVars(Report(d))
       /\ WF_deliveryVars(exec[d].pc = "working" /\ exec[d].aborted /\ Finish(d))
  /\ WF_deliveryVars(LeasesRunOut)

DeliverySpec == DeliveryInit /\ [][DeliveryNext]_deliveryVars /\ Fairness

-----------------------------------------------------------------------------
DeliveryTypeOK ==
  /\ exec \in [Delivery -> {NoJob} \cup Jobs]
  /\ posted \subseteq {d \in Delivery : exec[d].pc # "none"} \X ({"running"} \cup Outcome)
  /\ request \in [Task -> {"new", "checked", "idle", "cancelPending", "look",
                           "checkOnline", "enqueue"}]
  /\ online \subseteq Worker
  /\ sweep \in [Worker -> {"idle", "stale", "recovered"}]
  /\ taken \subseteq Delivery

(***************************************************************************)
(* What the Master takes for running is running, or was until its process  *)
(* died: the delivery that confirmed the task is the one at work on it,    *)
(* for all that was lost, repeated, late or redelivered on the way.        *)
(***************************************************************************)
RunningIsHeld ==
  \A t \in Task :
    store.status[t] = "running" =>
      LET e == exec[store.deliveries[t]]
      IN  e.pc \in Active \cup {"crashed"} /\ e.task = t

(***************************************************************************)
(* A recorded result is the outcome of the run that the Master confirmed,  *)
(* never of an earlier run of the same task that was taken back.           *)
(***************************************************************************)
ResultsAreEarned ==
  \A t \in Task :
    store.status[t] \in Terminal /\ store.deliveries[t] # 0 =>
      LET e == exec[store.deliveries[t]]
      IN  e.task = t /\ e.ran /\ e.outcome = store.status[t]

(***************************************************************************)
(* A task goes to a plugin a second time only if the Master has taken the  *)
(* first run back: losing, repeating or delaying messages, and redelivery  *)
(* after a lease has run out, never execute a task twice.                  *)
(***************************************************************************)
SecondRunOnlyAfterRecovery ==
  \A d, e \in Delivery :
    (d < e /\ exec[d].pc # "none" /\ exec[e].pc # "none")
      => (exec[d].task = exec[e].task /\ exec[d].ran /\ exec[e].ran => d \in taken)

(***************************************************************************)
(* A cancel request that is on record ends its run, through lost cancel    *)
(* jobs, lost reports and a Worker declared stale, unless a crash leaves   *)
(* nobody to abort.                                                        *)
(***************************************************************************)
CanceledRunEnds ==
  [](\A d \in Delivery : exec[d].pc # "crashed") =>
    \A t \in Call :
      HasCancelIntent(store, Target[t], t) ~> store.status[t] \in Terminal

(***************************************************************************)
(* No task stays pending for ever while its Worker claims, however often   *)
(* its delivery is lost or interrupted: it is started or canceled, or it   *)
(* waits for its own earlier run, taken back but still at work.            *)
(***************************************************************************)
PendingIsPickedUp ==
  \A t \in Task :
    store.status[t] = "pending" ~>
      store.status[t] # "pending" \/ \E d \in ActiveFor(t) : exec[d].pc = "working"

(***************************************************************************)
(* The handlers, the sweeper and the Worker call nothing that TaskStore    *)
(* does not allow, so its theorems hold of the composed system.            *)
(***************************************************************************)
KeepsStore == Spec

(***************************************************************************)
(* "Cancellation request accepted" (protocol/openapi.yaml:1068): a request *)
(* that went through to EnqueueCancel and was answered 200 has canceled a  *)
(* pending task, recorded a cancel job for a running one, or met a task    *)
(* that had ended.                                                         *)
(***************************************************************************)
CancelIsRecorded ==
  [][\A t \in Task : request[t] = "enqueue" /\ request'[t] = "idle"
       => store'.status[t] \in Terminal \/ HasCancelIntent(store', Target[t], t)]_deliveryVars
=============================================================================
