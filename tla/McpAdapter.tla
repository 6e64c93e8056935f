----------------------------- MODULE McpAdapter -----------------------------
(***************************************************************************)
(* One McpStdioAdapter (worker/src/plugins/mcp-stdio.ts): the Worker's     *)
(* session with one plugin process, driven by the jobs of PluginManager    *)
(* (worker/src/plugins/manager.ts).                                        *)
(*                                                                         *)
(* The Worker runs one callback at a time.  A callback settles promises,   *)
(* and the code awaiting them runs before the next callback: `settled`     *)
(* holds the outcomes on their way to that code, and every callback waits  *)
(* until there are none (Quiet).                                           *)
(*                                                                         *)
(* start() spawns one process, named here by the start that spawned it,    *)
(* and makes two requests to it; a call makes one.  Nobody has two         *)
(* requests open, so a request is named by who makes it: nextId never      *)
(* repeats, and a line with an id that is not pending changes nothing.     *)
(***************************************************************************)
EXTENDS Integers, FiniteSets

CONSTANTS Start,           \* invocations of start(), and the processes they spawn
          NoProcess,       \* null
          Call,            \* plugin calls
          MaxConcurrency   \* manifest.limits.max_concurrency

ASSUME AdapterAssumption ==
  /\ MaxConcurrency \in Nat \ {0}
  /\ IsFiniteSet(Call)
  /\ Start \cap Call = {}
  /\ NoProcess \notin Start

VARIABLES
  adapter,   \* the fields of the object, and manifest.enabled
  process,   \* what became of each process
  reading,   \* processes whose readline interface is open
  pending,   \* pending[r]: the process r's open request was written to
  settled,   \* settled[r]: the outcome of r's request, not yet seen by r
  starting,  \* the await each start() is at
  call,      \* how far each call is
  aborted    \* calls whose AbortSignal has fired

adapterVars == << adapter, process, reading, pending, settled, starting, call, aborted >>

Requester == Start \cup Call
NoOutcome == "none"
Outcome == {"result", "protocol_error", "timeout", "canceled", "unavailable", "output_too_large"}

Adapter == [proc : Start \cup {NoProcess},
            status : {"starting", "running", "stopped", "error", "disabled"},
            stopping : BOOLEAN, enabled : BOOLEAN, activeCalls : Nat]

-----------------------------------------------------------------------------
(***************************************************************************)
(* Helpers: each says what becomes of some of the variables.               *)
(***************************************************************************)
Open == {r \in Requester : pending[r] # NoProcess}

Quiet == \A r \in Requester : settled[r] = NoOutcome

\* removePending, and the promises of `rs` settled.
Settle(rs, outcome) ==
  /\ pending' = [r \in Requester |-> IF r \in rs THEN NoProcess ELSE pending[r]]
  /\ settled' = [r \in Requester |-> IF r \in rs THEN outcome ELSE settled[r]]

\* `seen` is the start whose catch block calls kill, if any.
SettleAll(outcome, seen) ==
  /\ pending' = [r \in Requester |-> NoProcess]
  /\ settled' = [r \in Requester |-> IF r \in Open THEN outcome
                                     ELSE IF r \in seen THEN NoOutcome ELSE settled[r]]

(***************************************************************************)
(* kill: the open requests are rejected and the current process, if there  *)
(* is one, gets SIGTERM, then SIGKILL, and is forgotten.                   *)
(***************************************************************************)
KillProcess ==
  /\ process' = [p \in Start |-> IF p = adapter.proc /\ process[p] = "alive"
                                   THEN "dying" ELSE process[p]]
  /\ reading' = reading \ {adapter.proc}

\* Mutant: the open requests are left to their timers.
KillOnly(outcome, seen) ==
  /\ KillProcess
  /\ settled' = [r \in Requester |-> IF r \in seen THEN NoOutcome ELSE settled[r]]
  /\ UNCHANGED pending

Kill(outcome, seen) == KillProcess /\ SettleAll(outcome, seen)

(***************************************************************************)
(* The first part of start(), up to `initialize`.  A process that cannot   *)
(* be spawned raises `error`, before the next callback, and never `exit`.  *)
(***************************************************************************)
Spawn(s) ==
  \E ok \in BOOLEAN :
    /\ adapter' = [adapter EXCEPT !.proc = s, !.enabled = TRUE, !.stopping = FALSE,
                                  !.status = IF ok THEN "starting" ELSE "error"]
    /\ process' = [process EXCEPT ![s] = IF ok THEN "alive" ELSE "failed"]
    /\ reading' = reading \cup {s}
    /\ pending' = [pending EXCEPT ![s] = s]
    /\ starting' = [starting EXCEPT ![s] = "initialize"]

-----------------------------------------------------------------------------
(***************************************************************************)
(* Jobs of the manager.                                                    *)
(***************************************************************************)

(***************************************************************************)
(* setPluginEnabled(id, true), once it has persisted the flag.  Jobs run   *)
(* concurrently: another start() may be under way.  startAll calls start() *)
(* of an enabled plugin in the same way.                                   *)
(***************************************************************************)
Enable(s) ==
  /\ Quiet
  /\ starting[s] = "idle"
  /\ adapter.status # "running"
  /\ Spawn(s)
  /\ UNCHANGED << settled, call, aborted >>

(***************************************************************************)
(* stop(): for setPluginEnabled(id, false), and, leaving the flag alone,   *)
(* for a reinstallation, an uninstallation and the end of the Worker.      *)
(***************************************************************************)
\* Mutant: a session that is only starting is not stopped.
StopRunning ==
  /\ Quiet
  /\ \E enabled \in {FALSE, adapter.enabled} :
       IF adapter.status = "running"
       THEN /\ adapter' = [adapter EXCEPT !.proc = NoProcess, !.status = "stopped",
                                          !.stopping = TRUE, !.enabled = enabled]
            /\ Kill("canceled", {})
       ELSE /\ adapter' = [adapter EXCEPT !.stopping = TRUE, !.enabled = enabled]
            /\ UNCHANGED << process, reading, pending, settled >>
  /\ UNCHANGED << starting, call, aborted >>

Stop ==
  /\ Quiet
  /\ \E enabled \in {FALSE, adapter.enabled} :
       adapter' = [adapter EXCEPT !.proc = NoProcess, !.status = "stopped",
                                  !.stopping = TRUE, !.enabled = enabled]
  /\ Kill("canceled", {})
  /\ UNCHANGED << starting, call, aborted >>

(***************************************************************************)
(* invokePlugin and invoke, up to the request.  The runner has just        *)
(* checked the signal.  The slot is taken before the request is made.      *)
(***************************************************************************)
MayInvoke == adapter.enabled /\ adapter.status = "running" /\ adapter.activeCalls < MaxConcurrency

Invoke(c) ==
  /\ Quiet
  /\ call[c] = "idle"
  /\ \/ /\ MayInvoke
        /\ call' = [call EXCEPT ![c] = "waiting"]
        /\ adapter' = [adapter EXCEPT !.activeCalls = @ + 1]
        /\ pending' = [pending EXCEPT ![c] = adapter.proc]
     \/ /\ ~ MayInvoke
        /\ call' = [call EXCEPT ![c] = "over"]
        /\ UNCHANGED << adapter, pending >>
  /\ UNCHANGED << process, reading, settled, starting, aborted >>

-----------------------------------------------------------------------------
(***************************************************************************)
(* Events.                                                                 *)
(***************************************************************************)

\* handleLine: a process answers a request, with a result or an error.
Answer(r) ==
  /\ Quiet
  /\ pending[r] \in reading /\ process[pending[r]] = "alive"
  /\ \E outcome \in {"result", "protocol_error"} : Settle({r}, outcome)
  /\ UNCHANGED << adapter, process, reading, starting, call, aborted >>

\* handleLine: a line beyond the limit ends the session, whichever process wrote it.
OversizedLine(p) ==
  /\ Quiet
  /\ p \in reading /\ process[p] = "alive"
  /\ adapter' = [adapter EXCEPT !.proc = NoProcess, !.status = "error"]
  /\ Kill("output_too_large", {})
  /\ UNCHANGED << starting, call, aborted >>

\* Mutant: only calls have a timer.
TimeoutOfCalls(r) ==
  /\ Quiet
  /\ r \in Open \cap Call
  /\ Settle({r}, "timeout")
  /\ UNCHANGED << adapter, process, reading, starting, call, aborted >>

\* The timer of a request.
Timeout(r) ==
  /\ Quiet
  /\ r \in Open
  /\ Settle({r}, "timeout")
  /\ UNCHANGED << adapter, process, reading, starting, call, aborted >>

\* The task of a call is canceled: the abort handler.
Abort(c) ==
  /\ Quiet
  /\ call[c] = "waiting"
  /\ aborted' = aborted \cup {c}
  /\ Settle({c} \cap Open, "canceled")
  /\ UNCHANGED << adapter, process, reading, starting, call >>

(***************************************************************************)
(* handleExit: the listener is bound to the object, not to the process.    *)
(* The exit of any process, a former one too, ends the current session.    *)
(***************************************************************************)

\* Mutant: the object forgets the process but keeps its status.
ExitUnnoticed(p) ==
  /\ Quiet
  /\ process[p] \in {"alive", "dying"}
  /\ process' = [process EXCEPT ![p] = "gone"]
  /\ reading' = reading \ {p, adapter.proc}
  /\ adapter' = [adapter EXCEPT !.proc = NoProcess]
  /\ SettleAll("unavailable", {})
  /\ UNCHANGED << starting, call, aborted >>

Exit(p) ==
  /\ Quiet
  /\ process[p] \in {"alive", "dying"}
  /\ process' = [process EXCEPT ![p] = "gone"]
  /\ reading' = reading \ {p, adapter.proc}
  /\ adapter' = [adapter EXCEPT !.proc = NoProcess,
                                !.status = IF adapter.stopping THEN "stopped" ELSE "error"]
  /\ SettleAll("unavailable", {})
  /\ UNCHANGED << starting, call, aborted >>

-----------------------------------------------------------------------------
(***************************************************************************)
(* What runs after an await, before the next callback.                     *)
(***************************************************************************)

\* start(): after `initialize` it asks for the tools, after those it runs.
Proceed(s) ==
  /\ settled[s] = "result"
  /\ settled' = [settled EXCEPT ![s] = NoOutcome]
  /\ \/ /\ starting[s] = "initialize"
        /\ starting' = [starting EXCEPT ![s] = "tools/list"]
        /\ pending' = [pending EXCEPT ![s] = adapter.proc]
        /\ UNCHANGED adapter
     \/ /\ starting[s] = "tools/list"
        /\ starting' = [starting EXCEPT ![s] = "ended"]
        /\ adapter' = [adapter EXCEPT !.status = "running"]
        /\ UNCHANGED pending
  /\ UNCHANGED << process, reading, call, aborted >>

\* start(): its catch block, also for a list of tools that is not well formed.
GiveUp(s) ==
  /\ settled[s] # NoOutcome
  /\ settled[s] = "result" => starting[s] = "tools/list"
  /\ starting' = [starting EXCEPT ![s] = "ended"]
  /\ adapter' = [adapter EXCEPT !.proc = NoProcess, !.status = "error"]
  /\ Kill("canceled", {s})
  /\ UNCHANGED << call, aborted >>

\* invoke(): the call ends, and gives its slot back however it ended.
Return(c) ==
  /\ settled[c] # NoOutcome
  /\ call' = [call EXCEPT ![c] = "over"]
  /\ adapter' = [adapter EXCEPT !.activeCalls = @ - 1]
  /\ settled' = [settled EXCEPT ![c] = NoOutcome]
  /\ UNCHANGED << process, reading, pending, starting, aborted >>

-----------------------------------------------------------------------------
AdapterInit ==
  /\ \E enabled \in BOOLEAN :
       adapter = [proc |-> NoProcess, status |-> IF enabled THEN "stopped" ELSE "disabled",
                  stopping |-> FALSE, enabled |-> enabled, activeCalls |-> 0]
  /\ process = [p \in Start |-> "unborn"]
  /\ reading = {}
  /\ pending = [r \in Requester |-> NoProcess]
  /\ settled = [r \in Requester |-> NoOutcome]
  /\ starting = [s \in Start |-> "idle"]
  /\ call = [c \in Call |-> "idle"]
  /\ aborted = {}

Resume == (\E s \in Start : Proceed(s) \/ GiveUp(s)) \/ (\E c \in Call : Return(c))

AdapterNext ==
  \/ Stop
  \/ \E s \in Start : Enable(s) \/ OversizedLine(s) \/ Exit(s)
  \/ \E c \in Call : Invoke(c) \/ Abort(c)
  \/ \E r \in Requester : Answer(r) \/ Timeout(r)
  \/ Resume

AdapterSpec == AdapterInit /\ [][AdapterNext]_adapterVars

(***************************************************************************)
(* Promises settle, timers fire, and a process that got SIGKILL is gone.   *)
(* Nothing obliges a process to answer, nor a manager to call.             *)
(***************************************************************************)
AdapterFairness ==
  /\ WF_adapterVars(Resume)
  /\ \A r \in Requester : WF_adapterVars(Timeout(r))
  /\ \A p \in Start : WF_adapterVars(Exit(p) /\ process[p] = "dying")

FairAdapterSpec == AdapterSpec /\ AdapterFairness

-----------------------------------------------------------------------------
(***************************************************************************)
(* Properties.                                                             *)
(***************************************************************************)

\* The fields of the adapter and the state of its callers have their types.
AdapterTypeOK ==
  /\ adapter \in Adapter
  /\ process \in [Start -> {"unborn", "alive", "failed", "dying", "gone"}]
  /\ reading \subseteq Start
  /\ pending \in [Requester -> Start \cup {NoProcess}]
  /\ settled \in [Requester -> Outcome \cup {NoOutcome}]
  /\ starting \in [Start -> {"idle", "initialize", "tools/list", "ended"}]
  /\ call \in [Call -> {"idle", "waiting", "over"}]
  /\ aborted \subseteq Call

(***************************************************************************)
(* activeCalls counts the calls under way, however calls end (answer,      *)
(* timeout, cancel, exit, stop), and never exceeds the limit.              *)
(***************************************************************************)
CallsAreCounted ==
  /\ adapter.activeCalls = Cardinality({c \in Call : call[c] = "waiting"})
  /\ adapter.activeCalls <= MaxConcurrency

\* Its output is read, and it has neither exited nor been killed.
Heard(p) == p \in reading /\ process[p] \in {"alive", "failed"}

(***************************************************************************)
(* No request hangs on a session that is over: whatever ended the session  *)
(* (exit, stop, oversized output, a failed start), a request that is still *)
(* open was written to a process that is heard.                            *)
(***************************************************************************)
OpenRequestsAreHeard == \A r \in Open : Heard(pending[r])

(***************************************************************************)
(* A plugin reported as running has a process that is heard, though starts, *)
(* exits and stops of several sessions may interleave.                     *)
(***************************************************************************)
RunningIsHeard == adapter.status = "running" => Heard(adapter.proc)

(***************************************************************************)
(* A disabled plugin stays so: a start that was under way when it was      *)
(* disabled neither runs it nor waits for it (protocol/plugin-protocol.md: *)
(* disabling rejects new calls and cancels active calls).                  *)
(***************************************************************************)
DisabledStaysDown ==
  ~ adapter.enabled => adapter.status \notin {"starting", "running"} /\ Open = {}

\* A call whose task is canceled is over at once: its runner is not kept waiting.
AbortedCallsEnd == Quiet => \A c \in aborted : call[c] # "waiting"

\* A plugin does not stay `starting`: its start runs it, fails, or is stopped.
StartingEnds == (adapter.status = "starting") ~> (adapter.status # "starting")
=============================================================================
