---------------------------- MODULE WorkerControl ----------------------------
(***************************************************************************)
(* The Worker as a service of its host: the commands register, start, stop *)
(* and status of worker/src/cli.ts and the files they share, as            *)
(* worker/src/service.ts keeps them: worker-runtime.json (the state file), *)
(* worker-runtime.lock (the lock), the configuration and the identity.     *)
(*                                                                         *)
(* Every process of the host that runs the command line is an element of   *)
(* Procs.  A process is a program counter pc; one access to a file or one  *)
(* control request is one step, and the steps of processes interleave.     *)
(* getWorkerProcessInfo is called from many places: `then' is the place    *)
(* it returns to and `saw' the status it returns.                          *)
(***************************************************************************)
EXTENDS Naturals, FiniteSets

CONSTANTS
    Procs,       \* the processes the host ever starts
    Masters,     \* the Masters a registration link may name
    MaxCrashes   \* bound on processes killed

ASSUME ControlAssumption == MaxCrashes \in Nat /\ "none" \notin Procs \cup Masters

None == "none"
NoState == [owner |-> None, status |-> "stopped"]
NoLock == [owner |-> None, written |-> FALSE, fresh |-> FALSE]
NoId == [by |-> None, key |-> None]

VARIABLES
    stateFile,   \* worker-runtime.json: None, or its owner and status
    lockFile,    \* worker-runtime.lock: None, or who created it, and whether
                 \* it is written already and younger than 10 seconds
    config,      \* the Master config.toml names
    identity,    \* identity.toml: a key pair, named by who generated it, and
                 \* the Worker id: the Master that issued it and for which key
    proc,        \* the processes
    crashes,
    hasty        \* history: a command began in the middle of another, or a
                 \* live process missed a deadline of the code (1, 10 seconds)

vars == <<stateFile, lockFile, config, identity, proc, crashes, hasty>>
files == <<stateFile, lockFile, config, identity>>
host == <<crashes, hasty>>

Keys == Procs \cup {None, "first"}
Sites == {"startCheck", "controlCheck", "contended", "waitCheck", "stopCheck",
          "stopCleaned", "stopWait", "registerCheck", "statusCheck", "done"}
PCs == {"unborn", "info", "ask", "forget", "erase", "unlock", "lockRead", "acquire",
        "reacquire", "dropLock", "dropLast", "stamp", "listen", "init", "ready",
        "requestStop", "askStop", "loadKey", "enroll", "writeConfig", "done"}

ProcRecord ==
    [pc : PCs, then : Sites, seen : Procs \cup {None}, background : BOOLEAN,
     master : Masters \cup {None}, key : Keys, fits : BOOLEAN, stopping : BOOLEAN,
     alone : BOOLEAN]

Unborn == [pc |-> "unborn", then |-> "done", seen |-> None, background |-> FALSE,
           master |-> None, key |-> None, fits |-> TRUE, stopping |-> FALSE,
           alone |-> FALSE]
Ended == [Unborn EXCEPT !.pc = "done"]

(***************************************************************************)
(* What a process is doing.                                                *)
(***************************************************************************)
Alive(p) == proc[p].pc \notin {"unborn", "done"}
\* The control endpoint of the Worker p answers: the Worker is up.
Up(p) == proc[p].pc \in {"init", "ready"}
\* The Worker p has closed its endpoint and removes its files.
Closing(p) == proc[p].pc \in {"forget", "erase", "unlock"} /\ proc[p].then = "done"
\* p is a command that has not ended, or a Worker that is not up yet.
Busy(p) == Alive(p) /\ ~Up(p) /\ ~Closing(p)

\* A mutant: a lock is respected though its owner is dead.
LockHoldsOfDead == lockFile # NoLock /\ lockFile.written /\ lockFile.fresh

\* acquireRuntimeLock and getWorkerProcessInfo respect such a lock only.
LockHolds == /\ lockFile # NoLock /\ lockFile.written /\ lockFile.fresh
             /\ Alive(lockFile.owner)

\* A step that comes too early or too late when the condition holds.  A bound:
\* that happens once, after no kill, and no command, signal or kill comes then.
Hasty(condition) == /\ hasty' = (hasty \/ condition)
                    /\ condition => ~hasty /\ crashes = 0

Goto(p, pc) == proc' = [proc EXCEPT ![p].pc = pc]
Info(p, site) == proc' = [proc EXCEPT ![p].pc = "info", ![p].then = site, ![p].seen = None]
End(p) == proc' = [proc EXCEPT ![p] = Ended]

Init ==
    /\ stateFile = NoState /\ lockFile = NoLock
    /\ \/ config = None /\ identity = [key |-> None, id |-> NoId]
       \/ \E m \in Masters : /\ config = m
                             /\ identity = [key |-> "first", id |-> [by |-> m, key |-> "first"]]
    /\ proc = [p \in Procs |-> Unborn]
    /\ crashes = 0 /\ hasty = FALSE

(***************************************************************************)
(* What the caller does next, when getWorkerProcessInfo or a clean-up      *)
(* returns: a command that need not go on ends.                            *)
(***************************************************************************)
\* handleStart, in this process or in a child in the background; every start
\* but the first of this configuration is refused.
StartChecked(p, status) ==
    /\ proc[p].then = "startCheck"
    /\ \/ status # "stopped" /\ End(p)
       \/ status = "stopped" /\ ~proc[p].background /\ Info(p, "controlCheck")
       \/ /\ status = "stopped" /\ proc[p].background
          /\ \E c \in Procs :
                /\ proc[c].pc = "unborn"
                /\ proc' = [proc EXCEPT
                     ![p].pc = "info", ![p].then = "waitCheck", ![p].seen = None,
                     ![c] = [Unborn EXCEPT !.pc = "info", !.then = "startCheck",
                                           !.alone = proc[p].alone]]

\* startRuntimeControl looks again before it takes the lock, and once more
\* when it did not get it.
ControlChecked(p, status) ==
    /\ \/ proc[p].then = "controlCheck" /\ status = "stopped" /\ Goto(p, "acquire")
       \/ proc[p].then = "controlCheck" /\ status # "stopped" /\ End(p)
       \/ proc[p].then = "contended" /\ End(p)

\* waitForWorkerStatus "running": the parent polls for at most 10 seconds.  A
\* child that has not even written its state file by then is slow.
WaitChecked(p, status) ==
    /\ proc[p].then = "waitCheck"
    /\ \/ status # "running" /\ Info(p, "waitCheck") /\ hasty' = hasty
       \/ End(p) /\ Hasty(status # "running" /\ \E q \in Procs \ {p} : Busy(q))

\* handleStop: the stop is requested, then waited for.  A request that failed
\* is an error if the process is still there.
StopChecked(p, status) ==
    /\ \/ proc[p].then = "stopCheck" /\ status # "stopped" /\ Goto(p, "requestStop")
       \/ proc[p].then = "stopWait" /\ status # "stopped" /\ Info(p, "stopWait")
       \/ proc[p].then \in {"stopCheck", "stopWait"} /\ status = "stopped" /\ End(p)
       \/ proc[p].then = "stopWait" /\ status # "stopped" /\ End(p)
       \/ /\ proc[p].then = "stopCleaned"
          /\ IF proc[p].seen # None /\ Alive(proc[p].seen) THEN End(p)
             ELSE Info(p, "stopWait")

\* handleRegister goes on with the Worker stopped only.
RegisterChecked(p, status) ==
    /\ proc[p].then = "registerCheck"
    /\ IF status = "stopped" THEN Goto(p, "loadKey") ELSE End(p)

Returns(p, status) ==
    \/ WaitChecked(p, status)
    \/ /\ hasty' = hasty
       /\ \/ StartChecked(p, status) \/ ControlChecked(p, status)
          \/ StopChecked(p, status) \/ RegisterChecked(p, status)
          \/ proc[p].then \in {"statusCheck", "done"} /\ End(p)

(***************************************************************************)
(* getWorkerProcessInfo: the status of the Worker of this configuration,   *)
(* cleaning up what a dead Worker left.                                    *)
(***************************************************************************)
ReadState(p) ==
    /\ proc[p].pc = "info"
    /\ IF stateFile = NoState THEN Goto(p, "lockRead")
       ELSE proc' = [proc EXCEPT ![p].pc = "ask", ![p].seen = stateFile.owner]
    /\ UNCHANGED <<files, host>>

\* A mutant: a Worker that starts is taken for a stopped one.
AskStatusRunning(p) ==
    /\ proc[p].pc = "ask" /\ Up(proc[p].seen)
    /\ Returns(p, IF proc[proc[p].seen].pc = "ready" THEN "running" ELSE "stopped")
    /\ UNCHANGED <<files, crashes>>

\* sendControlRequest "status": the Worker answers with what it is.
AskStatus(p) ==
    /\ proc[p].pc = "ask" /\ Up(proc[p].seen)
    /\ Returns(p, IF proc[proc[p].seen].pc = "ready" THEN "running" ELSE "starting")
    /\ UNCHANGED <<files, crashes>>

\* Nobody listens, or the answer takes more than a second.
AskFails(p) ==
    /\ proc[p].pc \in {"ask", "askStop"}
    /\ Hasty(Up(proc[p].seen))
    /\ proc' = [proc EXCEPT ![p].pc = "forget",
                            ![p].then = IF proc[p].pc = "askStop" THEN "stopCleaned" ELSE @]
    /\ UNCHANGED <<files, crashes>>

\* removeStateIfCurrent looks at the file ...
Forget(p) ==
    /\ proc[p].pc = "forget"
    /\ Goto(p, IF stateFile = NoState \/ stateFile.owner = proc[p].seen
               THEN "erase" ELSE "unlock")
    /\ UNCHANGED <<files, host>>

\* A mutant: the state file is marked instead of removed.
EraseMarks(p) ==
    /\ proc[p].pc = "erase"
    /\ stateFile' = [owner |-> p, status |-> "stopped"]
    /\ Goto(p, "unlock")
    /\ UNCHANGED <<lockFile, config, identity, host>>

\* ... and removes it, whatever it is by now.
Erase(p) ==
    /\ proc[p].pc = "erase"
    /\ stateFile' = NoState
    /\ Goto(p, "unlock")
    /\ UNCHANGED <<lockFile, config, identity, host>>

\* The lock is removed whoever holds it: at the end of a clean-up, of a look
\* that found no valid lock, and of a Worker.
Unlock(p) ==
    /\ proc[p].pc = "unlock"
    /\ lockFile' = NoLock
    /\ Returns(p, "stopped")
    /\ UNCHANGED <<stateFile, config, identity, crashes>>

LockRead(p) ==
    /\ proc[p].pc = "lockRead"
    /\ IF LockHolds THEN Returns(p, "starting")
       ELSE Goto(p, "unlock") /\ hasty' = hasty
    /\ UNCHANGED <<files, crashes>>

(***************************************************************************)
(* A command begins; a start without a Worker id in the identity ends at   *)
(* once.                                                                   *)
(***************************************************************************)
Begin(p, site, background) ==
    /\ proc[p].pc = "unborn"
    /\ proc' = [proc EXCEPT ![p].pc = "info", ![p].then = site, ![p].background = background,
                            ![p].alone = ~\E q \in Procs : Alive(q)]
    /\ ~hasty /\ Hasty(\E q \in Procs : Busy(q))
    /\ UNCHANGED <<files, crashes>>

\* resolveStartConfig.
Registered == identity.id # NoId
BeginStart(p) == /\ Registered
                 /\ \E background \in BOOLEAN : Begin(p, "startCheck", background)
BeginStop(p) == Begin(p, "stopCheck", FALSE)
BeginRegister(p) == Begin(p, "registerCheck", FALSE)
\* handleStatus reports, and cleans up on the way.
BeginStatus(p) == Begin(p, "statusCheck", FALSE)

(***************************************************************************)
(* acquireRuntimeLock: at most two attempts to create the lock file.       *)
(***************************************************************************)
Acquire(p) ==
    /\ proc[p].pc \in {"acquire", "reacquire"}
    /\ IF lockFile = NoLock
       THEN /\ lockFile' = [owner |-> p, written |-> FALSE, fresh |-> TRUE]
            /\ Goto(p, "stamp")
       ELSE /\ lockFile' = lockFile
            /\ IF LockHolds THEN Info(p, "contended")
               ELSE Goto(p, IF proc[p].pc = "acquire" THEN "dropLock" ELSE "dropLast")
    /\ UNCHANGED <<stateFile, config, identity, host>>

DropLock(p) ==
    /\ proc[p].pc \in {"dropLock", "dropLast"}
    /\ lockFile' = NoLock
    /\ IF proc[p].pc = "dropLock" THEN Goto(p, "reacquire") ELSE Info(p, "contended")
    /\ UNCHANGED <<stateFile, config, identity, host>>

\* The content of the lock; a lock removed in between stays removed.
Stamp(p) ==
    /\ proc[p].pc = "stamp"
    /\ lockFile' = IF lockFile # NoLock /\ lockFile.owner = p
                   THEN [lockFile EXCEPT !.written = TRUE] ELSE lockFile
    /\ Goto(p, "listen")
    /\ UNCHANGED <<stateFile, config, identity, host>>

(***************************************************************************)
(* The Worker: startRuntimeControl binds the endpoint and writes the state *)
(* file; the runner then loads the configuration and the identity.  The    *)
(* endpoint may not bind: the files go and the process ends.               *)
(***************************************************************************)
\* The runner finds the Worker id that this Master issued for this key.
Fits == identity.id = [by |-> config, key |-> identity.key]

Leave(p) == proc' = [proc EXCEPT ![p].pc = "forget", ![p].seen = p, ![p].then = "done"]

Listen(p) ==
    /\ proc[p].pc = "listen"
    /\ \/ Leave(p) /\ UNCHANGED <<stateFile, hasty>>
       \/ /\ stateFile' = [owner |-> p, status |-> "starting"]
          /\ proc' = [proc EXCEPT ![p].pc = "init",
                                  ![p].fits = Fits]
          /\ Hasty(\E q \in Procs : proc[q].pc = "erase")
    /\ UNCHANGED <<lockFile, config, identity, crashes>>

\* onReady, called when the plugins are loaded: markRunning.
MarkRunning(p) ==
    /\ proc[p].pc = "init" /\ ~proc[p].stopping
    /\ stateFile' = [owner |-> p, status |-> "running"]
    /\ Goto(p, "ready")
    /\ UNCHANGED <<lockFile, config, identity, host>>

\* A signal (Ctrl-C) stops the runner as a stop command does.
Interrupt(p) ==
    /\ Up(p) /\ ~proc[p].stopping /\ ~hasty
    /\ proc' = [proc EXCEPT ![p].stopping = TRUE]
    /\ UNCHANGED <<files, host>>

\* The runner has returned, because it was stopped or because it failed to
\* load: close() shuts the endpoint and removes the files.
Close(p) ==
    /\ Up(p) /\ (proc[p].stopping \/ proc[p].pc = "init")
    /\ Leave(p)
    /\ UNCHANGED <<files, host>>

(***************************************************************************)
(* requestWorkerStop.                                                      *)
(***************************************************************************)
\* Without a state file the stop only removes files.
RequestStop(p) ==
    /\ proc[p].pc = "requestStop"
    /\ proc' = IF stateFile = NoState
               THEN [proc EXCEPT ![p].pc = "erase", ![p].then = "stopCleaned",
                                 ![p].seen = None]
               ELSE [proc EXCEPT ![p].pc = "askStop", ![p].seen = stateFile.owner]
    /\ UNCHANGED <<files, host>>

\* A mutant: the one who asks removes the files of the Worker, too.
AskStopErases(p) ==
    /\ proc[p].pc = "askStop" /\ Up(proc[p].seen)
    /\ proc' = [proc EXCEPT ![p].pc = "erase", ![p].then = "stopWait",
                            ![proc[p].seen].stopping = TRUE]
    /\ UNCHANGED <<files, host>>

\* The Worker answers and calls onStop, that is runner.stop().
AskStop(p) ==
    /\ proc[p].pc = "askStop" /\ Up(proc[p].seen)
    /\ proc' = [proc EXCEPT ![p].pc = "info", ![p].then = "stopWait", ![p].seen = None,
                            ![proc[p].seen].stopping = TRUE]
    /\ UNCHANGED <<files, host>>

(***************************************************************************)
(* register: the key pair is loaded or generated, the Master issues the    *)
(* Worker id, the identity is saved and then the configuration.            *)
(***************************************************************************)
LoadKey(p) ==
    /\ proc[p].pc = "loadKey"
    /\ identity' = [identity EXCEPT !.key = IF @ = None THEN p ELSE @]
    /\ \E m \in Masters : proc' = [proc EXCEPT ![p].pc = "enroll", ![p].master = m,
                                               ![p].key = identity'.key]
    /\ UNCHANGED <<stateFile, lockFile, config, host>>

\* The keys the file has by now are kept.
SaveIdentityIds(p) ==
    identity' = [identity EXCEPT !.id = [by |-> proc[p].master, key |-> proc[p].key]]

\* The Master's answer: an error, or the Worker id it issued for the key sent.
Enroll(p) ==
    /\ proc[p].pc = "enroll"
    /\ \/ End(p) /\ identity' = identity
       \/ /\ SaveIdentityIds(p)
          /\ Goto(p, "writeConfig")
    /\ UNCHANGED <<stateFile, lockFile, config, host>>

\* A mutant: a configuration that is there is kept.
WriteConfigOnce(p) ==
    /\ proc[p].pc = "writeConfig"
    /\ config' = IF config = None THEN proc[p].master ELSE config
    /\ End(p)
    /\ UNCHANGED <<stateFile, lockFile, identity, host>>

WriteConfig(p) ==
    /\ proc[p].pc = "writeConfig"
    /\ config' = proc[p].master
    /\ End(p)
    /\ UNCHANGED <<stateFile, lockFile, identity, host>>

(***************************************************************************)
(* The host.  A process may be killed at any step; its files stay.  A lock *)
(* grows old by itself, and under its owner only when that one is slow.    *)
(***************************************************************************)
Kill(p) ==
    /\ Alive(p) /\ crashes < MaxCrashes /\ ~hasty
    /\ crashes' = crashes + 1
    /\ End(p)
    /\ UNCHANGED <<files, hasty>>

LockAges ==
    /\ lockFile # NoLock /\ lockFile.fresh
    /\ Hasty(proc[lockFile.owner].pc \in {"stamp", "listen"})
    /\ lockFile' = [lockFile EXCEPT !.fresh = FALSE]
    /\ UNCHANGED <<stateFile, config, identity, proc, crashes>>

(***************************************************************************)
(* The next-state relation.                                                *)
(***************************************************************************)
Step(p) ==
    \/ ReadState(p) \/ AskStatus(p) \/ AskFails(p) \/ Forget(p) \/ Erase(p)
    \/ Unlock(p) \/ LockRead(p) \/ Acquire(p) \/ DropLock(p) \/ Stamp(p)
    \/ Listen(p) \/ MarkRunning(p) \/ Close(p) \/ RequestStop(p) \/ AskStop(p)
    \/ LoadKey(p) \/ Enroll(p) \/ WriteConfig(p)
UserStep(p) == BeginStart(p) \/ BeginStop(p) \/ BeginRegister(p) \/ BeginStatus(p)
               \/ Interrupt(p)

Next == LockAges \/ \E p \in Procs : Step(p) \/ UserStep(p) \/ Kill(p)

Spec == Init /\ [][Next]_vars
-----------------------------------------------------------------------------
TypeOK ==
    /\ crashes \in 0 .. MaxCrashes /\ hasty \in BOOLEAN
    /\ stateFile \in {NoState} \cup [owner : Procs, status : {"starting", "running"}]
    /\ lockFile \in {NoLock} \cup [owner : Procs, written : BOOLEAN, fresh : BOOLEAN]
    /\ config \in Masters \cup {None}
    /\ identity \in [key : Keys, id : [by : Masters \cup {None}, key : Keys]]
    /\ proc \in [Procs -> ProcRecord]

\* At most one Worker of a configuration is up, as long as no command begins
\* in the middle of another and no process is late, whatever was killed and
\* whatever files that left.
OneWorker == ~hasty => \A p, q \in Procs : Up(p) /\ Up(q) => p = q

\* p ends, not killed, where getWorkerProcessInfo has returned to a site of S.
EndsAt(p, S) == /\ proc[p].pc \in {"ask", "unlock", "lockRead"} /\ proc[p].then \in S
                /\ proc'[p].pc = "done" /\ crashes' = crashes

\* A stop that says "stopped" leaves no Worker up.
StopMeansStopped ==
    [][~hasty' => \A p \in Procs : EndsAt(p, {"stopCheck", "stopWait"})
                                        /\ proc[p].pc = "unlock"
                      => ~\E q \in Procs : Up(q)']_vars

\* A start that finds no process of the configuration alive is not refused:
\* the files of a Worker that was killed never keep the next one out.
RefusedForCause ==
    [][~hasty' => \A p \in Procs : EndsAt(p, {"startCheck", "controlCheck", "contended"})
                      => ~proc[p].alone]_vars

\* A Worker runs with the Worker id that the Master of its configuration
\* issued for its key, unless a registration was killed half way or another
\* command ran into it.
NoMixedRegistration ==
    \A p \in Procs : ~hasty /\ Up(p) /\ ~proc[p].fits => crashes > 0

=============================================================================
