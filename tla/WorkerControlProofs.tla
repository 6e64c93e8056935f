------------------------ MODULE WorkerControlProofs -------------------------
(***************************************************************************)
(* Theorems about WorkerControl, for every set of processes and Masters    *)
(* and every number of kills.                                              *)
(***************************************************************************)
EXTENDS WorkerControl, TLAPS

-----------------------------------------------------------------------------
(***************************************************************************)
(* Type correctness.                                                       *)
(***************************************************************************)

(* An unborn and an ended process have the fields of a process. *)
LEMMA BlankRecords == Unborn \in ProcRecord /\ Ended \in ProcRecord
  BY ControlAssumption DEF Unborn, Ended, ProcRecord, PCs, Sites, Keys, None

(* The points of the program and the places getWorkerProcessInfo returns to. *)
LEMMA Points ==
  /\ {"unborn", "info", "ask", "forget", "erase", "unlock", "lockRead", "acquire",
      "reacquire", "dropLock", "dropLast", "stamp", "listen", "init", "ready",
      "requestStop", "askStop", "loadKey", "enroll", "writeConfig", "done"} \subseteq PCs
  /\ {"startCheck", "controlCheck", "contended", "waitCheck", "stopCheck",
      "stopCleaned", "stopWait", "registerCheck", "statusCheck", "done"} \subseteq Sites
  BY DEF PCs, Sites

(* A process that changes its place has the fields of a process. *)
LEMMA Placed ==
  ASSUME NEW r \in ProcRecord, NEW pc \in PCs, NEW then \in Sites,
         NEW seen \in Procs \cup {None}, NEW stopping \in BOOLEAN
  PROVE  /\ [r EXCEPT !.pc = pc] \in ProcRecord
         /\ [r EXCEPT !.stopping = stopping] \in ProcRecord
         /\ [r EXCEPT !.pc = pc, !.then = then] \in ProcRecord
         /\ [r EXCEPT !.pc = pc, !.seen = seen] \in ProcRecord
         /\ [r EXCEPT !.pc = pc, !.then = then, !.seen = seen] \in ProcRecord
  BY DEF ProcRecord

(* Info, Goto and End leave processes of the right type. *)
LEMMA MovesTyped ==
  ASSUME NEW p \in Procs, proc \in [Procs -> ProcRecord],
         \/ \E pc \in PCs : Goto(p, pc)
         \/ \E site \in Sites : Info(p, site)
         \/ End(p)
  PROVE  proc' \in [Procs -> ProcRecord]
<1>1. CASE \E pc \in PCs : Goto(p, pc)
  BY <1>1 DEF Goto, ProcRecord
<1>2. CASE \E site \in Sites : Info(p, site)
  <2>1. PICK site \in Sites : Info(p, site)
    BY <1>2
  <2>2. [proc[p] EXCEPT !.pc = "info", !.then = site, !.seen = None] \in ProcRecord
    BY Placed, Points
  <2>3. proc' = [proc EXCEPT ![p] = [proc[p] EXCEPT !.pc = "info", !.then = site,
                                                    !.seen = None]]
    BY <2>1 DEF Info
  <2>4. QED
    BY <2>2, <2>3
<1>3. CASE End(p)
  BY <1>3, BlankRecords DEF End
<1>4. QED
  BY <1>1, <1>2, <1>3

(* Whatever getWorkerProcessInfo returns, its caller goes on with the right *)
(* fields. *)
LEMMA ReturnsTyped ==
  ASSUME NEW p \in Procs, proc \in [Procs -> ProcRecord], hasty \in BOOLEAN,
         NEW status, Returns(p, status)
  PROVE  proc' \in [Procs -> ProcRecord] /\ hasty' \in BOOLEAN
<1>1. hasty' \in BOOLEAN
  BY DEF Returns, WaitChecked, Hasty
<1>2. CASE \E c \in Procs : proc' = [proc EXCEPT
                     ![p].pc = "info", ![p].then = "waitCheck", ![p].seen = None,
                     ![c] = [Unborn EXCEPT !.pc = "info", !.then = "startCheck",
                                           !.alone = proc[p].alone]]
  <2>1. PICK c \in Procs : proc' = [proc EXCEPT
                     ![p].pc = "info", ![p].then = "waitCheck", ![p].seen = None,
                     ![c] = [Unborn EXCEPT !.pc = "info", !.then = "startCheck",
                                           !.alone = proc[p].alone]]
    BY <1>2
  <2>2. [Unborn EXCEPT !.pc = "info", !.then = "startCheck",
                       !.alone = proc[p].alone] \in ProcRecord
    BY BlankRecords DEF ProcRecord, PCs, Sites
  <2>3. [proc[p] EXCEPT !.pc = "info", !.then = "waitCheck", !.seen = None] \in ProcRecord
    BY Placed, Points
  <2>4. proc' = [[proc EXCEPT ![p] = [proc[p] EXCEPT !.pc = "info", !.then = "waitCheck",
                                                     !.seen = None]]
                      EXCEPT ![c] = [Unborn EXCEPT !.pc = "info", !.then = "startCheck",
                                                   !.alone = proc[p].alone]]
    BY <2>1
  <2>5. QED
    BY <1>1, <2>2, <2>3, <2>4
<1>3. CASE ~ \E c \in Procs : proc' = [proc EXCEPT
                     ![p].pc = "info", ![p].then = "waitCheck", ![p].seen = None,
                     ![c] = [Unborn EXCEPT !.pc = "info", !.then = "startCheck",
                                           !.alone = proc[p].alone]]
  <2>1. \/ End(p)
        \/ \E site \in {"controlCheck", "waitCheck", "stopWait"} : Info(p, site)
        \/ \E pc \in {"acquire", "requestStop", "loadKey"} : Goto(p, pc)
    BY <1>3, Zenon DEF Returns, WaitChecked, StartChecked, ControlChecked, StopChecked,
                RegisterChecked
  <2>2. {"controlCheck", "waitCheck", "stopWait"} \subseteq Sites
        /\ {"acquire", "requestStop", "loadKey"} \subseteq PCs
    BY DEF Sites, PCs
  <2>3. QED
    BY <1>1, <2>1, <2>2, MovesTyped
<1>4. QED
  BY <1>1, <1>2, <1>3

(* What is written to the state file and to the lock. *)
LEMMA FileRecords ==
  ASSUME NEW p \in Procs
  PROVE  /\ [owner |-> p, status |-> "starting"] \in [owner : Procs, status : {"starting", "running"}]
         /\ [owner |-> p, status |-> "running"] \in [owner : Procs, status : {"starting", "running"}]
         /\ [owner |-> p, written |-> FALSE, fresh |-> TRUE]
               \in [owner : Procs, written : BOOLEAN, fresh : BOOLEAN]
  OBVIOUS

(* The initial states are of the right type. *)
LEMMA InitTyped == Init => TypeOK
<1>1. Init => proc \in [Procs -> ProcRecord]
  BY BlankRecords DEF Init
<1>2. Init => config \in Masters \cup {None}
              /\ identity \in [key : Keys, id : [by : Masters \cup {None}, key : Keys]]
  BY DEF Init, Keys, NoId, None
<1>3. Init => /\ crashes \in 0 .. MaxCrashes /\ hasty \in BOOLEAN
              /\ stateFile = NoState /\ lockFile = NoLock
  <2>1. 0 \in 0 .. MaxCrashes
    BY ControlAssumption
  <2>2. Init => crashes = 0 /\ hasty = FALSE /\ stateFile = NoState /\ lockFile = NoLock
    BY DEF Init
  <2>3. QED
    BY <2>1, <2>2
<1>4. QED
  BY <1>1, <1>2, <1>3 DEF TypeOK

(* A process that gets a record of the right type, and only that. *)
LEMMA BecomesTyped ==
  ASSUME NEW p \in Procs, proc \in [Procs -> ProcRecord], NEW r \in ProcRecord,
         proc' = [proc EXCEPT ![p] = r]
  PROVE  proc' \in [Procs -> ProcRecord]
  OBVIOUS

(* Every step of a process keeps the types. *)
LEMMA StepTyped ==
  ASSUME TypeOK, NEW p \in Procs, Step(p)
  PROVE  TypeOK'
<1> USE ControlAssumption DEF TypeOK, files, host
<1>r. proc[p] \in ProcRecord
  OBVIOUS
<1>s. stateFile # NoState => stateFile.owner \in Procs
  BY DEF NoState
<1>1. CASE ReadState(p)
  <2>1. CASE stateFile = NoState
    BY <1>1, <2>1, MovesTyped, Points DEF ReadState
  <2>2. CASE stateFile # NoState
    <3>1. [proc[p] EXCEPT !.pc = "ask", !.seen = stateFile.owner] \in ProcRecord
      BY <1>r, <1>s, <2>2, Placed, Points
    <3>2. proc' = [proc EXCEPT ![p] = [proc[p] EXCEPT !.pc = "ask", !.seen = stateFile.owner]]
      BY <1>1, <2>2 DEF ReadState
    <3>3. proc' \in [Procs -> ProcRecord]
      BY <3>1, <3>2, BecomesTyped
    <3>4. QED
      BY <1>1, <3>3 DEF ReadState
  <2>3. QED
    BY <2>1, <2>2
<1>2. CASE AskStatus(p)
  BY <1>2, ReturnsTyped DEF AskStatus
<1>3. CASE AskFails(p)
  <2>1. PICK then \in Sites : then = IF proc[p].pc = "askStop" THEN "stopCleaned"
                                     ELSE proc[p].then
    BY <1>r, Points DEF ProcRecord
  <2>2. [proc[p] EXCEPT !.pc = "forget", !.then = then] \in ProcRecord
    BY <1>r, Placed, Points
  <2>3. proc' = [proc EXCEPT ![p] = [proc[p] EXCEPT !.pc = "forget", !.then = then]]
    BY <1>3, <2>1 DEF AskFails
  <2>4. proc' \in [Procs -> ProcRecord]
    BY <2>2, <2>3, BecomesTyped
  <2>5. QED
    BY <1>3, <2>4 DEF AskFails, Hasty
<1>4. CASE Forget(p)
  BY <1>4, MovesTyped, Points DEF Forget
<1>5. CASE Erase(p)
  BY <1>5, MovesTyped, Points DEF Erase
<1>6. CASE Unlock(p)
  BY <1>6, ReturnsTyped DEF Unlock
<1>7. CASE LockRead(p)
  <2>1. proc' \in [Procs -> ProcRecord] /\ hasty' \in BOOLEAN
    BY <1>7, ReturnsTyped, MovesTyped, Points DEF LockRead
  <2>2. QED
    BY <1>7, <2>1 DEF LockRead
<1>8. CASE Acquire(p)
  <2>1. proc' \in [Procs -> ProcRecord]
    BY <1>8, MovesTyped, Points DEF Acquire
  <2>2. QED
    <3>1. lockFile' \in {NoLock} \cup [owner : Procs, written : BOOLEAN, fresh : BOOLEAN]
      BY <1>8, FileRecords DEF Acquire
    <3>2. QED
      BY <1>8, <2>1, <3>1 DEF Acquire
<1>9. CASE DropLock(p)
  <2>1. proc' \in [Procs -> ProcRecord]
    BY <1>9, MovesTyped, Points DEF DropLock
  <2>2. QED
    BY <1>9, <2>1 DEF DropLock
<1>10. CASE Stamp(p)
  <2>1. proc' \in [Procs -> ProcRecord]
    BY <1>10, MovesTyped, Points DEF Stamp
  <2>2. lockFile' \in {NoLock} \cup [owner : Procs, written : BOOLEAN, fresh : BOOLEAN]
    BY <1>10 DEF Stamp
  <2>3. QED
    BY <1>10, <2>1, <2>2 DEF Stamp
<1>l. ASSUME Leave(p) PROVE proc' \in [Procs -> ProcRecord]
  <2>1. [proc[p] EXCEPT !.pc = "forget", !.then = "done", !.seen = p] \in ProcRecord
    BY <1>r, Placed, Points
  <2>2. proc' = [proc EXCEPT ![p] = [proc[p] EXCEPT !.pc = "forget", !.then = "done",
                                                    !.seen = p]]
    BY <1>l DEF Leave
  <2>3. QED
    BY <2>1, <2>2, BecomesTyped
<1>11. CASE Listen(p)
  <2>1. CASE Leave(p) /\ UNCHANGED <<stateFile, hasty>>
    BY <1>11, <1>l, <2>1 DEF Listen
  <2>2. CASE ~ (Leave(p) /\ UNCHANGED <<stateFile, hasty>>)
    <3>1. PICK fits \in BOOLEAN : fits = Fits
      BY DEF Fits
    <3>2. [proc[p] EXCEPT !.pc = "init", !.fits = fits] \in ProcRecord
      BY <1>r, Points DEF ProcRecord
    <3>3. proc' = [proc EXCEPT ![p] = [proc[p] EXCEPT !.pc = "init", !.fits = fits]]
      BY <1>11, <2>2, <3>1 DEF Listen
    <3>4. proc' \in [Procs -> ProcRecord]
      BY <3>2, <3>3, BecomesTyped
    <3>5. QED
      <4>1. stateFile' \in {NoState} \cup [owner : Procs, status : {"starting", "running"}]
        BY <1>11, <2>2, FileRecords DEF Listen
      <4>2. hasty' \in BOOLEAN
        BY <1>11, <2>2 DEF Listen, Hasty
      <4>3. QED
        BY <1>11, <3>4, <4>1, <4>2 DEF Listen
  <2>3. QED
    BY <2>1, <2>2
<1>12. CASE MarkRunning(p)
  BY <1>12, MovesTyped, Points, FileRecords DEF MarkRunning
<1>13. CASE Close(p)
  BY <1>13, <1>l DEF Close
<1>14. CASE RequestStop(p)
  <2>1. PICK r \in ProcRecord : proc' = [proc EXCEPT ![p] = r]
    <3>1. [proc[p] EXCEPT !.pc = "erase", !.then = "stopCleaned", !.seen = None] \in ProcRecord
      BY <1>r, Placed, Points
    <3>2. stateFile # NoState
          => [proc[p] EXCEPT !.pc = "askStop", !.seen = stateFile.owner] \in ProcRecord
      BY <1>r, <1>s, Placed, Points
    <3>3. CASE stateFile = NoState
      BY <1>14, <3>1, <3>3 DEF RequestStop
    <3>4. CASE stateFile # NoState
      BY <1>14, <3>2, <3>4 DEF RequestStop
    <3>5. QED
      BY <3>3, <3>4
  <2>2. proc' \in [Procs -> ProcRecord]
    BY <2>1, BecomesTyped
  <2>3. QED
    BY <1>14, <2>2 DEF RequestStop
<1>15. CASE AskStop(p)
  <2>1. [proc[p] EXCEPT !.pc = "info", !.then = "stopWait", !.seen = None] \in ProcRecord
    BY <1>r, Placed, Points
  <2>2. PICK between \in [Procs -> ProcRecord] :
            between = [proc EXCEPT ![p] = [proc[p] EXCEPT !.pc = "info", !.then = "stopWait",
                                                          !.seen = None]]
    BY <2>1
  <2>3. PICK s : s = proc[p].seen
    OBVIOUS
  <2>4. proc' = [between EXCEPT ![s].stopping = TRUE]
    BY <1>15, <2>2, <2>3 DEF AskStop
  <2>5. \A q \in Procs : [between[q] EXCEPT !.stopping = TRUE] \in ProcRecord
    <3>1. \A r \in ProcRecord : [r EXCEPT !.stopping = TRUE] \in ProcRecord
      BY DEF ProcRecord
    <3>2. QED
      BY <2>2, <3>1
  <2>6. proc' \in [Procs -> ProcRecord]
    BY <2>2, <2>4, <2>5
  <2>7. QED
    BY <1>15, <2>6 DEF AskStop
<1>16. CASE LoadKey(p)
  <2>1. identity' \in [key : Keys, id : [by : Masters \cup {None}, key : Keys]]
    BY <1>16 DEF LoadKey, Keys
  <2>2. PICK key \in Keys : key = identity'.key
    BY <2>1
  <2>3. PICK m \in Masters : proc' = [proc EXCEPT ![p] = [proc[p] EXCEPT !.pc = "enroll",
                                                           !.master = m, !.key = key]]
    <3>1. PICK m \in Masters : proc' = [proc EXCEPT ![p].pc = "enroll", ![p].master = m,
                                               ![p].key = identity'.key]
      BY <1>16 DEF LoadKey
    <3>2. QED
      BY <2>2, <3>1
  <2>4. [proc[p] EXCEPT !.pc = "enroll", !.master = m, !.key = key] \in ProcRecord
    BY <1>r, <2>2, <2>3, Points DEF ProcRecord
  <2>5. proc' \in [Procs -> ProcRecord]
    BY <2>3, <2>4, BecomesTyped
  <2>6. QED
    BY <1>16, <2>1, <2>5 DEF LoadKey
<1>17. CASE Enroll(p)
  <2>1. proc' \in [Procs -> ProcRecord]
    BY <1>17, MovesTyped, Points DEF Enroll
  <2>2. proc[p].master \in Masters \cup {None} /\ proc[p].key \in Keys
    BY <1>r DEF ProcRecord
  <2>3. identity' \in [key : Keys, id : [by : Masters \cup {None}, key : Keys]]
    BY <1>17, <2>2 DEF Enroll, SaveIdentityIds
  <2>4. QED
    BY <1>17, <2>1, <2>3 DEF Enroll
<1>18. CASE WriteConfig(p)
  <2>1. proc[p].master \in Masters \cup {None}
    BY <1>r DEF ProcRecord
  <2>2. proc' \in [Procs -> ProcRecord]
    BY <1>18, MovesTyped DEF WriteConfig
  <2>3. QED
    BY <1>18, <2>1, <2>2 DEF WriteConfig
<1>19. QED
  BY <1>1, <1>2, <1>3, <1>4, <1>5, <1>6, <1>7, <1>8, <1>9, <1>10, <1>11, <1>12, <1>13,
     <1>14, <1>15, <1>16, <1>17, <1>18 DEF Step

(* A command that begins, a signal and a kill keep the types. *)
LEMMA UserTyped ==
  ASSUME TypeOK, NEW p \in Procs, UserStep(p) \/ Kill(p)
  PROVE  TypeOK'
<1> USE ControlAssumption DEF TypeOK, files, host
<1>r. proc[p] \in ProcRecord
  OBVIOUS
<1>1. ASSUME NEW site \in {"startCheck", "stopCheck", "registerCheck", "statusCheck"},
             NEW background \in BOOLEAN, Begin(p, site, background)
      PROVE  TypeOK'
  <2>1. PICK alone \in BOOLEAN : alone = ~\E q \in Procs : Alive(q)
    OBVIOUS
  <2>2. [proc[p] EXCEPT !.pc = "info", !.then = site, !.background = background,
                        !.alone = alone] \in ProcRecord
    BY <1>r, Points DEF ProcRecord
  <2>3. proc' = [proc EXCEPT ![p] = [proc[p] EXCEPT !.pc = "info", !.then = site,
                                     !.background = background, !.alone = alone]]
    BY <1>1, <2>1 DEF Begin
  <2>4. proc' \in [Procs -> ProcRecord]
    BY <2>2, <2>3, BecomesTyped
  <2>5. QED
    BY <1>1, <2>4 DEF Begin, Hasty
<1>2. CASE Interrupt(p)
  <2>1. [proc[p] EXCEPT !.stopping = TRUE] \in ProcRecord
    BY <1>r DEF ProcRecord
  <2>2. proc' = [proc EXCEPT ![p] = [proc[p] EXCEPT !.stopping = TRUE]]
    BY <1>2 DEF Interrupt
  <2>3. proc' \in [Procs -> ProcRecord]
    BY <2>1, <2>2, BecomesTyped
  <2>4. QED
    BY <1>2, <2>3 DEF Interrupt
<1>3. CASE Kill(p)
  <2>1. proc' \in [Procs -> ProcRecord]
    BY <1>3, MovesTyped DEF Kill
  <2>2. QED
    BY <1>3, <2>1 DEF Kill
<1>4. QED
  BY <1>1, <1>2, <1>3 DEF UserStep, BeginStart, BeginStop, BeginRegister, BeginStatus

(* A lock that grows old keeps the types. *)
LEMMA AgesTyped == TypeOK /\ LockAges => TypeOK'
  BY DEF TypeOK, LockAges, Hasty

(* The steps keep the types. *)
LEMMA NextTyped == TypeOK /\ [Next]_vars => TypeOK'
<1>1. TypeOK /\ UNCHANGED vars => TypeOK'
  BY DEF TypeOK, vars
<1>2. QED
  BY <1>1, StepTyped, UserTyped, AgesTyped DEF Next

(* Every variable keeps its type: the files name processes of the host and *)
(* Masters, every process is at a point of the program. *)
THEOREM TypesHold == Spec => []TypeOK
  BY InitTyped, NextTyped, PTL DEF Spec

-----------------------------------------------------------------------------
(***************************************************************************)
(* The inductive invariant.  As long as nothing was hasty, one command     *)
(* acts at a time, with at most one start beside it that waits for it as   *)
(* its child; the state file tells the Worker that is up; a command past   *)
(* its look at the files is alone with them.                               *)
(***************************************************************************)
StartSites == {"startCheck", "controlCheck", "contended"}
Acquiring == {"acquire", "reacquire", "dropLock", "dropLast", "stamp", "listen"}
Registering == {"loadKey", "enroll", "writeConfig"}
Cleaning == {"lockRead", "forget", "erase", "unlock"}

\* p was the Worker that is up, or has never to be it again.
Past(p) == Up(p) \/ Closing(p) \/ proc[p].pc = "done"
\* A start in the background waits for its child; every other command acts.
Waits(p) == Busy(p) /\ proc[p].then = "waitCheck"
Acts(p) == Busy(p) /\ proc[p].then # "waitCheck"

\* The points of the program at which a process has a place to return to.
PlacesOK ==
    \A p \in Procs :
        /\ proc[p].pc \in {"ask", "askStop", "forget"} => proc[p].seen \in Procs
        /\ proc[p].pc \in {"info", "ask", "lockRead"} => proc[p].then # "done"
        /\ proc[p].pc \in {"requestStop", "askStop"} => proc[p].then = "stopCheck"
        /\ proc[p].pc \in Acquiring => proc[p].then = "controlCheck"
        /\ proc[p].pc \in Registering => proc[p].then = "registerCheck"

\* One command acts, one waits, and what it waits for is a start in the
\* foreground.
OneCommand ==
    \A p, q \in Procs :
        /\ Acts(p) /\ Acts(q) => p = q
        /\ Waits(p) /\ Waits(q) => p = q
        /\ Waits(p) /\ Acts(q) => proc[q].then \in StartSites /\ ~proc[q].background

\* The state file, and who has read it, name a Worker that was up.
NamesThePast ==
    /\ stateFile # NoState => Past(stateFile.owner)
    /\ \A p \in Procs : proc[p].seen # None => Past(proc[p].seen)

\* The state file names the Worker that is up, nobody is about to remove it,
\* and a command that acts has seen that Worker or not looked yet.
UpIsOnFile ==
    \A p \in Procs : Up(p) =>
        /\ stateFile # NoState /\ stateFile.owner = p
        /\ \A q \in Procs :
              /\ proc[q].pc # "erase"
              /\ proc[q].pc = "forget" => proc[q].seen # p
              /\ Acts(q) /\ proc[q].pc \in {"ask", "askStop"} => proc[q].seen = p
              /\ Acts(q) => proc[q].pc \notin Cleaning \cup Acquiring \cup Registering

\* The lock names the process that is about to be up, or one of the past; the
\* second attempt to create it finds none.
LockNames ==
    /\ lockFile # NoLock => \/ Past(lockFile.owner)
                            \/ proc[lockFile.owner].pc \in {"stamp", "listen"}
    /\ \A p \in Procs : /\ proc[p].pc = "reacquire" => lockFile = NoLock
                        /\ proc[p].pc # "dropLast"

\* A command that found no process alive has met none but the one that waits
\* for it.
AloneOK ==
    \A p \in Procs : Acts(p) /\ proc[p].alone =>
        /\ proc[p].then # "contended"
        /\ \A q \in Procs \ {p} : Alive(q) => Waits(q)

\* What a registration has written fits together, unless it is half way.
FilesFit ==
    /\ identity.key = None => ~Registered
    /\ \A p \in Procs : Acts(p) /\ proc[p].then \in StartSites => Registered
    /\ \A p \in Procs : proc[p].pc = "enroll" =>
          proc[p].master \in Masters /\ proc[p].key = identity.key /\ identity.key # None
    /\ \A p \in Procs : proc[p].pc = "writeConfig" =>
          identity.id = [by |-> proc[p].master, key |-> identity.key] /\ Registered
    /\ crashes = 0 => ~Registered \/ Fits \/ \E p \in Procs : proc[p].pc = "writeConfig"

QuietInv == /\ OneCommand /\ NamesThePast /\ UpIsOnFile /\ LockNames /\ AloneOK
            /\ FilesFit /\ NoMixedRegistration

ControlInv == PlacesOK /\ (~hasty => QuietInv)

-----------------------------------------------------------------------------
(***************************************************************************)
(* What the steps do to the processes.                                     *)
(***************************************************************************)
\* The process q is where it was.
Same(q) ==
    /\ proc'[q].pc = proc[q].pc /\ proc'[q].then = proc[q].then
    /\ proc'[q].seen = proc[q].seen /\ proc'[q].background = proc[q].background
    /\ proc'[q].alone = proc[q].alone /\ proc'[q].master = proc[q].master
    /\ proc'[q].key = proc[q].key /\ proc'[q].fits = proc[q].fits

\* Only p has moved.
Still(p) == \A q \in Procs \ {p} : Same(q)

\* p has kept what it is.
Keeps(p) == /\ proc'[p].background = proc[p].background /\ proc'[p].alone = proc[p].alone
            /\ proc'[p].fits = proc[p].fits

(* Goto, Info, End and Leave move p alone. *)
LEMMA GotoDoes ==
  ASSUME TypeOK, NEW p \in Procs, NEW pc, Goto(p, pc)
  PROVE  /\ Still(p) /\ Keeps(p) /\ proc'[p].pc = pc /\ proc'[p].then = proc[p].then
         /\ proc'[p].seen = proc[p].seen
         /\ proc'[p].master = proc[p].master /\ proc'[p].key = proc[p].key
<1>1. proc' = [proc EXCEPT ![p] = [proc[p] EXCEPT !.pc = pc]] /\ DOMAIN proc = Procs
      /\ proc[p] \in ProcRecord
  BY DEF Goto, TypeOK
<1>2. Still(p)
  BY <1>1 DEF Still, Same
<1>3. proc'[p] = [proc[p] EXCEPT !.pc = pc]
  BY <1>1
<1>4. QED
  BY <1>1, <1>2, <1>3 DEF Keeps, ProcRecord

LEMMA InfoDoes ==
  ASSUME TypeOK, NEW p \in Procs, NEW site, Info(p, site)
  PROVE  /\ Still(p) /\ Keeps(p) /\ proc'[p].pc = "info" /\ proc'[p].then = site
         /\ proc'[p].seen = None
<1>1. proc' = [proc EXCEPT ![p] = [proc[p] EXCEPT !.pc = "info", !.then = site, !.seen = None]]
      /\ DOMAIN proc = Procs /\ proc[p] \in ProcRecord
  BY DEF Info, TypeOK
<1>2. Still(p)
  BY <1>1 DEF Still, Same
<1>3. proc'[p] = [proc[p] EXCEPT !.pc = "info", !.then = site, !.seen = None]
  BY <1>1
<1>4. QED
  BY <1>1, <1>2, <1>3 DEF Keeps, ProcRecord

LEMMA EndDoes ==
  ASSUME TypeOK, NEW p \in Procs, End(p)
  PROVE  /\ Still(p) /\ proc'[p].pc = "done" /\ proc'[p].then = "done"
         /\ proc'[p].seen = None
<1>1. Still(p)
  BY DEF End, TypeOK, Still, Same
<1>2. proc'[p] = Ended
  BY DEF End, TypeOK
<1>3. QED
  BY <1>1, <1>2 DEF Ended, Unborn

LEMMA LeaveDoes ==
  ASSUME TypeOK, NEW p \in Procs, Leave(p)
  PROVE  /\ Still(p) /\ Keeps(p) /\ proc'[p].pc = "forget" /\ proc'[p].then = "done"
         /\ proc'[p].seen = p
<1>1. proc' = [proc EXCEPT ![p] = [proc[p] EXCEPT !.pc = "forget", !.then = "done", !.seen = p]]
      /\ DOMAIN proc = Procs /\ proc[p] \in ProcRecord
  BY DEF Leave, TypeOK
<1>2. Still(p)
  BY <1>1 DEF Still, Same
<1>3. proc'[p] = [proc[p] EXCEPT !.pc = "forget", !.then = "done", !.seen = p]
  BY <1>1
<1>4. QED
  BY <1>1, <1>2, <1>3 DEF Keeps, ProcRecord

(* The other moves of one process. *)
LEMMA ReadStateDoes ==
  ASSUME TypeOK, NEW p \in Procs, ReadState(p), stateFile # NoState
  PROVE  /\ Still(p) /\ Keeps(p) /\ proc'[p].pc = "ask" /\ proc'[p].then = proc[p].then
         /\ proc'[p].seen = stateFile.owner /\ stateFile.owner \in Procs
<1>1. proc' = [proc EXCEPT ![p] = [proc[p] EXCEPT !.pc = "ask", !.seen = stateFile.owner]]
      /\ DOMAIN proc = Procs /\ proc[p] \in ProcRecord
  BY DEF ReadState, TypeOK
<1>2. Still(p)
  BY <1>1 DEF Still, Same
<1>3. proc'[p] = [proc[p] EXCEPT !.pc = "ask", !.seen = stateFile.owner]
  BY <1>1
<1>4. stateFile.owner \in Procs
  BY DEF TypeOK
<1>5. QED
  BY <1>1, <1>2, <1>3, <1>4 DEF Keeps, ProcRecord

LEMMA AskFailsDoes ==
  ASSUME TypeOK, NEW p \in Procs, AskFails(p)
  PROVE  /\ Still(p) /\ Keeps(p) /\ proc'[p].pc = "forget" /\ proc'[p].seen = proc[p].seen
         /\ proc'[p].then = IF proc[p].pc = "askStop" THEN "stopCleaned" ELSE proc[p].then
<1>1. PICK then : then = IF proc[p].pc = "askStop" THEN "stopCleaned" ELSE proc[p].then
  OBVIOUS
<1>2. proc' = [proc EXCEPT ![p] = [proc[p] EXCEPT !.pc = "forget", !.then = then]]
      /\ DOMAIN proc = Procs /\ proc[p] \in ProcRecord
  BY <1>1 DEF AskFails, TypeOK
<1>3. Still(p)
  BY <1>2 DEF Still, Same
<1>4. proc'[p] = [proc[p] EXCEPT !.pc = "forget", !.then = then]
  BY <1>2
<1>5. /\ Keeps(p) /\ proc'[p].pc = "forget" /\ proc'[p].seen = proc[p].seen
      /\ proc'[p].then = then
  BY <1>2, <1>4 DEF Keeps, ProcRecord
<1>6. QED
  BY <1>1, <1>3, <1>5

LEMMA ListenDoes ==
  ASSUME TypeOK, NEW p \in Procs, Listen(p), ~ Leave(p)
  PROVE  /\ Still(p) /\ proc'[p].pc = "init" /\ proc'[p].then = proc[p].then
         /\ proc'[p].seen = proc[p].seen /\ proc'[p].fits = Fits
<1>1. PICK fits : fits = Fits
  OBVIOUS
<1>2. proc' = [proc EXCEPT ![p] = [proc[p] EXCEPT !.pc = "init", !.fits = fits]]
      /\ DOMAIN proc = Procs /\ proc[p] \in ProcRecord
  BY <1>1 DEF Listen, TypeOK
<1>3. Still(p)
  BY <1>2 DEF Still, Same
<1>4. proc'[p] = [proc[p] EXCEPT !.pc = "init", !.fits = fits]
  BY <1>2
<1>5. /\ proc'[p].pc = "init" /\ proc'[p].then = proc[p].then
      /\ proc'[p].seen = proc[p].seen /\ proc'[p].fits = fits
  BY <1>2, <1>4 DEF ProcRecord
<1>6. QED
  BY <1>1, <1>3, <1>5

LEMMA RequestStopDoes ==
  ASSUME TypeOK, NEW p \in Procs, RequestStop(p)
  PROVE  /\ Still(p) /\ Keeps(p)
         /\ stateFile = NoState => /\ proc'[p].pc = "erase" /\ proc'[p].then = "stopCleaned"
                                   /\ proc'[p].seen = None
         /\ stateFile # NoState => /\ proc'[p].pc = "askStop" /\ proc'[p].then = proc[p].then
                                   /\ proc'[p].seen = stateFile.owner
                                   /\ stateFile.owner \in Procs
<1>1. DOMAIN proc = Procs /\ proc[p] \in ProcRecord
      /\ (stateFile # NoState => stateFile.owner \in Procs)
  BY DEF TypeOK
<1>2. CASE stateFile = NoState
  <2>1. proc' = [proc EXCEPT ![p] = [proc[p] EXCEPT !.pc = "erase", !.then = "stopCleaned",
                                                    !.seen = None]]
    BY <1>2 DEF RequestStop
  <2>2. Still(p)
    BY <1>1, <2>1 DEF Still, Same
  <2>3. proc'[p] = [proc[p] EXCEPT !.pc = "erase", !.then = "stopCleaned", !.seen = None]
    BY <1>1, <2>1
  <2>4. QED
    BY <1>1, <1>2, <2>2, <2>3 DEF Keeps, ProcRecord
<1>3. CASE stateFile # NoState
  <2>1. proc' = [proc EXCEPT ![p] = [proc[p] EXCEPT !.pc = "askStop",
                                                    !.seen = stateFile.owner]]
    BY <1>3 DEF RequestStop
  <2>2. Still(p)
    BY <1>1, <2>1 DEF Still, Same
  <2>3. proc'[p] = [proc[p] EXCEPT !.pc = "askStop", !.seen = stateFile.owner]
    BY <1>1, <2>1
  <2>4. QED
    BY <1>1, <1>3, <2>2, <2>3 DEF Keeps, ProcRecord
<1>4. QED
  BY <1>2, <1>3

LEMMA AskStopDoes ==
  ASSUME TypeOK, PlacesOK, NEW p \in Procs, AskStop(p)
  PROVE  /\ Still(p) /\ Keeps(p) /\ proc'[p].pc = "info" /\ proc'[p].then = "stopWait"
         /\ proc'[p].seen = None
<1>1. PICK s \in Procs : s = proc[p].seen /\ s # p
  BY DEF AskStop, PlacesOK, Up
<1>2. PICK r : r = [proc[p] EXCEPT !.pc = "info", !.then = "stopWait", !.seen = None]
  OBVIOUS
<1>3. PICK z : z = [proc[s] EXCEPT !.stopping = TRUE]
  OBVIOUS
<1>4. proc' = [proc EXCEPT ![p].pc = "info", ![p].then = "stopWait", ![p].seen = None,
                           ![s].stopping = TRUE]
      /\ DOMAIN proc = Procs
  BY <1>1 DEF AskStop, TypeOK
<1>5. proc'[p] = r /\ proc'[s] = z
  BY <1>1, <1>2, <1>3, <1>4
<1>6. \A q \in Procs \ {p, s} : proc'[q] = proc[q]
  BY <1>4
<1>7. proc[p] \in ProcRecord /\ proc[s] \in ProcRecord
  BY DEF TypeOK
<1>8. Same(s)
  BY <1>3, <1>5, <1>7 DEF Same, ProcRecord
<1>9. \A q \in Procs \ {p, s} : Same(q)
  BY <1>6 DEF Same
<1>10. Still(p)
  BY <1>8, <1>9 DEF Still
<1>11. QED
  BY <1>2, <1>5, <1>7, <1>10 DEF Keeps, ProcRecord

LEMMA LoadKeyDoes ==
  ASSUME TypeOK, NEW p \in Procs, LoadKey(p)
  PROVE  /\ Still(p) /\ Keeps(p) /\ proc'[p].pc = "enroll" /\ proc'[p].then = proc[p].then
         /\ proc'[p].seen = proc[p].seen
         /\ proc'[p].master \in Masters /\ proc'[p].key = identity'.key
<1>1. PICK key : key = identity'.key
  OBVIOUS
<1>2. PICK m \in Masters : proc' = [proc EXCEPT ![p].pc = "enroll", ![p].master = m,
                                                ![p].key = identity'.key]
  BY DEF LoadKey
<1>3. proc' = [proc EXCEPT ![p] = [proc[p] EXCEPT !.pc = "enroll", !.master = m, !.key = key]]
      /\ DOMAIN proc = Procs /\ proc[p] \in ProcRecord
  BY <1>1, <1>2 DEF TypeOK
<1>4. Still(p)
  BY <1>3 DEF Still, Same
<1>5. proc'[p] = [proc[p] EXCEPT !.pc = "enroll", !.master = m, !.key = key]
  BY <1>3
<1>6. /\ Keeps(p) /\ proc'[p].pc = "enroll" /\ proc'[p].then = proc[p].then
      /\ proc'[p].seen = proc[p].seen /\ proc'[p].master = m /\ proc'[p].key = key
  BY <1>3, <1>5 DEF Keeps, ProcRecord
<1>7. QED
  BY <1>1, <1>4, <1>6

LEMMA BeginDoes ==
  ASSUME TypeOK, NEW p \in Procs, NEW site, NEW background, Begin(p, site, background)
  PROVE  /\ Still(p) /\ proc'[p].pc = "info" /\ proc'[p].then = site
         /\ proc'[p].seen = proc[p].seen
         /\ proc'[p].alone = ~ \E q \in Procs : Alive(q)
<1>1. PICK alone : alone = ~ \E q \in Procs : Alive(q)
  OBVIOUS
<1>2. proc' = [proc EXCEPT ![p] = [proc[p] EXCEPT !.pc = "info", !.then = site,
                                   !.background = background, !.alone = alone]]
      /\ DOMAIN proc = Procs /\ proc[p] \in ProcRecord
  BY <1>1 DEF Begin, TypeOK
<1>3. Still(p)
  BY <1>2 DEF Still, Same
<1>4. proc'[p] = [proc[p] EXCEPT !.pc = "info", !.then = site,
                                 !.background = background, !.alone = alone]
  BY <1>2
<1>5. /\ proc'[p].pc = "info" /\ proc'[p].then = site /\ proc'[p].seen = proc[p].seen
      /\ proc'[p].alone = alone
  BY <1>2, <1>4 DEF ProcRecord
<1>6. QED
  BY <1>1, <1>3, <1>5

\* The child that a start in the background of p spawns.
Spawns(p, c) ==
    proc' = [proc EXCEPT ![p].pc = "info", ![p].then = "waitCheck", ![p].seen = None,
                         ![c] = [Unborn EXCEPT !.pc = "info", !.then = "startCheck",
                                               !.alone = proc[p].alone]]

LEMMA SpawnDoes ==
  ASSUME TypeOK, NEW p \in Procs, NEW c \in Procs, p # c, Spawns(p, c)
  PROVE  /\ \A q \in Procs \ {p, c} : Same(q)
         /\ Keeps(p) /\ proc'[p].pc = "info" /\ proc'[p].then = "waitCheck"
         /\ proc'[p].seen = None
         /\ proc'[c].pc = "info" /\ proc'[c].then = "startCheck" /\ proc'[c].seen = None
         /\ proc'[c].alone = proc[p].alone /\ proc'[c].background = FALSE
<1>1. PICK r : r = [proc[p] EXCEPT !.pc = "info", !.then = "waitCheck", !.seen = None]
  OBVIOUS
<1>2. PICK z : z = [Unborn EXCEPT !.pc = "info", !.then = "startCheck", !.alone = proc[p].alone]
  OBVIOUS
<1>3. proc' = [proc EXCEPT ![p].pc = "info", ![p].then = "waitCheck", ![p].seen = None,
                           ![c] = z]
      /\ DOMAIN proc = Procs
  BY <1>2 DEF Spawns, TypeOK
<1>4. proc'[p] = r /\ proc'[c] = z
  BY <1>1, <1>3
<1>5. \A q \in Procs \ {p, c} : proc'[q] = proc[q]
  BY <1>3
<1>6. \A q \in Procs \ {p, c} : Same(q)
  BY <1>5 DEF Same
<1>7. proc[p] \in ProcRecord
  BY DEF TypeOK
<1>8. /\ Keeps(p) /\ proc'[p].pc = "info" /\ proc'[p].then = "waitCheck"
      /\ proc'[p].seen = None
  BY <1>1, <1>4, <1>7 DEF Keeps, ProcRecord
<1>9. /\ proc'[c].pc = "info" /\ proc'[c].then = "startCheck" /\ proc'[c].seen = None
      /\ proc'[c].alone = proc[p].alone /\ proc'[c].background = FALSE
  BY <1>2, <1>4 DEF Unborn
<1>10. QED
  BY <1>6, <1>8, <1>9

(* What a caller of getWorkerProcessInfo does when it gets its status. *)
LEMMA ReturnsDoes ==
  ASSUME TypeOK, NEW p \in Procs, NEW status, Returns(p, status)
  PROVE  \/ End(p)
         \/ proc[p].then = "startCheck" /\ status = "stopped" /\ Info(p, "controlCheck")
         \/ proc[p].then = "waitCheck" /\ Info(p, "waitCheck")
         \/ proc[p].then \in {"stopWait", "stopCleaned"} /\ Info(p, "stopWait")
         \/ proc[p].then = "controlCheck" /\ status = "stopped" /\ Goto(p, "acquire")
         \/ proc[p].then = "stopCheck" /\ status # "stopped" /\ Goto(p, "requestStop")
         \/ proc[p].then = "registerCheck" /\ status = "stopped" /\ Goto(p, "loadKey")
         \/ /\ proc[p].then = "startCheck" /\ status = "stopped" /\ proc[p].background
            /\ \E c \in Procs : proc[c].pc = "unborn" /\ Spawns(p, c)
<1>1. CASE WaitChecked(p, status)
  BY <1>1 DEF WaitChecked
<1>2. CASE StartChecked(p, status)
  BY <1>2 DEF StartChecked, Spawns
<1>3. CASE ControlChecked(p, status)
  BY <1>3 DEF ControlChecked
<1>4. CASE StopChecked(p, status)
  BY <1>4 DEF StopChecked
<1>5. CASE RegisterChecked(p, status)
  BY <1>5 DEF RegisterChecked
<1>6. QED
  BY <1>1, <1>2, <1>3, <1>4, <1>5 DEF Returns

-----------------------------------------------------------------------------
(***************************************************************************)
(* What a step keeps when one process moves and none begins.               *)
(***************************************************************************)
(* A process that is where it was is what it was. *)
LEMMA SameMeans ==
  ASSUME NEW q, Same(q)
  PROVE  /\ Alive(q)' <=> Alive(q)
         /\ Up(q)' <=> Up(q)
         /\ Past(q)' <=> Past(q)
         /\ Acts(q)' <=> Acts(q)
         /\ Waits(q)' <=> Waits(q)
  BY DEF Same, Alive, Up, Closing, Busy, Past, Acts, Waits

\* q goes no further than to its end, and is what it was.
SteadyAt(q) ==
    /\ Acts(q)' => /\ Acts(q)
                   /\ proc'[q].then \in StartSites <=> proc[q].then \in StartSites
                   /\ proc'[q].background = proc[q].background
                   /\ proc'[q].alone = proc[q].alone
    /\ Waits(q)' => Waits(q)
    /\ Alive(q)' /\ Waits(q) => Waits(q)'
    /\ Alive(q)' => Alive(q)
    /\ Past(q) => Past(q)'
Steady == \A q \in Procs : SteadyAt(q)

LEMMA SteadyMove ==
  ASSUME NEW p \in Procs, Still(p), SteadyAt(p)
  PROVE  Steady
<1>1. SUFFICES ASSUME NEW q \in Procs \ {p} PROVE SteadyAt(q)
  BY DEF Steady
<1>2. Same(q)
  BY DEF Still
<1>3. QED
  BY <1>2, SameMeans DEF SteadyAt, Same

(* An end is steady. *)
LEMMA SteadyEnd ==
  ASSUME TypeOK, NEW p \in Procs, Alive(p), End(p)
  PROVE  Steady
<1>1. Still(p) /\ proc'[p].pc = "done"
  BY EndDoes
<1>2. SteadyAt(p)
  BY <1>1 DEF SteadyAt, Acts, Waits, Busy, Past, Alive
<1>3. QED
  BY <1>1, <1>2, SteadyMove

LEMMA OneCommandKept ==
  ASSUME Steady, OneCommand
  PROVE  OneCommand'
<1>1. \A p, q \in Procs : (Acts(p) /\ Acts(q))' => p = q
  BY DEF Steady, SteadyAt, OneCommand
<1>2. \A p, q \in Procs : (Waits(p) /\ Waits(q))' => p = q
  BY DEF Steady, SteadyAt, OneCommand
<1>3. \A p, q \in Procs : (Waits(p) /\ Acts(q))'
                          => proc'[q].then \in StartSites /\ ~ proc'[q].background
  BY DEF Steady, SteadyAt, OneCommand
<1>4. QED
  BY <1>1, <1>2, <1>3 DEF OneCommand

LEMMA NamesKept ==
  ASSUME TypeOK, TypeOK', Steady, NamesThePast, NEW p \in Procs, Still(p),
         stateFile' \in {NoState, stateFile} \/ Past(stateFile.owner)',
         \/ proc'[p].seen \in {None, proc[p].seen}
         \/ stateFile # NoState /\ proc'[p].seen = stateFile.owner
         \/ Past(proc[p].seen)'
  PROVE  NamesThePast'
<1>1. \A s \in Procs : Past(s) => Past(s)'
  BY DEF Steady, SteadyAt
<1>2. stateFile # NoState => stateFile.owner \in Procs
  BY DEF TypeOK
<1>3. \A q \in Procs : proc[q].seen \in Procs \cup {None}
  BY DEF TypeOK, ProcRecord
<1>4. stateFile' # NoState => Past(stateFile.owner)'
  <2>1. SUFFICES ASSUME stateFile' = stateFile, stateFile # NoState
                 PROVE  Past(stateFile.owner)'
    OBVIOUS
  <2>2. PICK s \in Procs : s = stateFile.owner
    BY <1>2, <2>1
  <2>3. Past(s)'
    BY <1>1, <2>1, <2>2 DEF NamesThePast
  <2>4. QED
    BY <2>1, <2>2, <2>3 DEF Past, Up, Closing
<1>5. \A q \in Procs : proc'[q].seen # None => Past(proc[q].seen)'
  <2>1. SUFFICES ASSUME NEW q \in Procs, proc'[q].seen # None PROVE Past(proc[q].seen)'
    OBVIOUS
  <2>2. CASE q # p
    <3>1. proc'[q].seen = proc[q].seen
      BY <2>2 DEF Still, Same
    <3>2. QED
      <4>1. PICK s \in Procs : s = proc[q].seen
        BY <1>3, <2>1, <3>1
      <4>2. Past(s)'
        BY <1>1, <2>1, <3>1, <4>1 DEF NamesThePast
      <4>3. QED
        BY <3>1, <4>1, <4>2 DEF Past, Up, Closing
  <2>3. CASE q = p
    <3>1. SUFFICES ASSUME ~ Past(proc[p].seen)' PROVE FALSE
      BY <2>3
    <3>2. PICK s \in Procs : s = proc'[p].seen /\ Past(s)
      BY <1>2, <1>3, <2>1, <2>3, <3>1 DEF NamesThePast
    <3>3. Past(s)'
      BY <1>1, <3>2
    <3>4. QED
      BY <3>1, <3>2, <3>3 DEF Past, Up, Closing
  <2>4. QED
    BY <2>2, <2>3
<1>6. QED
  BY <1>4, <1>5 DEF NamesThePast

(* One Worker is up at most: the state file names it. *)
LEMMA OneIsUp ==
  ASSUME UpIsOnFile, NEW p \in Procs, NEW q \in Procs, Up(p), Up(q)
  PROVE  p = q
  BY DEF UpIsOnFile

LEMMA UpKept ==
  ASSUME UpIsOnFile, NEW p \in Procs, Still(p), Up(p)' => Up(p),
         \/ stateFile' = stateFile
         \/ \A q \in Procs : ~ Up(q)'
         \/ Up(p) /\ stateFile' # NoState /\ stateFile'.owner = p,
         \A q \in Procs : Up(q)' =>
            /\ proc'[p].pc # "erase"
            /\ proc'[p].pc = "forget" => proc'[p].seen # q
            /\ Acts(p)' /\ proc'[p].pc \in {"ask", "askStop"} => proc'[p].seen = q
            /\ Acts(p)' => proc'[p].pc \notin Cleaning \cup Acquiring \cup Registering
  PROVE  UpIsOnFile'
<1>1. SUFFICES ASSUME NEW u \in Procs, Up(u)'
               PROVE  /\ stateFile' # NoState /\ stateFile'.owner = u
                      /\ \A q \in Procs :
                          /\ proc'[q].pc # "erase"
                          /\ proc'[q].pc = "forget" => proc'[q].seen # u
                          /\ Acts(q)' /\ proc'[q].pc \in {"ask", "askStop"} => proc'[q].seen = u
                          /\ Acts(q)' => proc'[q].pc \notin Cleaning \cup Acquiring \cup Registering
  BY DEF UpIsOnFile
<1>2. Up(u)
  BY <1>1, SameMeans DEF Still
<1>3. stateFile' # NoState /\ stateFile'.owner = u
  BY <1>1, <1>2, OneIsUp DEF UpIsOnFile
<1>4. ASSUME NEW q \in Procs \ {p}
      PROVE  /\ proc'[q].pc # "erase"
             /\ proc'[q].pc = "forget" => proc'[q].seen # u
             /\ Acts(q)' /\ proc'[q].pc \in {"ask", "askStop"} => proc'[q].seen = u
             /\ Acts(q)' => proc'[q].pc \notin Cleaning \cup Acquiring \cup Registering
  <2>1. Same(q)
    BY DEF Still
  <2>2. proc'[q].pc = proc[q].pc /\ proc'[q].seen = proc[q].seen /\ (Acts(q)' => Acts(q))
    BY <2>1, SameMeans DEF Same
  <2>3. QED
    BY <1>2, <2>2 DEF UpIsOnFile
<1>5. QED
  BY <1>1, <1>3, <1>4

LEMMA LockKept ==
  ASSUME TypeOK, Steady, LockNames, NEW p \in Procs, Still(p),
         \/ lockFile' \in {NoLock, lockFile}
         \/ lockFile # NoLock /\ lockFile' # NoLock /\ lockFile'.owner = lockFile.owner
         \/ /\ lockFile'.owner = p /\ proc'[p].pc = "stamp"
            /\ \A q \in Procs \ {p} : proc[q].pc # "reacquire",
         proc[p].pc \in {"stamp", "listen"} => Past(p)' \/ proc'[p].pc \in {"stamp", "listen"},
         proc'[p].pc = "reacquire" => lockFile' = NoLock,
         proc'[p].pc # "dropLast"
  PROVE  LockNames'
<1>1. lockFile # NoLock => lockFile.owner \in Procs
  BY DEF TypeOK
<1>2. ASSUME lockFile' # NoLock
      PROVE  Past(lockFile.owner)' \/ proc'[lockFile'.owner].pc \in {"stamp", "listen"}
  <2>0. SUFFICES ASSUME ~ (lockFile'.owner = p /\ proc'[p].pc = "stamp")
                 PROVE  Past(lockFile.owner)' \/ proc'[lockFile'.owner].pc \in {"stamp", "listen"}
    OBVIOUS
  <2>1. PICK o \in Procs : o = lockFile.owner /\ o = lockFile'.owner
    BY <1>1, <1>2, <2>0
  <2>2. Past(o) \/ proc[o].pc \in {"stamp", "listen"}
    BY <1>2, <2>0, <2>1 DEF LockNames
  <2>3. CASE Past(o)
    <3>1. Past(o)'
      BY <2>3 DEF Steady, SteadyAt
    <3>2. QED
      BY <2>1, <3>1 DEF Past, Up, Closing
  <2>4. CASE proc[o].pc \in {"stamp", "listen"}
    <3>1. Past(o)' \/ proc'[o].pc \in {"stamp", "listen"}
      BY <2>4 DEF Still, Same
    <3>2. QED
      BY <2>1, <3>1 DEF Past, Up, Closing
  <2>5. QED
    BY <2>2, <2>3, <2>4
<1>3. ASSUME NEW q \in Procs
      PROVE  (proc'[q].pc = "reacquire" => lockFile' = NoLock) /\ proc'[q].pc # "dropLast"
  BY DEF LockNames, Still, Same
<1>4. QED
  BY <1>2, <1>3 DEF LockNames

LEMMA AloneKept ==
  ASSUME Steady, AloneOK, NEW p \in Procs, Still(p),
         proc'[p].then = "contended" => ~ (Acts(p)' /\ proc'[p].alone)
  PROVE  AloneOK'
<1>1. SUFFICES ASSUME NEW q \in Procs, Acts(q)', proc'[q].alone
               PROVE  /\ proc'[q].then # "contended"
                      /\ \A o \in Procs \ {q} : Alive(o)' => Waits(o)'
  BY DEF AloneOK
<1>2. Acts(q) /\ proc[q].alone
  BY <1>1 DEF Steady, SteadyAt
<1>3. proc'[q].then # "contended"
  BY <1>1, <1>2 DEF AloneOK, Still, Same
<1>4. \A o \in Procs \ {q} : Alive(o)' => Waits(o)'
  BY <1>2 DEF AloneOK, Steady, SteadyAt
<1>5. QED
  BY <1>3, <1>4

(* As long as p is not at work on the identity and the configuration. *)
LEMMA FitKept ==
  ASSUME Steady, FilesFit, NEW p \in Procs, Still(p),
         identity' = identity, config' = config, crashes' = 0 => crashes = 0,
         proc[p].pc = "writeConfig" => crashes' # 0,
         proc'[p].pc \notin {"enroll", "writeConfig"}
  PROVE  FilesFit'
<1>1. (Fits' <=> Fits) /\ (Registered' <=> Registered)
  BY DEF Fits, Registered
<1>2. \A q \in Procs : Acts(q)' /\ proc'[q].then \in StartSites => Registered
  BY DEF Steady, SteadyAt, FilesFit
<1>3. \A q \in Procs : proc'[q].pc \in {"enroll", "writeConfig"} => Same(q)
  BY DEF Still
<1>4. \A q \in Procs : proc'[q].pc = "enroll" =>
          proc'[q].master \in Masters /\ proc'[q].key = identity.key /\ identity.key # None
  BY <1>3 DEF FilesFit, Same
<1>5. \A q \in Procs : proc'[q].pc = "writeConfig" =>
          identity.id = [by |-> proc'[q].master, key |-> identity.key] /\ Registered
  BY <1>3 DEF FilesFit, Same
<1>6. \A q \in Procs : proc[q].pc = "writeConfig" => crashes' # 0 \/ proc'[q].pc = "writeConfig"
  BY DEF Still, Same
<1>7. crashes' = 0 => ~ Registered \/ Fits \/ \E q \in Procs : proc'[q].pc = "writeConfig"
  BY <1>6 DEF FilesFit
<1>8. QED
  BY <1>1, <1>2, <1>4, <1>5, <1>7 DEF FilesFit

LEMMA RegistrationKept ==
  ASSUME NoMixedRegistration, NEW p \in Procs, Still(p), hasty' = hasty,
         crashes' = 0 => crashes = 0,
         Up(p)' => Up(p) /\ proc'[p].fits = proc[p].fits,
         crashes \in Nat, crashes' \in Nat
  PROVE  NoMixedRegistration'
<1>1. SUFFICES ASSUME NEW q \in Procs, ~ hasty', Up(q)', ~ proc'[q].fits PROVE crashes' > 0
  BY DEF NoMixedRegistration
<1>2. Up(q) /\ ~ proc[q].fits
  BY <1>1, SameMeans DEF Still, Same
<1>3. crashes > 0
  BY <1>1, <1>2 DEF NoMixedRegistration
<1>4. QED
  BY <1>3

LEMMA PlacesKept ==
  ASSUME PlacesOK, NEW p \in Procs, Still(p),
         /\ proc'[p].pc \in {"ask", "askStop", "forget"} => proc'[p].seen \in Procs
         /\ proc'[p].pc \in {"info", "ask", "lockRead"} => proc'[p].then # "done"
         /\ proc'[p].pc \in {"requestStop", "askStop"} => proc'[p].then = "stopCheck"
         /\ proc'[p].pc \in Acquiring => proc'[p].then = "controlCheck"
         /\ proc'[p].pc \in Registering => proc'[p].then = "registerCheck"
  PROVE  PlacesOK'
<1>1. \A q \in Procs \ {p} : Same(q)
  BY DEF Still
<1>2. QED
  BY <1>1 DEF PlacesOK, Same

-----------------------------------------------------------------------------
(***************************************************************************)
(* The steps of one process that leave the identity and the configuration  *)
(* alone and bring no Worker up.                                           *)
(***************************************************************************)
\* Where p may go: what it has seen, the lock it leaves, and with a Worker up
\* no further than that Worker lets it.
NamesSafely(p) ==
    \/ proc'[p].seen \in {None, proc[p].seen}
    \/ stateFile # NoState /\ proc'[p].seen = stateFile.owner
    \/ Past(proc[p].seen)'
MovesSafely(p) ==
    /\ Up(p)' => Up(p) /\ proc'[p].fits = proc[p].fits
    /\ \A q \in Procs : Up(q)' =>
          /\ proc'[p].pc # "erase"
          /\ proc'[p].pc = "forget" => proc'[p].seen # q
          /\ Acts(p)' /\ proc'[p].pc \in {"ask", "askStop"} => proc'[p].seen = q
          /\ Acts(p)' => proc'[p].pc \notin Cleaning \cup Acquiring \cup Registering
LocksSafely(p) ==
    /\ \/ lockFile' \in {NoLock, lockFile}
       \/ lockFile # NoLock /\ lockFile' # NoLock /\ lockFile'.owner = lockFile.owner
       \/ /\ lockFile'.owner = p /\ proc'[p].pc = "stamp"
          /\ \A q \in Procs \ {p} : proc[q].pc # "reacquire"
    /\ proc[p].pc \in {"stamp", "listen"} => Past(p)' \/ proc'[p].pc \in {"stamp", "listen"}
    /\ proc'[p].pc = "reacquire" => lockFile' = NoLock
    /\ proc'[p].pc # "dropLast"
GoesOn(p) ==
    proc'[p].then = "contended" => ~ (Acts(p)' /\ proc'[p].alone)
StatesSafely(p) ==
    \/ stateFile' = stateFile
    \/ stateFile' = NoState /\ \A q \in Procs : ~ Up(q)'
    \/ Up(p) /\ Up(p)' /\ stateFile' # NoState /\ stateFile'.owner = p

LEMMA MoveKept ==
  ASSUME TypeOK, TypeOK', QuietInv, NEW p \in Procs, Still(p), Steady,
         crashes' \in {crashes, crashes + 1}, hasty' = hasty, StatesSafely(p),
         NamesSafely(p), MovesSafely(p), LocksSafely(p), GoesOn(p)
  PROVE  /\ OneCommand' /\ NamesThePast' /\ UpIsOnFile' /\ LockNames' /\ AloneOK'
         /\ NoMixedRegistration'
<1>1. OneCommand'
  BY OneCommandKept DEF QuietInv
<1>2. NamesThePast'
  <2>1. stateFile' \in {NoState, stateFile} \/ Past(stateFile.owner)'
    BY DEF StatesSafely, Past, Up
  <2>2. QED
    BY <2>1, NamesKept DEF QuietInv, NamesSafely
<1>3. UpIsOnFile'
  BY UpKept DEF QuietInv, MovesSafely, StatesSafely
<1>4. LockNames'
  BY LockKept DEF QuietInv, LocksSafely
<1>5. AloneOK'
  BY AloneKept DEF QuietInv, GoesOn
<1>6. crashes \in Nat /\ crashes' \in Nat /\ (crashes' = 0 => crashes = 0)
  BY ControlAssumption DEF TypeOK
<1>7. NoMixedRegistration'
  BY <1>6, RegistrationKept DEF QuietInv, MovesSafely
<1>8. QED
  BY <1>1, <1>2, <1>3, <1>4, <1>5, <1>7

LEMMA QuietKept ==
  ASSUME TypeOK, TypeOK', QuietInv, NEW p \in Procs, Still(p), Steady,
         identity' = identity, config' = config, crashes' \in {crashes, crashes + 1},
         proc[p].pc = "writeConfig" => crashes' # 0,
         proc'[p].pc \notin {"enroll", "writeConfig"},
         hasty' = hasty, StatesSafely(p),
         NamesSafely(p), MovesSafely(p), LocksSafely(p), GoesOn(p)
  PROVE  QuietInv'
<1>1. /\ OneCommand' /\ NamesThePast' /\ UpIsOnFile' /\ LockNames' /\ AloneOK'
      /\ NoMixedRegistration'
  BY MoveKept
<1>2. crashes \in Nat /\ crashes' \in Nat /\ (crashes' = 0 => crashes = 0)
  BY ControlAssumption DEF TypeOK
<1>3. FilesFit'
  BY <1>2, FitKept DEF QuietInv
<1>4. QED
  BY <1>1, <1>3 DEF QuietInv

(* A process that ends. *)
LEMMA EndKeeps ==
  ASSUME TypeOK, TypeOK', QuietInv, NEW p \in Procs, Alive(p), End(p),
         lockFile' \in {NoLock, lockFile}, UNCHANGED <<stateFile, config, identity, hasty>>,
         crashes' \in {crashes, crashes + 1},
         proc[p].pc = "writeConfig" => crashes' # 0
  PROVE  QuietInv'
<1>1. Still(p) /\ proc'[p].pc = "done" /\ proc'[p].then = "done" /\ proc'[p].seen = None
  BY EndDoes
<1>2. Steady
  BY SteadyEnd
<1>3. NamesSafely(p) /\ GoesOn(p)
  BY <1>1 DEF NamesSafely, GoesOn, Acts, Busy, Alive
<1>4. MovesSafely(p)
  BY <1>1 DEF MovesSafely, Up, Acts, Busy, Alive
<1>5. LocksSafely(p)
  BY <1>1 DEF LocksSafely, Past
<1>6. QED
  BY <1>1, <1>2, <1>3, <1>4, <1>5, QuietKept DEF StatesSafely

(* The child of a start in the background begins, when no Worker is up. *)
LEMMA SpawnKeeps ==
  ASSUME TypeOK, TypeOK', QuietInv, NEW p \in Procs, NEW c \in Procs,
         Acts(p), proc[p].then = "startCheck", proc[p].background,
         proc[p].pc \notin {"stamp", "listen", "enroll", "writeConfig", "done"},
         proc[c].pc = "unborn", Spawns(p, c),
         lockFile' \in {NoLock, lockFile},
         UNCHANGED <<stateFile, config, identity, crashes, hasty>>
  PROVE  QuietInv'
<1>0. OneCommand /\ NamesThePast /\ UpIsOnFile /\ LockNames /\ AloneOK /\ FilesFit
      /\ NoMixedRegistration
  BY DEF QuietInv
<1>1. p # c
  BY DEF Acts, Busy, Alive
<1>2. /\ \A q \in Procs \ {p, c} : Same(q)
      /\ Keeps(p) /\ proc'[p].pc = "info" /\ proc'[p].then = "waitCheck" /\ proc'[p].seen = None
      /\ proc'[c].pc = "info" /\ proc'[c].then = "startCheck" /\ proc'[c].seen = None
      /\ proc'[c].alone = proc[p].alone /\ proc'[c].background = FALSE
  BY <1>1, SpawnDoes
<1>3. \A q \in Procs \ {p, c} : /\ Alive(q)' <=> Alive(q)
                                /\ Up(q)' <=> Up(q)
                                /\ Past(q)' <=> Past(q)
                                /\ Acts(q)' <=> Acts(q)
                                /\ Waits(q)' <=> Waits(q)
  BY <1>2, SameMeans
<1>4. /\ Waits(p)' /\ ~ Acts(p)' /\ ~ Up(p)'
      /\ Acts(c)' /\ ~ Waits(c)' /\ ~ Up(c)'
  BY <1>2 DEF Waits, Acts, Busy, Alive, Up, Closing
<1>5. ~ Past(p) /\ ~ Past(c) /\ ~ Up(p) /\ ~ Up(c)
  BY DEF Past, Up, Closing, Acts, Busy
<1>6. \A q \in Procs \ {p, c} : ~ Acts(q) /\ ~ Waits(q)
  BY <1>0 DEF OneCommand
<1>7. OneCommand'
  BY <1>2, <1>3, <1>4, <1>6 DEF OneCommand, StartSites
<1>8. NamesThePast'
  <2>1. \A q \in Procs : Past(q) => Past(q)'
    BY <1>3, <1>5
  <2>2. (stateFile # NoState => stateFile.owner \in Procs)
        /\ \A q \in Procs : proc[q].seen \in Procs \cup {None}
    BY DEF TypeOK, ProcRecord
  <2>3. stateFile' # NoState => Past(stateFile.owner)'
    <3>1. SUFFICES ASSUME stateFile # NoState PROVE Past(stateFile.owner)'
      OBVIOUS
    <3>2. PICK s \in Procs : s = stateFile.owner
      BY <2>2, <3>1
    <3>3. Past(s)'
      BY <1>0, <2>1, <3>1, <3>2 DEF NamesThePast
    <3>4. QED
      BY <3>2, <3>3 DEF Past, Up, Closing
  <2>4. ASSUME NEW q \in Procs, proc'[q].seen # None PROVE Past(proc[q].seen)'
    <3>1. q \notin {p, c}
      BY <1>2, <2>4
    <3>2. PICK s \in Procs : s = proc[q].seen /\ s = proc'[q].seen
      BY <1>2, <2>2, <2>4, <3>1 DEF Same
    <3>3. s # None
      BY <2>4, <3>2
    <3>4. Past(s)'
      BY <1>0, <2>1, <3>2, <3>3 DEF NamesThePast
    <3>5. QED
      BY <3>2, <3>4 DEF Past, Up, Closing
  <2>5. QED
    BY <2>3, <2>4 DEF NamesThePast
<1>9. UpIsOnFile'
  <2>1. SUFFICES ASSUME NEW u \in Procs, Up(u)'
                 PROVE  /\ stateFile' # NoState /\ stateFile'.owner = u
                        /\ \A q \in Procs :
                            /\ proc'[q].pc # "erase"
                            /\ proc'[q].pc = "forget" => proc'[q].seen # u
                            /\ Acts(q)' /\ proc'[q].pc \in {"ask", "askStop"} => proc'[q].seen = u
                            /\ Acts(q)' => proc'[q].pc \notin Cleaning \cup Acquiring \cup Registering
    BY DEF UpIsOnFile
  <2>2. Up(u)
    BY <1>3, <1>4, <2>1
  <2>3. stateFile' # NoState /\ stateFile'.owner = u
    BY <1>0, <2>2 DEF UpIsOnFile
  <2>4. ASSUME NEW q \in Procs
        PROVE  /\ proc'[q].pc # "erase"
               /\ proc'[q].pc = "forget" => proc'[q].seen # u
               /\ Acts(q)' /\ proc'[q].pc \in {"ask", "askStop"} => proc'[q].seen = u
               /\ Acts(q)' => proc'[q].pc \notin Cleaning \cup Acquiring \cup Registering
    <3>1. CASE q \in {p, c}
      BY <1>2, <3>1 DEF Cleaning, Acquiring, Registering
    <3>2. CASE q \notin {p, c}
      BY <1>0, <1>2, <1>3, <2>2, <3>2 DEF UpIsOnFile, Same
    <3>3. QED
      BY <3>1, <3>2
  <2>5. QED
    BY <2>3, <2>4
<1>10. LockNames'
  <2>1. lockFile # NoLock => lockFile.owner \in Procs
    BY DEF TypeOK
  <2>2. ASSUME lockFile' # NoLock
        PROVE  Past(lockFile.owner)' \/ proc'[lockFile'.owner].pc \in {"stamp", "listen"}
    <3>1. PICK o \in Procs : o = lockFile.owner /\ o = lockFile'.owner
      BY <2>1, <2>2
    <3>2. Past(o) \/ proc[o].pc \in {"stamp", "listen"}
      BY <1>0, <2>2, <3>1 DEF LockNames
    <3>3. o \notin {p, c}
      BY <1>5, <3>2
    <3>4. Past(o)' \/ proc'[o].pc \in {"stamp", "listen"}
      BY <1>2, <1>3, <3>2, <3>3 DEF Same
    <3>5. QED
      BY <3>1, <3>4 DEF Past, Up, Closing
  <2>3. ASSUME NEW q \in Procs
        PROVE  (proc'[q].pc = "reacquire" => lockFile' = NoLock) /\ proc'[q].pc # "dropLast"
    BY <1>0, <1>2 DEF LockNames, Same
  <2>4. QED
    BY <2>2, <2>3 DEF LockNames
<1>11. AloneOK'
  <2>1. SUFFICES ASSUME NEW q \in Procs, Acts(q)', proc'[q].alone
                 PROVE  /\ proc'[q].then # "contended"
                        /\ \A o \in Procs \ {q} : Alive(o)' => Waits(o)'
    BY DEF AloneOK
  <2>2. q = c /\ proc[p].alone
    BY <1>2, <1>3, <1>4, <1>6, <2>1
  <2>3. \A o \in Procs \ {p, c} : ~ Alive(o)
    BY <1>0, <1>6, <2>2 DEF AloneOK
  <2>4. QED
    BY <1>2, <1>3, <1>4, <2>2, <2>3
<1>12. FilesFit'
  <2>1. (Fits' <=> Fits) /\ (Registered' <=> Registered)
    BY DEF Fits, Registered
  <2>2. Registered
    BY <1>0 DEF FilesFit, StartSites
  <2>3. \A q \in Procs : proc'[q].pc \in {"enroll", "writeConfig"} => q \notin {p, c} /\ Same(q)
    BY <1>2
  <2>4. \A q \in Procs : proc[q].pc = "writeConfig" => proc'[q].pc = "writeConfig"
    BY <1>2 DEF Same
  <2>5. \A q \in Procs : proc'[q].pc = "enroll" =>
            proc'[q].master \in Masters /\ proc'[q].key = identity.key /\ identity.key # None
    BY <1>0, <2>3 DEF FilesFit, Same
  <2>6. \A q \in Procs : proc'[q].pc = "writeConfig" =>
            identity.id = [by |-> proc'[q].master, key |-> identity.key] /\ Registered
    BY <1>0, <2>3 DEF FilesFit, Same
  <2>7. crashes' = 0 => ~ Registered \/ Fits \/ \E q \in Procs : proc'[q].pc = "writeConfig"
    BY <1>0, <2>4 DEF FilesFit
  <2>8. QED
    BY <1>0, <2>1, <2>2, <2>5, <2>6, <2>7 DEF FilesFit
<1>13. NoMixedRegistration'
  BY <1>0, <1>2, <1>3, <1>4 DEF NoMixedRegistration, Same
<1>14. QED
  BY <1>7, <1>8, <1>9, <1>10, <1>11, <1>12, <1>13 DEF QuietInv

(* A move to the beginning of getWorkerProcessInfo. *)
LEMMA InfoKeeps ==
  ASSUME TypeOK, TypeOK', QuietInv, NEW p \in Procs, NEW site, Info(p, site), Busy(p),
         proc[p].then = "waitCheck" <=> site = "waitCheck",
         proc[p].then \in StartSites <=> site \in StartSites, site # "done",
         proc[p].pc \notin {"stamp", "listen", "enroll", "writeConfig"},
         site = "contended" => ~ (Acts(p) /\ proc[p].alone),
         lockFile' \in {NoLock, lockFile},
         UNCHANGED <<stateFile, config, identity, crashes, hasty>>
  PROVE  QuietInv'
<1>1. Still(p) /\ Keeps(p) /\ proc'[p].pc = "info" /\ proc'[p].then = site
      /\ proc'[p].seen = None
  BY InfoDoes
<1>2. SteadyAt(p)
  BY <1>1 DEF SteadyAt, Acts, Waits, Busy, Alive, Up, Closing, Past, Keeps
<1>3. Steady
  BY <1>1, <1>2, SteadyMove
<1>4. Acts(p)' => Acts(p)
  BY <1>2 DEF SteadyAt
<1>5. NamesSafely(p) /\ GoesOn(p)
  BY <1>1, <1>4 DEF NamesSafely, GoesOn, Keeps
<1>6. MovesSafely(p)
  BY <1>1 DEF MovesSafely, Up, Cleaning, Acquiring, Registering
<1>7. LocksSafely(p)
  BY <1>1 DEF LocksSafely
<1>8. QED
  BY <1>1, <1>3, <1>5, <1>6, <1>7, QuietKept DEF StatesSafely

(* A move from a point to the next, by a command or by a Worker that closes. *)
LEMMA GotoKeeps ==
  ASSUME TypeOK, TypeOK', QuietInv, NEW p \in Procs, NEW pc \in PCs, Goto(p, pc),
         Busy(p) \/ Closing(p), Closing(p) => pc \in {"forget", "erase", "unlock"},
         Busy(p) => /\ pc \notin {"unborn", "done", "init", "ready", "enroll", "writeConfig",
                                  "ask", "askStop", "dropLast"}
                    /\ proc[p].then # "done",
         proc[p].pc # "writeConfig",
         proc[p].pc \in {"stamp", "listen"} => pc \in {"stamp", "listen"},
         pc = "reacquire" => lockFile' = NoLock,
         \A q \in Procs : Up(q) =>
            /\ pc # "erase"
            /\ pc = "forget" => proc[p].seen # q
            /\ Acts(p) => pc \notin Cleaning \cup Acquiring \cup Registering,
         \/ lockFile' \in {NoLock, lockFile}
         \/ lockFile # NoLock /\ lockFile' # NoLock /\ lockFile'.owner = lockFile.owner
         \/ /\ lockFile'.owner = p /\ pc = "stamp"
            /\ \A q \in Procs \ {p} : proc[q].pc # "reacquire",
         stateFile' \in {NoState, stateFile}, stateFile' = stateFile \/ \A q \in Procs : ~ Up(q),
         UNCHANGED <<config, identity, crashes, hasty>>
  PROVE  QuietInv'
<1>1. Still(p) /\ Keeps(p) /\ proc'[p].pc = pc /\ proc'[p].then = proc[p].then
      /\ proc'[p].seen = proc[p].seen
  BY GotoDoes
<1>2. SteadyAt(p)
  <2>1. CASE Busy(p)
    BY <1>1, <2>1 DEF SteadyAt, Acts, Waits, Busy, Alive, Up, Closing, Past, Keeps
  <2>2. CASE Closing(p)
    BY <1>1, <2>2 DEF SteadyAt, Acts, Waits, Busy, Alive, Up, Closing, Past, Keeps
  <2>3. QED
    BY <2>1, <2>2
<1>3. Steady
  BY <1>1, <1>2, SteadyMove
<1>4. Acts(p)' => Acts(p)
  BY <1>2 DEF SteadyAt
<1>5. ~ Up(p) /\ ~ Up(p)'
  BY <1>1 DEF Up, Busy, Closing, Alive
<1>6. \A q \in Procs : Up(q)' => Up(q)
  BY <1>1, <1>5, SameMeans DEF Still
<1>7. NamesSafely(p)
  BY <1>1 DEF NamesSafely
<1>8. GoesOn(p)
  <2>1. proc[p].then = "contended" => ~ (Acts(p) /\ proc[p].alone)
    BY DEF QuietInv, AloneOK
  <2>2. QED
    BY <1>1, <1>4, <2>1 DEF GoesOn, Keeps, Closing
<1>9. MovesSafely(p)
  BY <1>1, <1>4, <1>5, <1>6 DEF MovesSafely, Busy, Closing
<1>10. LocksSafely(p)
  BY <1>1 DEF LocksSafely, Closing
<1>11. QED
  BY <1>1, <1>3, <1>6, <1>7, <1>8, <1>9, <1>10, QuietKept DEF StatesSafely, Closing

(* Where getWorkerProcessInfo returns, a command goes on with a status *)
(* "stopped" only when no Worker is up. *)
LEMMA ReturnsKeeps ==
  ASSUME TypeOK, TypeOK', PlacesOK, QuietInv, NEW p \in Procs, NEW status,
         proc[p].pc \in {"ask", "lockRead", "unlock"}, Returns(p, status),
         status = "stopped" /\ Acts(p) => \A q \in Procs : ~ Up(q),
         lockFile' \in {NoLock, lockFile},
         UNCHANGED <<stateFile, config, identity, crashes, hasty>>
  PROVE  QuietInv'
<1>1. CASE End(p)
  <2>1. Alive(p) /\ proc[p].pc # "writeConfig"
    BY DEF Alive
  <2>2. QED
    BY <1>1, <2>1, EndKeeps
<1>2. proc[p].then # "done" => Busy(p)
  BY DEF Busy, Alive, Up, Closing
<1>3. proc[p].pc \notin {"stamp", "listen", "enroll", "writeConfig", "done"}
  OBVIOUS
<1>4. CASE proc[p].then = "startCheck" /\ Info(p, "controlCheck")
  BY <1>2, <1>3, <1>4, InfoKeeps DEF StartSites
<1>5. CASE proc[p].then = "waitCheck" /\ Info(p, "waitCheck")
  BY <1>2, <1>3, <1>5, InfoKeeps DEF StartSites
<1>6. CASE proc[p].then \in {"stopWait", "stopCleaned"} /\ Info(p, "stopWait")
  BY <1>2, <1>3, <1>6, InfoKeeps DEF StartSites
<1>7. ASSUME NEW pc \in {"acquire", "requestStop", "loadKey"}, Goto(p, pc),
             proc[p].then \in {"controlCheck", "stopCheck", "registerCheck"},
             pc # "requestStop" => status = "stopped"
      PROVE  QuietInv'
  <2>1. pc \in PCs
    BY <1>7, Points
  <2>2. Busy(p) /\ ~ Closing(p)
    BY <1>2, <1>7 DEF Closing
  <2>3. \A q \in Procs : Up(q) =>
            /\ pc # "erase"
            /\ pc = "forget" => proc[p].seen # q
            /\ Acts(p) => pc \notin Cleaning \cup Acquiring \cup Registering
    BY <1>7 DEF Cleaning, Acquiring, Registering
  <2>4. QED
    BY <1>7, <2>1, <2>2, <2>3, GotoKeeps
<1>8. CASE /\ proc[p].then = "startCheck" /\ proc[p].background
           /\ \E c \in Procs : proc[c].pc = "unborn" /\ Spawns(p, c)
  <2>1. Acts(p)
    BY <1>2, <1>8 DEF Acts
  <2>2. QED
    BY <1>3, <1>8, <2>1, SpawnKeeps
<1>9. QED
  BY <1>1, <1>4, <1>5, <1>6, <1>7, <1>8, ReturnsDoes

-----------------------------------------------------------------------------
(***************************************************************************)
(* Every step keeps the invariant.                                         *)
(***************************************************************************)
(* The steps of getWorkerProcessInfo. *)
LEMMA LookKeeps ==
  ASSUME TypeOK, TypeOK', PlacesOK, QuietInv, ~ hasty, ~ hasty', NEW p \in Procs,
         ReadState(p) \/ AskStatus(p) \/ AskFails(p) \/ LockRead(p)
  PROVE  QuietInv'
<1>0. UpIsOnFile /\ NamesThePast /\ AloneOK
  BY DEF QuietInv
<1>1. CASE ReadState(p)
  <2>1. Busy(p) /\ proc[p].pc = "info" /\ proc[p].then # "done" /\ UNCHANGED <<files, host>>
    BY <1>1 DEF ReadState, PlacesOK, Busy, Alive, Up, Closing
  <2>2. CASE stateFile = NoState
    <3>1. Goto(p, "lockRead") /\ "lockRead" \in PCs
      BY <1>1, <2>2, Points DEF ReadState
    <3>2. \A q \in Procs : ~ Up(q)
      BY <1>0, <2>2 DEF UpIsOnFile
    <3>3. QED
      BY <2>1, <3>1, <3>2, GotoKeeps DEF files, host, Closing
  <2>3. CASE stateFile # NoState
    <3>1. /\ Still(p) /\ Keeps(p) /\ proc'[p].pc = "ask" /\ proc'[p].then = proc[p].then
          /\ proc'[p].seen = stateFile.owner
      BY <1>1, <2>3, ReadStateDoes
    <3>2. SteadyAt(p)
      BY <2>1, <3>1 DEF SteadyAt, Acts, Waits, Busy, Alive, Up, Closing, Past, Keeps
    <3>3. Steady
      BY <3>1, <3>2, SteadyMove
    <3>4. NamesSafely(p)
      BY <2>3, <3>1 DEF NamesSafely
    <3>5. GoesOn(p)
      BY <2>1, <3>1, <3>2, <1>0 DEF GoesOn, SteadyAt, AloneOK
    <3>6. MovesSafely(p)
      <4>1. \A q \in Procs : Up(q)' => stateFile.owner = q
        BY <1>0, <3>1, SameMeans DEF UpIsOnFile, Still, Up
      <4>2. QED
        BY <3>1, <4>1 DEF MovesSafely, Up, Cleaning, Acquiring, Registering
    <3>7. LocksSafely(p)
      BY <2>1, <3>1 DEF LocksSafely, files
    <3>8. QED
      BY <2>1, <3>1, <3>3, <3>4, <3>5, <3>6, <3>7, QuietKept DEF StatesSafely, files, host
  <2>4. QED
    BY <2>2, <2>3
<1>2. CASE AskStatus(p)
  <2>1. proc[p].pc = "ask" /\ UNCHANGED <<files, crashes, hasty>>
    BY <1>2 DEF AskStatus, TypeOK
  <2>2. PICK status \in {"running", "starting"} : Returns(p, status)
    BY <1>2 DEF AskStatus
  <2>3. QED
    BY <2>1, <2>2, ReturnsKeeps DEF files
<1>3. CASE AskFails(p)
  <2>1. /\ proc[p].pc \in {"ask", "askStop"} /\ UNCHANGED <<files, crashes, hasty>>
        /\ ~ Up(proc[p].seen) /\ proc[p].seen \in Procs /\ proc[p].then # "done"
        /\ proc[p].pc = "askStop" => proc[p].then = "stopCheck"
    BY <1>3 DEF AskFails, Hasty, PlacesOK, TypeOK
  <2>2. /\ Still(p) /\ Keeps(p) /\ proc'[p].pc = "forget" /\ proc'[p].seen = proc[p].seen
        /\ proc'[p].then = IF proc[p].pc = "askStop" THEN "stopCleaned" ELSE proc[p].then
    BY <1>3, AskFailsDoes
  <2>3. SteadyAt(p)
    BY <2>1, <2>2 DEF SteadyAt, Acts, Waits, Busy, Alive, Up, Closing, Past, Keeps, StartSites
  <2>4. Steady
    BY <2>2, <2>3, SteadyMove
  <2>5. Acts(p)' => Acts(p)
    BY <2>3 DEF SteadyAt
  <2>6. NamesSafely(p)
    BY <2>2 DEF NamesSafely
  <2>7. GoesOn(p)
    BY <1>0, <2>1, <2>2, <2>5 DEF GoesOn, AloneOK, Keeps
  <2>8. MovesSafely(p)
    <3>1. \A q \in Procs : Up(q)' => Up(q)
      BY <2>2, SameMeans DEF Still, Up
    <3>2. \A q \in Procs : Up(q) => proc[p].seen # q /\ ~ Acts(p)
      BY <1>0, <2>1 DEF UpIsOnFile
    <3>3. ~ Up(p)'
      BY <2>2 DEF Up
    <3>4. QED
      BY <2>2, <2>5, <3>1, <3>2, <3>3 DEF MovesSafely
  <2>9. LocksSafely(p)
    BY <2>1, <2>2 DEF LocksSafely, files
  <2>10. QED
    BY <2>1, <2>2, <2>4, <2>6, <2>7, <2>8, <2>9, QuietKept DEF StatesSafely, files
<1>4. CASE LockRead(p)
  <2>1. proc[p].pc = "lockRead" /\ UNCHANGED <<files, crashes, hasty>>
    BY <1>4 DEF LockRead, TypeOK
  <2>2. CASE LockHolds
    <3>1. Returns(p, "starting")
      BY <1>4, <2>2 DEF LockRead
    <3>2. QED
      BY <2>1, <3>1, ReturnsKeeps DEF files
  <2>3. CASE ~ LockHolds
    <3>1. Goto(p, "unlock") /\ "unlock" \in PCs
      BY <1>4, <2>3, Points DEF LockRead
    <3>2. Busy(p) /\ ~ Closing(p) /\ proc[p].then # "done"
      BY <2>1 DEF PlacesOK, Busy, Alive, Up, Closing
    <3>3. \A q \in Procs : Up(q) => ~ Acts(p)
      BY <1>0, <2>1 DEF UpIsOnFile, Cleaning
    <3>4. QED
      BY <2>1, <3>1, <3>2, <3>3, GotoKeeps DEF files
  <2>4. QED
    BY <2>2, <2>3
<1>5. QED
  BY <1>1, <1>2, <1>3, <1>4

(* The clean-up of the files, by a command or by a Worker that closes. *)
LEMMA CleanUpKeeps ==
  ASSUME TypeOK, TypeOK', PlacesOK, QuietInv, ~ hasty, ~ hasty', NEW p \in Procs,
         Forget(p) \/ Erase(p) \/ Unlock(p)
  PROVE  QuietInv'
<1>0. UpIsOnFile
  BY DEF QuietInv
<1>1. proc[p].pc \in {"forget", "erase", "unlock"} /\ (Busy(p) <=> ~ Closing(p))
      /\ (Closing(p) <=> proc[p].then = "done")
  BY DEF Forget, Erase, Unlock, Busy, Alive, Up, Closing
<1>2. \A q \in Procs : Up(q) => ~ Acts(p)
  BY <1>0, <1>1 DEF UpIsOnFile, Cleaning
<1>3. CASE Forget(p)
  <2>1. PICK pc \in {"erase", "unlock"} :
            /\ Goto(p, pc)
            /\ pc = "erase" => stateFile = NoState \/ stateFile.owner = proc[p].seen
    BY <1>3 DEF Forget
  <2>2. proc[p].pc = "forget" /\ UNCHANGED <<files, host>> /\ pc \in PCs
    BY <1>3, <2>1, Points DEF Forget
  <2>3. \A q \in Procs : Up(q) => pc # "erase"
    BY <1>0, <2>1, <2>2 DEF UpIsOnFile
  <2>4. QED
    BY <1>1, <1>2, <2>1, <2>2, <2>3, GotoKeeps DEF files, host
<1>4. CASE Erase(p)
  <2>1. Goto(p, "unlock") /\ proc[p].pc = "erase" /\ stateFile' = NoState
        /\ UNCHANGED <<lockFile, config, identity, host>> /\ "unlock" \in PCs
    BY <1>4, Points DEF Erase
  <2>2. \A q \in Procs : ~ Up(q)
    BY <1>0, <2>1 DEF UpIsOnFile
  <2>3. QED
    BY <1>1, <1>2, <2>1, <2>2, GotoKeeps DEF host
<1>5. CASE Unlock(p)
  <2>1. proc[p].pc = "unlock" /\ lockFile' = NoLock /\ Returns(p, "stopped")
        /\ UNCHANGED <<stateFile, config, identity, crashes, hasty>>
    BY <1>5 DEF Unlock, TypeOK
  <2>2. QED
    BY <1>2, <2>1, ReturnsKeeps
<1>6. QED
  BY <1>3, <1>4, <1>5

(* A stop. *)
LEMMA StopKeeps ==
  ASSUME TypeOK, TypeOK', PlacesOK, QuietInv, ~ hasty, ~ hasty', NEW p \in Procs,
         RequestStop(p) \/ AskStop(p)
  PROVE  QuietInv'
<1>0. UpIsOnFile
  BY DEF QuietInv
<1>1. Acts(p) /\ proc[p].then = "stopCheck" /\ proc[p].pc \in {"requestStop", "askStop"}
      /\ UNCHANGED <<files, host>>
  BY DEF RequestStop, AskStop, PlacesOK, Acts, Busy, Alive, Up, Closing
<1>2. CASE RequestStop(p)
  <2>1. /\ Still(p) /\ Keeps(p)
        /\ stateFile = NoState => /\ proc'[p].pc = "erase" /\ proc'[p].then = "stopCleaned"
                                  /\ proc'[p].seen = None
        /\ stateFile # NoState => /\ proc'[p].pc = "askStop" /\ proc'[p].then = proc[p].then
                                  /\ proc'[p].seen = stateFile.owner
    BY <1>2, RequestStopDoes
  <2>2. SteadyAt(p)
    BY <1>1, <2>1 DEF SteadyAt, Acts, Waits, Busy, Alive, Up, Closing, Past, Keeps, StartSites
  <2>3. Steady
    BY <2>1, <2>2, SteadyMove
  <2>4. NamesSafely(p)
    BY <2>1 DEF NamesSafely
  <2>5. GoesOn(p)
    BY <1>1, <2>1 DEF GoesOn
  <2>6. MovesSafely(p)
    <3>1. \A q \in Procs : Up(q)' => stateFile # NoState /\ stateFile.owner = q
      BY <1>0, <2>1, SameMeans DEF UpIsOnFile, Still, Up
    <3>2. QED
      BY <2>1, <3>1 DEF MovesSafely, Up, Cleaning, Acquiring, Registering
  <2>7. LocksSafely(p)
    BY <1>1, <2>1 DEF LocksSafely, files
  <2>8. QED
    BY <1>1, <2>1, <2>3, <2>4, <2>5, <2>6, <2>7, QuietKept DEF StatesSafely, files, host
<1>3. CASE AskStop(p)
  <2>1. /\ Still(p) /\ Keeps(p) /\ proc'[p].pc = "info" /\ proc'[p].then = "stopWait"
        /\ proc'[p].seen = None
    BY <1>3, AskStopDoes
  <2>2. SteadyAt(p)
    BY <1>1, <2>1 DEF SteadyAt, Acts, Waits, Busy, Alive, Up, Closing, Past, Keeps, StartSites
  <2>3. Steady
    BY <2>1, <2>2, SteadyMove
  <2>4. NamesSafely(p) /\ GoesOn(p)
    BY <1>1, <2>1 DEF NamesSafely, GoesOn
  <2>5. MovesSafely(p)
    BY <2>1 DEF MovesSafely, Up, Cleaning, Acquiring, Registering
  <2>6. LocksSafely(p)
    BY <1>1, <2>1 DEF LocksSafely, files
  <2>7. QED
    BY <1>1, <2>1, <2>3, <2>4, <2>5, <2>6, QuietKept DEF StatesSafely, files, host
<1>4. QED
  BY <1>2, <1>3

(* The lock: a command that goes for it is the only one. *)
LEMMA LockKeeps ==
  ASSUME TypeOK, TypeOK', PlacesOK, QuietInv, ~ hasty, ~ hasty', NEW p \in Procs,
         Acquire(p) \/ DropLock(p) \/ Stamp(p)
  PROVE  QuietInv'
<1>0. UpIsOnFile /\ LockNames /\ AloneOK /\ OneCommand
  BY DEF QuietInv
<1>1. /\ Acts(p) /\ Busy(p) /\ ~ Closing(p) /\ proc[p].then = "controlCheck"
      /\ proc[p].pc \in Acquiring \ {"listen", "dropLast"}
      /\ UNCHANGED <<stateFile, config, identity, crashes, hasty>>
  BY <1>0 DEF Acquire, DropLock, Stamp, PlacesOK, LockNames, Acts, Busy, Alive, Up, Closing,
              Acquiring, host
<1>2. \A q \in Procs : ~ Up(q)
  BY <1>0, <1>1 DEF UpIsOnFile
<1>3. \A q \in Procs \ {p} : proc[q].pc # "reacquire"
  BY <1>0, <1>1 DEF OneCommand, PlacesOK, Acts, Busy, Alive, Up, Closing, Acquiring
<1>4. ASSUME NEW pc \in {"stamp", "dropLock", "reacquire", "listen"}, Goto(p, pc),
             proc[p].pc = "stamp" => pc = "listen", pc = "reacquire" => lockFile' = NoLock,
             \/ lockFile' \in {NoLock, lockFile}
             \/ lockFile # NoLock /\ lockFile' # NoLock /\ lockFile'.owner = lockFile.owner
             \/ lockFile'.owner = p /\ pc = "stamp"
      PROVE  QuietInv'
  <2>1. pc \in PCs
    BY <1>4, Points
  <2>2. proc[p].pc # "writeConfig" /\ proc[p].pc # "listen"
    BY <1>1 DEF Acquiring
  <2>3. QED
    BY <1>1, <1>2, <1>3, <1>4, <2>1, <2>2, GotoKeeps
<1>5. CASE Acquire(p)
  <2>1. CASE lockFile = NoLock
    <3>1. Goto(p, "stamp") /\ lockFile'.owner = p /\ proc[p].pc # "stamp"
      BY <1>5, <2>1 DEF Acquire
    <3>2. QED
      BY <1>4, <3>1
  <2>2. CASE lockFile # NoLock /\ LockHolds
    <3>1. Info(p, "contended") /\ lockFile' = lockFile
      BY <1>5, <2>2 DEF Acquire
    <3>2. PICK o \in Procs : o = lockFile.owner /\ Alive(o)
      BY <2>2 DEF LockHolds, TypeOK
    <3>3. Past(o) \/ proc[o].pc \in {"stamp", "listen"}
      BY <1>0, <2>2, <3>2 DEF LockNames
    <3>4. o # p
      BY <1>1, <1>5, <3>3 DEF Past, Busy, Alive, Acquire
    <3>5. ~ Waits(o)
      BY <3>2, <3>3 DEF Past, Waits, Busy, Alive, PlacesOK, Acquiring
    <3>6. ~ proc[p].alone
      BY <1>0, <1>1, <3>2, <3>4, <3>5 DEF AloneOK
    <3>7. proc[p].pc \notin {"stamp", "listen", "enroll", "writeConfig"}
      BY <1>5 DEF Acquire
    <3>8. QED
      BY <1>1, <3>1, <3>6, <3>7, InfoKeeps DEF StartSites
  <2>3. CASE lockFile # NoLock /\ ~ LockHolds
    <3>1. proc[p].pc = "acquire"
      BY <1>0, <1>5, <2>3 DEF LockNames, Acquire
    <3>2. Goto(p, "dropLock") /\ lockFile' = lockFile
      BY <1>5, <2>3, <3>1 DEF Acquire
    <3>3. QED
      BY <1>4, <3>1, <3>2
  <2>4. QED
    BY <2>1, <2>2, <2>3
<1>6. CASE DropLock(p)
  <2>1. proc[p].pc = "dropLock"
    BY <1>1, <1>6 DEF DropLock
  <2>2. Goto(p, "reacquire") /\ lockFile' = NoLock
    BY <1>6, <2>1 DEF DropLock
  <2>3. QED
    BY <1>4, <2>1, <2>2
<1>7. CASE Stamp(p)
  <2>1. Goto(p, "listen") /\ proc[p].pc = "stamp"
    BY <1>7 DEF Stamp
  <2>2. CASE lockFile' = lockFile
    BY <1>4, <2>1, <2>2
  <2>3. CASE lockFile' # lockFile
    <3>1. lockFile # NoLock /\ lockFile' = [lockFile EXCEPT !.written = TRUE]
      BY <1>7, <2>3 DEF Stamp
    <3>2. lockFile \in [owner : Procs, written : BOOLEAN, fresh : BOOLEAN]
      BY <3>1 DEF TypeOK
    <3>3. lockFile'.owner = lockFile.owner /\ lockFile'.owner \in Procs
      BY <3>1, <3>2
    <3>4. lockFile' # NoLock
      BY <3>3, ControlAssumption DEF NoLock, None
    <3>5. QED
      BY <1>4, <2>1, <3>1, <3>3, <3>4
  <2>4. QED
    BY <2>2, <2>3
<1>8. QED
  BY <1>5, <1>6, <1>7

(* The Worker while it is up and when it closes, a signal, and a kill. *)
LEMMA WorkerKeeps ==
  ASSUME TypeOK, TypeOK', PlacesOK, QuietInv, ~ hasty, ~ hasty', NEW p \in Procs,
         \/ Listen(p) /\ Leave(p) /\ UNCHANGED stateFile
         \/ MarkRunning(p) \/ Close(p) \/ Interrupt(p) \/ Kill(p)
  PROVE  QuietInv'
<1>0. UpIsOnFile /\ OneCommand
  BY DEF QuietInv
<1>1. ASSUME Leave(p), Up(p) \/ proc[p].pc = "listen", UNCHANGED <<files, host>>
      PROVE  QuietInv'
  <2>1. /\ Still(p) /\ Keeps(p) /\ proc'[p].pc = "forget" /\ proc'[p].then = "done"
        /\ proc'[p].seen = p
    BY <1>1, LeaveDoes
  <2>2. SteadyAt(p)
    <3>1. proc[p].pc = "listen" => proc[p].then = "controlCheck"
      BY DEF PlacesOK, Acquiring
    <3>2. QED
      BY <1>1, <2>1, <3>1 DEF SteadyAt, Acts, Waits, Busy, Alive, Up, Closing, Past
  <2>3. Steady
    BY <2>1, <2>2, SteadyMove
  <2>4. Past(p)' /\ ~ Acts(p)' /\ ~ Up(p)'
    BY <2>1 DEF Past, Closing, Acts, Busy, Up
  <2>5. NamesSafely(p)
    BY <2>1, <2>4 DEF NamesSafely, Past, Up, Closing
  <2>6. MovesSafely(p)
    BY <2>1, <2>4 DEF MovesSafely
  <2>7. LocksSafely(p) /\ GoesOn(p) /\ StatesSafely(p)
    BY <1>1, <2>1, <2>4 DEF LocksSafely, GoesOn, StatesSafely, files
  <2>8. proc[p].pc # "writeConfig"
    BY <1>1 DEF Up
  <2>9. QED
    BY <1>1, <2>1, <2>3, <2>5, <2>6, <2>7, <2>8, QuietKept DEF files, host
<1>2. CASE Listen(p) /\ Leave(p) /\ UNCHANGED stateFile
  BY <1>1, <1>2 DEF Listen, files, host, TypeOK, Hasty
<1>3. CASE Close(p)
  BY <1>1, <1>3 DEF Close
<1>4. CASE MarkRunning(p)
  <2>1. /\ Up(p) /\ ~ Acts(p) /\ proc[p].pc = "init" /\ Goto(p, "ready")
        /\ stateFile'.owner = p
        /\ UNCHANGED <<lockFile, config, identity, crashes, hasty>>
    BY <1>4 DEF MarkRunning, Up, Acts, Busy, host
  <2>2. /\ Still(p) /\ Keeps(p) /\ proc'[p].pc = "ready" /\ proc'[p].then = proc[p].then
        /\ proc'[p].seen = proc[p].seen
    BY <2>1, GotoDoes
  <2>3. Up(p)' /\ ~ Acts(p)'
    BY <2>1, <2>2 DEF Up, Acts, Busy
  <2>4. SteadyAt(p)
    <3>1. ~ Waits(p) /\ ~ Waits(p)' /\ Past(p)' /\ Alive(p)
      BY <2>1, <2>3 DEF Waits, Busy, Past, Alive
    <3>2. QED
      BY <2>3, <3>1 DEF SteadyAt
  <2>5. Steady
    BY <2>2, <2>4, SteadyMove
  <2>6. stateFile' # NoState
    BY <2>1, ControlAssumption DEF NoState, None
  <2>7. NamesSafely(p) /\ LocksSafely(p) /\ GoesOn(p) /\ StatesSafely(p)
    BY <2>1, <2>2, <2>3, <2>6 DEF NamesSafely, LocksSafely, GoesOn, StatesSafely
  <2>8. MovesSafely(p)
    BY <2>1, <2>2, <2>3 DEF MovesSafely, Keeps
  <2>9. QED
    BY <2>1, <2>2, <2>5, <2>7, <2>8, QuietKept
<1>5. CASE Interrupt(p)
  <2>1. proc' = [proc EXCEPT ![p] = [proc[p] EXCEPT !.stopping = TRUE]] /\ DOMAIN proc = Procs
        /\ proc[p] \in ProcRecord /\ UNCHANGED <<files, host>> /\ Up(p)
    BY <1>5 DEF Interrupt, TypeOK
  <2>2. \A q \in Procs \ {p} : Same(q)
    BY <2>1 DEF Same
  <2>3. proc'[p] = [proc[p] EXCEPT !.stopping = TRUE]
    BY <2>1
  <2>4. Same(p)
    BY <2>1, <2>3 DEF Same, ProcRecord
  <2>5. Steady /\ Still(p)
    <3>1. SteadyAt(p)
      BY <2>4, SameMeans DEF SteadyAt, Same
    <3>2. Still(p)
      BY <2>2 DEF Still
    <3>3. QED
      BY <3>1, <3>2, SteadyMove
  <2>6. Up(p)' /\ ~ Acts(p)' /\ proc'[p].pc \in {"init", "ready"}
    BY <2>1, <2>4, SameMeans DEF Same, Up, Acts, Busy
  <2>7. NamesSafely(p) /\ LocksSafely(p) /\ GoesOn(p) /\ StatesSafely(p)
    BY <2>1, <2>4, <2>6 DEF NamesSafely, LocksSafely, GoesOn, StatesSafely, Same, Up, files
  <2>8. MovesSafely(p)
    BY <2>1, <2>4, <2>6 DEF MovesSafely, Same
  <2>9. proc[p].pc # "writeConfig" /\ proc'[p].pc \notin {"enroll", "writeConfig"}
    BY <2>1, <2>6 DEF Up
  <2>10. QED
    BY <2>1, <2>5, <2>7, <2>8, <2>9, QuietKept DEF files, host
<1>6. CASE Kill(p)
  <2>1. Alive(p) /\ End(p) /\ crashes' = crashes + 1 /\ UNCHANGED <<files, hasty>>
    BY <1>6 DEF Kill
  <2>2. crashes' # 0
    BY <2>1, ControlAssumption DEF TypeOK
  <2>3. QED
    BY <2>1, <2>2, EndKeeps DEF files
<1>7. QED
  BY <1>2, <1>3, <1>4, <1>5, <1>6

(* The Worker comes up: the command is the only one that acts, no other Worker *)
(* is up, and the state file it writes is not about to be removed. *)
LEMMA ListenKeeps ==
  ASSUME TypeOK, TypeOK', PlacesOK, QuietInv, ~ hasty, ~ hasty', NEW p \in Procs,
         Listen(p), ~ (Leave(p) /\ UNCHANGED stateFile)
  PROVE  QuietInv'
<1>0. OneCommand /\ NamesThePast /\ UpIsOnFile /\ LockNames /\ AloneOK /\ FilesFit
      /\ NoMixedRegistration
  BY DEF QuietInv
<1>1. /\ proc[p].pc = "listen" /\ stateFile' = [owner |-> p, status |-> "starting"]
      /\ \A q \in Procs : proc[q].pc # "erase"
      /\ UNCHANGED <<lockFile, config, identity, crashes, hasty>>
  BY DEF Listen, Hasty, TypeOK
<1>2. ~ Leave(p)
  <2>1. stateFile' # stateFile \/ ~ Leave(p)
    OBVIOUS
  <2>2. ASSUME Leave(p) PROVE FALSE
    <3>1. proc'[p].pc = "forget"
      BY <2>2, LeaveDoes
    <3>2. proc' = [proc EXCEPT ![p] = [proc[p] EXCEPT !.pc = "init", !.fits = Fits]]
      BY <2>1, <2>2 DEF Listen
    <3>3. proc'[p].pc = "init"
      BY <3>2 DEF TypeOK, ProcRecord
    <3>4. QED
      BY <3>1, <3>3
  <2>3. QED
    BY <2>2
<1>3. /\ Still(p) /\ proc'[p].pc = "init" /\ proc'[p].then = proc[p].then
      /\ proc'[p].seen = proc[p].seen /\ proc'[p].fits = Fits
  BY <1>2, ListenDoes
<1>4. /\ Acts(p) /\ proc[p].then = "controlCheck" /\ ~ Past(p)
      /\ \A q \in Procs : ~ Up(q)
  BY <1>0, <1>1 DEF PlacesOK, UpIsOnFile, Acts, Busy, Alive, Up, Closing, Past, Acquiring
<1>5. SteadyAt(p) /\ Up(p)' /\ Past(p)' /\ ~ Acts(p)'
  BY <1>3, <1>4 DEF SteadyAt, Acts, Waits, Busy, Alive, Up, Closing, Past
<1>6. Steady
  BY <1>3, <1>5, SteadyMove
<1>7. \A q \in Procs \ {p} : ~ Up(q)' /\ ~ Acts(q)' /\ Same(q)
  BY <1>0, <1>3, <1>4, SameMeans DEF OneCommand, Still
<1>8. stateFile'.owner = p /\ stateFile' # NoState
  BY <1>1, ControlAssumption DEF NoState, None
<1>9. OneCommand'
  BY <1>0, <1>6, OneCommandKept
<1>10. NamesThePast'
  <2>1. Past(stateFile.owner)'
    BY <1>5, <1>8 DEF Past, Up
  <2>2. QED
    BY <1>0, <1>3, <1>6, <2>1, NamesKept
<1>11. UpIsOnFile'
  <2>1. \A q \in Procs : proc[q].seen # p
    BY <1>0, <1>4, ControlAssumption DEF NamesThePast, None
  <2>2. ASSUME NEW q \in Procs
        PROVE  proc'[q].pc # "erase" /\ (proc'[q].pc = "forget" => proc'[q].seen # p) /\ ~ Acts(q)'
    BY <1>1, <1>3, <1>5, <1>7, <2>1 DEF Same
  <2>3. QED
    BY <1>7, <1>8, <2>2 DEF UpIsOnFile
<1>12. LockNames'
  BY <1>0, <1>1, <1>3, <1>5, <1>6, LockKept
<1>13. AloneOK'
  BY <1>0, <1>3, <1>5, <1>6, AloneKept
<1>14. FilesFit'
  BY <1>0, <1>1, <1>3, <1>6, FitKept
<1>15. NoMixedRegistration'
  <2>1. SUFFICES ASSUME ~ Fits PROVE crashes' > 0
    BY <1>3, <1>7 DEF NoMixedRegistration
  <2>2. Registered
    BY <1>0, <1>4 DEF FilesFit, StartSites
  <2>3. \A q \in Procs : proc[q].pc # "writeConfig"
    BY <1>0, <1>1, <1>4 DEF OneCommand, PlacesOK, Acts, Busy, Alive, Up, Closing, Registering
  <2>4. crashes # 0
    BY <1>0, <2>1, <2>2, <2>3 DEF FilesFit
  <2>5. QED
    BY <1>1, <2>4, ControlAssumption DEF TypeOK
<1>16. QED
  BY <1>9, <1>10, <1>11, <1>12, <1>13, <1>14, <1>15 DEF QuietInv

(* A registration: it is the only command, so that what it writes fits. *)
LEMMA RegisterKeeps ==
  ASSUME TypeOK, TypeOK', PlacesOK, QuietInv, ~ hasty, ~ hasty', NEW p \in Procs,
         LoadKey(p) \/ Enroll(p) \/ WriteConfig(p)
  PROVE  QuietInv'
<1>0. UpIsOnFile /\ OneCommand /\ FilesFit /\ AloneOK
  BY DEF QuietInv
<1>1. /\ Acts(p) /\ Busy(p) /\ Alive(p) /\ proc[p].then = "registerCheck"
      /\ proc[p].pc \in Registering
      /\ UNCHANGED <<stateFile, lockFile, crashes, hasty>>
  BY DEF LoadKey, Enroll, WriteConfig, PlacesOK, Acts, Busy, Alive, Up, Closing, Registering, host
<1>2. \A q \in Procs : ~ Up(q)
  BY <1>0, <1>1 DEF UpIsOnFile
<1>3. \A q \in Procs \ {p} : /\ proc[q].pc \notin {"enroll", "writeConfig"}
                             /\ ~ Acts(q)
  BY <1>0, <1>1 DEF OneCommand, PlacesOK, Acts, Busy, Alive, Up, Closing, Registering
<1>4. ASSUME Still(p), Steady, proc'[p].seen \in {None, proc[p].seen},
             proc'[p].pc \in {"enroll", "writeConfig", "done"},
             proc'[p].then # "contended", FilesFit'
      PROVE  QuietInv'
  <2>1. NamesSafely(p) /\ GoesOn(p) /\ StatesSafely(p)
    BY <1>1, <1>4 DEF NamesSafely, GoesOn, StatesSafely
  <2>2. MovesSafely(p)
    <3>1. \A q \in Procs : ~ Up(q)'
      BY <1>2, <1>4, SameMeans DEF Still, Up
    <3>2. QED
      BY <3>1 DEF MovesSafely
  <2>3. LocksSafely(p)
    BY <1>1, <1>4 DEF LocksSafely, Registering
  <2>4. QED
    BY <1>1, <1>4, <2>1, <2>2, <2>3, MoveKept DEF QuietInv
<1>5. ASSUME Still(p), Keeps(p), proc'[p].then = proc[p].then,
             proc'[p].pc \in {"enroll", "writeConfig"}
      PROVE  Steady /\ (Acts(p)' => proc'[p].then \notin StartSites)
  <2>1. SteadyAt(p)
    BY <1>1, <1>5 DEF SteadyAt, Acts, Waits, Busy, Alive, Up, Closing, Past, Keeps, Registering
  <2>2. QED
    BY <1>1, <1>5, <2>1, SteadyMove DEF StartSites
<1>6. ASSUME Still(p), Steady, proc'[p].then \notin StartSites
      PROVE  /\ \A q \in Procs : ~ (Acts(q)' /\ proc'[q].then \in StartSites)
             /\ \A q \in Procs \ {p} : proc'[q].pc \notin {"enroll", "writeConfig"}
  BY <1>3, <1>6 DEF Steady, SteadyAt, Still, Same
<1>7. CASE LoadKey(p)
  <2>1. /\ Still(p) /\ Keeps(p) /\ proc'[p].pc = "enroll" /\ proc'[p].then = proc[p].then
        /\ proc'[p].seen = proc[p].seen
        /\ proc'[p].master \in Masters /\ proc'[p].key = identity'.key
    BY <1>7, LoadKeyDoes
  <2>2. identity'.id = identity.id /\ config' = config /\ proc[p].pc = "loadKey"
        /\ identity'.key = (IF identity.key = None THEN p ELSE identity.key)
    BY <1>7 DEF LoadKey, TypeOK
  <2>3. identity'.key # None
    BY <2>2, ControlAssumption DEF None
  <2>4. Steady /\ proc'[p].then \notin StartSites
    BY <1>1, <1>5, <2>1 DEF StartSites
  <2>5. Registered' <=> Registered
    BY <2>2 DEF Registered
  <2>6. Registered => identity'.key = identity.key
    BY <1>0, <2>2 DEF FilesFit
  <2>7. crashes' = 0 => ~ Registered' \/ Fits'
    <3>1. SUFFICES ASSUME crashes = 0, Registered PROVE Fits'
      BY <1>1, <2>5
    <3>2. \A q \in Procs : proc[q].pc # "writeConfig"
      BY <1>3, <2>2
    <3>3. Fits
      BY <1>0, <3>1, <3>2 DEF FilesFit
    <3>4. QED
      BY <2>2, <2>6, <3>1, <3>3 DEF Fits
  <2>8. FilesFit'
    BY <1>6, <2>1, <2>3, <2>4, <2>7 DEF FilesFit
  <2>9. QED
    BY <1>1, <1>4, <2>1, <2>4, <2>8
<1>8. CASE Enroll(p)
  <2>0. proc[p].pc = "enroll" /\ config' = config
    BY <1>8 DEF Enroll
  <2>1. proc[p].master \in Masters /\ proc[p].key = identity.key /\ identity.key # None
    BY <1>0, <2>0 DEF FilesFit
  <2>2. CASE End(p) /\ identity' = identity
    BY <1>1, <2>0, <2>2, EndKeeps
  <2>3. CASE SaveIdentityIds(p) /\ Goto(p, "writeConfig")
    <3>1. /\ Still(p) /\ Keeps(p) /\ proc'[p].pc = "writeConfig" /\ proc'[p].then = proc[p].then
          /\ proc'[p].seen = proc[p].seen
          /\ proc'[p].master = proc[p].master /\ proc'[p].key = proc[p].key
      BY <2>3, GotoDoes
    <3>2. identity'.id = [by |-> proc[p].master, key |-> proc[p].key]
          /\ identity'.key = identity.key
      BY <2>3 DEF SaveIdentityIds, TypeOK
    <3>3. Registered'
      BY <2>1, <3>2, ControlAssumption DEF Registered, NoId, None
    <3>4. Steady /\ proc'[p].then \notin StartSites
      BY <1>1, <1>5, <3>1 DEF StartSites
    <3>5. FilesFit'
      BY <1>6, <2>1, <3>1, <3>2, <3>3, <3>4 DEF FilesFit
    <3>6. QED
      BY <1>1, <1>4, <3>1, <3>4, <3>5
  <2>4. QED
    BY <1>8, <2>2, <2>3 DEF Enroll
<1>9. CASE WriteConfig(p)
  <2>0. proc[p].pc = "writeConfig" /\ config' = proc[p].master /\ End(p) /\ identity' = identity
    BY <1>9 DEF WriteConfig
  <2>1. identity.id = [by |-> proc[p].master, key |-> identity.key] /\ Registered
        /\ identity.key # None
    BY <1>0, <2>0 DEF FilesFit
  <2>2. Still(p) /\ proc'[p].pc = "done" /\ proc'[p].then = "done" /\ proc'[p].seen = None
    BY <2>0, EndDoes
  <2>3. Steady /\ proc'[p].then \notin StartSites
    BY <1>1, <2>0, <2>2, SteadyEnd DEF StartSites
  <2>4. Fits' /\ Registered'
    BY <2>0, <2>1 DEF Fits, Registered
  <2>5. FilesFit'
    BY <1>6, <2>0, <2>1, <2>2, <2>3, <2>4 DEF FilesFit
  <2>6. QED
    BY <1>1, <1>4, <2>2, <2>3, <2>5
<1>10. QED
  BY <1>7, <1>8, <1>9

(* A command begins, when no other is at work. *)
LEMMA BeginKeeps ==
  ASSUME TypeOK, TypeOK', PlacesOK, QuietInv, ~ hasty, ~ hasty', NEW p \in Procs,
         NEW site \in {"startCheck", "stopCheck", "registerCheck", "statusCheck"},
         NEW background, Begin(p, site, background), site = "startCheck" => Registered
  PROVE  QuietInv'
<1>0. OneCommand /\ NamesThePast /\ UpIsOnFile /\ LockNames /\ AloneOK /\ FilesFit
      /\ NoMixedRegistration
  BY DEF QuietInv
<1>1. /\ proc[p].pc = "unborn" /\ \A q \in Procs : ~ Busy(q)
      /\ UNCHANGED <<stateFile, lockFile, config, identity, crashes, hasty>>
  BY DEF Begin, Hasty, files, TypeOK
<1>2. /\ Still(p) /\ proc'[p].pc = "info" /\ proc'[p].then = site
      /\ proc'[p].seen = proc[p].seen
      /\ proc'[p].alone = ~ \E q \in Procs : Alive(q)
  BY BeginDoes
<1>3. /\ ~ Up(p) /\ ~ Up(p)' /\ ~ Past(p) /\ ~ Alive(p) /\ Acts(p)' /\ ~ Waits(p)'
  BY <1>1, <1>2 DEF Up, Past, Closing, Alive, Acts, Waits, Busy
<1>4. \A q \in Procs \ {p} : /\ Same(q) /\ ~ Acts(q)' /\ ~ Waits(q)'
                             /\ Alive(q)' <=> Alive(q)
                             /\ Up(q)' <=> Up(q)
                             /\ Past(q)' <=> Past(q)
  BY <1>1, <1>2, SameMeans DEF Still, Acts, Waits
<1>5. OneCommand'
  BY <1>3, <1>4 DEF OneCommand
<1>6. NamesThePast'
  <2>1. \A q \in Procs : Past(q) => Past(q)'
    BY <1>3, <1>4
  <2>2. (stateFile # NoState => stateFile.owner \in Procs)
        /\ \A q \in Procs : proc[q].seen \in Procs \cup {None}
    BY DEF TypeOK, ProcRecord
  <2>3. stateFile' # NoState => Past(stateFile.owner)'
    <3>1. SUFFICES ASSUME stateFile # NoState PROVE Past(stateFile.owner)'
      BY <1>1
    <3>2. PICK s \in Procs : s = stateFile.owner
      BY <2>2, <3>1
    <3>3. Past(s)'
      BY <1>0, <2>1, <3>1, <3>2 DEF NamesThePast
    <3>4. QED
      BY <1>1, <3>2, <3>3 DEF Past, Up, Closing
  <2>4. ASSUME NEW q \in Procs, proc'[q].seen # None PROVE Past(proc[q].seen)'
    <3>1. proc'[q].seen = proc[q].seen
      BY <1>2 DEF Still, Same
    <3>2. PICK s \in Procs : s = proc[q].seen
      BY <2>2, <2>4, <3>1
    <3>3. Past(s)'
      BY <1>0, <2>1, <2>4, <3>1, <3>2 DEF NamesThePast
    <3>4. QED
      BY <3>1, <3>2, <3>3 DEF Past, Up, Closing
  <2>5. QED
    BY <2>3, <2>4 DEF NamesThePast
<1>7. UpIsOnFile'
  <2>1. \A q \in Procs : Up(q)' => Up(q)
    BY <1>3, <1>4
  <2>2. \A q \in Procs : Up(q)' =>
          /\ proc'[p].pc # "erase"
          /\ proc'[p].pc = "forget" => proc'[p].seen # q
          /\ Acts(p)' /\ proc'[p].pc \in {"ask", "askStop"} => proc'[p].seen = q
          /\ Acts(p)' => proc'[p].pc \notin Cleaning \cup Acquiring \cup Registering
    BY <1>2 DEF Cleaning, Acquiring, Registering
  <2>3. QED
    BY <1>0, <1>1, <1>2, <1>3, <2>2, UpKept
<1>8. LockNames'
  <2>1. lockFile # NoLock => lockFile.owner \in Procs
    BY DEF TypeOK
  <2>2. ASSUME lockFile' # NoLock
        PROVE  Past(lockFile.owner)' \/ proc'[lockFile'.owner].pc \in {"stamp", "listen"}
    <3>1. PICK o \in Procs : o = lockFile.owner /\ o = lockFile'.owner
      BY <1>1, <2>1, <2>2
    <3>2. Past(o) \/ proc[o].pc \in {"stamp", "listen"}
      BY <1>0, <1>1, <2>2, <3>1 DEF LockNames
    <3>3. o # p
      BY <1>1, <1>3, <3>2
    <3>4. Past(o)' \/ proc'[o].pc \in {"stamp", "listen"}
      BY <1>4, <3>2, <3>3 DEF Same
    <3>5. QED
      BY <3>1, <3>4 DEF Past, Up, Closing
  <2>3. ASSUME NEW q \in Procs
        PROVE  (proc'[q].pc = "reacquire" => lockFile' = NoLock) /\ proc'[q].pc # "dropLast"
    BY <1>0, <1>1, <1>2 DEF LockNames, Still, Same
  <2>4. QED
    BY <2>2, <2>3 DEF LockNames
<1>9. AloneOK'
  BY <1>2, <1>3, <1>4 DEF AloneOK
<1>10. FilesFit'
  <2>1. (Fits' <=> Fits) /\ (Registered' <=> Registered)
    BY <1>1 DEF Fits, Registered
  <2>2. \A q \in Procs : Acts(q)' /\ proc'[q].then \in StartSites => Registered
    BY <1>2, <1>4 DEF StartSites
  <2>3. \A q \in Procs : /\ proc'[q].pc \in {"enroll", "writeConfig"} => Same(q)
                         /\ proc[q].pc = "writeConfig" => proc'[q].pc = "writeConfig"
    BY <1>1, <1>2 DEF Still, Same
  <2>4. \A q \in Procs : proc'[q].pc = "enroll" =>
            proc'[q].master \in Masters /\ proc'[q].key = identity.key /\ identity.key # None
    BY <1>0, <2>3 DEF FilesFit, Same
  <2>5. \A q \in Procs : proc'[q].pc = "writeConfig" =>
            identity.id = [by |-> proc'[q].master, key |-> identity.key] /\ Registered
    BY <1>0, <2>3 DEF FilesFit, Same
  <2>6. crashes' = 0 => ~ Registered \/ Fits \/ \E q \in Procs : proc'[q].pc = "writeConfig"
    BY <1>0, <1>1, <2>3 DEF FilesFit
  <2>7. QED
    BY <1>0, <1>1, <2>1, <2>2, <2>4, <2>5, <2>6 DEF FilesFit
<1>11. NoMixedRegistration'
  BY <1>0, <1>1, <1>3, <1>4 DEF NoMixedRegistration, Same
<1>12. QED
  BY <1>5, <1>6, <1>7, <1>8, <1>9, <1>10, <1>11 DEF QuietInv

(* A lock that grows old names the process it named. *)
LEMMA AgesKeeps ==
  ASSUME TypeOK, QuietInv, ~ hasty, ~ hasty', LockAges
  PROVE  QuietInv'
<1>1. /\ lockFile # NoLock /\ lockFile' = [lockFile EXCEPT !.fresh = FALSE]
      /\ UNCHANGED <<stateFile, config, identity, proc, crashes, hasty>>
  BY DEF LockAges, Hasty, TypeOK
<1>2. lockFile' # NoLock /\ lockFile'.owner = lockFile.owner
  <2>1. lockFile \in [owner : Procs, written : BOOLEAN, fresh : BOOLEAN]
    BY <1>1 DEF TypeOK
  <2>2. lockFile'.owner = lockFile.owner /\ lockFile'.owner \in Procs
    BY <1>1, <2>1
  <2>3. QED
    BY <2>2, ControlAssumption DEF NoLock, None
<1>3. OneCommand' /\ AloneOK'
  BY <1>1 DEF QuietInv, OneCommand, AloneOK, Acts, Waits, Busy, Alive, Up, Closing
<1>4. NamesThePast'
  BY <1>1 DEF QuietInv, NamesThePast, Past, Up, Closing
<1>5. UpIsOnFile'
  BY <1>1 DEF QuietInv, UpIsOnFile, Acts, Busy, Alive, Up, Closing
<1>6. LockNames'
  BY <1>1, <1>2 DEF QuietInv, LockNames, Past, Up, Closing
<1>7. FilesFit'
  BY <1>1 DEF QuietInv, FilesFit, Fits, Registered, Acts, Busy, Alive, Up, Closing
<1>8. NoMixedRegistration'
  BY <1>1 DEF QuietInv, NoMixedRegistration, Up
<1>9. QED
  BY <1>3, <1>4, <1>5, <1>6, <1>7, <1>8 DEF QuietInv

(* Every step keeps the places a process returns to. *)
LEMMA PlacesKeep ==
  ASSUME TypeOK, PlacesOK, NEW p \in Procs, Step(p) \/ UserStep(p) \/ Kill(p)
  PROVE  PlacesOK'
<1>1. ASSUME NEW pc \in PCs \ {"ask", "askStop", "info"}, Goto(p, pc),
             pc = "forget" => proc[p].seen \in Procs,
             pc = "lockRead" => proc[p].then # "done",
             pc = "requestStop" => proc[p].then = "stopCheck",
             pc \in Acquiring => proc[p].then = "controlCheck",
             pc \in Registering => proc[p].then = "registerCheck"
      PROVE  PlacesOK'
  <2>1. Still(p) /\ proc'[p].pc = pc /\ proc'[p].then = proc[p].then
        /\ proc'[p].seen = proc[p].seen
    BY <1>1, GotoDoes
  <2>2. QED
    BY <1>1, <2>1, PlacesKept
<1>2. ASSUME NEW site, Info(p, site), site # "done"
      PROVE  PlacesOK'
  <2>1. Still(p) /\ proc'[p].pc = "info" /\ proc'[p].then = site /\ proc'[p].seen = None
    BY <1>2, InfoDoes
  <2>2. QED
    BY <1>2, <2>1, PlacesKept DEF Acquiring, Registering
<1>3. ASSUME End(p) PROVE PlacesOK'
  <2>1. Still(p) /\ proc'[p].pc = "done"
    BY <1>3, EndDoes
  <2>2. QED
    BY <2>1, PlacesKept DEF Acquiring, Registering
<1>4. ASSUME Leave(p) PROVE PlacesOK'
  <2>1. Still(p) /\ proc'[p].pc = "forget" /\ proc'[p].seen = p
    BY <1>4, LeaveDoes
  <2>2. QED
    BY <2>1, PlacesKept DEF Acquiring, Registering
<1>5. ASSUME NEW status, Returns(p, status), proc[p].pc # "unborn" PROVE PlacesOK'
  <2>1. ASSUME NEW c \in Procs, proc[c].pc = "unborn", Spawns(p, c) PROVE PlacesOK'
    <3>1. /\ \A q \in Procs \ {p, c} : Same(q)
          /\ proc'[p].pc = "info" /\ proc'[p].then = "waitCheck"
          /\ proc'[c].pc = "info" /\ proc'[c].then = "startCheck"
      BY <1>5, <2>1, SpawnDoes
    <3>2. QED
      BY <3>1 DEF PlacesOK, Same, Acquiring, Registering
  <2>2. "acquire" \in PCs /\ "requestStop" \in PCs /\ "loadKey" \in PCs
    BY Points
  <2>3. CASE proc[p].then = "controlCheck" /\ Goto(p, "acquire")
    BY <1>1, <2>2, <2>3 DEF Acquiring, Registering
  <2>4. CASE proc[p].then = "stopCheck" /\ Goto(p, "requestStop")
    BY <1>1, <2>2, <2>4 DEF Acquiring, Registering
  <2>5. CASE proc[p].then = "registerCheck" /\ Goto(p, "loadKey")
    BY <1>1, <2>2, <2>5 DEF Acquiring, Registering
  <2>6. QED
    BY <1>2, <1>3, <1>5, <2>1, <2>3, <2>4, <2>5, ReturnsDoes
<1>6. CASE ReadState(p)
  <2>1. proc[p].pc = "info" /\ proc[p].then # "done"
    BY <1>6 DEF ReadState, PlacesOK
  <2>2. CASE stateFile = NoState
    BY <1>1, <1>6, <2>1, <2>2, Points DEF ReadState, Acquiring, Registering
  <2>3. CASE stateFile # NoState
    <3>1. /\ Still(p) /\ proc'[p].pc = "ask" /\ proc'[p].then = proc[p].then
          /\ proc'[p].seen = stateFile.owner /\ stateFile.owner \in Procs
      BY <1>6, <2>3, ReadStateDoes
    <3>2. QED
      BY <2>1, <3>1, PlacesKept DEF Acquiring, Registering
  <2>4. QED
    BY <2>2, <2>3
<1>7. CASE AskStatus(p)
  BY <1>5, <1>7 DEF AskStatus
<1>8. CASE AskFails(p)
  <2>1. Still(p) /\ proc'[p].pc = "forget" /\ proc'[p].seen = proc[p].seen
        /\ proc[p].seen \in Procs
    BY <1>8, AskFailsDoes DEF AskFails, PlacesOK
  <2>2. QED
    BY <2>1, PlacesKept DEF Acquiring, Registering
<1>9. CASE Forget(p) \/ Erase(p)
  BY <1>1, <1>9, Points DEF Forget, Erase, Acquiring, Registering
<1>10. CASE Unlock(p)
  BY <1>5, <1>10 DEF Unlock
<1>11. CASE LockRead(p)
  BY <1>1, <1>5, <1>11, Points DEF LockRead, Acquiring, Registering
<1>12. CASE Acquire(p) \/ DropLock(p) \/ Stamp(p)
  <2>1. proc[p].then = "controlCheck"
    BY <1>12 DEF Acquire, DropLock, Stamp, PlacesOK, Acquiring
  <2>2. \/ \E pc \in {"stamp", "dropLock", "dropLast", "reacquire", "listen"} : Goto(p, pc)
        \/ Info(p, "contended")
    BY <1>12 DEF Acquire, DropLock, Stamp
  <2>3. QED
    BY <1>1, <1>2, <2>1, <2>2, Points DEF Registering
<1>13. CASE Listen(p)
  <2>1. CASE Leave(p)
    BY <1>4, <2>1
  <2>2. CASE ~ Leave(p)
    <3>1. Still(p) /\ proc'[p].pc = "init"
      BY <1>13, <2>2, ListenDoes
    <3>2. QED
      BY <3>1, PlacesKept DEF Acquiring, Registering
  <2>3. QED
    BY <2>1, <2>2
<1>14. CASE MarkRunning(p)
  BY <1>1, <1>14, Points DEF MarkRunning, Acquiring, Registering
<1>15. CASE Close(p)
  BY <1>4, <1>15 DEF Close
<1>16. CASE RequestStop(p)
  <2>1. proc[p].then = "stopCheck"
    BY <1>16 DEF RequestStop, PlacesOK
  <2>2. QED
    BY <1>16, <2>1, RequestStopDoes, PlacesKept DEF Acquiring, Registering
<1>17. CASE AskStop(p)
  <2>1. Still(p) /\ proc'[p].pc = "info" /\ proc'[p].then = "stopWait"
    BY <1>17, AskStopDoes
  <2>2. QED
    BY <2>1, PlacesKept DEF Acquiring, Registering
<1>18. CASE LoadKey(p)
  <2>1. Still(p) /\ proc'[p].pc = "enroll" /\ proc'[p].then = proc[p].then
        /\ proc[p].then = "registerCheck"
    BY <1>18, LoadKeyDoes DEF LoadKey, PlacesOK, Registering
  <2>2. QED
    BY <2>1, PlacesKept DEF Acquiring
<1>19. CASE Enroll(p)
  <2>1. proc[p].then = "registerCheck"
    BY <1>19 DEF Enroll, PlacesOK, Registering
  <2>2. QED
    BY <1>1, <1>3, <1>19, <2>1, Points DEF Enroll, Acquiring
<1>20. CASE WriteConfig(p)
  BY <1>3, <1>20 DEF WriteConfig
<1>21. CASE UserStep(p)
  <2>1. ASSUME NEW site \in {"startCheck", "stopCheck", "registerCheck", "statusCheck"},
               NEW background, Begin(p, site, background)
        PROVE  PlacesOK'
    <3>1. Still(p) /\ proc'[p].pc = "info" /\ proc'[p].then = site
      BY <2>1, BeginDoes
    <3>2. QED
      BY <3>1, PlacesKept DEF Acquiring, Registering
  <2>2. CASE Interrupt(p)
    <3>1. proc' = [proc EXCEPT ![p] = [proc[p] EXCEPT !.stopping = TRUE]] /\ DOMAIN proc = Procs
          /\ proc[p] \in ProcRecord
      BY <2>2 DEF Interrupt, TypeOK
    <3>2. \A q \in Procs \ {p} : Same(q)
      BY <3>1 DEF Same
    <3>3. proc'[p] = [proc[p] EXCEPT !.stopping = TRUE]
      BY <3>1
    <3>4. Same(p)
      BY <3>1, <3>3 DEF Same, ProcRecord
    <3>5. QED
      BY <3>2, <3>4 DEF PlacesOK, Same
  <2>3. QED
    BY <1>21, <2>1, <2>2 DEF UserStep, BeginStart, BeginStop, BeginRegister, BeginStatus
<1>22. CASE Kill(p)
  BY <1>3, <1>22 DEF Kill
<1>23. QED
  BY <1>6, <1>7, <1>8, <1>9, <1>10, <1>11, <1>12, <1>13, <1>14, <1>15, <1>16, <1>17, <1>18,
     <1>19, <1>20, <1>21, <1>22 DEF Step

-----------------------------------------------------------------------------
(***************************************************************************)
(* The theorems.                                                           *)
(***************************************************************************)
(* A step that ends without haste began without it. *)
LEMMA HasteStays == TypeOK /\ [Next]_vars /\ ~ hasty' => ~ hasty
<1>1. ASSUME NEW p \in Procs, NEW status, Returns(p, status), hasty PROVE hasty'
  BY <1>1 DEF Returns, WaitChecked, Hasty
<1>2. ASSUME NEW p \in Procs, Step(p), hasty PROVE hasty'
  BY <1>1, <1>2 DEF Step, ReadState, AskStatus, AskFails, Forget, Erase, Unlock, LockRead,
       Acquire, DropLock, Stamp, Listen, MarkRunning, Close, RequestStop, AskStop, LoadKey,
       Enroll, WriteConfig, Hasty, host
<1>3. ASSUME NEW p \in Procs, UserStep(p) \/ Kill(p), hasty PROVE hasty'
  BY <1>3 DEF UserStep, BeginStart, BeginStop, BeginRegister, BeginStatus, Begin, Interrupt,
       Kill, Hasty, host
<1>4. LockAges /\ hasty => hasty'
  BY DEF LockAges, Hasty
<1>5. UNCHANGED vars /\ hasty => hasty'
  BY DEF vars
<1>6. QED
  BY <1>2, <1>3, <1>4, <1>5 DEF Next

(* Every step of a process keeps the invariant. *)
LEMMA ProcessKeeps ==
  ASSUME TypeOK, TypeOK', PlacesOK, QuietInv, ~ hasty, ~ hasty', NEW p \in Procs,
         Step(p) \/ UserStep(p) \/ Kill(p)
  PROVE  QuietInv'
<1>1. CASE UserStep(p)
  <2>1. CASE Interrupt(p)
    BY <2>1, WorkerKeeps
  <2>2. CASE BeginStart(p)
    BY <2>2, BeginKeeps DEF BeginStart
  <2>3. CASE BeginStop(p) \/ BeginRegister(p) \/ BeginStatus(p)
    BY <2>3, BeginKeeps DEF BeginStop, BeginRegister, BeginStatus
  <2>4. QED
    BY <1>1, <2>1, <2>2, <2>3 DEF UserStep
<1>2. CASE Kill(p)
  BY <1>2, WorkerKeeps
<1>3. CASE Step(p)
  <2>1. CASE ReadState(p) \/ AskStatus(p) \/ AskFails(p) \/ LockRead(p)
    BY <2>1, LookKeeps
  <2>2. CASE Forget(p) \/ Erase(p) \/ Unlock(p)
    BY <2>2, CleanUpKeeps
  <2>3. CASE Acquire(p) \/ DropLock(p) \/ Stamp(p)
    BY <2>3, LockKeeps
  <2>4. CASE Listen(p)
    BY <2>4, ListenKeeps, WorkerKeeps
  <2>5. CASE MarkRunning(p) \/ Close(p)
    BY <2>5, WorkerKeeps
  <2>6. CASE RequestStop(p) \/ AskStop(p)
    BY <2>6, StopKeeps
  <2>7. CASE LoadKey(p) \/ Enroll(p) \/ WriteConfig(p)
    BY <2>7, RegisterKeeps
  <2>8. QED
    BY <1>3, <2>1, <2>2, <2>3, <2>4, <2>5, <2>6, <2>7 DEF Step
<1>4. QED
  BY <1>1, <1>2, <1>3

(* The invariant holds at the beginning. *)
LEMMA InitQuiet == Init => ControlInv
<1>1. SUFFICES ASSUME Init PROVE ControlInv
  OBVIOUS
<1>2. \A p \in Procs : proc[p] = Unborn
  BY <1>1 DEF Init
<1>3. \A p \in Procs : /\ proc[p].pc = "unborn" /\ proc[p].seen = None
                       /\ ~ Up(p) /\ ~ Acts(p) /\ ~ Waits(p)
  BY <1>2 DEF Unborn, Up, Acts, Waits, Busy, Alive
<1>4. PlacesOK
  BY <1>3 DEF PlacesOK, Acquiring, Registering
<1>5. stateFile = NoState /\ lockFile = NoLock /\ crashes = 0
  BY <1>1 DEF Init
<1>6. (identity.key = None => ~ Registered) /\ (~ Registered \/ Fits)
  <2>1. CASE identity = [key |-> None, id |-> NoId]
    BY <2>1 DEF Registered
  <2>2. ASSUME NEW m \in Masters, config = m,
               identity = [key |-> "first", id |-> [by |-> m, key |-> "first"]]
        PROVE  identity.key # None /\ Fits
    BY <2>2 DEF Fits, None
  <2>3. QED
    BY <1>1, <2>1, <2>2 DEF Init
<1>7. FilesFit
  BY <1>3, <1>6 DEF FilesFit
<1>8. QED
  BY <1>3, <1>4, <1>5, <1>7 DEF ControlInv, QuietInv, OneCommand, NamesThePast, UpIsOnFile,
       LockNames, AloneOK, NoMixedRegistration

(* Every step keeps the invariant. *)
LEMMA ControlStep == TypeOK /\ ControlInv /\ [Next]_vars => ControlInv'
<1>1. SUFFICES ASSUME TypeOK, ControlInv, [Next]_vars PROVE ControlInv'
  OBVIOUS
<1>2. TypeOK'
  BY <1>1, NextTyped
<1>3. CASE UNCHANGED vars
  BY <1>1, <1>3 DEF vars, ControlInv, PlacesOK, QuietInv, OneCommand, NamesThePast, UpIsOnFile,
       LockNames, AloneOK, FilesFit, NoMixedRegistration, Fits, Registered, Past, Acts, Waits,
       Busy, Alive, Up, Closing
<1>4. CASE LockAges
  <2>1. PlacesOK'
    BY <1>1, <1>4 DEF LockAges, ControlInv, PlacesOK
  <2>2. ~ hasty' => QuietInv'
    BY <1>1, <1>4, HasteStays, AgesKeeps DEF ControlInv
  <2>3. QED
    BY <2>1, <2>2 DEF ControlInv
<1>5. ASSUME NEW p \in Procs, Step(p) \/ UserStep(p) \/ Kill(p) PROVE ControlInv'
  <2>1. PlacesOK'
    BY <1>1, <1>5, PlacesKeep DEF ControlInv
  <2>2. ~ hasty' => QuietInv'
    BY <1>1, <1>2, <1>5, HasteStays, ProcessKeeps DEF ControlInv
  <2>3. QED
    BY <2>1, <2>2 DEF ControlInv
<1>6. QED
  BY <1>1, <1>3, <1>4, <1>5 DEF Next

(* The files and the processes agree, as long as nothing was hasty. *)
THEOREM ControlIsConsistent == Spec => [](TypeOK /\ ControlInv)
<1>1. Init => TypeOK /\ ControlInv
  BY InitTyped, InitQuiet
<1>2. TypeOK /\ ControlInv /\ [Next]_vars => (TypeOK /\ ControlInv)'
  BY NextTyped, ControlStep
<1>3. QED
  BY <1>1, <1>2, PTL DEF Spec

(* At most one Worker of a configuration is up: service.ts keeps a second     *)
(* start out with the state file and the lock, whatever was killed before.    *)
THEOREM OneWorkerIsUp == Spec => []OneWorker
<1>1. TypeOK /\ ControlInv => OneWorker
  BY DEF ControlInv, QuietInv, UpIsOnFile, OneWorker
<1>2. QED
  BY <1>1, ControlIsConsistent, PTL

(* A Worker runs with the Worker id that the Master of its configuration      *)
(* issued for its key, unless a registration was killed half way.             *)
THEOREM RegistrationsFit == Spec => []NoMixedRegistration
<1>1. TypeOK /\ ControlInv => NoMixedRegistration
  BY DEF ControlInv, QuietInv, NoMixedRegistration
<1>2. QED
  BY <1>1, ControlIsConsistent, PTL

-----------------------------------------------------------------------------
(* A step of a process leaves the others where they are, the unborn apart. *)
LEMMA OthersStay ==
  ASSUME TypeOK, PlacesOK, NEW p \in Procs, Step(p) \/ UserStep(p) \/ Kill(p),
         NEW q \in Procs \ {p}, proc[q].pc # "unborn"
  PROVE  Same(q)
<1>1. ASSUME Still(p) PROVE Same(q)
  BY <1>1 DEF Still
<1>2. ASSUME NEW pc, Goto(p, pc) PROVE Same(q)
  BY <1>1, <1>2, GotoDoes
<1>3. ASSUME NEW site, Info(p, site) PROVE Same(q)
  BY <1>1, <1>3, InfoDoes
<1>4. ASSUME End(p) PROVE Same(q)
  BY <1>1, <1>4, EndDoes
<1>5. ASSUME Leave(p) PROVE Same(q)
  BY <1>1, <1>5, LeaveDoes
<1>6. ASSUME NEW status, Returns(p, status), proc[p].pc # "unborn" PROVE Same(q)
  <2>1. ASSUME NEW c \in Procs, proc[c].pc = "unborn", Spawns(p, c) PROVE Same(q)
    BY <1>6, <2>1, SpawnDoes
  <2>2. QED
    BY <1>2, <1>3, <1>4, <1>6, <2>1, ReturnsDoes
<1>7. CASE ReadState(p)
  BY <1>1, <1>2, <1>7, ReadStateDoes DEF ReadState
<1>8. CASE AskStatus(p) \/ Unlock(p) \/ LockRead(p)
  BY <1>2, <1>6, <1>8 DEF AskStatus, Unlock, LockRead
<1>9. CASE AskFails(p) \/ RequestStop(p) \/ AskStop(p) \/ LoadKey(p)
  BY <1>1, <1>9, AskFailsDoes, RequestStopDoes, AskStopDoes, LoadKeyDoes
<1>10. CASE Forget(p) \/ Erase(p) \/ Stamp(p) \/ MarkRunning(p)
  BY <1>2, <1>10 DEF Forget, Erase, Stamp, MarkRunning
<1>11. CASE Acquire(p) \/ DropLock(p)
  BY <1>2, <1>3, <1>11 DEF Acquire, DropLock
<1>12. CASE Listen(p) \/ Close(p)
  BY <1>1, <1>5, <1>12, ListenDoes DEF Close
<1>13. CASE Enroll(p) \/ WriteConfig(p) \/ Kill(p)
  BY <1>2, <1>4, <1>13 DEF Enroll, WriteConfig, Kill
<1>14. CASE UserStep(p)
  <2>1. CASE Interrupt(p)
    BY <2>1 DEF Interrupt, Same, TypeOK
  <2>2. ASSUME NEW site, NEW background, Begin(p, site, background) PROVE Same(q)
    BY <1>1, <2>2, BeginDoes
  <2>3. QED
    BY <1>14, <2>1, <2>2 DEF UserStep, BeginStart, BeginStop, BeginRegister, BeginStatus
<1>15. QED
  BY <1>7, <1>8, <1>9, <1>10, <1>11, <1>12, <1>13, <1>14 DEF Step

(* A command that ends at a site of getWorkerProcessInfo ends by a status. *)
LEMMA EndsByStatus ==
  ASSUME TypeOK, PlacesOK, [Next]_vars, NEW p \in Procs, NEW S, EndsAt(p, S)
  PROVE  AskStatus(p) \/ Unlock(p) \/ LockRead(p)
<1>1. /\ proc[p].pc \in {"ask", "unlock", "lockRead"} /\ proc'[p].pc = "done"
      /\ crashes' = crashes
  BY DEF EndsAt
<1>2. proc' # proc
  BY <1>1
<1>3. PICK q \in Procs : Step(q) \/ UserStep(q) \/ Kill(q)
  BY <1>2 DEF Next, LockAges, vars
<1>4. q = p
  <2>1. SUFFICES ASSUME q # p PROVE FALSE
    OBVIOUS
  <2>2. Same(p)
    BY <1>1, <1>3, <2>1, OthersStay
  <2>3. QED
    BY <1>1, <2>2 DEF Same
<1>5. ~ Kill(p)
  <2>1. crashes \in Nat
    BY ControlAssumption DEF TypeOK
  <2>2. QED
    BY <1>1, <2>1 DEF Kill
<1>6. ~ UserStep(p)
  BY <1>1 DEF UserStep, BeginStart, BeginStop, BeginRegister, BeginStatus, Begin, Interrupt, Up
<1>7. ~ AskFails(p)
  BY <1>1, AskFailsDoes
<1>8. QED
  BY <1>1, <1>3, <1>4, <1>5, <1>6, <1>7
     DEF Step, ReadState, Forget, Erase, Acquire, DropLock, Stamp, Listen, MarkRunning, Close,
         RequestStop, AskStop, LoadKey, Enroll, WriteConfig, Up

(* A command at a site of getWorkerProcessInfo acts, one that waits apart. *)
LEMMA SiteActs ==
  ASSUME NEW p \in Procs, proc[p].pc \in {"ask", "unlock", "lockRead"},
         proc[p].then \notin {"waitCheck", "done"}
  PROVE  Acts(p) /\ ~ Past(p)
  BY DEF Acts, Past, Busy, Alive, Up, Closing

(* A stop that says "stopped" leaves no Worker up: it says so after it has     *)
(* cleaned the files, which it does only when no Worker answers.              *)
THEOREM StopIsTrue == Spec => StopMeansStopped
<1>1. ASSUME TypeOK, ControlInv, [Next]_vars, ~ hasty', NEW p \in Procs,
             EndsAt(p, {"stopCheck", "stopWait"}), proc[p].pc = "unlock"
      PROVE  ~ \E q \in Procs : Up(q)'
  <2>1. PlacesOK /\ QuietInv
    BY <1>1, HasteStays DEF ControlInv
  <2>2. Unlock(p) /\ proc[p].then \in {"stopCheck", "stopWait"} /\ proc'[p].pc = "done"
    BY <1>1, <2>1, EndsByStatus DEF EndsAt, AskStatus, LockRead
  <2>3. \A q \in Procs : ~ Up(q)
    BY <1>1, <2>1, <2>2, SiteActs DEF QuietInv, UpIsOnFile, Cleaning
  <2>4. Still(p)
    <3>1. Returns(p, "stopped")
      BY <2>2 DEF Unlock
    <3>2. End(p) \/ Info(p, "stopWait")
      BY <1>1, <2>2, <3>1, ReturnsDoes
    <3>3. QED
      BY <1>1, <3>2, EndDoes, InfoDoes
  <2>5. QED
    BY <2>2, <2>3, <2>4, SameMeans DEF Still, Up
<1>2. TypeOK /\ ControlInv /\ [Next]_vars
      => [~ hasty' => \A p \in Procs : EndsAt(p, {"stopCheck", "stopWait"})
                                       /\ proc[p].pc = "unlock"
                      => ~ \E q \in Procs : Up(q)']_vars
  BY <1>1
<1>3. QED
  BY <1>2, ControlIsConsistent, PTL DEF Spec, StopMeansStopped

(* A start that finds no process of the configuration alive is not refused:    *)
(* the files that a killed Worker left are cleaned away on its way.           *)
THEOREM StartsAreRefusedForCause == Spec => RefusedForCause
<1>1. ASSUME TypeOK, ControlInv, [Next]_vars, ~ hasty', NEW p \in Procs,
             EndsAt(p, {"startCheck", "controlCheck", "contended"})
      PROVE  ~ proc[p].alone
  <2>1. PlacesOK /\ LockNames /\ AloneOK
    BY <1>1, HasteStays DEF ControlInv, QuietInv
  <2>2. /\ proc[p].then \in {"startCheck", "controlCheck", "contended"}
        /\ proc'[p].pc = "done" /\ proc[p].pc \in {"ask", "unlock", "lockRead"}
    BY <1>1 DEF EndsAt
  <2>3. Acts(p) /\ ~ Past(p)
    BY <2>2, SiteActs
  <2>4. SUFFICES ASSUME proc[p].alone PROVE FALSE
    OBVIOUS
  <2>5. /\ proc[p].then # "contended"
        /\ \A q \in Procs \ {p} : Alive(q) => Waits(q)
    BY <2>1, <2>3, <2>4 DEF AloneOK
  <2>6. CASE AskStatus(p)
    <3>1. PICK s \in Procs : s = proc[p].seen /\ Up(s)
      BY <2>1, <2>6 DEF AskStatus, PlacesOK
    <3>2. s # p /\ Alive(s) /\ ~ Waits(s)
      BY <2>3, <3>1 DEF Past, Up, Alive, Waits, Busy
    <3>3. QED
      BY <2>5, <3>2
  <2>7. CASE LockRead(p)
    <3>1. LockHolds
      <4>1. SUFFICES ASSUME ~ LockHolds PROVE FALSE
        OBVIOUS
      <4>2. Goto(p, "unlock")
        BY <2>7, <4>1 DEF LockRead
      <4>3. QED
        BY <1>1, <2>2, <4>2, GotoDoes
    <3>2. PICK o \in Procs : o = lockFile.owner /\ Alive(o) /\ lockFile # NoLock
      BY <1>1, <3>1 DEF LockHolds, TypeOK
    <3>3. Past(o) \/ proc[o].pc \in {"stamp", "listen"}
      BY <2>1, <3>2 DEF LockNames
    <3>4. o # p
      BY <2>2, <2>3, <3>3
    <3>5. ~ Waits(o)
      BY <2>1, <3>2, <3>3 DEF Past, Waits, Busy, Alive, PlacesOK, Acquiring
    <3>6. QED
      BY <2>5, <3>2, <3>4, <3>5
  <2>8. CASE Unlock(p)
    <3>1. Returns(p, "stopped")
      BY <2>8 DEF Unlock
    <3>2. \/ Info(p, "controlCheck") \/ Goto(p, "acquire")
          \/ \E c \in Procs : proc[c].pc = "unborn" /\ Spawns(p, c)
      BY <2>2, <2>5, <3>1 DEF Returns, WaitChecked, StartChecked, ControlChecked, StopChecked,
                              RegisterChecked, Spawns
    <3>3. proc'[p].pc # "done"
      <4>1. ASSUME NEW c \in Procs, proc[c].pc = "unborn", Spawns(p, c)
            PROVE  proc'[p].pc = "info"
        BY <1>1, <2>2, <4>1, SpawnDoes
      <4>2. CASE Info(p, "controlCheck")
        BY <1>1, <4>2, InfoDoes
      <4>3. CASE Goto(p, "acquire")
        BY <1>1, <4>3, GotoDoes
      <4>4. QED
        BY <3>2, <4>1, <4>2, <4>3
    <3>4. QED
      BY <2>2, <3>3
  <2>9. QED
    BY <1>1, <2>1, <2>6, <2>7, <2>8, EndsByStatus
<1>2. TypeOK /\ ControlInv /\ [Next]_vars
      => [~ hasty' => \A p \in Procs : EndsAt(p, {"startCheck", "controlCheck", "contended"})
                      => ~ proc[p].alone]_vars
  BY <1>1
<1>3. QED
  BY <1>2, ControlIsConsistent, PTL DEF Spec, RefusedForCause
=============================================================================
