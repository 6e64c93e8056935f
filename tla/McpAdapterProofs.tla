-------------------------- MODULE McpAdapterProofs --------------------------
(***************************************************************************)
(* The session properties of McpAdapter, for any number of starts and      *)
(* calls and any limit.                                                    *)
(*                                                                         *)
(* The invariant ties three views of the same requests together: what the  *)
(* callers wait for, what is pending or settled, and which process can     *)
(* still answer.                                                           *)
(***************************************************************************)
EXTENDS McpAdapter, FiniteSetTheorems, TLAPS

Waiting == {c \in Call : call[c] = "waiting"}

(***************************************************************************)
(* A request is open or settled, never both, exactly while its maker       *)
(* waits; those of aborted calls, which have begun, are not open.          *)
(***************************************************************************)
RequestsMatch ==
  /\ \A r \in Open : settled[r] = NoOutcome
  /\ \A c \in Call : call[c] = "waiting" <=> c \in Open \/ settled[c] # NoOutcome
  /\ \A s \in Start : s \in Open \/ settled[s] # NoOutcome
                        => starting[s] \in {"initialize", "tools/list"}
  /\ \A c \in aborted : c \notin Open /\ call[c] # "idle"

\* A result is settled alone, in a session that is heard and enabled.
ResultsComeAlone ==
  \A r \in Requester : settled[r] = "result" =>
    /\ adapter.proc # NoProcess /\ adapter.enabled
    /\ \A q \in Requester \ {r} : settled[q] = NoOutcome

\* The current process is heard, and there is one while requests are open.
CurrentIsHeard ==
  /\ adapter.proc # NoProcess => Heard(adapter.proc)
  /\ Open # {} => adapter.proc # NoProcess
  /\ adapter.status = "running" => adapter.proc # NoProcess

SlotsAreCalls ==
  /\ adapter.activeCalls = Cardinality(Waiting)
  /\ adapter.activeCalls <= MaxConcurrency

AdapterInv ==
  /\ AdapterTypeOK
  /\ RequestsMatch
  /\ ResultsComeAlone
  /\ CurrentIsHeard
  /\ OpenRequestsAreHeard
  /\ DisabledStaysDown
  /\ SlotsAreCalls

-----------------------------------------------------------------------------
\* The number of calls that wait changes by one when one call starts or ends.
LEMMA OneMoreWaits ==
  ASSUME AdapterTypeOK, NEW c \in Call, call[c] # "waiting",
         call' = [call EXCEPT ![c] = "waiting"]
  PROVE  Cardinality(Waiting') = Cardinality(Waiting) + 1 /\ Cardinality(Waiting) \in Nat
<1>1. Waiting' = Waiting \cup {c} /\ c \notin Waiting
  BY DEF Waiting, AdapterTypeOK
<1>2. IsFiniteSet(Waiting)
  BY AdapterAssumption, FS_Subset DEF Waiting
<1> QED
  BY <1>1, <1>2, FS_AddElement, FS_CardinalityType

LEMMA OneLessWaits ==
  ASSUME AdapterTypeOK, NEW c \in Call, call[c] = "waiting",
         call' = [call EXCEPT ![c] = "over"]
  PROVE  /\ Cardinality(Waiting') = Cardinality(Waiting) - 1
         /\ Cardinality(Waiting) \in Nat \ {0}
<1>1. Waiting' = Waiting \ {c} /\ c \in Waiting
  BY DEF Waiting, AdapterTypeOK
<1>2. IsFiniteSet(Waiting)
  BY AdapterAssumption, FS_Subset DEF Waiting
<1>3. Cardinality(Waiting) \in Nat /\ Cardinality(Waiting) # 0
  BY <1>1, <1>2, FS_CardinalityType, FS_EmptySet
<1> QED
  BY <1>1, <1>2, <1>3, FS_RemoveElement

LEMMA InitEstablishes == AdapterInit => AdapterInv
<1> SUFFICES ASSUME AdapterInit PROVE AdapterInv
  OBVIOUS
<1>1. Waiting = {} /\ Open = {}
  BY DEF AdapterInit, Waiting, Open
<1>2. AdapterTypeOK
  BY AdapterAssumption DEF AdapterInit, AdapterTypeOK, Adapter, Requester, NoOutcome
<1>3. SlotsAreCalls
  BY <1>1, AdapterAssumption, FS_EmptySet DEF AdapterInit, SlotsAreCalls
<1> QED
  BY <1>1, <1>2, <1>3 DEF AdapterInv, AdapterInit, RequestsMatch, ResultsComeAlone, CurrentIsHeard,
     OpenRequestsAreHeard, DisabledStaysDown, Requester, NoOutcome

LEMMA EnableKeeps ==
  ASSUME AdapterInv, NEW s \in Start, Enable(s)
  PROVE  AdapterInv'
<1> USE AdapterAssumption
<1>1. AdapterTypeOK'
  <2>1. adapter' \in Adapter
    <3>1. PICK ok \in BOOLEAN :
            adapter' = [adapter EXCEPT !.proc = s, !.enabled = TRUE, !.stopping = FALSE,
                                       !.status = IF ok THEN "starting" ELSE "error"]
      BY DEF Enable, Spawn
    <3>2. CASE ok
      BY <3>1, <3>2 DEF AdapterInv, AdapterTypeOK, Adapter
    <3>3. CASE ~ ok
      BY <3>1, <3>3 DEF AdapterInv, AdapterTypeOK, Adapter
    <3> QED
      BY <3>2, <3>3
  <2>2. process' \in [Start -> {"unborn", "alive", "failed", "dying", "gone"}]
    BY DEF AdapterInv, Enable, Spawn, AdapterTypeOK
  <2>3. pending' \in [Requester -> Start \cup {NoProcess}]
    BY DEF AdapterInv, Enable, Spawn, AdapterTypeOK, Requester
  <2> QED
    BY <2>1, <2>2, <2>3 DEF AdapterInv, Enable, Spawn, AdapterTypeOK, Adapter
<1>2. RequestsMatch'
  BY DEF AdapterInv, Enable, Spawn, Quiet, RequestsMatch, AdapterTypeOK, Requester, Open, NoOutcome
<1>3. ResultsComeAlone'
  BY DEF AdapterInv, Enable, Spawn, Quiet, ResultsComeAlone, RequestsMatch, AdapterTypeOK, Adapter, Requester, Open, Outcome, NoOutcome
<1>4. CurrentIsHeard'
  BY DEF AdapterInv, Enable, Spawn, Quiet, CurrentIsHeard, AdapterTypeOK, Adapter, Heard, Requester, Open, NoOutcome
<1>5. OpenRequestsAreHeard'
  BY DEF AdapterInv, Enable, Spawn, Quiet, OpenRequestsAreHeard, CurrentIsHeard, AdapterTypeOK, Adapter, Heard, Requester, Open, NoOutcome
<1>6. DisabledStaysDown'
  BY DEF AdapterInv, Enable, Spawn, Quiet, DisabledStaysDown, AdapterTypeOK, Adapter, Requester, Open, NoOutcome
<1>7. SlotsAreCalls'
  BY DEF AdapterInv, Enable, Spawn, Quiet, SlotsAreCalls, AdapterTypeOK, Adapter, Waiting
<1> QED
  BY <1>1, <1>2, <1>3, <1>4, <1>5, <1>6, <1>7 DEF AdapterInv

(* The current process is dying, or there was none. *)
LEMMA KillTypes ==
  ASSUME AdapterTypeOK, KillProcess
  PROVE  /\ process' \in [Start -> {"unborn", "alive", "failed", "dying", "gone"}]
         /\ reading' \subseteq Start
BY DEF AdapterTypeOK, KillProcess

(* Every open request has an outcome, and no request is open. *)
LEMMA SettleTypes ==
  ASSUME AdapterTypeOK, NEW outcome \in Outcome, NEW seen, SettleAll(outcome, seen)
  PROVE  /\ pending' \in [Requester -> Start \cup {NoProcess}]
         /\ settled' \in [Requester -> Outcome \cup {NoOutcome}]
BY DEF AdapterTypeOK, SettleAll

LEMMA StopKeeps ==
  ASSUME AdapterInv, Stop
  PROVE  AdapterInv'
<1> USE AdapterAssumption
<1>1. AdapterTypeOK'
  <2>1. AdapterTypeOK /\ KillProcess /\ SettleAll("canceled", {}) /\ "canceled" \in Outcome
    BY DEF AdapterInv, Stop, Kill, Outcome
  <2>2. adapter' \in Adapter
    BY DEF AdapterInv, Stop, AdapterTypeOK, Adapter
  <2> QED
    BY <2>1, <2>2, KillTypes, SettleTypes DEF Stop, AdapterTypeOK
<1>2. RequestsMatch'
  BY DEF AdapterInv, Stop, Kill, KillProcess, SettleAll, Quiet, RequestsMatch, AdapterTypeOK, Requester, Open, NoOutcome
<1>3. ResultsComeAlone'
  BY DEF AdapterInv, Stop, Kill, KillProcess, SettleAll, Quiet, ResultsComeAlone, RequestsMatch, AdapterTypeOK, Adapter, Requester, Open, Outcome, NoOutcome
<1>4. CurrentIsHeard'
  BY DEF AdapterInv, Stop, Kill, KillProcess, SettleAll, Quiet, CurrentIsHeard, AdapterTypeOK, Adapter, Heard, Requester, Open, NoOutcome
<1>5. OpenRequestsAreHeard'
  BY DEF AdapterInv, Stop, Kill, KillProcess, SettleAll, Quiet, OpenRequestsAreHeard, CurrentIsHeard, AdapterTypeOK, Adapter, Heard, Requester, Open, NoOutcome
<1>6. DisabledStaysDown'
  BY DEF AdapterInv, Stop, Kill, KillProcess, SettleAll, Quiet, DisabledStaysDown, AdapterTypeOK, Adapter, Requester, Open, NoOutcome
<1>7. SlotsAreCalls'
  BY DEF AdapterInv, Stop, Kill, KillProcess, SettleAll, Quiet, SlotsAreCalls, AdapterTypeOK, Adapter, Waiting
<1> QED
  BY <1>1, <1>2, <1>3, <1>4, <1>5, <1>6, <1>7 DEF AdapterInv

LEMMA OversizedKeeps ==
  ASSUME AdapterInv, NEW p \in Start, OversizedLine(p)
  PROVE  AdapterInv'
<1> USE AdapterAssumption
<1>1. AdapterTypeOK'
  BY DEF AdapterInv, OversizedLine, Kill, KillProcess, SettleAll, Quiet, AdapterTypeOK, Adapter, Requester, Outcome, NoOutcome
<1>2. RequestsMatch'
  BY DEF AdapterInv, OversizedLine, Kill, KillProcess, SettleAll, Quiet, RequestsMatch, AdapterTypeOK, Requester, Open, NoOutcome
<1>3. ResultsComeAlone'
  BY DEF AdapterInv, OversizedLine, Kill, KillProcess, SettleAll, Quiet, ResultsComeAlone, RequestsMatch, AdapterTypeOK, Adapter, Requester, Open, Outcome, NoOutcome
<1>4. CurrentIsHeard'
  BY DEF AdapterInv, OversizedLine, Kill, KillProcess, SettleAll, Quiet, CurrentIsHeard, AdapterTypeOK, Adapter, Heard, Requester, Open, NoOutcome
<1>5. OpenRequestsAreHeard'
  BY DEF AdapterInv, OversizedLine, Kill, KillProcess, SettleAll, Quiet, OpenRequestsAreHeard, CurrentIsHeard, AdapterTypeOK, Adapter, Heard, Requester, Open, NoOutcome
<1>6. DisabledStaysDown'
  BY DEF AdapterInv, OversizedLine, Kill, KillProcess, SettleAll, Quiet, DisabledStaysDown, AdapterTypeOK, Adapter, Requester, Open, NoOutcome
<1>7. SlotsAreCalls'
  BY DEF AdapterInv, OversizedLine, Kill, KillProcess, SettleAll, Quiet, SlotsAreCalls, AdapterTypeOK, Adapter, Waiting
<1> QED
  BY <1>1, <1>2, <1>3, <1>4, <1>5, <1>6, <1>7 DEF AdapterInv

LEMMA ExitKeeps ==
  ASSUME AdapterInv, NEW p \in Start, Exit(p)
  PROVE  AdapterInv'
<1> USE AdapterAssumption
<1>1. AdapterTypeOK'
  BY DEF AdapterInv, Exit, SettleAll, Quiet, AdapterTypeOK, Adapter, Requester, Outcome, NoOutcome
<1>2. RequestsMatch'
  BY DEF AdapterInv, Exit, SettleAll, Quiet, RequestsMatch, AdapterTypeOK, Requester, Open, NoOutcome
<1>3. ResultsComeAlone'
  BY DEF AdapterInv, Exit, SettleAll, Quiet, ResultsComeAlone, RequestsMatch, AdapterTypeOK, Adapter, Requester, Open, Outcome, NoOutcome
<1>4. CurrentIsHeard'
  BY DEF AdapterInv, Exit, SettleAll, Quiet, CurrentIsHeard, AdapterTypeOK, Adapter, Heard, Requester, Open, NoOutcome
<1>5. OpenRequestsAreHeard'
  BY DEF AdapterInv, Exit, SettleAll, Quiet, OpenRequestsAreHeard, CurrentIsHeard, AdapterTypeOK, Adapter, Heard, Requester, Open, NoOutcome
<1>6. DisabledStaysDown'
  BY DEF AdapterInv, Exit, SettleAll, Quiet, DisabledStaysDown, AdapterTypeOK, Adapter, Requester, Open, NoOutcome
<1>7. SlotsAreCalls'
  BY DEF AdapterInv, Exit, SettleAll, Quiet, SlotsAreCalls, AdapterTypeOK, Adapter, Waiting
<1> QED
  BY <1>1, <1>2, <1>3, <1>4, <1>5, <1>6, <1>7 DEF AdapterInv

LEMMA AnswerKeeps ==
  ASSUME AdapterInv, NEW r \in Requester, Answer(r)
  PROVE  AdapterInv'
<1> USE AdapterAssumption
<1>1. AdapterTypeOK'
  BY DEF AdapterInv, Answer, Settle, Quiet, AdapterTypeOK, Adapter, Requester, Outcome, NoOutcome
<1>2. RequestsMatch'
  BY DEF AdapterInv, Answer, Settle, Quiet, RequestsMatch, AdapterTypeOK, Requester, Open, NoOutcome
<1>3. ResultsComeAlone'
  <2>1. Open # {}
    BY DEF AdapterInv, Answer, AdapterTypeOK, Open
  <2>2. adapter.proc # NoProcess /\ adapter.enabled
    BY <2>1 DEF AdapterInv, CurrentIsHeard, DisabledStaysDown
  <2> QED
    BY <2>2 DEF Answer, Settle, Quiet, ResultsComeAlone, NoOutcome
<1>4. CurrentIsHeard'
  BY DEF AdapterInv, Answer, Settle, Quiet, CurrentIsHeard, AdapterTypeOK, Adapter, Heard, Requester, Open, NoOutcome
<1>5. OpenRequestsAreHeard'
  BY DEF AdapterInv, Answer, Settle, Quiet, OpenRequestsAreHeard, CurrentIsHeard, AdapterTypeOK, Adapter, Heard, Requester, Open, NoOutcome
<1>6. DisabledStaysDown'
  BY DEF AdapterInv, Answer, Settle, Quiet, DisabledStaysDown, AdapterTypeOK, Adapter, Requester, Open, NoOutcome
<1>7. SlotsAreCalls'
  BY DEF AdapterInv, Answer, Settle, Quiet, SlotsAreCalls, AdapterTypeOK, Adapter, Waiting
<1> QED
  BY <1>1, <1>2, <1>3, <1>4, <1>5, <1>6, <1>7 DEF AdapterInv

LEMMA TimeoutKeeps ==
  ASSUME AdapterInv, NEW r \in Requester, Timeout(r)
  PROVE  AdapterInv'
<1> USE AdapterAssumption
<1>1. AdapterTypeOK'
  BY DEF AdapterInv, Timeout, Settle, Quiet, AdapterTypeOK, Adapter, Requester, Outcome, NoOutcome
<1>2. RequestsMatch'
  BY DEF AdapterInv, Timeout, Settle, Quiet, RequestsMatch, AdapterTypeOK, Requester, Open, NoOutcome
<1>3. ResultsComeAlone'
  BY DEF AdapterInv, Timeout, Settle, Quiet, ResultsComeAlone, RequestsMatch, AdapterTypeOK, Adapter, Requester, Open, Outcome, NoOutcome
<1>4. CurrentIsHeard'
  BY DEF AdapterInv, Timeout, Settle, Quiet, CurrentIsHeard, AdapterTypeOK, Adapter, Heard, Requester, Open, NoOutcome
<1>5. OpenRequestsAreHeard'
  BY DEF AdapterInv, Timeout, Settle, Quiet, OpenRequestsAreHeard, CurrentIsHeard, AdapterTypeOK, Adapter, Heard, Requester, Open, NoOutcome
<1>6. DisabledStaysDown'
  BY DEF AdapterInv, Timeout, Settle, Quiet, DisabledStaysDown, AdapterTypeOK, Adapter, Requester, Open, NoOutcome
<1>7. SlotsAreCalls'
  BY DEF AdapterInv, Timeout, Settle, Quiet, SlotsAreCalls, AdapterTypeOK, Adapter, Waiting
<1> QED
  BY <1>1, <1>2, <1>3, <1>4, <1>5, <1>6, <1>7 DEF AdapterInv

LEMMA AbortKeeps ==
  ASSUME AdapterInv, NEW c \in Call, Abort(c)
  PROVE  AdapterInv'
<1> USE AdapterAssumption
<1>1. AdapterTypeOK'
  BY DEF AdapterInv, Abort, Settle, Quiet, AdapterTypeOK, Adapter, Requester, Outcome, NoOutcome
<1>2. RequestsMatch'
  BY DEF AdapterInv, Abort, Settle, Quiet, RequestsMatch, AdapterTypeOK, Requester, Open, NoOutcome
<1>3. ResultsComeAlone'
  BY DEF AdapterInv, Abort, Settle, Quiet, ResultsComeAlone, RequestsMatch, AdapterTypeOK, Adapter, Requester, Open, Outcome, NoOutcome
<1>4. CurrentIsHeard'
  BY DEF AdapterInv, Abort, Settle, Quiet, CurrentIsHeard, AdapterTypeOK, Adapter, Heard, Requester, Open, NoOutcome
<1>5. OpenRequestsAreHeard'
  BY DEF AdapterInv, Abort, Settle, Quiet, OpenRequestsAreHeard, CurrentIsHeard, AdapterTypeOK, Adapter, Heard, Requester, Open, NoOutcome
<1>6. DisabledStaysDown'
  BY DEF AdapterInv, Abort, Settle, Quiet, DisabledStaysDown, AdapterTypeOK, Adapter, Requester, Open, NoOutcome
<1>7. SlotsAreCalls'
  BY DEF AdapterInv, Abort, Settle, Quiet, SlotsAreCalls, AdapterTypeOK, Adapter, Waiting
<1> QED
  BY <1>1, <1>2, <1>3, <1>4, <1>5, <1>6, <1>7 DEF AdapterInv

LEMMA ProceedKeeps ==
  ASSUME AdapterInv, NEW s \in Start, Proceed(s)
  PROVE  AdapterInv'
<1> USE AdapterAssumption
<1>1. AdapterTypeOK'
  BY DEF AdapterInv, Proceed, ResultsComeAlone, AdapterTypeOK, Adapter, Requester, Outcome, NoOutcome
<1>2. RequestsMatch'
  BY DEF AdapterInv, Proceed, ResultsComeAlone, RequestsMatch, AdapterTypeOK, Requester, Open, NoOutcome
<1>3. ResultsComeAlone'
  BY DEF AdapterInv, Proceed, ResultsComeAlone, ResultsComeAlone, RequestsMatch, AdapterTypeOK, Adapter, Requester, Open, Outcome, NoOutcome
<1>4. CurrentIsHeard'
  BY DEF AdapterInv, Proceed, ResultsComeAlone, CurrentIsHeard, AdapterTypeOK, Adapter, Heard, Requester, Open, NoOutcome
<1>5. OpenRequestsAreHeard'
  BY DEF AdapterInv, Proceed, ResultsComeAlone, OpenRequestsAreHeard, CurrentIsHeard, AdapterTypeOK, Adapter, Heard, Requester, Open, NoOutcome
<1>6. DisabledStaysDown'
  BY DEF AdapterInv, Proceed, ResultsComeAlone, DisabledStaysDown, AdapterTypeOK, Adapter, Requester, Open, NoOutcome
<1>7. SlotsAreCalls'
  BY DEF AdapterInv, Proceed, ResultsComeAlone, SlotsAreCalls, AdapterTypeOK, Adapter, Waiting
<1> QED
  BY <1>1, <1>2, <1>3, <1>4, <1>5, <1>6, <1>7 DEF AdapterInv

LEMMA GiveUpKeeps ==
  ASSUME AdapterInv, NEW s \in Start, GiveUp(s)
  PROVE  AdapterInv'
<1> USE AdapterAssumption
<1>1. AdapterTypeOK'
  BY DEF AdapterInv, GiveUp, Kill, KillProcess, SettleAll, Quiet, AdapterTypeOK, Adapter, Requester, Outcome, NoOutcome
<1>2. RequestsMatch'
  BY DEF AdapterInv, GiveUp, Kill, KillProcess, SettleAll, Quiet, RequestsMatch, AdapterTypeOK, Requester, Open, NoOutcome
<1>3. ResultsComeAlone'
  BY DEF AdapterInv, GiveUp, Kill, KillProcess, SettleAll, Quiet, ResultsComeAlone, RequestsMatch, AdapterTypeOK, Adapter, Requester, Open, Outcome, NoOutcome
<1>4. CurrentIsHeard'
  BY DEF AdapterInv, GiveUp, Kill, KillProcess, SettleAll, Quiet, CurrentIsHeard, AdapterTypeOK, Adapter, Heard, Requester, Open, NoOutcome
<1>5. OpenRequestsAreHeard'
  BY DEF AdapterInv, GiveUp, Kill, KillProcess, SettleAll, Quiet, OpenRequestsAreHeard, CurrentIsHeard, AdapterTypeOK, Adapter, Heard, Requester, Open, NoOutcome
<1>6. DisabledStaysDown'
  BY DEF AdapterInv, GiveUp, Kill, KillProcess, SettleAll, Quiet, DisabledStaysDown, AdapterTypeOK, Adapter, Requester, Open, NoOutcome
<1>7. SlotsAreCalls'
  BY DEF AdapterInv, GiveUp, Kill, KillProcess, SettleAll, Quiet, SlotsAreCalls, AdapterTypeOK, Adapter, Waiting
<1> QED
  BY <1>1, <1>2, <1>3, <1>4, <1>5, <1>6, <1>7 DEF AdapterInv

LEMMA InvokeKeeps ==
  ASSUME AdapterInv, NEW c \in Call, Invoke(c)
  PROVE  AdapterInv'
<1>1. CASE ~ MayInvoke
  <2>1. Waiting' = Waiting
    BY <1>1 DEF AdapterInv, AdapterTypeOK, Invoke, Waiting
  <2>2. AdapterTypeOK'
    BY <1>1 DEF AdapterInv, AdapterTypeOK, Invoke
  <2>3. RequestsMatch'
    BY <1>1 DEF AdapterInv, AdapterTypeOK, Invoke, RequestsMatch, Quiet, Open, Requester
  <2> QED
    BY <1>1, <2>1, <2>2, <2>3 DEF AdapterInv, Invoke, ResultsComeAlone, CurrentIsHeard, Heard, Open,
       OpenRequestsAreHeard, DisabledStaysDown, SlotsAreCalls
<1>2. CASE MayInvoke
  <2>1. /\ call' = [call EXCEPT ![c] = "waiting"]
        /\ adapter' = [adapter EXCEPT !.activeCalls = @ + 1]
        /\ pending' = [pending EXCEPT ![c] = adapter.proc]
        /\ UNCHANGED << process, reading, settled, starting, aborted >>
        /\ call[c] = "idle" /\ Quiet
    BY <1>2 DEF Invoke
  <2>2. /\ adapter'.proc = adapter.proc /\ adapter'.status = adapter.status
        /\ adapter'.stopping = adapter.stopping /\ adapter'.enabled = adapter.enabled
        /\ adapter'.activeCalls = adapter.activeCalls + 1 /\ adapter' \in Adapter
    BY <2>1 DEF AdapterInv, AdapterTypeOK, Adapter
  <2>3. adapter.proc \in Start /\ Heard(adapter.proc) /\ adapter.enabled /\ adapter.status = "running"
    BY <1>2 DEF AdapterInv, AdapterTypeOK, Adapter, CurrentIsHeard, MayInvoke
  <2>4. Open' = Open \cup {c} /\ c \notin Start
    BY <2>1, <2>3, AdapterAssumption DEF AdapterInv, AdapterTypeOK, Open, Requester
  <2>5. AdapterTypeOK'
    BY <2>1, <2>2, <2>3 DEF AdapterInv, AdapterTypeOK, Requester
  <2>6. RequestsMatch'
    <3>1. c \notin aborted
      BY <2>1 DEF AdapterInv, RequestsMatch, AdapterTypeOK, Quiet, Requester
    <3> QED
      BY <2>1, <2>4, <3>1 DEF AdapterInv, RequestsMatch, AdapterTypeOK, Quiet, Requester
  <2>7. ResultsComeAlone' /\ CurrentIsHeard' /\ DisabledStaysDown'
    BY <2>1, <2>2, <2>3 DEF AdapterInv, ResultsComeAlone, CurrentIsHeard, DisabledStaysDown, Heard
  <2>8. OpenRequestsAreHeard'
    BY <2>1, <2>3, <2>4 DEF AdapterInv, OpenRequestsAreHeard, Heard, AdapterTypeOK, Open, Requester
  <2>9. SlotsAreCalls'
    <3>1. Cardinality(Waiting') = Cardinality(Waiting) + 1
      BY <2>1, OneMoreWaits DEF AdapterInv
    <3>2. adapter.activeCalls < MaxConcurrency /\ adapter.activeCalls \in Nat
      BY <1>2 DEF AdapterInv, AdapterTypeOK, Adapter, MayInvoke
    <3> QED
      BY <2>2, <3>1, <3>2, AdapterAssumption DEF AdapterInv, SlotsAreCalls
  <2> QED
    BY <2>5, <2>6, <2>7, <2>8, <2>9 DEF AdapterInv
<1> QED
  BY <1>1, <1>2

LEMMA ReturnKeeps ==
  ASSUME AdapterInv, NEW c \in Call, Return(c)
  PROVE  AdapterInv'
<1>1. call[c] = "waiting" /\ c \notin Open
  BY DEF AdapterInv, RequestsMatch, Return, Open, Requester
<1>2. /\ Cardinality(Waiting') = Cardinality(Waiting) - 1
      /\ Cardinality(Waiting) \in Nat \ {0}
  BY <1>1, OneLessWaits DEF AdapterInv, Return
<1>3. /\ adapter'.proc = adapter.proc /\ adapter'.status = adapter.status
      /\ adapter'.stopping = adapter.stopping /\ adapter'.enabled = adapter.enabled
      /\ adapter'.activeCalls = adapter.activeCalls - 1
  BY DEF AdapterInv, AdapterTypeOK, Adapter, Return
<1>4. adapter'.activeCalls \in Nat /\ adapter' \in Adapter
  BY <1>2, <1>3 DEF AdapterInv, AdapterTypeOK, Adapter, SlotsAreCalls, Return
<1>5. AdapterTypeOK'
  BY <1>4 DEF AdapterInv, AdapterTypeOK, Return, Requester
<1>6. Open' = Open
  BY DEF Return, Open
<1>7. RequestsMatch'
  BY <1>1, <1>6, AdapterAssumption DEF AdapterInv, AdapterTypeOK, RequestsMatch, Return, Requester, NoOutcome
<1>8. ResultsComeAlone' /\ CurrentIsHeard' /\ OpenRequestsAreHeard' /\ DisabledStaysDown'
  BY <1>3, <1>6 DEF AdapterInv, AdapterTypeOK, ResultsComeAlone, CurrentIsHeard, OpenRequestsAreHeard,
     DisabledStaysDown, Heard, Return, Requester, NoOutcome
<1>9. SlotsAreCalls'
  BY <1>2, <1>3, AdapterAssumption DEF AdapterInv, SlotsAreCalls
<1> QED
  BY <1>5, <1>7, <1>8, <1>9 DEF AdapterInv

\* Every step of the adapter keeps the invariant.
LEMMA StepKeeps == AdapterInv /\ [AdapterNext]_adapterVars => AdapterInv'
<1> SUFFICES ASSUME AdapterInv, [AdapterNext]_adapterVars PROVE AdapterInv'
  OBVIOUS
<1>1. CASE Stop
  BY <1>1, StopKeeps
<1>2. CASE \E s \in Start : Enable(s) \/ OversizedLine(s) \/ Exit(s)
  BY <1>2, EnableKeeps, OversizedKeeps, ExitKeeps
<1>3. CASE \E c \in Call : Invoke(c) \/ Abort(c)
  BY <1>3, InvokeKeeps, AbortKeeps
<1>4. CASE \E r \in Requester : Answer(r) \/ Timeout(r)
  BY <1>4, AnswerKeeps, TimeoutKeeps
<1>5. CASE Resume
  BY <1>5, ProceedKeeps, GiveUpKeeps, ReturnKeeps DEF Resume
<1>6. CASE UNCHANGED adapterVars
  BY <1>6 DEF adapterVars, AdapterInv, AdapterTypeOK, RequestsMatch, ResultsComeAlone, CurrentIsHeard,
     OpenRequestsAreHeard, DisabledStaysDown, SlotsAreCalls, Open, Heard, Waiting
<1> QED
  BY <1>1, <1>2, <1>3, <1>4, <1>5, <1>6 DEF AdapterNext

\* The invariant holds throughout.
THEOREM AdapterIsSound == AdapterSpec => []AdapterInv
<1> QED
  BY InitEstablishes, StepKeeps, PTL DEF AdapterSpec

\* The fields of the adapter and the state of its callers keep their types.
THEOREM AdapterIsTyped == AdapterSpec => []AdapterTypeOK
<1>1. AdapterInv => AdapterTypeOK
  BY DEF AdapterInv
<1> QED
  BY <1>1, AdapterIsSound, PTL

(***************************************************************************)
(* activeCalls is the number of calls under way: no path out of invoke     *)
(* loses a slot or takes one too many.                                     *)
(***************************************************************************)
THEOREM SlotsAreNotLost == AdapterSpec => []CallsAreCounted
<1>1. AdapterInv => CallsAreCounted
  BY DEF AdapterInv, SlotsAreCalls, CallsAreCounted, Waiting
<1> QED
  BY <1>1, AdapterIsSound, PTL

\* No request hangs on a session that is over (handleExit, kill).
THEOREM NoRequestHangs == AdapterSpec => []OpenRequestsAreHeard
<1>1. AdapterInv => OpenRequestsAreHeard
  BY DEF AdapterInv
<1> QED
  BY <1>1, AdapterIsSound, PTL

\* A plugin reported as running has a process that is heard.
THEOREM RunningMeansHeard == AdapterSpec => []RunningIsHeard
<1>1. AdapterInv => RunningIsHeard
  BY DEF AdapterInv, CurrentIsHeard, RunningIsHeard
<1> QED
  BY <1>1, AdapterIsSound, PTL

\* A start that was under way does not revive a plugin that was disabled.
THEOREM DisabledIsNotRevived == AdapterSpec => []DisabledStaysDown
<1>1. AdapterInv => DisabledStaysDown
  BY DEF AdapterInv
<1> QED
  BY <1>1, AdapterIsSound, PTL

\* A canceled call is over at once (the abort handler of sendRequest).
THEOREM CanceledCallsEnd == AdapterSpec => []AbortedCallsEnd
<1>1. AdapterInv => AbortedCallsEnd
  BY DEF AdapterInv, AdapterTypeOK, RequestsMatch, AbortedCallsEnd, Quiet, Requester
<1> QED
  BY <1>1, AdapterIsSound, PTL
=============================================================================
