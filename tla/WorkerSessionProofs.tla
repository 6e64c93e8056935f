------------------------- MODULE WorkerSessionProofs -------------------------
(***************************************************************************)
(* Proofs about WorkerSession: the loops of a Worker keep apart what they  *)
(* share, for any number of sessions, expiries and lost requests.          *)
(***************************************************************************)
EXTENDS WorkerSession, TLAPS

(***************************************************************************)
(* The inductive invariant.  While the main loop reports or claims, the    *)
(* token is the one it does that with or has been emptied; and a request   *)
(* whose answer may be recorded carries a session.                         *)
(***************************************************************************)
MainToken ==
    /\ main \in {"report", "claim"} => /\ request["main"].tok \in Tokens
                                       /\ token \in {None, request["main"].tok}
    /\ main = "auth" /\ Verdict("main") = "ok" => request["main"].tok \in Tokens

BeatTokens == \A b \in Beats : beats[b] \in {"flight", "leaving"} => request[b].tok \in Tokens

JobToken == job = "snapshot" => request["job"].tok \in Tokens

SessionInv ==
    TypeOK /\ MainToken /\ BeatTokens /\ JobToken /\ ClaimsAreReported /\ OneHeartbeat

Request == [tok : Tokens \cup {None}, verdict : {"none", "sent", "ok", "denied", "lost"}]

(* The initial state has no session and no request. *)
LEMMA InitSound == Init => SessionInv
<1>1. SUFFICES ASSUME Init PROVE SessionInv
  OBVIOUS
<1>2. Idle \in Request /\ None \in Tokens \cup {None}
  BY DEF Idle, Request
<1>3. request \in [Loops -> Request]
  BY <1>1, <1>2 DEF Init
<1>4. {0} \subseteq 0 .. MaxTokens /\ {0} \subseteq 0 .. MaxExpired /\ {0} \subseteq 0 .. MaxLost
  BY SessionAssumption
<1>5. TypeOK
  BY <1>1, <1>3, <1>4 DEF Init, TypeOK, Request
<1>6. QED
  BY <1>1, <1>5 DEF Init, SessionInv, MainToken, BeatTokens, JobToken, ClaimsAreReported,
                    OneHeartbeat

(* Requests are sent with the shape of a request. *)
LEMMA SentType == \A t \in Tokens \cup {None} : Sent(t) \in Request /\ Sent(t).tok = t
                                               /\ Sent(t).verdict = "sent"
BY DEF Sent, Request

LEMMA IdleType == Idle \in Request /\ Idle.verdict = "none"
BY DEF Idle, Request

(* The plugins are loaded, or not. *)
LEMMA BootSound == ASSUME SessionInv, Boot PROVE SessionInv'
<1>1. TypeOK'
  BY DEF SessionInv, TypeOK, Boot, master
<1>2. MainToken'
  BY DEF MainToken, Boot
<1>3. BeatTokens'
  BY DEF SessionInv, BeatTokens, Boot
<1>4. JobToken'
  BY DEF SessionInv, JobToken, Boot
<1>5. ClaimsAreReported'
  BY DEF ClaimsAreReported, Boot
<1>6. OneHeartbeat'
  BY DEF SessionInv, OneHeartbeat, Boot
<1>7. QED
  BY <1>1, <1>2, <1>3, <1>4, <1>5, <1>6 DEF SessionInv

(* A sleep ends. *)
LEMMA AwakeSound == ASSUME SessionInv, Awake PROVE SessionInv'
<1>1. TypeOK'
  BY DEF SessionInv, TypeOK, Awake, master
<1>2. MainToken'
  BY DEF MainToken, Awake
<1>3. BeatTokens'
  BY DEF SessionInv, BeatTokens, Awake
<1>4. JobToken'
  BY DEF SessionInv, JobToken, Awake
<1>5. ClaimsAreReported'
  BY DEF ClaimsAreReported, Awake
<1>6. OneHeartbeat'
  BY DEF SessionInv, OneHeartbeat, Awake
<1>7. QED
  BY <1>1, <1>2, <1>3, <1>4, <1>5, <1>6 DEF SessionInv

(* The main loop sends the token it has. *)
LEMMA LoopSound == ASSUME SessionInv, Loop PROVE SessionInv'
<1>1. TypeOK'
  BY SentType DEF SessionInv, TypeOK, Loop, master, Request, Loops, Beats, Verdict
<1>2. MainToken'
  BY SentType DEF SessionInv, TypeOK, MainToken, Loop, Verdict, Loops, master
<1>3. BeatTokens'
  BY DEF SessionInv, TypeOK, BeatTokens, Loop, Loops, Beats, master
<1>4. JobToken'
  BY DEF SessionInv, TypeOK, JobToken, Loop, Loops, master
<1>5. ClaimsAreReported'
  BY DEF ClaimsAreReported, Loop, master
<1>6. OneHeartbeat'
  BY DEF SessionInv, OneHeartbeat, Loop, master
<1>7. QED
  BY <1>1, <1>2, <1>3, <1>4, <1>5, <1>6 DEF SessionInv

(* stop() ends sleeping loops and the claim under way. *)
LEMMA StopSound == ASSUME SessionInv, Stop PROVE SessionInv'
<1>1. TypeOK'
  <2>1. request' \in [Loops -> Request]
    <3>1. request \in [Loops -> Request]
      BY DEF SessionInv, TypeOK, Request
    <3>2. Aborted(request) \in [Loops -> Request]
      BY <3>1 DEF Aborted, Loops, Request
    <3> QED
      BY <3>2 DEF Stop
  <2>2. beats' \in [Beats -> {"off", "sleep", "flight", "leaving"}]
    BY DEF SessionInv, TypeOK, Stop
  <2> QED
    BY <2>1, <2>2 DEF SessionInv, TypeOK, Stop, Request, master
<1>2. MainToken'
  BY DEF SessionInv, MainToken, Stop, Aborted, Verdict
<1>3. BeatTokens'
  BY DEF SessionInv, BeatTokens, Stop, Aborted
<1>4. JobToken'
  BY DEF SessionInv, JobToken, Stop, Aborted
<1>5. ClaimsAreReported'
  BY DEF SessionInv, ClaimsAreReported, Stop, Aborted
<1>6. OneHeartbeat'
  BY DEF SessionInv, OneHeartbeat, Stop
<1>7. QED
  BY <1>1, <1>2, <1>3, <1>4, <1>5, <1>6 DEF SessionInv

(* The first request of a session is a report. *)
LEMMA AuthenticatedSound == ASSUME SessionInv, Authenticated PROVE SessionInv'
<1>1. TypeOK'
  BY SentType, IdleType DEF SessionInv, TypeOK, Authenticated, Loops, Beats, master, Request, Verdict
<1>2. MainToken'
  BY SentType DEF SessionInv, TypeOK, MainToken, Authenticated, master
<1>3. BeatTokens'
  BY DEF SessionInv, TypeOK, BeatTokens, Authenticated, Loops, Beats, master
<1>4. JobToken'
  BY DEF SessionInv, TypeOK, JobToken, Authenticated, Loops, master
<1>5. ClaimsAreReported'
  BY DEF ClaimsAreReported, Authenticated, master
<1>6. OneHeartbeat'
  BY DEF SessionInv, OneHeartbeat, Authenticated, master
<1>7. QED
  BY <1>1, <1>2, <1>3, <1>4, <1>5, <1>6 DEF SessionInv

(* Claims follow an accepted report, with one loop that beats. *)
LEMMA ReportedSound == ASSUME SessionInv, Reported PROVE SessionInv'
<1>1. TypeOK'
  BY SentType, IdleType DEF SessionInv, TypeOK, MainToken, Reported, Claims, TokenAfter,
     Loops, Request, master, Beats, Verdict
<1>2. MainToken'
  BY SentType DEF SessionInv, TypeOK, MainToken, Reported, Claims, TokenAfter, Loops,
     Request, master
<1>3. BeatTokens'
  BY DEF SessionInv, TypeOK, BeatTokens, Reported, Claims, Loops, Request, master, Beats, Verdict
<1>4. JobToken'
  BY DEF SessionInv, TypeOK, JobToken, Reported, Claims, Loops, Request, master
<1>5. ClaimsAreReported'
  BY SentType DEF SessionInv, TypeOK, MainToken, ClaimsAreReported, Reported, Claims, Loops,
     Request, master
<1>6. OneHeartbeat'
  BY DEF SessionInv, TypeOK, OneHeartbeat, Reported, Claims, Request, master
<1>7. QED
  BY <1>1, <1>2, <1>3, <1>4, <1>5, <1>6 DEF SessionInv

(* Claims go on with the token reported, and their end stops the loop that beats. *)
LEMMA ClaimedSound == ASSUME SessionInv, Claimed PROVE SessionInv'
<1>1. TypeOK'
  BY SentType, IdleType DEF SessionInv, TypeOK, Claimed, Claims, TokenAfter, Beats, Request,
     master
<1>2. MainToken'
  BY SentType DEF SessionInv, TypeOK, MainToken, Claimed, Claims, TokenAfter, Beats,
     Request, master
<1>3. BeatTokens'
  BY DEF SessionInv, TypeOK, BeatTokens, Claimed, Claims, Beats, Request, master, Loops, Verdict
<1>4. JobToken'
  BY DEF SessionInv, TypeOK, JobToken, Claimed, Claims, Beats, Request, master, Loops, Verdict
<1>5. ClaimsAreReported'
  BY SentType DEF SessionInv, TypeOK, MainToken, ClaimsAreReported, Claimed, Claims,
     TokenAfter, Beats, Request, master
<1>6. OneHeartbeat'
  BY DEF SessionInv, OneHeartbeat, Claimed, Claims, Beats, Request, master
<1>7. QED
  BY <1>1, <1>2, <1>3, <1>4, <1>5, <1>6 DEF SessionInv

(* A heartbeat. *)
LEMMA BeatSound == ASSUME SessionInv, NEW b \in Beats, Beat(b) PROVE SessionInv'
<1>1. TypeOK'
  BY SentType DEF SessionInv, TypeOK, Beat, Request, Loops, Beats, master
<1>2. MainToken'
  BY DEF SessionInv, TypeOK, MainToken, Beat, Verdict, Loops, Beats
<1>3. BeatTokens'
  BY SentType DEF SessionInv, TypeOK, BeatTokens, Beat, Loops, Beats
<1>4. JobToken'
  BY DEF SessionInv, TypeOK, JobToken, Beat, Loops, Beats
<1>5. ClaimsAreReported'
  BY DEF SessionInv, TypeOK, ClaimsAreReported, Beat, Loops, Beats
<1>6. OneHeartbeat'
  BY DEF SessionInv, TypeOK, OneHeartbeat, Beat
<1>7. QED
  BY <1>1, <1>2, <1>3, <1>4, <1>5, <1>6 DEF SessionInv

(* The answer of a heartbeat. *)
LEMMA BeatAnsweredSound == ASSUME SessionInv, NEW b \in Beats, BeatAnswered(b) PROVE SessionInv'
<1>1. TypeOK'
  BY IdleType DEF SessionInv, TypeOK, BeatTokens, BeatAnswered, Aborted, TokenAfter, Beats,
     master, Request, Loops, Verdict
<1>2. MainToken'
  BY DEF SessionInv, TypeOK, MainToken, BeatAnswered, Aborted, Verdict, TokenAfter, Loops,
     Beats, master
<1>3. BeatTokens'
  BY DEF SessionInv, TypeOK, BeatTokens, BeatAnswered, Aborted, Loops, master
<1>4. JobToken'
  BY DEF SessionInv, TypeOK, JobToken, BeatAnswered, Aborted, Loops, Beats, master
<1>5. ClaimsAreReported'
  BY DEF SessionInv, TypeOK, ClaimsAreReported, BeatAnswered, Aborted, Loops, Beats, master
<1>6. OneHeartbeat'
  BY DEF SessionInv, OneHeartbeat, BeatAnswered, master
<1>7. QED
  BY <1>1, <1>2, <1>3, <1>4, <1>5, <1>6 DEF SessionInv

(* A result is reported. *)
LEMMA JobReportsSound == ASSUME SessionInv, JobReports PROVE SessionInv'
<1>1. TypeOK'
  BY SentType DEF SessionInv, TypeOK, JobReports, Request, Loops, Beats, master
<1>2. MainToken'
  BY DEF SessionInv, TypeOK, MainToken, JobReports, Verdict, Loops
<1>3. BeatTokens'
  BY DEF SessionInv, TypeOK, BeatTokens, JobReports, Loops, Beats
<1>4. JobToken'
  BY DEF JobToken, JobReports
<1>5. ClaimsAreReported'
  BY DEF SessionInv, TypeOK, ClaimsAreReported, JobReports, Loops
<1>6. OneHeartbeat'
  BY DEF SessionInv, OneHeartbeat, JobReports
<1>7. QED
  BY <1>1, <1>2, <1>3, <1>4, <1>5, <1>6 DEF SessionInv

(* The answer to a result. *)
LEMMA JobAnsweredSound == ASSUME SessionInv, JobAnswered PROVE SessionInv'
<1>1. TypeOK'
  BY IdleType DEF SessionInv, TypeOK, JobAnswered, TokenAfter, Request, Loops, Beats, master
<1>2. MainToken'
  BY DEF SessionInv, MainToken, JobAnswered, Verdict, TokenAfter
<1>3. BeatTokens'
  BY DEF SessionInv, BeatTokens, JobAnswered, Beats
<1>4. JobToken'
  BY DEF JobToken, JobAnswered
<1>5. ClaimsAreReported'
  BY DEF SessionInv, ClaimsAreReported, JobAnswered
<1>6. OneHeartbeat'
  BY DEF SessionInv, OneHeartbeat, JobAnswered
<1>7. QED
  BY <1>1, <1>2, <1>3, <1>4, <1>5, <1>6 DEF SessionInv

(* A changed plugin is reported. *)
LEMMA SnapshotChangedSound == ASSUME SessionInv, SnapshotChanged PROVE SessionInv'
<1>1. TypeOK'
  BY SentType DEF SessionInv, TypeOK, SnapshotChanged, master, Request, Loops, Beats, Verdict
<1>2. MainToken'
  BY DEF SessionInv, MainToken, SnapshotChanged, Verdict, master
<1>3. BeatTokens'
  BY DEF SessionInv, BeatTokens, SnapshotChanged, Beats, master
<1>4. JobToken'
  BY SentType DEF SessionInv, TypeOK, JobToken, SnapshotChanged, Loops, master
<1>5. ClaimsAreReported'
  BY DEF SessionInv, ClaimsAreReported, SnapshotChanged, master
<1>6. OneHeartbeat'
  BY DEF SessionInv, OneHeartbeat, SnapshotChanged, master
<1>7. QED
  BY <1>1, <1>2, <1>3, <1>4, <1>5, <1>6 DEF SessionInv

(* The answer to it. *)
LEMMA SnapshotAnsweredSound == ASSUME SessionInv, SnapshotAnswered PROVE SessionInv'
<1>1. TypeOK'
  BY IdleType DEF SessionInv, TypeOK, JobToken, SnapshotAnswered, TokenAfter, Request, Loops, Beats, master
<1>2. MainToken'
  BY DEF SessionInv, MainToken, SnapshotAnswered, Verdict, TokenAfter
<1>3. BeatTokens'
  BY DEF SessionInv, BeatTokens, SnapshotAnswered, Beats
<1>4. JobToken'
  BY DEF JobToken, SnapshotAnswered
<1>5. ClaimsAreReported'
  BY DEF SessionInv, ClaimsAreReported, SnapshotAnswered
<1>6. OneHeartbeat'
  BY DEF SessionInv, OneHeartbeat, SnapshotAnswered
<1>7. QED
  BY <1>1, <1>2, <1>3, <1>4, <1>5, <1>6 DEF SessionInv

(* The Master judges a request, or issues a session. *)
LEMMA ServeSound == ASSUME SessionInv, NEW l \in Loops, Serve(l) PROVE SessionInv'
<1>1. TypeOK'
  BY SessionAssumption DEF SessionInv, TypeOK, Serve, Tokens, master
<1>2. MainToken'
  BY SessionAssumption DEF SessionInv, TypeOK, MainToken, Serve, Tokens, Verdict, Loops,
     master
<1>3. BeatTokens'
  BY DEF SessionInv, TypeOK, BeatTokens, Serve, Loops, Beats, master
<1>4. JobToken'
  BY DEF SessionInv, TypeOK, JobToken, Serve, Loops, master
<1>5. ClaimsAreReported'
  BY DEF SessionInv, TypeOK, ClaimsAreReported, Serve, Loops, master
<1>6. OneHeartbeat'
  BY DEF SessionInv, OneHeartbeat, Serve, master
<1>7. QED
  BY <1>1, <1>2, <1>3, <1>4, <1>5, <1>6 DEF SessionInv

(* A request is lost. *)
LEMMA LoseSound == ASSUME SessionInv, NEW l \in Loops, Lose(l) PROVE SessionInv'
<1>1. TypeOK'
  BY SessionAssumption DEF SessionInv, TypeOK, Lose
<1>2. MainToken'
  BY DEF SessionInv, MainToken, Lose, Verdict
<1>3. BeatTokens'
  BY DEF SessionInv, BeatTokens, Lose
<1>4. JobToken'
  BY DEF SessionInv, JobToken, Lose
<1>5. ClaimsAreReported'
  BY DEF SessionInv, ClaimsAreReported, Lose
<1>6. OneHeartbeat'
  BY DEF SessionInv, OneHeartbeat, Lose
<1>7. QED
  BY <1>1, <1>2, <1>3, <1>4, <1>5, <1>6 DEF SessionInv

(* Sessions end at the Master. *)
LEMMA ExpireSound == ASSUME SessionInv, Expire \/ Unblock PROVE SessionInv'
<1>1. valid' \subseteq valid /\ blocked' \in BOOLEAN
  BY DEF Expire, Unblock, master, SessionInv, TypeOK
<1>2. expired' \in 0 .. MaxExpired
  BY SessionAssumption DEF Expire, Unblock, master, SessionInv, TypeOK
<1>3. UNCHANGED <<running, main, token, request, beats, job, reported, issued, lost>>
  BY DEF Expire, Unblock
<1>4. QED
  BY <1>1, <1>2, <1>3 DEF SessionInv, TypeOK, MainToken, BeatTokens, JobToken,
                          ClaimsAreReported, OneHeartbeat, Verdict

(* Every step of the Worker, the Master and the network. *)
LEMMA StepSound == ASSUME SessionInv, [Next]_vars PROVE SessionInv'
<1>1. CASE MainStep
  BY <1>1, BootSound, LoopSound, AuthenticatedSound, ReportedSound, ClaimedSound, AwakeSound
     DEF MainStep
<1>2. CASE Stop \/ Expire \/ Unblock \/ SnapshotChanged
  BY <1>2, StopSound, ExpireSound, SnapshotChangedSound
<1>3. CASE JobStep
  BY <1>3, JobReportsSound, JobAnsweredSound, SnapshotAnsweredSound DEF JobStep
<1>4. CASE \E b \in Beats : BeatStep(b)
  BY <1>4, BeatSound, BeatAnsweredSound DEF BeatStep
<1>5. CASE \E l \in Loops : Serve(l) \/ Lose(l)
  BY <1>5, ServeSound, LoseSound
<1>6. CASE UNCHANGED vars
  BY <1>6 DEF vars, SessionInv, TypeOK, MainToken, BeatTokens, JobToken, ClaimsAreReported,
              OneHeartbeat, Verdict
<1>7. QED
  BY <1>1, <1>2, <1>3, <1>4, <1>5, <1>6 DEF Next

-----------------------------------------------------------------------------
(* The invariant holds in every state of the specification. *)
THEOREM SessionIsSound == Spec => []SessionInv
<1>1. QED
  BY InitSound, StepSound, PTL DEF Spec

(* Every variable keeps its type. *)
THEOREM SessionIsTyped == Spec => []TypeOK
<1>1. SessionInv => TypeOK
  BY DEF SessionInv
<1>2. QED
  BY <1>1, SessionIsSound, PTL

(* A claim carries a token for which the Master has accepted a runtime report. *)
THEOREM NoClaimWithoutReport == Spec => []ClaimsAreReported
<1>1. SessionInv => ClaimsAreReported
  BY DEF SessionInv
<1>2. QED
  BY <1>1, SessionIsSound, PTL

(* At most one heartbeat loop beats, and only while the main loop claims. *)
THEOREM OneLoopBeats == Spec => []OneHeartbeat
<1>1. SessionInv => OneHeartbeat
  BY DEF SessionInv
<1>2. QED
  BY <1>1, SessionIsSound, PTL
=============================================================================
