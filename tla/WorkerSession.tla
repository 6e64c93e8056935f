---------------------------- MODULE WorkerSession ----------------------------
(***************************************************************************)
(* The connection of a running Worker with its Master: WorkerRunner.run,   *)
(* the main loop and the heartbeat loops of worker/src/runner.ts, over the *)
(* requests of worker/src/master-client.ts.                                *)
(*                                                                         *)
(* All of them share one session token.  A request takes the token when it *)
(* is sent; the Master serves it; the answer may come when the Worker has  *)
(* a new token already, and a refusal forgets the token of that moment.    *)
(* Durations (back-off, intervals) are left out: a timer fires some time.  *)
(***************************************************************************)
EXTENDS Naturals, FiniteSets

CONSTANTS
    MaxTokens,   \* bound on the sessions the Master issues
    MaxExpired,  \* bound on the sessions that end at the Master
    MaxLost      \* bound on requests without an answer (15 s, 5xx, network)

ASSUME SessionAssumption == MaxTokens \in Nat /\ MaxExpired \in Nat /\ MaxLost \in Nat

Tokens == 1 .. MaxTokens
None == 0

VARIABLES
    running,     \* _running, with the abort signal of stop()
    main,        \* where run() and _mainLoop are
    token,       \* _sessionToken, None when empty
    request,     \* what each loop has under way: its token and its verdict
    beats,       \* heartbeat loops: "off", "sleep", "flight" or, their session
                 \* of claims being over, "leaving"
    job,         \* the result of a task: "none", "due", "flight", "delivered", or
                 \* "dropped"; or the report of a changed plugin, "snapshot"
    reported,    \* history: the tokens a runtime report was accepted for
    valid,       \* Master: the sessions that live
    issued, blocked, expired, lost  \* Master: sessions issued, Worker blocked

vars == <<running, main, token, request, beats, job, reported, valid, issued, blocked,
          expired, lost>>
master == <<valid, issued, blocked, expired, lost>>

Beats == {"beat1", "beat2"}  \* a bound: one loop beats, one may be leaving
Loops == {"main", "job"} \cup Beats
Idle == [tok |-> None, verdict |-> "none"]
Sent(t) == [tok |-> t, verdict |-> "sent"]
Verdict(l) == request[l].verdict
Answered(l) == Verdict(l) \in {"ok", "denied", "lost"}

NoReport == job \in {"none", "delivered", "dropped"}

\* _claimAbort.abort(): the claim under way ends without an answer.
Aborted(r) == IF main = "claim" THEN [r EXCEPT !["main"].verdict = "lost"] ELSE r

\* A mutant: a refusal leaves the token.
TokenKept(l) == token

\* 401 and 403 empty the token, whatever token the request was sent with.
TokenAfter(l) == IF Verdict(l) = "denied" THEN None ELSE token

Init ==
    /\ running = TRUE /\ main = "init" /\ token = None
    /\ request = [l \in Loops |-> Idle]
    /\ beats = [b \in Beats |-> "off"] /\ job = "none"
    /\ reported = {} /\ valid = {} /\ issued = 0 /\ blocked = FALSE
    /\ expired = 0 /\ lost = 0

(***************************************************************************)
(* run(): _init loads the plugins, then the main loop until stop().        *)
(***************************************************************************)
Boot ==
    /\ main = "init"
    /\ \E failed \in BOOLEAN : main' = IF failed \/ ~running THEN "stopped" ELSE "loop"
    /\ UNCHANGED <<running, token, request, beats, job, reported, master>>

\* stop(), by a signal or by the stop command.
Stop ==
    /\ running /\ main # "stopped"
    /\ running' = FALSE
    /\ request' = Aborted(request)
    /\ beats' = [b \in Beats |-> IF beats[b] = "sleep" THEN "off" ELSE beats[b]]
    /\ UNCHANGED <<main, token, job, reported, master>>

\* A mutant: the loop does not look at _running.
LoopForever ==
    /\ main = "loop"
    /\ \/ token = None /\ main' = "auth" /\ request' = [request EXCEPT !["main"] = Sent(None)]
       \/ token # None /\ main' = "report" /\ request' = [request EXCEPT !["main"] = Sent(token)]
    /\ UNCHANGED <<running, token, beats, job, reported, master>>

\* The top of the main loop: authenticate without a token, then report.
Loop ==
    /\ main = "loop"
    /\ \/ ~running /\ main' = "stopped" /\ request' = request
       \/ running /\ token = None /\ main' = "auth"
          /\ request' = [request EXCEPT !["main"] = Sent(None)]
       \/ running /\ token # None /\ main' = "report"
          /\ request' = [request EXCEPT !["main"] = Sent(token)]
    /\ UNCHANGED <<running, token, beats, job, reported, master>>

\* A mutant: a new session claims at once, without a report.
AuthenticatedClaims ==
    /\ main = "auth" /\ Answered("main")
    /\ IF Verdict("main") = "ok"
       THEN /\ token' = request["main"].tok /\ main' = "claim"
            /\ request' = [request EXCEPT !["main"] = Sent(token')]
       ELSE /\ token' = token /\ main' = "sleep"
            /\ request' = [request EXCEPT !["main"] = Idle]
    /\ UNCHANGED <<running, beats, job, reported, master>>

\* authenticate: the challenge and the session; on success the report follows
\* at once, on failure a sleep.
Authenticated ==
    /\ main = "auth" /\ Answered("main")
    /\ IF Verdict("main") = "ok"
       THEN /\ token' = request["main"].tok /\ main' = "report"
            /\ request' = [request EXCEPT !["main"] = Sent(token')]
       ELSE /\ token' = token /\ main' = "sleep"
            /\ request' = [request EXCEPT !["main"] = Idle]
    /\ UNCHANGED <<running, beats, job, reported, master>>

\* A mutant: the heartbeat loop is not told that the claims are over.
ClaimsNoStop(t, going, r, b) ==
    IF going /\ t # None
    THEN main' = "claim" /\ beats' = b /\ request' = [r EXCEPT !["main"] = Sent(t)]
    ELSE /\ main' = IF running THEN "sleep" ELSE "loop"
         /\ beats' = b /\ request' = [r EXCEPT !["main"] = Idle]

\* The condition of the claim loop, then a claim; without it the session of
\* claims is over, its heartbeat loop is told, and the main loop sleeps.
Claims(t, going, r, b) ==
    IF going /\ t # None
    THEN /\ main' = "claim" /\ beats' = b
         /\ request' = [r EXCEPT !["main"] = Sent(t)]
    ELSE /\ main' = IF running THEN "sleep" ELSE "loop"
         /\ beats' = [k \in Beats |-> IF b[k] = "sleep" THEN "off"
                                      ELSE IF b[k] = "flight" THEN "leaving" ELSE b[k]]
         /\ request' = [r EXCEPT !["main"] = Idle]

\* reportRuntime of the main loop: accepted, the heartbeat loop starts and the
\* claims; refused, the main loop starts over at once; otherwise it sleeps.
Reported ==
    /\ main = "report" /\ Answered("main")
    /\ token' = TokenAfter("main")
    /\ IF Verdict("main") = "ok"
       THEN /\ reported' = reported \cup {request["main"].tok}
            /\ LET on == running /\ token # None IN
               \/ on /\ \E k \in Beats : beats[k] = "off"
                           /\ Claims(token, TRUE, request, [beats EXCEPT ![k] = "sleep"])
               \/ ~on /\ Claims(token, running, request, beats)
       ELSE /\ main' = IF token' = None THEN "loop" ELSE "sleep"
            /\ request' = [request EXCEPT !["main"] = Idle]
            /\ UNCHANGED <<beats, reported>>
    /\ UNCHANGED <<running, job, master>>

\* claimJobs: jobs start their handlers and the next claim is sent; no answer
\* ends the session of claims.
Claimed ==
    /\ main = "claim" /\ Answered("main")
    /\ token' = TokenAfter("main")
    /\ LET going == running /\ Verdict("main") = "ok" IN
       /\ Claims(token', going, request, beats)
       /\ \/ job' = job
          \/ going /\ NoReport /\ job' = "due"
    /\ UNCHANGED <<running, reported, master>>

Awake ==
    /\ main = "sleep"
    /\ main' = "loop"
    /\ UNCHANGED <<running, token, request, beats, job, reported, master>>

(***************************************************************************)
(* The heartbeat loops: one that was told to leave while its report is     *)
(* under way still handles the answer.                                     *)
(***************************************************************************)
Beat(b) ==
    /\ beats[b] = "sleep"
    /\ \/ running /\ token # None
          /\ beats' = [beats EXCEPT ![b] = "flight"]
          /\ request' = [request EXCEPT ![b] = Sent(token)]
       \/ token = None /\ beats' = [beats EXCEPT ![b] = "off"] /\ request' = request
    /\ UNCHANGED <<running, main, token, job, reported, master>>

BeatAnswered(b) ==
    /\ beats[b] \in {"flight", "leaving"} /\ Answered(b)
    /\ token' = TokenAfter(b)
    /\ beats' = [beats EXCEPT ![b] =
                   IF running /\ token' # None /\ @ = "flight" THEN "sleep" ELSE "off"]
    /\ LET r == [request EXCEPT ![b] = Idle] IN
       request' = IF Verdict(b) # "ok" /\ token' = None THEN Aborted(r) ELSE r
    /\ reported' = IF Verdict(b) = "ok" THEN reported \cup {request[b].tok} ELSE reported
    /\ UNCHANGED <<running, main, job, master>>

(***************************************************************************)
(* _reportTaskResult: retried until the Master has answered for good, with *)
(* or without taking the result ("ok"), or until stop().                   *)
(***************************************************************************)
JobReports ==
    /\ job = "due"
    /\ \/ ~running /\ job' = "dropped" /\ request' = request
       \/ running /\ token # None /\ job' = "flight"
          /\ request' = [request EXCEPT !["job"] = Sent(token)]
    /\ UNCHANGED <<running, main, token, beats, reported, master>>

\* A mutant: a report is sent once.
JobAnsweredOnce ==
    /\ job = "flight" /\ Answered("job")
    /\ token' = TokenAfter("job")
    /\ request' = [request EXCEPT !["job"] = Idle]
    /\ job' = IF Verdict("job") = "ok" THEN "delivered" ELSE "dropped"
    /\ UNCHANGED <<running, main, beats, reported, master>>

JobAnswered ==
    /\ job = "flight" /\ Answered("job")
    /\ token' = TokenAfter("job")
    /\ request' = [request EXCEPT !["job"] = Idle]
    /\ job' = IF Verdict("job") = "ok" THEN "delivered" ELSE "due"
    /\ UNCHANGED <<running, main, beats, reported, master>>

\* A plugin changed its state: its snapshot is reported once, for good or bad.
SnapshotChanged ==
    /\ running /\ token # None /\ main # "stopped" /\ NoReport
    /\ job' = "snapshot"
    /\ request' = [request EXCEPT !["job"] = Sent(token)]
    /\ UNCHANGED <<running, main, token, beats, reported, master>>

SnapshotAnswered ==
    /\ job = "snapshot" /\ Answered("job")
    /\ token' = TokenAfter("job")
    /\ request' = [request EXCEPT !["job"] = Idle]
    /\ job' = "none"
    /\ reported' = IF Verdict("job") = "ok" THEN reported \cup {request["job"].tok}
                   ELSE reported
    /\ UNCHANGED <<running, main, beats, master>>

(***************************************************************************)
(* The Master and the network.                                             *)
(***************************************************************************)
\* A request is judged by the session it carries; authentication succeeds
\* unless the Worker is blocked, and issues a session.
Serve(l) ==
    /\ Verdict(l) = "sent"
    /\ IF l = "main" /\ main = "auth"
       THEN \/ /\ blocked
               /\ request' = [request EXCEPT ![l].verdict = "denied"]
               /\ UNCHANGED <<valid, issued>>
            \/ /\ ~blocked /\ issued < MaxTokens
               /\ issued' = issued + 1 /\ valid' = valid \cup {issued'}
               /\ request' = [request EXCEPT ![l] = [tok |-> issued', verdict |-> "ok"]]
       ELSE /\ request' = [request EXCEPT
                    ![l].verdict = IF request[l].tok \in valid THEN "ok" ELSE "denied"]
            /\ UNCHANGED <<valid, issued>>
    /\ UNCHANGED <<running, main, token, beats, job, reported, blocked, expired, lost>>

\* The request or its answer is lost, or the Master fails.
Lose(l) ==
    /\ Verdict(l) \in {"sent", "ok", "denied"} /\ lost < MaxLost
    /\ lost' = lost + 1
    /\ request' = [request EXCEPT ![l].verdict = "lost"]
    /\ UNCHANGED <<running, main, token, beats, job, reported, valid, issued, blocked,
                   expired>>

\* Sessions expire, one or, when the Worker is blocked, all of them.
Expire ==
    /\ expired < MaxExpired /\ expired' = expired + 1
    /\ \/ \E t \in valid : valid' = valid \ {t} /\ blocked' = blocked
       \/ ~blocked /\ valid' = {} /\ blocked' = TRUE
    /\ UNCHANGED <<running, main, token, request, beats, job, reported, issued, lost>>

Unblock ==
    /\ blocked /\ blocked' = FALSE
    /\ UNCHANGED <<running, main, token, request, beats, job, reported, valid, issued,
                   expired, lost>>

(***************************************************************************)
(* The next-state relation.  Node runs what is due, timers fire, and every *)
(* request ends, at the latest by its own deadline.                        *)
(***************************************************************************)
MainStep == Boot \/ Loop \/ Authenticated \/ Reported \/ Claimed \/ Awake
JobStep == JobReports \/ JobAnswered \/ SnapshotAnswered
BeatStep(b) == Beat(b) \/ BeatAnswered(b)

Next ==
    \/ MainStep \/ Stop \/ JobStep \/ Expire \/ Unblock
    \/ SnapshotChanged
    \/ \E b \in Beats : BeatStep(b)
    \/ \E l \in Loops : Serve(l) \/ Lose(l)

Fairness ==
    /\ WF_vars(MainStep) /\ WF_vars(JobStep)
    /\ \A b \in Beats : WF_vars(BeatStep(b))
    /\ \A l \in Loops : WF_vars(Serve(l))

Spec == Init /\ [][Next]_vars /\ Fairness
-----------------------------------------------------------------------------
TypeOK ==
    /\ running \in BOOLEAN /\ blocked \in BOOLEAN
    /\ main \in {"init", "loop", "auth", "report", "claim", "sleep", "stopped"}
    /\ token \in Tokens \cup {None}
    /\ request \in [Loops -> [tok : Tokens \cup {None},
                              verdict : {"none", "sent", "ok", "denied", "lost"}]]
    /\ beats \in [Beats -> {"off", "sleep", "flight", "leaving"}]
    /\ job \in {"none", "due", "flight", "delivered", "dropped", "snapshot"}
    /\ reported \subseteq Tokens /\ valid \subseteq Tokens
    /\ issued \in 0 .. MaxTokens /\ expired \in 0 .. MaxExpired /\ lost \in 0 .. MaxLost

\* Jobs are claimed only in a session for which the Master has accepted the
\* Worker's plugins: the Master never places a task by the plugins of an
\* earlier life of the Worker.
ClaimsAreReported == main = "claim" => request["main"].tok \in reported

\* Heartbeats of two sessions of claims never go on side by side: at most one
\* loop beats, and none when no claim is under way.
OneHeartbeat ==
    /\ \A a, b \in Beats : beats[a] \in {"sleep", "flight"} /\ beats[b] \in {"sleep", "flight"}
                              => a = b
    /\ \A b \in Beats : beats[b] \in {"sleep", "flight"} => main = "claim"

\* The Worker runs, its plugins loaded, and the Master has not blocked it.
Served == running /\ main # "stopped" /\ ~blocked

\* Once the Master answers and the Worker is not blocked any more, the Worker
\* gets a session that stays and claims in it for good: refusals of requests of
\* earlier sessions, which take new tokens along, do not go on for ever.
SessionSettles ==
    <>[]Served => <>[](token \in valid) /\ []<>(main = "claim")

\* The result of a task gets to the Master, over refusals, lost answers and new
\* sessions, unless the Worker is stopped or blocked.
ResultsGetThrough ==
    <>[]Served => (job = "due" ~> job = "delivered")

\* A Worker told to stop ends, whatever it is doing.
ShutdownEnds == ~running ~> main = "stopped"
=============================================================================
