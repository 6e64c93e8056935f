------------------------------ MODULE Dashboard ------------------------------
(***************************************************************************)
(* One browser tab of the Dashboard and its Master: the session in the     *)
(* tab's storage, the login form, the pages with their loads and timers,   *)
(* one action of the user at a time, and the stream of events that         *)
(* refreshes the pages (master-client.ts, master-connection.tsx and the    *)
(* components; httpapi/events.go and dashboard_bus.go for the Master).     *)
(*                                                                         *)
(* What a page lists is a version number: the Master's data has a version, *)
(* a list shows the version at which it was read.                          *)
(***************************************************************************)
EXTENDS Naturals, FiniteSets

CONSTANTS
    Shown,       \* the pages the user goes to
    Loads,       \* slots for the loads under way at once, a bound
    ChanCap,     \* events that wait for one subscriber (64)
    MaxHappenings \* bound on what the user, others and the network do

ASSUME DashboardAssumption ==
    /\ ChanCap \in Nat \ {0} /\ MaxHappenings \in Nat
    /\ Loads \cap {"auth", "op", "stream"} = {}

VARIABLES
    page, view, due,        \* the page, the version it shows, a load that is due
    stored,                 \* a session is in sessionStorage
    form, leaving,          \* the login form; logging out
    call,                   \* the requests under way
    op, late,               \* the user's action under way; its deadline has passed
    conn, had,              \* the connection effect; hadConnected
    valid, active,          \* Master: the session lives; the account is active
    data,                   \* Master: version of what the page in view lists
    stream, chan,           \* Master: the subscription; events that wait in it
    happened,
    owed                    \* history: an event no load has been sent after

tab == <<page, view, due, stored, form, leaving>>
action == <<op, late>>
link == <<conn, had, stream, chan>>
account == <<valid, active>>
vars == <<tab, call, action, link, account, data, happened, owed>>

(***************************************************************************)
(* The operations of MasterClient: who may call them and what is done with *)
(* a good answer: a list or a record is read, the list in view is edited   *)
(* or loaded again, nothing is, or the task that was created is polled.    *)
(***************************************************************************)
Operation(name, adminOnly, then) == [name |-> name, admin |-> adminOnly, then |-> then]

GetMeta == Operation("meta", FALSE, "read")
Login == Operation("login", FALSE, "read")            \* or registerUser
GetCurrentUser == Operation("me", FALSE, "read")
Logout == Operation("logout", FALSE, "nothing")
OpenUserEventStream == Operation("events", FALSE, "read")
ListWorkers == Operation("workers", FALSE, "read")
ListUsers == Operation("users", TRUE, "read")
ListInvitations == Operation("invitations", TRUE, "read")
ListClientTokens == Operation("tokens", FALSE, "read")
GetTask == Operation("task", FALSE, "read")
RevokeWorker == Operation("revokeWorker", FALSE, "edit")
SetWorkerPluginEnabled == Operation("toggle", FALSE, "poll")
InstallPluginToWorker == Operation("install", FALSE, "poll")
SetUserStatus == Operation("setUserStatus", TRUE, "edit")
DeleteUser == Operation("deleteUser", TRUE, "edit")
CreateInvitation == Operation("createInvitation", TRUE, "edit")
RevokeInvitation == Operation("revokeInvitation", TRUE, "edit")
SetClientTokenStatus == Operation("setTokenStatus", FALSE, "edit")
RevokeClientToken == Operation("revokeToken", FALSE, "edit")
CreateClientToken == Operation("createToken", FALSE, "reload")
CreateWorkerRegistration == Operation("createRegistration", FALSE, "nothing")

(***************************************************************************)
(* The pages: what each lists, whether it loads every minute, whether it   *)
(* loads on events, and what its user can do.                              *)
(***************************************************************************)
Page(name, adminOnly, list, polls, follows, ops) ==
    [name |-> name, admin |-> adminOnly, list |-> list, polls |-> polls,
     follows |-> follows, ops |-> ops]

Overview == Page("overview", FALSE, ListWorkers, TRUE, TRUE, {})
WorkerList == Page("workers", FALSE, ListWorkers, TRUE, TRUE,
                   {SetWorkerPluginEnabled, RevokeWorker})
PluginCenter == Page("plugins", FALSE, ListWorkers, TRUE, TRUE, {SetWorkerPluginEnabled})
Marketplace == Page("marketplace", FALSE, ListWorkers, TRUE, TRUE, {InstallPluginToWorker})
AdminUserList == Page("accounts", TRUE, ListUsers, FALSE, TRUE, {SetUserStatus, DeleteUser})
AdminInvitationList == Page("invitations", TRUE, ListInvitations, FALSE, TRUE,
                            {CreateInvitation, RevokeInvitation})
Access == Page("access", FALSE, ListClientTokens, FALSE, FALSE,
               {SetClientTokenStatus, RevokeClientToken, CreateClientToken,
                CreateWorkerRegistration})
LoginForm == Page("login", FALSE, GetMeta, FALSE, FALSE, {})

Pages == {Overview, WorkerList, PluginCenter, Marketplace, AdminUserList,
          AdminInvitationList, Access}
SignedIn == page # LoginForm

ASSUME ShownAssumption == Shown \subseteq Pages

(***************************************************************************)
(* Requests.  mine: the page that sent the request is still there.         *)
(***************************************************************************)
Calls == Loads \cup {"auth", "op", "stream"}
Idle == [ask |-> GetMeta, verdict |-> "none", seen |-> 0, mine |-> FALSE]
Sent(o) == [ask |-> o, verdict |-> "sent", seen |-> 0, mine |-> TRUE]
Again(c, o) == [Sent(o) EXCEPT !.mine = call[c].mine]
Paused(c) == [Idle EXCEPT !.mine = call[c].mine]
Quiet(c) == call[c].verdict = "none"
Answered(c) == ~Quiet(c) /\ call[c].verdict # "sent"
Verdict(c) == call[c].verdict
Ok(c) == Verdict(c) = "ok"

\* isSessionInvalidError: 401, or 403 with the code user_disabled.
IsSessionInvalid(c) == Verdict(c) \in {"unauthorized", "disabled"}

\* The session in storage: saveMasterSession, clearMasterSession, and
\* loadMasterSession, for which a session past its time is none.
SaveMasterSession == stored' = TRUE
ClearMasterSession == stored' = FALSE
LoadMasterSession(there) == there \in {stored, stored /\ valid}

\* What the user starts, others change or the network does counts.
Happens == happened < MaxHappenings /\ happened' = happened + 1

NoVersion == MaxHappenings + 1   \* nothing is shown yet

Init ==
    /\ page = LoginForm /\ view = NoVersion /\ due = FALSE
    /\ stored = FALSE /\ form = "origin" /\ leaving = FALSE
    /\ call = [c \in Calls |-> Idle] /\ op = "none" /\ late = FALSE
    /\ conn = "closed" /\ had = FALSE
    /\ valid = FALSE /\ active = TRUE /\ data = 0
    /\ stream = "none" /\ chan = 0
    /\ happened = 0 /\ owed = FALSE

(***************************************************************************)
(* Getting from page to page.                                              *)
(***************************************************************************)
\* A new connection effect: its predecessor's stream is aborted.
FreshLink == conn' = "closed" /\ had' = FALSE /\ stream' = "none" /\ chan' = 0

\* window.location: the document is loaded anew and takes nothing along.
Reload ==
    /\ page' = LoginForm /\ view' = NoVersion /\ due' = FALSE
    /\ form' = "origin" /\ leaving' = FALSE
    /\ call' = [c \in Calls |-> Idle] /\ op' = "none" /\ late' = FALSE
    /\ owed' = FALSE
    /\ FreshLink

\* A mutant: the router goes to the login page, requests go on.
LeaveByRouter ==
    /\ page' = LoginForm /\ view' = NoVersion /\ due' = FALSE
    /\ form' = "origin" /\ leaving' = FALSE
    /\ call' = [c \in Calls |-> IF c \in Loads /\ ~Answered(c) THEN call[c] ELSE Idle]
    /\ op' = "none" /\ late' = FALSE /\ owed' = FALSE
    /\ FreshLink /\ stored' = FALSE

\* redirectToLogin: clearMasterSession, then the login page.
RedirectToLogin == ClearMasterSession /\ Reload

\* The page p appears without a new document: its load and its connection
\* start, requests of the page before go on.
Appear(p, c) ==
    /\ page' = p /\ view' = NoVersion /\ due' = TRUE /\ owed' = FALSE
    /\ call' = [k \in Calls |-> IF k = "stream" THEN Idle ELSE [c[k] EXCEPT !.mine = FALSE]]
    /\ FreshLink

\* SessionPage: without a session to the login page; a page for
\* administrators sends others to the overview, in a new document.
Navigate(p) ==
    /\ SignedIn /\ p # page /\ Happens
    /\ \/ LoadMasterSession(FALSE) /\ RedirectToLogin
       \/ LoadMasterSession(TRUE) /\ Appear(p, call)
          /\ UNCHANGED <<stored, form, leaving, action>>
       \/ LoadMasterSession(TRUE) /\ p.admin /\ Appear(Overview, [c \in Calls |-> Idle])
          /\ op' = "none" /\ late' = FALSE /\ leaving' = FALSE /\ UNCHANGED <<stored, form>>
    /\ UNCHANGED <<account, data>>

\* The login page is opened with a session in storage: it is checked first.
OpenLogin ==
    /\ SignedIn /\ Happens
    /\ \/ LoadMasterSession(FALSE) /\ RedirectToLogin
       \/ /\ LoadMasterSession(TRUE)
          /\ page' = LoginForm /\ view' = NoVersion /\ due' = FALSE
          /\ form' = "checking" /\ leaving' = FALSE /\ owed' = FALSE
          /\ call' = [[c \in Calls |-> Idle] EXCEPT !["auth"] = Sent(GetCurrentUser)]
          /\ op' = "none" /\ late' = FALSE /\ FreshLink
          /\ stored' = stored
    /\ UNCHANGED <<account, data>>

(***************************************************************************)
(* The login form.  A request disables its buttons.                        *)
(***************************************************************************)
\* The check of a stored session: any failure clears it.
SessionChecked ==
    /\ form = "checking" /\ Answered("auth")
    /\ form' = "origin"
    /\ IF Ok("auth")
       THEN /\ Appear(Overview, [call EXCEPT !["auth"] = Idle])
            /\ stored' = stored
       ELSE /\ ClearMasterSession
            /\ call' = [call EXCEPT !["auth"] = Idle]
            /\ UNCHANGED <<page, view, due, owed, link>>
    /\ UNCHANGED <<leaving, action, account, data, happened>>

ConnectToMaster ==
    /\ ~SignedIn /\ form = "origin" /\ Quiet("auth")
    /\ call' = [call EXCEPT !["auth"] = Sent(GetMeta)]
    /\ UNCHANGED <<tab, action, link, account, data, happened, owed>>

Authenticate ==
    /\ ~SignedIn /\ form = "credentials" /\ Quiet("auth")
    /\ call' = [call EXCEPT !["auth"] = Sent(Login)]
    /\ UNCHANGED <<tab, action, link, account, data, happened, owed>>

\* The answers of both: a new session is saved once /me has answered for it.
FormAnswered ==
    /\ ~SignedIn /\ form # "checking" /\ Answered("auth")
    /\ LET ask == call["auth"].ask IN
       \/ /\ ~(Ok("auth") /\ ask \in {Login, GetCurrentUser})
          /\ form' = IF Ok("auth") THEN "credentials" ELSE form
          /\ call' = [call EXCEPT !["auth"] = Idle]
          /\ UNCHANGED <<page, view, due, stored, owed, link>>
       \/ /\ Ok("auth") /\ ask = Login
          /\ call' = [call EXCEPT !["auth"] = Sent(GetCurrentUser)]
          /\ UNCHANGED <<page, view, due, stored, form, owed, link>>
       \/ /\ Ok("auth") /\ ask = GetCurrentUser
          /\ SaveMasterSession
          /\ form' = "origin"
          /\ Appear(Overview, [call EXCEPT !["auth"] = Idle])
    /\ UNCHANGED <<leaving, action, account, data, happened>>

ResetConnection ==
    /\ form = "credentials" /\ form' = "origin"
    /\ UNCHANGED <<page, view, due, stored, leaving, call, action, link, account,
                   data, happened, owed>>

HandleLogout ==
    /\ SignedIn /\ ~leaving /\ Happens
    /\ \/ LoadMasterSession(FALSE) /\ RedirectToLogin
       \/ /\ LoadMasterSession(TRUE)
          /\ leaving' = TRUE /\ call' = [call EXCEPT !["auth"] = Sent(Logout)]
          /\ UNCHANGED <<page, view, due, stored, form, action, link, owed>>
    /\ UNCHANGED <<account, data>>

\* logout is best effort: whatever the answer, the session is cleared.
LoggedOut ==
    /\ leaving /\ Answered("auth")
    /\ RedirectToLogin
    /\ UNCHANGED <<account, data, happened>>

(***************************************************************************)
(* Loads.                                                                  *)
(***************************************************************************)
\* The effect of a page, for its first load, a refresh, the timer or a click.
Load(c) ==
    /\ due /\ Quiet(c)
    /\ due' = FALSE /\ owed' = FALSE
    /\ call' = [call EXCEPT ![c] = Sent(page.list)]
    /\ UNCHANGED <<page, view, stored, form, leaving, action, link, account, data, happened>>

\* A list arrives and is shown, whichever was asked for last; a dead session
\* leads to the login page, also when the page that asked is gone.
Loaded(c) ==
    /\ Answered(c)
    /\ IF IsSessionInvalid(c)
       THEN RedirectToLogin
       ELSE /\ view' = IF Ok(c) /\ call[c].mine THEN call[c].seen ELSE view
            /\ call' = [call EXCEPT ![c] = Idle]
            /\ UNCHANGED <<page, due, stored, form, leaving, action, link, owed>>
    /\ UNCHANGED <<account, data, happened>>

\* A mutant: the pages have no timer.
NoTimer == FALSE /\ UNCHANGED vars

\* The timer of the pages that have one.
Timer ==
    /\ page.polls /\ ~due /\ due' = TRUE
    /\ UNCHANGED <<page, view, stored, form, leaving, call, action, link, account,
                   data, happened, owed>>

(***************************************************************************)
(* The user's actions.                                                     *)
(***************************************************************************)
Act(o) ==
    /\ o \in page.ops /\ op = "none" /\ Happens
    /\ op' = "asked" /\ late' = FALSE
    /\ call' = [call EXCEPT !["op"] = Sent(o)]
    /\ UNCHANGED <<tab, link, account, data, owed>>

\* The list in view with one entry edited: current if it was current before.
Edited(c) == IF call[c].mine /\ view + 1 = call[c].seen THEN call[c].seen ELSE view

\* The answer to the request of an action.
Acted ==
    /\ op = "asked" /\ Answered("op")
    /\ LET then == call["op"].ask.then IN
       \/ IsSessionInvalid("op") /\ RedirectToLogin
       \/ /\ ~IsSessionInvalid("op")
          /\ op' = IF Ok("op") /\ then = "poll" THEN "waiting" ELSE "none"
          /\ view' = IF Ok("op") /\ then = "edit" THEN Edited("op") ELSE view
          /\ due' = (due \/ (Ok("op") /\ then = "reload" /\ call["op"].mine))
          /\ call' = [call EXCEPT !["op"] = Paused("op")]
          /\ UNCHANGED <<page, stored, form, leaving, late, link, owed>>
    /\ UNCHANGED <<account, data, happened>>

\* A mutant: the task is polled without a deadline.
PollForever ==
    /\ op = "waiting"
    /\ op' = "polling" /\ call' = [call EXCEPT !["op"] = Again("op", GetTask)]
    /\ UNCHANGED <<tab, late, link, account, data, happened, owed>>

\* The task is polled until it has ended or the deadline has passed.
Poll ==
    /\ op = "waiting"
    /\ IF late THEN op' = "none" /\ call' = call
       ELSE op' = "polling" /\ call' = [call EXCEPT !["op"] = Again("op", GetTask)]
    /\ UNCHANGED <<tab, late, link, account, data, happened, owed>>

\* A task that completed: the list is loaded within the action.
Polled ==
    /\ op = "polling" /\ Answered("op")
    /\ IF IsSessionInvalid("op") THEN RedirectToLogin
       ELSE /\ op' = IF ~Ok("op") \/ call["op"].seen = 2 THEN "none"
                     ELSE IF call["op"].seen = 0 THEN "waiting" ELSE "reload"
            /\ call' = [call EXCEPT !["op"] =
                          IF op' = "reload" THEN Again("op", ListWorkers) ELSE Paused("op")]
            /\ UNCHANGED <<tab, late, link, owed>>
    /\ UNCHANGED <<account, data, happened>>

Finished ==
    /\ op = "reload" /\ Answered("op")
    /\ IF IsSessionInvalid("op") THEN RedirectToLogin
       ELSE /\ op' = "none"
            /\ view' = IF Ok("op") /\ call["op"].mine THEN call["op"].seen ELSE view
            /\ call' = [call EXCEPT !["op"] = Idle]
            /\ UNCHANGED <<page, due, stored, form, leaving, late, link, owed>>
    /\ UNCHANGED <<account, data, happened>>

Deadline ==
    /\ op \in {"waiting", "polling"} /\ ~late /\ late' = TRUE
    /\ UNCHANGED <<tab, call, op, link, account, data, happened, owed>>

(***************************************************************************)
(* The stream of events.                                                   *)
(***************************************************************************)
\* The connection effect, and its retry after a pause.
OpenStream ==
    /\ SignedIn /\ conn = "closed"
    /\ conn' = "opening" /\ call' = [call EXCEPT !["stream"] = Sent(OpenUserEventStream)]
    /\ UNCHANGED <<tab, action, had, stream, chan, account, data, happened, owed>>

\* A mutant: a reconnection does not refresh.
StreamOpenedQuietly ==
    /\ conn = "opening" /\ Answered("stream")
    /\ IF IsSessionInvalid("stream") THEN RedirectToLogin
       ELSE /\ conn' = IF Ok("stream") THEN "open" ELSE "closed"
            /\ had' = (had \/ Ok("stream"))
            /\ call' = [call EXCEPT !["stream"] = Idle]
            /\ UNCHANGED <<tab, action, stream, chan, owed>>
    /\ UNCHANGED <<account, data, happened>>

\* The stream is there: every time but the first, the page is refreshed.
StreamOpened ==
    /\ conn = "opening" /\ Answered("stream")
    /\ IF IsSessionInvalid("stream") THEN RedirectToLogin
       ELSE /\ conn' = IF Ok("stream") THEN "open" ELSE "closed"
            /\ had' = (had \/ Ok("stream"))
            /\ due' = (due \/ (Ok("stream") /\ had /\ page.follows))
            /\ call' = [call EXCEPT !["stream"] = Idle]
            /\ UNCHANGED <<page, view, stored, form, leaving, action, stream, chan,
                           owed>>
    /\ UNCHANGED <<account, data, happened>>

\* An event, whatever it says, refreshes the page.
StreamEvent ==
    /\ conn = "open" /\ stream \in {"live", "ending"} /\ chan > 0
    /\ chan' = chan - 1 /\ due' = (due \/ page.follows)
    /\ UNCHANGED <<page, view, stored, form, leaving, call, action, conn, had, stream,
                   account, data, happened, owed>>

\* The stream ends: connect again after a pause.
StreamEnded ==
    /\ conn = "open" /\ stream = "ending" /\ chan = 0
    /\ conn' = "closed" /\ stream' = "none"
    /\ UNCHANGED <<tab, call, action, had, chan, account, data, happened, owed>>

\* No byte for 30 seconds, not even a ping: connect again.
Watchdog ==
    /\ conn = "open" /\ stream = "silent"
    /\ conn' = "closed" /\ stream' = "none" /\ chan' = 0
    /\ UNCHANGED <<tab, call, action, had, account, data, happened, owed>>

\* The tab is looked at again: refresh, and connect anew unless connected.
VisibilityChange ==
    /\ SignedIn /\ Happens /\ due' = (due \/ page.follows)
    /\ IF conn = "open" THEN UNCHANGED <<call, link>>
       ELSE /\ conn' = "closed" /\ call' = [call EXCEPT !["stream"] = Idle]
            /\ stream' = "none" /\ chan' = 0 /\ had' = had
    /\ UNCHANGED <<page, view, stored, form, leaving, action, account, data, owed>>

(***************************************************************************)
(* The Master.                                                             *)
(***************************************************************************)
\* A mutant: the channel of a subscriber takes any number of events.
PublishAll ==
    /\ chan' = IF stream \in {"live", "silent"} THEN chan + 1 ELSE chan
    /\ owed' = (owed \/ (had /\ page.follows))

\* Publish: an event for the subscriber; a full channel drops it.
Publish ==
    /\ chan' = IF stream \in {"live", "silent"} /\ chan < ChanCap THEN chan + 1 ELSE chan
    /\ owed' = (owed \/ (had /\ page.follows))

\* Data of the page in view change; what is changed about Workers is published.
Change ==
    /\ Happens /\ data' = data + 1
    /\ \/ Publish
       \/ page.list # ListWorkers /\ UNCHANGED <<chan, owed>>
    /\ UNCHANGED <<tab, call, action, conn, had, stream, account>>

\* resolveWebSession and resolveAdminToken, which the role of the day decides;
\* an administrator may not delete the own account.
Judgements(o) ==
    IF o = GetMeta THEN {"ok"}
    ELSE IF o = Login THEN {IF active THEN "ok" ELSE "disabled"}
    ELSE IF ~valid THEN {"unauthorized"}
    ELSE IF ~active THEN {"disabled"}
    ELSE IF o.admin THEN {"ok", "forbidden"} ELSE {"ok"}

\* What a good answer tells: a version, or that the task is still open (0),
\* completed (1) or ended otherwise (2).
Tells(o, version) == IF o = GetTask THEN 0 .. 2 ELSE {version}

\* The request c is served, with its effect at the Master.
Serve(c) ==
    /\ Verdict(c) = "sent"
    /\ LET o == call[c].ask IN
       \E verdict \in Judgements(o) :
          LET does(what) == verdict = "ok" /\ what IN
          /\ data' = IF does(o.then \in {"edit", "reload"}) THEN data + 1 ELSE data
          /\ \E told \in IF does(TRUE) THEN Tells(o, data') ELSE {0} :
                call' = [call EXCEPT ![c].verdict = verdict, ![c].seen = told]
          /\ valid' = IF does(o \in {Login, Logout}) THEN o = Login ELSE valid
          /\ IF does(o = RevokeWorker) THEN Publish /\ stream' = stream
             ELSE /\ owed' = owed
                  /\ IF does(o = OpenUserEventStream)
                     THEN stream' = "live" /\ chan' \in (IF had THEN 0 .. ChanCap ELSE {0})
                     ELSE UNCHANGED <<stream, chan>>
    /\ UNCHANGED <<tab, action, conn, had, active, happened>>

\* A request or its answer gets lost, takes 10 seconds, or the Master fails.
Lose(c) ==
    /\ ~Quiet(c) /\ Verdict(c) # "failed" /\ Happens
    /\ call' = [call EXCEPT ![c].verdict = "failed"]
    /\ stream' = IF c = "stream" THEN "none" ELSE stream
    /\ UNCHANGED <<tab, action, conn, had, chan, account, data, owed>>

\* The stream breaks: the Master restarts, the subscriber is evicted, or
\* the connection is gone without a word.
Break ==
    /\ stream = "live" /\ conn = "open" /\ Happens
    /\ stream' \in {"ending", "silent"} /\ chan' \in 0 .. chan
    /\ UNCHANGED <<tab, call, action, conn, had, account, data, owed>>

\* A mutant: the handler of the stream does not look at the account.
NoAuthTicker == FALSE /\ UNCHANGED vars

\* The stream of an account that is not active is closed within 5 seconds.
AuthTicker ==
    /\ stream = "live" /\ ~active
    /\ stream' = "ending"
    /\ UNCHANGED <<tab, call, action, conn, had, chan, account, data, happened, owed>>

\* The session expires or is revoked; another administrator disables the
\* account, and revokes its sessions, or enables it.
AccountChanges ==
    /\ Happens
    /\ \/ valid /\ valid' = FALSE /\ active' = active
       \/ active /\ active' = FALSE /\ valid' = valid
       \/ ~active /\ ~valid /\ active' = TRUE /\ valid' = valid
    /\ UNCHANGED <<tab, call, action, link, data, owed>>

(***************************************************************************)
(* The next-state relation.  Promises settle, timers fire, and the Master  *)
(* answers.                                                                *)
(***************************************************************************)
Settle ==
    \/ SessionChecked \/ FormAnswered \/ LoggedOut
    \/ Acted \/ Poll \/ Polled \/ Finished
LinkStep == OpenStream \/ StreamOpened \/ StreamEvent \/ StreamEnded \/ Watchdog
User ==
    \/ ConnectToMaster \/ Authenticate \/ ResetConnection \/ HandleLogout \/ OpenLogin
    \/ VisibilityChange
    \/ \E p \in Shown : Navigate(p)
    \/ \E o \in page.ops : Act(o)

Next ==
    \/ User \/ Settle \/ LinkStep \/ Timer \/ Deadline \/ AuthTicker
    \/ \E c \in Loads : Load(c) \/ Loaded(c)
    \/ \E c \in Calls : Serve(c) \/ Lose(c)
    \/ Change \/ Break \/ AccountChanges

Fairness ==
    /\ WF_vars(SessionChecked) /\ WF_vars(LoggedOut)
    /\ WF_vars(Acted) /\ WF_vars(Poll) /\ WF_vars(Polled) /\ WF_vars(Finished)
    /\ WF_vars(LinkStep) /\ WF_vars(Timer) /\ WF_vars(Deadline) /\ WF_vars(AuthTicker)
    /\ \A c \in Loads : WF_vars(Load(c)) /\ WF_vars(Loaded(c))
    /\ \A c \in Calls : WF_vars(Serve(c))

Spec == Init /\ [][Next]_vars /\ Fairness
-----------------------------------------------------------------------------
Operations == {GetMeta, Login, GetCurrentUser, Logout, OpenUserEventStream, ListWorkers,
               ListUsers, ListInvitations, ListClientTokens, GetTask}
              \cup UNION {p.ops : p \in Pages}

TypeOK ==
    /\ page \in Pages \cup {LoginForm} /\ view \in 0 .. NoVersion /\ due \in BOOLEAN
    /\ stored \in BOOLEAN /\ leaving \in BOOLEAN
    /\ form \in {"checking", "origin", "credentials"}
    /\ call \in [Calls -> [ask : Operations, seen : Nat, mine : BOOLEAN,
                           verdict : {"none", "sent", "ok", "unauthorized", "disabled",
                                      "forbidden", "failed"}]]
    /\ op \in {"none", "asked", "waiting", "polling", "reload"} /\ late \in BOOLEAN
    /\ conn \in {"closed", "opening", "open"} /\ had \in BOOLEAN
    /\ valid \in BOOLEAN /\ active \in BOOLEAN
    /\ data \in 0 .. MaxHappenings
    /\ stream \in {"none", "live", "ending", "silent"} /\ chan \in 0 .. ChanCap
    /\ happened \in 0 .. MaxHappenings /\ owed \in BOOLEAN

\* The session in storage is given up only when the Master has ended it, its
\* time is over, or the user logged out or went to the login page: no late
\* answer about an earlier session, no refusal of one request, ends it.
ClearedForCause ==
    [][stored /\ ~stored' => ~valid \/ ~active \/ leaving \/ ~SignedIn]_vars

\* A polling page that stays comes to show what the Master has, though lists
\* may arrive out of order and events may be lost.
ViewConverges ==
    \A p \in {q \in Pages : q.polls} :
        <>[](page = p /\ valid /\ active) => <>[](view = data)

\* After the first connection of a page, every event is followed by a load, on
\* every page that follows events, over broken and silent streams, full
\* channels and replays that miss events.
EventsRefresh == owed ~> ~owed

\* What the user has started ends, whatever becomes of the task.
ActionsEnd == op # "none" ~> op = "none"

\* A user whose account is disabled ends up at the login page, without a
\* session, from every page that is connected to the Master.
DisabledIsOut == <>[]~active => <>[](~SignedIn /\ ~stored)
=============================================================================
