--------------------------- MODULE DashboardProofs ---------------------------
(***************************************************************************)
(* Proofs about Dashboard: its types, and that a session is given up for   *)
(* cause only, with any number of loads under way, any size of the channel *)
(* and any number of things that happen.                                   *)
(***************************************************************************)
EXTENDS Dashboard, TLAPS

(***************************************************************************)
(* The operations and the pages.                                           *)
(***************************************************************************)
Lists == {p.list : p \in Pages \cup {LoginForm}}

LEMMA OperationsDiffer ==
  /\ GetTask \notin {GetMeta, Login, GetCurrentUser, Logout, OpenUserEventStream, ListWorkers}
  /\ Login \notin {GetMeta, GetCurrentUser, Logout, OpenUserEventStream, ListWorkers, GetTask}
  /\ Logout \notin {GetMeta, Login, GetCurrentUser}
  /\ GetCurrentUser # GetMeta
  /\ {GetMeta, Login, GetCurrentUser, Logout, OpenUserEventStream, ListWorkers, GetTask}
       \subseteq Operations
  /\ \A o \in {GetMeta, Login, GetCurrentUser, Logout, OpenUserEventStream, ListWorkers,
               GetTask} : o.then \notin {"edit", "reload", "poll"}
  /\ RevokeWorker.then = "edit"
  BY DEF GetTask, GetMeta, Login, GetCurrentUser, Logout, OpenUserEventStream, ListWorkers,
         Operation, Operations, RevokeWorker

LEMMA ListsAreRead ==
  ASSUME NEW o \in Lists
  PROVE  /\ o \in Operations /\ o \notin {GetTask, Login, Logout}
         /\ o.then \notin {"edit", "reload"}
  <1>1. o \in {GetMeta, ListWorkers, ListUsers, ListInvitations, ListClientTokens}
    BY DEF Lists, Pages, Overview, WorkerList, PluginCenter, Marketplace, AdminUserList,
           AdminInvitationList, Access, LoginForm, Page
  <1> QED
    BY <1>1 DEF Operations, GetTask, Login, Logout, GetMeta, ListWorkers, ListUsers,
                ListInvitations, ListClientTokens, Operation

LEMMA PagesDo ==
  ASSUME NEW p \in Pages
  PROVE  /\ p # LoginForm /\ p.list \in Lists
         /\ p.ops \subseteq Operations /\ Login \notin p.ops
         /\ p.polls \in BOOLEAN /\ p.follows \in BOOLEAN
  <1>1. p.ops \subseteq Operations
    BY DEF Operations
  <1>2. /\ p.polls = TRUE \/ p.polls = FALSE
        /\ p.follows = TRUE \/ p.follows = FALSE
    BY DEF Pages, Overview, WorkerList, PluginCenter, Marketplace, AdminUserList,
           AdminInvitationList, Access, Page
  <1>5. p.name # "login"
    BY DEF Pages, Overview, WorkerList, PluginCenter, Marketplace, AdminUserList,
           AdminInvitationList, Access, Page
  <1>4. p # LoginForm
    BY <1>5 DEF LoginForm, Page
  <1>3. Login \notin p.ops
    BY DEF Pages, Overview, WorkerList, PluginCenter, Marketplace, AdminUserList,
           AdminInvitationList, Access, Page, Login, SetWorkerPluginEnabled, RevokeWorker,
           InstallPluginToWorker, SetUserStatus, DeleteUser, CreateInvitation,
           RevokeInvitation, SetClientTokenStatus, RevokeClientToken, CreateClientToken,
           CreateWorkerRegistration, Operation
  <1> QED
    BY <1>1, <1>2, <1>3, <1>4 DEF Lists

LEMMA LoginFormDoes ==
  /\ LoginForm.ops = {} /\ LoginForm.polls = FALSE /\ LoginForm.follows = FALSE
  /\ Overview \in Pages /\ LoginForm \notin Pages /\ LoginForm.list \in Lists
  /\ GetMeta \in Lists
  <1>1. LoginForm.ops = {} /\ LoginForm.polls = FALSE /\ LoginForm.follows = FALSE
    BY DEF LoginForm, Page
  <1>2. Overview \in Pages
    BY DEF Pages
  <1>3. LoginForm \notin Pages
    BY PagesDo
  <1>4. LoginForm.list \in Lists /\ LoginForm.list = GetMeta
    BY DEF Lists, LoginForm, Page
  <1> QED
    BY <1>1, <1>2, <1>3, <1>4
(***************************************************************************)
(* The inductive invariant.  What each slot for a request may ask; that    *)
(* nothing but the login form's request is under way at the login page,    *)
(* and nothing of the login form's on any other; that a request is refused *)
(* for want of a session only while the session is over; and that every    *)
(* version is something that happened.                                     *)
(***************************************************************************)
Request == [ask : Operations, seen : Nat, mine : BOOLEAN,
            verdict : {"none", "sent", "ok", "unauthorized", "disabled", "forbidden",
                       "failed"}]

\* TypeOK but for the requests.
RestTyped ==
  /\ page \in Pages \cup {LoginForm} /\ view \in 0 .. NoVersion /\ due \in BOOLEAN
  /\ stored \in BOOLEAN /\ leaving \in BOOLEAN
  /\ form \in {"checking", "origin", "credentials"}
  /\ op \in {"none", "asked", "waiting", "polling", "reload"} /\ late \in BOOLEAN
  /\ conn \in {"closed", "opening", "open"} /\ had \in BOOLEAN
  /\ valid \in BOOLEAN /\ active \in BOOLEAN
  /\ data \in 0 .. MaxHappenings
  /\ stream \in {"none", "live", "ending", "silent"} /\ chan \in 0 .. ChanCap
  /\ happened \in 0 .. MaxHappenings /\ owed \in BOOLEAN

LEMMA TypeIs ==
  /\ TypeOK <=> RestTyped /\ call \in [Calls -> Request]
  /\ TypeOK' <=> RestTyped' /\ call' \in [Calls -> Request]
  BY DEF TypeOK, RestTyped, Request

AskOK(c, r) ==
  /\ r \in Request
  /\ r.ask # GetTask => r.seen <= MaxHappenings
  /\ c \in Loads => r.ask \in Lists
  /\ c = "auth" => r.ask \in {GetMeta, Login, GetCurrentUser, Logout}
  /\ c = "stream" => r.ask \in {GetMeta, OpenUserEventStream}
  /\ c = "op" => r.ask # Login

AsksOK == \A c \in Calls : AskOK(c, call[c])

ReloadsAsk == op = "reload" => call["op"].ask = ListWorkers

LoginPageOK ==
  ~SignedIn => /\ ~due /\ op = "none" /\ conn = "closed" /\ ~leaving
               /\ \A c \in Calls \ {"auth"} : Quiet(c)

PagesOK ==
  SignedIn => /\ form = "origin"
              /\ IF leaving THEN call["auth"].ask = Logout ELSE Quiet("auth")

RefusedForCause ==
  SignedIn => \A c \in Calls \ {"auth"} : IsSessionInvalid(c) => ~valid \/ ~active

Adds == Verdict("op") = "sent" /\ call["op"].ask.then \in {"edit", "reload"}
VersionsCounted == data <= happened /\ (Adds => data < happened)

DashboardInv ==
  /\ AsksOK /\ ReloadsAsk /\ LoginPageOK /\ PagesOK /\ RefusedForCause /\ VersionsCounted

(***************************************************************************)
(* Requests.                                                               *)
(***************************************************************************)
LEMMA SlotsDiffer ==
  /\ Loads \subseteq Calls /\ "auth" \in Calls /\ "op" \in Calls /\ "stream" \in Calls
  /\ "auth" \notin Loads /\ "op" \notin Loads /\ "stream" \notin Loads
  BY DashboardAssumption DEF Calls

LEMMA IdleIsOK ==
  ASSUME NEW c \in Calls
  PROVE  AskOK(c, Idle) /\ Idle.verdict = "none"
  <1>1. Idle \in Request /\ Idle.ask = GetMeta /\ Idle.seen = 0 /\ Idle.verdict = "none"
    BY OperationsDiffer DEF Idle, Request
  <1>2. GetMeta \in Lists /\ GetMeta # Login
    BY LoginFormDoes, OperationsDiffer
  <1> QED
    BY <1>1, <1>2, DashboardAssumption DEF AskOK

LEMMA SentIs ==
  ASSUME NEW o \in Operations
  PROVE  /\ Sent(o) \in Request /\ Sent(o).ask = o /\ Sent(o).verdict = "sent"
         /\ Sent(o).seen = 0
  BY DEF Sent, Request

\* The request r is put into the slot c.
LEMMA Placed ==
  ASSUME TypeOK, AsksOK, NEW c \in Calls, NEW r, AskOK(c, r),
         call' = [call EXCEPT ![c] = r]
  PROVE  /\ call' \in [Calls -> Request] /\ AsksOK'
         /\ call'[c] = r /\ \A k \in Calls \ {c} : call'[k] = call[k]
  <1>1. call \in [Calls -> Request]
    BY DEF TypeOK, Request
  <1>2. r \in Request
    BY DEF AskOK
  <1>3. /\ call' \in [Calls -> Request]
        /\ call'[c] = r /\ \A k \in Calls \ {c} : call'[k] = call[k]
    BY <1>1, <1>2
  <1>4. \A k \in Calls : AskOK(k, call'[k])
    BY <1>3 DEF AsksOK
  <1> QED
    BY <1>3, <1>4 DEF AsksOK, AskOK

\* No request at all.
LEMMA AllIdle ==
  ASSUME NEW f, f = [c \in Calls |-> Idle]
  PROVE  /\ f \in [Calls -> Request] /\ \A c \in Calls : AskOK(c, f[c])
         /\ \A c \in Calls : f[c] = Idle /\ f[c].verdict = "none"
  <1>1. \A c \in Calls : f[c] = Idle
    OBVIOUS
  <1>2. \A c \in Calls : AskOK(c, Idle) /\ Idle.verdict = "none"
    BY IdleIsOK
  <1>3. \A c \in Calls : AskOK(c, f[c]) /\ f[c] = Idle /\ f[c].verdict = "none"
    BY <1>1, <1>2
  <1>4. f \in [Calls -> Request]
    BY <1>3 DEF AskOK
  <1> QED
    BY <1>3, <1>4

(***************************************************************************)
(* A page is left for the login page in a new document.                    *)
(***************************************************************************)
LEMMA ReloadKeeps ==
  ASSUME TypeOK, DashboardInv, Reload, stored' \in BOOLEAN, data' = data,
         UNCHANGED account, happened' \in {happened, happened + 1},
         happened' <= MaxHappenings
  PROVE  TypeOK' /\ DashboardInv'
  <1> RestTyped
    BY TypeIs
  <1>1. call' = [c \in Calls |-> Idle]
    BY DEF Reload
  <1>2. /\ call' \in [Calls -> Request] /\ \A c \in Calls : AskOK(c, call'[c])
        /\ \A c \in Calls : call'[c] = Idle /\ call'[c].verdict = "none"
    BY <1>1, AllIdle
  <1>3. TypeOK'
    <2>1. call' \in [Calls -> Request]
      BY <1>2
    <2>2. page' = LoginForm /\ view' \in 0 .. NoVersion /\ chan' \in 0 .. ChanCap
      BY DashboardAssumption DEF Reload, FreshLink, NoVersion
    <2> QED
      <3>1. RestTyped'
        <4>1. happened' \in 0 .. MaxHappenings /\ data' \in 0 .. MaxHappenings
          BY DashboardAssumption DEF RestTyped
        <4>2. valid' \in BOOLEAN /\ active' \in BOOLEAN
          BY DEF RestTyped, account
        <4> QED
          BY <2>2, <4>1, <4>2 DEF RestTyped, Reload, FreshLink
      <3> QED
        BY <2>1, <3>1, TypeIs
  <1>4. AsksOK'
    BY <1>2 DEF AsksOK, AskOK
  <1>5. ReloadsAsk' /\ LoginPageOK' /\ PagesOK' /\ RefusedForCause'
    BY <1>2 DEF Reload, FreshLink, ReloadsAsk, LoginPageOK, PagesOK, RefusedForCause, Quiet,
                SignedIn
  <1>6. VersionsCounted'
    BY <1>2, SlotsDiffer DEF DashboardInv, VersionsCounted, Adds, Verdict, TypeOK
  <1> QED
    BY <1>3, <1>4, <1>5, <1>6 DEF DashboardInv
(***************************************************************************)
(* A page appears; the requests of the one before go on, or are none.      *)
(***************************************************************************)
LEMMA AppearKeeps ==
  ASSUME TypeOK, DashboardInv, NEW p \in Pages, NEW c \in [Calls -> Request],
         \A k \in Calls : AskOK(k, c[k]), Appear(p, c),
         stored' \in BOOLEAN, form' = "origin", leaving' \in BOOLEAN, late' \in BOOLEAN,
         UNCHANGED account, data' = data, happened' \in {happened, happened + 1},
         happened' <= MaxHappenings, op' \in {op, "none"},
         IF leaving' THEN c["auth"].ask = Logout ELSE c["auth"].verdict = "none",
         op' = "reload" => c["op"].ask = ListWorkers,
         \A k \in Calls \ {"auth"} : \/ c[k].verdict = "none"
                                     \/ SignedIn /\ c[k] = call[k]
  PROVE  TypeOK' /\ DashboardInv'
  <1> RestTyped
    BY TypeIs
  <1>1. call' = [k \in Calls |-> IF k = "stream" THEN Idle ELSE [c[k] EXCEPT !.mine = FALSE]]
    BY DEF Appear
  <1>2. \A k \in Calls : AskOK(k, call'[k])
    <2> TAKE k \in Calls
    <2>1. CASE k = "stream"
      BY <1>1, <2>1, IdleIsOK
    <2>2. CASE k # "stream"
      <3>1. AskOK(k, c[k]) /\ c[k] \in Request
        OBVIOUS
      <3>2. call'[k] = [c[k] EXCEPT !.mine = FALSE]
        BY <1>1, <2>2
      <3>3. /\ call'[k] \in Request /\ call'[k].ask = c[k].ask /\ call'[k].seen = c[k].seen
        BY <3>1, <3>2 DEF Request
      <3> QED
        BY <3>1, <3>3 DEF AskOK
    <2> QED
      BY <2>1, <2>2
  <1>3. \A k \in Calls \ {"stream"} :
          call'[k].ask = c[k].ask /\ call'[k].verdict = c[k].verdict
    <2> TAKE k \in Calls \ {"stream"}
    <2>1. call'[k] = [c[k] EXCEPT !.mine = FALSE] /\ c[k] \in Request
      BY <1>1
    <2> QED
      BY <2>1 DEF Request
  <1>4. call'["stream"].verdict = "none"
    BY <1>1, SlotsDiffer, IdleIsOK
  <1>5. TypeOK'
    <2>1. call' \in [Calls -> Request]
      BY <1>1, <1>2 DEF AskOK
    <2>2. view' \in 0 .. NoVersion /\ chan' \in 0 .. ChanCap
      BY DashboardAssumption DEF Appear, FreshLink, NoVersion
    <2>3. happened' \in 0 .. MaxHappenings /\ data' \in 0 .. MaxHappenings
      BY DashboardAssumption DEF RestTyped
    <2>4. valid' \in BOOLEAN /\ active' \in BOOLEAN
      BY DEF RestTyped, account
    <2>5. RestTyped'
      BY <2>2, <2>3, <2>4 DEF RestTyped, Appear, FreshLink
    <2> QED
      BY <2>1, <2>5, TypeIs
  <1>6. AsksOK'
    BY <1>2 DEF AsksOK, AskOK
  <1>7. SignedIn' /\ ReloadsAsk' /\ LoginPageOK' /\ PagesOK'
    <2>1. page' = p /\ page' # LoginForm
      BY PagesDo DEF Appear
    <2> QED
      BY <2>1, <1>3, SlotsDiffer
      DEF SignedIn, ReloadsAsk, LoginPageOK, PagesOK, Quiet
  <1>8. \A k \in Calls \ {"auth"} : \/ call'[k].verdict = "none"
                                    \/ /\ SignedIn /\ call'[k].verdict = call[k].verdict
                                       /\ call'[k].ask = call[k].ask
    BY <1>3, <1>4
  <1>9. RefusedForCause'
    BY <1>8 DEF DashboardInv, RefusedForCause, IsSessionInvalid, Verdict, account
  <1>10. VersionsCounted'
    BY <1>8, SlotsDiffer DEF DashboardInv, VersionsCounted, Adds, Verdict, RestTyped
  <1> QED
    BY <1>5, <1>6, <1>7, <1>9, <1>10 DEF DashboardInv

(***************************************************************************)
(* A step of the login form.                                               *)
(***************************************************************************)
LEMMA FormKeeps ==
  ASSUME TypeOK, DashboardInv, ~SignedIn, NEW r, AskOK("auth", r),
         call' = [call EXCEPT !["auth"] = r],
         UNCHANGED <<page, view, due, leaving, owed, link, action, account, data, happened>>,
         stored' \in BOOLEAN, form' \in {"checking", "origin", "credentials"}
  PROVE  TypeOK' /\ DashboardInv'
  <1> RestTyped
    BY TypeIs
  <1>1. /\ call' \in [Calls -> Request] /\ AsksOK'
        /\ call'["auth"] = r /\ \A k \in Calls \ {"auth"} : call'[k] = call[k]
    BY Placed, SlotsDiffer DEF DashboardInv
  <1>2. RestTyped'
    BY DEF RestTyped, link, action, account
  <1>3. TypeOK'
    BY <1>1, <1>2, TypeIs
  <1>4. LoginPageOK' /\ PagesOK' /\ RefusedForCause' /\ ~SignedIn'
    BY <1>1 DEF DashboardInv, LoginPageOK, PagesOK, RefusedForCause, SignedIn, link, action,
                Quiet
  <1>5. ReloadsAsk' /\ VersionsCounted'
    BY <1>1, SlotsDiffer
    DEF DashboardInv, ReloadsAsk, VersionsCounted, Adds, Verdict, action
  <1> QED
    BY <1>1, <1>3, <1>4, <1>5 DEF DashboardInv

(***************************************************************************)
(* A step on any other page, which sends one request, takes one answer, or *)
(* neither.                                                                *)
(***************************************************************************)
LEMMA SlotKeeps ==
  ASSUME TypeOK, DashboardInv, SignedIn, NEW c \in Calls \ {"auth"}, NEW r, AskOK(c, r),
         call' = [call EXCEPT ![c] = r],
         UNCHANGED <<page, stored, form, leaving, account, data>>,
         view' \in 0 .. NoVersion, due' \in BOOLEAN, owed' \in BOOLEAN, late' \in BOOLEAN,
         op' \in {"none", "asked", "waiting", "polling", "reload"},
         conn' \in {"closed", "opening", "open"}, had' \in BOOLEAN,
         stream' \in {"none", "live", "ending", "silent"}, chan' \in 0 .. ChanCap,
         happened' \in {happened, happened + 1}, happened' <= MaxHappenings,
         op' = "reload" => call'["op"].ask = ListWorkers,
         r = call[c] \/ r.verdict \in {"none", "sent"},
         \/ r = call[c]
         \/ c = "op" /\ r.verdict = "sent" /\ r.ask.then \in {"edit", "reload"}
              => happened' = happened + 1
  PROVE  TypeOK' /\ DashboardInv'
  <1> RestTyped
    BY TypeIs
  <1>1. /\ call' \in [Calls -> Request] /\ AsksOK'
        /\ call'[c] = r /\ \A k \in Calls \ {c} : call'[k] = call[k]
    BY Placed DEF DashboardInv
  <1>2. RestTyped'
    <2>1. happened' \in 0 .. MaxHappenings
      BY DashboardAssumption DEF RestTyped
    <2> QED
      BY <2>1 DEF RestTyped, account
  <1>3. TypeOK'
    BY <1>1, <1>2, TypeIs
  <1>4. SignedIn' /\ ReloadsAsk' /\ LoginPageOK'
    BY DEF ReloadsAsk, LoginPageOK, SignedIn
  <1>5. PagesOK'
    BY <1>1, SlotsDiffer DEF DashboardInv, PagesOK, SignedIn, Quiet
  <1>6. RefusedForCause'
    BY <1>1 DEF DashboardInv, RefusedForCause, IsSessionInvalid, Verdict, account
  <1>7. VersionsCounted'
    <2>1. CASE call'["op"] = call["op"]
      BY <2>1 DEF DashboardInv, VersionsCounted, Adds, Verdict, RestTyped
    <2>2. CASE call'["op"] # call["op"]
      <3>1. c = "op" /\ r # call[c] /\ call'["op"] = r
        BY <1>1, <2>2, SlotsDiffer
      <3> QED
        BY <3>1 DEF DashboardInv, VersionsCounted, Adds, Verdict, RestTyped
    <2> QED
      BY <2>1, <2>2
  <1> QED
    BY <1>1, <1>3, <1>4, <1>5, <1>6, <1>7 DEF DashboardInv
(***************************************************************************)
(* Facts about the invariant that the actions need.                        *)
(***************************************************************************)
LEMMA RequestsAre ==
  ASSUME TypeOK, DashboardInv, NEW c \in Calls
  PROVE  /\ call[c] \in Request /\ AskOK(c, call[c])
         /\ AskOK(c, Idle) /\ Idle.verdict = "none"
         /\ AskOK(c, Paused(c)) /\ Paused(c).verdict = "none"
         /\ call = [call EXCEPT ![c] = call[c]]
  <1>1. call \in [Calls -> Request] /\ AskOK(c, call[c]) /\ AskOK(c, Idle)
    BY TypeIs, IdleIsOK DEF DashboardInv, AsksOK
  <1>2. /\ Paused(c) \in Request /\ Paused(c).verdict = "none" /\ Paused(c).ask = Idle.ask
        /\ Paused(c).seen = Idle.seen
    BY <1>1, IdleIsOK DEF Paused, Request, AskOK, Idle
  <1>3. AskOK(c, Paused(c))
    BY <1>1, <1>2 DEF AskOK
  <1> QED
    BY <1>1, <1>2, <1>3, IdleIsOK

\* What may be sent in a slot.
LEMMA SendsAre ==
  ASSUME TypeOK, DashboardInv, NEW c \in Calls, NEW o \in Operations,
         c \in Loads => o \in Lists,
         c = "auth" => o \in {GetMeta, Login, GetCurrentUser, Logout},
         c = "stream" => o \in {GetMeta, OpenUserEventStream},
         c = "op" => o # Login
  PROVE  /\ AskOK(c, Sent(o)) /\ Sent(o).verdict = "sent" /\ Sent(o).ask = o
         /\ AskOK(c, Again(c, o)) /\ Again(c, o).verdict = "sent" /\ Again(c, o).ask = o
  <1>1. call[c] \in Request
    BY TypeIs
  <1>2. /\ Again(c, o) \in Request /\ Again(c, o).ask = o /\ Again(c, o).verdict = "sent"
        /\ Again(c, o).seen = 0
    BY <1>1 DEF Again, Sent, Request
  <1>3. AskOK(c, Sent(o))
    BY SentIs, DashboardAssumption DEF AskOK
  <1>4. AskOK(c, Again(c, o))
    BY <1>2, DashboardAssumption DEF AskOK
  <1> QED
    BY <1>2, <1>3, <1>4, SentIs

\* redirectToLogin keeps the invariant, whenever it is called.
LEMMA RedirectKeeps ==
  ASSUME TypeOK, DashboardInv, RedirectToLogin, data' = data, UNCHANGED account,
         \/ Happens
         \/ happened' = happened
  PROVE  TypeOK' /\ DashboardInv'
  <1>1. happened' \in {happened, happened + 1} /\ happened' <= MaxHappenings
    BY DashboardAssumption DEF Happens, TypeOK
  <1>2. Reload /\ stored' \in BOOLEAN
    BY DEF RedirectToLogin, ClearMasterSession
  <1> QED
    BY <1>1, <1>2, ReloadKeeps

LEMMA TimeStands ==
  ASSUME TypeOK, happened' = happened
  PROVE  happened' \in {happened, happened + 1} /\ happened' <= MaxHappenings
  BY DashboardAssumption DEF TypeOK

LEMMA HappensCounts ==
  ASSUME TypeOK, Happens
  PROVE  happened' = happened + 1 /\ happened' <= MaxHappenings
  BY DashboardAssumption DEF TypeOK, Happens

(***************************************************************************)
(* The actions.                                                            *)
(***************************************************************************)
LEMMA NavigateKeeps ==
  ASSUME TypeOK, DashboardInv, NEW p \in Shown, Navigate(p)
  PROVE  TypeOK' /\ DashboardInv'
  <1>1. p \in Pages /\ SignedIn /\ Happens /\ UNCHANGED <<account, data>>
    BY ShownAssumption DEF Navigate
  <1>2. CASE RedirectToLogin
    BY <1>1, <1>2, RedirectKeeps
  <1>3. CASE Appear(p, call) /\ UNCHANGED <<stored, form, leaving, action>>
    <2>1. call \in [Calls -> Request] /\ \A k \in Calls : AskOK(k, call[k])
      BY RequestsAre, TypeIs
    <2>2. /\ stored' \in BOOLEAN /\ form' = "origin" /\ leaving' \in BOOLEAN
          /\ late' \in BOOLEAN /\ op' = op
      BY <1>1, <1>3 DEF TypeOK, action, DashboardInv, PagesOK
    <2>3. /\ IF leaving' THEN call["auth"].ask = Logout ELSE call["auth"].verdict = "none"
          /\ op' = "reload" => call["op"].ask = ListWorkers
      BY <1>1, <1>3 DEF DashboardInv, PagesOK, ReloadsAsk, action, Quiet
    <2> QED
      BY <1>1, <1>3, <2>1, <2>2, <2>3, HappensCounts, AppearKeeps
  <1>4. CASE /\ Appear(Overview, [c \in Calls |-> Idle])
             /\ op' = "none" /\ late' = FALSE /\ leaving' = FALSE /\ UNCHANGED <<stored, form>>
    <2>1. PICK f : f = [c \in Calls |-> Idle]
      OBVIOUS
    <2>2. /\ f \in [Calls -> Request] /\ \A c \in Calls : AskOK(c, f[c])
          /\ \A c \in Calls : f[c] = Idle /\ f[c].verdict = "none"
      BY <2>1, AllIdle
    <2>3. stored' \in BOOLEAN /\ form' = "origin"
      BY <1>1, <1>4 DEF TypeOK, DashboardInv, PagesOK
    <2> QED
      BY <1>1, <1>4, <2>1, <2>2, <2>3, HappensCounts, AppearKeeps, LoginFormDoes,
         SlotsDiffer
  <1> QED
    BY <1>2, <1>3, <1>4 DEF Navigate

LEMMA OpenLoginKeeps ==
  ASSUME TypeOK, DashboardInv, OpenLogin
  PROVE  TypeOK' /\ DashboardInv'
  <1> RestTyped
    BY TypeIs
  <1>1. SignedIn /\ Happens /\ UNCHANGED <<account, data>>
    BY DEF OpenLogin
  <1>2. CASE RedirectToLogin
    BY <1>1, <1>2, RedirectKeeps
  <1>3. CASE ~RedirectToLogin
    <2>1. /\ page' = LoginForm /\ view' = NoVersion /\ due' = FALSE
          /\ form' = "checking" /\ leaving' = FALSE /\ owed' = FALSE
          /\ call' = [[c \in Calls |-> Idle] EXCEPT !["auth"] = Sent(GetCurrentUser)]
          /\ op' = "none" /\ late' = FALSE /\ FreshLink /\ stored' = stored
      BY <1>3 DEF OpenLogin
    <2>2. PICK f : f = [c \in Calls |-> Idle]
      OBVIOUS
    <2>3. /\ f \in [Calls -> Request] /\ \A c \in Calls : AskOK(c, f[c])
          /\ \A c \in Calls : f[c] = Idle /\ f[c].verdict = "none"
      BY <2>2, AllIdle
    <2>4. AskOK("auth", Sent(GetCurrentUser)) /\ Sent(GetCurrentUser) \in Request
      BY SendsAre, OperationsDiffer, SlotsDiffer DEF AskOK
    <2>5. call' = [f EXCEPT !["auth"] = Sent(GetCurrentUser)]
      BY <2>1, <2>2
    <2>6. /\ call' \in [Calls -> Request] /\ call'["auth"] = Sent(GetCurrentUser)
          /\ \A c \in Calls \ {"auth"} : call'[c] = Idle /\ call'[c].verdict = "none"
      BY <2>3, <2>4, <2>5, SlotsDiffer
    <2>7. \A c \in Calls : AskOK(c, call'[c])
      BY <2>4, <2>6, IdleIsOK
    <2>8. AsksOK'
      BY <2>7 DEF AsksOK, AskOK
    <2>9. RestTyped'
      <3>1. view' \in 0 .. NoVersion /\ chan' \in 0 .. ChanCap
        BY <2>1, DashboardAssumption DEF FreshLink, NoVersion
      <3>2. happened' \in 0 .. MaxHappenings
        BY <1>1, HappensCounts, DashboardAssumption DEF RestTyped
      <3> QED
        BY <1>1, <2>1, <3>1, <3>2 DEF RestTyped, FreshLink, account
    <2>10. ReloadsAsk' /\ LoginPageOK' /\ PagesOK' /\ RefusedForCause'
      BY <2>1, <2>6 DEF ReloadsAsk, LoginPageOK, PagesOK, RefusedForCause, SignedIn, Quiet,
                       FreshLink
    <2>11. VersionsCounted'
      BY <1>1, <2>6, SlotsDiffer, HappensCounts
      DEF DashboardInv, VersionsCounted, Adds, Verdict, RestTyped
    <2> QED
      BY <2>6, <2>8, <2>9, <2>10, <2>11, TypeIs DEF DashboardInv
  <1> QED
    BY <1>2, <1>3

\* The first page after the login form has had its answer.
LEMMA FormAppears ==
  ASSUME TypeOK, DashboardInv, ~SignedIn, NEW f, f = [call EXCEPT !["auth"] = Idle],
         Appear(Overview, f), stored' \in BOOLEAN, form' = "origin",
         UNCHANGED <<leaving, action, account, data, happened>>
  PROVE  TypeOK' /\ DashboardInv'
  <1> RestTyped
    BY TypeIs
  <1>1. /\ f \in [Calls -> Request] /\ f["auth"] = Idle
        /\ \A k \in Calls \ {"auth"} : f[k] = call[k]
    BY TypeIs, IdleIsOK, SlotsDiffer DEF AskOK
  <1>2. \A k \in Calls : AskOK(k, f[k])
    BY <1>1, RequestsAre
  <1>3. /\ ~leaving' /\ leaving' \in BOOLEAN /\ op' = op /\ op = "none" /\ late' \in BOOLEAN
        /\ \A k \in Calls \ {"auth"} : f[k].verdict = "none"
    BY <1>1 DEF DashboardInv, LoginPageOK, action, RestTyped, Quiet
  <1>4. f["auth"].verdict = "none"
    BY <1>1, IdleIsOK, SlotsDiffer
  <1>5. happened' \in {happened, happened + 1} /\ happened' <= MaxHappenings
    BY DashboardAssumption DEF RestTyped
  <1> QED
    BY <1>1, <1>2, <1>3, <1>4, <1>5, LoginFormDoes, AppearKeeps

LEMMA SessionCheckedKeeps ==
  ASSUME TypeOK, DashboardInv, SessionChecked
  PROVE  TypeOK' /\ DashboardInv'
  <1> RestTyped
    BY TypeIs
  <1>1. ~SignedIn /\ ~leaving /\ op = "none"
    BY DEF SessionChecked, DashboardInv, PagesOK, LoginPageOK
  <1>2. /\ UNCHANGED <<leaving, action, account, data, happened>> /\ form' = "origin"
        /\ AskOK("auth", Idle)
    BY RequestsAre, SlotsDiffer DEF SessionChecked
  <1>3. CASE Ok("auth")
    <2>1. PICK f : f = [call EXCEPT !["auth"] = Idle]
      OBVIOUS
    <2>2. Appear(Overview, f) /\ stored' = stored
      BY <1>3, <2>1 DEF SessionChecked
    <2> QED
      BY <1>1, <1>2, <2>1, <2>2, FormAppears DEF RestTyped
  <1>4. CASE ~Ok("auth")
    <2>1. /\ stored' = FALSE /\ call' = [call EXCEPT !["auth"] = Idle]
          /\ UNCHANGED <<page, view, due, owed, link>>
      BY <1>4 DEF SessionChecked, ClearMasterSession
    <2> QED
      BY <1>1, <1>2, <2>1, FormKeeps
  <1> QED
    BY <1>3, <1>4

LEMMA FormAnsweredKeeps ==
  ASSUME TypeOK, DashboardInv, FormAnswered
  PROVE  TypeOK' /\ DashboardInv'
  <1> RestTyped
    BY TypeIs
  <1>1. ~SignedIn /\ ~leaving /\ op = "none"
    BY DEF FormAnswered, DashboardInv, LoginPageOK
  <1>2. /\ UNCHANGED <<leaving, action, account, data, happened>>
        /\ AskOK("auth", Idle) /\ AskOK("auth", Sent(GetCurrentUser))
    BY RequestsAre, SendsAre, OperationsDiffer, SlotsDiffer DEF FormAnswered
  <1>3. CASE /\ form' = IF Ok("auth") THEN "credentials" ELSE form
             /\ call' = [call EXCEPT !["auth"] = Idle]
             /\ UNCHANGED <<page, view, due, stored, owed, link>>
    <2>1. stored' \in BOOLEAN /\ form' \in {"checking", "origin", "credentials"}
      BY <1>3 DEF RestTyped
    <2> QED
      BY <1>1, <1>2, <1>3, <2>1, FormKeeps
  <1>4. CASE /\ call' = [call EXCEPT !["auth"] = Sent(GetCurrentUser)]
             /\ UNCHANGED <<page, view, due, stored, form, owed, link>>
    BY <1>1, <1>2, <1>4, FormKeeps DEF RestTyped
  <1>5. CASE /\ SaveMasterSession /\ form' = "origin"
             /\ Appear(Overview, [call EXCEPT !["auth"] = Idle])
    <2>1. PICK f : f = [call EXCEPT !["auth"] = Idle]
      OBVIOUS
    <2>2. Appear(Overview, f) /\ stored' \in BOOLEAN /\ form' = "origin"
      BY <1>5, <2>1 DEF SaveMasterSession
    <2> QED
      BY <1>1, <1>2, <2>1, <2>2, FormAppears
  <1> QED
    BY <1>3, <1>4, <1>5 DEF FormAnswered

LEMMA LoginKeeps ==
  ASSUME TypeOK, DashboardInv, ConnectToMaster \/ Authenticate \/ ResetConnection
  PROVE  TypeOK' /\ DashboardInv'
  <1> RestTyped
    BY TypeIs
  <1> /\ AskOK("auth", Sent(GetMeta)) /\ AskOK("auth", Sent(Login))
      /\ AskOK("auth", call["auth"]) /\ call = [call EXCEPT !["auth"] = call["auth"]]
    BY SendsAre, RequestsAre, OperationsDiffer, SlotsDiffer
  <1>1. CASE ConnectToMaster
    BY <1>1, FormKeeps DEF ConnectToMaster, tab, RestTyped
  <1>2. CASE Authenticate
    BY <1>2, FormKeeps DEF Authenticate, tab, RestTyped
  <1>3. CASE ResetConnection
    <2>1. ~SignedIn
      BY <1>3 DEF ResetConnection, DashboardInv, PagesOK
    <2> QED
      BY <1>3, <2>1, FormKeeps DEF ResetConnection, RestTyped
  <1> QED
    BY <1>1, <1>2, <1>3
LEMMA HandleLogoutKeeps ==
  ASSUME TypeOK, DashboardInv, HandleLogout
  PROVE  TypeOK' /\ DashboardInv'
  <1> RestTyped
    BY TypeIs
  <1>1. SignedIn /\ Happens /\ UNCHANGED <<account, data>>
    BY DEF HandleLogout
  <1>2. CASE RedirectToLogin
    BY <1>1, <1>2, RedirectKeeps
  <1>3. CASE /\ leaving' = TRUE /\ call' = [call EXCEPT !["auth"] = Sent(Logout)]
             /\ UNCHANGED <<page, view, due, stored, form, action, link, owed>>
    <2>1. AskOK("auth", Sent(Logout)) /\ Sent(Logout).ask = Logout
      BY SendsAre, OperationsDiffer, SlotsDiffer
    <2>2. /\ call' \in [Calls -> Request] /\ AsksOK' /\ call'["auth"].ask = Logout
          /\ \A k \in Calls \ {"auth"} : call'[k] = call[k]
      BY <1>3, <2>1, Placed, SlotsDiffer DEF DashboardInv
    <2>3. RestTyped'
      <3>1. happened' \in 0 .. MaxHappenings
        BY <1>1, HappensCounts, DashboardAssumption DEF RestTyped
      <3> QED
        BY <1>1, <1>3, <3>1 DEF RestTyped, account, link, action
    <2>4. ReloadsAsk' /\ LoginPageOK' /\ PagesOK' /\ RefusedForCause'
      BY <1>1, <1>3, <2>2, SlotsDiffer
      DEF DashboardInv, ReloadsAsk, LoginPageOK, PagesOK, RefusedForCause, SignedIn, action,
          IsSessionInvalid, Verdict, account
    <2>5. VersionsCounted'
      BY <1>1, <2>2, SlotsDiffer, HappensCounts
      DEF DashboardInv, VersionsCounted, Adds, Verdict, RestTyped
    <2> QED
      BY <2>2, <2>3, <2>4, <2>5, TypeIs DEF DashboardInv
  <1> QED
    BY <1>2, <1>3 DEF HandleLogout

LEMMA LoggedOutKeeps ==
  ASSUME TypeOK, DashboardInv, LoggedOut
  PROVE  TypeOK' /\ DashboardInv'
  BY RedirectKeeps DEF LoggedOut

LEMMA LoadKeeps ==
  ASSUME TypeOK, DashboardInv, NEW c \in Loads, Load(c)
  PROVE  TypeOK' /\ DashboardInv'
  <1> RestTyped /\ c \in Calls \ {"auth"} /\ c \notin {"op", "stream"}
    BY TypeIs, SlotsDiffer
  <1>1. /\ SignedIn /\ due' = FALSE /\ owed' = FALSE /\ call' = [call EXCEPT ![c] = Sent(page.list)]
        /\ UNCHANGED <<page, view, stored, form, leaving, action, link, account, data, happened>>
    BY DEF Load, DashboardInv, LoginPageOK
  <1>2. page.list \in Lists /\ page.list \in Operations
    BY <1>1, PagesDo, ListsAreRead DEF RestTyped, SignedIn
  <1>3. /\ AskOK(c, Sent(page.list)) /\ Sent(page.list).verdict = "sent"
    BY <1>2, SendsAre
  <1>4. op' = "reload" => call'["op"].ask = ListWorkers
    BY <1>1, SlotsDiffer, TypeIs DEF DashboardInv, ReloadsAsk, action
  <1> QED
    BY <1>1, <1>3, <1>4, SlotKeeps, TimeStands DEF RestTyped, action, link

LEMMA LoadedKeeps ==
  ASSUME TypeOK, DashboardInv, NEW c \in Loads, Loaded(c)
  PROVE  TypeOK' /\ DashboardInv'
  <1> RestTyped /\ c \in Calls \ {"auth"} /\ c \notin {"op", "stream"}
    BY TypeIs, SlotsDiffer
  <1>1. UNCHANGED <<account, data, happened>> /\ SignedIn
    BY DEF Loaded, Answered, DashboardInv, LoginPageOK
  <1>2. CASE IsSessionInvalid(c)
    BY <1>1, <1>2, RedirectKeeps DEF Loaded
  <1>3. CASE ~IsSessionInvalid(c)
    <2>1. /\ view' = IF Ok(c) /\ call[c].mine THEN call[c].seen ELSE view
          /\ call' = [call EXCEPT ![c] = Idle]
          /\ UNCHANGED <<page, due, stored, form, leaving, action, link, owed>>
      BY <1>3 DEF Loaded
    <2>2. AskOK(c, Idle) /\ Idle.verdict = "none" /\ AskOK(c, call[c])
      BY RequestsAre
    <2>3. call[c].seen \in 0 .. MaxHappenings
      BY <2>2, ListsAreRead, DashboardAssumption DEF AskOK, Request
    <2>4. view' \in 0 .. NoVersion
      BY <2>1, <2>3, DashboardAssumption DEF RestTyped, NoVersion
    <2>5. op' = "reload" => call'["op"].ask = ListWorkers
      BY <2>1, SlotsDiffer, TypeIs DEF DashboardInv, ReloadsAsk, action
    <2>6. /\ call' = [call EXCEPT ![c] = Idle]
          /\ UNCHANGED <<page, due, stored, form, leaving, action, link, owed>>
      BY <2>1
    <2>7. /\ due' \in BOOLEAN /\ owed' \in BOOLEAN /\ late' \in BOOLEAN /\ had' \in BOOLEAN
          /\ op' \in {"none", "asked", "waiting", "polling", "reload"}
          /\ conn' \in {"closed", "opening", "open"}
          /\ stream' \in {"none", "live", "ending", "silent"} /\ chan' \in 0 .. ChanCap
      BY <2>6 DEF RestTyped, action, link
    <2> QED
      BY <1>1, <2>2, <2>4, <2>5, <2>6, <2>7, SlotKeeps, TimeStands
  <1> QED
    BY <1>2, <1>3
LEMMA TimerKeeps ==
  ASSUME TypeOK, DashboardInv, Timer \/ Deadline
  PROVE  TypeOK' /\ DashboardInv'
  <1> RestTyped /\ "op" \in Calls \ {"auth"}
    BY TypeIs, SlotsDiffer
  <1>1. AskOK("op", call["op"]) /\ call = [call EXCEPT !["op"] = call["op"]]
    BY RequestsAre
  <1>2. op' = "reload" => call'["op"].ask = ListWorkers
    BY DEF Timer, Deadline, DashboardInv, ReloadsAsk, action, tab
  <1>3. SignedIn
    BY LoginFormDoes DEF Timer, Deadline, DashboardInv, LoginPageOK, SignedIn
  <1>4. CASE Timer
    BY <1>1, <1>2, <1>3, <1>4, SlotKeeps, TimeStands DEF Timer, RestTyped, action, link
  <1>5. CASE Deadline
    BY <1>1, <1>2, <1>3, <1>5, SlotKeeps, TimeStands DEF Deadline, RestTyped, tab, link
  <1> QED
    BY <1>4, <1>5

LEMMA ActKeeps ==
  ASSUME TypeOK, DashboardInv, NEW o \in page.ops, Act(o)
  PROVE  TypeOK' /\ DashboardInv'
  <1> RestTyped /\ "op" \in Calls \ {"auth"} /\ "op" \notin Loads
    BY TypeIs, SlotsDiffer
  <1>1. page \in Pages
    BY LoginFormDoes DEF RestTyped
  <1>2. SignedIn /\ o \in Operations /\ o # Login
    BY <1>1, PagesDo DEF SignedIn
  <1>3. AskOK("op", Sent(o)) /\ Sent(o).verdict = "sent" /\ Sent(o).ask = o
    BY <1>2, SendsAre
  <1>4. /\ happened' = happened + 1 /\ happened' <= MaxHappenings
        /\ op' = "asked" /\ late' = FALSE /\ call' = [call EXCEPT !["op"] = Sent(o)]
        /\ UNCHANGED <<tab, link, account, data, owed>>
    BY HappensCounts DEF Act
  <1> QED
    BY <1>2, <1>3, <1>4, SlotKeeps DEF RestTyped, tab, link

LEMMA ActedKeeps ==
  ASSUME TypeOK, DashboardInv, Acted
  PROVE  TypeOK' /\ DashboardInv'
  <1> RestTyped /\ "op" \in Calls \ {"auth"}
    BY TypeIs, SlotsDiffer
  <1>1. UNCHANGED <<account, data, happened>> /\ SignedIn
    BY DEF Acted, DashboardInv, LoginPageOK
  <1>2. CASE RedirectToLogin
    BY <1>1, <1>2, RedirectKeeps
  <1>3. CASE ~RedirectToLogin
    <2>1. PICK then : then = call["op"].ask.then
      OBVIOUS
    <2>2. /\ op' = IF Ok("op") /\ then = "poll" THEN "waiting" ELSE "none"
          /\ view' = IF Ok("op") /\ then = "edit" THEN Edited("op") ELSE view
          /\ due' = (due \/ (Ok("op") /\ then = "reload" /\ call["op"].mine))
          /\ call' = [call EXCEPT !["op"] = Paused("op")]
          /\ UNCHANGED <<page, stored, form, leaving, late, link, owed>>
      BY <1>3, <2>1 DEF Acted
    <2>3. /\ AskOK("op", Paused("op")) /\ Paused("op").verdict = "none"
          /\ AskOK("op", call["op"])
      BY RequestsAre
    <2>4. view' \in 0 .. NoVersion
      <3>1. CASE then = "edit"
        <4>2. GetTask.then # "edit"
          BY OperationsDiffer
        <4>1. call["op"].seen \in 0 .. MaxHappenings
          <5>1. call["op"].ask # GetTask
            BY <2>1, <3>1, <4>2
          <5> QED
            BY <2>3, <5>1, DashboardAssumption DEF AskOK, Request
        <4> QED
          BY <2>2, <4>1, DashboardAssumption DEF Edited, RestTyped, NoVersion
      <3>2. CASE then # "edit"
        BY <2>2, <3>2 DEF RestTyped
      <3> QED
        BY <3>1, <3>2
    <2>5. op' \in {"waiting", "none"} /\ due' \in BOOLEAN
      BY <2>2
    <2>6. /\ call' = [call EXCEPT !["op"] = Paused("op")]
          /\ UNCHANGED <<page, stored, form, leaving, late, link, owed>>
      BY <2>2
    <2> QED
      BY <1>1, <2>3, <2>4, <2>5, <2>6, SlotKeeps, TimeStands DEF RestTyped, link
  <1> QED
    BY <1>2, <1>3

LEMMA PollKeeps ==
  ASSUME TypeOK, DashboardInv, Poll
  PROVE  TypeOK' /\ DashboardInv'
  <1> RestTyped /\ "op" \in Calls \ {"auth"} /\ "op" \notin Loads
    BY TypeIs, SlotsDiffer
  <1>1. UNCHANGED <<tab, late, link, account, data, happened, owed>> /\ SignedIn
    BY DEF Poll, DashboardInv, LoginPageOK
  <1>2. /\ AskOK("op", call["op"]) /\ call = [call EXCEPT !["op"] = call["op"]]
        /\ AskOK("op", Again("op", GetTask)) /\ Again("op", GetTask).verdict = "sent"
        /\ Again("op", GetTask).ask = GetTask
    BY RequestsAre, SendsAre, OperationsDiffer
  <1>3. CASE op' = "none" /\ call' = call
    BY <1>1, <1>2, <1>3, SlotKeeps, TimeStands DEF RestTyped, tab, link
  <1>4. CASE op' = "polling" /\ call' = [call EXCEPT !["op"] = Again("op", GetTask)]
    BY <1>1, <1>2, <1>4, SlotKeeps, TimeStands, OperationsDiffer DEF RestTyped, tab, link
  <1> QED
    BY <1>3, <1>4 DEF Poll

LEMMA PolledKeeps ==
  ASSUME TypeOK, DashboardInv, Polled
  PROVE  TypeOK' /\ DashboardInv'
  <1> RestTyped /\ "op" \in Calls \ {"auth"} /\ "op" \notin Loads
    BY TypeIs, SlotsDiffer
  <1>1. UNCHANGED <<account, data, happened>> /\ SignedIn
    BY DEF Polled, DashboardInv, LoginPageOK
  <1>2. CASE IsSessionInvalid("op")
    BY <1>1, <1>2, RedirectKeeps DEF Polled
  <1>3. CASE ~IsSessionInvalid("op")
    <2>1. /\ op' \in {"none", "waiting", "reload"}
          /\ call' = [call EXCEPT !["op"] =
                        IF op' = "reload" THEN Again("op", ListWorkers) ELSE Paused("op")]
          /\ UNCHANGED <<tab, late, link, owed>>
      BY <1>3 DEF Polled
    <2>2. PICK r : r = IF op' = "reload" THEN Again("op", ListWorkers) ELSE Paused("op")
      OBVIOUS
    <2>3. /\ AskOK("op", Again("op", ListWorkers)) /\ Again("op", ListWorkers).ask = ListWorkers
          /\ Again("op", ListWorkers).verdict = "sent"
          /\ AskOK("op", Paused("op")) /\ Paused("op").verdict = "none"
      BY RequestsAre, SendsAre, OperationsDiffer
    <2>4. /\ AskOK("op", r) /\ r.verdict \in {"none", "sent"}
          /\ op' = "reload" => r.ask = ListWorkers
          /\ r.verdict = "sent" => r.ask = ListWorkers
      BY <2>2, <2>3
    <2>5. call' = [call EXCEPT !["op"] = r] /\ call'["op"] = r
      BY <2>1, <2>2, TypeIs
    <2>6. r.verdict = "sent" => r.ask.then \notin {"edit", "reload"}
      BY <2>4, OperationsDiffer
    <2>7. /\ op' \in {"none", "asked", "waiting", "polling", "reload"}
          /\ op' = "reload" => call'["op"].ask = ListWorkers
          /\ UNCHANGED <<page, view, due, stored, form, leaving, late, link, owed>>
      BY <2>1, <2>4, <2>5 DEF tab
    <2> QED
      BY <1>1, <2>4, <2>5, <2>6, <2>7, SlotKeeps, TimeStands DEF RestTyped, link
  <1> QED
    BY <1>2, <1>3

LEMMA FinishedKeeps ==
  ASSUME TypeOK, DashboardInv, Finished
  PROVE  TypeOK' /\ DashboardInv'
  <1> RestTyped /\ "op" \in Calls \ {"auth"}
    BY TypeIs, SlotsDiffer
  <1>1. UNCHANGED <<account, data, happened>> /\ SignedIn /\ op = "reload"
    BY DEF Finished, DashboardInv, LoginPageOK
  <1>2. CASE IsSessionInvalid("op")
    BY <1>1, <1>2, RedirectKeeps DEF Finished
  <1>3. CASE ~IsSessionInvalid("op")
    <2>1. /\ op' = "none"
          /\ view' = IF Ok("op") /\ call["op"].mine THEN call["op"].seen ELSE view
          /\ call' = [call EXCEPT !["op"] = Idle]
          /\ UNCHANGED <<page, due, stored, form, leaving, late, link, owed>>
      BY <1>3 DEF Finished
    <2>2. AskOK("op", Idle) /\ Idle.verdict = "none" /\ AskOK("op", call["op"])
      BY RequestsAre
    <2>3. call["op"].seen \in 0 .. MaxHappenings
      BY <1>1, <2>2, OperationsDiffer, DashboardAssumption
      DEF AskOK, Request, DashboardInv, ReloadsAsk
    <2>4. view' \in 0 .. NoVersion
      BY <2>1, <2>3, DashboardAssumption DEF RestTyped, NoVersion
    <2>5. /\ call' = [call EXCEPT !["op"] = Idle] /\ op' = "none"
          /\ UNCHANGED <<page, due, stored, form, leaving, late, link, owed>>
      BY <2>1
    <2> QED
      BY <1>1, <2>2, <2>4, <2>5, SlotKeeps, TimeStands DEF RestTyped, link
  <1> QED
    BY <1>2, <1>3
(***************************************************************************)
(* The stream of events.                                                   *)
(***************************************************************************)
LEMMA OpenStreamKeeps ==
  ASSUME TypeOK, DashboardInv, OpenStream
  PROVE  TypeOK' /\ DashboardInv'
  <1> RestTyped /\ "stream" \in Calls \ {"auth"} /\ "stream" \notin Loads
    BY TypeIs, SlotsDiffer
  <1>1. /\ AskOK("stream", Sent(OpenUserEventStream))
        /\ Sent(OpenUserEventStream).verdict = "sent"
    BY SendsAre, OperationsDiffer
  <1>2. /\ SignedIn /\ conn' = "opening"
        /\ call' = [call EXCEPT !["stream"] = Sent(OpenUserEventStream)]
        /\ UNCHANGED <<tab, action, had, stream, chan, account, data, happened, owed>>
    BY DEF OpenStream
  <1>3. op' = "reload" => call'["op"].ask = ListWorkers
    BY <1>2, SlotsDiffer, TypeIs DEF DashboardInv, ReloadsAsk, action
  <1> QED
    BY <1>1, <1>2, <1>3, SlotKeeps, TimeStands DEF RestTyped, action, tab

LEMMA StreamOpenedKeeps ==
  ASSUME TypeOK, DashboardInv, StreamOpened
  PROVE  TypeOK' /\ DashboardInv'
  <1> RestTyped /\ "stream" \in Calls \ {"auth"} /\ "stream" \notin Loads
    BY TypeIs, SlotsDiffer
  <1>1. UNCHANGED <<account, data, happened>> /\ SignedIn
    BY DEF StreamOpened, DashboardInv, LoginPageOK
  <1>2. CASE IsSessionInvalid("stream")
    BY <1>1, <1>2, RedirectKeeps DEF StreamOpened
  <1>3. CASE ~IsSessionInvalid("stream")
    <2>1. /\ conn' \in {"open", "closed"} /\ had' \in BOOLEAN /\ due' \in BOOLEAN
          /\ call' = [call EXCEPT !["stream"] = Idle]
          /\ UNCHANGED <<page, view, stored, form, leaving, action, stream, chan, owed>>
      BY <1>3 DEF StreamOpened
    <2>2. AskOK("stream", Idle) /\ Idle.verdict = "none"
      BY RequestsAre
    <2>3. op' = "reload" => call'["op"].ask = ListWorkers
      BY <2>1, SlotsDiffer, TypeIs DEF DashboardInv, ReloadsAsk, action
    <2> QED
      BY <1>1, <2>1, <2>2, <2>3, SlotKeeps, TimeStands DEF RestTyped, action
  <1> QED
    BY <1>2, <1>3

LEMMA LinkKeeps ==
  ASSUME TypeOK, DashboardInv, StreamEvent \/ StreamEnded \/ Watchdog \/ Break
  PROVE  TypeOK' /\ DashboardInv'
  <1> RestTyped /\ "op" \in Calls \ {"auth"}
    BY TypeIs, SlotsDiffer
  <1>1. AskOK("op", call["op"]) /\ call = [call EXCEPT !["op"] = call["op"]]
    BY RequestsAre
  <1>2. /\ SignedIn
        /\ UNCHANGED <<page, view, stored, form, leaving, call, action, account, data, owed, had>>
    BY DEF StreamEvent, StreamEnded, Watchdog, Break, tab, DashboardInv, LoginPageOK
  <1>3. op' = "reload" => call'["op"].ask = ListWorkers
    BY <1>2 DEF DashboardInv, ReloadsAsk, action
  <1>4. due' \in BOOLEAN
    BY DEF StreamEvent, StreamEnded, Watchdog, Break, tab, RestTyped
  <1>5. /\ conn' \in {"closed", "opening", "open"} /\ chan' \in 0 .. ChanCap
        /\ stream' \in {"none", "live", "ending", "silent"}
    BY DashboardAssumption DEF StreamEvent, StreamEnded, Watchdog, Break, RestTyped
  <1>6. happened' \in {happened, happened + 1} /\ happened' <= MaxHappenings
    BY HappensCounts, TimeStands DEF StreamEvent, StreamEnded, Watchdog, Break
  <1> QED
    BY <1>1, <1>2, <1>3, <1>4, <1>5, <1>6, SlotKeeps DEF RestTyped, action

LEMMA VisibilityChangeKeeps ==
  ASSUME TypeOK, DashboardInv, VisibilityChange
  PROVE  TypeOK' /\ DashboardInv'
  <1> RestTyped /\ "stream" \in Calls \ {"auth"} /\ "stream" \notin Loads
    BY TypeIs, SlotsDiffer
  <1>1. /\ SignedIn /\ due' \in BOOLEAN
        /\ UNCHANGED <<page, view, stored, form, leaving, action, account, data, owed>>
        /\ happened' \in {happened, happened + 1} /\ happened' <= MaxHappenings
    BY HappensCounts DEF VisibilityChange
  <1>2. /\ AskOK("stream", Idle) /\ Idle.verdict = "none" /\ AskOK("stream", call["stream"])
        /\ call = [call EXCEPT !["stream"] = call["stream"]]
    BY RequestsAre
  <1>3. CASE UNCHANGED <<call, link>>
    <2>1. op' = "reload" => call'["op"].ask = ListWorkers
      BY <1>1, <1>3 DEF DashboardInv, ReloadsAsk, action
    <2> QED
      BY <1>1, <1>2, <1>3, <2>1, SlotKeeps DEF RestTyped, action, link
  <1>4. CASE /\ conn' = "closed" /\ call' = [call EXCEPT !["stream"] = Idle]
             /\ stream' = "none" /\ chan' = 0 /\ had' = had
    <2>1. op' = "reload" => call'["op"].ask = ListWorkers
      BY <1>1, <1>4, SlotsDiffer, TypeIs DEF DashboardInv, ReloadsAsk, action
    <2>2. chan' \in 0 .. ChanCap
      BY <1>4, DashboardAssumption
    <2> QED
      BY <1>1, <1>2, <1>4, <2>1, <2>2, SlotKeeps DEF RestTyped, action
  <1> QED
    BY <1>3, <1>4 DEF VisibilityChange

(***************************************************************************)
(* The Master.                                                             *)
(***************************************************************************)
\* A step of the Master that no request sees.
LEMMA MasterKeeps ==
  ASSUME TypeOK, DashboardInv, UNCHANGED <<tab, call, action, conn, had>>,
         data' \in {data, data + 1}, happened' \in {happened, happened + 1},
         data' = data + 1 => happened' = happened + 1, happened' <= MaxHappenings,
         valid' \in BOOLEAN, active' \in BOOLEAN, owed' \in BOOLEAN,
         ~valid \/ ~active => ~valid' \/ ~active',
         stream' \in {"none", "live", "ending", "silent"}, chan' \in 0 .. ChanCap
  PROVE  TypeOK' /\ DashboardInv'
  <1> RestTyped
    BY TypeIs
  <1>1. AsksOK'
    BY DEF DashboardInv, AsksOK, AskOK
  <1>2. ReloadsAsk' /\ LoginPageOK' /\ PagesOK'
    BY DEF DashboardInv, ReloadsAsk, LoginPageOK, PagesOK, SignedIn, Quiet, tab, action
  <1>3. RefusedForCause'
    BY DEF DashboardInv, RefusedForCause, SignedIn, IsSessionInvalid, Verdict, tab
  <1>4. VersionsCounted'
    BY DEF DashboardInv, VersionsCounted, Adds, Verdict, RestTyped
  <1>5. RestTyped'
    <2>1. data' \in 0 .. MaxHappenings /\ happened' \in 0 .. MaxHappenings
      BY <1>4, DashboardAssumption DEF RestTyped, VersionsCounted
    <2> QED
      BY <2>1 DEF RestTyped, tab, action
  <1> QED
    BY <1>1, <1>2, <1>3, <1>4, <1>5, TypeIs DEF DashboardInv

\* Publish puts no more into the channel than it holds.
LEMMA PublishFits ==
  ASSUME TypeOK, Publish
  PROVE  chan' \in 0 .. ChanCap /\ owed' \in BOOLEAN
  BY DashboardAssumption DEF TypeOK, Publish

LEMMA ChangeKeeps ==
  ASSUME TypeOK, DashboardInv, Change
  PROVE  TypeOK' /\ DashboardInv'
  <1>1. chan' \in 0 .. ChanCap /\ owed' \in BOOLEAN
    BY PublishFits DEF Change, TypeOK
  <1> QED
    BY <1>1, HappensCounts, MasterKeeps DEF Change, TypeOK, account

LEMMA AccountKeeps ==
  ASSUME TypeOK, DashboardInv, AuthTicker \/ AccountChanges
  PROVE  TypeOK' /\ DashboardInv'
  <1>1. CASE AuthTicker
    BY <1>1, TimeStands, MasterKeeps DEF AuthTicker, TypeOK, account
  <1>2. CASE AccountChanges
    <2>1. /\ valid' \in BOOLEAN /\ active' \in BOOLEAN
          /\ ~valid \/ ~active => ~valid' \/ ~active'
      <3>1. valid \in BOOLEAN /\ active \in BOOLEAN
        BY DEF TypeOK
      <3>2. CASE valid /\ valid' = FALSE /\ active' = active
        BY <3>1, <3>2
      <3>3. CASE active /\ active' = FALSE /\ valid' = valid
        BY <3>1, <3>3
      <3>4. CASE ~active /\ ~valid /\ active' = TRUE /\ valid' = valid
        BY <3>1, <3>4
      <3> QED
        BY <1>2, <3>2, <3>3, <3>4 DEF AccountChanges
    <2>2. /\ Happens /\ UNCHANGED <<tab, call, action, link, data, owed>>
      BY <1>2 DEF AccountChanges
    <2> QED
      BY <2>1, <2>2, HappensCounts, MasterKeeps DEF TypeOK, link
  <1> QED
    BY <1>1, <1>2
\* The request c is served or lost: its slot keeps what it asks, and has a
\* verdict that a refusal for want of a session has a cause for.
LEMMA VerdictKeeps ==
  ASSUME TypeOK, DashboardInv, NEW c \in Calls, ~Quiet(c), NEW r, AskOK(c, r),
         call' = [call EXCEPT ![c] = r], r.ask = call[c].ask,
         r.verdict \notin {"none", "sent"},
         UNCHANGED <<tab, action, conn, had, active>>,
         data' \in {data, data + 1}, data' <= MaxHappenings,
         data' = data + 1 => c = "op" /\ Adds,
         happened' \in {happened, happened + 1}, happened' <= MaxHappenings,
         valid' \in BOOLEAN, SignedIn /\ ~valid => ~valid', owed' \in BOOLEAN,
         SignedIn /\ c # "auth" /\ r.verdict \in {"unauthorized", "disabled"}
           => ~valid' \/ ~active,
         stream' \in {"none", "live", "ending", "silent"}, chan' \in 0 .. ChanCap
  PROVE  TypeOK' /\ DashboardInv'
  <1> RestTyped
    BY TypeIs
  <1>1. /\ call' \in [Calls -> Request] /\ AsksOK'
        /\ call'[c] = r /\ \A k \in Calls \ {c} : call'[k] = call[k]
    BY Placed DEF DashboardInv
  <1>2. \A k \in Calls : call'[k].ask = call[k].ask
    BY <1>1
  <1>3. RestTyped'
    <2>1. data' \in 0 .. MaxHappenings /\ happened' \in 0 .. MaxHappenings
      BY DashboardAssumption DEF RestTyped
    <2> QED
      BY <2>1 DEF RestTyped, tab, action
  <1>4. ReloadsAsk' /\ LoginPageOK' /\ PagesOK'
    BY <1>1, <1>2, SlotsDiffer
    DEF DashboardInv, ReloadsAsk, LoginPageOK, PagesOK, SignedIn, Quiet, tab, action
  <1>5. RefusedForCause'
    <2> SUFFICES ASSUME SignedIn', NEW k \in Calls \ {"auth"}, IsSessionInvalid(k)'
                 PROVE  ~valid' \/ ~active'
      BY DEF RefusedForCause
    <2>1. SignedIn
      BY DEF SignedIn, tab
    <2>2. CASE k = c
      BY <1>1, <2>1, <2>2 DEF IsSessionInvalid, Verdict
    <2>3. CASE k # c
      BY <1>1, <2>1, <2>3 DEF IsSessionInvalid, Verdict, DashboardInv, RefusedForCause
    <2> QED
      BY <2>2, <2>3
  <1>6. VersionsCounted'
    BY <1>1, <1>2, SlotsDiffer DEF DashboardInv, VersionsCounted, Adds, Verdict, RestTyped
  <1> QED
    BY <1>1, <1>3, <1>4, <1>5, <1>6, TypeIs DEF DashboardInv

LEMMA LoseKeeps ==
  ASSUME TypeOK, DashboardInv, NEW c \in Calls, Lose(c)
  PROVE  TypeOK' /\ DashboardInv'
  <1> RestTyped
    BY TypeIs
  <1>1. PICK r : r = [call[c] EXCEPT !.verdict = "failed"]
    OBVIOUS
  <1>2. call[c] \in Request /\ AskOK(c, call[c])
    BY RequestsAre
  <1>3. /\ r \in Request /\ r.verdict = "failed" /\ r.ask = call[c].ask
        /\ r.seen = call[c].seen
    BY <1>1, <1>2 DEF Request
  <1>4. AskOK(c, r)
    BY <1>2, <1>3 DEF AskOK
  <1>5. call' = [call EXCEPT ![c] = r]
    BY <1>1 DEF Lose
  <1>6. stream' \in {"none", "live", "ending", "silent"}
    BY DEF Lose, RestTyped
  <1>7. /\ ~Quiet(c) /\ happened' = happened + 1 /\ happened' <= MaxHappenings
        /\ UNCHANGED <<tab, action, conn, had, chan, account, data, owed>>
    BY HappensCounts DEF Lose
  <1>8. data' = data /\ data' <= MaxHappenings /\ data' # data + 1
    BY <1>7, DashboardAssumption DEF RestTyped
  <1> QED
    BY <1>3, <1>4, <1>5, <1>6, <1>7, <1>8, VerdictKeeps DEF RestTyped, account

LEMMA ServeKeeps ==
  ASSUME TypeOK, DashboardInv, NEW c \in Calls, Serve(c)
  PROVE  TypeOK' /\ DashboardInv'
  <1> RestTyped
    BY TypeIs
  <1>1. PICK o : o = call[c].ask
    OBVIOUS
  <1>2. PICK verdict \in Judgements(o) :
          /\ data' = IF verdict = "ok" /\ o.then \in {"edit", "reload"} THEN data + 1 ELSE data
          /\ \E told \in IF verdict = "ok" THEN Tells(o, data') ELSE {0} :
                call' = [call EXCEPT ![c].verdict = verdict, ![c].seen = told]
          /\ valid' = IF verdict = "ok" /\ o \in {Login, Logout} THEN o = Login ELSE valid
          /\ IF verdict = "ok" /\ o = RevokeWorker THEN Publish /\ stream' = stream
             ELSE /\ owed' = owed
                  /\ IF verdict = "ok" /\ o = OpenUserEventStream
                     THEN stream' = "live" /\ chan' \in (IF had THEN 0 .. ChanCap ELSE {0})
                     ELSE UNCHANGED <<stream, chan>>
    BY <1>1 DEF Serve
  <1>3. PICK told \in IF verdict = "ok" THEN Tells(o, data') ELSE {0} :
          call' = [call EXCEPT ![c].verdict = verdict, ![c].seen = told]
    BY <1>2
  <1>4. /\ Verdict(c) = "sent" /\ ~Quiet(c)
        /\ UNCHANGED <<tab, action, conn, had, active, happened>>
    BY DEF Serve, Quiet, Verdict
  <1>5. call[c] \in Request /\ AskOK(c, call[c]) /\ o \in Operations
    BY <1>1, RequestsAre DEF Request
  <1>6. /\ verdict \in {"ok", "unauthorized", "disabled", "forbidden"}
        /\ verdict = "unauthorized" => ~valid
        /\ verdict = "disabled" => ~active
    BY DEF Judgements
  <1>7. verdict = "ok" /\ o.then \in {"edit", "reload"} => c = "op" /\ Adds
    <2>1. c \in Loads => o.then \notin {"edit", "reload"}
      BY <1>1, <1>5, ListsAreRead DEF AskOK
    <2>2. c \in {"auth", "stream"} => o.then \notin {"edit", "reload"}
      BY <1>1, <1>5, OperationsDiffer DEF AskOK
    <2> QED
      BY <1>1, <1>4, <2>1, <2>2 DEF Calls, Adds, Verdict
  <1>8. /\ data' \in {data, data + 1} /\ data' \in 0 .. MaxHappenings
        /\ data' = data + 1 => c = "op" /\ Adds
    <2>1. CASE verdict = "ok" /\ o.then \in {"edit", "reload"}
      BY <1>2, <1>7, <2>1, DashboardAssumption DEF DashboardInv, VersionsCounted, RestTyped
    <2>2. CASE ~(verdict = "ok" /\ o.then \in {"edit", "reload"})
      BY <1>2, <2>2, DashboardAssumption DEF RestTyped
    <2> QED
      BY <2>1, <2>2
  <1>9. told \in Nat /\ (o # GetTask => told <= MaxHappenings)
    BY <1>8, DashboardAssumption DEF Tells
  <1>10. PICK r : r = [call[c] EXCEPT !.verdict = verdict, !.seen = told]
    OBVIOUS
  <1>11. /\ r \in Request /\ r.verdict = verdict /\ r.ask = o /\ r.seen = told
    BY <1>1, <1>5, <1>6, <1>9, <1>10 DEF Request
  <1>12. AskOK(c, r)
    BY <1>1, <1>5, <1>9, <1>11 DEF AskOK
  <1>13. call' = [call EXCEPT ![c] = r]
    BY <1>3, <1>10, TypeIs
  <1>14. SignedIn => o # Login
    <2>1. c \in Loads => o # Login
      BY <1>1, <1>5, ListsAreRead DEF AskOK
    <2>2. c \in {"op", "stream"} => o # Login
      BY <1>1, <1>5, OperationsDiffer DEF AskOK
    <2>3. c = "auth" /\ SignedIn => o # Login
      BY <1>1, <1>4, OperationsDiffer DEF DashboardInv, PagesOK
    <2> QED
      BY <2>1, <2>2, <2>3 DEF Calls
  <1>15. valid' \in BOOLEAN /\ (SignedIn /\ ~valid => ~valid')
    BY <1>2, <1>14 DEF RestTyped
  <1>16. r.verdict \in {"unauthorized", "disabled"} => ~valid' \/ ~active
    BY <1>2, <1>6, <1>11
  <1>17. /\ stream' \in {"none", "live", "ending", "silent"} /\ chan' \in 0 .. ChanCap
         /\ owed' \in BOOLEAN
    <2>1. CASE Publish /\ stream' = stream
      BY <2>1, PublishFits DEF RestTyped
    <2>2. CASE owed' = owed /\ stream' = "live" /\ chan' \in (IF had THEN 0 .. ChanCap ELSE {0})
      BY <2>2, DashboardAssumption DEF RestTyped
    <2>3. CASE owed' = owed /\ UNCHANGED <<stream, chan>>
      BY <2>3 DEF RestTyped
    <2> QED
      BY <1>2, <2>1, <2>2, <2>3
  <1>18. data' <= MaxHappenings
    BY <1>8, DashboardAssumption
  <1> QED
    BY <1>4, <1>6, <1>8, <1>11, <1>12, <1>13, <1>15, <1>16, <1>17, <1>18, TimeStands,
       VerdictKeeps, <1>1
(***************************************************************************)
(* The theorems.                                                           *)
(***************************************************************************)
LEMMA InitKeeps == Init => TypeOK /\ DashboardInv
  <1> SUFFICES ASSUME Init
               PROVE  TypeOK /\ DashboardInv
    OBVIOUS
  <1>1. /\ call \in [Calls -> Request] /\ \A c \in Calls : AskOK(c, call[c])
        /\ \A c \in Calls : call[c] = Idle /\ call[c].verdict = "none"
    BY AllIdle DEF Init
  <1>2. view \in 0 .. NoVersion /\ chan \in 0 .. ChanCap /\ data \in 0 .. MaxHappenings
        /\ happened \in 0 .. MaxHappenings
    BY DashboardAssumption DEF Init, NoVersion
  <1>3. RestTyped
    BY <1>2 DEF Init, RestTyped
  <1>4. AsksOK
    BY <1>1 DEF AsksOK
  <1>5. ReloadsAsk /\ LoginPageOK /\ PagesOK /\ RefusedForCause /\ VersionsCounted
    BY <1>1, SlotsDiffer
    DEF Init, ReloadsAsk, LoginPageOK, PagesOK, RefusedForCause, VersionsCounted, SignedIn,
        Quiet, Adds, Verdict
  <1> QED
    BY <1>1, <1>3, <1>4, <1>5, TypeIs DEF DashboardInv

LEMMA StepKeeps == TypeOK /\ DashboardInv /\ [Next]_vars => TypeOK' /\ DashboardInv'
  <1> SUFFICES ASSUME TypeOK, DashboardInv, [Next]_vars
               PROVE  TypeOK' /\ DashboardInv'
    OBVIOUS
  <1>1. CASE User
    BY <1>1, LoginKeeps, HandleLogoutKeeps, OpenLoginKeeps, VisibilityChangeKeeps,
       NavigateKeeps, ActKeeps DEF User
  <1>2. CASE Settle
    BY <1>2, SessionCheckedKeeps, FormAnsweredKeeps, LoggedOutKeeps, ActedKeeps, PollKeeps,
       PolledKeeps, FinishedKeeps DEF Settle
  <1>3. CASE LinkStep
    BY <1>3, OpenStreamKeeps, StreamOpenedKeeps, LinkKeeps DEF LinkStep
  <1>4. CASE Timer \/ Deadline
    BY <1>4, TimerKeeps
  <1>5. CASE \E c \in Loads : Load(c) \/ Loaded(c)
    BY <1>5, LoadKeeps, LoadedKeeps
  <1>6. CASE \E c \in Calls : Serve(c) \/ Lose(c)
    BY <1>6, ServeKeeps, LoseKeeps
  <1>7. CASE Change \/ Break \/ AuthTicker \/ AccountChanges
    BY <1>7, ChangeKeeps, LinkKeeps, AccountKeeps
  <1>8. CASE UNCHANGED vars
    <2>1. UNCHANGED <<tab, call, action, conn, had, data, happened, account, owed, stream, chan>>
      BY <1>8 DEF vars, link
    <2> QED
      BY <2>1, TimeStands, MasterKeeps DEF TypeOK, account
  <1> QED
    BY <1>1, <1>2, <1>3, <1>4, <1>5, <1>6, <1>7, <1>8 DEF Next

\* The inductive invariant: the slots for requests, the pages and the user's
\* action go together, whatever is clicked, lost, answered late or changed at
\* the Master, with any number of loads under way.
THEOREM DashboardIsSound == Spec => [](TypeOK /\ DashboardInv)
  BY InitKeeps, StepKeeps, PTL DEF Spec

\* The tab and its Master keep to their types: what is shown is a version of the
\* Master's list, and the channel of a subscriber holds no more than its size.
THEOREM DashboardIsTyped == Spec => []TypeOK
  BY DashboardIsSound, PTL

\* One step gives the session up for cause only.
LEMMA StepClearsForCause ==
  ASSUME TypeOK, DashboardInv, [Next]_vars, stored, ~stored'
  PROVE  ~valid \/ ~active \/ leaving \/ ~SignedIn
  <1> SUFFICES ASSUME SignedIn, ~leaving
               PROVE  ~valid \/ ~active
    OBVIOUS
  <1>1. stored' # stored
    OBVIOUS
  <1>2. \A c \in Calls \ {"auth"} : IsSessionInvalid(c) => ~valid \/ ~active
    BY DEF DashboardInv, RefusedForCause
  <1>3. ASSUME LoadMasterSession(FALSE)
        PROVE  ~valid
    BY <1>3 DEF LoadMasterSession
  <1>4. form = "origin"
    BY DEF DashboardInv, PagesOK
  <1>5. CASE User
    <2>1. ASSUME NEW p \in Shown, Navigate(p)
          PROVE  ~valid
      BY <1>1, <1>3, <2>1 DEF Navigate
    <2>2. CASE OpenLogin
      BY <1>1, <1>3, <2>2 DEF OpenLogin
    <2>3. CASE HandleLogout
      BY <1>1, <1>3, <2>3 DEF HandleLogout
    <2>4. ~ConnectToMaster /\ ~Authenticate /\ ~ResetConnection /\ ~VisibilityChange
      BY <1>1 DEF ConnectToMaster, Authenticate, ResetConnection, VisibilityChange, tab
    <2>5. ASSUME NEW o \in page.ops
          PROVE  ~Act(o)
      BY <1>1 DEF Act, tab
    <2> QED
      BY <1>5, <2>1, <2>2, <2>3, <2>4, <2>5 DEF User
  <1>6. CASE Settle
    <2>1. ~SessionChecked /\ ~FormAnswered /\ ~LoggedOut /\ ~Poll
      BY <1>1, <1>4 DEF SessionChecked, FormAnswered, LoggedOut, Poll, tab
    <2>2. Acted \/ Polled \/ Finished => IsSessionInvalid("op")
      BY <1>1 DEF Acted, Polled, Finished, tab
    <2> QED
      BY <1>2, <1>6, <2>1, <2>2, SlotsDiffer DEF Settle
  <1>7. CASE LinkStep
    <2>1. StreamOpened => IsSessionInvalid("stream")
      BY <1>1 DEF StreamOpened
    <2>2. ~OpenStream /\ ~StreamEvent /\ ~StreamEnded /\ ~Watchdog
      BY <1>1 DEF OpenStream, StreamEvent, StreamEnded, Watchdog, tab
    <2> QED
      BY <1>2, <1>7, <2>1, <2>2, SlotsDiffer DEF LinkStep
  <1>8. ASSUME NEW c \in Loads, Load(c) \/ Loaded(c)
        PROVE  ~valid \/ ~active
    BY <1>1, <1>2, <1>8, SlotsDiffer DEF Load, Loaded
  <1>9. ~Timer /\ ~Deadline /\ ~AuthTicker /\ ~Change /\ ~Break /\ ~AccountChanges
    BY <1>1 DEF Timer, Deadline, AuthTicker, Change, Break, AccountChanges, tab
  <1>10. ASSUME NEW c \in Calls
         PROVE  ~Serve(c) /\ ~Lose(c)
    BY <1>1 DEF Serve, Lose, tab
  <1>11. ~ UNCHANGED vars
    BY <1>1 DEF vars, tab
  <1> QED
    BY <1>5, <1>6, <1>7, <1>8, <1>9, <1>10, <1>11 DEF Next

\* The tab gives its session up only when the Master has ended it, its time is
\* over, or the user is logging out or at the login page: redirectToLogin is
\* called in the name of no refusal that the session did not earn.
THEOREM SessionsEndForCause == Spec => ClearedForCause
  <1>1. /\ TypeOK /\ DashboardInv /\ [Next]_vars
        => [stored /\ ~stored' => ~valid \/ ~active \/ leaving \/ ~SignedIn]_vars
    BY StepClearsForCause
  <1> QED
    BY <1>1, DashboardIsSound, PTL DEF Spec, ClearedForCause
=============================================================================
