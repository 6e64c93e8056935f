------------------------------- MODULE Access -------------------------------
(***************************************************************************)
(* Who may use the Master: accounts and what is issued to them (web        *)
(* sessions, API tokens, invitations, registration tokens:                 *)
(* master/internal/store), their Workers, and the Workers' nonces and      *)
(* sessions (master/internal/auth), under the handlers of                  *)
(* master/internal/httpapi.                                                *)
(*                                                                         *)
(* A handler reads what it needs and then makes its calls one by one.      *)
(* handler[h].todo is the sequence of the calls still to make, each with   *)
(* what it is about.  A call is one SQL statement or transaction, or       *)
(* holds the mutex of one table in memory; the calls of other handlers     *)
(* take place in between, and the process may be killed at any point.      *)
(*                                                                         *)
(* Names, passwords, roles and the online flag are left out: no property   *)
(* reads them.  Of authorization the model keeps that the one who asks has *)
(* an active account and, where the handler uses it, a valid session.      *)
(***************************************************************************)
EXTENDS Integers, Sequences, FiniteSets, SequencesExt

CONSTANTS
  User, NoUser,
  Credential, NoCredential,  \* names for what is issued to users
  Key,                       \* public keys of Worker installations
  Worker, NoWorker,
  Nonce,                     \* the challenges held at once
  Bearer,                    \* the Worker sessions held at once
  Handler,                   \* the requests served at once
  MaxUses,                   \* max_uses of a registration token
  Registered,                \* the accounts that a database may hold at first, one set for each database
  Request,                   \* the requests that clients make
  AdminsOverlap              \* whether an account is changed by two of them at once

ASSUME AccessAssumption ==
  /\ NoUser \notin User
  /\ NoCredential \notin Credential
  /\ NoWorker \notin Worker
  /\ IsFiniteSet(Worker)
  /\ MaxUses \in Nat
  /\ Registered \subseteq SUBSET User
  /\ {"nobody", "first", "admin"} \cap Credential = {}
  /\ AdminsOverlap \in BOOLEAN

VARIABLES
  users,        \* table users: status
  opened,       \* how the account was opened: as the first, by an invitation, by an admin
  credentials,  \* tables user_sessions, auth_tokens, user_invitations, registration_tokens
  workers,      \* table workers
  binding,      \* table worker_owners: the owner, or NoUser when revoked
  nonces,       \* ChallengeStore: the Worker of each nonce
  bearers,      \* SessionStore
  blocked,      \* blockedWorkers of the task store
  handler       \* the requests being served

accessVars == << users, opened, credentials, workers, binding, nonces, bearers, blocked, handler >>
accounts == << users, opened, credentials >>
fleet == << workers, binding >>
memory == << nonces, bearers, blocked >>

Kind == {"session", "token", "invitation", "registration"}
Status == {"absent", "active", "disabled", "deleted"}

\* `over` is revoked or expired; `uses` counts the Workers or users made with it.
Issued == [kind : Kind \cup {"none"}, user : User \cup {NoUser}, over : BOOLEAN, uses : Nat]

Row == [state : {"absent", "active", "revoked"}, owner : User \cup {NoUser},
        key : Key \cup {NoCredential}, token : Credential \cup {NoCredential}]

NoBearer == [worker |-> NoWorker, user |-> NoUser]

(***************************************************************************)
(* A request being served: the calls still to make, the user it is about,  *)
(* the credential it makes and the one it was made with.  `listed` is the  *)
(* sessions it has read, or, as history, what it is to end by the time it  *)
(* is answered.                                                            *)
(***************************************************************************)
Idle == [todo |-> << >>, user |-> NoUser, new |-> NoCredential, own |-> NoCredential,
         listed |-> {}]

Active(u) == u \in User /\ users[u] = "active"
Usable(c, kind) == credentials[c].kind = kind /\ ~ credentials[c].over
Spent(c) == credentials[c].over \/ (credentials[c].kind = "invitation" /\ credentials[c].uses > 0)
Held(u, kinds) == {c \in Credential : /\ credentials[c].user = u
                                      /\ credentials[c].kind \in kinds
                                      /\ ~ Spent(c)}
Somebody == \E a \in User : Active(a)
LoggedIn(s) == Usable(s, "session") /\ Active(credentials[s].user)

\* What is made in the end is named when the request begins.
Fresh == {c \in Credential : credentials[c].kind = "none" /\ \A h \in Handler : handler[h].new # c}
Unborn == {u \in User : users[u] = "absent" /\ \A h \in Handler : handler[h].user # u}

Issue(kind, u) == [kind |-> kind, user |-> u, over |-> FALSE, uses |-> 0]

-----------------------------------------------------------------------------
(* Serving a request. *)

\* The calls named, for the first Worker of a list, then for the second, and so on.
ForEach(list, names) ==
  LET n == Len(names) IN
  [i \in 1 .. Len(list) * n |-> << names[((i - 1) % n) + 1], list[((i - 1) \div n) + 1] >>]

Answer == << "Answer", NoWorker >>

Begin(h, name, request) ==
  /\ name \in Request
  /\ handler[h] = Idle
  /\ handler' = [handler EXCEPT ![h] = request]

Calls(h, name, of) == handler[h].todo # << >> /\ Head(handler[h].todo) = << name, of >>
Rest(request) ==
  IF Len(request.todo) = 1 THEN Idle ELSE [request EXCEPT !.todo = Tail(@)]
Proceed(h) == handler' = [handler EXCEPT ![h] = Rest(@)]
Return(h) == handler' = [handler EXCEPT ![h] = Idle]

-----------------------------------------------------------------------------
(* Opening an account and logging in. *)

Nobody == \A u \in User : users[u] = "absent"

\* handleRegister counts the users outside the transaction that adds one.
Register(h) ==
  /\ \E u \in Unborn, new \in Fresh, code \in Credential \cup {NoCredential} :
       /\ code = NoCredential <=> Nobody
       /\ ~ Nobody => credentials[code].kind = "invitation"
       /\ Begin(h, "register", [Idle EXCEPT !.user = u, !.new = new, !.own = code,
                                  !.todo = << << "Open", IF Nobody THEN "first" ELSE "invited" >> >>])
  /\ UNCHANGED << accounts, fleet, memory >>

Open(h, by, issued) ==
  /\ users' = [users EXCEPT ![handler[h].user] = "active"]
  /\ opened' = [opened EXCEPT ![handler[h].user] = by]
  /\ credentials' = [issued EXCEPT ![handler[h].new] = Issue("session", handler[h].user)]

OpenFirst(h) ==
  /\ Calls(h, "Open", "first")
  /\ IF Nobody THEN Open(h, "first", credentials) ELSE UNCHANGED accounts
  /\ Proceed(h)
  /\ UNCHANGED << fleet, memory >>

\* Mutant: a used invitation is accepted.
OpenInvitedTwice(h) ==
  /\ Calls(h, "Open", "invited")
  /\ LET code == handler[h].own IN
     \/ Usable(code, "invitation") /\ Open(h, code, [credentials EXCEPT ![code].uses = 1])
     \/ UNCHANGED accounts
  /\ Proceed(h)
  /\ UNCHANGED << fleet, memory >>

\* A name that is taken makes it fail as well.
OpenInvited(h) ==
  /\ Calls(h, "Open", "invited")
  /\ LET code == handler[h].own IN
     \/ Usable(code, "invitation") /\ ~ Spent(code)
        /\ Open(h, code, [credentials EXCEPT ![code].uses = 1])
     \/ UNCHANGED accounts
  /\ Proceed(h)
  /\ UNCHANGED << fleet, memory >>

AdminCreateUser(u) ==
  /\ "create user" \in Request
  /\ u \in Unborn /\ ~ Nobody
  /\ users' = [users EXCEPT ![u] = "active"]
  /\ opened' = [opened EXCEPT ![u] = "admin"]
  /\ UNCHANGED << credentials, fleet, memory, handler >>

\* The user is read and the password verified; the session is made later.
Login(h) ==
  /\ \E u \in User, new \in Fresh :
       Active(u) /\ Begin(h, "login", [Idle EXCEPT !.user = u, !.new = new,
                                         !.todo = << << "Create", "session" >> >>])
  /\ UNCHANGED << accounts, fleet, memory >>

\* The creator is the user of a session, or an administrator for any user, even a deleted one.
AskFor(h, kind) ==
  /\ \E u \in User, new \in Fresh :
       /\ kind = "invitation" => Active(u)
       /\ Somebody
       /\ users[u] # "absent"
       /\ Begin(h, kind, [Idle EXCEPT !.user = u, !.new = new, !.todo = << << "Create", kind >> >>])
  /\ UNCHANGED << accounts, fleet, memory >>

Create(h, kind) ==
  /\ Calls(h, "Create", kind)
  /\ credentials' = [credentials EXCEPT ![handler[h].new] = Issue(kind, handler[h].user)]
  /\ Proceed(h)
  /\ UNCHANGED << users, opened, fleet, memory >>

\* Logging out, revocation by its owner or an administrator, and expiry.
End(c) ==
  /\ "end" \in Request
  /\ credentials[c].kind # "none" /\ ~ Spent(c)
  /\ credentials' = [credentials EXCEPT ![c].over = TRUE]
  /\ UNCHANGED << users, opened, fleet, memory, handler >>

-----------------------------------------------------------------------------
(* Changing an account. *)

ChangePassword(h) ==
  /\ \E s \in Credential :
       LoggedIn(s) /\ Begin(h, "change password",
                        [Idle EXCEPT !.user = credentials[s].user, !.own = s,
                           !.todo = << << "ListSessions", NoWorker >>, << "RevokeListed", NoWorker >>, Answer >>])
  /\ UNCHANGED << accounts, fleet, memory >>

ListSessions(h) ==
  /\ Calls(h, "ListSessions", NoWorker)
  /\ LET listed == Held(handler[h].user, {"session"}) \ {handler[h].own} IN
     handler' = [handler EXCEPT ![h] = [Rest(@) EXCEPT !.listed = listed]]
  /\ UNCHANGED << accounts, fleet, memory >>

RevokeListed(h) ==
  /\ Calls(h, "RevokeListed", NoWorker)
  /\ IF \A c \in handler[h].listed : Spent(c)
     THEN Proceed(h) /\ UNCHANGED credentials
     ELSE /\ \E c \in handler[h].listed :
               ~ Spent(c) /\ credentials' = [credentials EXCEPT ![c].over = TRUE]
          /\ UNCHANGED handler
  /\ UNCHANGED << users, opened, fleet, memory >>

\* Mutant: the Workers are not blocked.
StatusCallsNoBlock(status) ==
  IF status = "disabled"
  THEN << << "SetStatus", "disabled" >>, << "RevokeAll", "session" >>, << "RevokeUser", NoWorker >> >>
  ELSE << << "SetStatus", "active" >>, << "OwnedWorkers", "unblock" >> >>

StatusCalls(status) ==
  IF status = "disabled"
  THEN << << "SetStatus", "disabled" >>, << "RevokeAll", "session" >>,
          << "RevokeUser", NoWorker >>, << "OwnedWorkers", "disconnect" >> >>
  ELSE << << "SetStatus", "active" >>, << "OwnedWorkers", "unblock" >> >>

MayChange(u) ==
  AdminsOverlap \/ \A g \in Handler : handler[g].user = u => ~ Contains(handler[g].todo, Answer)

PasswordCalls == << << "RevokeAll", "session" >>, << "RevokeUser", NoWorker >> >>

\* The user is read once, before anything else.
PatchUser(h) ==
  /\ \E u \in User, status \in {"active", "disabled"}, password \in BOOLEAN :
       /\ users[u] \in {"active", "disabled"} /\ MayChange(u)
       /\ Somebody
       /\ status # users[u] \/ password
       /\ LET revokes == password \/ (status = "disabled" /\ users[u] = "active") IN
          Begin(h, IF status = "active" /\ users[u] = "disabled" THEN "enable" ELSE "patch",
                [Idle EXCEPT !.user = u,
                   !.listed = IF revokes THEN Held(u, {"session"}) ELSE {},
                   !.todo = (IF status # users[u] THEN StatusCalls(status) ELSE << >>)
                            \o (IF password THEN PasswordCalls ELSE << >>) \o << Answer >>])
  /\ UNCHANGED << accounts, fleet, memory >>

\* Mutant: invitations are forgotten.
DeleteCallsSkipping ==
  << << "SetStatus", "deleted" >>, << "RevokeAll", "session" >>, << "RevokeAll", "token" >>,
     << "RevokeAll", "registration" >>,
     << "RevokeUser", NoWorker >>, << "OwnedWorkers", "remove" >>, Answer >>

DeleteCalls ==
  << << "SetStatus", "deleted" >>, << "RevokeAll", "session" >>, << "RevokeAll", "token" >>,
     << "RevokeAll", "registration" >>, << "RevokeAll", "invitation" >>,
     << "RevokeUser", NoWorker >>, << "OwnedWorkers", "remove" >>, Answer >>

\* An administrator does not delete his own account.
DeleteUser(h) ==
  /\ \E u \in User :
       /\ users[u] \in {"active", "disabled"} /\ MayChange(u)
       /\ \E a \in User \ {u} : Active(a)
       /\ Begin(h, "delete", [Idle EXCEPT !.user = u, !.listed = Held(u, Kind), !.todo = DeleteCalls])
  /\ UNCHANGED << accounts, fleet, memory >>

SetStatus(h, status) ==
  /\ Calls(h, "SetStatus", status)
  /\ users' = [users EXCEPT ![handler[h].user] = status]
  /\ Proceed(h)
  /\ UNCHANGED << opened, credentials, fleet, memory >>

RevokeAll(h, kind) ==
  /\ Calls(h, "RevokeAll", kind)
  /\ credentials' = [c \in Credential |->
       IF c \in Held(handler[h].user, {kind}) THEN [credentials[c] EXCEPT !.over = TRUE]
                                              ELSE credentials[c]]
  /\ Proceed(h)
  /\ UNCHANGED << users, opened, fleet, memory >>

RevokeUser(h) ==
  /\ Calls(h, "RevokeUser", NoWorker)
  /\ bearers' = [t \in Bearer |-> IF bearers[t].user = handler[h].user THEN NoBearer ELSE bearers[t]]
  /\ Proceed(h)
  /\ UNCHANGED << accounts, fleet, nonces, blocked >>

WorkerCalls == [disconnect |-> << "Block" >>, unblock |-> << "Unblock" >>,
                remove |-> << "Block", "RevokeWorker" >>]

\* ListOwnedWorkers, and then a loop over the list.
OwnedWorkers(h) ==
  /\ \E do \in DOMAIN WorkerCalls :
       /\ Calls(h, "OwnedWorkers", do)
       /\ \E list \in SetToSeqs({w \in Worker : binding[w] = handler[h].user}) :
            handler' = [handler EXCEPT ![h].todo = ForEach(list, WorkerCalls[do]) \o Tail(@)]
  /\ UNCHANGED << accounts, fleet, memory >>

Answered(h) ==
  /\ Calls(h, "Answer", NoWorker)
  /\ Proceed(h)
  /\ UNCHANGED << accounts, fleet, memory >>

-----------------------------------------------------------------------------
(* Workers: registration, revocation, challenges, sessions and claims. *)

Superseded(k) == {v \in Worker : workers[v].state = "active" /\ workers[v].key = k}
\* Mutant: the rows keep their state.
EndedNone(set) == workers

EndedAmong(set) ==
  [v \in Worker |-> IF v \in set THEN [workers[v] EXCEPT !.state = "revoked"] ELSE workers[v]]

\* A retry with the same token and key registers nothing: it is answered or refused.
MayRegister(c, k) ==
  /\ Usable(c, "registration") /\ credentials[c].uses < MaxUses
  /\ \A v \in Worker : workers[v].token = c => workers[v].key # k

CleanUp == << "RevokeNonces", "RevokeBearers", "Block" >>

\* RegisterWorkerAtomic, and then the calls that clean up after the superseded.
RegisterWorker(h, c, k, w) ==
  /\ workers[w].state = "absent" /\ MayRegister(c, k)
  /\ workers' = [EndedAmong(Superseded(k)) EXCEPT ![w] =
                   [state |-> "active", owner |-> credentials[c].user, key |-> k, token |-> c]]
  /\ binding' = [v \in Worker |-> IF v = w THEN credentials[c].user
                                  ELSE IF v \in Superseded(k) THEN NoUser ELSE binding[v]]
  /\ credentials' = [credentials EXCEPT ![c].uses = @ + 1]
  /\ \E list \in SetToSeqs(Superseded(k)) :
       Begin(h, "register worker",
             [Idle EXCEPT !.todo = ForEach(list, CleanUp)])
  /\ UNCHANGED << users, opened, memory >>

DeleteWorker(h, w) ==
  /\ binding[w] # NoUser
  /\ Somebody
  /\ Begin(h, "delete worker",
           [Idle EXCEPT !.user = binding[w],
              !.todo = ForEach(<< w >>, << "RevokeWorker" >> \o CleanUp)])
  /\ UNCHANGED << accounts, fleet, memory >>

\* RevokeWorkerAtomic: a Worker revoked by another request ends this one.
RevokeWorker(h, w) ==
  /\ Calls(h, "RevokeWorker", w)
  /\ IF workers[w].state = "active" /\ workers[w].owner = handler[h].user
     THEN /\ workers' = EndedAmong({w})
          /\ binding' = [binding EXCEPT ![w] = NoUser]
          /\ Proceed(h)
     ELSE Return(h) /\ UNCHANGED fleet
  /\ UNCHANGED << accounts, memory >>

RevokeNonces(h, w) ==
  /\ Calls(h, "RevokeNonces", w)
  /\ nonces' = [n \in Nonce |-> IF nonces[n] = w THEN NoWorker ELSE nonces[n]]
  /\ Proceed(h)
  /\ UNCHANGED << accounts, fleet, bearers, blocked >>

RevokeBearers(h, w) ==
  /\ Calls(h, "RevokeBearers", w)
  /\ bearers' = [t \in Bearer |-> IF bearers[t].worker = w THEN NoBearer ELSE bearers[t]]
  /\ Proceed(h)
  /\ UNCHANGED << accounts, fleet, nonces, blocked >>

Block(h, w) ==
  /\ Calls(h, "Block", w)
  /\ blocked' = blocked \cup {w}
  /\ Proceed(h)
  /\ UNCHANGED << accounts, fleet, nonces, bearers >>

Unblock(h, w) ==
  /\ Calls(h, "Unblock", w)
  /\ blocked' = blocked \ {w}
  /\ Proceed(h)
  /\ UNCHANGED << accounts, fleet, nonces, bearers >>

AuthChallenge(h, w) ==
  /\ workers[w].state = "active"
  /\ Begin(h, "authenticate", [Idle EXCEPT !.todo = << << "CreateNonce", w >> >>])
  /\ UNCHANGED << accounts, fleet, memory >>

\* At capacity the oldest is evicted; which one that is the model does not record.
CreateNonce(h, w) ==
  /\ Calls(h, "CreateNonce", w)
  /\ \E n \in Nonce :
       /\ nonces[n] = NoWorker \/ \A o \in Nonce : nonces[o] # NoWorker
       /\ nonces' = [nonces EXCEPT ![n] = w]
  /\ Proceed(h)
  /\ UNCHANGED << accounts, fleet, bearers, blocked >>

\* The nonce is consumed; GetPublicKey and GetOwner read what one transaction writes.
AuthSession(h, n) ==
  /\ nonces[n] # NoWorker
  /\ Begin(h, "authenticate", [Idle EXCEPT !.todo = ForEach(<< nonces[n] >>, << "GetOwner", "GetUser", "CreateBearer" >>)])
  /\ nonces' = [nonces EXCEPT ![n] = NoWorker]
  /\ UNCHANGED << accounts, fleet, bearers, blocked >>

GetOwner(h, w) ==
  /\ Calls(h, "GetOwner", w)
  /\ IF binding[w] # NoUser
     THEN handler' = [handler EXCEPT ![h] = [Rest(@) EXCEPT !.user = binding[w]]]
     ELSE Return(h)
  /\ UNCHANGED << accounts, fleet, memory >>

GetUser(h, w) ==
  /\ Calls(h, "GetUser", w)
  /\ IF Active(handler[h].user) THEN Proceed(h) ELSE Return(h)
  /\ UNCHANGED << accounts, fleet, memory >>

CreateBearer(h, w) ==
  /\ Calls(h, "CreateBearer", w)
  /\ \E t \in Bearer :
       /\ bearers[t] = NoBearer \/ \A o \in Bearer : bearers[o] # NoBearer
       /\ bearers' = [bearers EXCEPT ![t] = [worker |-> w, user |-> handler[h].user]]
  /\ Proceed(h)
  /\ UNCHANGED << accounts, fleet, nonces, blocked >>

Claim(h, t) ==
  /\ bearers[t] # NoBearer
  /\ LET w == bearers[t].worker IN
     Begin(h, "claim", [Idle EXCEPT !.todo = ForEach(<< w >>, << "GetActiveWorker", "ClaimOrWait" >>)])
  /\ UNCHANGED << accounts, fleet, memory >>

GetActiveWorker(h, w) ==
  /\ Calls(h, "GetActiveWorker", w)
  /\ IF workers[w].state = "active" THEN Proceed(h) ELSE Return(h)
  /\ UNCHANGED << accounts, fleet, memory >>

\* What it then waits for is the subject of ClaimWait.
ClaimOrWait(h, w) ==
  /\ Calls(h, "ClaimOrWait", w)
  /\ Proceed(h)
  /\ UNCHANGED << accounts, fleet, memory >>

ExpireNonce(n) ==
  /\ nonces[n] # NoWorker
  /\ nonces' = [nonces EXCEPT ![n] = NoWorker]
  /\ UNCHANGED << accounts, fleet, bearers, blocked, handler >>

ExpireBearer(t) ==
  /\ bearers[t] # NoBearer
  /\ bearers' = [bearers EXCEPT ![t] = NoBearer]
  /\ UNCHANGED << accounts, fleet, nonces, blocked, handler >>

\* The Master is stopped or killed, and started on the same database.
Restart ==
  /\ "restart" \in Request
  /\ nonces' = [n \in Nonce |-> NoWorker]
  /\ bearers' = [t \in Bearer |-> NoBearer]
  /\ blocked' = {}
  /\ handler' = [h \in Handler |-> Idle]
  /\ UNCHANGED << accounts, fleet >>

-----------------------------------------------------------------------------
AccessInit ==
  /\ \E before \in Registered :
       /\ users = [u \in User |-> IF u \in before THEN "active" ELSE "absent"]
       /\ opened = [u \in User |-> IF u \in before THEN "admin" ELSE "nobody"]
  /\ credentials = [c \in Credential |-> Issue("none", NoUser)]
  /\ workers = [w \in Worker |-> [state |-> "absent", owner |-> NoUser,
                                  key |-> NoCredential, token |-> NoCredential]]
  /\ binding = [w \in Worker |-> NoUser]
  /\ nonces = [n \in Nonce |-> NoWorker]
  /\ bearers = [t \in Bearer |-> NoBearer]
  /\ blocked = {}
  /\ handler = [h \in Handler |-> Idle]

AccountStep(h) ==
  \/ Register(h) \/ OpenFirst(h) \/ OpenInvited(h) \/ Login(h)
  \/ \E kind \in {"token", "invitation", "registration"} : AskFor(h, kind)
  \/ \E kind \in Kind : Create(h, kind) \/ RevokeAll(h, kind)
  \/ ChangePassword(h) \/ ListSessions(h) \/ RevokeListed(h)
  \/ PatchUser(h) \/ DeleteUser(h)
  \/ \E status \in {"active", "disabled", "deleted"} : SetStatus(h, status)
  \/ RevokeUser(h) \/ OwnedWorkers(h) \/ Answered(h)

WorkerStep(h) ==
  \/ \E c \in Credential, k \in Key, w \in Worker : RegisterWorker(h, c, k, w)
  \/ \E w \in Worker :
       \/ DeleteWorker(h, w) \/ RevokeWorker(h, w) \/ RevokeNonces(h, w) \/ RevokeBearers(h, w)
       \/ Block(h, w) \/ Unblock(h, w)
       \/ AuthChallenge(h, w) \/ CreateNonce(h, w)
       \/ GetOwner(h, w) \/ GetUser(h, w) \/ CreateBearer(h, w)
       \/ GetActiveWorker(h, w) \/ ClaimOrWait(h, w)
  \/ \E n \in Nonce : AuthSession(h, n)
  \/ \E t \in Bearer : Claim(h, t)

AccessNext ==
  \/ \E h \in Handler : AccountStep(h) \/ WorkerStep(h)
  \/ \E u \in User : AdminCreateUser(u)
  \/ \E c \in Credential : End(c)
  \/ \E n \in Nonce : ExpireNonce(n)
  \/ \E t \in Bearer : ExpireBearer(t)
  \/ Restart

AccessSpec == AccessInit /\ [][AccessNext]_accessVars

-----------------------------------------------------------------------------
(* Every row has the shape of its table: what is issued has a user, and    *)
(* an account was opened somehow if and only if it exists.  (The schema,   *)
(* store.go:60-222.)                                                       *)
AccessTypeOK ==
  /\ users \in [User -> Status]
  /\ opened \in [User -> {"nobody", "first", "admin"} \cup Credential]
  /\ \A u \in User : opened[u] = "nobody" <=> users[u] = "absent"
  /\ credentials \in [Credential -> Issued]
  /\ \A c \in Credential : credentials[c].kind = "none" <=> credentials[c].user = NoUser
  /\ workers \in [Worker -> Row]
  /\ binding \in [Worker -> User \cup {NoUser}]
  /\ nonces \in [Nonce -> Worker \cup {NoWorker}]
  /\ bearers \in [Bearer -> [worker : Worker \cup {NoWorker}, user : User \cup {NoUser}]]
  /\ blocked \subseteq Worker
  /\ DOMAIN handler = Handler

(* At most one account is opened without an invitation or an               *)
(* administrator, although handleRegister counts the users before the      *)
(* transaction: two first registrations at once do not make two            *)
(* administrators.                                                         *)
FirstUserOnce ==
  \A u, v \in User : opened[u] = "first" /\ opened[v] = "first" => u = v

(* An invitation opens at most one account, and is marked as used if and   *)
(* only if it has, whatever requests present, revoke or expire it at once. *)
InvitationsSingleUse ==
  \A c \in Credential : credentials[c].kind = "invitation" =>
    /\ \A u, v \in User : opened[u] = c /\ opened[v] = c => u = v
    /\ credentials[c].uses = 1 <=> \E u \in User : opened[u] = c

(* When a deletion, a disabling or a change of password is answered, all   *)
(* that it found to revoke is over: everything the user held when the      *)
(* deletion began, the sessions when the account was disabled or its       *)
(* password set by an administrator, and the other sessions that the user  *)
(* had when he changed it himself.                                         *)
AnswersKeepTheirWord ==
  \A h \in Handler : Calls(h, "Answer", NoWorker) => \A c \in handler[h].listed : Spent(c)

(* A Worker installation has one registration: of the Workers with one     *)
(* public key at most one is active, under concurrent registrations, with  *)
(* other tokens and for other users too.                                   *)
OneWorkerPerKey ==
  \A v, w \in Worker :
    workers[v].state = "active" /\ workers[w].state = "active" /\ workers[v].key = workers[w].key
      => v = w

(* used_count is the number of Workers registered with the token, never    *)
(* more than max_uses: retries and refused registrations do not count.     *)
UsesAreCounted ==
  \A c \in Credential : credentials[c].kind = "registration" =>
    /\ credentials[c].uses = Cardinality({w \in Worker : workers[w].token = c})
    /\ credentials[c].uses <= MaxUses

(* The two tables agree on who owns a Worker: the binding is there while   *)
(* the Worker is active, names the same user, and goes with it.            *)
BindingsAgree ==
  \A w \in Worker :
    binding[w] = IF workers[w].state = "active" THEN workers[w].owner ELSE NoUser

\* No request is about to block or unblock the Worker, by name or with all of its owner's.
Settled(w) ==
  \A h \in Handler : \A i \in DOMAIN handler[h].todo :
    LET call == handler[h].todo[i] IN
    /\ call \notin {<< "Block", w >>, << "Unblock", w >>}
    /\ handler[h].user = workers[w].owner => call[1] # "OwnedWorkers"

(* When disabling an account has taken effect, none of its Workers can     *)
(* take a job: a claim that comes to the task store finds its Worker       *)
(* blocked, even with a session that was being created when the others     *)
(* were revoked (admin_handlers.go:25, worker_handlers.go:164).  It needs  *)
(* that no two requests change the account at once.                        *)
DisabledWorkersGetNothing ==
  \A h \in Handler, w \in Worker :
    /\ Calls(h, "ClaimOrWait", w)
    /\ workers[w].state = "active" /\ workers[w].owner # NoUser
    /\ users[workers[w].owner] = "disabled"
    /\ Settled(w)
    => w \in blocked
=============================================================================
