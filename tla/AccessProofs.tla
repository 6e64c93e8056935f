---------------------------- MODULE AccessProofs ----------------------------
(***************************************************************************)
(* The invariants of Access, for any number of accounts, credentials,      *)
(* Workers and requests.                                                   *)
(*                                                                         *)
(* AccessInv has a part about the accounts with the requests under way,    *)
(* and one about the Workers.  Most calls are calm: they end credentials   *)
(* or change a status or a table in memory.  One lemma for each part says  *)
(* that such a step keeps it; what is left are the calls that open an      *)
(* account, make a credential, register or revoke a Worker.                *)
(*                                                                         *)
(* What an answer promises, and what keeps a disabled account's Workers    *)
(* out, rest on the order of a request's calls.  OneServes sums up what a  *)
(* step does to the requests: one takes its first call, is dropped, reads  *)
(* an owner, puts a loop in place of a list, or begins.  From there on the *)
(* invariants (OrdersOK, WordsKept, CallsInv, Shut) speak of the calls     *)
(* that are still to make, and not of positions in a handler.              *)
(***************************************************************************)
EXTENDS Access, FiniteSetTheorems, TLAPS

CallName ==
  {"Open", "Create", "ListSessions", "RevokeListed", "Answer", "SetStatus", "RevokeAll", "RevokeUser",
   "OwnedWorkers", "Block", "Unblock", "RevokeWorker", "RevokeNonces", "RevokeBearers", "CreateNonce",
   "GetOwner", "GetUser", "CreateBearer", "GetActiveWorker", "ClaimOrWait"}
CallTarget ==
  Worker \cup {NoWorker} \cup {"first", "invited"} \cup Kind \cup Status
    \cup {"disconnect", "unblock", "remove"}
CallType == CallName \X CallTarget

RequestType ==
  [todo : Seq(CallType), user : User \cup {NoUser},
   new : Credential \cup {NoCredential}, own : Credential \cup {NoCredential},
   listed : SUBSET Credential]

\* A request that makes a credential has no other call to make.
RequestOK(r) ==
  /\ r \in RequestType
  /\ \A i \in DOMAIN r.todo : r.todo[i][1] \in {"Create", "Open"} => r.new # NoCredential
  /\ r.new # NoCredential =>
       Len(r.todo) = 1 /\ r.todo[1][1] \in {"Create", "Open"} /\ r.user \in User
  /\ r.new # NoCredential /\ r.todo[1][2] = "invited" => r.own \in Credential

Opens(r) == r.new # NoCredential /\ r.todo[1][1] = "Open"

\* It makes nothing, and the user it is about exists.
Plain(r) == RequestOK(r) /\ r.new = NoCredential /\ (r.user # NoUser => users[r.user] # "absent")

RequestsOK ==
  /\ DOMAIN handler = Handler
  /\ handler = [h \in Handler |-> handler[h]]
  /\ \A h \in Handler : RequestOK(handler[h])

\* What a request is to make does not exist yet, and is made by no other.
NamesAreFree ==
  \A h \in Handler : handler[h].new # NoCredential =>
    /\ credentials[handler[h].new].kind = "none"
    /\ \A g \in Handler : handler[g].new = handler[h].new => g = h

UsersAreKnown ==
  \A h \in Handler :
    /\ Opens(handler[h]) => /\ users[handler[h].user] = "absent"
                            /\ \A g \in Handler : handler[g].user = handler[h].user => g = h
    /\ ~ Opens(handler[h]) /\ handler[h].user # NoUser => users[handler[h].user] # "absent"

AccountsOK ==
  /\ users \in [User -> Status]
  /\ opened \in [User -> {"nobody", "first", "admin"} \cup Credential]
  /\ \A u \in User : opened[u] = "nobody" <=> users[u] = "absent"
  /\ \A u \in User : opened[u] \in Credential => credentials[opened[u]].kind = "invitation"

CredentialsOK ==
  /\ credentials \in [Credential -> Issued]
  /\ \A c \in Credential :
       /\ credentials[c].kind = "none" <=> credentials[c].user = NoUser
       /\ credentials[c].kind # "none" => users[credentials[c].user] # "absent"

AccountInv ==
  /\ RequestsOK
  /\ NamesAreFree
  /\ UsersAreKnown
  /\ AccountsOK
  /\ CredentialsOK
  /\ FirstUserOnce
  /\ InvitationsSingleUse

FleetOK ==
  /\ workers \in [Worker -> Row]
  /\ binding \in [Worker -> User \cup {NoUser}]
  /\ \A w \in Worker :
       /\ workers[w].state = "absent" => workers[w].token = NoCredential
       /\ workers[w].token # NoCredential => credentials[workers[w].token].kind = "registration"
       /\ workers[w].owner # NoUser => users[workers[w].owner] # "absent"

FleetInv ==
  /\ FleetOK
  /\ OneWorkerPerKey
  /\ UsesAreCounted
  /\ BindingsAgree

MemoryOK ==
  /\ nonces \in [Nonce -> Worker \cup {NoWorker}]
  /\ bearers \in [Bearer -> [worker : Worker \cup {NoWorker}, user : User \cup {NoUser}]]
  /\ blocked \subseteq Worker

AccessInv == AccountInv /\ FleetInv /\ MemoryOK

-----------------------------------------------------------------------------
(* Calm steps. *)

HandlersCalm ==
  /\ handler' = [h \in Handler |-> handler'[h]]
  /\ \A h \in Handler : handler'[h] = handler[h] \/ Plain(handler'[h])

StatusesCalm ==
  /\ users' \in [User -> Status]
  /\ \A u \in User : users'[u] = "absent" <=> users[u] = "absent"

CredentialsCalm ==
  /\ credentials' \in [Credential -> Issued]
  /\ \A c \in Credential :
       /\ credentials'[c].kind = credentials[c].kind
       /\ credentials'[c].user = credentials[c].user
       /\ credentials[c].kind # "registration" => credentials'[c].uses = credentials[c].uses

\* A step that is calm in all three respects keeps the part about accounts.
LEMMA AccountCalm ==
  ASSUME AccountInv, HandlersCalm, StatusesCalm, CredentialsCalm, opened' = opened
  PROVE  AccountInv'
<1>1. RequestsOK'
  BY DEF AccountInv, RequestsOK, HandlersCalm, Plain, RequestOK
<1>2. NamesAreFree'
  BY DEF AccountInv, RequestsOK, NamesAreFree, HandlersCalm, Plain, RequestOK, RequestType, CredentialsCalm
<1>3. UsersAreKnown'
  <2> SUFFICES ASSUME NEW h \in Handler
               PROVE  /\ Opens(handler'[h]) =>
                           /\ users'[handler'[h].user] = "absent"
                           /\ \A g \in Handler : handler'[g].user = handler'[h].user => g = h
                      /\ ~ Opens(handler'[h]) /\ handler'[h].user # NoUser
                           => users'[handler'[h].user] # "absent"
    BY DEF UsersAreKnown, Opens
  <2>1. handler[h] \in RequestType /\ handler'[h] \in RequestType
    BY <1>1 DEF AccountInv, RequestsOK, RequestOK
  <2>2. CASE Opens(handler'[h])
    <3>1. handler'[h] = handler[h] /\ handler[h].user \in User /\ users[handler[h].user] = "absent"
      BY <2>2 DEF Opens, HandlersCalm, Plain, AccountInv, UsersAreKnown, RequestsOK, RequestOK
    <3>2. ASSUME NEW g \in Handler, handler'[g].user = handler'[h].user
          PROVE  g = h
      <4>1. CASE handler'[g] = handler[g]
        BY <3>1, <3>2, <2>2, <4>1 DEF AccountInv, UsersAreKnown
      <4>2. CASE Plain(handler'[g])
        BY <3>1, <3>2, <4>2, AccessAssumption DEF Plain
      <4> QED
        BY <4>1, <4>2 DEF HandlersCalm
    <3> QED
      BY <2>2, <3>1, <3>2 DEF StatusesCalm
  <2>3. CASE ~ Opens(handler'[h])
    <3>1. handler'[h].user # NoUser => handler'[h].user \in User /\ users[handler'[h].user] # "absent"
      BY <2>1, <2>3 DEF HandlersCalm, Plain, RequestType, AccountInv, UsersAreKnown
    <3> QED
      BY <2>3, <3>1 DEF StatusesCalm
  <2> QED
    BY <2>2, <2>3
<1>4. AccountsOK'
  BY DEF AccountInv, AccountsOK, StatusesCalm, CredentialsCalm
<1>5. CredentialsOK'
  BY DEF AccountInv, CredentialsOK, StatusesCalm, CredentialsCalm, Issued
<1>6. FirstUserOnce'
  BY DEF AccountInv, FirstUserOnce
<1>7. InvitationsSingleUse'
  BY DEF AccountInv, InvitationsSingleUse, CredentialsCalm
<1> QED
  BY <1>1, <1>2, <1>3, <1>4, <1>5, <1>6, <1>7 DEF AccountInv

\* For the Workers a step is calm if it leaves the registration tokens that exist.
TokensCalm ==
  /\ credentials' \in [Credential -> Issued]
  /\ \A c \in Credential :
       /\ credentials[c].kind = "registration" =>
            credentials'[c].kind = "registration" /\ credentials'[c].uses = credentials[c].uses
       /\ credentials[c].kind # "registration" /\ credentials'[c].kind = "registration"
            => credentials'[c].uses = 0

LEMMA FleetCalm ==
  ASSUME FleetInv, TokensCalm, UNCHANGED fleet,
         \A u \in User : users'[u] = "absent" => users[u] = "absent"
  PROVE  FleetInv'
<1>1. FleetOK'
  BY DEF FleetInv, FleetOK, TokensCalm, fleet, Row
<1>2. UsesAreCounted'
  <2> SUFFICES ASSUME NEW c \in Credential, credentials'[c].kind = "registration"
               PROVE  /\ credentials'[c].uses = Cardinality({w \in Worker : workers[w].token = c})
                      /\ credentials'[c].uses <= MaxUses
    BY DEF UsesAreCounted, fleet
  <2>1. CASE credentials[c].kind = "registration"
    BY <2>1 DEF TokensCalm, FleetInv, UsesAreCounted
  <2>2. CASE credentials[c].kind # "registration"
    <3>1. {w \in Worker : workers[w].token = c} = {}
      BY <2>2, AccessAssumption DEF FleetInv, FleetOK
    <3>2. Cardinality({w \in Worker : workers[w].token = c}) = 0
      BY <3>1, FS_EmptySet
    <3>3. credentials'[c].uses = 0
      BY <2>2 DEF TokensCalm
    <3> QED
      BY <3>2, <3>3, AccessAssumption
  <2> QED
    BY <2>1, <2>2
<1>3. OneWorkerPerKey' /\ BindingsAgree'
  BY DEF FleetInv, OneWorkerPerKey, BindingsAgree, fleet
<1> QED
  BY <1>1, <1>2, <1>3 DEF FleetInv

-----------------------------------------------------------------------------
(* What the handlers do to their requests. *)

LEMMA IdlePlain == RequestOK(Idle) /\ Plain(Idle)
<1> QED
  BY DEF Idle, RequestOK, RequestType, Plain

\* A call that opens nothing and makes nothing belongs to a request without a new credential.
LEMMA PlainCalls ==
  ASSUME RequestsOK, UsersAreKnown, NEW h \in Handler, NEW name, NEW of, Calls(h, name, of),
         name \notin {"Create", "Open"}
  PROVE  /\ handler[h].new = NoCredential
         /\ Plain(handler[h])
         /\ handler[h].todo \in Seq(CallType)
         /\ handler[h].todo # << >>
<1>1. RequestOK(handler[h])
  BY DEF RequestsOK
<1>2. handler[h].todo # << >> /\ handler[h].todo[1][1] = name
  BY <1>1 DEF Calls, RequestOK, RequestType
<1>3. handler[h].new = NoCredential
  BY <1>1, <1>2 DEF RequestOK
<1>4. Plain(handler[h])
  BY <1>1, <1>3 DEF Plain, UsersAreKnown, Opens
<1> QED
  BY <1>1, <1>2, <1>3, <1>4 DEF RequestOK, RequestType

\* The rest of a plain request is plain.
LEMMA TailPlain ==
  ASSUME NEW r, Plain(r), r.todo # << >>
  PROVE  Plain([r EXCEPT !.todo = Tail(@)])
<1> DEFINE t == Tail(r.todo)
<1>1. r \in RequestType
  BY DEF Plain, RequestOK
<1>2. /\ t \in Seq(CallType)
      /\ \A i \in DOMAIN t : i + 1 \in DOMAIN r.todo /\ t[i] = r.todo[i + 1]
  BY <1>1 DEF RequestType
<1>3. \A i \in DOMAIN t : t[i][1] \notin {"Create", "Open"}
  BY <1>2 DEF Plain, RequestOK
<1> HIDE DEF t
<1>4. [r EXCEPT !.todo = t] \in RequestType
  BY <1>1, <1>2 DEF RequestType
<1>5. Plain([r EXCEPT !.todo = t])
  BY <1>1, <1>3, <1>4 DEF Plain, RequestOK, RequestType
<1> QED
  BY <1>5 DEF t

\* One request changes, into a plain one.
LEMMA ChangeCalm ==
  ASSUME RequestsOK, NEW h \in Handler, NEW r, Plain(r), handler' = [handler EXCEPT ![h] = r]
  PROVE  HandlersCalm
<1> QED
  BY DEF RequestsOK, HandlersCalm

LEMMA ProceedCalm ==
  ASSUME RequestsOK, UsersAreKnown, NEW h \in Handler, NEW name, NEW of, Calls(h, name, of),
         name \notin {"Create", "Open"}, Proceed(h)
  PROVE  HandlersCalm
<1>1. Plain(handler[h]) /\ handler[h].todo # << >>
  BY PlainCalls
<1>2. Plain(Rest(handler[h]))
  BY <1>1, TailPlain, IdlePlain DEF Rest
<1> QED
  BY <1>2, ChangeCalm DEF Proceed

LEMMA ReturnCalm ==
  ASSUME RequestsOK, NEW h \in Handler, Return(h)
  PROVE  HandlersCalm
<1> QED
  BY IdlePlain, ChangeCalm DEF Return

\* A call that is the last of its request: it ends with the request.
LEMMA LastProceeds ==
  ASSUME RequestsOK, NEW h \in Handler, NEW name \in {"Create", "Open"}, NEW of, Calls(h, name, of),
         Proceed(h)
  PROVE  /\ handler' = [handler EXCEPT ![h] = Idle]
         /\ handler[h].new \in Credential /\ handler[h].user \in User
         /\ Opens(handler[h]) <=> name = "Open"
         /\ of = "invited" => handler[h].own \in Credential
<1>1. RequestOK(handler[h]) /\ handler[h] \in RequestType
  BY DEF RequestsOK, RequestOK
<1>2. handler[h].todo # << >> /\ handler[h].todo[1][1] = name /\ handler[h].todo[1][2] = of
  BY <1>1 DEF Calls, RequestType
<1>3. handler[h].new # NoCredential
  BY <1>1, <1>2 DEF RequestOK, RequestType
<1>4. Len(handler[h].todo) = 1 /\ handler[h].user \in User
  BY <1>1, <1>3 DEF RequestOK
<1> QED
  BY <1>1, <1>2, <1>3, <1>4 DEF Proceed, Rest, Opens, RequestOK, RequestType

\* The list of a loop over Workers.
LEMMA LoopTyped ==
  ASSUME NEW list \in Seq(Worker \cup {NoWorker}), NEW names \in Seq(CallName), Len(names) \in 1 .. 4,
         \A j \in 1 .. Len(names) : names[j] \notin {"Create", "Open"}
  PROVE  /\ ForEach(list, names) \in Seq(CallType)
         /\ \A i \in DOMAIN ForEach(list, names) : ForEach(list, names)[i][1] \notin {"Create", "Open"}
<1> DEFINE n == Len(names)
           m == Len(list) * n
           S == CallType
           f == ForEach(list, names)
<1>1. m \in Nat /\ Len(list) \in Nat
  <2>1. Len(list) \in Nat /\ n \in Nat
    OBVIOUS
  <2> QED
    BY <2>1
<1>2. ASSUME NEW i \in 1 .. m
      PROVE  ((i - 1) % n) + 1 \in 1 .. n /\ ((i - 1) \div n) + 1 \in 1 .. Len(list)
  <2> DEFINE l == Len(list)
  <2>1. l \in Nat /\ i \in 1 .. l * n
    BY <1>1
  <2> HIDE DEF l
  <2>2. CASE n = 1
    BY <2>1, <2>2
  <2>3. CASE n = 2
    BY <2>1, <2>3
  <2>4. CASE n = 3
    BY <2>1, <2>4
  <2>5. CASE n = 4
    BY <2>1, <2>5
  <2> QED
    BY <2>2, <2>3, <2>4, <2>5 DEF l
<1>3. f = [i \in 1 .. m |-> << names[((i - 1) % n) + 1], list[((i - 1) \div n) + 1] >>]
  BY DEF ForEach
<1>4. ASSUME NEW i \in 1 .. m PROVE f[i] \in S /\ f[i][1] \notin {"Create", "Open"}
  <2>1. PICK j \in 1 .. n, k \in 1 .. Len(list) : f[i] = << names[j], list[k] >>
    BY <1>2, <1>3
  <2>2. names[j] \in CallName /\ list[k] \in CallTarget
    BY DEF CallTarget
  <2> QED
    BY <2>1, <2>2 DEF CallType
<1>5. f \in [1 .. m -> S] /\ DOMAIN f = 1 .. m
  BY <1>3, <1>4
<1> HIDE DEF f, m, S
<1>6. f \in Seq(S)
  BY <1>1, <1>5
<1> QED
  BY <1>4, <1>5, <1>6 DEF f, S

-----------------------------------------------------------------------------
(* Steps that open no account, make nothing and register no Worker. *)

LEMMA UnchangedCalm ==
  ASSUME AccessInv, HandlersCalm, UNCHANGED accounts, UNCHANGED fleet, MemoryOK'
  PROVE  AccessInv'
<1>1. StatusesCalm /\ opened' = opened
  BY DEF AccessInv, AccountInv, AccountsOK, StatusesCalm, accounts
<1>2. CredentialsCalm /\ TokensCalm
  BY DEF AccessInv, AccountInv, CredentialsOK, CredentialsCalm, TokensCalm, accounts
<1>3. AccountInv'
  BY <1>1, <1>2, AccountCalm DEF AccessInv
<1>4. FleetInv'
  BY <1>1, <1>2, FleetCalm DEF AccessInv, StatusesCalm
<1> QED
  BY <1>3, <1>4 DEF AccessInv

\* The requests that make nothing, as the handlers build them.
LEMMA PlainRequest ==
  ASSUME NEW u \in User \cup {NoUser}, u # NoUser => users[u] # "absent",
         NEW t \in Seq(CallType), \A i \in DOMAIN t : t[i][1] \notin {"Create", "Open"},
         NEW o \in Credential \cup {NoCredential}, NEW L \in SUBSET Credential
  PROVE  /\ Plain([Idle EXCEPT !.user = u, !.own = o, !.todo = t])
         /\ Plain([Idle EXCEPT !.user = u, !.listed = L, !.todo = t])
         /\ Plain([Idle EXCEPT !.user = u, !.todo = t])
         /\ Plain([Idle EXCEPT !.todo = t])
<1>1. Idle \in RequestType /\ Idle.new = NoCredential /\ Idle.user = NoUser
  BY DEF Idle, RequestType
<1>2. Plain([Idle EXCEPT !.user = u, !.own = o, !.todo = t])
  BY <1>1 DEF Plain, RequestOK, RequestType
<1>3. Plain([Idle EXCEPT !.user = u, !.listed = L, !.todo = t])
  BY <1>1 DEF Plain, RequestOK, RequestType
<1>4. Plain([Idle EXCEPT !.user = u, !.todo = t])
  BY <1>1 DEF Plain, RequestOK, RequestType
<1>5. Plain([Idle EXCEPT !.todo = t])
  BY <1>1 DEF Plain, RequestOK, RequestType
<1> QED
  BY <1>2, <1>3, <1>4, <1>5

LEMMA OneCall ==
  ASSUME NEW name \in CallName, NEW of \in CallTarget
  PROVE  << name, of >> \in CallType /\ << << name, of >> >> \in Seq(CallType)
<1> QED
  BY DEF CallType

LEMMA LongCalls ==
  /\ << << "ListSessions", NoWorker >>, << "RevokeListed", NoWorker >>, Answer >> \in Seq(CallType)
  /\ DeleteCalls \in Seq(CallType)
  /\ PasswordCalls \in Seq(CallType)
  /\ \A status \in {"active", "disabled"} : StatusCalls(status) \in Seq(CallType)
<1>1. NoWorker \in CallTarget /\ Kind \cup Status \cup {"disconnect", "unblock", "remove"} \subseteq CallTarget
  BY DEF CallTarget
<1>2. /\ << "ListSessions", NoWorker >> \in CallType /\ << "RevokeListed", NoWorker >> \in CallType
      /\ Answer \in CallType /\ << "RevokeUser", NoWorker >> \in CallType
  BY <1>1, OneCall DEF Answer, CallName
<1>3. \A kind \in Kind : << "RevokeAll", kind >> \in CallType
  BY <1>1, OneCall DEF CallName
<1>4. \A status \in Status : << "SetStatus", status >> \in CallType
  BY <1>1, OneCall DEF CallName
<1>5. \A do \in {"disconnect", "unblock", "remove"} : << "OwnedWorkers", do >> \in CallType
  BY <1>1, OneCall DEF CallName
<1>6. DeleteCalls \in Seq(CallType)
  BY <1>2, <1>3, <1>4, <1>5 DEF DeleteCalls, Kind, Status
<1>7. PasswordCalls \in Seq(CallType)
  BY <1>2, <1>3 DEF PasswordCalls, Kind
<1>8. \A status \in {"active", "disabled"} : StatusCalls(status) \in Seq(CallType)
  BY <1>2, <1>3, <1>4, <1>5 DEF StatusCalls, Kind, Status
<1> QED
  BY <1>2, <1>6, <1>7, <1>8

LEMMA Joined ==
  ASSUME NEW s \in Seq(CallType), NEW t \in Seq(CallType),
         \A i \in DOMAIN s : s[i][1] \notin {"Create", "Open"},
         \A i \in DOMAIN t : t[i][1] \notin {"Create", "Open"}
  PROVE  /\ s \o t \in Seq(CallType)
         /\ \A i \in DOMAIN (s \o t) : (s \o t)[i][1] \notin {"Create", "Open"}
<1>1. s \o t \in Seq(CallType) /\ DOMAIN (s \o t) = 1 .. (Len(s) + Len(t))
  OBVIOUS
<1>2. ASSUME NEW i \in 1 .. (Len(s) + Len(t))
      PROVE  (s \o t)[i][1] \notin {"Create", "Open"}
  <2>1. CASE i <= Len(s)
    BY <2>1
  <2>2. CASE i > Len(s)
    <3>1. (s \o t)[i] = t[i - Len(s)] /\ i - Len(s) \in DOMAIN t
      BY <2>2
    <3> QED
      BY <3>1
  <2> QED
    BY <2>1, <2>2
<1> QED
  BY <1>1, <1>2

LEMMA WorkerLists ==
  ASSUME NEW S \in SUBSET Worker, NEW list \in SetToSeqs(S)
  PROVE  list \in Seq(Worker \cup {NoWorker})
<1>1. Cardinality(S) \in Nat
  BY AccessAssumption, FS_Subset, FS_CardinalityType
<1>2. list \in [1 .. Cardinality(S) -> S]
  BY DEF SetToSeqs
<1> QED
  BY <1>1, <1>2

\* A request whose calls make nothing begins.
LEMMA PlainBegins ==
  ASSUME AccessInv, NEW h \in Handler, NEW name, NEW r, Plain(r), Begin(h, name, r),
         UNCHANGED accounts, UNCHANGED fleet, MemoryOK'
  PROVE  AccessInv'
<1>1. HandlersCalm
  BY ChangeCalm DEF Begin, AccessInv, AccountInv
<1> QED
  BY <1>1, UnchangedCalm

LEMMA MemoryUnchanged == ASSUME AccessInv, UNCHANGED memory PROVE MemoryOK'
<1> QED
  BY DEF AccessInv, MemoryOK, memory

LEMMA ChangePasswordKeeps ==
  ASSUME AccessInv, NEW h \in Handler, ChangePassword(h)
  PROVE  AccessInv'
<1> DEFINE t == << << "ListSessions", NoWorker >>, << "RevokeListed", NoWorker >>, Answer >>
<1>1. PICK s \in Credential :
        LoggedIn(s) /\ Begin(h, "change password", [Idle EXCEPT !.user = credentials[s].user, !.own = s, !.todo = t])
  BY DEF ChangePassword
<1>2. t \in Seq(CallType)
  BY LongCalls
<1>3. \A i \in DOMAIN t : t[i][1] \notin {"Create", "Open"}
  BY DEF Answer
<1>4. credentials[s].user \in User /\ users[credentials[s].user] # "absent"
  BY <1>1 DEF LoggedIn, Active
<1> HIDE DEF t
<1>5. Plain([Idle EXCEPT !.user = credentials[s].user, !.own = s, !.todo = t])
  BY <1>2, <1>3, <1>4, PlainRequest
<1> QED
  BY <1>1, <1>5, PlainBegins, MemoryUnchanged DEF ChangePassword

LEMMA ListSessionsKeeps ==
  ASSUME AccessInv, NEW h \in Handler, ListSessions(h)
  PROVE  AccessInv'
<1> DEFINE L == Held(handler[h].user, {"session"}) \ {handler[h].own}
<1>1. Plain(handler[h]) /\ handler[h].todo # << >>
  BY PlainCalls DEF ListSessions, AccessInv, AccountInv
<1>2. Plain(Rest(handler[h]))
  BY <1>1, TailPlain, IdlePlain DEF Rest
<1>3. L \in SUBSET Credential
  BY DEF Held
<1>4. handler' = [handler EXCEPT ![h] = [Rest(handler[h]) EXCEPT !.listed = L]]
  BY DEF ListSessions
<1> HIDE DEF L
<1>5. Plain([Rest(handler[h]) EXCEPT !.listed = L])
  BY <1>2, <1>3 DEF Plain, RequestOK, RequestType
<1>6. HandlersCalm
  BY <1>4, <1>5, ChangeCalm DEF AccessInv, AccountInv
<1> QED
  BY <1>6, UnchangedCalm, MemoryUnchanged DEF ListSessions

\* What is revoked or expired: the row stays but for `over`.
LEMMA EndingCalm ==
  ASSUME AccessInv, NEW S \in SUBSET Credential,
         credentials' = [c \in Credential |-> IF c \in S THEN [credentials[c] EXCEPT !.over = TRUE]
                                                         ELSE credentials[c]]
  PROVE  CredentialsCalm /\ TokensCalm
<1>1. credentials \in [Credential -> Issued]
  BY DEF AccessInv, AccountInv, CredentialsOK
<1>2. ASSUME NEW c \in Credential
      PROVE  /\ credentials'[c] \in Issued
             /\ credentials'[c].kind = credentials[c].kind
             /\ credentials'[c].user = credentials[c].user
             /\ credentials'[c].uses = credentials[c].uses
  BY <1>1 DEF Issued
<1>3. credentials' \in [Credential -> Issued]
  BY <1>2
<1> QED
  BY <1>2, <1>3 DEF CredentialsCalm, TokensCalm

LEMMA OneEnds ==
  ASSUME AccessInv, NEW c \in Credential, credentials' = [credentials EXCEPT ![c].over = TRUE]
  PROVE  CredentialsCalm /\ TokensCalm
<1>1. credentials' = [d \in Credential |-> IF d \in {c} THEN [credentials[d] EXCEPT !.over = TRUE]
                                                        ELSE credentials[d]]
  BY DEF AccessInv, AccountInv, CredentialsOK
<1> QED
  BY <1>1, EndingCalm

LEMMA EndingKeeps ==
  ASSUME AccessInv, HandlersCalm, CredentialsCalm, TokensCalm,
         UNCHANGED << users, opened, fleet, memory >>
  PROVE  AccessInv'
<1>1. StatusesCalm
  BY DEF AccessInv, AccountInv, AccountsOK, StatusesCalm
<1>2. AccountInv'
  BY <1>1, AccountCalm DEF AccessInv
<1>3. FleetInv'
  BY <1>1, FleetCalm DEF AccessInv, StatusesCalm
<1> QED
  BY <1>2, <1>3, MemoryUnchanged DEF AccessInv

LEMMA RevokeListedKeeps ==
  ASSUME AccessInv, NEW h \in Handler, RevokeListed(h)
  PROVE  AccessInv'
<1>1. CASE \A c \in handler[h].listed : Spent(c)
  <2>1. HandlersCalm
    BY <1>1, ProceedCalm DEF RevokeListed, AccessInv, AccountInv
  <2> QED
    BY <1>1, <2>1, UnchangedCalm, MemoryUnchanged DEF RevokeListed, accounts
<1>2. CASE ~ \A c \in handler[h].listed : Spent(c)
  <2>1. PICK c \in handler[h].listed : credentials' = [credentials EXCEPT ![c].over = TRUE]
    BY <1>2 DEF RevokeListed
  <2>2. c \in Credential
    BY DEF AccessInv, AccountInv, RequestsOK, RequestOK, RequestType
  <2>3. HandlersCalm
    BY <1>2 DEF RevokeListed, HandlersCalm, AccessInv, AccountInv, RequestsOK
  <2> QED
    BY <2>1, <2>2, <2>3, OneEnds, EndingKeeps DEF RevokeListed
<1> QED
  BY <1>1, <1>2

LEMMA EndKeeps ==
  ASSUME AccessInv, NEW c \in Credential, End(c)
  PROVE  AccessInv'
<1>1. HandlersCalm
  BY DEF End, HandlersCalm, AccessInv, AccountInv, RequestsOK
<1> QED
  BY <1>1, OneEnds, EndingKeeps DEF End

LEMMA RevokeAllKeeps ==
  ASSUME AccessInv, NEW h \in Handler, NEW kind, RevokeAll(h, kind)
  PROVE  AccessInv'
<1>1. HandlersCalm
  BY ProceedCalm DEF RevokeAll, AccessInv, AccountInv
<1>2. CredentialsCalm /\ TokensCalm
  BY EndingCalm DEF RevokeAll, Held
<1> QED
  BY <1>1, <1>2, EndingKeeps DEF RevokeAll

LEMMA PatchUserKeeps ==
  ASSUME AccessInv, NEW h \in Handler, PatchUser(h)
  PROVE  AccessInv'
<1>1. PICK u \in User, status \in {"active", "disabled"}, password \in BOOLEAN :
        /\ users[u] \in {"active", "disabled"}
        /\ LET revokes == password \/ (status = "disabled" /\ users[u] = "active") IN
           Begin(h, IF status = "active" /\ users[u] = "disabled" THEN "enable" ELSE "patch",
                 [Idle EXCEPT !.user = u,
                    !.listed = IF revokes THEN Held(u, {"session"}) ELSE {},
                    !.todo = (IF status # users[u] THEN StatusCalls(status) ELSE << >>)
                             \o (IF password THEN PasswordCalls ELSE << >>) \o << Answer >>])
  BY DEF PatchUser
<1> DEFINE revokes == password \/ (status = "disabled" /\ users[u] = "active")
           found == IF revokes THEN Held(u, {"session"}) ELSE {}
<1>2. PICK name, L : /\ L = found
                     /\ Begin(h, name, [Idle EXCEPT !.user = u, !.listed = L,
                          !.todo = (IF status # users[u] THEN StatusCalls(status) ELSE << >>)
                                   \o (IF password THEN PasswordCalls ELSE << >>) \o << Answer >>])
  BY <1>1
<1>3. L \in SUBSET Credential
  BY <1>2 DEF Held
<1>4. PICK first : first = IF status # users[u] THEN StatusCalls(status) ELSE << >>
  OBVIOUS
<1>5. PICK second : second = IF password THEN PasswordCalls ELSE << >>
  OBVIOUS
<1>6. first \in Seq(CallType) /\ \A i \in DOMAIN first : first[i][1] \notin {"Create", "Open"}
  <2>1. CASE first = StatusCalls(status)
    BY <2>1, LongCalls DEF StatusCalls
  <2>2. CASE first = << >>
    BY <2>2
  <2> QED
    BY <1>4, <2>1, <2>2
<1>7. second \in Seq(CallType) /\ \A i \in DOMAIN second : second[i][1] \notin {"Create", "Open"}
  <2>1. CASE second = PasswordCalls
    BY <2>1, LongCalls DEF PasswordCalls
  <2>2. CASE second = << >>
    BY <2>2
  <2> QED
    BY <1>5, <2>1, <2>2
<1>8. << Answer >> \in Seq(CallType) /\ \A i \in DOMAIN << Answer >> : << Answer >>[i][1] \notin {"Create", "Open"}
  BY OneCall DEF Answer, CallName, CallTarget
<1>9. PICK t : t = first \o second \o << Answer >>
  OBVIOUS
<1>10. t \in Seq(CallType) /\ \A i \in DOMAIN t : t[i][1] \notin {"Create", "Open"}
  BY <1>6, <1>7, <1>8, <1>9, Joined
<1>11. Plain([Idle EXCEPT !.user = u, !.listed = L, !.todo = t])
  BY <1>1, <1>10, <1>3, PlainRequest
<1>12. Begin(h, name, [Idle EXCEPT !.user = u, !.listed = L, !.todo = t])
  BY <1>2, <1>4, <1>5, <1>9
<1> QED
  BY <1>11, <1>12, PlainBegins, MemoryUnchanged DEF PatchUser

LEMMA DeleteUserKeeps ==
  ASSUME AccessInv, NEW h \in Handler, DeleteUser(h)
  PROVE  AccessInv'
<1>1. PICK u \in User :
        /\ users[u] \in {"active", "disabled"}
        /\ Begin(h, "delete", [Idle EXCEPT !.user = u, !.listed = Held(u, Kind), !.todo = DeleteCalls])
  BY DEF DeleteUser
<1>2. DeleteCalls \in Seq(CallType) /\ \A i \in DOMAIN DeleteCalls : DeleteCalls[i][1] \notin {"Create", "Open"}
  BY LongCalls DEF DeleteCalls, Answer
<1>3. Held(u, Kind) \in SUBSET Credential
  BY DEF Held
<1>4. Plain([Idle EXCEPT !.user = u, !.listed = Held(u, Kind), !.todo = DeleteCalls])
  BY <1>1, <1>2, <1>3, PlainRequest
<1> QED
  BY <1>1, <1>4, PlainBegins, MemoryUnchanged DEF DeleteUser

LEMMA SetStatusKeeps ==
  ASSUME AccessInv, NEW h \in Handler, NEW status \in {"active", "disabled", "deleted"}, SetStatus(h, status)
  PROVE  AccessInv'
<1>1. HandlersCalm
  BY ProceedCalm DEF SetStatus, AccessInv, AccountInv
<1>2. CredentialsCalm /\ TokensCalm
  BY DEF SetStatus, AccessInv, AccountInv, CredentialsOK, CredentialsCalm, TokensCalm
<1>3. Plain(handler[h])
  BY PlainCalls DEF SetStatus, AccessInv, AccountInv
<1>4. StatusesCalm
  <2>1. handler[h].user # NoUser => users[handler[h].user] # "absent"
    BY <1>3 DEF Plain
  <2>2. handler[h].user \in User \cup {NoUser}
    BY <1>3 DEF Plain, RequestOK, RequestType
  <2>3. users' = [users EXCEPT ![handler[h].user] = status] /\ users \in [User -> Status]
    BY DEF SetStatus, AccessInv, AccountInv, AccountsOK
  <2> QED
    BY <2>1, <2>2, <2>3, AccessAssumption DEF StatusesCalm, Status
<1>5. AccountInv'
  BY <1>1, <1>2, <1>4, AccountCalm DEF AccessInv, SetStatus
<1>6. FleetInv'
  BY <1>2, <1>4, FleetCalm DEF AccessInv, SetStatus, StatusesCalm
<1> QED
  BY <1>5, <1>6, MemoryUnchanged DEF AccessInv, SetStatus

LEMMA RevokeUserKeeps ==
  ASSUME AccessInv, NEW h \in Handler, RevokeUser(h)
  PROVE  AccessInv'
<1>1. HandlersCalm
  BY ProceedCalm DEF RevokeUser, AccessInv, AccountInv
<1>2. MemoryOK'
  BY DEF RevokeUser, AccessInv, MemoryOK, NoBearer
<1> QED
  BY <1>1, <1>2, UnchangedCalm DEF RevokeUser

LEMMA OwnedWorkersKeeps ==
  ASSUME AccessInv, NEW h \in Handler, OwnedWorkers(h)
  PROVE  AccessInv'
<1>1. PICK do \in DOMAIN WorkerCalls, list \in SetToSeqs({w \in Worker : binding[w] = handler[h].user}) :
        /\ Calls(h, "OwnedWorkers", do)
        /\ handler' = [handler EXCEPT ![h].todo = ForEach(list, WorkerCalls[do]) \o Tail(@)]
  BY DEF OwnedWorkers
<1>2. /\ WorkerCalls[do] \in Seq(CallName) /\ Len(WorkerCalls[do]) \in 1 .. 4
      /\ \A j \in 1 .. Len(WorkerCalls[do]) : WorkerCalls[do][j] \notin {"Create", "Open"}
  <2>1. CASE do = "disconnect"
    BY <2>1 DEF WorkerCalls, CallName
  <2>2. CASE do = "unblock"
    BY <2>2 DEF WorkerCalls, CallName
  <2>3. CASE do = "remove"
    BY <2>3 DEF WorkerCalls, CallName
  <2> QED
    BY <2>1, <2>2, <2>3 DEF WorkerCalls
<1>3. list \in Seq(Worker \cup {NoWorker})
  BY WorkerLists
<1>4. PICK loop : loop = ForEach(list, WorkerCalls[do])
  OBVIOUS
<1>5. loop \in Seq(CallType) /\ \A i \in DOMAIN loop : loop[i][1] \notin {"Create", "Open"}
  BY <1>2, <1>3, <1>4, LoopTyped
<1>6. Plain(handler[h]) /\ handler[h].todo # << >> /\ handler[h].todo \in Seq(CallType)
  BY <1>1, PlainCalls DEF AccessInv, AccountInv
<1>7. PICK rest : rest = Tail(handler[h].todo)
  OBVIOUS
<1>8. Plain([handler[h] EXCEPT !.todo = rest])
  BY <1>6, <1>7, TailPlain
<1>9. rest \in Seq(CallType) /\ \A i \in DOMAIN rest : rest[i][1] \notin {"Create", "Open"}
  BY <1>6, <1>7, <1>8 DEF Plain, RequestOK, RequestType
<1>10. loop \o rest \in Seq(CallType) /\ \A i \in DOMAIN (loop \o rest) : (loop \o rest)[i][1] \notin {"Create", "Open"}
  BY <1>5, <1>9, Joined
<1>11. PICK t : t = loop \o rest
  OBVIOUS
<1>12. Plain([handler[h] EXCEPT !.todo = t])
  BY <1>6, <1>10, <1>11 DEF Plain, RequestOK, RequestType
<1>13. handler' = [handler EXCEPT ![h] = [handler[h] EXCEPT !.todo = t]]
  BY <1>1, <1>4, <1>7, <1>11
<1>14. HandlersCalm
  BY <1>12, <1>13, ChangeCalm DEF AccessInv, AccountInv
<1> QED
  BY <1>14, UnchangedCalm, MemoryUnchanged DEF OwnedWorkers

LEMMA AnsweredKeeps ==
  ASSUME AccessInv, NEW h \in Handler, Answered(h)
  PROVE  AccessInv'
<1>1. HandlersCalm
  BY ProceedCalm DEF Answered, AccessInv, AccountInv
<1> QED
  BY <1>1, UnchangedCalm, MemoryUnchanged DEF Answered

-----------------------------------------------------------------------------
(* Nonces, Worker sessions, blocked Workers and claims. *)

\* A call that changes nothing but the memory.
LEMMA ProceedsKeep ==
  ASSUME AccessInv, NEW h \in Handler, NEW name, NEW of, Calls(h, name, of),
         name \notin {"Create", "Open"}, Proceed(h) \/ Return(h),
         UNCHANGED accounts, UNCHANGED fleet, MemoryOK'
  PROVE  AccessInv'
<1>1. HandlersCalm
  BY ProceedCalm, ReturnCalm DEF AccessInv, AccountInv
<1> QED
  BY <1>1, UnchangedCalm

LEMMA OneWorker ==
  ASSUME NEW w \in Worker \cup {NoWorker}
  PROVE  << w >> \in Seq(Worker \cup {NoWorker})
<1> QED
  OBVIOUS

LEMMA MemoryCallsKeep ==
  ASSUME AccessInv, NEW h \in Handler, NEW w \in Worker,
         \/ RevokeNonces(h, w) \/ RevokeBearers(h, w) \/ Block(h, w) \/ Unblock(h, w)
         \/ CreateNonce(h, w) \/ CreateBearer(h, w)
         \/ GetUser(h, w) \/ GetActiveWorker(h, w) \/ ClaimOrWait(h, w)
  PROVE  AccessInv'
<1>1. CASE RevokeNonces(h, w)
  <2>1. MemoryOK'
    BY <1>1 DEF RevokeNonces, AccessInv, MemoryOK
  <2> QED
    BY <1>1, <2>1, ProceedsKeep DEF RevokeNonces
<1>2. CASE RevokeBearers(h, w)
  <2>1. MemoryOK'
    BY <1>2 DEF RevokeBearers, AccessInv, MemoryOK, NoBearer
  <2> QED
    BY <1>2, <2>1, ProceedsKeep DEF RevokeBearers
<1>3. CASE Block(h, w)
  <2>1. MemoryOK'
    BY <1>3 DEF Block, AccessInv, MemoryOK
  <2> QED
    BY <1>3, <2>1, ProceedsKeep DEF Block
<1>4. CASE Unblock(h, w)
  <2>1. MemoryOK'
    BY <1>4 DEF Unblock, AccessInv, MemoryOK
  <2> QED
    BY <1>4, <2>1, ProceedsKeep DEF Unblock
<1>5. CASE CreateNonce(h, w)
  <2>1. MemoryOK'
    BY <1>5 DEF CreateNonce, AccessInv, MemoryOK
  <2> QED
    BY <1>5, <2>1, ProceedsKeep DEF CreateNonce
<1>6. CASE CreateBearer(h, w)
  <2>1. handler[h].user \in User \cup {NoUser}
    BY DEF AccessInv, AccountInv, RequestsOK, RequestOK, RequestType
  <2>2. MemoryOK'
    BY <1>6, <2>1 DEF CreateBearer, AccessInv, MemoryOK
  <2> QED
    BY <1>6, <2>2, ProceedsKeep DEF CreateBearer
<1>7. CASE GetUser(h, w)
  BY <1>7, ProceedsKeep, MemoryUnchanged DEF GetUser
<1>8. CASE GetActiveWorker(h, w)
  BY <1>8, ProceedsKeep, MemoryUnchanged DEF GetActiveWorker
<1>9. CASE ClaimOrWait(h, w)
  BY <1>9, ProceedsKeep, MemoryUnchanged DEF ClaimOrWait
<1> QED
  BY <1>1, <1>2, <1>3, <1>4, <1>5, <1>6, <1>7, <1>8, <1>9

LEMMA OneMore ==
  ASSUME NEW S, NEW x \in S, NEW t \in Seq(S)
  PROVE  /\ << x >> \o t \in Seq(S) /\ Len(<< x >> \o t) = Len(t) + 1
         /\ \A j \in 1 .. Len(<< x >> \o t) : (<< x >> \o t)[j] \in S
<1>1. << x >> \in Seq(S) /\ Len(<< x >>) = 1
  OBVIOUS
<1> QED
  BY <1>1

LEMMA DeleteWorkerKeeps ==
  ASSUME AccessInv, NEW h \in Handler, NEW w \in Worker, DeleteWorker(h, w)
  PROVE  AccessInv'
<1> DEFINE names == << "RevokeWorker" >> \o CleanUp
<1>1. /\ names \in Seq(CallName) /\ Len(names) \in 1 .. 4
      /\ \A j \in 1 .. Len(names) : names[j] \notin {"Create", "Open"}
  <2> DEFINE S == CallName \ {"Create", "Open"}
  <2>1. PICK x, t : x = "RevokeWorker" /\ t = CleanUp
    OBVIOUS
  <2>2. x \in S /\ t \in Seq(S) /\ Len(t) = 3
    BY <2>1 DEF CleanUp, CallName
  <2> HIDE DEF S
  <2>3. << x >> \o t \in Seq(S) /\ Len(<< x >> \o t) = Len(t) + 1
        /\ \A j \in 1 .. Len(<< x >> \o t) : (<< x >> \o t)[j] \in S
    BY <2>2, OneMore
  <2>4. names = << x >> \o t
    BY <2>1
  <2> HIDE DEF names
  <2>5. names \in Seq(S) /\ Len(names) = 4 /\ \A j \in 1 .. Len(names) : names[j] \in S
    BY <2>2, <2>3, <2>4
  <2>6. names \in Seq(CallName)
    BY <2>5 DEF S
  <2> QED
    BY <2>5, <2>6 DEF S
<1>2. binding[w] \in User /\ users[binding[w]] # "absent"
  BY DEF DeleteWorker, AccessInv, FleetInv, FleetOK, BindingsAgree
<1>3. PICK t : t = ForEach(<< w >>, names)
  OBVIOUS
<1> HIDE DEF names
<1>4. t \in Seq(CallType) /\ \A i \in DOMAIN t : t[i][1] \notin {"Create", "Open"}
  BY <1>1, <1>3, OneWorker, LoopTyped
<1>5. Plain([Idle EXCEPT !.user = binding[w], !.todo = t])
  BY <1>2, <1>4, PlainRequest
<1>6. Begin(h, "delete worker", [Idle EXCEPT !.user = binding[w], !.todo = t])
  BY <1>3 DEF DeleteWorker, names
<1> QED
  BY <1>5, <1>6, PlainBegins, MemoryUnchanged DEF DeleteWorker

LEMMA AuthChallengeKeeps ==
  ASSUME AccessInv, NEW h \in Handler, NEW w \in Worker, AuthChallenge(h, w)
  PROVE  AccessInv'
<1>1. PICK t : t = << << "CreateNonce", w >> >>
  OBVIOUS
<1>2. t \in Seq(CallType) /\ \A i \in DOMAIN t : t[i][1] \notin {"Create", "Open"}
  BY <1>1, OneCall DEF CallName, CallTarget
<1>3. Plain([Idle EXCEPT !.todo = t])
  BY <1>2, PlainRequest
<1>4. Begin(h, "authenticate", [Idle EXCEPT !.todo = t])
  BY <1>1 DEF AuthChallenge
<1> QED
  BY <1>3, <1>4, PlainBegins, MemoryUnchanged DEF AuthChallenge

LEMMA AuthSessionKeeps ==
  ASSUME AccessInv, NEW h \in Handler, NEW n \in Nonce, AuthSession(h, n)
  PROVE  AccessInv'
<1>1. PICK t : t = ForEach(<< nonces[n] >>, << "GetOwner", "GetUser", "CreateBearer" >>)
  OBVIOUS
<1>2. nonces[n] \in Worker \cup {NoWorker} /\ MemoryOK'
  BY DEF AccessInv, MemoryOK, AuthSession
<1>3. PICK names : names = << "GetOwner", "GetUser", "CreateBearer" >>
  OBVIOUS
<1>4. /\ names \in Seq(CallName) /\ Len(names) \in 1 .. 4
      /\ \A j \in 1 .. Len(names) : names[j] \notin {"Create", "Open"}
  BY <1>3 DEF CallName
<1>5. t \in Seq(CallType) /\ \A i \in DOMAIN t : t[i][1] \notin {"Create", "Open"}
  BY <1>1, <1>2, <1>3, <1>4, OneWorker, LoopTyped
<1>6. Plain([Idle EXCEPT !.todo = t])
  BY <1>5, PlainRequest
<1>7. Begin(h, "authenticate", [Idle EXCEPT !.todo = t])
  BY <1>1 DEF AuthSession
<1> QED
  BY <1>2, <1>6, <1>7, PlainBegins DEF AuthSession

LEMMA ClaimKeeps ==
  ASSUME AccessInv, NEW h \in Handler, NEW t \in Bearer, Claim(h, t)
  PROVE  AccessInv'
<1>1. PICK w, calls : w = bearers[t].worker /\ calls = ForEach(<< w >>, << "GetActiveWorker", "ClaimOrWait" >>)
  OBVIOUS
<1>2. w \in Worker \cup {NoWorker}
  BY <1>1 DEF AccessInv, MemoryOK
<1>3. PICK names : names = << "GetActiveWorker", "ClaimOrWait" >>
  OBVIOUS
<1>4. /\ names \in Seq(CallName) /\ Len(names) \in 1 .. 4
      /\ \A j \in 1 .. Len(names) : names[j] \notin {"Create", "Open"}
  BY <1>3 DEF CallName
<1>5. calls \in Seq(CallType) /\ \A i \in DOMAIN calls : calls[i][1] \notin {"Create", "Open"}
  BY <1>1, <1>2, <1>3, <1>4, OneWorker, LoopTyped
<1>6. Plain([Idle EXCEPT !.todo = calls])
  BY <1>5, PlainRequest
<1>7. Begin(h, "claim", [Idle EXCEPT !.todo = calls])
  BY <1>1 DEF Claim
<1> QED
  BY <1>6, <1>7, PlainBegins, MemoryUnchanged DEF Claim

LEMMA GetOwnerKeeps ==
  ASSUME AccessInv, NEW h \in Handler, NEW w \in Worker, GetOwner(h, w)
  PROVE  AccessInv'
<1>1. CASE binding[w] = NoUser
  BY <1>1, ProceedsKeep, MemoryUnchanged DEF GetOwner
<1>2. CASE binding[w] # NoUser
  <2>1. Plain(handler[h]) /\ handler[h].todo # << >>
    BY PlainCalls DEF GetOwner, AccessInv, AccountInv
  <2>2. Plain(Rest(handler[h]))
    BY <2>1, TailPlain, IdlePlain DEF Rest
  <2>3. binding[w] \in User /\ users[binding[w]] # "absent"
    BY <1>2 DEF AccessInv, FleetInv, FleetOK, BindingsAgree
  <2>4. Plain([Rest(handler[h]) EXCEPT !.user = binding[w]])
    BY <2>2, <2>3 DEF Plain, RequestOK, RequestType
  <2>5. handler' = [handler EXCEPT ![h] = [Rest(handler[h]) EXCEPT !.user = binding[w]]]
    BY <1>2 DEF GetOwner
  <2>6. HandlersCalm
    BY <2>4, <2>5, ChangeCalm DEF AccessInv, AccountInv
  <2> QED
    BY <2>6, UnchangedCalm, MemoryUnchanged DEF GetOwner
<1> QED
  BY <1>1, <1>2

LEMMA ExpiryKeeps ==
  ASSUME AccessInv, (\E n \in Nonce : ExpireNonce(n)) \/ (\E t \in Bearer : ExpireBearer(t))
  PROVE  AccessInv'
<1>1. HandlersCalm
  BY DEF ExpireNonce, ExpireBearer, HandlersCalm, AccessInv, AccountInv, RequestsOK
<1>2. UNCHANGED accounts /\ UNCHANGED fleet
  BY DEF ExpireNonce, ExpireBearer
<1>3. MemoryOK'
  <2>1. CASE \E n \in Nonce : ExpireNonce(n)
    BY <2>1 DEF ExpireNonce, AccessInv, MemoryOK
  <2>2. CASE \E t \in Bearer : ExpireBearer(t)
    BY <2>2 DEF ExpireBearer, AccessInv, MemoryOK, NoBearer
  <2> QED
    BY <2>1, <2>2
<1> QED
  BY <1>1, <1>2, <1>3, UnchangedCalm

LEMMA RestartKeeps == ASSUME AccessInv, Restart PROVE AccessInv'
<1>1. HandlersCalm
  BY IdlePlain DEF Restart, HandlersCalm
<1>2. MemoryOK'
  BY DEF Restart, MemoryOK, NoBearer
<1> QED
  BY <1>1, <1>2, UnchangedCalm DEF Restart

-----------------------------------------------------------------------------
(* Requests that make an account or a credential. *)

\* The requests that make something, as the handlers build them.
LEMMA NewOpening ==
  ASSUME NEW u \in User, NEW new \in Credential, NEW o \in Credential \cup {NoCredential},
         NEW of \in CallTarget, of = "invited" => o \in Credential
  PROVE  LET r == [Idle EXCEPT !.user = u, !.new = new, !.own = o, !.todo = << << "Open", of >> >>] IN
         RequestOK(r) /\ r.new = new /\ r.user = u /\ Opens(r)
<1>1. Idle \in RequestType
  BY DEF Idle, RequestType
<1>2. PICK t : t = << << "Open", of >> >>
  OBVIOUS
<1>3. t \in Seq(CallType) /\ Len(t) = 1 /\ t[1] = << "Open", of >> /\ DOMAIN t = {1}
  BY <1>2, OneCall DEF CallName
<1>4. PICK r : r = [Idle EXCEPT !.user = u, !.new = new, !.own = o, !.todo = t]
  OBVIOUS
<1>5. r \in RequestType /\ r.new = new /\ r.user = u /\ r.todo = t /\ r.own = o
  BY <1>1, <1>3, <1>4 DEF RequestType
<1>6. RequestOK(r) /\ r.new = new /\ r.user = u /\ Opens(r)
  BY <1>3, <1>5, AccessAssumption DEF RequestOK, Opens
<1> QED
  BY <1>2, <1>4, <1>6

LEMMA NewCreation ==
  ASSUME NEW u \in User, NEW new \in Credential, NEW kind \in Kind
  PROVE  LET r == [Idle EXCEPT !.user = u, !.new = new, !.todo = << << "Create", kind >> >>] IN
         RequestOK(r) /\ r.new = new /\ r.user = u /\ ~ Opens(r)
<1>1. Idle \in RequestType
  BY DEF Idle, RequestType
<1>2. PICK t : t = << << "Create", kind >> >>
  OBVIOUS
<1>3. t \in Seq(CallType) /\ Len(t) = 1 /\ t[1] = << "Create", kind >> /\ DOMAIN t = {1}
  BY <1>2, OneCall DEF CallName, CallTarget
<1>4. PICK r : r = [Idle EXCEPT !.user = u, !.new = new, !.todo = t]
  OBVIOUS
<1>5. r \in RequestType /\ r.new = new /\ r.user = u /\ r.todo = t
  BY <1>1, <1>3, <1>4 DEF RequestType
<1>6. kind # "invited"
  BY DEF Kind
<1>7. RequestOK(r) /\ r.new = new /\ r.user = u /\ ~ Opens(r)
  BY <1>3, <1>5, <1>6, AccessAssumption DEF RequestOK, Opens
<1> QED
  BY <1>2, <1>4, <1>7

\* What it makes is nobody's, and what it opens is no account yet.
LEMMA NewBegins ==
  ASSUME AccessInv, NEW h \in Handler, NEW r, RequestOK(r), r.new \in Fresh,
         handler[h] = Idle, handler' = [handler EXCEPT ![h] = r],
         Opens(r) => r.user \in Unborn, ~ Opens(r) => users[r.user] # "absent",
         UNCHANGED << accounts, fleet, memory >>
  PROVE  AccessInv'
<1>1. /\ handler'[h] = r /\ \A g \in Handler \ {h} : handler'[g] = handler[g]
      /\ DOMAIN handler' = Handler /\ handler' = [g \in Handler |-> handler'[g]]
  BY DEF AccessInv, AccountInv, RequestsOK
<1>2. r.new \in Credential /\ credentials[r.new].kind = "none" /\ \A g \in Handler : handler[g].new # r.new
  BY DEF Fresh
<1>3. r.user \in User
  BY <1>2, AccessAssumption DEF RequestOK
<1>4. RequestsOK'
  BY <1>1 DEF AccessInv, AccountInv, RequestsOK, RequestOK
<1>5. NamesAreFree'
  BY <1>1, <1>2 DEF AccessInv, AccountInv, NamesAreFree, accounts
<1>6. UsersAreKnown'
  <2>1. Opens(r) => users[r.user] = "absent" /\ \A g \in Handler : handler[g].user # r.user
    BY DEF Unborn
  <2>2. ASSUME NEW g \in Handler
        PROVE  /\ Opens(handler'[g]) => /\ users[handler'[g].user] = "absent"
                                        /\ \A f \in Handler : handler'[f].user = handler'[g].user => f = g
               /\ ~ Opens(handler'[g]) /\ handler'[g].user # NoUser => users[handler'[g].user] # "absent"
    <3>1. CASE g = h
      BY <1>1, <2>1, <3>1
    <3>2. CASE g # h
      <4>1. handler'[g] = handler[g]
        BY <1>1, <3>2
      <4>2. ~ Opens(handler[g]) /\ handler[g].user # NoUser => users[handler[g].user] # "absent"
        BY DEF AccessInv, AccountInv, UsersAreKnown
      <4>3. ASSUME Opens(handler[g])
            PROVE  /\ users[handler[g].user] = "absent"
                   /\ \A f \in Handler : handler'[f].user = handler[g].user => f = g
        <5>1. /\ users[handler[g].user] = "absent"
              /\ \A f \in Handler : handler[f].user = handler[g].user => f = g
          BY <4>3 DEF AccessInv, AccountInv, UsersAreKnown
        <5>2. r.user # handler[g].user
          BY <2>1, <5>1
        <5> QED
          BY <1>1, <5>1, <5>2
      <4> QED
        BY <4>1, <4>2, <4>3
    <3> QED
      BY <3>1, <3>2
  <2> QED
    BY <2>2 DEF UsersAreKnown, Opens, accounts
<1>7. AccountsOK' /\ CredentialsOK' /\ FirstUserOnce' /\ InvitationsSingleUse'
  BY DEF AccessInv, AccountInv, AccountsOK, CredentialsOK, FirstUserOnce, InvitationsSingleUse, accounts
<1>8. FleetInv'
  BY DEF AccessInv, FleetInv, FleetOK, OneWorkerPerKey, UsesAreCounted, BindingsAgree, accounts, fleet
<1> QED
  BY <1>4, <1>5, <1>6, <1>7, <1>8, MemoryUnchanged DEF AccessInv, AccountInv

LEMMA RegisterKeeps ==
  ASSUME AccessInv, NEW h \in Handler, Register(h)
  PROVE  AccessInv'
<1>1. PICK u \in Unborn, new \in Fresh, code \in Credential \cup {NoCredential} :
        /\ code = NoCredential <=> Nobody
        /\ Begin(h, "register", [Idle EXCEPT !.user = u, !.new = new, !.own = code,
                                   !.todo = << << "Open", IF Nobody THEN "first" ELSE "invited" >> >>])
  BY DEF Register
<1>2. PICK of : of = IF Nobody THEN "first" ELSE "invited"
  OBVIOUS
<1>3. of \in CallTarget /\ (of = "invited" => code \in Credential)
  BY <1>1, <1>2 DEF CallTarget
<1>4. u \in User /\ new \in Credential
  BY DEF Unborn, Fresh
<1> DEFINE request == [Idle EXCEPT !.user = u, !.new = new, !.own = code, !.todo = << << "Open", of >> >>]
<1>5. RequestOK(request) /\ request.new = new /\ request.user = u /\ Opens(request)
  BY <1>3, <1>4, NewOpening
<1>6. handler[h] = Idle /\ handler' = [handler EXCEPT ![h] = request]
  BY <1>1, <1>2 DEF Begin
<1> HIDE DEF request
<1> QED
  BY <1>5, <1>6, NewBegins DEF Register

LEMMA CreationBegins ==
  ASSUME AccessInv, NEW h \in Handler, NEW name, NEW u \in User, NEW new \in Fresh, NEW kind \in Kind,
         users[u] # "absent",
         Begin(h, name, [Idle EXCEPT !.user = u, !.new = new, !.todo = << << "Create", kind >> >>]),
         UNCHANGED << accounts, fleet, memory >>
  PROVE  AccessInv'
<1> DEFINE request == [Idle EXCEPT !.user = u, !.new = new, !.todo = << << "Create", kind >> >>]
<1>1. new \in Credential
  BY DEF Fresh
<1>2. RequestOK(request) /\ request.new = new /\ request.user = u /\ ~ Opens(request)
  BY <1>1, NewCreation
<1>3. handler[h] = Idle /\ handler' = [handler EXCEPT ![h] = request]
  BY DEF Begin
<1> HIDE DEF request
<1> QED
  BY <1>2, <1>3, NewBegins

LEMMA LoginKeeps ==
  ASSUME AccessInv, NEW h \in Handler, Login(h)
  PROVE  AccessInv'
<1>1. PICK u \in User, new \in Fresh :
        /\ Active(u)
        /\ Begin(h, "login", [Idle EXCEPT !.user = u, !.new = new, !.todo = << << "Create", "session" >> >>])
  BY DEF Login
<1>2. users[u] # "absent" /\ "session" \in Kind
  BY <1>1 DEF Active, Kind
<1> QED
  BY <1>1, <1>2, CreationBegins DEF Login

LEMMA AskForKeeps ==
  ASSUME AccessInv, NEW h \in Handler, NEW kind \in {"token", "invitation", "registration"}, AskFor(h, kind)
  PROVE  AccessInv'
<1>1. PICK u \in User, new \in Fresh :
        /\ users[u] # "absent"
        /\ Begin(h, kind, [Idle EXCEPT !.user = u, !.new = new, !.todo = << << "Create", kind >> >>])
  BY DEF AskFor
<1>2. kind \in Kind
  BY DEF Kind
<1> QED
  BY <1>1, <1>2, CreationBegins DEF AskFor

\* An account is opened, with the first session of its user.
LEMMA OpenKeeps ==
  ASSUME AccessInv, NEW h \in Handler, NEW by, NEW issued,
         handler[h].new \in Credential, handler[h].user \in User, Opens(handler[h]),
         handler' = [handler EXCEPT ![h] = Idle], Open(h, by, issued), UNCHANGED << fleet, memory >>,
         \/ by = "first" /\ issued = credentials /\ Nobody
         \/ /\ by \in Credential /\ credentials[by].kind = "invitation" /\ credentials[by].uses = 0
            /\ issued = [credentials EXCEPT ![by].uses = 1]
  PROVE  AccessInv'
<1>1. PICK u \in User, new \in Credential : u = handler[h].user /\ new = handler[h].new
  OBVIOUS
<1>2. /\ users \in [User -> Status] /\ users' = [users EXCEPT ![u] = "active"]
      /\ opened \in [User -> {"nobody", "first", "admin"} \cup Credential] /\ opened' = [opened EXCEPT ![u] = by]
      /\ credentials \in [Credential -> Issued] /\ credentials' = [issued EXCEPT ![new] = Issue("session", u)]
  BY <1>1 DEF AccessInv, AccountInv, AccountsOK, CredentialsOK, Open
<1>3. /\ handler'[h] = Idle /\ \A g \in Handler \ {h} : handler'[g] = handler[g]
      /\ DOMAIN handler' = Handler /\ handler' = [g \in Handler |-> handler'[g]]
  BY DEF AccessInv, AccountInv, RequestsOK
<1>4. /\ users[u] = "absent" /\ \A g \in Handler : handler[g].user = u => g = h
      /\ credentials[new].kind = "none" /\ \A g \in Handler : handler[g].new = new => g = h
  BY <1>1, AccessAssumption DEF AccessInv, AccountInv, UsersAreKnown, NamesAreFree
<1>5. opened[u] = "nobody" /\ by # new
  BY <1>2, <1>4, AccessAssumption DEF AccessInv, AccountInv, AccountsOK
<1>6. /\ credentials' \in [Credential -> Issued]
      /\ credentials'[new].kind = "session" /\ credentials'[new].user = u
      /\ \A c \in Credential \ {new} :
           /\ credentials'[c].kind = credentials[c].kind /\ credentials'[c].user = credentials[c].user
           /\ credentials'[c].uses = IF c = by THEN 1 ELSE credentials[c].uses
  <2>1. CASE issued = credentials /\ by \notin Credential
    BY <1>2, <2>1 DEF Issue, Issued, Kind
  <2>2. CASE by \in Credential /\ issued = [credentials EXCEPT ![by].uses = 1]
    <3>1. /\ issued \in [Credential -> Issued] /\ issued[by].uses = 1
          /\ \A c \in Credential : /\ issued[c].kind = credentials[c].kind /\ issued[c].user = credentials[c].user
                                   /\ c # by => issued[c] = credentials[c]
      BY <1>2, <2>2 DEF Issued
    <3> QED
      BY <1>2, <1>5, <3>1 DEF Issue, Issued, Kind
  <2> QED
    BY <2>1, <2>2, AccessAssumption
<1>7. RequestsOK'
  BY <1>3, IdlePlain DEF AccessInv, AccountInv, RequestsOK, RequestOK
<1>8. NamesAreFree'
  <2>1. Idle.new = NoCredential
    BY DEF Idle
  <2>2. ASSUME NEW g \in Handler, handler'[g].new # NoCredential
        PROVE  /\ credentials'[handler'[g].new].kind = "none"
               /\ \A f \in Handler : handler'[f].new = handler'[g].new => f = g
    <3>1. g # h /\ handler'[g] = handler[g]
      BY <1>3, <2>1, <2>2
    <3>2. handler[g].new \in Credential /\ handler[g].new # new
      BY <1>4, <2>2, <3>1 DEF AccessInv, AccountInv, RequestsOK, RequestOK, RequestType
    <3>3. /\ credentials[handler[g].new].kind = "none"
          /\ \A f \in Handler : handler[f].new = handler[g].new => f = g
      BY <2>2, <3>1 DEF AccessInv, AccountInv, NamesAreFree
    <3> QED
      BY <1>3, <1>6, <2>1, <3>1, <3>2, <3>3, AccessAssumption
  <2> QED
    BY <2>2 DEF NamesAreFree
<1>9. UsersAreKnown'
  <2>1. ~ Opens(Idle) /\ Idle.user = NoUser
    BY DEF Opens, Idle
  <2>2. ASSUME NEW g \in Handler
        PROVE  /\ Opens(handler'[g]) => /\ users'[handler'[g].user] = "absent"
                                        /\ \A f \in Handler : handler'[f].user = handler'[g].user => f = g
               /\ ~ Opens(handler'[g]) /\ handler'[g].user # NoUser => users'[handler'[g].user] # "absent"
    <3>1. CASE g = h
      BY <1>3, <2>1, <3>1
    <3>2. CASE g # h
      <4>1. handler'[g] = handler[g] /\ handler[g].user # u /\ handler[g].user \in User \cup {NoUser}
        BY <1>3, <1>4, <3>2 DEF AccessInv, AccountInv, RequestsOK, RequestOK, RequestType
      <4>2. ASSUME Opens(handler[g])
            PROVE  /\ users'[handler[g].user] = "absent"
                   /\ \A f \in Handler : handler'[f].user = handler[g].user => f = g
        <5>1. /\ handler[g].user \in User /\ users[handler[g].user] = "absent"
              /\ \A f \in Handler : handler[f].user = handler[g].user => f = g
          BY <4>2 DEF AccessInv, AccountInv, UsersAreKnown, RequestsOK, RequestOK, Opens
        <5> QED
          BY <1>2, <1>3, <2>1, <4>1, <5>1, AccessAssumption
      <4>3. ~ Opens(handler[g]) /\ handler[g].user # NoUser => users'[handler[g].user] # "absent"
        BY <1>2, <4>1 DEF AccessInv, AccountInv, UsersAreKnown
      <4> QED
        BY <4>1, <4>2, <4>3
    <3> QED
      BY <3>1, <3>2
  <2> QED
    BY <2>2 DEF UsersAreKnown, Opens
<1>10. AccountsOK'
  <2>1. users' \in [User -> Status]
    BY <1>2 DEF Status
  <2>2. opened' \in [User -> {"nobody", "first", "admin"} \cup Credential]
    BY <1>2
  <2>3. \A v \in User : opened'[v] = "nobody" <=> users'[v] = "absent"
    BY <1>2, AccessAssumption DEF AccessInv, AccountInv, AccountsOK
  <2>4. ASSUME NEW v \in User, opened'[v] \in Credential
        PROVE  credentials'[opened'[v]].kind = "invitation"
    <3>1. credentials[opened'[v]].kind = "invitation"
      BY <1>2, <2>4, AccessAssumption DEF AccessInv, AccountInv, AccountsOK
    <3> QED
      BY <1>4, <1>6, <2>4, <3>1
  <2> QED
    BY <2>1, <2>2, <2>3, <2>4 DEF AccountsOK
<1>11. CredentialsOK'
  <2>1. ASSUME NEW c \in Credential
        PROVE  /\ credentials'[c].kind = "none" <=> credentials'[c].user = NoUser
               /\ credentials'[c].kind # "none" => users'[credentials'[c].user] # "absent"
    <3>1. CASE c = new
      BY <1>2, <1>6, <3>1, AccessAssumption
    <3>2. CASE c # new
      <4>1. /\ credentials[c].kind = "none" <=> credentials[c].user = NoUser
            /\ credentials[c].kind # "none" => users[credentials[c].user] # "absent"
            /\ credentials[c].user \in User \cup {NoUser}
        BY <1>2 DEF AccessInv, AccountInv, CredentialsOK, Issued
      <4> QED
        BY <1>2, <1>6, <3>2, <4>1
    <3> QED
      BY <3>1, <3>2
  <2> QED
    BY <1>6, <2>1 DEF CredentialsOK
<1>12. FirstUserOnce'
  <2>1. CASE by = "first"
    <3>1. \A v \in User : opened[v] = "nobody"
      BY <2>1, AccessAssumption DEF Nobody, AccessInv, AccountInv, AccountsOK
    <3> QED
      BY <1>2, <3>1 DEF FirstUserOnce
  <2>2. CASE by # "first"
    BY <1>2, <2>2 DEF FirstUserOnce, AccessInv, AccountInv
  <2> QED
    BY <2>1, <2>2
<1>13. InvitationsSingleUse'
  <2> SUFFICES ASSUME NEW c \in Credential, credentials'[c].kind = "invitation"
               PROVE  /\ \A v, w \in User : opened'[v] = c /\ opened'[w] = c => v = w
                      /\ credentials'[c].uses = 1 <=> \E v \in User : opened'[v] = c
    BY DEF InvitationsSingleUse
  <2>1. c # new /\ credentials[c].kind = "invitation"
    BY <1>6
  <2>2. /\ \A v, w \in User : opened[v] = c /\ opened[w] = c => v = w
        /\ credentials[c].uses = 1 <=> \E v \in User : opened[v] = c
    BY <2>1 DEF AccessInv, AccountInv, InvitationsSingleUse
  <2>3. CASE c = by
    <3>1. \A v \in User : opened[v] # c
      BY <2>2, <2>3, AccessAssumption
    <3> QED
      BY <1>2, <1>6, <2>1, <2>3, <3>1
  <2>4. CASE c # by
    <3>1. \A v \in User : opened'[v] = c <=> opened[v] = c
      BY <1>2, <1>5, <2>4, AccessAssumption
    <3> QED
      BY <1>6, <2>1, <2>2, <2>4, <3>1
  <2> QED
    BY <2>3, <2>4
<1>14. AccountInv'
  BY <1>7, <1>8, <1>9, <1>10, <1>11, <1>12, <1>13 DEF AccountInv
<1>15. TokensCalm
  BY <1>4, <1>6, AccessAssumption DEF TokensCalm
<1>16. FleetInv'
  BY <1>2, <1>15, FleetCalm DEF AccessInv
<1> QED
  BY <1>14, <1>16, MemoryUnchanged DEF AccessInv

LEMMA OpenFirstKeeps ==
  ASSUME AccessInv, NEW h \in Handler, OpenFirst(h)
  PROVE  AccessInv'
<1>1. /\ handler' = [handler EXCEPT ![h] = Idle] /\ handler[h].new \in Credential
      /\ handler[h].user \in User /\ Opens(handler[h])
  BY LastProceeds DEF OpenFirst, AccessInv, AccountInv
<1>2. CASE Nobody
  BY <1>1, <1>2, OpenKeeps DEF OpenFirst
<1>3. CASE ~ Nobody
  <2>1. HandlersCalm
    BY <1>1, IdlePlain, ChangeCalm DEF AccessInv, AccountInv
  <2> QED
    BY <1>3, <2>1, UnchangedCalm, MemoryUnchanged DEF OpenFirst
<1> QED
  BY <1>2, <1>3

LEMMA OpenInvitedKeeps ==
  ASSUME AccessInv, NEW h \in Handler, OpenInvited(h)
  PROVE  AccessInv'
<1>1. /\ handler' = [handler EXCEPT ![h] = Idle] /\ handler[h].new \in Credential
      /\ handler[h].user \in User /\ Opens(handler[h])
  BY LastProceeds DEF OpenInvited, AccessInv, AccountInv
<1>2. handler[h].own \in Credential
  BY LastProceeds DEF OpenInvited, AccessInv, AccountInv
<1>3. PICK code \in Credential : code = handler[h].own
  BY <1>2
<1>4. CASE Usable(code, "invitation") /\ ~ Spent(code) /\ Open(h, code, [credentials EXCEPT ![code].uses = 1])
  <2>1. credentials[code].uses \in Nat
    BY DEF AccessInv, AccountInv, CredentialsOK, Issued
  <2>2. credentials[code].kind = "invitation" /\ ~ credentials[code].uses > 0
    BY <1>4 DEF Usable, Spent
  <2>3. credentials[code].uses = 0
    BY <2>1, <2>2
  <2> QED
    BY <1>1, <1>4, <2>2, <2>3, OpenKeeps DEF OpenInvited
<1>5. CASE UNCHANGED accounts
  <2>1. HandlersCalm
    BY <1>1, IdlePlain, ChangeCalm DEF AccessInv, AccountInv
  <2> QED
    BY <1>5, <2>1, UnchangedCalm, MemoryUnchanged DEF OpenInvited
<1> QED
  BY <1>3, <1>4, <1>5 DEF OpenInvited

LEMMA AdminCreateUserKeeps ==
  ASSUME AccessInv, NEW u \in User, AdminCreateUser(u)
  PROVE  AccessInv'
<1>1. /\ users \in [User -> Status] /\ users' = [users EXCEPT ![u] = "active"] /\ users[u] = "absent"
      /\ opened \in [User -> {"nobody", "first", "admin"} \cup Credential] /\ opened' = [opened EXCEPT ![u] = "admin"]
      /\ \A h \in Handler : handler[h].user # u
      /\ handler' = handler /\ credentials' = credentials
  BY DEF AdminCreateUser, Unborn, AccessInv, AccountInv, AccountsOK
<1>2. "admin" \notin Credential /\ opened[u] = "nobody"
  BY <1>1, AccessAssumption DEF AccessInv, AccountInv, AccountsOK
<1>3. RequestsOK' /\ NamesAreFree'
  BY <1>1 DEF AccessInv, AccountInv, RequestsOK, RequestOK, NamesAreFree
<1>4. UsersAreKnown'
  <2>1. ASSUME NEW h \in Handler
        PROVE  /\ Opens(handler[h]) => /\ users'[handler[h].user] = "absent"
                                       /\ \A g \in Handler : handler[g].user = handler[h].user => g = h
               /\ ~ Opens(handler[h]) /\ handler[h].user # NoUser => users'[handler[h].user] # "absent"
    <3>1. users'[handler[h].user] = users[handler[h].user]
      BY <1>1
    <3> QED
      BY <3>1 DEF AccessInv, AccountInv, UsersAreKnown
  <2> QED
    BY <1>1, <2>1 DEF UsersAreKnown, Opens
<1>5. AccountsOK'
  <2>1. \A v \in User : opened'[v] = "nobody" <=> users'[v] = "absent"
    BY <1>1 DEF AccessInv, AccountInv, AccountsOK
  <2>2. users' \in [User -> Status]
    BY <1>1 DEF Status
  <2> QED
    BY <1>1, <1>2, <2>1, <2>2 DEF AccessInv, AccountInv, AccountsOK
<1>6. CredentialsOK'
  BY <1>1 DEF AccessInv, AccountInv, CredentialsOK
<1>7. FirstUserOnce'
  BY <1>1 DEF AccessInv, AccountInv, FirstUserOnce
<1>8. InvitationsSingleUse'
  <2>1. \A c \in Credential, v \in User : opened'[v] = c <=> opened[v] = c
    BY <1>1, <1>2, AccessAssumption
  <2> QED
    BY <1>1, <2>1 DEF AccessInv, AccountInv, InvitationsSingleUse
<1>9. FleetInv'
  <2>1. TokensCalm
    BY <1>1 DEF TokensCalm, AccessInv, AccountInv, CredentialsOK
  <2> QED
    BY <1>1, <2>1, FleetCalm DEF AdminCreateUser, AccessInv
<1> QED
  BY <1>3, <1>4, <1>5, <1>6, <1>7, <1>8, <1>9, MemoryUnchanged DEF AdminCreateUser, AccessInv, AccountInv

LEMMA CreateKeeps ==
  ASSUME AccessInv, NEW h \in Handler, NEW kind \in Kind, Create(h, kind)
  PROVE  AccessInv'
<1>1. /\ handler' = [handler EXCEPT ![h] = Idle] /\ handler[h].new \in Credential
      /\ handler[h].user \in User /\ ~ Opens(handler[h])
  BY LastProceeds DEF Create, AccessInv, AccountInv
<1>2. PICK u \in User, new \in Credential : u = handler[h].user /\ new = handler[h].new
  BY <1>1
<1>3. /\ credentials[new].kind = "none" /\ \A g \in Handler : handler[g].new = new => g = h
      /\ users[u] # "absent"
  BY <1>1, <1>2, AccessAssumption DEF AccessInv, AccountInv, NamesAreFree, UsersAreKnown
<1>4. /\ handler'[h] = Idle /\ \A g \in Handler \ {h} : handler'[g] = handler[g]
      /\ DOMAIN handler' = Handler /\ handler' = [g \in Handler |-> handler'[g]]
      /\ Idle.new = NoCredential /\ Idle.user = NoUser /\ ~ Opens(Idle)
  BY <1>1 DEF AccessInv, AccountInv, RequestsOK, Idle, Opens
<1>5. /\ credentials' \in [Credential -> Issued]
      /\ credentials'[new].kind = kind /\ credentials'[new].user = u /\ credentials'[new].uses = 0
      /\ \A c \in Credential \ {new} : credentials'[c] = credentials[c]
      /\ users' = users /\ opened' = opened
  BY <1>2 DEF Create, Issue, Issued, AccessInv, AccountInv, CredentialsOK
<1>6. RequestsOK'
  BY <1>4, IdlePlain DEF AccessInv, AccountInv, RequestsOK, RequestOK
<1>7. NamesAreFree'
  <2>1. ASSUME NEW g \in Handler, handler'[g].new # NoCredential
        PROVE  /\ credentials'[handler'[g].new].kind = "none"
               /\ \A f \in Handler : handler'[f].new = handler'[g].new => f = g
    <3>1. g # h /\ handler'[g] = handler[g]
      BY <1>4, <2>1
    <3>2. handler[g].new \in Credential /\ handler[g].new # new
      BY <1>3, <2>1, <3>1 DEF AccessInv, AccountInv, RequestsOK, RequestOK, RequestType
    <3>3. /\ credentials[handler[g].new].kind = "none"
          /\ \A f \in Handler : handler[f].new = handler[g].new => f = g
      BY <2>1, <3>1 DEF AccessInv, AccountInv, NamesAreFree
    <3> QED
      BY <1>4, <1>5, <3>1, <3>2, <3>3, AccessAssumption
  <2> QED
    BY <2>1 DEF NamesAreFree
<1>8. UsersAreKnown'
  <2>1. ASSUME NEW g \in Handler, Opens(handler'[g])
        PROVE  /\ users[handler'[g].user] = "absent"
               /\ \A f \in Handler : handler'[f].user = handler'[g].user => f = g
    <3>1. handler'[g] = handler[g] /\ handler[g].user \in User
      BY <1>4, <2>1 DEF AccessInv, AccountInv, RequestsOK, RequestOK, Opens
    <3>2. /\ users[handler[g].user] = "absent"
          /\ \A f \in Handler : handler[f].user = handler[g].user => f = g
      BY <2>1, <3>1 DEF AccessInv, AccountInv, UsersAreKnown
    <3> QED
      BY <1>4, <3>1, <3>2, AccessAssumption
  <2>2. ASSUME NEW g \in Handler, ~ Opens(handler'[g]), handler'[g].user # NoUser
        PROVE  users[handler'[g].user] # "absent"
    BY <1>4, <2>2 DEF AccessInv, AccountInv, UsersAreKnown
  <2> QED
    BY <1>5, <2>1, <2>2 DEF UsersAreKnown, Opens
<1>9. AccountsOK'
  BY <1>3, <1>5 DEF AccessInv, AccountInv, AccountsOK
<1>10. CredentialsOK'
  <2>1. kind # "none" /\ u # NoUser
    BY AccessAssumption DEF Kind
  <2> QED
    BY <1>3, <1>5, <2>1 DEF AccessInv, AccountInv, CredentialsOK
<1>11. FirstUserOnce'
  BY <1>5 DEF AccessInv, AccountInv, FirstUserOnce
<1>12. InvitationsSingleUse'
  <2>1. \A v \in User : opened[v] # new
    BY <1>3 DEF AccessInv, AccountInv, AccountsOK
  <2>2. ASSUME NEW c \in Credential, credentials'[c].kind = "invitation"
        PROVE  /\ \A v, w \in User : opened[v] = c /\ opened[w] = c => v = w
               /\ credentials'[c].uses = 1 <=> \E v \in User : opened[v] = c
    <3>1. CASE c = new
      BY <1>5, <2>1, <3>1
    <3>2. CASE c # new
      BY <1>5, <2>2, <3>2 DEF AccessInv, AccountInv, InvitationsSingleUse
    <3> QED
      BY <3>1, <3>2
  <2> QED
    BY <1>5, <2>2 DEF InvitationsSingleUse
<1>13. FleetInv'
  <2>1. TokensCalm
    BY <1>3, <1>5 DEF TokensCalm
  <2> QED
    BY <1>5, <2>1, FleetCalm DEF Create, AccessInv
<1> QED
  BY <1>6, <1>7, <1>8, <1>9, <1>10, <1>11, <1>12, <1>13, MemoryUnchanged DEF Create, AccessInv, AccountInv

-----------------------------------------------------------------------------
(* Workers are registered and revoked. *)

LEMMA RegisterWorkerKeeps ==
  ASSUME AccessInv, NEW h \in Handler, NEW c \in Credential, NEW k \in Key, NEW w \in Worker,
         RegisterWorker(h, c, k, w)
  PROVE  AccessInv'
<1> DEFINE old == Superseded(k)
           row == [state |-> "active", owner |-> credentials[c].user, key |-> k, token |-> c]
<1>1. /\ workers[w].state = "absent" /\ credentials[c].kind = "registration" /\ credentials[c].uses < MaxUses
      /\ workers' = [EndedAmong(old) EXCEPT ![w] = row]
      /\ binding' = [v \in Worker |-> IF v = w THEN credentials[c].user
                                      ELSE IF v \in old THEN NoUser ELSE binding[v]]
      /\ credentials' = [credentials EXCEPT ![c].uses = @ + 1]
      /\ UNCHANGED << users, opened, memory >>
  BY DEF RegisterWorker, MayRegister, Usable
<1>2. /\ workers \in [Worker -> Row] /\ credentials \in [Credential -> Issued] /\ users \in [User -> Status]
  BY DEF AccessInv, AccountInv, AccountsOK, CredentialsOK, FleetInv, FleetOK
<1>3. /\ credentials' \in [Credential -> Issued]
      /\ credentials'[c].uses = credentials[c].uses + 1 /\ credentials[c].uses \in Nat
      /\ \A d \in Credential : /\ credentials'[d].kind = credentials[d].kind
                               /\ credentials'[d].user = credentials[d].user
                               /\ d # c => credentials'[d].uses = credentials[d].uses
  BY <1>1, <1>2 DEF Issued
<1>4. credentials[c].user \in User /\ users[credentials[c].user] # "absent" /\ row \in Row
  BY <1>1, <1>2, AccessAssumption DEF AccessInv, AccountInv, CredentialsOK, Issued, Row
<1>5. /\ workers' \in [Worker -> Row] /\ workers'[w] = row /\ w \notin old
      /\ \A v \in Worker \ {w} :
           /\ workers'[v].owner = workers[v].owner /\ workers'[v].key = workers[v].key
           /\ workers'[v].token = workers[v].token
           /\ workers'[v].state = IF v \in old THEN "revoked" ELSE workers[v].state
  <2>1. /\ EndedAmong(old) \in [Worker -> Row]
        /\ \A v \in Worker :
             /\ EndedAmong(old)[v].owner = workers[v].owner /\ EndedAmong(old)[v].key = workers[v].key
             /\ EndedAmong(old)[v].token = workers[v].token
             /\ EndedAmong(old)[v].state = IF v \in old THEN "revoked" ELSE workers[v].state
    BY <1>2 DEF EndedAmong, Row
  <2>2. w \notin old
    BY <1>1 DEF Superseded
  <2> HIDE DEF old, row
  <2> QED
    BY <1>1, <1>4, <2>1, <2>2
<1>6. \A v \in Worker : v \in old <=> workers[v].state = "active" /\ workers[v].key = k
  BY DEF Superseded
<1>7. row.state = "active" /\ row.owner = credentials[c].user /\ row.key = k /\ row.token = c
  OBVIOUS
<1> HIDE DEF old, row
<1>8. HandlersCalm
  <2>1. PICK list \in SetToSeqs(Superseded(k)) :
          Begin(h, "register worker", [Idle EXCEPT !.todo = ForEach(list, CleanUp)])
    BY DEF RegisterWorker
  <2>2. list \in Seq(Worker \cup {NoWorker})
    BY WorkerLists DEF Superseded
  <2>3. /\ CleanUp \in Seq(CallName) /\ Len(CleanUp) \in 1 .. 4
        /\ \A j \in 1 .. Len(CleanUp) : CleanUp[j] \notin {"Create", "Open"}
    BY DEF CleanUp, CallName
  <2>4. PICK t : t = ForEach(list, CleanUp)
    OBVIOUS
  <2>5. t \in Seq(CallType) /\ \A i \in DOMAIN t : t[i][1] \notin {"Create", "Open"}
    BY <2>2, <2>3, <2>4, LoopTyped
  <2>6. Plain([Idle EXCEPT !.todo = t])
    BY <2>5, PlainRequest
  <2> QED
    BY <2>1, <2>4, <2>6, ChangeCalm DEF Begin, AccessInv, AccountInv
<1>9. AccountInv'
  <2>1. StatusesCalm /\ CredentialsCalm
    BY <1>1, <1>2, <1>3 DEF StatusesCalm, CredentialsCalm
  <2> QED
    BY <1>1, <1>8, <2>1, AccountCalm DEF AccessInv
<1>10. FleetOK'
  <2>1. binding' \in [Worker -> User \cup {NoUser}]
    BY <1>1, <1>4 DEF AccessInv, FleetInv, FleetOK
  <2>2. ASSUME NEW v \in Worker
        PROVE  /\ workers'[v].state = "absent" => workers'[v].token = NoCredential
               /\ workers'[v].token # NoCredential => credentials'[workers'[v].token].kind = "registration"
               /\ workers'[v].owner # NoUser => users'[workers'[v].owner] # "absent"
    <3>1. CASE v = w
      BY <1>1, <1>3, <1>4, <1>5, <1>7, <3>1
    <3>2. CASE v # w
      <4>1. /\ workers[v].state = "absent" => workers[v].token = NoCredential
            /\ workers[v].token # NoCredential => credentials[workers[v].token].kind = "registration"
            /\ workers[v].owner # NoUser => users[workers[v].owner] # "absent"
            /\ workers[v].token \in Credential \cup {NoCredential}
        BY <1>2 DEF AccessInv, FleetInv, FleetOK, Row
      <4> QED
        BY <1>1, <1>3, <1>5, <3>2, <4>1
    <3> QED
      BY <3>1, <3>2
  <2> QED
    BY <1>5, <2>1, <2>2 DEF FleetOK
<1>11. OneWorkerPerKey'
  <2> SUFFICES ASSUME NEW u \in Worker, NEW v \in Worker, workers'[u].state = "active",
                      workers'[v].state = "active", workers'[u].key = workers'[v].key
               PROVE  u = v
    BY DEF OneWorkerPerKey
  <2>1. ASSUME NEW x \in Worker \ {w}, workers'[x].state = "active"
        PROVE  workers[x].state = "active" /\ workers'[x].key = workers[x].key /\ workers[x].key # k
    BY <1>5, <1>6, <2>1
  <2>2. CASE u # w /\ v # w
    BY <2>1, <2>2 DEF AccessInv, FleetInv, OneWorkerPerKey
  <2>3. CASE u = w \/ v = w
    BY <1>5, <1>7, <2>1, <2>3
  <2> QED
    BY <2>2, <2>3
<1>12. UsesAreCounted'
  <2> DEFINE made(d) == {v \in Worker : workers[v].token = d}
             madeNow(d) == {v \in Worker : workers'[v].token = d}
  <2>1. ASSUME NEW d \in Credential, d # c PROVE madeNow(d) = made(d)
    <3>1. workers[w].token = NoCredential
      BY <1>1 DEF AccessInv, FleetInv, FleetOK
    <3> QED
      BY <1>5, <1>7, <2>1, <3>1, AccessAssumption
  <2>2. madeNow(c) = made(c) \cup {w} /\ w \notin made(c)
    <3>1. workers[w].token = NoCredential
      BY <1>1 DEF AccessInv, FleetInv, FleetOK
    <3> QED
      BY <1>5, <1>7, <3>1, AccessAssumption
  <2>3. IsFiniteSet(made(c))
    BY AccessAssumption, FS_Subset
  <2>4. Cardinality(madeNow(c)) = Cardinality(made(c)) + 1
    BY <2>2, <2>3, FS_AddElement
  <2>5. Cardinality(made(c)) = credentials[c].uses
    BY <1>1 DEF AccessInv, FleetInv, UsesAreCounted
  <2>6. credentials'[c].uses = Cardinality(madeNow(c)) /\ credentials'[c].uses <= MaxUses
    BY <1>1, <1>3, <2>4, <2>5, AccessAssumption
  <2>7. ASSUME NEW d \in Credential, credentials'[d].kind = "registration"
        PROVE  credentials'[d].uses = Cardinality(madeNow(d)) /\ credentials'[d].uses <= MaxUses
    <3>1. CASE d = c
      BY <2>6, <3>1
    <3>2. CASE d # c
      BY <1>3, <2>1, <2>7, <3>2 DEF AccessInv, FleetInv, UsesAreCounted
    <3> QED
      BY <3>1, <3>2
  <2> QED
    BY <2>7 DEF UsesAreCounted
<1>13. BindingsAgree'
  <2>1. ASSUME NEW v \in Worker
        PROVE  binding'[v] = IF workers'[v].state = "active" THEN workers'[v].owner ELSE NoUser
    <3>1. binding[v] = IF workers[v].state = "active" THEN workers[v].owner ELSE NoUser
      BY DEF AccessInv, FleetInv, BindingsAgree
    <3>2. CASE v = w
      BY <1>1, <1>5, <1>7, <3>2
    <3>3. CASE v # w
      BY <1>1, <1>5, <3>1, <3>3
    <3> QED
      BY <3>2, <3>3
  <2> QED
    BY <2>1 DEF BindingsAgree
<1> QED
  BY <1>1, <1>9, <1>10, <1>11, <1>12, <1>13, MemoryUnchanged DEF AccessInv, FleetInv

LEMMA RevokeWorkerKeeps ==
  ASSUME AccessInv, NEW h \in Handler, NEW w \in Worker, RevokeWorker(h, w)
  PROVE  AccessInv'
<1>1. CASE UNCHANGED fleet /\ Return(h)
  BY <1>1, ProceedsKeep, MemoryUnchanged DEF RevokeWorker
<1>2. CASE /\ workers' = EndedAmong({w}) /\ binding' = [binding EXCEPT ![w] = NoUser]
           /\ Proceed(h)
  <2>1. HandlersCalm
    BY <1>2, ProceedCalm DEF RevokeWorker, AccessInv, AccountInv
  <2>2. UNCHANGED accounts
    BY DEF RevokeWorker
  <2>3. AccountInv'
    <3>1. StatusesCalm /\ CredentialsCalm /\ opened' = opened
      BY <2>2 DEF StatusesCalm, CredentialsCalm, accounts, AccessInv, AccountInv, AccountsOK, CredentialsOK
    <3> QED
      BY <2>1, <3>1, AccountCalm DEF AccessInv
  <2>4. /\ workers' \in [Worker -> Row]
        /\ \A v \in Worker :
             /\ workers'[v].owner = workers[v].owner /\ workers'[v].key = workers[v].key
             /\ workers'[v].token = workers[v].token
             /\ workers'[v].state = IF v = w THEN "revoked" ELSE workers[v].state
    BY <1>2 DEF EndedAmong, Row, AccessInv, FleetInv, FleetOK
  <2>5. FleetOK'
    BY <1>2, <2>2, <2>4 DEF AccessInv, FleetInv, FleetOK, accounts
  <2>6. OneWorkerPerKey'
    BY <2>4 DEF AccessInv, FleetInv, OneWorkerPerKey
  <2>7. UsesAreCounted'
    <3>1. \A d \in Credential : {v \in Worker : workers'[v].token = d} = {v \in Worker : workers[v].token = d}
      BY <2>4
    <3> QED
      BY <2>2, <3>1 DEF AccessInv, FleetInv, UsesAreCounted, accounts
  <2>8. BindingsAgree'
    BY <1>2, <2>4 DEF AccessInv, FleetInv, FleetOK, BindingsAgree
  <2> QED
    BY <2>3, <2>5, <2>6, <2>7, <2>8, MemoryUnchanged DEF RevokeWorker, AccessInv, FleetInv
<1> QED
  BY <1>1, <1>2 DEF RevokeWorker

-----------------------------------------------------------------------------
(* The order of a request's calls.  What an answer promises, and what      *)
(* keeps a disabled account's Workers out, rest on the order in which the  *)
(* handlers make their calls, so the invariant speaks of the calls still   *)
(* to make: what is not done yet will be, before the answer.               *)

Has(r, call) == \E i \in DOMAIN r.todo : r.todo[i] = call
Only(r, names) == \A i \in DOMAIN r.todo : r.todo[i][1] \in names

\* The calls of requests that change an account, of one that disables it, and of a login.
Changing == {"SetStatus", "OwnedWorkers", "Unblock"}
Disabling == {"SetStatus", "RevokeAll", "RevokeUser", "OwnedWorkers", "Block", "Answer"}
LoggingIn == {"GetOwner", "GetUser", "CreateBearer"}
Changes(r) == \E i \in DOMAIN r.todo : r.todo[i][1] \in Changing

\* The calls that a request makes first, and last; and which it makes after them.
OrderOK(r) ==
  /\ \A i \in DOMAIN r.todo :
       /\ r.todo[i][1] \in {"Answer", "CreateBearer"} => i = Len(r.todo)
       /\ r.todo[i][1] \in {"ListSessions", "SetStatus", "GetOwner"} => i = 1
       /\ r.todo[i][1] = "GetUser" => i < Len(r.todo)
       /\ r.todo[i][1] = "ListSessions" => Has(r, << "RevokeListed", NoWorker >>)
       /\ r.todo[i] = << "SetStatus", "disabled" >> =>
            Has(r, << "OwnedWorkers", "disconnect" >>) /\ Only(r, Disabling)
       /\ r.todo[i] = << "OwnedWorkers", "unblock" >> /\ r.todo[1][1] = "SetStatus"
            => r.todo[1][2] = "active"
       /\ r.todo[i][1] = "GetOwner" => Only(r, LoggingIn)
  /\ Changes(r) => Has(r, Answer) /\ r.user # NoUser

OrdersOK == \A h \in Handler : OrderOK(handler[h])

(* How the calls of a request go on in one step. *)

Stays(h) == handler'[h] = handler[h]

\* The first call is made, with its effect.
Took(h) ==
  LET r == handler[h]
      name == r.todo[1][1]
      of == r.todo[1][2]
  IN  /\ r.todo # << >>
      /\ handler'[h].todo = Tail(r.todo)
      /\ handler'[h].todo # << >> => handler'[h].user = r.user
      /\ \/ handler'[h].listed = {}
         \/ handler'[h].listed = r.listed
         \/ name = "ListSessions" /\ handler'[h].listed \subseteq Held(r.user, {"session"})
      /\ name = "SetStatus" => users' = [users EXCEPT ![r.user] = of]
      /\ name = "GetUser" => users[r.user] = "active"
      /\ name = "Block" => of \in blocked'
      /\ name = "RevokeListed" => \A c \in r.listed : Spent(c)
      /\ name = "RevokeAll" =>
           \A c \in Credential : credentials[c].user = r.user /\ credentials[c].kind = of => Spent(c)'
      /\ name \notin {"OwnedWorkers", "GetOwner"}

\* The request is refused, or the Worker was revoked in the meantime.
Dropped(h) ==
  /\ handler[h].todo # << >>
  /\ handler[h].todo[1][1] \in {"RevokeWorker", "GetOwner", "GetUser", "GetActiveWorker"}
  /\ handler'[h] = Idle

ReadOwner(h) ==
  /\ handler[h].todo # << >>
  /\ \E w \in Worker :
       /\ handler[h].todo[1] = << "GetOwner", w >>
       /\ binding[w] # NoUser
       /\ handler'[h].user = binding[w]
  /\ handler'[h].todo = Tail(handler[h].todo)
  /\ handler'[h].listed \in {{}, handler[h].listed}

\* A loop over the owner's Workers takes the place of the call that lists them.
Listed(h) ==
  /\ handler[h].todo # << >>
  /\ \E do \in DOMAIN WorkerCalls, list \in SetToSeqs({w \in Worker : binding[w] = handler[h].user}) :
       /\ handler[h].todo[1] = << "OwnedWorkers", do >>
       /\ handler'[h].todo = ForEach(list, WorkerCalls[do]) \o Tail(handler[h].todo)
  /\ handler'[h].user = handler[h].user /\ handler'[h].listed = handler[h].listed

(* The requests, by the calls they are to make. *)

Harmless == {"Open", "Create", "ListSessions", "RevokeListed", "Answer",
             "RevokeWorker", "RevokeNonces", "RevokeBearers", "Block"}

Known(w) == w \in Worker /\ workers[w].state # "absent"

Begun(h) ==
  /\ handler[h] = Idle
  /\ LET r == handler'[h] IN
     \/ Only(r, Harmless) /\ OrderOK(r) /\ r.listed = {}
     \/ \E u \in User :
          /\ r.user = u
          /\ users[u] \in {"active", "disabled"}
          /\ MayChange(u)
          /\ \/ /\ r.todo = DeleteCalls
                /\ r.listed \subseteq Held(u, Kind)
             \/ \E status \in {"active", "disabled"}, password \in BOOLEAN :
                  /\ r.todo = (IF status # users[u] THEN StatusCalls(status) ELSE << >>)
                              \o (IF password THEN PasswordCalls ELSE << >>) \o << Answer >>
                  /\ r.listed = {} \/ /\ r.listed \subseteq Held(u, {"session"})
                                      /\ password \/ (status = "disabled" /\ users[u] = "active")
     \/ /\ r.listed = {}
        /\ \E w : /\ \/ r.todo = << << "CreateNonce", w >> >> /\ Known(w)
                     \/ /\ r.todo = << << "GetOwner", w >>, << "GetUser", w >>, << "CreateBearer", w >> >>
                        /\ \E n \in Nonce : nonces[n] = w /\ nonces[n] # NoWorker
                     \/ /\ r.todo = << << "GetActiveWorker", w >>, << "ClaimOrWait", w >> >>
                        /\ \E t \in Bearer : bearers[t].worker = w /\ bearers[t] # NoBearer

Serves(h) == Stays(h) \/ Took(h) \/ Dropped(h) \/ ReadOwner(h) \/ Listed(h) \/ Begun(h)

LEMMA TodoTyped ==
  ASSUME AccessInv, NEW h \in Handler
  PROVE  /\ handler[h] \in RequestType /\ handler[h].todo \in Seq(CallType)
         /\ Len(handler[h].todo) \in Nat /\ DOMAIN handler[h].todo = 1 .. Len(handler[h].todo)
         /\ handler[h].todo # << >> => Len(handler[h].todo) > 0
BY DEF AccessInv, AccountInv, RequestsOK, RequestOK, RequestType

LEMMA TailFacts ==
  ASSUME NEW S, NEW t \in Seq(S), t # << >>
  PROVE  /\ Tail(t) \in Seq(S) /\ Len(Tail(t)) = Len(t) - 1 /\ Len(t) \in Nat \ {0}
         /\ DOMAIN Tail(t) = 1 .. Len(t) - 1 /\ DOMAIN t = 1 .. Len(t)
         /\ \A i \in DOMAIN Tail(t) : i + 1 \in DOMAIN t /\ Tail(t)[i] = t[i + 1]
         /\ \A i \in DOMAIN t : i # 1 => i - 1 \in DOMAIN Tail(t) /\ Tail(t)[i - 1] = t[i]
OBVIOUS

\* One request changes.
LEMMA OneServed ==
  ASSUME AccessInv, NEW h \in Handler, NEW r, handler' = [handler EXCEPT ![h] = r]
  PROVE  handler'[h] = r /\ \A g \in Handler \ {h} : Stays(g)
BY DEF AccessInv, AccountInv, RequestsOK, Stays

LEMMA NoLength ==
  ASSUME NEW S, NEW t \in Seq(S), Len(t) = 0
  PROVE  t = << >>
OBVIOUS

LEMMA RestFacts ==
  ASSUME NEW r \in RequestType, r.todo # << >>
  PROVE  /\ Rest(r) \in RequestType
         /\ Rest(r).todo = Tail(r.todo)
         /\ Rest(r).todo # << >> => Rest(r).user = r.user
         /\ Rest(r).listed \in {{}, r.listed}
<1>1. PICK t : t = r.todo
  OBVIOUS
<1>2. t \in Seq(CallType)
  BY <1>1 DEF RequestType
<1>3. PICK q : q = Tail(t)
  OBVIOUS
<1>4. q \in Seq(CallType) /\ Len(q) = Len(t) - 1
  BY <1>1, <1>2, <1>3, TailFacts
<1>5. CASE Len(t) = 1
  <2>1. q = << >>
    BY <1>4, <1>5, NoLength
  <2>2. Rest(r) = Idle
    BY <1>1, <1>5 DEF Rest
  <2>3. Idle \in RequestType /\ Idle.todo = << >> /\ Idle.listed = {}
    BY DEF Idle, RequestType
  <2>4. QED
    BY <1>1, <1>3, <2>1, <2>2, <2>3
<1>6. CASE Len(t) # 1
  <2>1. Rest(r) = [r EXCEPT !.todo = q]
    BY <1>1, <1>3, <1>6 DEF Rest
  <2>2. /\ [r EXCEPT !.todo = q].todo = q
        /\ [r EXCEPT !.todo = q].user = r.user
        /\ [r EXCEPT !.todo = q].listed = r.listed
        /\ [r EXCEPT !.todo = q] \in RequestType
    BY <1>4 DEF RequestType
  <2>3. QED
    BY <1>1, <1>3, <2>1, <2>2
<1>7. QED
  BY <1>5, <1>6

LEMMA CallFacts ==
  ASSUME AccessInv, NEW h \in Handler, NEW name, NEW of, Calls(h, name, of)
  PROVE  /\ handler[h] \in RequestType /\ handler[h].todo # << >>
         /\ handler[h].todo[1] = << name, of >>
         /\ handler[h].todo[1][1] = name /\ handler[h].todo[1][2] = of
BY TodoTyped DEF Calls

LEMMA ProceedFacts ==
  ASSUME AccessInv, NEW h \in Handler, NEW name, NEW of, Calls(h, name, of), Proceed(h)
  PROVE  /\ handler[h].todo # << >>
         /\ handler[h].todo[1][1] = name /\ handler[h].todo[1][2] = of
         /\ handler'[h].todo = Tail(handler[h].todo)
         /\ handler'[h].todo # << >> => handler'[h].user = handler[h].user
         /\ handler'[h].listed \in {{}, handler[h].listed}
         /\ \A g \in Handler \ {h} : Stays(g)
<1>1. PICK q : q = Rest(handler[h])
  OBVIOUS
<1>2. handler' = [handler EXCEPT ![h] = q]
  BY <1>1 DEF Proceed
<1>3. handler'[h] = q /\ \A g \in Handler \ {h} : Stays(g)
  BY <1>2, OneServed
<1>4. /\ handler[h] \in RequestType /\ handler[h].todo # << >>
      /\ handler[h].todo[1][1] = name /\ handler[h].todo[1][2] = of
  BY CallFacts
<1>5. /\ q.todo = Tail(handler[h].todo)
      /\ q.todo # << >> => q.user = handler[h].user
      /\ q.listed \in {{}, handler[h].listed}
  BY <1>1, <1>4, RestFacts
<1>6. QED
  BY <1>3, <1>4, <1>5

\* A call without an effect that the invariants speak of.
LEMMA PlainTook ==
  ASSUME AccessInv, NEW h \in Handler, NEW name, NEW of, Calls(h, name, of), Proceed(h),
         name \notin {"SetStatus", "GetUser", "Block", "RevokeListed", "RevokeAll",
                      "OwnedWorkers", "GetOwner"}
  PROVE  Took(h) /\ \A g \in Handler \ {h} : Stays(g)
BY ProceedFacts DEF Took

LEMMA DroppedBy ==
  ASSUME AccessInv, NEW h \in Handler, Return(h), NEW of,
         NEW name \in {"RevokeWorker", "GetOwner", "GetUser", "GetActiveWorker"}, Calls(h, name, of)
  PROVE  Dropped(h) /\ \A g \in Handler \ {h} : Stays(g)
<1>1. handler'[h] = Idle /\ \A g \in Handler \ {h} : Stays(g)
  BY OneServed DEF Return
<1>2. QED
  BY <1>1, CallFacts DEF Dropped

\* Calls whose place in a request does not matter.
LEMMA AnyOrder ==
  ASSUME NEW r,
         Only(r, {"Open", "Create", "RevokeWorker", "RevokeNonces", "RevokeBearers", "Block"})
  PROVE  OrderOK(r) /\ Only(r, Harmless)
BY DEF Only, OrderOK, Changes, Changing, Harmless

\* Each call of a loop has one of the names, for an entry of the list.
LEMMA LoopCalls ==
  ASSUME NEW list \in Seq(Worker \cup {NoWorker}), NEW names \in Seq(CallName), Len(names) \in 1 .. 4
  PROVE  /\ Len(ForEach(list, names)) = Len(list) * Len(names)
         /\ DOMAIN ForEach(list, names) = 1 .. Len(list) * Len(names)
         /\ \A i \in DOMAIN ForEach(list, names) :
              \E j \in 1 .. Len(names), k \in 1 .. Len(list) :
                ForEach(list, names)[i] = << names[j], list[k] >>
         /\ Len(names) = 1 => \A k \in 1 .. Len(list) : ForEach(list, names)[k] = << names[1], list[k] >>
<1> DEFINE n == Len(names)
           l == Len(list)
           m == l * n
           f == ForEach(list, names)
<1>1. f = [i \in 1 .. m |-> << names[((i - 1) % n) + 1], list[((i - 1) \div n) + 1] >>]
  BY DEF ForEach
<1>2. l \in Nat /\ n \in 1 .. 4
  OBVIOUS
<1> HIDE DEF l, n
<1>3. m \in Nat /\ DOMAIN f = 1 .. m
  <2>1. m \in Nat
    BY <1>2
  <2>2. QED
    BY <1>1, <2>1
<1>4. ASSUME NEW i \in 1 .. m
      PROVE  ((i - 1) % n) + 1 \in 1 .. n /\ ((i - 1) \div n) + 1 \in 1 .. l
  <2>1. CASE n = 1
    BY <1>2, <2>1
  <2>2. CASE n = 2
    BY <1>2, <2>2
  <2>3. CASE n = 3
    BY <1>2, <2>3
  <2>4. CASE n = 4
    BY <1>2, <2>4
  <2>5. QED
    BY <1>2, <2>1, <2>2, <2>3, <2>4
<1>5. Len(f) = m
  <2>1. f \in [1 .. m -> {f[i] : i \in 1 .. m}]
    BY <1>1, <1>3
  <2>2. QED
    BY <1>3, <2>1
<1>6. \A i \in DOMAIN f : \E j \in 1 .. n, k \in 1 .. l : f[i] = << names[j], list[k] >>
  BY <1>1, <1>3, <1>4
<1>7. n = 1 => \A k \in 1 .. l : f[k] = << names[1], list[k] >>
  <2>1. SUFFICES ASSUME n = 1, NEW k \in 1 .. l PROVE f[k] = << names[1], list[k] >>
    OBVIOUS
  <2>2. /\ k \in 1 .. m /\ (k - 1) % 1 = 0 /\ (k - 1) \div 1 = k - 1 /\ (k - 1) + 1 = k
        /\ 0 + 1 = 1
    BY <1>2, <2>1
  <2>3. f[k] = << names[((k - 1) % 1) + 1], list[((k - 1) \div 1) + 1] >>
    BY <1>1, <2>1, <2>2
  <2> HIDE DEF f
  <2>4. QED
    BY <2>2, <2>3
<1>8. QED
  BY <1>3, <1>5, <1>6, <1>7 DEF l, n

\* The calls for one Worker.
LEMMA OneLoop ==
  ASSUME NEW w \in Worker \cup {NoWorker}
  PROVE  /\ ForEach(<< w >>, << "GetOwner", "GetUser", "CreateBearer" >>)
              = << << "GetOwner", w >>, << "GetUser", w >>, << "CreateBearer", w >> >>
         /\ ForEach(<< w >>, << "GetActiveWorker", "ClaimOrWait" >>)
              = << << "GetActiveWorker", w >>, << "ClaimOrWait", w >> >>
BY DEF ForEach

\* The loops that clean up after Workers.
LEMMA CleaningCalls ==
  ASSUME NEW list \in Seq(Worker \cup {NoWorker}), NEW names \in Seq(CallName), Len(names) \in 1 .. 4,
         \A j \in 1 .. Len(names) : names[j] \in {"RevokeWorker", "RevokeNonces", "RevokeBearers", "Block"},
         NEW r, r.todo = ForEach(list, names)
  PROVE  OrderOK(r) /\ Only(r, Harmless)
<1>1. Only(r, {"RevokeWorker", "RevokeNonces", "RevokeBearers", "Block"})
  <2>1. SUFFICES ASSUME NEW i \in DOMAIN r.todo
                 PROVE  r.todo[i][1] \in {"RevokeWorker", "RevokeNonces", "RevokeBearers", "Block"}
    BY DEF Only
  <2>2. PICK j \in 1 .. Len(names), k \in 1 .. Len(list) : r.todo[i] = << names[j], list[k] >>
    BY <2>1, LoopCalls
  <2>3. QED
    BY <2>2
<1>2. QED
  BY <1>1, AnyOrder DEF Only

LEMMA BeginFacts ==
  ASSUME AccessInv, NEW h \in Handler, NEW name, NEW r, Begin(h, name, r)
  PROVE  handler[h] = Idle /\ handler'[h] = r /\ \A g \in Handler \ {h} : Stays(g)
BY OneServed DEF Begin

LEMMA HarmlessBegins ==
  ASSUME AccessInv, NEW h \in Handler, NEW name, NEW r, Begin(h, name, r),
         OrderOK(r), Only(r, Harmless), r.listed = {}
  PROVE  Begun(h) /\ \A g \in Handler \ {h} : Stays(g)
<1>1. handler[h] = Idle /\ handler'[h] = r /\ \A g \in Handler \ {h} : Stays(g)
  BY BeginFacts
<1>2. OrderOK(handler'[h]) /\ Only(handler'[h], Harmless) /\ handler'[h].listed = {}
  BY <1>1
<1>3. QED
  BY <1>1, <1>2 DEF Begun

LEMMA OpeningBegins ==
  ASSUME AccessInv, NEW h \in Handler, NEW name, NEW r, Begin(h, name, r),
         NEW call \in {"Open", "Create"}, NEW of, r.todo = << << call, of >> >>, r.listed = {}
  PROVE  Begun(h) /\ \A g \in Handler \ {h} : Stays(g)
<1>1. Only(r, {"Open", "Create", "RevokeWorker", "RevokeNonces", "RevokeBearers", "Block"})
  BY DEF Only
<1>2. QED
  BY <1>1, AnyOrder, HarmlessBegins

LEMMA OpeningServes ==
  ASSUME AccessInv, NEW h \in Handler,
         Register(h) \/ Login(h) \/ \E kind \in {"token", "invitation", "registration"} : AskFor(h, kind)
  PROVE  Begun(h) /\ \A g \in Handler \ {h} : Stays(g)
<1>1. CASE Register(h)
  <2>1. PICK u, new, code, of :
          Begin(h, "register", [Idle EXCEPT !.user = u, !.new = new, !.own = code,
                                  !.todo = << << "Open", of >> >>])
    BY <1>1 DEF Register
  <2>2. PICK t : t = << << "Open", of >> >>
    OBVIOUS
  <2>3. PICK r : r.todo = t /\ r.listed = {} /\ Begin(h, "register", r)
    BY <2>1, <2>2 DEF Idle
  <2>4. QED
    BY <2>2, <2>3, OpeningBegins
<1>2. CASE ~ Register(h)
  <2>1. PICK name, u, new, of :
          Begin(h, name, [Idle EXCEPT !.user = u, !.new = new, !.todo = << << "Create", of >> >>])
    BY <1>2 DEF Login, AskFor
  <2>2. PICK t : t = << << "Create", of >> >>
    OBVIOUS
  <2>3. PICK r : r.todo = t /\ r.listed = {} /\ Begin(h, name, r)
    BY <2>1, <2>2 DEF Idle
  <2>4. QED
    BY <2>2, <2>3, OpeningBegins
<1>3. QED
  BY <1>1, <1>2

LEMMA ChangePasswordServes ==
  ASSUME AccessInv, NEW h \in Handler, ChangePassword(h)
  PROVE  Begun(h) /\ \A g \in Handler \ {h} : Stays(g)
<1> DEFINE calls == << << "ListSessions", NoWorker >>, << "RevokeListed", NoWorker >>, Answer >>
<1>0. PICK t : t = calls
  OBVIOUS
<1>1. PICK s : Begin(h, "change password",
                     [Idle EXCEPT !.user = credentials[s].user, !.own = s, !.todo = t])
  BY <1>0 DEF ChangePassword
<1>2. PICK r : r.todo = t /\ r.listed = {} /\ Begin(h, "change password", r)
  BY <1>1 DEF Idle
<1>3. /\ DOMAIN t = 1 .. 3 /\ Len(t) = 3
      /\ t[1] = << "ListSessions", NoWorker >> /\ t[2] = << "RevokeListed", NoWorker >>
      /\ t[3] = << "Answer", NoWorker >>
  BY <1>0 DEF Answer
<1>4. /\ DOMAIN r.todo = 1 .. 3 /\ Len(r.todo) = 3
      /\ r.todo[2] = << "RevokeListed", NoWorker >>
      /\ r.todo[1][1] = "ListSessions" /\ r.todo[2][1] = "RevokeListed" /\ r.todo[3][1] = "Answer"
  <2>1. r.todo = t
    BY <1>2
  <2>2. QED
    BY <2>1, <1>3
<1>5. \A i \in DOMAIN r.todo : i = 1 \/ i = 2 \/ i = 3
  BY <1>4
<1>6. Has(r, << "RevokeListed", NoWorker >>)
  BY <1>4 DEF Has
<1>7. Only(r, Harmless) /\ ~ Changes(r)
  BY <1>4, <1>5 DEF Only, Harmless, Changes, Changing
<1>8. \A i \in DOMAIN r.todo : r.todo[i] # << "SetStatus", "disabled" >> /\ r.todo[i] # << "OwnedWorkers", "unblock" >>
  BY <1>4, <1>5
<1>9. OrderOK(r)
  BY <1>4, <1>5, <1>6, <1>7, <1>8 DEF OrderOK
<1>10. QED
  BY <1>2, <1>7, <1>9, HarmlessBegins

LEMMA PatchUserServes ==
  ASSUME AccessInv, NEW h \in Handler, PatchUser(h)
  PROVE  Begun(h) /\ \A g \in Handler \ {h} : Stays(g)
<1>1. PICK u \in User, status \in {"active", "disabled"}, password \in BOOLEAN :
        /\ users[u] \in {"active", "disabled"} /\ MayChange(u)
        /\ LET revokes == password \/ (status = "disabled" /\ users[u] = "active") IN
           Begin(h, IF status = "active" /\ users[u] = "disabled" THEN "enable" ELSE "patch",
                 [Idle EXCEPT !.user = u,
                    !.listed = IF revokes THEN Held(u, {"session"}) ELSE {},
                    !.todo = (IF status # users[u] THEN StatusCalls(status) ELSE << >>)
                             \o (IF password THEN PasswordCalls ELSE << >>) \o << Answer >>])
  BY DEF PatchUser
<1> DEFINE revokes == password \/ (status = "disabled" /\ users[u] = "active")
<1>2. PICK L : L = IF revokes THEN Held(u, {"session"}) ELSE {}
  OBVIOUS
<1>3. PICK t : t = (IF status # users[u] THEN StatusCalls(status) ELSE << >>)
                   \o (IF password THEN PasswordCalls ELSE << >>) \o << Answer >>
  OBVIOUS
<1>4. PICK name : Begin(h, name, [Idle EXCEPT !.user = u, !.listed = L, !.todo = t])
  BY <1>1, <1>2, <1>3
<1>5. PICK r : r.user = u /\ r.listed = L /\ r.todo = t /\ Begin(h, name, r)
  BY <1>4 DEF Idle
<1>6. handler[h] = Idle /\ handler'[h] = r /\ \A g \in Handler \ {h} : Stays(g)
  BY <1>5, BeginFacts
<1>7. L = {} \/ (L \subseteq Held(u, {"session"}) /\ revokes)
  BY <1>2
<1> HIDE DEF revokes
<1>8. r.todo = (IF status # users[u] THEN StatusCalls(status) ELSE << >>)
               \o (IF password THEN PasswordCalls ELSE << >>) \o << Answer >>
  BY <1>3, <1>5
<1>9. \/ r.listed = {}
      \/ /\ r.listed \subseteq Held(u, {"session"})
         /\ password \/ (status = "disabled" /\ users[u] = "active")
  BY <1>5, <1>7 DEF revokes
<1>10. QED
  BY <1>1, <1>5, <1>6, <1>8, <1>9 DEF Begun

LEMMA DeleteUserServes ==
  ASSUME AccessInv, NEW h \in Handler, DeleteUser(h)
  PROVE  Begun(h) /\ \A g \in Handler \ {h} : Stays(g)
<1>1. PICK u \in User :
        /\ users[u] \in {"active", "disabled"} /\ MayChange(u)
        /\ Begin(h, "delete", [Idle EXCEPT !.user = u, !.listed = Held(u, Kind), !.todo = DeleteCalls])
  BY DEF DeleteUser
<1>2. PICK r : /\ r.user = u /\ r.listed = Held(u, Kind) /\ r.todo = DeleteCalls
               /\ Begin(h, "delete", r)
  BY <1>1 DEF Idle
<1>3. QED
  BY <1>1, <1>2, BeginFacts DEF Begun

LEMMA WorkerBegins ==
  ASSUME AccessInv, NEW h \in Handler,
         \/ \E c \in Credential, k \in Key, w \in Worker : RegisterWorker(h, c, k, w)
         \/ \E w \in Worker : DeleteWorker(h, w) \/ AuthChallenge(h, w)
         \/ \E n \in Nonce : AuthSession(h, n)
         \/ \E t \in Bearer : Claim(h, t)
  PROVE  Begun(h) /\ \A g \in Handler \ {h} : Stays(g)
<1>1. ASSUME NEW c \in Credential, NEW k \in Key, NEW w \in Worker, RegisterWorker(h, c, k, w)
      PROVE  Begun(h) /\ \A g \in Handler \ {h} : Stays(g)
  <2>1. PICK list \in SetToSeqs(Superseded(k)) :
          Begin(h, "register worker", [Idle EXCEPT !.todo = ForEach(list, CleanUp)])
    BY <1>1 DEF RegisterWorker
  <2>2. list \in Seq(Worker \cup {NoWorker})
    BY WorkerLists DEF Superseded
  <2>3. PICK t : t = ForEach(list, CleanUp)
    OBVIOUS
  <2>4. PICK r : r.todo = t /\ r.listed = {} /\ Begin(h, "register worker", r)
    BY <2>1, <2>3 DEF Idle
  <2>5. PICK names : names = CleanUp
    OBVIOUS
  <2>6. /\ names \in Seq(CallName) /\ Len(names) \in 1 .. 4
        /\ \A j \in 1 .. Len(names) : names[j] \in {"RevokeWorker", "RevokeNonces", "RevokeBearers", "Block"}
    BY <2>5 DEF CleanUp, CallName
  <2>7. OrderOK(r) /\ Only(r, Harmless)
    BY <2>2, <2>3, <2>4, <2>5, <2>6, CleaningCalls
  <2>8. QED
    BY <2>4, <2>7, HarmlessBegins
<1>2. ASSUME NEW w \in Worker, DeleteWorker(h, w)
      PROVE  Begun(h) /\ \A g \in Handler \ {h} : Stays(g)
  <2>1. PICK names : names = << "RevokeWorker" >> \o CleanUp
    OBVIOUS
  <2>2. PICK list, t : list = << w >> /\ t = ForEach(list, names)
    OBVIOUS
  <2>3. Begin(h, "delete worker", [Idle EXCEPT !.user = binding[w], !.todo = t])
    BY <1>2, <2>1, <2>2 DEF DeleteWorker
  <2>4. PICK r : r.todo = t /\ r.listed = {} /\ Begin(h, "delete worker", r)
    BY <2>3 DEF Idle
  <2>5. PICK x, tail : x = "RevokeWorker" /\ tail = CleanUp
    OBVIOUS
  <2> DEFINE S == {"RevokeWorker", "RevokeNonces", "RevokeBearers", "Block"}
  <2>6. x \in S /\ tail \in Seq(S) /\ Len(tail) = 3
    BY <2>5 DEF CleanUp
  <2>7. S \subseteq CallName
    BY DEF CallName
  <2> HIDE DEF S
  <2>8. /\ << x >> \o tail \in Seq(S) /\ Len(<< x >> \o tail) = 4
        /\ \A j \in 1 .. Len(<< x >> \o tail) : (<< x >> \o tail)[j] \in S
    <3>1. /\ << x >> \o tail \in Seq(S)
          /\ Len(<< x >> \o tail) = Len(tail) + 1
          /\ \A j \in 1 .. Len(tail) + 1 : (<< x >> \o tail)[j] \in S
      BY <2>6, OneMore
    <3>2. QED
      BY <2>6, <3>1
  <2>9. names = << x >> \o tail
    BY <2>1, <2>5
  <2>10. /\ names \in Seq(CallName) /\ Len(names) \in 1 .. 4
         /\ \A j \in 1 .. Len(names) : names[j] \in S
    BY <2>7, <2>8, <2>9
  <2>11. list \in Seq(Worker \cup {NoWorker})
    BY <2>2, OneWorker
  <2>12. OrderOK(r) /\ Only(r, Harmless)
    BY <2>2, <2>4, <2>10, <2>11, CleaningCalls DEF S
  <2>13. QED
    BY <2>4, <2>12, HarmlessBegins
<1>3. ASSUME NEW w \in Worker, AuthChallenge(h, w)
      PROVE  Begun(h) /\ \A g \in Handler \ {h} : Stays(g)
  <2>1. PICK t : t = << << "CreateNonce", w >> >>
    OBVIOUS
  <2>2. Begin(h, "authenticate", [Idle EXCEPT !.todo = t]) /\ Known(w)
    BY <1>3, <2>1 DEF AuthChallenge, Known
  <2>3. PICK r : r.todo = t /\ r.listed = {} /\ Begin(h, "authenticate", r)
    BY <2>2 DEF Idle
  <2>4. handler[h] = Idle /\ handler'[h] = r /\ \A g \in Handler \ {h} : Stays(g)
    BY <2>3, BeginFacts
  <2>5. QED
    BY <2>1, <2>2, <2>3, <2>4 DEF Begun
<1>4. ASSUME NEW n \in Nonce, AuthSession(h, n)
      PROVE  Begun(h) /\ \A g \in Handler \ {h} : Stays(g)
  <2>1. PICK w : w = nonces[n] /\ w # NoWorker
    BY <1>4 DEF AuthSession
  <2>2. w \in Worker \cup {NoWorker}
    BY <2>1 DEF AccessInv, MemoryOK
  <2>3. PICK t : t = << << "GetOwner", w >>, << "GetUser", w >>, << "CreateBearer", w >> >>
    OBVIOUS
  <2>4. Begin(h, "authenticate", [Idle EXCEPT !.todo = t])
    BY <1>4, <2>1, <2>2, <2>3, OneLoop DEF AuthSession
  <2>5. PICK r : r.todo = t /\ r.listed = {} /\ Begin(h, "authenticate", r)
    BY <2>4 DEF Idle
  <2>6. handler[h] = Idle /\ handler'[h] = r /\ \A g \in Handler \ {h} : Stays(g)
    BY <2>5, BeginFacts
  <2>7. QED
    BY <2>1, <2>3, <2>5, <2>6 DEF Begun
<1>5. ASSUME NEW b \in Bearer, Claim(h, b)
      PROVE  Begun(h) /\ \A g \in Handler \ {h} : Stays(g)
  <2>1. PICK w : w = bearers[b].worker /\ bearers[b] # NoBearer
    BY <1>5 DEF Claim
  <2>2. w \in Worker \cup {NoWorker}
    BY <2>1 DEF AccessInv, MemoryOK
  <2>3. PICK t : t = << << "GetActiveWorker", w >>, << "ClaimOrWait", w >> >>
    OBVIOUS
  <2>4. Begin(h, "claim", [Idle EXCEPT !.todo = t])
    BY <1>5, <2>1, <2>2, <2>3, OneLoop DEF Claim
  <2>5. PICK r : r.todo = t /\ r.listed = {} /\ Begin(h, "claim", r)
    BY <2>4 DEF Idle
  <2>6. handler[h] = Idle /\ handler'[h] = r /\ \A g \in Handler \ {h} : Stays(g)
    BY <2>5, BeginFacts
  <2>7. QED
    BY <2>1, <2>3, <2>5, <2>6 DEF Begun
<1>6. QED
  BY <1>1, <1>2, <1>3, <1>4, <1>5

LEMMA ListSessionsServes ==
  ASSUME AccessInv, NEW h \in Handler, ListSessions(h)
  PROVE  Took(h) /\ \A g \in Handler \ {h} : Stays(g)
<1>1. PICK L : L = Held(handler[h].user, {"session"}) \ {handler[h].own}
  OBVIOUS
<1>2. PICK q : q = [Rest(handler[h]) EXCEPT !.listed = L]
  OBVIOUS
<1>3. handler' = [handler EXCEPT ![h] = q]
  BY <1>1, <1>2 DEF ListSessions
<1>4. handler'[h] = q /\ \A g \in Handler \ {h} : Stays(g)
  BY <1>3, OneServed
<1>5. /\ handler[h] \in RequestType /\ handler[h].todo # << >>
      /\ handler[h].todo[1][1] = "ListSessions"
  BY CallFacts DEF ListSessions
<1>6. /\ Rest(handler[h]) \in RequestType
      /\ Rest(handler[h]).todo = Tail(handler[h].todo)
      /\ Rest(handler[h]).todo # << >> => Rest(handler[h]).user = handler[h].user
  BY <1>5, RestFacts
<1>7. q.todo = Rest(handler[h]).todo /\ q.user = Rest(handler[h]).user /\ q.listed = L
  BY <1>2, <1>6 DEF RequestType
<1>8. L \subseteq Held(handler[h].user, {"session"})
  BY <1>1
<1>9. QED
  BY <1>4, <1>5, <1>6, <1>7, <1>8 DEF Took

LEMMA RevokingServes ==
  ASSUME AccessInv, NEW h \in Handler, RevokeListed(h) \/ \E kind \in Kind : RevokeAll(h, kind)
  PROVE  (Took(h) \/ Stays(h)) /\ \A g \in Handler \ {h} : Stays(g)
<1>1. CASE RevokeListed(h) /\ ~ Proceed(h)
  BY <1>1 DEF RevokeListed, Stays
<1>2. CASE RevokeListed(h) /\ Proceed(h)
  <2>1. \A c \in handler[h].listed : Spent(c)
    <3>1. SUFFICES ASSUME ~ \A c \in handler[h].listed : Spent(c) PROVE FALSE
      OBVIOUS
    <3>2. handler' = handler /\ Calls(h, "RevokeListed", NoWorker)
      BY <1>2, <3>1 DEF RevokeListed
    <3>3. handler'[h].todo = Tail(handler[h].todo) /\ handler[h].todo # << >>
      BY <1>2, <3>2, ProceedFacts
    <3>4. handler[h].todo \in Seq(CallType)
      BY TodoTyped
    <3>5. Len(Tail(handler[h].todo)) = Len(handler[h].todo) - 1 /\ Len(handler[h].todo) \in Nat
      BY <3>3, <3>4, TailFacts
    <3>6. Tail(handler[h].todo) = handler[h].todo
      BY <3>2, <3>3
    <3>7. Len(handler[h].todo) = Len(handler[h].todo) - 1
      BY <3>5, <3>6
    <3>8. QED
      BY <3>5, <3>7
  <2>2. Calls(h, "RevokeListed", NoWorker)
    BY <1>2 DEF RevokeListed
  <2>3. QED
    BY <1>2, <2>1, <2>2, ProceedFacts DEF Took
<1>3. ASSUME NEW kind \in Kind, RevokeAll(h, kind)
      PROVE  Took(h) /\ \A g \in Handler \ {h} : Stays(g)
  <2>1. Calls(h, "RevokeAll", kind) /\ Proceed(h)
    BY <1>3 DEF RevokeAll
  <2>2. ASSUME NEW c \in Credential, credentials[c].user = handler[h].user, credentials[c].kind = kind
        PROVE  Spent(c)'
    <3>1. credentials[c] \in Issued
      BY DEF AccessInv, AccountInv, CredentialsOK
    <3>2. CASE Spent(c)
      BY <1>3, <3>1, <3>2 DEF RevokeAll, Spent, Held, Issued
    <3>3. CASE ~ Spent(c)
      <4>1. c \in Held(handler[h].user, {kind})
        BY <2>2, <3>3 DEF Held
      <4>2. credentials'[c] = [credentials[c] EXCEPT !.over = TRUE]
        BY <1>3, <4>1 DEF RevokeAll
      <4>3. QED
        BY <3>1, <4>2 DEF Spent, Issued
    <3>4. QED
      BY <3>2, <3>3
  <2>3. QED
    BY <2>1, <2>2, ProceedFacts DEF Took
<1>4. QED
  BY <1>1, <1>2, <1>3

LEMMA SetStatusServes ==
  ASSUME AccessInv, NEW h \in Handler, NEW status, SetStatus(h, status)
  PROVE  Took(h) /\ \A g \in Handler \ {h} : Stays(g)
<1>1. Calls(h, "SetStatus", status) /\ Proceed(h) /\ users' = [users EXCEPT ![handler[h].user] = status]
  BY DEF SetStatus
<1>2. /\ handler[h].todo # << >>
      /\ handler[h].todo[1][1] = "SetStatus" /\ handler[h].todo[1][2] = status
      /\ handler'[h].todo = Tail(handler[h].todo)
      /\ handler'[h].todo # << >> => handler'[h].user = handler[h].user
      /\ handler'[h].listed \in {{}, handler[h].listed}
      /\ \A g \in Handler \ {h} : Stays(g)
  BY <1>1, ProceedFacts
<1>3. users' = [users EXCEPT ![handler[h].user] = handler[h].todo[1][2]]
  BY <1>1, <1>2
<1>4. QED
  BY <1>2, <1>3 DEF Took

LEMMA OwnedWorkersServes ==
  ASSUME AccessInv, NEW h \in Handler, OwnedWorkers(h)
  PROVE  Listed(h) /\ \A g \in Handler \ {h} : Stays(g)
<1>1. PICK do \in DOMAIN WorkerCalls, list \in SetToSeqs({w \in Worker : binding[w] = handler[h].user}) :
        /\ Calls(h, "OwnedWorkers", do)
        /\ handler' = [handler EXCEPT ![h].todo = ForEach(list, WorkerCalls[do]) \o Tail(@)]
  BY DEF OwnedWorkers
<1>2. PICK t : t = ForEach(list, WorkerCalls[do]) \o Tail(handler[h].todo)
  OBVIOUS
<1>3. PICK q : q = [handler[h] EXCEPT !.todo = t]
  OBVIOUS
<1>4. handler' = [handler EXCEPT ![h] = q]
  BY <1>1, <1>2, <1>3
<1>5. handler'[h] = q /\ \A g \in Handler \ {h} : Stays(g)
  BY <1>4, OneServed
<1>6. handler[h] \in RequestType /\ handler[h].todo # << >> /\ handler[h].todo[1] = << "OwnedWorkers", do >>
  BY <1>1, CallFacts
<1>7. q.todo = t /\ q.user = handler[h].user /\ q.listed = handler[h].listed
  BY <1>3, <1>6 DEF RequestType
<1>8. QED
  BY <1>1, <1>2, <1>5, <1>6, <1>7 DEF Listed

LEMMA GetOwnerServes ==
  ASSUME AccessInv, NEW h \in Handler, NEW w \in Worker, GetOwner(h, w)
  PROVE  (ReadOwner(h) \/ Dropped(h)) /\ \A g \in Handler \ {h} : Stays(g)
<1>1. Calls(h, "GetOwner", w)
  BY DEF GetOwner
<1>2. CASE binding[w] = NoUser
  BY <1>1, <1>2, DroppedBy DEF GetOwner
<1>3. CASE binding[w] # NoUser
  <2>1. PICK q : q = [Rest(handler[h]) EXCEPT !.user = binding[w]]
    OBVIOUS
  <2>2. handler' = [handler EXCEPT ![h] = q]
    BY <1>3, <2>1 DEF GetOwner
  <2>3. handler'[h] = q /\ \A g \in Handler \ {h} : Stays(g)
    BY <2>2, OneServed
  <2>4. handler[h] \in RequestType /\ handler[h].todo # << >> /\ handler[h].todo[1] = << "GetOwner", w >>
    BY <1>1, CallFacts
  <2>5. /\ Rest(handler[h]) \in RequestType
        /\ Rest(handler[h]).todo = Tail(handler[h].todo)
        /\ Rest(handler[h]).listed \in {{}, handler[h].listed}
    BY <2>4, RestFacts
  <2>6. q.todo = Rest(handler[h]).todo /\ q.user = binding[w] /\ q.listed = Rest(handler[h]).listed
    BY <2>1, <2>5 DEF RequestType
  <2>7. QED
    BY <1>3, <2>3, <2>4, <2>5, <2>6 DEF ReadOwner
<1>4. QED
  BY <1>2, <1>3

LEMMA WorkerCallServes ==
  ASSUME AccessInv, NEW h \in Handler, NEW w \in Worker,
         \/ RevokeWorker(h, w) \/ RevokeNonces(h, w) \/ RevokeBearers(h, w) \/ Block(h, w)
         \/ Unblock(h, w) \/ CreateNonce(h, w) \/ CreateBearer(h, w) \/ GetUser(h, w)
         \/ GetActiveWorker(h, w) \/ ClaimOrWait(h, w)
  PROVE  (Took(h) \/ Dropped(h)) /\ \A g \in Handler \ {h} : Stays(g)
<1>1. CASE RevokeWorker(h, w)
  BY <1>1, PlainTook, DroppedBy DEF RevokeWorker
<1>2. CASE \/ RevokeNonces(h, w) \/ RevokeBearers(h, w) \/ Unblock(h, w) \/ CreateNonce(h, w)
           \/ CreateBearer(h, w) \/ ClaimOrWait(h, w)
  BY <1>2, PlainTook DEF RevokeNonces, RevokeBearers, Unblock, CreateNonce, CreateBearer, ClaimOrWait
<1>3. CASE Block(h, w)
  <2>1. Calls(h, "Block", w) /\ Proceed(h) /\ w \in blocked'
    BY <1>3 DEF Block
  <2>2. QED
    BY <2>1, ProceedFacts DEF Took
<1>4. CASE GetUser(h, w) /\ Active(handler[h].user)
  <2>1. Calls(h, "GetUser", w) /\ Proceed(h) /\ users[handler[h].user] = "active"
    BY <1>4 DEF GetUser, Active
  <2>2. QED
    BY <2>1, ProceedFacts DEF Took
<1>5. CASE GetUser(h, w) /\ ~ Active(handler[h].user)
  BY <1>5, DroppedBy DEF GetUser
<1>6. CASE GetActiveWorker(h, w)
  BY <1>6, PlainTook, DroppedBy DEF GetActiveWorker
<1>7. QED
  BY <1>1, <1>2, <1>3, <1>4, <1>5, <1>6

\* In a step one request at most goes on, unless all of them are lost.
LEMMA OneServes ==
  ASSUME AccessInv, [AccessNext]_accessVars
  PROVE  \/ Restart
         \/ \A h \in Handler : Stays(h)
         \/ \E h \in Handler : Serves(h) /\ \A g \in Handler \ {h} : Stays(g)
<1>1. ASSUME NEW h \in Handler, AccountStep(h)
      PROVE  Serves(h) /\ \A g \in Handler \ {h} : Stays(g)
  <2>1. CASE OpenFirst(h)
    <3>1. Calls(h, "Open", "first") /\ Proceed(h)
      BY <2>1 DEF OpenFirst
    <3>2. QED
      BY <3>1, PlainTook DEF Serves
  <2>2. CASE OpenInvited(h)
    <3>1. Calls(h, "Open", "invited") /\ Proceed(h)
      BY <2>2 DEF OpenInvited
    <3>2. QED
      BY <3>1, PlainTook DEF Serves
  <2>3. CASE \E kind \in Kind : Create(h, kind)
    <3>1. PICK kind \in Kind : Calls(h, "Create", kind) /\ Proceed(h)
      BY <2>3 DEF Create
    <3>2. QED
      BY <3>1, PlainTook DEF Serves
  <2>4. CASE RevokeUser(h)
    <3>1. Calls(h, "RevokeUser", NoWorker) /\ Proceed(h)
      BY <2>4 DEF RevokeUser
    <3>2. QED
      BY <3>1, PlainTook DEF Serves
  <2>5. CASE Answered(h)
    <3>1. Calls(h, "Answer", NoWorker) /\ Proceed(h)
      BY <2>5 DEF Answered
    <3>2. QED
      BY <3>1, PlainTook DEF Serves
  <2>6. CASE \/ Register(h) \/ Login(h)
             \/ \E kind \in {"token", "invitation", "registration"} : AskFor(h, kind)
    BY <2>6, OpeningServes DEF Serves
  <2>7. CASE ChangePassword(h) \/ PatchUser(h) \/ DeleteUser(h)
    BY <2>7, ChangePasswordServes, PatchUserServes, DeleteUserServes DEF Serves
  <2>8. CASE ListSessions(h) \/ RevokeListed(h) \/ \E kind \in Kind : RevokeAll(h, kind)
    BY <2>8, ListSessionsServes, RevokingServes DEF Serves
  <2>9. CASE OwnedWorkers(h) \/ \E status \in {"active", "disabled", "deleted"} : SetStatus(h, status)
    BY <2>9, OwnedWorkersServes, SetStatusServes DEF Serves
  <2>10. QED
    BY <1>1, <2>1, <2>2, <2>3, <2>4, <2>5, <2>6, <2>7, <2>8, <2>9 DEF AccountStep
<1>2. ASSUME NEW h \in Handler, WorkerStep(h)
      PROVE  Serves(h) /\ \A g \in Handler \ {h} : Stays(g)
  <2>1. CASE \/ \E c \in Credential, k \in Key, w \in Worker : RegisterWorker(h, c, k, w)
             \/ \E w \in Worker : DeleteWorker(h, w) \/ AuthChallenge(h, w)
             \/ \E n \in Nonce : AuthSession(h, n)
             \/ \E t \in Bearer : Claim(h, t)
    BY <2>1, WorkerBegins DEF Serves
  <2>2. CASE \E w \in Worker : GetOwner(h, w)
    BY <2>2, GetOwnerServes DEF Serves
  <2>3. CASE \E w \in Worker :
               \/ RevokeWorker(h, w) \/ RevokeNonces(h, w) \/ RevokeBearers(h, w) \/ Block(h, w)
               \/ Unblock(h, w) \/ CreateNonce(h, w) \/ CreateBearer(h, w) \/ GetUser(h, w)
               \/ GetActiveWorker(h, w) \/ ClaimOrWait(h, w)
    BY <2>3, WorkerCallServes DEF Serves
  <2>4. QED
    BY <1>2, <2>1, <2>2, <2>3 DEF WorkerStep
<1>3. CASE Restart
  BY <1>3
<1>4. CASE \/ \E u \in User : AdminCreateUser(u)
           \/ \E c \in Credential : End(c)
           \/ \E n \in Nonce : ExpireNonce(n)
           \/ \E t \in Bearer : ExpireBearer(t)
           \/ UNCHANGED accessVars
  BY <1>4 DEF AdminCreateUser, End, ExpireNonce, ExpireBearer, accessVars, Stays
<1>5. QED
  BY <1>1, <1>2, <1>3, <1>4 DEF AccessNext

-----------------------------------------------------------------------------
(* The order is kept.  What is left of a request is the end of it, after   *)
(* the calls of a loop if one has begun.                                   *)

LoopNames == {"Block", "Unblock", "RevokeWorker"}

\* q is what is left of r after its first call, behind k calls of a loop.
Follows(q, r, k) ==
  LET n == Len(r.todo) IN
  /\ n \in Nat \ {0} /\ DOMAIN r.todo = 1 .. n
  /\ k \in Nat /\ DOMAIN q.todo = 1 .. (k + n - 1) /\ Len(q.todo) = k + n - 1
  /\ \A i \in 1 .. k : q.todo[i][1] \in LoopNames
  /\ \A i \in 1 .. n - 1 : q.todo[k + i] = r.todo[i + 1]
  /\ k > 0 => r.todo[1][1] = "OwnedWorkers"

LEMMA FollowsFacts ==
  ASSUME NEW r, NEW q, NEW k, Follows(q, r, k)
  PROVE  /\ \A i \in DOMAIN q.todo :
              \/ q.todo[i][1] \in LoopNames /\ i <= k
              \/ \E j \in DOMAIN r.todo : j > 1 /\ j = i - k + 1 /\ q.todo[i] = r.todo[j]
         /\ \A j \in DOMAIN r.todo : j > 1 =>
              \E i \in DOMAIN q.todo : j = i - k + 1 /\ q.todo[i] = r.todo[j]
<1> DEFINE n == Len(r.todo)
<1>1. /\ n \in Nat \ {0} /\ k \in Nat
      /\ DOMAIN r.todo = 1 .. n /\ DOMAIN q.todo = 1 .. (k + n - 1)
      /\ \A i \in 1 .. k : q.todo[i][1] \in LoopNames
      /\ \A i \in 1 .. n - 1 : q.todo[k + i] = r.todo[i + 1]
  BY DEF Follows
<1> HIDE DEF n
<1>2. ASSUME NEW i \in DOMAIN q.todo, ~ (i <= k)
      PROVE  \E j \in DOMAIN r.todo : j > 1 /\ j = i - k + 1 /\ q.todo[i] = r.todo[j]
  <2>1. i - k \in 1 .. n - 1 /\ k + (i - k) = i /\ (i - k) + 1 \in 1 .. n /\ (i - k) + 1 > 1
    BY <1>1, <1>2
  <2>2. q.todo[k + (i - k)] = r.todo[(i - k) + 1]
    BY <1>1, <2>1
  <2>3. QED
    BY <1>1, <2>1, <2>2
<1>3. ASSUME NEW j \in DOMAIN r.todo, j > 1
      PROVE  \E i \in DOMAIN q.todo : j = i - k + 1 /\ q.todo[i] = r.todo[j]
  <2>1. j - 1 \in 1 .. n - 1 /\ (j - 1) + 1 = j /\ k + (j - 1) \in 1 .. (k + n - 1)
        /\ (k + (j - 1)) - k + 1 = j
    BY <1>1, <1>3
  <2>2. q.todo[k + (j - 1)] = r.todo[(j - 1) + 1]
    BY <1>1, <2>1
  <2>3. QED
    BY <1>1, <2>1, <2>2
<1>4. ASSUME NEW i \in DOMAIN q.todo, i <= k PROVE q.todo[i][1] \in LoopNames
  BY <1>1, <1>4
<1>5. QED
  BY <1>2, <1>3, <1>4

\* A call that is left was to be made, or is one of the loop; and the other way round.
LEMMA FollowsHas ==
  ASSUME NEW r, NEW q, NEW k, Follows(q, r, k)
  PROVE  /\ \A call : Has(q, call) => Has(r, call) \/ call[1] \in LoopNames
         /\ k = 0 => \A call : Has(q, call) => Has(r, call)
         /\ \A call : Has(r, call) => Has(q, call) \/ r.todo[1] = call
<1>1. /\ \A i \in DOMAIN q.todo :
           \/ q.todo[i][1] \in LoopNames /\ i <= k
           \/ \E j \in DOMAIN r.todo : j > 1 /\ j = i - k + 1 /\ q.todo[i] = r.todo[j]
      /\ \A j \in DOMAIN r.todo : j > 1 =>
           \E i \in DOMAIN q.todo : j = i - k + 1 /\ q.todo[i] = r.todo[j]
  BY FollowsFacts
<1>2. \A j \in DOMAIN r.todo : j \in Nat /\ (j > 1 \/ j = 1)
  BY DEF Follows
<1>3. k = 0 => \A i \in DOMAIN q.todo : ~ (i <= k)
  BY DEF Follows
<1>4. QED
  BY <1>1, <1>2, <1>3 DEF Has

LEMMA FollowsOrder ==
  ASSUME NEW r, NEW q, NEW k, Follows(q, r, k), OrderOK(r), q.todo # << >> /\ Changes(r) => q.user = r.user
  PROVE  OrderOK(q) /\ \A i \in DOMAIN q.todo : q.todo[i][1] \notin {"ListSessions", "SetStatus", "GetOwner"}
<1>1. /\ \A i \in DOMAIN q.todo :
           \/ q.todo[i][1] \in LoopNames /\ i <= k
           \/ \E j \in DOMAIN r.todo : j > 1 /\ j = i - k + 1 /\ q.todo[i] = r.todo[j]
      /\ \A j \in DOMAIN r.todo : j > 1 =>
           \E i \in DOMAIN q.todo : j = i - k + 1 /\ q.todo[i] = r.todo[j]
  BY FollowsFacts
<1>2. Len(q.todo) = k + Len(r.todo) - 1 /\ Len(r.todo) \in Nat \ {0} /\ k \in Nat
      /\ DOMAIN q.todo = 1 .. Len(q.todo) /\ DOMAIN r.todo = 1 .. Len(r.todo)
      /\ (k > 0 => r.todo[1][1] = "OwnedWorkers")
  BY DEF Follows
<1>3. ASSUME NEW i \in DOMAIN q.todo
      PROVE  /\ q.todo[i][1] \notin {"ListSessions", "SetStatus", "GetOwner"}
             /\ q.todo[i][1] \in {"Answer", "CreateBearer"} => i = Len(q.todo)
             /\ q.todo[i][1] = "GetUser" => i < Len(q.todo)
  <2>1. CASE q.todo[i][1] \in LoopNames
    BY <2>1 DEF LoopNames
  <2>2. CASE q.todo[i][1] \notin LoopNames
    <3>1. PICK j \in DOMAIN r.todo : j > 1 /\ j = i - k + 1 /\ q.todo[i] = r.todo[j]
      BY <1>1, <2>2
    <3>2. /\ r.todo[j][1] \notin {"ListSessions", "SetStatus", "GetOwner"}
          /\ r.todo[j][1] \in {"Answer", "CreateBearer"} => j = Len(r.todo)
          /\ r.todo[j][1] = "GetUser" => j < Len(r.todo)
      BY <1>2, <3>1 DEF OrderOK
    <3>a. PICK m : m = Len(r.todo)
      OBVIOUS
    <3>b. PICK l : l = Len(q.todo)
      OBVIOUS
    <3>c. m \in Nat \ {0} /\ l = k + m - 1 /\ k \in Nat /\ i \in 1 .. l /\ j \in 1 .. m
      BY <1>2, <3>a, <3>b
    <3>d. (j = m => i = l) /\ (j < m => i < l)
      <4>1. j = i - k + 1
        BY <3>1
      <4>2. QED
        BY <3>c, <4>1
    <3>3. j = Len(r.todo) => i = Len(q.todo)
      BY <3>a, <3>b, <3>d
    <3>4. j < Len(r.todo) => i < Len(q.todo)
      BY <3>a, <3>b, <3>d
    <3>5. QED
      BY <3>1, <3>2, <3>3, <3>4
  <2>3. QED
    BY <2>1, <2>2
<1>4. \A i \in DOMAIN q.todo : q.todo[1][1] # "SetStatus"
  BY <1>2, <1>3
<1>5. ASSUME Changes(q) PROVE Has(q, Answer) /\ q.user # NoUser
  <2>1. PICK i \in DOMAIN q.todo : q.todo[i][1] \in Changing
    BY <1>5 DEF Changes
  <2>2. Changes(r)
    <3>1. CASE k > 0
      BY <1>2, <3>1 DEF Changes, Changing
    <3>2. CASE ~ (k > 0)
      <4>1. \E j \in DOMAIN r.todo : q.todo[i] = r.todo[j]
        BY <1>1, <1>2, <3>2
      <4>2. QED
        BY <2>1, <4>1 DEF Changes
    <3>3. QED
      BY <3>1, <3>2
  <2>3. Has(r, Answer) /\ r.user # NoUser
    BY <2>2 DEF OrderOK
  <2>4. PICK j \in DOMAIN r.todo : r.todo[j] = Answer
    BY <2>3 DEF Has
  <2>5. r.todo[j][1] = "Answer" /\ j = Len(r.todo)
    BY <2>4 DEF OrderOK, Answer
  <2>6. j > 1
    <3>1. CASE k > 0
      BY <1>2, <2>5, <3>1
    <3>2. CASE ~ (k > 0)
      BY <1>2, <2>1, <2>5, <3>2
    <3>3. QED
      BY <3>1, <3>2
  <2>7. Has(q, Answer)
    BY <1>1, <2>4, <2>6 DEF Has
  <2>8. q.todo # << >>
    BY <1>2, <2>1
  <2>9. QED
    BY <2>2, <2>3, <2>7, <2>8
<1>6. \A i \in DOMAIN q.todo : q.todo[i] # << "SetStatus", "disabled" >>
  BY <1>3
<1>7. QED
  BY <1>3, <1>4, <1>5, <1>6 DEF OrderOK

LEMMA TookFollows ==
  ASSUME AccessInv, NEW h \in Handler, Took(h) \/ ReadOwner(h)
  PROVE  Follows(handler'[h], handler[h], 0)
<1>1. PICK t : t = handler[h].todo
  OBVIOUS
<1>2. t \in Seq(CallType) /\ t # << >>
  BY <1>1, TodoTyped DEF Took, ReadOwner
<1>3. handler'[h].todo = Tail(t)
  BY <1>1 DEF Took, ReadOwner
<1>4. /\ Tail(t) \in Seq(CallType) /\ Len(Tail(t)) = Len(t) - 1 /\ Len(t) \in Nat \ {0}
      /\ DOMAIN Tail(t) = 1 .. Len(t) - 1 /\ DOMAIN t = 1 .. Len(t)
      /\ \A i \in DOMAIN Tail(t) : i + 1 \in DOMAIN t /\ Tail(t)[i] = t[i + 1]
  BY <1>2, TailFacts
<1>5. PICK q : q = Tail(t)
  OBVIOUS
<1>6. /\ Len(q) = 0 + Len(t) - 1 /\ Len(t) \in Nat \ {0}
      /\ DOMAIN q = 1 .. (0 + Len(t) - 1) /\ DOMAIN t = 1 .. Len(t)
      /\ \A i \in 1 .. Len(t) - 1 : q[0 + i] = t[i + 1]
  BY <1>4, <1>5
<1>7. handler'[h].todo = q /\ handler[h].todo = t
  BY <1>1, <1>3, <1>5
<1>8. QED
  BY <1>6, <1>7 DEF Follows

LEMMA JoinFacts ==
  ASSUME NEW S, NEW s \in Seq(S), NEW t \in Seq(S)
  PROVE  /\ s \o t \in Seq(S) /\ Len(s) \in Nat /\ Len(t) \in Nat /\ Len(s \o t) = Len(s) + Len(t)
         /\ DOMAIN (s \o t) = 1 .. (Len(s) + Len(t))
         /\ \A i \in 1 .. Len(s) : (s \o t)[i] = s[i]
         /\ \A i \in 1 .. Len(t) : (s \o t)[Len(s) + i] = t[i]
OBVIOUS

\* The calls of a loop over the owner's Workers come before the rest.
LEMMA ListedFollows ==
  ASSUME AccessInv, NEW h \in Handler, Listed(h)
  PROVE  /\ \E k \in Nat : Follows(handler'[h], handler[h], k)
         /\ handler'[h].todo # << >> => handler'[h].user = handler[h].user
<1>1. PICK do \in DOMAIN WorkerCalls, list \in SetToSeqs({w \in Worker : binding[w] = handler[h].user}) :
        /\ handler[h].todo[1] = << "OwnedWorkers", do >>
        /\ handler'[h].todo = ForEach(list, WorkerCalls[do]) \o Tail(handler[h].todo)
  BY DEF Listed
<1>2. PICK names : names = WorkerCalls[do]
  OBVIOUS
<1>3. /\ names \in Seq(CallName) /\ Len(names) \in 1 .. 4
      /\ \A j \in 1 .. Len(names) : names[j] \in LoopNames
  <2>1. do = "disconnect" \/ do = "unblock" \/ do = "remove"
    BY DEF WorkerCalls
  <2>2. names = << "Block" >> \/ names = << "Unblock" >> \/ names = << "Block", "RevokeWorker" >>
    BY <1>2, <2>1 DEF WorkerCalls
  <2>3. CASE names = << "Block" >> \/ names = << "Unblock" >>
    <3>1. Len(names) = 1 /\ names[1] \in LoopNames
      BY <2>3 DEF LoopNames
    <3>2. << "Block" >> \in Seq(CallName) /\ << "Unblock" >> \in Seq(CallName)
      BY DEF CallName
    <3>3. names \in Seq(CallName)
      BY <2>3, <3>2
    <3>4. QED
      BY <3>1, <3>3
  <2>4. CASE names = << "Block", "RevokeWorker" >>
    <3>1. Len(names) = 2 /\ names[1] \in LoopNames /\ names[2] \in LoopNames
      BY <2>4 DEF LoopNames
    <3>2. names \in Seq(CallName)
      BY <2>4 DEF CallName
    <3>3. QED
      BY <3>1, <3>2
  <2>5. QED
    BY <2>2, <2>3, <2>4
<1>4. list \in Seq(Worker \cup {NoWorker})
  BY WorkerLists
<1>5. PICK f : f = ForEach(list, names)
  OBVIOUS
<1>6. f \in Seq(CallType) /\ \A i \in DOMAIN f : f[i][1] \in LoopNames
  <2>1. \A j \in 1 .. Len(names) : names[j] \notin {"Create", "Open"}
    BY <1>3 DEF LoopNames
  <2>2. f \in Seq(CallType)
    BY <1>3, <1>4, <1>5, <2>1, LoopTyped
  <2>3. \A i \in DOMAIN f : \E j \in 1 .. Len(names), k \in 1 .. Len(list) : f[i] = << names[j], list[k] >>
    BY <1>3, <1>4, <1>5, LoopCalls
  <2>4. QED
    BY <1>3, <2>2, <2>3
<1>7. PICK t : t = handler[h].todo
  OBVIOUS
<1>8. t \in Seq(CallType) /\ t # << >>
  BY <1>7, TodoTyped DEF Listed
<1>9. PICK s : s = Tail(t)
  OBVIOUS
<1>10. /\ s \in Seq(CallType) /\ Len(s) = Len(t) - 1 /\ Len(t) \in Nat \ {0} /\ DOMAIN t = 1 .. Len(t)
       /\ \A i \in 1 .. Len(t) - 1 : s[i] = t[i + 1]
  BY <1>8, <1>9, TailFacts
<1>11. PICK q : q = f \o s
  OBVIOUS
<1>12. /\ Len(f) \in Nat /\ Len(q) = Len(f) + Len(t) - 1
       /\ DOMAIN q = 1 .. (Len(f) + Len(t) - 1)
       /\ \A i \in 1 .. Len(f) : q[i] = f[i]
       /\ \A i \in 1 .. Len(t) - 1 : q[Len(f) + i] = s[i]
  BY <1>6, <1>10, <1>11
<1>13. handler'[h].todo = q /\ handler[h].todo = t /\ t[1][1] = "OwnedWorkers"
  BY <1>1, <1>2, <1>5, <1>7, <1>9, <1>11
<1>14. \A i \in 1 .. Len(f) : q[i][1] \in LoopNames
  BY <1>6, <1>12
<1>15. \A i \in 1 .. Len(t) - 1 : q[Len(f) + i] = t[i + 1]
  BY <1>10, <1>12
<1>16. Follows(handler'[h], handler[h], Len(f))
  BY <1>10, <1>12, <1>13, <1>14, <1>15 DEF Follows
<1>17. QED
  BY <1>12, <1>16 DEF Listed

\* The calls of a change of an account, one by one.
LEMMA DeletionCalls ==
  ASSUME NEW t, t = DeleteCalls
  PROVE  /\ Len(t) = 8 /\ DOMAIN t = 1 .. 8
         /\ t[1] = << "SetStatus", "deleted" >> /\ t[2] = << "RevokeAll", "session" >>
         /\ t[3] = << "RevokeAll", "token" >> /\ t[4] = << "RevokeAll", "registration" >>
         /\ t[5] = << "RevokeAll", "invitation" >> /\ t[6] = << "RevokeUser", NoWorker >>
         /\ t[7] = << "OwnedWorkers", "remove" >> /\ t[8] = << "Answer", NoWorker >>
BY DEF DeleteCalls, Answer

PatchOrder(t, status, changed, password) ==
  \E a \in {0, 2, 4}, b \in {0, 2} :
    /\ Len(t) = a + b + 1 /\ DOMAIN t = 1 .. (a + b + 1)
    /\ a = (IF ~ changed THEN 0 ELSE IF status = "disabled" THEN 4 ELSE 2)
    /\ b = (IF password THEN 2 ELSE 0)
    /\ t[a + b + 1] = << "Answer", NoWorker >>
    /\ a > 0 => t[1] = << "SetStatus", status >>
    /\ a = 2 => t[2] = << "OwnedWorkers", "unblock" >>
    /\ a = 4 => /\ t[2] = << "RevokeAll", "session" >> /\ t[3] = << "RevokeUser", NoWorker >>
                /\ t[4] = << "OwnedWorkers", "disconnect" >>
    /\ b = 2 => t[a + 1] = << "RevokeAll", "session" >> /\ t[a + 2] = << "RevokeUser", NoWorker >>

LEMMA PatchCalls ==
  ASSUME NEW status \in {"active", "disabled"}, NEW changed \in BOOLEAN, NEW password \in BOOLEAN,
         NEW t, t = (IF changed THEN StatusCalls(status) ELSE << >>)
                    \o (IF password THEN PasswordCalls ELSE << >>) \o << Answer >>
  PROVE  PatchOrder(t, status, changed, password)
<1> DEFINE S == CallType
<1>1. PICK x : x = IF changed THEN StatusCalls(status) ELSE << >>
  OBVIOUS
<1>2. PICK y : y = IF password THEN PasswordCalls ELSE << >>
  OBVIOUS
<1>3. PICK z : z = << Answer >>
  OBVIOUS
<1>4. Answer \in S /\ PasswordCalls \in Seq(S) /\ StatusCalls(status) \in Seq(S)
  BY LongCalls, OneCall DEF Answer, CallName, CallTarget
<1> HIDE DEF S
<1>5. x \in Seq(S) /\ y \in Seq(S) /\ z \in Seq(S)
  BY <1>1, <1>2, <1>3, <1>4
<1>6. PICK a \in {0, 2, 4} :
           /\ Len(x) = a
           /\ a = (IF ~ changed THEN 0 ELSE IF status = "disabled" THEN 4 ELSE 2)
           /\ a > 0 => x[1] = << "SetStatus", status >>
           /\ a = 2 => x[2] = << "OwnedWorkers", "unblock" >>
           /\ a = 4 => /\ x[2] = << "RevokeAll", "session" >> /\ x[3] = << "RevokeUser", NoWorker >>
                       /\ x[4] = << "OwnedWorkers", "disconnect" >>
  BY <1>1 DEF StatusCalls
<1>7. PICK b \in {0, 2} :
           /\ Len(y) = b
           /\ b = (IF password THEN 2 ELSE 0)
           /\ b = 2 => y[1] = << "RevokeAll", "session" >> /\ y[2] = << "RevokeUser", NoWorker >>
  BY <1>2 DEF PasswordCalls
<1>8. Len(z) = 1 /\ z[1] = << "Answer", NoWorker >>
  BY <1>3 DEF Answer
<1>9. t = (x \o y) \o z
  BY <1>1, <1>2, <1>3
<1>10. PICK v : v = x \o y
  OBVIOUS
<1>11. /\ v \in Seq(S) /\ Len(v) = a + b
       /\ \A i \in 1 .. a : v[i] = x[i]
       /\ \A i \in 1 .. b : v[a + i] = y[i]
  <2>1. /\ x \o y \in Seq(S) /\ Len(x \o y) = Len(x) + Len(y)
        /\ \A i \in 1 .. Len(x) : (x \o y)[i] = x[i]
        /\ \A i \in 1 .. Len(y) : (x \o y)[Len(x) + i] = y[i]
    BY <1>5, JoinFacts
  <2>2. Len(x) = a /\ Len(y) = b
    BY <1>6, <1>7
  <2>3. QED
    BY <1>10, <2>1, <2>2
<1>12. PICK w : w = v \o z
  OBVIOUS
<1>13. /\ Len(w) = a + b + 1 /\ DOMAIN w = 1 .. (a + b + 1)
       /\ \A i \in 1 .. a + b : w[i] = v[i]
       /\ w[a + b + 1] = z[1]
  <2>1. /\ Len(v \o z) = Len(v) + Len(z) /\ DOMAIN (v \o z) = 1 .. (Len(v) + Len(z))
        /\ \A i \in 1 .. Len(v) : (v \o z)[i] = v[i]
        /\ \A i \in 1 .. Len(z) : (v \o z)[Len(v) + i] = z[i]
    BY <1>5, <1>11, JoinFacts
  <2>2. Len(v) = a + b /\ Len(z) = 1 /\ 1 \in 1 .. 1
    BY <1>8, <1>11
  <2>3. QED
    BY <1>12, <2>1, <2>2
<1>14. t = w
  BY <1>9, <1>10, <1>12
<1>15. w[a + b + 1] = << "Answer", NoWorker >>
  BY <1>8, <1>13
<1>16. a > 0 => w[1] = << "SetStatus", status >>
  BY <1>6, <1>7, <1>11, <1>13
<1>17. a = 2 => w[2] = << "OwnedWorkers", "unblock" >>
  BY <1>6, <1>7, <1>11, <1>13
<1>18. a = 4 => /\ w[2] = << "RevokeAll", "session" >> /\ w[3] = << "RevokeUser", NoWorker >>
                /\ w[4] = << "OwnedWorkers", "disconnect" >>
  <2>1. a = 4 => 2 \in 1 .. a /\ 3 \in 1 .. a /\ 4 \in 1 .. a /\ 1 .. a \subseteq 1 .. a + b
    BY <1>7
  <2>2. a = 4 => w[2] = x[2] /\ w[3] = x[3] /\ w[4] = x[4]
    BY <2>1, <1>11, <1>13
  <2>3. QED
    BY <2>2, <1>6
<1>19. b = 2 => w[a + 1] = << "RevokeAll", "session" >> /\ w[a + 2] = << "RevokeUser", NoWorker >>
  <2>1. b = 2 => 1 \in 1 .. b /\ 2 \in 1 .. b /\ a + 1 \in 1 .. a + b /\ a + 2 \in 1 .. a + b
    BY <1>6
  <2>2. b = 2 => w[a + 1] = y[1] /\ w[a + 2] = y[2]
    BY <2>1, <1>11, <1>13
  <2>3. QED
    BY <2>2, <1>7
<1> HIDE DEF S
<1>20. QED
  BY <1>6, <1>7, <1>13, <1>14, <1>15, <1>16, <1>17, <1>18, <1>19 DEF PatchOrder

LEMMA BegunOrder ==
  ASSUME AccessInv, NEW h \in Handler, Begun(h)
  PROVE  OrderOK(handler'[h])
<1> DEFINE r == handler'[h]
<1>1. CASE Only(r, Harmless) /\ OrderOK(r) /\ r.listed = {}
  BY <1>1
<1>2. ASSUME NEW u \in User, r.user = u, users[u] \in {"active", "disabled"}, r.todo = DeleteCalls
      PROVE  OrderOK(r)
  <2>1. r.user # NoUser
    BY <1>2, AccessAssumption
  <2>2. PICK t : t = r.todo
    OBVIOUS
  <2>3. /\ Len(t) = 8 /\ DOMAIN t = 1 .. 8
        /\ t[1] = << "SetStatus", "deleted" >> /\ t[2] = << "RevokeAll", "session" >>
        /\ t[3] = << "RevokeAll", "token" >> /\ t[4] = << "RevokeAll", "registration" >>
        /\ t[5] = << "RevokeAll", "invitation" >> /\ t[6] = << "RevokeUser", NoWorker >>
        /\ t[7] = << "OwnedWorkers", "remove" >> /\ t[8] = << "Answer", NoWorker >>
    BY <1>2, <2>2, DeletionCalls
  <2> HIDE DEF r
  <2>4. \A i \in DOMAIN t : i = 1 \/ i = 2 \/ i = 3 \/ i = 4 \/ i = 5 \/ i = 6 \/ i = 7 \/ i = 8
    BY <2>3
  <2>5. Has(r, Answer)
    BY <2>2, <2>3 DEF Has, Answer
  <2>6. \A i \in DOMAIN t :
          /\ t[i][1] \in {"SetStatus", "RevokeAll", "RevokeUser", "OwnedWorkers", "Answer"}
          /\ t[i][1] = "Answer" => i = 8
          /\ t[i][1] = "SetStatus" => i = 1
          /\ t[i] # << "SetStatus", "disabled" >> /\ t[i] # << "OwnedWorkers", "unblock" >>
    BY <2>3, <2>4
  <2>7. QED
    BY <2>1, <2>2, <2>3, <2>5, <2>6 DEF OrderOK
<1>3. ASSUME NEW u \in User, r.user = u, NEW status \in {"active", "disabled"}, NEW password \in BOOLEAN,
             r.todo = (IF status # users[u] THEN StatusCalls(status) ELSE << >>)
                      \o (IF password THEN PasswordCalls ELSE << >>) \o << Answer >>
      PROVE  OrderOK(r)
  <2>1. r.user # NoUser
    BY <1>3, AccessAssumption
  <2>2. PICK t : t = r.todo
    OBVIOUS
  <2>3. PICK changed \in BOOLEAN : changed = (status # users[u])
    OBVIOUS
  <2>4. t = (IF changed THEN StatusCalls(status) ELSE << >>)
            \o (IF password THEN PasswordCalls ELSE << >>) \o << Answer >>
    BY <1>3, <2>2, <2>3
  <2> HIDE DEF r
  <2>10. PatchOrder(t, status, changed, password)
    BY <2>4, PatchCalls
  <2>5. PICK a \in {0, 2, 4}, b \in {0, 2} :
           /\ Len(t) = a + b + 1 /\ DOMAIN t = 1 .. (a + b + 1)
           /\ a = (IF ~ changed THEN 0 ELSE IF status = "disabled" THEN 4 ELSE 2)
           /\ b = (IF password THEN 2 ELSE 0)
           /\ t[a + b + 1] = << "Answer", NoWorker >>
           /\ a > 0 => t[1] = << "SetStatus", status >>
           /\ a = 2 => t[2] = << "OwnedWorkers", "unblock" >>
           /\ a = 4 => /\ t[2] = << "RevokeAll", "session" >> /\ t[3] = << "RevokeUser", NoWorker >>
                       /\ t[4] = << "OwnedWorkers", "disconnect" >>
           /\ b = 2 => t[a + 1] = << "RevokeAll", "session" >> /\ t[a + 2] = << "RevokeUser", NoWorker >>
    BY <2>10 DEF PatchOrder
  <2>6. Has(r, Answer)
    <3>1. a + b + 1 \in DOMAIN t
      BY <2>5
    <3>2. QED
      BY <2>2, <2>5, <3>1 DEF Has, Answer
  <2>7. CASE a = 4
    <3>1. status = "disabled"
      BY <2>5, <2>7
    <3>2. \A i \in DOMAIN t : i = 1 \/ i = 2 \/ i = 3 \/ i = 4 \/ i = a + b + 1 \/ (b = 2 /\ (i = a + 1 \/ i = a + 2))
      BY <2>5, <2>7
    <3>3. \A i \in DOMAIN t :
            /\ t[i][1] \in {"SetStatus", "RevokeAll", "RevokeUser", "OwnedWorkers", "Answer"}
            /\ t[i][1] = "Answer" => i = a + b + 1
            /\ t[i][1] = "SetStatus" => i = 1
            /\ t[i] # << "OwnedWorkers", "unblock" >>
      BY <2>5, <2>7, <3>2
    <3>4. Has(r, << "OwnedWorkers", "disconnect" >>)
      <4>1. 4 \in DOMAIN t
        BY <2>5, <2>7
      <4>2. QED
        BY <2>2, <2>5, <2>7, <4>1 DEF Has
    <3>5. Only(r, Disabling)
      BY <2>2, <3>3 DEF Only, Disabling
    <3>6. QED
      BY <2>1, <2>2, <2>5, <2>6, <3>3, <3>4, <3>5 DEF OrderOK
  <2>8. CASE a # 4
    <3>1. a = 2 => status = "active"
      BY <2>5
    <3>2. \A i \in DOMAIN t : (a = 2 /\ (i = 1 \/ i = 2)) \/ i = a + b + 1 \/ (b = 2 /\ (i = a + 1 \/ i = a + 2))
      BY <2>5, <2>8
    <3>3. \A i \in DOMAIN t :
            /\ t[i][1] \in {"SetStatus", "RevokeAll", "RevokeUser", "OwnedWorkers", "Answer"}
            /\ t[i][1] = "Answer" => i = a + b + 1
            /\ t[i][1] = "SetStatus" => i = 1
            /\ t[i] # << "SetStatus", "disabled" >>
            /\ t[i][1] = "SetStatus" => t[i][2] = "active"
      BY <2>5, <2>8, <3>1, <3>2
    <3>4. 1 \in DOMAIN t
      BY <2>5
    <3>5. t[1][1] = "SetStatus" => t[1][2] = "active"
      BY <3>3, <3>4
    <3>6. QED
      BY <2>1, <2>2, <2>5, <2>6, <3>3, <3>5 DEF OrderOK
  <2>9. QED
    BY <2>7, <2>8
<1>4. ASSUME NEW w,
             \/ r.todo = << << "CreateNonce", w >> >>
             \/ r.todo = << << "GetOwner", w >>, << "GetUser", w >>, << "CreateBearer", w >> >>
             \/ r.todo = << << "GetActiveWorker", w >>, << "ClaimOrWait", w >> >>
      PROVE  OrderOK(r)
  <2>1. PICK t : t = r.todo
    OBVIOUS
  <2> HIDE DEF r
  <2>2. CASE r.todo = << << "CreateNonce", w >> >>
    <3>1. DOMAIN t = {1} /\ Len(t) = 1 /\ t[1] = << "CreateNonce", w >>
      BY <2>1, <2>2
    <3>2. QED
      BY <2>1, <3>1 DEF OrderOK, Changes, Changing
  <2>3. CASE r.todo = << << "GetOwner", w >>, << "GetUser", w >>, << "CreateBearer", w >> >>
    <3>1. /\ DOMAIN t = 1 .. 3 /\ Len(t) = 3 /\ t[1] = << "GetOwner", w >> /\ t[2] = << "GetUser", w >>
          /\ t[3] = << "CreateBearer", w >>
      BY <2>1, <2>3
    <3>2. \A i \in DOMAIN t : i = 1 \/ i = 2 \/ i = 3
      BY <3>1
    <3>3. Only(r, LoggingIn) /\ ~ Changes(r)
      BY <2>1, <3>1, <3>2 DEF Only, LoggingIn, Changes, Changing
    <3>4. QED
      BY <2>1, <3>1, <3>2, <3>3 DEF OrderOK
  <2>4. CASE r.todo = << << "GetActiveWorker", w >>, << "ClaimOrWait", w >> >>
    <3>1. DOMAIN t = 1 .. 2 /\ Len(t) = 2 /\ t[1] = << "GetActiveWorker", w >> /\ t[2] = << "ClaimOrWait", w >>
      BY <2>1, <2>4
    <3>2. \A i \in DOMAIN t : i = 1 \/ i = 2
      BY <3>1
    <3>3. QED
      BY <2>1, <3>1, <3>2 DEF OrderOK, Changes, Changing
  <2>5. QED
    BY <1>4, <2>2, <2>3, <2>4
<1>5. QED
  BY <1>1, <1>2, <1>3, <1>4 DEF Begun

LEMMA IdleCalls == Idle.todo = << >> /\ Idle.user = NoUser /\ Idle.listed = {} /\ OrderOK(Idle)
BY DEF Idle, OrderOK, Changes

LEMMA OrdersContinue ==
  ASSUME AccessInv, OrdersOK, [AccessNext]_accessVars
  PROVE  OrdersOK'
<1>1. ASSUME NEW h \in Handler, Serves(h)
      PROVE  OrderOK(handler'[h])
  <2>0. OrderOK(handler[h])
    BY DEF OrdersOK
  <2>1. CASE Stays(h)
    BY <2>0, <2>1 DEF Stays
  <2>2. CASE Took(h)
    <3>1. handler'[h].todo # << >> => handler'[h].user = handler[h].user
      BY <2>2 DEF Took
    <3>2. QED
      BY <2>0, <2>2, <3>1, TookFollows, FollowsOrder
  <2>3. CASE Dropped(h)
    BY <2>3, IdleCalls DEF Dropped
  <2>4. CASE ReadOwner(h)
    <3>1. handler[h].todo # << >> /\ handler[h].todo[1][1] = "GetOwner"
      BY <2>4 DEF ReadOwner
    <3>2. 1 \in DOMAIN handler[h].todo
      BY <3>1, TodoTyped
    <3>3. Only(handler[h], LoggingIn)
      BY <2>0, <3>1, <3>2 DEF OrderOK
    <3>4. ~ Changes(handler[h])
      BY <3>3 DEF Only, LoggingIn, Changes, Changing
    <3>5. QED
      BY <2>0, <2>4, <3>4, TookFollows, FollowsOrder
  <2>5. CASE Listed(h)
    <3>1. PICK k \in Nat : Follows(handler'[h], handler[h], k)
      BY <2>5, ListedFollows
    <3>2. handler'[h].todo # << >> => handler'[h].user = handler[h].user
      BY <2>5, ListedFollows
    <3>3. QED
      BY <2>0, <3>1, <3>2, FollowsOrder
  <2>6. CASE Begun(h)
    BY <2>6, BegunOrder
  <2>7. QED
    BY <1>1, <2>1, <2>2, <2>3, <2>4, <2>5, <2>6 DEF Serves
<1>2. CASE Restart
  BY <1>2, IdleCalls DEF Restart, OrdersOK
<1>3. CASE \A h \in Handler : Stays(h)
  BY <1>3 DEF Stays, OrdersOK
<1>4. ASSUME NEW h \in Handler, Serves(h), \A g \in Handler \ {h} : Stays(g)
      PROVE  OrdersOK'
  BY <1>1, <1>4 DEF Stays, OrdersOK
<1>5. QED
  BY <1>2, <1>3, <1>4, OneServes

-----------------------------------------------------------------------------
(* What a request is to end, it ends. *)

\* The request is going to end the credential.
WillEnd(r, c) ==
  \/ Has(r, << "RevokeListed", NoWorker >>)
  \/ credentials[c].user = r.user /\ Has(r, << "RevokeAll", credentials[c].kind >>)

WordKept(r) == \A c \in r.listed : credentials[c].kind # "none" /\ (Spent(c) \/ WillEnd(r, c))
WordsKept == \A h \in Handler : WordKept(handler[h])

\* What has been issued keeps its kind and its user, and stays spent.
CredentialsMove ==
  \A c \in Credential : credentials[c].kind # "none" =>
    /\ credentials'[c].kind = credentials[c].kind
    /\ credentials'[c].user = credentials[c].user
    /\ Spent(c) => Spent(c)'

LEMMA CredentialsUnmoved == ASSUME UNCHANGED credentials PROVE CredentialsMove
BY DEF CredentialsMove, Spent

\* A new row, with the use of an invitation.
LEMMA NewRowMoves ==
  ASSUME AccessInv, NEW h \in Handler, NEW name \in {"Create", "Open"}, NEW of, Calls(h, name, of),
         NEW row, NEW issued,
         credentials' = [issued EXCEPT ![handler[h].new] = row],
         \/ issued = credentials
         \/ \E code \in Credential : /\ credentials[code].kind = "invitation"
                                     /\ issued = [credentials EXCEPT ![code].uses = 1]
  PROVE  CredentialsMove
<1>1. credentials \in [Credential -> Issued]
  BY DEF AccessInv, AccountInv, CredentialsOK
<1>2. handler[h].todo # << >> /\ handler[h].todo[1][1] = name /\ RequestOK(handler[h])
  BY CallFacts DEF AccessInv, AccountInv, RequestsOK
<1>3. 1 \in DOMAIN handler[h].todo
  BY <1>2, TodoTyped
<1>4. handler[h].new # NoCredential
  BY <1>2, <1>3 DEF RequestOK
<1>5. credentials[handler[h].new].kind = "none"
  BY <1>4 DEF AccessInv, AccountInv, NamesAreFree
<1>6. ASSUME NEW c \in Credential
      PROVE  /\ issued \in [Credential -> Issued] /\ issued[c].kind = credentials[c].kind
             /\ issued[c].user = credentials[c].user /\ issued[c].over = credentials[c].over
             /\ issued[c].uses = credentials[c].uses \/ issued[c].uses = 1
  BY <1>1 DEF Issued
<1>7. ASSUME NEW c \in Credential, credentials[c].kind # "none"
      PROVE  credentials'[c] = issued[c]
  BY <1>5, <1>6, <1>7
<1>8. ASSUME NEW c \in Credential, credentials[c].kind # "none"
      PROVE  /\ credentials'[c].kind = credentials[c].kind
             /\ credentials'[c].user = credentials[c].user
             /\ Spent(c) => Spent(c)'
  <2>1. /\ credentials'[c].kind = credentials[c].kind
        /\ credentials'[c].user = credentials[c].user
        /\ credentials'[c].over = credentials[c].over
        /\ credentials'[c].uses = credentials[c].uses \/ credentials'[c].uses = 1
    BY <1>6, <1>7, <1>8
  <2>2. QED
    BY <2>1 DEF Spent
<1>9. QED
  BY <1>8 DEF CredentialsMove

LEMMA OneOverMoves ==
  ASSUME AccessInv, NEW c \in Credential, credentials' = [credentials EXCEPT ![c].over = TRUE]
  PROVE  CredentialsMove
<1>1. credentials \in [Credential -> Issued]
  BY DEF AccessInv, AccountInv, CredentialsOK
<1>2. QED
  BY <1>1 DEF CredentialsMove, Issued, Spent

LEMMA CredentialsContinue ==
  ASSUME AccessInv, [AccessNext]_accessVars
  PROVE  CredentialsMove
<1>1. ASSUME NEW h \in Handler, AccountStep(h)
      PROVE  CredentialsMove
  <2>1. CASE OpenFirst(h) \/ OpenInvited(h)
    <3>1. ASSUME NEW by, NEW issued, Open(h, by, issued), NEW of, Calls(h, "Open", of),
                 \/ issued = credentials
                 \/ \E code \in Credential : /\ credentials[code].kind = "invitation"
                                             /\ issued = [credentials EXCEPT ![code].uses = 1]
          PROVE  CredentialsMove
      BY <3>1, NewRowMoves DEF Open
    <3>2. CASE OpenFirst(h)
      BY <3>1, <3>2, CredentialsUnmoved DEF OpenFirst, accounts
    <3>3. CASE OpenInvited(h)
      <4>1. CASE UNCHANGED accounts
        BY <4>1, CredentialsUnmoved DEF accounts
      <4>2. CASE /\ Usable(handler[h].own, "invitation")
                 /\ Open(h, handler[h].own, [credentials EXCEPT ![handler[h].own].uses = 1])
        <5>1. PICK code : code = handler[h].own
          OBVIOUS
        <5>2. RequestOK(handler[h]) /\ Calls(h, "Open", "invited")
          BY <3>3 DEF AccessInv, AccountInv, RequestsOK, OpenInvited
        <5>3. /\ handler[h].todo # << >> /\ handler[h].todo[1][1] = "Open"
              /\ handler[h].todo[1][2] = "invited"
          BY <5>2, CallFacts
        <5>4. 1 \in DOMAIN handler[h].todo
          BY <5>3, TodoTyped
        <5>5. code \in Credential
          BY <5>1, <5>2, <5>3, <5>4 DEF RequestOK
        <5>6. credentials[code].kind = "invitation"
          BY <4>2, <5>1 DEF Usable
        <5>7. Open(h, code, [credentials EXCEPT ![code].uses = 1])
          BY <4>2, <5>1
        <5>8. QED
          BY <3>1, <5>2, <5>5, <5>6, <5>7
      <4>3. QED
        BY <3>3, <4>1, <4>2 DEF OpenInvited
    <3>4. QED
      BY <2>1, <3>2, <3>3
  <2>2. CASE \E kind \in Kind : Create(h, kind)
    BY <2>2, NewRowMoves DEF Create
  <2>3. CASE RevokeListed(h)
    <3>1. handler[h].listed \subseteq Credential
      BY TodoTyped DEF RequestType
    <3>2. QED
      BY <2>3, <3>1, CredentialsUnmoved, OneOverMoves DEF RevokeListed
  <2>4. ASSUME NEW kind \in Kind, RevokeAll(h, kind) PROVE CredentialsMove
    <3>1. credentials \in [Credential -> Issued]
      BY DEF AccessInv, AccountInv, CredentialsOK
    <3>2. PICK over : over = Held(handler[h].user, {kind})
      OBVIOUS
    <3>3. credentials' = [c \in Credential |-> IF c \in over THEN [credentials[c] EXCEPT !.over = TRUE]
                                                              ELSE credentials[c]]
      BY <2>4, <3>2 DEF RevokeAll
    <3>4. QED
      BY <3>1, <3>3 DEF CredentialsMove, Issued, Spent
  <2>5. CASE \/ Register(h) \/ Login(h) \/ ChangePassword(h) \/ ListSessions(h)
             \/ \E kind \in {"token", "invitation", "registration"} : AskFor(h, kind)
             \/ PatchUser(h) \/ DeleteUser(h)
             \/ \E status \in {"active", "disabled", "deleted"} : SetStatus(h, status)
             \/ RevokeUser(h) \/ OwnedWorkers(h) \/ Answered(h)
    BY <2>5, CredentialsUnmoved
       DEF Register, Login, ChangePassword, ListSessions, AskFor, PatchUser, DeleteUser, SetStatus,
           RevokeUser, OwnedWorkers, Answered, accounts
  <2>6. QED
    BY <1>1, <2>1, <2>2, <2>3, <2>4, <2>5 DEF AccountStep
<1>2. ASSUME NEW h \in Handler, NEW c \in Credential, NEW k \in Key, NEW w \in Worker,
             RegisterWorker(h, c, k, w)
      PROVE  CredentialsMove
  <2>1. credentials \in [Credential -> Issued]
    BY DEF AccessInv, AccountInv, CredentialsOK
  <2>2. credentials' = [credentials EXCEPT ![c].uses = @ + 1] /\ credentials[c].kind = "registration"
    BY <1>2 DEF RegisterWorker, MayRegister, Usable
  <2>3. ASSUME NEW d \in Credential
        PROVE  /\ credentials'[d].kind = credentials[d].kind
               /\ credentials'[d].user = credentials[d].user
               /\ credentials'[d].over = credentials[d].over
               /\ d # c => credentials'[d] = credentials[d]
    BY <2>1, <2>2 DEF Issued
  <2>4. QED
    BY <2>2, <2>3 DEF CredentialsMove, Spent
<1>3. ASSUME NEW h \in Handler, WorkerStep(h),
             ~ \E c \in Credential, k \in Key, w \in Worker : RegisterWorker(h, c, k, w)
      PROVE  CredentialsMove
  BY <1>3, CredentialsUnmoved
     DEF WorkerStep, DeleteWorker, RevokeWorker, RevokeNonces, RevokeBearers, Block, Unblock, AuthChallenge,
         CreateNonce, GetOwner, GetUser, CreateBearer, GetActiveWorker, ClaimOrWait, AuthSession, Claim, accounts
<1>4. ASSUME NEW c \in Credential, End(c) PROVE CredentialsMove
  BY <1>4, OneOverMoves DEF End
<1>5. CASE \/ \E u \in User : AdminCreateUser(u)
           \/ \E n \in Nonce : ExpireNonce(n)
           \/ \E t \in Bearer : ExpireBearer(t)
           \/ Restart
           \/ UNCHANGED accessVars
  BY <1>5, CredentialsUnmoved DEF AdminCreateUser, ExpireNonce, ExpireBearer, Restart, accessVars, accounts
<1>6. QED
  BY <1>1, <1>2, <1>3, <1>4, <1>5 DEF AccessNext

LEMMA WordsContinue ==
  ASSUME AccessInv, OrdersOK, WordsKept, [AccessNext]_accessVars
  PROVE  WordsKept'
<1>0. CredentialsMove
  BY CredentialsContinue
<1>7. \A h \in Handler : handler[h].listed \subseteq Credential
  BY TodoTyped DEF RequestType
<1>1. ASSUME NEW h \in Handler, NEW c \in handler[h].listed, Spent(c)
      PROVE  credentials'[c].kind # "none" /\ Spent(c)'
  BY <1>0, <1>7, <1>1 DEF WordsKept, WordKept, CredentialsMove
<1>2. ASSUME NEW h \in Handler, Serves(h)
      PROVE  WordKept(handler[h])'
  <2>0. WordKept(handler[h]) /\ OrderOK(handler[h])
    BY DEF WordsKept, OrdersOK
  <2>1. CASE Stays(h)
    <3>1. SUFFICES ASSUME NEW c \in handler[h].listed
                   PROVE  credentials'[c].kind # "none" /\ (Spent(c)' \/ WillEnd(handler[h], c)')
      BY <2>1 DEF Stays, WordKept
    <3>2. /\ credentials'[c].kind = credentials[c].kind
          /\ credentials'[c].user = credentials[c].user
          /\ credentials[c].kind # "none"
      BY <1>0, <1>7, <2>0 DEF WordKept, CredentialsMove
    <3>3. CASE Spent(c)
      BY <1>1, <3>3
    <3>4. CASE WillEnd(handler[h], c)
      BY <2>1, <3>2, <3>4 DEF Stays, WillEnd, Has
    <3>5. QED
      BY <2>0, <3>3, <3>4 DEF WordKept
  <2>2. CASE Took(h)
    <3>1. PICK r, q : r = handler[h] /\ q = handler'[h]
      OBVIOUS
    <3>2. \A call : Has(r, call) => Has(q, call) \/ r.todo[1] = call
      BY <2>2, <3>1, TookFollows, FollowsHas
    <3>3. 1 \in DOMAIN r.todo /\ r.todo # << >>
      BY <2>2, <3>1, TodoTyped DEF Took
    <3>4. SUFFICES ASSUME NEW c \in q.listed
                   PROVE  credentials'[c].kind # "none" /\ (Spent(c)' \/ WillEnd(q, c)')
      BY <3>1 DEF WordKept
    <3>5. CASE c \in r.listed
      <4>1. /\ credentials'[c].kind = credentials[c].kind
            /\ credentials'[c].user = credentials[c].user
            /\ credentials[c].kind # "none" /\ c \in Credential
        BY <1>0, <1>7, <2>0, <3>1, <3>5 DEF WordKept, CredentialsMove
      <4>2. CASE Spent(c)
        BY <1>1, <3>1, <3>5, <4>2
      <4>3. CASE Has(r, << "RevokeListed", NoWorker >>)
        <5>1. CASE r.todo[1] = << "RevokeListed", NoWorker >>
          <6>1. Spent(c)
            BY <2>2, <3>1, <3>5, <5>1 DEF Took
          <6>2. QED
            BY <4>2, <6>1
        <5>2. CASE Has(q, << "RevokeListed", NoWorker >>)
          BY <4>1, <5>2 DEF WillEnd, Has
        <5>3. QED
          BY <3>2, <4>3, <5>1, <5>2
      <4>4. CASE credentials[c].user = r.user /\ Has(r, << "RevokeAll", credentials[c].kind >>)
        <5>1. CASE r.todo[1] = << "RevokeAll", credentials[c].kind >>
          <6>1. r.todo[1][1] = "RevokeAll" /\ r.todo[1][2] = credentials[c].kind
            BY <5>1
          <6>2. Spent(c)'
            BY <2>2, <3>1, <4>1, <4>4, <6>1 DEF Took
          <6>3. QED
            BY <4>1, <6>2
        <5>2. CASE Has(q, << "RevokeAll", credentials[c].kind >>)
          <6>1. q.todo # << >>
            BY <5>2 DEF Has
          <6>2. q.user = r.user
            BY <2>2, <3>1, <6>1 DEF Took
          <6>3. QED
            BY <4>1, <4>4, <5>2, <6>2 DEF WillEnd, Has
        <5>3. QED
          BY <3>2, <4>4, <5>1, <5>2
      <4>5. QED
        BY <2>0, <3>1, <3>5, <4>2, <4>3, <4>4 DEF WordKept, WillEnd
    <3>6. CASE c \notin r.listed
      <4>1. r.todo[1][1] = "ListSessions" /\ c \in Held(r.user, {"session"})
        BY <2>2, <3>1, <3>4, <3>6 DEF Took
      <4>2. c \in Credential /\ credentials[c].kind = "session"
        BY <4>1 DEF Held
      <4>3. credentials'[c].kind # "none"
        BY <1>0, <4>2 DEF CredentialsMove
      <4>4. Has(r, << "RevokeListed", NoWorker >>)
        BY <2>0, <3>1, <3>3, <4>1 DEF OrderOK
      <4>5. Has(q, << "RevokeListed", NoWorker >>)
        BY <3>2, <4>1, <4>4
      <4>6. QED
        BY <4>3, <4>5 DEF WillEnd, Has
    <3>7. QED
      BY <3>5, <3>6
  <2>3. CASE Dropped(h)
    BY <2>3, IdleCalls DEF Dropped, WordKept
  <2>4. CASE ReadOwner(h)
    <3>1. handler[h].todo # << >> /\ handler[h].todo[1][1] = "GetOwner"
      BY <2>4 DEF ReadOwner
    <3>2. 1 \in DOMAIN handler[h].todo
      BY <3>1, TodoTyped
    <3>3. Only(handler[h], LoggingIn)
      BY <2>0, <3>1, <3>2 DEF OrderOK
    <3>4. \A c \in handler[h].listed : Spent(c)
      BY <2>0, <3>3 DEF Only, LoggingIn, WordKept, WillEnd, Has
    <3>5. handler'[h].listed \subseteq handler[h].listed
      BY <2>4 DEF ReadOwner
    <3>6. QED
      BY <1>1, <3>4, <3>5 DEF WordKept
  <2>5. CASE Listed(h)
    <3>1. PICK r, q : r = handler[h] /\ q = handler'[h]
      OBVIOUS
    <3>2. \A call : Has(r, call) => Has(q, call) \/ r.todo[1] = call
      BY <2>5, <3>1, ListedFollows, FollowsHas
    <3>3. r.todo[1][1] = "OwnedWorkers" /\ q.user = r.user /\ q.listed = r.listed
      BY <2>5, <3>1 DEF Listed
    <3>4. SUFFICES ASSUME NEW c \in r.listed
                   PROVE  credentials'[c].kind # "none" /\ (Spent(c)' \/ WillEnd(q, c)')
      BY <3>1, <3>3 DEF WordKept
    <3>5. /\ credentials'[c].kind = credentials[c].kind
          /\ credentials'[c].user = credentials[c].user
          /\ credentials[c].kind # "none"
      BY <1>0, <1>7, <2>0, <3>1 DEF WordKept, CredentialsMove
    <3>6. CASE Spent(c)
      BY <1>1, <3>1, <3>6
    <3>7. CASE Has(r, << "RevokeListed", NoWorker >>)
      <4>1. Has(q, << "RevokeListed", NoWorker >>)
        BY <3>2, <3>3, <3>7
      <4>2. QED
        BY <3>5, <4>1 DEF WillEnd, Has
    <3>8. CASE credentials[c].user = r.user /\ Has(r, << "RevokeAll", credentials[c].kind >>)
      <4>1. Has(q, << "RevokeAll", credentials[c].kind >>)
        BY <3>2, <3>3, <3>8
      <4>2. QED
        BY <3>3, <3>5, <3>8, <4>1 DEF WillEnd, Has
    <3>9. QED
      BY <2>0, <3>1, <3>6, <3>7, <3>8 DEF WordKept, WillEnd
  <2>6. CASE Begun(h)
    <3>1. CASE handler'[h].listed = {}
      BY <3>1 DEF WordKept
    <3>2. ASSUME NEW u \in User, handler'[h].user = u, handler'[h].todo = DeleteCalls,
                 handler'[h].listed \subseteq Held(u, Kind)
          PROVE  WordKept(handler[h])'
      <4>1. PICK t : t = handler'[h].todo
        OBVIOUS
      <4>2. /\ DOMAIN t = 1 .. 8 /\ t[2] = << "RevokeAll", "session" >>
            /\ t[3] = << "RevokeAll", "token" >> /\ t[4] = << "RevokeAll", "registration" >>
            /\ t[5] = << "RevokeAll", "invitation" >>
        BY <3>2, <4>1, DeletionCalls
      <4>3. \A kind \in Kind : \E i \in DOMAIN t : t[i] = << "RevokeAll", kind >>
        <5>1. 2 \in 1 .. 8 /\ 3 \in 1 .. 8 /\ 4 \in 1 .. 8 /\ 5 \in 1 .. 8
          OBVIOUS
        <5>2. QED
          BY <4>2, <5>1 DEF Kind
      <4>4. \A c \in handler'[h].listed :
              /\ credentials'[c].kind \in Kind /\ credentials'[c].user = u
        BY <1>0, <3>2 DEF Held, Kind, CredentialsMove
      <4>5. QED
        BY <3>2, <4>1, <4>3, <4>4 DEF WordKept, WillEnd, Has, Kind
    <3>3. ASSUME NEW u \in User, handler'[h].user = u,
                 NEW status \in {"active", "disabled"}, NEW password \in BOOLEAN,
                 handler'[h].todo = (IF status # users[u] THEN StatusCalls(status) ELSE << >>)
                              \o (IF password THEN PasswordCalls ELSE << >>) \o << Answer >>,
                 handler'[h].listed \subseteq Held(u, {"session"}),
                 password \/ (status = "disabled" /\ users[u] = "active")
          PROVE  WordKept(handler[h])'
      <4>1. PICK t : t = handler'[h].todo
        OBVIOUS
      <4>2. PICK changed \in BOOLEAN : changed = (status # users[u])
        OBVIOUS
      <4>3. t = (IF changed THEN StatusCalls(status) ELSE << >>)
                \o (IF password THEN PasswordCalls ELSE << >>) \o << Answer >>
        BY <3>3, <4>1, <4>2
      <4>4. PatchOrder(t, status, changed, password)
        BY <4>3, PatchCalls
      <4>5. \E i \in DOMAIN t : t[i] = << "RevokeAll", "session" >>
        <5>1. PICK a \in {0, 2, 4}, b \in {0, 2} :
                /\ DOMAIN t = 1 .. (a + b + 1)
                /\ a = (IF ~ changed THEN 0 ELSE IF status = "disabled" THEN 4 ELSE 2)
                /\ b = (IF password THEN 2 ELSE 0)
                /\ a = 4 => t[2] = << "RevokeAll", "session" >>
                /\ b = 2 => t[a + 1] = << "RevokeAll", "session" >>
          BY <4>4 DEF PatchOrder
        <5>2. a = 4 \/ b = 2
          BY <3>3, <4>2, <5>1
        <5>3. (a = 4 => 2 \in DOMAIN t) /\ (b = 2 => a + 1 \in DOMAIN t)
          BY <5>1
        <5>4. QED
          BY <5>1, <5>2, <5>3
      <4>6. \A c \in handler'[h].listed :
              /\ credentials'[c].kind = "session" /\ credentials'[c].user = u
        BY <1>0, <3>3 DEF Held, CredentialsMove
      <4>7. QED
        BY <3>3, <4>1, <4>5, <4>6 DEF WordKept, WillEnd, Has
    <3>4. QED
      BY <2>6, <3>1, <3>2, <3>3 DEF Begun
  <2>7. QED
    BY <1>2, <2>1, <2>2, <2>3, <2>4, <2>5, <2>6 DEF Serves
<1>3. CASE Restart
  BY <1>3, IdleCalls DEF Restart, WordsKept, WordKept
<1>4. ASSUME NEW h \in Handler, Serves(h), \A g \in Handler \ {h} : Stays(g)
      PROVE  WordsKept'
  BY <1>2, <1>4 DEF WordsKept, Serves
<1>5. CASE \A h \in Handler : Stays(h)
  BY <1>2, <1>5 DEF WordsKept, Serves
<1>6. QED
  BY <1>3, <1>4, <1>5, OneServes

-----------------------------------------------------------------------------
(* What a step may do to the tables that decide on a disabled account.     *)

Makes(name, of) == \E h \in Handler : Took(h) /\ handler[h].todo[1] = << name, of >>

FleetMoves ==
  \A w \in Worker : Known(w) =>
    /\ Known(w)' /\ workers'[w].owner = workers[w].owner
    /\ workers'[w].state = "active" => workers[w].state = "active"
UsersMove ==
  \A u \in User : users'[u] # users[u] =>
    \/ users[u] = "absent" /\ users'[u] = "active"
    \/ \E h \in Handler : Took(h) /\ handler[h].user = u /\ handler[h].todo[1] = << "SetStatus", users'[u] >>
TablesMove ==
  /\ \A n \in Nonce : nonces'[n] = NoWorker \/ nonces'[n] = nonces[n] \/ Makes("CreateNonce", nonces'[n])
  /\ \A t \in Bearer : \/ bearers'[t] = NoBearer \/ bearers'[t] = bearers[t]
                       \/ Makes("CreateBearer", bearers'[t].worker)
  /\ \A w \in blocked : w \in blocked' \/ Makes("Unblock", w)

LEMMA FleetStays == ASSUME UNCHANGED fleet PROVE FleetMoves
BY DEF FleetMoves, fleet, Known
LEMMA UsersStay == ASSUME UNCHANGED users PROVE UsersMove
BY DEF UsersMove
LEMMA TablesStay == ASSUME UNCHANGED memory PROVE TablesMove
BY DEF TablesMove, memory

LEMMA EndedMoves ==
  ASSUME FleetInv, NEW S, NEW w \in Worker
  PROVE  /\ EndedAmong(S) \in [Worker -> Row]
         /\ EndedAmong(S)[w].owner = workers[w].owner
         /\ EndedAmong(S)[w].state \in {workers[w].state, "revoked"}
BY DEF EndedAmong, FleetInv, FleetOK, Row

LEMMA RegistrationMoves ==
  ASSUME AccessInv, NEW h \in Handler, NEW c \in Credential, NEW k \in Key, NEW w \in Worker,
         RegisterWorker(h, c, k, w)
  PROVE  FleetMoves
<1>1. PICK E : E = EndedAmong(Superseded(k))
  OBVIOUS
<1>2. PICK row : workers' = [E EXCEPT ![w] = row] /\ workers[w].state = "absent"
  BY <1>1 DEF RegisterWorker
<1>3. ASSUME NEW v \in Worker
      PROVE  E \in [Worker -> Row] /\ E[v].owner = workers[v].owner /\ E[v].state \in {workers[v].state, "revoked"}
  BY <1>1, EndedMoves DEF AccessInv
<1>4. ASSUME NEW v \in Worker, Known(v)
      PROVE  workers'[v] = E[v]
  <2>1. v # w
    BY <1>2, <1>4 DEF Known
  <2>2. QED
    BY <1>2, <1>3, <2>1
<1>5. QED
  BY <1>3, <1>4 DEF FleetMoves, Known

LEMMA RevocationMoves ==
  ASSUME AccessInv, NEW h \in Handler, NEW w \in Worker, RevokeWorker(h, w)
  PROVE  FleetMoves
<1>1. CASE UNCHANGED fleet
  BY <1>1, FleetStays
<1>2. CASE workers' = EndedAmong({w})
  <2>1. PICK E : E = EndedAmong({w})
    OBVIOUS
  <2>2. ASSUME NEW v \in Worker
        PROVE  E[v].owner = workers[v].owner /\ E[v].state \in {workers[v].state, "revoked"}
    BY <2>1, EndedMoves DEF AccessInv
  <2>3. QED
    BY <1>2, <2>1, <2>2 DEF FleetMoves, Known
<1>3. QED
  BY <1>1, <1>2 DEF RevokeWorker

LEMMA FleetContinues ==
  ASSUME AccessInv, [AccessNext]_accessVars
  PROVE  FleetMoves
<1>1. ASSUME NEW h \in Handler, AccountStep(h) PROVE FleetMoves
  BY <1>1, FleetStays
     DEF AccountStep, Register, OpenFirst, OpenInvited, Login, AskFor, Create, RevokeAll, ChangePassword,
         ListSessions, RevokeListed, PatchUser, DeleteUser, SetStatus, RevokeUser, OwnedWorkers, Answered
<1>2. ASSUME NEW h \in Handler, NEW c \in Credential, NEW k \in Key, NEW w \in Worker,
             RegisterWorker(h, c, k, w)
      PROVE  FleetMoves
  BY <1>2, RegistrationMoves
<1>3. ASSUME NEW h \in Handler, NEW w \in Worker, RevokeWorker(h, w) PROVE FleetMoves
  BY <1>3, RevocationMoves
<1>4. ASSUME NEW h \in Handler, WorkerStep(h),
             ~ \E c \in Credential, k \in Key, w \in Worker : RegisterWorker(h, c, k, w),
             ~ \E w \in Worker : RevokeWorker(h, w)
      PROVE  FleetMoves
  BY <1>4, FleetStays
     DEF WorkerStep, DeleteWorker, RevokeNonces, RevokeBearers, Block, Unblock, AuthChallenge,
         CreateNonce, GetOwner, GetUser, CreateBearer, GetActiveWorker, ClaimOrWait, AuthSession, Claim
<1>5. CASE \/ \E u \in User : AdminCreateUser(u)
           \/ \E c \in Credential : End(c)
           \/ \E n \in Nonce : ExpireNonce(n)
           \/ \E t \in Bearer : ExpireBearer(t)
           \/ Restart
           \/ UNCHANGED accessVars
  BY <1>5, FleetStays DEF AdminCreateUser, End, ExpireNonce, ExpireBearer, Restart, accessVars, fleet
<1>6. QED
  BY <1>1, <1>2, <1>3, <1>4, <1>5 DEF AccessNext

LEMMA UsersContinue ==
  ASSUME AccessInv, [AccessNext]_accessVars
  PROVE  UsersMove
<1>0. users \in [User -> Status]
  BY DEF AccessInv, AccountInv, AccountsOK
<1>1. ASSUME NEW h \in Handler, OpenFirst(h) \/ OpenInvited(h) PROVE UsersMove
  <2>1. CASE UNCHANGED users
    BY <2>1, UsersStay
  <2>2. CASE users' = [users EXCEPT ![handler[h].user] = "active"]
    <3>1. PICK of : Calls(h, "Open", of) /\ Proceed(h)
      BY <1>1 DEF OpenFirst, OpenInvited
    <3>2. handler[h].user \in User /\ Opens(handler[h])
      BY <3>1, LastProceeds DEF AccessInv, AccountInv
    <3>3. users[handler[h].user] = "absent"
      BY <3>2 DEF AccessInv, AccountInv, UsersAreKnown
    <3>4. QED
      BY <1>0, <2>2, <3>2, <3>3 DEF UsersMove
  <2>3. QED
    BY <1>1, <2>1, <2>2 DEF OpenFirst, OpenInvited, Open, accounts
<1>2. ASSUME NEW h \in Handler, NEW status, SetStatus(h, status) PROVE UsersMove
  <2>1. Calls(h, "SetStatus", status) /\ users' = [users EXCEPT ![handler[h].user] = status]
    BY <1>2 DEF SetStatus
  <2>2. Took(h)
    BY <1>2, SetStatusServes
  <2>3. handler[h].todo[1] = << "SetStatus", status >>
    BY <2>1, CallFacts
  <2>4. ASSUME NEW u \in User, users'[u] # users[u]
        PROVE  u = handler[h].user /\ users'[u] = status
    BY <1>0, <2>1, <2>4
  <2>5. QED
    BY <2>2, <2>3, <2>4 DEF UsersMove
<1>3. ASSUME NEW h \in Handler, AccountStep(h), ~ OpenFirst(h), ~ OpenInvited(h),
             ~ \E status \in {"active", "disabled", "deleted"} : SetStatus(h, status)
      PROVE  UsersMove
  BY <1>3, UsersStay
     DEF AccountStep, Register, Login, AskFor, Create, RevokeAll, ChangePassword,
         ListSessions, RevokeListed, PatchUser, DeleteUser, RevokeUser, OwnedWorkers, Answered, accounts
<1>4. ASSUME NEW h \in Handler, WorkerStep(h) PROVE UsersMove
  BY <1>4, UsersStay
     DEF WorkerStep, RegisterWorker, RevokeWorker, DeleteWorker, RevokeNonces, RevokeBearers, Block, Unblock,
         AuthChallenge, CreateNonce, GetOwner, GetUser, CreateBearer, GetActiveWorker, ClaimOrWait, AuthSession,
         Claim, accounts
<1>5. ASSUME NEW u \in User, AdminCreateUser(u) PROVE UsersMove
  <2>1. users[u] = "absent" /\ users' = [users EXCEPT ![u] = "active"]
    BY <1>5 DEF AdminCreateUser, Unborn
  <2>2. QED
    BY <1>0, <2>1 DEF UsersMove
<1>6. CASE \/ \E c \in Credential : End(c)
           \/ \E n \in Nonce : ExpireNonce(n)
           \/ \E t \in Bearer : ExpireBearer(t)
           \/ Restart
           \/ UNCHANGED accessVars
  BY <1>6, UsersStay DEF End, ExpireNonce, ExpireBearer, Restart, accessVars, accounts
<1>7. QED
  BY <1>1, <1>2, <1>3, <1>4, <1>5, <1>6 DEF AccessNext, AccountStep

LEMMA MakesIts ==
  ASSUME AccessInv, NEW h \in Handler, NEW name \in {"CreateNonce", "CreateBearer", "Unblock"}, NEW of,
         Calls(h, name, of), Proceed(h)
  PROVE  Makes(name, of)
BY PlainTook, CallFacts DEF Makes

LEMMA TablesContinue ==
  ASSUME AccessInv, [AccessNext]_accessVars
  PROVE  TablesMove \/ Restart
<1>0. /\ nonces \in [Nonce -> Worker \cup {NoWorker}]
      /\ bearers \in [Bearer -> [worker : Worker \cup {NoWorker}, user : User \cup {NoUser}]]
  BY DEF AccessInv, MemoryOK
<1>1. ASSUME NEW h \in Handler, AccountStep(h), ~ RevokeUser(h) PROVE TablesMove
  BY <1>1, TablesStay
     DEF AccountStep, Register, OpenFirst, OpenInvited, Login, AskFor, Create, RevokeAll, ChangePassword,
         ListSessions, RevokeListed, PatchUser, DeleteUser, SetStatus, OwnedWorkers, Answered
<1>2. ASSUME NEW h \in Handler, RevokeUser(h) PROVE TablesMove
  BY <1>0, <1>2 DEF RevokeUser, TablesMove
<1>3. ASSUME NEW h \in Handler, NEW w \in Worker,
             RevokeNonces(h, w) \/ RevokeBearers(h, w) \/ Block(h, w)
      PROVE  TablesMove
  BY <1>0, <1>3 DEF RevokeNonces, RevokeBearers, Block, TablesMove
<1>4. ASSUME NEW h \in Handler, NEW w \in Worker, Unblock(h, w) PROVE TablesMove
  BY <1>0, <1>4, MakesIts DEF Unblock, TablesMove
<1>5. ASSUME NEW h \in Handler, NEW w \in Worker, CreateNonce(h, w) PROVE TablesMove
  <2>1. Makes("CreateNonce", w)
    BY <1>5, MakesIts DEF CreateNonce
  <2>2. PICK n \in Nonce : nonces' = [nonces EXCEPT ![n] = w]
    BY <1>5 DEF CreateNonce
  <2>3. \A o \in Nonce : nonces'[o] = nonces[o] \/ nonces'[o] = w
    BY <1>0, <2>2
  <2>4. bearers' = bearers /\ blocked' = blocked
    BY <1>5 DEF CreateNonce
  <2>5. QED
    BY <2>1, <2>3, <2>4 DEF TablesMove
<1>6. ASSUME NEW h \in Handler, NEW w \in Worker, CreateBearer(h, w) PROVE TablesMove
  <2>1. Makes("CreateBearer", w)
    BY <1>6, MakesIts DEF CreateBearer
  <2>11. PICK row : row = [worker |-> w, user |-> handler[h].user]
    OBVIOUS
  <2>12. row.worker = w
    BY <2>11
  <2>2. PICK b \in Bearer : bearers' = [bearers EXCEPT ![b] = row]
    BY <1>6, <2>11 DEF CreateBearer
  <2>3. \A o \in Bearer : bearers'[o] = bearers[o] \/ bearers'[o].worker = w
    BY <1>0, <2>12, <2>2
  <2>4. nonces' = nonces /\ blocked' = blocked
    BY <1>6 DEF CreateBearer
  <2>5. QED
    BY <2>1, <2>3, <2>4 DEF TablesMove
<1>7. ASSUME NEW h \in Handler, NEW n \in Nonce, AuthSession(h, n) PROVE TablesMove
  <2>1. nonces' = [nonces EXCEPT ![n] = NoWorker] /\ bearers' = bearers /\ blocked' = blocked
    BY <1>7 DEF AuthSession
  <2>2. QED
    BY <1>0, <2>1 DEF TablesMove
<1>8. ASSUME NEW h \in Handler, WorkerStep(h),
             ~ \E n \in Nonce : AuthSession(h, n),
             ~ \E w \in Worker : RevokeNonces(h, w) \/ RevokeBearers(h, w) \/ Block(h, w)
                                 \/ Unblock(h, w) \/ CreateNonce(h, w) \/ CreateBearer(h, w)
      PROVE  TablesMove
  BY <1>8, TablesStay
     DEF WorkerStep, RegisterWorker, RevokeWorker, DeleteWorker, AuthChallenge, GetOwner, GetUser,
         GetActiveWorker, ClaimOrWait, Claim
<1>9. CASE \/ \E n \in Nonce : ExpireNonce(n)
           \/ \E t \in Bearer : ExpireBearer(t)
  BY <1>0, <1>9 DEF ExpireNonce, ExpireBearer, TablesMove
<1>10. CASE \/ \E u \in User : AdminCreateUser(u)
            \/ \E c \in Credential : End(c)
            \/ UNCHANGED accessVars
  BY <1>10, TablesStay DEF AdminCreateUser, End, accessVars, memory
<1>11. QED
  BY <1>1, <1>2, <1>3, <1>4, <1>5, <1>6, <1>7, <1>8, <1>9, <1>10 DEF AccessNext, AccountStep, WorkerStep

-----------------------------------------------------------------------------
(* Requests that change an account, Workers that log in, and claims.       *)

\* The calls of the requests of Workers.
Knowing == {"CreateNonce", "GetOwner", "GetUser", "CreateBearer", "GetActiveWorker", "ClaimOrWait"}

LoopOnce(r) ==
  \A i, j \in DOMAIN r.todo :
    r.todo[i][1] = "OwnedWorkers" /\ r.todo[j][1] \in LoopNames \cup {"OwnedWorkers"} => i = j
LoginOnce(r) ==
  \A c, d : Has(r, c) /\ Has(r, d) /\ c[1] \in LoggingIn /\ d[1] \in LoggingIn => c[2] = d[2]
Knows(r) == \A call : Has(r, call) /\ call[1] \in Knowing => Known(call[2])

\* The user that a login reads is the owner of the Worker.
OwnerRead(r) ==
  \A w : Has(r, << "GetUser", w >>) /\ r.todo[1][1] # "GetOwner" => workers[w].owner = r.user

\* A request lets Workers in only while their owner's account is active.
Enabling(r) ==
  /\ Has(r, << "OwnedWorkers", "unblock" >>) => r.todo[1] = << "SetStatus", "active" >> \/ users[r.user] = "active"
  /\ \A w : Has(r, << "Unblock", w >>) =>
       /\ users[r.user] = "active" /\ r.todo[1][1] # "SetStatus"
       /\ Known(w) /\ workers[w].owner = r.user

TablesKnow ==
  /\ \A n \in Nonce : nonces[n] # NoWorker => Known(nonces[n])
  /\ \A t \in Bearer : bearers[t] # NoBearer => Known(bearers[t].worker)

OneChange ==
  \A g, h \in Handler :
    Changes(handler[g]) /\ Changes(handler[h]) /\ handler[g].user = handler[h].user => g = h

CallsInv ==
  /\ OrdersOK /\ TablesKnow /\ OneChange
  /\ \A h \in Handler : /\ LoopOnce(handler[h]) /\ LoginOnce(handler[h]) /\ Knows(handler[h])
                        /\ OwnerRead(handler[h]) /\ Enabling(handler[h])

Goes(h) == Took(h) \/ ReadOwner(h) \/ Listed(h)
Comes(h) == Dropped(h) \/ Begun(h)

LEMMA GoesFollows ==
  ASSUME AccessInv, NEW h \in Handler, Goes(h)
  PROVE  \E k \in Nat : Follows(handler'[h], handler[h], k) /\ (k = 0 \/ Listed(h))
BY TookFollows, ListedFollows DEF Goes

LEMMA GoesHas ==
  ASSUME AccessInv, NEW h \in Handler, Goes(h)
  PROVE  /\ \A call : Has(handler'[h], call) => Has(handler[h], call) \/ (Listed(h) /\ call[1] \in LoopNames)
         /\ \A call : Has(handler[h], call) => Has(handler'[h], call) \/ handler[h].todo[1] = call
         /\ handler[h].todo # << >> /\ 1 \in DOMAIN handler[h].todo
<1>1. handler[h].todo # << >> /\ 1 \in DOMAIN handler[h].todo
  BY TodoTyped DEF Goes, Took, ReadOwner, Listed
<1>2. QED
  BY <1>1, GoesFollows, FollowsHas

\* The user of a request is the same as before, except in a login.
LEMMA GoesUser ==
  ASSUME AccessInv, OrdersOK, NEW h \in Handler, Goes(h), NEW call, Has(handler'[h], call)
  PROVE  handler'[h].user = handler[h].user \/ (ReadOwner(h) /\ Only(handler[h], LoggingIn) /\ call[1] \in LoggingIn)
<1>1. handler'[h].todo # << >>
  BY DEF Has
<1>2. CASE Took(h) \/ Listed(h)
  BY <1>1, <1>2 DEF Took, Listed
<1>3. CASE ReadOwner(h)
  <2>1. Only(handler[h], LoggingIn)
    BY <1>3, GoesHas DEF Goes, ReadOwner, OrdersOK, OrderOK
  <2>2. Has(handler[h], call)
    BY <1>3, TookFollows, FollowsHas
  <2>3. QED
    BY <1>3, <2>1, <2>2 DEF Only, Has
<1>4. QED
  BY <1>2, <1>3 DEF Goes

\* The kinds of new requests.
ChangesAccount(r) ==
  /\ r.user \in User /\ MayChange(r.user)
  /\ Only(r, {"SetStatus", "RevokeAll", "RevokeUser", "OwnedWorkers", "Answer"})
  /\ LoopOnce(r)
  /\ Has(r, << "OwnedWorkers", "unblock" >>) => r.todo[1] = << "SetStatus", "active" >>

IsForWorker(r) ==
  \E w \in Worker :
    /\ Known(w) /\ Only(r, Knowing)
    /\ \A call : Has(r, call) =>
         /\ call[2] = w
         /\ call[1] = "GetUser" => r.todo[1][1] = "GetOwner"
         /\ call[1] = "CreateBearer" => Has(r, << "GetUser", w >>)
         /\ call[1] \in {"GetActiveWorker", "ClaimOrWait"} => \E t \in Bearer : bearers[t].worker = w

LEMMA BegunKinds ==
  ASSUME AccessInv, TablesKnow, NEW h \in Handler, Begun(h)
  PROVE  Only(handler'[h], Harmless) \/ ChangesAccount(handler'[h]) \/ IsForWorker(handler'[h])
<1> DEFINE r == handler'[h]
<1>1. CASE Only(r, Harmless) /\ OrderOK(r) /\ r.listed = {}
  BY <1>1
<1>2. ASSUME NEW u \in User, r.user = u, MayChange(u), r.todo = DeleteCalls
      PROVE  /\ Only(r, {"SetStatus", "RevokeAll", "RevokeUser", "OwnedWorkers", "Answer"})
             /\ LoopOnce(r)
             /\ Has(r, << "OwnedWorkers", "unblock" >>) => r.todo[1] = << "SetStatus", "active" >>
  <2>1. PICK t : t = r.todo
    OBVIOUS
  <2>2. /\ DOMAIN t = 1 .. 8
        /\ t[1] = << "SetStatus", "deleted" >> /\ t[2] = << "RevokeAll", "session" >>
        /\ t[3] = << "RevokeAll", "token" >> /\ t[4] = << "RevokeAll", "registration" >>
        /\ t[5] = << "RevokeAll", "invitation" >> /\ t[6] = << "RevokeUser", NoWorker >>
        /\ t[7] = << "OwnedWorkers", "remove" >> /\ t[8] = << "Answer", NoWorker >>
    BY <1>2, <2>1, DeletionCalls
  <2> HIDE DEF r
  <2>3. \A i \in DOMAIN t : i = 1 \/ i = 2 \/ i = 3 \/ i = 4 \/ i = 5 \/ i = 6 \/ i = 7 \/ i = 8
    BY <2>2
  <2>4. \A i \in DOMAIN t :
          /\ t[i][1] \in {"SetStatus", "RevokeAll", "RevokeUser", "OwnedWorkers", "Answer"}
          /\ t[i][1] = "OwnedWorkers" => i = 7
          /\ t[i] # << "OwnedWorkers", "unblock" >>
    BY <2>2, <2>3
  <2>5. QED
    BY <2>1, <2>4 DEF Only, LoopOnce, LoopNames, Has
<1>3. ASSUME NEW u \in User, r.user = u, MayChange(u),
             NEW status \in {"active", "disabled"}, NEW password \in BOOLEAN,
             r.todo = (IF status # users[u] THEN StatusCalls(status) ELSE << >>)
                      \o (IF password THEN PasswordCalls ELSE << >>) \o << Answer >>
      PROVE  /\ Only(r, {"SetStatus", "RevokeAll", "RevokeUser", "OwnedWorkers", "Answer"})
             /\ LoopOnce(r)
             /\ Has(r, << "OwnedWorkers", "unblock" >>) => r.todo[1] = << "SetStatus", "active" >>
  <2>1. PICK t : t = r.todo
    OBVIOUS
  <2>2. PICK changed \in BOOLEAN : changed = (status # users[u])
    OBVIOUS
  <2>3. t = (IF changed THEN StatusCalls(status) ELSE << >>)
            \o (IF password THEN PasswordCalls ELSE << >>) \o << Answer >>
    BY <1>3, <2>1, <2>2
  <2> HIDE DEF r
  <2>4. PatchOrder(t, status, changed, password)
    BY <2>3, PatchCalls
  <2>5. PICK a \in {0, 2, 4}, b \in {0, 2} :
           /\ DOMAIN t = 1 .. (a + b + 1)
           /\ a = (IF ~ changed THEN 0 ELSE IF status = "disabled" THEN 4 ELSE 2)
           /\ t[a + b + 1] = << "Answer", NoWorker >>
           /\ a > 0 => t[1] = << "SetStatus", status >>
           /\ a = 2 => t[2] = << "OwnedWorkers", "unblock" >>
           /\ a = 4 => /\ t[2] = << "RevokeAll", "session" >> /\ t[3] = << "RevokeUser", NoWorker >>
                       /\ t[4] = << "OwnedWorkers", "disconnect" >>
           /\ b = 2 => t[a + 1] = << "RevokeAll", "session" >> /\ t[a + 2] = << "RevokeUser", NoWorker >>
    BY <2>4 DEF PatchOrder
  <2>6. \A i \in DOMAIN t : \/ i = a + b + 1
                            \/ b = 2 /\ (i = a + 1 \/ i = a + 2)
                            \/ a = 2 /\ (i = 1 \/ i = 2)
                            \/ a = 4 /\ (i = 1 \/ i = 2 \/ i = 3 \/ i = 4)
    BY <2>5
  <2>7. \A i \in DOMAIN t :
          /\ t[i][1] \in {"SetStatus", "RevokeAll", "RevokeUser", "OwnedWorkers", "Answer"}
          /\ t[i][1] = "OwnedWorkers" => i = a
          /\ t[i] = << "OwnedWorkers", "unblock" >> => a = 2
    BY <2>5, <2>6
  <2>8. a = 2 => t[1] = << "SetStatus", "active" >>
    BY <2>5
  <2>9. QED
    BY <2>1, <2>7, <2>8 DEF Only, LoopOnce, LoopNames, Has
<1>4. ASSUME NEW w, r.todo = << << "CreateNonce", w >> >>, Known(w)
      PROVE  /\ Only(r, Knowing)
             /\ \A call : Has(r, call) => call = << "CreateNonce", w >>
  <2>1. PICK t : t = r.todo
    OBVIOUS
  <2>2. DOMAIN t = {1} /\ t[1] = << "CreateNonce", w >>
    BY <1>4, <2>1
  <2> HIDE DEF r
  <2>3. QED
    BY <2>1, <2>2 DEF Only, Has, Knowing
<1>5. ASSUME NEW w, r.todo = << << "GetOwner", w >>, << "GetUser", w >>, << "CreateBearer", w >> >>
      PROVE  /\ Only(r, Knowing) /\ r.todo[1][1] = "GetOwner" /\ Has(r, << "GetUser", w >>)
             /\ \A call : Has(r, call) => call[2] = w /\ call[1] \in LoggingIn
  <2>1. PICK t : t = r.todo
    OBVIOUS
  <2>2. DOMAIN t = 1 .. 3 /\ t[1] = << "GetOwner", w >> /\ t[2] = << "GetUser", w >> /\ t[3] = << "CreateBearer", w >>
    BY <1>5, <2>1
  <2>3. 2 \in DOMAIN t /\ \A i \in DOMAIN t : i = 1 \/ i = 2 \/ i = 3
    BY <2>2
  <2> HIDE DEF r
  <2>4. QED
    BY <2>1, <2>2, <2>3 DEF Only, Has, Knowing, LoggingIn
<1>6. ASSUME NEW w, r.todo = << << "GetActiveWorker", w >>, << "ClaimOrWait", w >> >>
      PROVE  /\ Only(r, Knowing)
             /\ \A call : Has(r, call) => call[2] = w /\ call[1] \in {"GetActiveWorker", "ClaimOrWait"}
  <2>1. PICK t : t = r.todo
    OBVIOUS
  <2>2. DOMAIN t = 1 .. 2 /\ t[1] = << "GetActiveWorker", w >> /\ t[2] = << "ClaimOrWait", w >>
    BY <1>6, <2>1
  <2>3. \A i \in DOMAIN t : i = 1 \/ i = 2
    BY <2>2
  <2> HIDE DEF r
  <2>4. QED
    BY <2>1, <2>2, <2>3 DEF Only, Has, Knowing
<1>7. ASSUME NEW w, r.todo = << << "CreateNonce", w >> >>, Known(w) PROVE IsForWorker(r)
  <2>1. Only(r, Knowing) /\ (\A call : Has(r, call) => call = << "CreateNonce", w >>) /\ w \in Worker
    BY <1>4, <1>7 DEF Known
  <2> HIDE DEF r
  <2>2. \A call : Has(r, call) => call[1] = "CreateNonce" /\ call[2] = w
    BY <2>1
  <2>3. QED
    BY <1>7, <2>1, <2>2 DEF IsForWorker
<1>8. ASSUME NEW w, r.todo = << << "GetOwner", w >>, << "GetUser", w >>, << "CreateBearer", w >> >>,
             \E n \in Nonce : nonces[n] = w /\ nonces[n] # NoWorker
      PROVE  IsForWorker(r)
  <2>1. Known(w) /\ w \in Worker
    BY <1>8 DEF TablesKnow, Known
  <2>2. /\ Only(r, Knowing) /\ r.todo[1][1] = "GetOwner" /\ Has(r, << "GetUser", w >>)
        /\ \A call : Has(r, call) => call[2] = w /\ call[1] \in LoggingIn
    BY <1>5, <1>8
  <2> HIDE DEF r
  <2>3. QED
    BY <2>1, <2>2 DEF LoggingIn, IsForWorker
<1>9. ASSUME NEW w, r.todo = << << "GetActiveWorker", w >>, << "ClaimOrWait", w >> >>,
             NEW t \in Bearer, bearers[t].worker = w, bearers[t] # NoBearer
      PROVE  IsForWorker(r)
  <2>1. Known(w) /\ w \in Worker
    BY <1>9 DEF TablesKnow, Known
  <2>2. /\ Only(r, Knowing)
        /\ \A call : Has(r, call) => call[2] = w /\ call[1] \in {"GetActiveWorker", "ClaimOrWait"}
    BY <1>6, <1>9
  <2> HIDE DEF r
  <2>3. QED
    BY <1>9, <2>1, <2>2 DEF IsForWorker
<1> HIDE DEF r
<1>10. ASSUME \/ Only(r, Harmless)
              \/ ChangesAccount(r)
              \/ IsForWorker(r)
       PROVE  Only(handler'[h], Harmless) \/ ChangesAccount(handler'[h]) \/ IsForWorker(handler'[h])
  BY <1>10 DEF r
<1>11. CASE \E u \in User :
              /\ r.user = u
              /\ MayChange(u)
              /\ \/ r.todo = DeleteCalls
                 \/ \E status \in {"active", "disabled"}, password \in BOOLEAN :
                      r.todo = (IF status # users[u] THEN StatusCalls(status) ELSE << >>)
                               \o (IF password THEN PasswordCalls ELSE << >>) \o << Answer >>
  <2>1. ChangesAccount(r)
    BY <1>2, <1>3, <1>11 DEF ChangesAccount
  <2>2. QED
    BY <1>10, <2>1
<1>12. QED
  BY <1>1, <1>7, <1>8, <1>9, <1>10, <1>11 DEF Begun, r

LEMMA IdleHas == \A call : ~ Has(Idle, call)
BY IdleCalls DEF Has

LEMMA OnlyHas == \A r, names, call : Only(r, names) /\ Has(r, call) => call[1] \in names
BY DEF Only, Has

\* The calls of Workers' requests are for Workers that exist already.
LEMMA CallsForKnown ==
  ASSUME AccessInv, CallsInv, [AccessNext]_accessVars, NEW h \in Handler,
         NEW call, Has(handler'[h], call), call[1] \in Knowing
  PROVE  Known(call[2])
<1>1. ASSUME Serves(h)
      PROVE  Known(call[2])
  <2>0. Knows(handler[h]) /\ TablesKnow
    BY DEF CallsInv
  <2>1. CASE Stays(h)
    BY <2>0, <2>1 DEF Stays, Knows
  <2>2. CASE Goes(h)
    <3>1. Has(handler[h], call)
      BY <2>2, GoesHas DEF Knowing, LoopNames
    <3>2. QED
      BY <2>0, <3>1 DEF Knows
  <2>3. CASE Dropped(h)
    BY <2>3, IdleHas DEF Dropped
  <2>4. CASE Begun(h)
    <3>1. ~ Only(handler'[h], Harmless)
      BY OnlyHas DEF Harmless, Knowing
    <3>2. ~ ChangesAccount(handler'[h])
      BY OnlyHas DEF ChangesAccount, Knowing
    <3>3. IsForWorker(handler'[h])
      BY <2>0, <2>4, <3>1, <3>2, BegunKinds
    <3>4. QED
      BY <3>3 DEF IsForWorker
  <2>5. QED
    BY <1>1, <2>1, <2>2, <2>3, <2>4 DEF Serves, Goes
<1>2. CASE Restart
  BY <1>2, IdleHas DEF Restart
<1>3. QED
  BY <1>1, <1>2, OneServes DEF Serves

LEMMA KnowingContinues ==
  ASSUME AccessInv, CallsInv, [AccessNext]_accessVars
  PROVE  TablesKnow' /\ \A h \in Handler : Knows(handler[h])'
<1>1. \A w : Known(w) => Known(w)'
  BY FleetContinues DEF FleetMoves, Known
<1>2. \A h \in Handler : Knows(handler[h])'
  BY <1>1, CallsForKnown DEF Knows, Has
<1>3. ASSUME NEW name \in {"CreateNonce", "CreateBearer"}, NEW w, Makes(name, w)
      PROVE  Known(w)
  <2>1. PICK h \in Handler : Took(h) /\ handler[h].todo[1] = << name, w >>
    BY <1>3 DEF Makes
  <2>2. Has(handler[h], << name, w >>)
    BY <2>1, GoesHas DEF Goes, Has
  <2>3. Knows(handler[h])
    BY DEF CallsInv
  <2>4. << name, w >>[1] \in Knowing /\ << name, w >>[2] = w
    BY DEF Knowing
  <2>5. QED
    BY <2>2, <2>3, <2>4 DEF Knows
<1>4. ASSUME TablesMove PROVE TablesKnow'
  <2>1. TablesKnow
    BY DEF CallsInv
  <2>2. ASSUME NEW n \in Nonce, nonces'[n] # NoWorker
        PROVE  Known(nonces'[n])
    BY <1>3, <1>4, <2>1, <2>2 DEF TablesMove, TablesKnow
  <2>3. ASSUME NEW t \in Bearer, bearers'[t] # NoBearer
        PROVE  Known(bearers'[t].worker)
    BY <1>3, <1>4, <2>1, <2>3 DEF TablesMove, TablesKnow
  <2>4. QED
    BY <1>1, <2>2, <2>3 DEF TablesKnow
<1>5. ASSUME Restart PROVE TablesKnow'
  BY <1>5 DEF Restart, TablesKnow
<1>6. TablesKnow'
  BY <1>4, <1>5, TablesContinue
<1>7. QED
  BY <1>2, <1>6

LEMMA OnceContinues ==
  ASSUME AccessInv, CallsInv, [AccessNext]_accessVars
  PROVE  \A h \in Handler : LoopOnce(handler'[h]) /\ LoginOnce(handler'[h])
<1>1. ASSUME NEW h \in Handler, Serves(h)
      PROVE  LoopOnce(handler'[h]) /\ LoginOnce(handler'[h])
  <2>0. LoopOnce(handler[h]) /\ LoginOnce(handler[h]) /\ TablesKnow
    BY DEF CallsInv
  <2>1. CASE Stays(h)
    BY <2>0, <2>1 DEF Stays
  <2>2. CASE Goes(h)
    <3>1. PICK r, q : r = handler[h] /\ q = handler'[h]
      OBVIOUS
    <3>2. PICK k \in Nat : Follows(q, r, k) /\ (k = 0 \/ Listed(h))
      BY <2>2, <3>1, GoesFollows
    <3>3. /\ \A i \in DOMAIN q.todo :
               \/ q.todo[i][1] \in LoopNames /\ i <= k
               \/ \E j \in DOMAIN r.todo : j > 1 /\ j = i - k + 1 /\ q.todo[i] = r.todo[j]
      BY <3>2, FollowsFacts
    <3>7. /\ DOMAIN q.todo = 1 .. (k + Len(r.todo) - 1) /\ DOMAIN r.todo = 1 .. Len(r.todo)
          /\ Len(r.todo) \in Nat \ {0}
      BY <3>2 DEF Follows
    <3>4. LoopOnce(q)
      <4>1. SUFFICES ASSUME NEW i \in DOMAIN q.todo, NEW j \in DOMAIN q.todo,
                            q.todo[i][1] = "OwnedWorkers", q.todo[j][1] \in LoopNames \cup {"OwnedWorkers"}
                     PROVE  i = j
        BY DEF LoopOnce
      <4>2. PICK a \in DOMAIN r.todo : a > 1 /\ a = i - k + 1 /\ q.todo[i] = r.todo[a]
        BY <3>3, <4>1 DEF LoopNames
      <4>3. CASE k = 0
        <5>1. PICK b \in DOMAIN r.todo : b > 1 /\ b = j - k + 1 /\ q.todo[j] = r.todo[b]
          BY <3>3, <3>7, <4>3
        <5>2. a = b
          BY <2>0, <3>1, <4>1, <4>2, <5>1 DEF LoopOnce
        <5>3. QED
          BY <3>7, <4>2, <4>3, <5>1, <5>2
      <4>4. CASE Listed(h)
        <5>1. r.todo[1][1] = "OwnedWorkers" /\ 1 \in DOMAIN r.todo
          BY <3>1, <3>7, <4>4 DEF Listed
        <5>2. a = 1
          BY <2>0, <3>1, <4>1, <4>2, <5>1 DEF LoopOnce
        <5>3. QED
          BY <4>2, <5>2
      <4>5. QED
        BY <3>2, <4>3, <4>4
    <3>5. LoginOnce(q)
      <4>1. \A call : Has(q, call) /\ call[1] \in LoggingIn => Has(r, call)
        BY <2>2, <3>1, GoesHas DEF LoggingIn, LoopNames
      <4>2. QED
        BY <2>0, <3>1, <4>1 DEF LoginOnce
    <3>6. QED
      BY <3>1, <3>4, <3>5
  <2>3. CASE Dropped(h)
    BY <2>3, IdleCalls, IdleHas DEF Dropped, LoopOnce, LoginOnce
  <2>4. CASE Begun(h)
    <3>1. CASE Only(handler'[h], Harmless)
      <4>1. LoopOnce(handler'[h])
        BY <3>1 DEF Only, Harmless, LoopOnce
      <4>2. LoginOnce(handler'[h])
        BY <3>1, OnlyHas DEF Harmless, LoginOnce, LoggingIn
      <4>3. QED
        BY <4>1, <4>2
    <3>2. CASE ChangesAccount(handler'[h])
      BY <3>2, OnlyHas DEF ChangesAccount, LoginOnce, LoggingIn
    <3>3. CASE IsForWorker(handler'[h])
      <4>1. LoopOnce(handler'[h])
        BY <3>3 DEF IsForWorker, Only, Knowing, LoopOnce
      <4>2. LoginOnce(handler'[h])
        BY <3>3 DEF IsForWorker, LoginOnce
      <4>3. QED
        BY <4>1, <4>2
    <3>4. QED
      BY <2>0, <2>4, <3>1, <3>2, <3>3, BegunKinds
  <2>5. QED
    BY <1>1, <2>1, <2>2, <2>3, <2>4 DEF Serves, Goes
<1>2. CASE Restart
  BY <1>2, IdleCalls, IdleHas DEF Restart, LoopOnce, LoginOnce
<1>3. QED
  BY <1>1, <1>2, OneServes DEF Serves

\* A request that changes an account did so before, or has just been let begin.
LEMMA ChangesCome ==
  ASSUME AccessInv, CallsInv, NEW h \in Handler, Serves(h), Changes(handler'[h])
  PROVE  \/ Changes(handler[h]) /\ handler'[h].user = handler[h].user
         \/ MayChange(handler'[h].user)
<1>0. OrdersOK /\ TablesKnow
  BY DEF CallsInv
<1>1. PICK call : Has(handler'[h], call) /\ call[1] \in Changing
  BY DEF Changes, Has
<1>2. CASE Stays(h)
  BY <1>2 DEF Stays
<1>3. CASE Goes(h)
  <2>1. handler'[h].user = handler[h].user
    BY <1>0, <1>1, <1>3, GoesUser DEF Changing, LoggingIn
  <2>2. CASE Has(handler[h], call)
    BY <1>1, <2>1, <2>2 DEF Has, Changes
  <2>3. CASE Listed(h)
    <3>1. handler[h].todo[1][1] = "OwnedWorkers" /\ 1 \in DOMAIN handler[h].todo
      BY <1>3, <2>3, GoesHas DEF Listed
    <3>2. QED
      BY <2>1, <3>1 DEF Changes, Changing
  <2>4. QED
    BY <1>1, <1>3, <2>2, <2>3, GoesHas
<1>4. CASE Dropped(h)
  BY <1>1, <1>4, IdleHas DEF Dropped
<1>5. CASE Begun(h)
  <2>1. ~ Only(handler'[h], Harmless)
    BY <1>1, OnlyHas DEF Harmless, Changing
  <2>2. ~ IsForWorker(handler'[h])
    BY <1>1, OnlyHas DEF IsForWorker, Changing, Knowing
  <2>3. QED
    BY <1>0, <1>5, <2>1, <2>2, BegunKinds DEF ChangesAccount
<1>6. QED
  BY <1>2, <1>3, <1>4, <1>5 DEF Serves, Goes

LEMMA OneChangeContinues ==
  ASSUME AccessInv, CallsInv, [AccessNext]_accessVars, ~ AdminsOverlap
  PROVE  OneChange'
<1>1. CASE Restart
  BY <1>1, IdleCalls DEF Restart, OneChange, Changes
<1>2. ASSUME NEW h \in Handler, Serves(h), \A g \in Handler \ {h} : Stays(g)
      PROVE  OneChange'
  <2>1. OneChange /\ OrdersOK
    BY DEF CallsInv
  <2>2. ASSUME NEW g \in Handler, g # h, Changes(handler'[h]), Changes(handler'[g]),
               handler'[g].user = handler'[h].user
        PROVE  FALSE
    <3>1. Changes(handler[g]) /\ handler[g].user = handler'[h].user
      BY <1>2, <2>2 DEF Stays
    <3>2. CASE Changes(handler[h]) /\ handler'[h].user = handler[h].user
      BY <2>1, <2>2, <3>1, <3>2 DEF OneChange
    <3>3. CASE MayChange(handler'[h].user)
      <4>1. Has(handler[g], Answer)
        BY <2>1, <3>1 DEF OrdersOK, OrderOK
      <4>2. Contains(handler[g].todo, Answer)
        BY <4>1, TodoTyped DEF Has, Contains
      <4>3. QED
        BY <3>1, <3>3, <4>2 DEF MayChange
    <3>4. QED
      BY <1>2, <2>2, <3>2, <3>3, ChangesCome
  <2>3. ASSUME NEW f \in Handler, NEW g \in Handler, f # h, g # h, Changes(handler'[f]), Changes(handler'[g]),
               handler'[f].user = handler'[g].user
        PROVE  f = g
    BY <1>2, <2>1, <2>3 DEF OneChange, Stays
  <2>4. QED
    BY <2>2, <2>3 DEF OneChange
<1>3. CASE \A h \in Handler : Stays(h)
  BY <1>3 DEF CallsInv, OneChange, Stays
<1>4. QED
  BY <1>1, <1>2, <1>3, OneServes

LEMMA TookMoves == ASSUME AccessInv, NEW h \in Handler, Took(h) PROVE ~ Stays(h)
<1>1. PICK t : t = handler[h].todo
  OBVIOUS
<1>2. t \in Seq(CallType) /\ t # << >>
  BY <1>1, TodoTyped DEF Took
<1>3. Len(Tail(t)) = Len(t) - 1 /\ Len(t) \in Nat
  BY <1>2, TailFacts
<1>4. Tail(t) # t
  BY <1>3
<1>5. QED
  BY <1>1, <1>4 DEF Took, Stays

\* While it is being changed, an account is changed by no other request.
LEMMA ActiveStays ==
  ASSUME AccessInv, CallsInv, [AccessNext]_accessVars, NEW h \in Handler, Changes(handler[h]),
         users[handler[h].user] = "active", handler[h].todo[1][1] # "SetStatus" \/ Stays(h)
  PROVE  users'[handler[h].user] = "active"
<1>1. OneChange /\ OrderOK(handler[h]) /\ UsersMove
  BY UsersContinue DEF CallsInv, OrdersOK
<1>2. handler[h].user \in User
  BY <1>1, TodoTyped DEF OrderOK, RequestType
<1>3. SUFFICES ASSUME users'[handler[h].user] # users[handler[h].user] PROVE FALSE
  OBVIOUS
<1>4. PICK g \in Handler : /\ Took(g) /\ handler[g].user = handler[h].user
                           /\ handler[g].todo[1] = << "SetStatus", users'[handler[h].user] >>
  <2>1. PICK u \in User : u = handler[h].user
    BY <1>2
  <2>2. users[u] # "absent" /\ users'[u] # users[u]
    BY <1>3, <2>1
  <2>3. \E g \in Handler : Took(g) /\ handler[g].user = u /\ handler[g].todo[1] = << "SetStatus", users'[u] >>
    BY <1>1, <2>2 DEF UsersMove
  <2>4. QED
    BY <2>1, <2>3
<1>5. 1 \in DOMAIN handler[g].todo /\ handler[g].todo[1][1] = "SetStatus"
  BY <1>4, GoesHas DEF Goes
<1>6. Changes(handler[g])
  BY <1>5 DEF Changes, Changing
<1>7. g = h
  BY <1>1, <1>4, <1>6 DEF OneChange
<1>8. QED
  BY <1>4, <1>5, <1>7, TookMoves

LEMMA OwnersContinue ==
  ASSUME AccessInv, CallsInv, [AccessNext]_accessVars
  PROVE  \A h \in Handler : OwnerRead(handler[h])'
<1>1. ASSUME NEW h \in Handler, Serves(h), NEW w, Has(handler'[h], << "GetUser", w >>),
             handler'[h].todo[1][1] # "GetOwner"
      PROVE  workers'[w].owner = handler'[h].user
  <2>0. OwnerRead(handler[h]) /\ LoginOnce(handler[h]) /\ TablesKnow /\ OrdersOK
    BY DEF CallsInv
  <2>1. << "GetUser", w >>[1] = "GetUser" /\ << "GetUser", w >>[2] = w
    OBVIOUS
  <2>2. Known(w)
    BY <1>1, <2>1, CallsForKnown DEF Knowing
  <2>3. workers'[w].owner = workers[w].owner
    BY <2>2, FleetContinues DEF FleetMoves, Known
  <2>4. CASE Stays(h)
    BY <1>1, <2>0, <2>3, <2>4 DEF Stays, OwnerRead
  <2>5. CASE Goes(h)
    <3>1. Has(handler[h], << "GetUser", w >>)
      BY <1>1, <2>1, <2>5, GoesHas DEF LoopNames
    <3>2. CASE Took(h) \/ Listed(h)
      <4>1. handler[h].todo[1][1] # "GetOwner"
        <5>1. CASE Took(h)
          BY <5>1 DEF Took
        <5>2. CASE Listed(h)
          <6>1. handler[h].todo[1][1] = "OwnedWorkers"
            BY <5>2 DEF Listed
          <6>2. QED
            BY <6>1
        <5>3. QED
          BY <3>2, <5>1, <5>2
      <4>2. handler'[h].todo # << >>
        BY <1>1 DEF Has
      <4>3. handler'[h].user = handler[h].user
        BY <3>2, <4>2 DEF Took, Listed
      <4>4. QED
        BY <2>0, <2>3, <3>1, <4>1, <4>3 DEF OwnerRead
    <3>3. CASE ReadOwner(h)
      <4>1. PICK v \in Worker : /\ handler[h].todo[1] = << "GetOwner", v >>
                                /\ binding[v] # NoUser /\ handler'[h].user = binding[v]
        BY <3>3 DEF ReadOwner
      <4>2. Has(handler[h], << "GetOwner", v >>)
        BY <2>5, <4>1, GoesHas DEF Has
      <4>3. << "GetOwner", v >>[1] = "GetOwner" /\ << "GetOwner", v >>[2] = v
        OBVIOUS
      <4>4. v = w
        BY <2>0, <2>1, <3>1, <4>2, <4>3 DEF LoginOnce, LoggingIn
      <4>5. binding[v] = workers[v].owner
        BY <4>1 DEF AccessInv, FleetInv, BindingsAgree
      <4>6. QED
        BY <2>3, <4>1, <4>4, <4>5
    <3>4. QED
      BY <2>5, <3>2, <3>3 DEF Goes
  <2>6. CASE Dropped(h)
    BY <1>1, <2>6, IdleHas DEF Dropped
  <2>7. CASE Begun(h)
    <3>1. ~ Only(handler'[h], Harmless)
      BY <1>1, <2>1, OnlyHas DEF Harmless
    <3>2. ~ ChangesAccount(handler'[h])
      BY <1>1, <2>1, OnlyHas DEF ChangesAccount
    <3>3. ~ IsForWorker(handler'[h])
      BY <1>1, <2>1 DEF IsForWorker
    <3>4. QED
      BY <2>0, <2>7, <3>1, <3>2, <3>3, BegunKinds
  <2>8. QED
    BY <1>1, <2>4, <2>5, <2>6, <2>7 DEF Serves, Goes
<1>2. ASSUME Restart, NEW h \in Handler PROVE OwnerRead(handler[h])'
  BY <1>2, IdleHas DEF Restart, OwnerRead, Has
<1>3. ASSUME NEW h \in Handler, Serves(h) PROVE OwnerRead(handler[h])'
  BY <1>1, <1>3 DEF OwnerRead, Has
<1>4. QED
  BY <1>2, <1>3, OneServes DEF Serves

\* The calls of the loop over the owner's Workers.
LEMMA LoopHas ==
  ASSUME AccessInv, NEW h \in Handler, handler[h].todo # << >>,
         NEW do \in DOMAIN WorkerCalls, NEW S \in SUBSET Worker, NEW list \in SetToSeqs(S),
         handler'[h].todo = ForEach(list, WorkerCalls[do]) \o Tail(handler[h].todo)
  PROVE  /\ \A call : Has(handler'[h], call) =>
              \/ Has(handler[h], call)
              \/ \E w \in S : /\ do = "unblock" => call = << "Unblock", w >>
                              /\ do = "disconnect" => call = << "Block", w >>
                              /\ do = "remove" => call \in {<< "Block", w >>, << "RevokeWorker", w >>}
         /\ do = "disconnect" => \A w \in S : Has(handler'[h], << "Block", w >>)
<1>1. PICK names : names = WorkerCalls[do]
  OBVIOUS
<1>2. do = "disconnect" \/ do = "unblock" \/ do = "remove"
  BY DEF WorkerCalls
<1>3. /\ do = "disconnect" => names = << "Block" >>
      /\ do = "unblock" => names = << "Unblock" >>
      /\ do = "remove" => names = << "Block", "RevokeWorker" >>
  BY <1>1, <1>2 DEF WorkerCalls
<1>4. names \in Seq(CallName) /\ Len(names) \in 1 .. 4
  <2>1. << "Block" >> \in Seq(CallName) /\ << "Unblock" >> \in Seq(CallName)
    BY DEF CallName
  <2>2. << "Block", "RevokeWorker" >> \in Seq(CallName)
    BY DEF CallName
  <2>3. names \in Seq(CallName)
    BY <1>2, <1>3, <2>1, <2>2
  <2>4. CASE do = "disconnect" \/ do = "unblock"
    <3>1. Len(names) = 1
      BY <1>3, <2>4
    <3>2. QED
      BY <2>3, <3>1
  <2>5. CASE do = "remove"
    <3>1. Len(names) = 2
      BY <1>3, <2>5
    <3>2. QED
      BY <2>3, <3>1
  <2>6. QED
    BY <1>2, <2>4, <2>5
<1>5. list \in Seq(Worker \cup {NoWorker})
  BY WorkerLists
<1>6. PICK f : f = ForEach(list, names)
  OBVIOUS
<1>7. /\ DOMAIN f = 1 .. Len(list) * Len(names) /\ Len(f) = Len(list) * Len(names)
      /\ \A i \in DOMAIN f :
           \E j \in 1 .. Len(names), k \in 1 .. Len(list) : f[i] = << names[j], list[k] >>
      /\ Len(names) = 1 => \A k \in 1 .. Len(list) : f[k] = << names[1], list[k] >>
  BY <1>4, <1>5, <1>6, LoopCalls
<1>8. PICK n \in Nat : /\ n = Cardinality(S) /\ Len(list) = n /\ IsFiniteSet(S) /\ list \in [1 .. n -> S]
                        /\ \A i, j \in 1 .. n : i # j => list[i] # list[j]
  <2>1. IsFiniteSet(S) /\ Cardinality(S) \in Nat
    BY AccessAssumption, FS_Subset, FS_CardinalityType
  <2>2. /\ list \in [1 .. Cardinality(S) -> S]
        /\ \A i, j \in 1 .. Cardinality(S) : i # j => list[i] # list[j]
    BY DEF SetToSeqs
  <2>3. Len(list) = Cardinality(S)
    BY <2>1, <2>2, <1>5
  <2>4. QED
    BY <2>1, <2>2, <2>3
<1>9. \A w \in S : \E k \in 1 .. n : list[k] = w
  <2>1. list \in Injection(1 .. n, S)
    BY <1>8 DEF Injection, IsInjective
  <2>2. Cardinality(1 .. n) = n
    BY FS_Interval
  <2>3. list \in Surjection(1 .. n, S)
    BY <1>8, <2>1, <2>2, FS_Injection
  <2>4. QED
    BY <2>3 DEF Surjection
<1>10. PICK t : t = handler[h].todo
  OBVIOUS
<1>11. t \in Seq(CallType) /\ t # << >>
  BY <1>10, TodoTyped
<1>12. PICK s : s = Tail(t)
  OBVIOUS
<1>13. s \in Seq(CallType) /\ \A i \in DOMAIN s : i + 1 \in DOMAIN t /\ s[i] = t[i + 1]
  BY <1>11, <1>12, TailFacts
<1>14. ASSUME NEW j \in 1 .. Len(names)
       PROVE  /\ do = "unblock" => names[j] = "Unblock"
              /\ do = "disconnect" => names[j] = "Block"
              /\ do = "remove" => names[j] \in {"Block", "RevokeWorker"}
  <2>1. CASE do = "unblock" \/ do = "disconnect"
    <3>1. Len(names) = 1
      BY <1>3, <2>1
    <3>2. j = 1
      BY <3>1
    <3>3. QED
      BY <1>3, <2>1, <3>2
  <2>2. CASE do = "remove"
    <3>1. Len(names) = 2
      BY <1>3, <2>2
    <3>2. j = 1 \/ j = 2
      BY <3>1
    <3>3. QED
      BY <1>3, <2>2, <3>2
  <2>3. QED
    BY <1>2, <2>1, <2>2
<1>15. f \in Seq(CallType)
  <2>1. \A j \in 1 .. Len(names) : names[j] \notin {"Create", "Open"}
    BY <1>2, <1>14
  <2>2. QED
    BY <1>4, <1>5, <1>6, <2>1, LoopTyped
<1>16. /\ DOMAIN (f \o s) = 1 .. (Len(f) + Len(s)) /\ Len(f) \in Nat /\ Len(s) \in Nat
       /\ \A i \in 1 .. Len(f) : (f \o s)[i] = f[i]
       /\ \A i \in 1 .. Len(s) : (f \o s)[Len(f) + i] = s[i]
  BY <1>13, <1>15, JoinFacts
<1>17. PICK q : q = f \o s /\ handler'[h].todo = q
  BY <1>1, <1>6, <1>10, <1>12
<1>18. ASSUME NEW i \in DOMAIN q, ~ \E j \in DOMAIN t : q[i] = t[j]
       PROVE  \E j \in 1 .. Len(names), w \in S : q[i] = << names[j], w >>
  <2>1. CASE i \in 1 .. Len(f)
    <3>1. PICK j \in 1 .. Len(names), k \in 1 .. Len(list) : f[i] = << names[j], list[k] >>
      BY <1>7, <2>1
    <3>2. list[k] \in S
      BY <1>8
    <3>3. QED
      BY <1>16, <1>17, <2>1, <3>1, <3>2
  <2>2. CASE i \notin 1 .. Len(f)
    <3>1. i - Len(f) \in 1 .. Len(s) /\ Len(f) + (i - Len(f)) = i
      BY <1>16, <1>17, <2>2
    <3>2. q[i] = s[i - Len(f)] /\ i - Len(f) \in DOMAIN s
      BY <1>13, <1>16, <1>17, <3>1
    <3>3. QED
      BY <1>13, <1>18, <3>2
  <2>3. QED
    BY <2>1, <2>2
<1>19. ASSUME do = "disconnect", NEW w \in S
       PROVE  Has(handler'[h], << "Block", w >>)
  <2>1. PICK k \in 1 .. n : list[k] = w
    BY <1>9
  <2>2. Len(names) = 1 /\ names[1] = "Block"
    BY <1>3, <1>19
  <2>3. f[k] = << "Block", w >> /\ k \in 1 .. Len(f)
    BY <1>7, <1>8, <2>1, <2>2
  <2>4. q[k] = << "Block", w >> /\ k \in DOMAIN q
    BY <1>16, <1>17, <2>3
  <2>5. QED
    BY <1>17, <2>4 DEF Has
<1>20. ASSUME NEW call, Has(handler'[h], call), ~ Has(handler[h], call)
       PROVE  \E w \in S : /\ do = "unblock" => call = << "Unblock", w >>
                           /\ do = "disconnect" => call = << "Block", w >>
                           /\ do = "remove" => call \in {<< "Block", w >>, << "RevokeWorker", w >>}
  <2>1. PICK i \in DOMAIN q : q[i] = call
    BY <1>17, <1>20 DEF Has
  <2>2. ~ \E j \in DOMAIN t : q[i] = t[j]
    BY <1>10, <1>20, <2>1 DEF Has
  <2>3. PICK j \in 1 .. Len(names), w \in S : q[i] = << names[j], w >>
    BY <1>18, <2>2
  <2>4. QED
    BY <1>14, <2>1, <2>3
<1>21. QED
  BY <1>19, <1>20

LEMMA EnablingContinues ==
  ASSUME AccessInv, CallsInv, [AccessNext]_accessVars
  PROVE  \A h \in Handler : Enabling(handler[h])'
<1>0. OneChange /\ OrdersOK /\ TablesKnow /\ FleetMoves
  BY FleetContinues DEF CallsInv
<1>1. ASSUME NEW h \in Handler, Serves(h), Has(handler'[h], << "OwnedWorkers", "unblock" >>)
      PROVE  handler'[h].todo[1] = << "SetStatus", "active" >> \/ users'[handler'[h].user] = "active"
  <2>1. << "OwnedWorkers", "unblock" >>[1] = "OwnedWorkers"
    OBVIOUS
  <2>2. ASSUME Has(handler[h], << "OwnedWorkers", "unblock" >>)
        PROVE  /\ Changes(handler[h])
               /\ handler[h].todo[1] = << "SetStatus", "active" >> \/ users[handler[h].user] = "active"
    BY <2>1, <2>2 DEF CallsInv, Enabling, Changes, Changing, Has
  <2>3. CASE Stays(h)
    BY <1>1, <2>2, <2>3, ActiveStays DEF Stays
  <2>4. CASE Goes(h)
    <3>1. Has(handler[h], << "OwnedWorkers", "unblock" >>) /\ handler'[h].user = handler[h].user
      BY <1>0, <1>1, <2>1, <2>4, GoesHas, GoesUser DEF LoopNames, LoggingIn
    <3>2. CASE handler[h].todo[1][1] # "SetStatus"
      <4>1. handler[h].todo[1] # << "SetStatus", "active" >>
        BY <3>2
      <4>2. QED
        BY <2>2, <3>1, <3>2, <4>1, ActiveStays
    <3>3. CASE handler[h].todo[1][1] = "SetStatus"
      <4>1. handler[h].todo[1][2] = "active"
        BY <1>0, <3>1, <3>3 DEF OrdersOK, OrderOK, Has
      <4>2. Took(h)
        <5>1. ASSUME ReadOwner(h) PROVE handler[h].todo[1][1] = "GetOwner"
          BY <5>1 DEF ReadOwner
        <5>2. ASSUME Listed(h) PROVE handler[h].todo[1][1] = "OwnedWorkers"
          BY <5>2 DEF Listed
        <5>3. QED
          BY <2>4, <3>3, <5>1, <5>2 DEF Goes
      <4>3. users' = [users EXCEPT ![handler[h].user] = "active"]
        BY <3>3, <4>1, <4>2 DEF Took
      <4>4. handler[h].user \in User
        BY <1>0, <2>2, <3>1, TodoTyped DEF OrdersOK, OrderOK, RequestType
      <4>5. users \in [User -> Status]
        BY DEF AccessInv, AccountInv, AccountsOK
      <4>6. QED
        BY <3>1, <4>3, <4>4, <4>5
    <3>4. QED
      BY <3>2, <3>3
  <2>5. CASE Dropped(h)
    BY <1>1, <2>5, IdleHas DEF Dropped
  <2>6. CASE Begun(h)
    <3>1. ~ Only(handler'[h], Harmless)
      BY <1>1, <2>1, OnlyHas DEF Harmless
    <3>2. ~ IsForWorker(handler'[h])
      BY <1>1, <2>1, OnlyHas DEF IsForWorker, Knowing
    <3>3. QED
      BY <1>0, <1>1, <2>6, <3>1, <3>2, BegunKinds DEF ChangesAccount
  <2>7. QED
    BY <1>1, <2>3, <2>4, <2>5, <2>6 DEF Serves, Goes
<1>2. ASSUME NEW h \in Handler, Serves(h), NEW w, Has(handler'[h], << "Unblock", w >>)
      PROVE  /\ users'[handler'[h].user] = "active" /\ handler'[h].todo[1][1] # "SetStatus"
             /\ Known(w)' /\ workers'[w].owner = handler'[h].user
  <2>1. << "Unblock", w >>[1] = "Unblock" /\ << "Unblock", w >>[2] = w
    OBVIOUS
  <2>2. ASSUME Known(w), workers[w].owner = handler[h].user
        PROVE  Known(w)' /\ workers'[w].owner = handler[h].user
    BY <1>0, <2>2 DEF FleetMoves, Known
  <2>3. ASSUME Has(handler[h], << "Unblock", w >>)
        PROVE  /\ Changes(handler[h]) /\ users[handler[h].user] = "active"
               /\ handler[h].todo[1][1] # "SetStatus"
               /\ Known(w) /\ workers[w].owner = handler[h].user
    <3>1. Changes(handler[h])
      BY <2>1, <2>3 DEF Changes, Changing, Has
    <3>2. QED
      BY <2>3, <3>1 DEF CallsInv, Enabling
  <2>4. CASE Stays(h)
    <3>1. Has(handler[h], << "Unblock", w >>)
      BY <1>2, <2>4 DEF Stays
    <3>2. users'[handler[h].user] = "active"
      BY <2>3, <2>4, <3>1, ActiveStays
    <3>3. QED
      BY <2>2, <2>3, <2>4, <3>1, <3>2 DEF Stays
  <2>5. CASE Goes(h)
    <3>1. handler'[h].user = handler[h].user
      BY <1>0, <1>2, <2>1, <2>5, GoesUser DEF LoggingIn
    <3>2. handler'[h].todo[1][1] # "SetStatus"
      <4>1. PICK k \in Nat : Follows(handler'[h], handler[h], k)
        BY <2>5, GoesFollows
      <4>2. OrderOK(handler[h])
        BY <1>0 DEF OrdersOK
      <4>3. handler'[h].todo # << >> /\ 1 \in DOMAIN handler'[h].todo
        BY <1>2, <4>1 DEF Has, Follows
      <4>4. \A i \in DOMAIN handler'[h].todo : handler'[h].todo[i][1] \notin {"ListSessions", "SetStatus", "GetOwner"}
        BY <3>1, <4>1, <4>2, FollowsOrder
      <4>5. QED
        BY <4>3, <4>4
    <3>3. CASE Has(handler[h], << "Unblock", w >>)
      <4>1. users'[handler[h].user] = "active"
        BY <2>3, <3>3, ActiveStays
      <4>2. QED
        BY <2>2, <2>3, <3>1, <3>2, <3>3, <4>1
    <3>4. CASE Listed(h) /\ ~ Has(handler[h], << "Unblock", w >>)
      <4>1. PICK do \in DOMAIN WorkerCalls, list \in SetToSeqs({v \in Worker : binding[v] = handler[h].user}) :
              /\ handler[h].todo[1] = << "OwnedWorkers", do >>
              /\ handler'[h].todo = ForEach(list, WorkerCalls[do]) \o Tail(handler[h].todo)
        BY <3>4 DEF Listed
      <4>2. do = "unblock" /\ w \in {v \in Worker : binding[v] = handler[h].user}
        <5>1. handler[h].todo # << >>
          BY <3>4 DEF Listed
        <5>2. PICK v \in {u \in Worker : binding[u] = handler[h].user} :
                /\ do = "unblock" => << "Unblock", w >> = << "Unblock", v >>
                /\ do = "disconnect" => << "Unblock", w >> = << "Block", v >>
                /\ do = "remove" => << "Unblock", w >> \in {<< "Block", v >>, << "RevokeWorker", v >>}
          BY <1>2, <3>4, <4>1, <5>1, LoopHas
        <5>3. do \in {"disconnect", "unblock", "remove"}
          BY DEF WorkerCalls
        <5>4. QED
          BY <5>2, <5>3
      <4>3. Has(handler[h], << "OwnedWorkers", "unblock" >>)
        BY <2>5, <4>1, <4>2, GoesHas DEF Has
      <4>4. Changes(handler[h]) /\ users[handler[h].user] = "active" /\ handler[h].todo[1][1] = "OwnedWorkers"
        BY <4>1, <4>3 DEF Has, Changes, Changing, CallsInv, Enabling
      <4>5. handler[h].user # NoUser
        BY <1>0, <4>4 DEF OrdersOK, OrderOK
      <4>6. Known(w) /\ workers[w].owner = handler[h].user
        BY <4>2, <4>5 DEF AccessInv, FleetInv, BindingsAgree, Known
      <4>7. users'[handler[h].user] = "active"
        BY <4>4, ActiveStays
      <4>8. QED
        BY <2>2, <3>1, <3>2, <4>6, <4>7
    <3>5. QED
      BY <1>2, <2>5, <3>3, <3>4, GoesHas
  <2>6. CASE Dropped(h)
    BY <1>2, <2>6, IdleHas DEF Dropped
  <2>7. CASE Begun(h)
    <3>1. ~ Only(handler'[h], Harmless) /\ ~ ChangesAccount(handler'[h])
      BY <1>2, <2>1, OnlyHas DEF Harmless, ChangesAccount
    <3>2. ~ IsForWorker(handler'[h])
      BY <1>2, <2>1, OnlyHas DEF IsForWorker, Knowing
    <3>3. QED
      BY <1>0, <2>7, <3>1, <3>2, BegunKinds
  <2>8. QED
    BY <1>2, <2>4, <2>5, <2>6, <2>7 DEF Serves, Goes
<1>3. ASSUME Restart, NEW h \in Handler PROVE Enabling(handler[h])'
  BY <1>3, IdleHas DEF Restart, Enabling, Has
<1>4. ASSUME NEW h \in Handler, Serves(h) PROVE Enabling(handler[h])'
  BY <1>1, <1>2, <1>4 DEF Enabling, Has
<1>5. QED
  BY <1>3, <1>4, OneServes DEF Serves

LEMMA CallsContinue ==
  ASSUME AccessInv, CallsInv, [AccessNext]_accessVars, ~ AdminsOverlap
  PROVE  CallsInv'
<1>1. OrdersOK'
  BY OrdersContinue DEF CallsInv
<1>2. TablesKnow' /\ \A h \in Handler : Knows(handler[h])'
  BY KnowingContinues
<1>3. \A h \in Handler : LoopOnce(handler[h])' /\ LoginOnce(handler[h])'
  <2>1. \A h \in Handler : LoopOnce(handler'[h]) /\ LoginOnce(handler'[h])
    BY OnceContinues
  <2>2. QED
    BY <2>1 DEF LoopOnce, LoginOnce, Has
<1>4. OneChange'
  BY OneChangeContinues
<1>5. \A h \in Handler : OwnerRead(handler[h])' /\ Enabling(handler[h])'
  BY OwnersContinue, EnablingContinues
<1>6. QED
  BY <1>1, <1>2, <1>3, <1>4, <1>5 DEF CallsInv

-----------------------------------------------------------------------------
(* A disabled account's Workers are shut out.  Each of them that could     *)
(* still come to claim is blocked already, or will be by the request that  *)
(* disabled the account.                                                   *)

\* It holds a session, is about to be given one, or is claiming.
Admitted(w) ==
  \/ \E t \in Bearer : bearers[t].worker = w
  \/ \E h \in Handler :
       \/ Has(handler[h], << "GetActiveWorker", w >>) \/ Has(handler[h], << "ClaimOrWait", w >>)
       \/ /\ Has(handler[h], << "CreateBearer", w >>)
          /\ \A i \in DOMAIN handler[h].todo : handler[h].todo[i][1] # "GetUser"

WillBlock(r, w) ==
  /\ Only(r, Disabling)
  /\ r.user = workers[w].owner
  /\ Has(r, << "OwnedWorkers", "disconnect" >>) \/ Has(r, << "Block", w >>)

OfDisabled(w) ==
  workers[w].state = "active" /\ workers[w].owner # NoUser /\ users[workers[w].owner] = "disabled"

Shut ==
  \A w \in Worker :
    OfDisabled(w) /\ Admitted(w) => w \in blocked \/ \E h \in Handler : WillBlock(handler[h], w)

\* A Worker that may come to claim after the step existed before it.
LEMMA AdmittedKnown ==
  ASSUME AccessInv, CallsInv, [AccessNext]_accessVars, NEW w \in Worker, Admitted(w)'
  PROVE  Known(w)
<1>1. \A name \in Knowing, h \in Handler : Has(handler'[h], << name, w >>) => Known(w)
  <2>1. SUFFICES ASSUME NEW name \in Knowing, NEW h \in Handler, Has(handler'[h], << name, w >>)
                 PROVE  Known(w)
    OBVIOUS
  <2>2. << name, w >>[1] \in Knowing /\ << name, w >>[2] = w
    OBVIOUS
  <2>3. QED
    BY <2>1, <2>2, CallsForKnown
<1>2. ASSUME NEW t \in Bearer, bearers'[t].worker = w
      PROVE  Known(w)
  <2>1. bearers'[t] # NoBearer
    BY <1>2, AccessAssumption DEF NoBearer
  <2>2. CASE Restart
    BY <2>1, <2>2 DEF Restart
  <2>3. CASE bearers'[t] = bearers[t]
    BY <1>2, <2>1, <2>3 DEF CallsInv, TablesKnow
  <2>4. CASE Makes("CreateBearer", w)
    <3>1. PICK h \in Handler : Took(h) /\ handler[h].todo[1] = << "CreateBearer", w >>
      BY <2>4 DEF Makes
    <3>2. Has(handler[h], << "CreateBearer", w >>)
      BY <3>1, GoesHas DEF Goes, Has
    <3>3. << "CreateBearer", w >>[1] \in Knowing /\ << "CreateBearer", w >>[2] = w
      BY DEF Knowing
    <3>4. QED
      BY <3>2, <3>3 DEF CallsInv, Knows
  <2>5. QED
    BY <1>2, <2>1, <2>2, <2>3, <2>4, TablesContinue DEF TablesMove
<1>3. QED
  BY <1>1, <1>2 DEF Admitted, Has, Knowing

\* It could come to claim before, unless its owner's account has been found active.
LEMMA AdmittedBefore ==
  ASSUME AccessInv, CallsInv, [AccessNext]_accessVars, NEW w \in Worker, Admitted(w)', ~ Restart,
         users[workers[w].owner] # "active"
  PROVE  Admitted(w)
<1>0. OrdersOK /\ TablesKnow
  BY DEF CallsInv
<1>1. ASSUME NEW t \in Bearer, bearers'[t].worker = w
      PROVE  Admitted(w)
  <2>1. bearers'[t] # NoBearer
    BY <1>1, AccessAssumption DEF NoBearer
  <2>2. CASE bearers'[t] = bearers[t]
    BY <1>1, <2>2 DEF Admitted
  <2>3. CASE Makes("CreateBearer", w)
    <3>1. PICK h \in Handler : Took(h) /\ handler[h].todo[1] = << "CreateBearer", w >>
      BY <2>3 DEF Makes
    <3>2. 1 \in DOMAIN handler[h].todo /\ handler[h].todo[1][1] = "CreateBearer"
      BY <3>1, GoesHas DEF Goes
    <3>3. Len(handler[h].todo) = 1 /\ DOMAIN handler[h].todo = 1 .. Len(handler[h].todo)
      BY <1>0, <3>2, TodoTyped DEF OrdersOK, OrderOK
    <3>4. \A i \in DOMAIN handler[h].todo : i = 1
      BY <3>3
    <3>5. \A i \in DOMAIN handler[h].todo : handler[h].todo[i][1] # "GetUser"
      BY <3>2, <3>4
    <3>6. Has(handler[h], << "CreateBearer", w >>)
      BY <3>1, <3>2 DEF Has
    <3>7. QED
      BY <3>5, <3>6 DEF Admitted
  <2>4. QED
    BY <1>1, <2>1, <2>2, <2>3, TablesContinue DEF TablesMove
<1>2. ASSUME NEW h \in Handler, Serves(h), NEW name \in {"GetActiveWorker", "ClaimOrWait"},
             Has(handler'[h], << name, w >>)
      PROVE  Admitted(w)
  <2>1. << name, w >>[1] = name /\ << name, w >>[2] = w
    OBVIOUS
  <2>2. CASE Has(handler[h], << name, w >>)
    BY <2>2 DEF Admitted
  <2>3. CASE Stays(h)
    BY <1>2, <2>2, <2>3 DEF Stays
  <2>4. CASE Goes(h)
    BY <1>2, <2>1, <2>2, <2>4, GoesHas DEF LoopNames
  <2>5. CASE Dropped(h)
    BY <1>2, <2>5, IdleHas DEF Dropped
  <2>6. CASE Begun(h)
    <3>1. ~ Only(handler'[h], Harmless) /\ ~ ChangesAccount(handler'[h])
      BY <1>2, <2>1, OnlyHas DEF Harmless, ChangesAccount
    <3>2. IsForWorker(handler'[h])
      BY <1>0, <2>6, <3>1, BegunKinds
    <3>3. \E t \in Bearer : bearers[t].worker = w
      BY <1>2, <2>1, <3>2 DEF IsForWorker
    <3>4. QED
      BY <3>3 DEF Admitted
  <2>7. QED
    BY <1>2, <2>3, <2>4, <2>5, <2>6 DEF Serves, Goes
<1>3. ASSUME NEW h \in Handler, Serves(h), Has(handler'[h], << "CreateBearer", w >>),
             \A i \in DOMAIN handler'[h].todo : handler'[h].todo[i][1] # "GetUser"
      PROVE  Admitted(w)
  <2>1. << "CreateBearer", w >>[1] = "CreateBearer" /\ << "CreateBearer", w >>[2] = w
    OBVIOUS
  <2>2. \A v : << "GetUser", v >>[1] = "GetUser" /\ << "GetUser", v >>[2] = v
    OBVIOUS
  <2>3. \A v : ~ Has(handler'[h], << "GetUser", v >>)
    BY <1>3, <2>2 DEF Has
  <2>4. CASE Stays(h)
    BY <1>3, <2>4 DEF Stays, Admitted
  <2>5. CASE Goes(h)
    <3>1. Has(handler[h], << "CreateBearer", w >>)
      BY <1>3, <2>1, <2>5, GoesHas DEF LoopNames
    <3>2. ASSUME NEW i \in DOMAIN handler[h].todo, handler[h].todo[i][1] = "GetUser"
          PROVE  FALSE
      <4>1. PICK v : v = handler[h].todo[i][2]
        OBVIOUS
      <4>2. handler[h].todo[i] = << "GetUser", v >>
        <5>1. handler[h].todo[i] \in CallType
          BY <3>2, TodoTyped
        <5>2. QED
          BY <3>2, <4>1, <5>1 DEF CallType
      <4>3. Has(handler[h], << "GetUser", v >>)
        BY <4>2 DEF Has
      <4>4. handler[h].todo[1] = << "GetUser", v >>
        BY <2>3, <2>5, <4>3, GoesHas
      <4>5. handler[h].todo[1][1] = "GetUser"
        BY <4>4
      <4>6. v = w
        BY <2>1, <2>2, <3>1, <4>3 DEF CallsInv, LoginOnce, LoggingIn
      <4>7. Took(h)
        <5>1. ASSUME ReadOwner(h) PROVE handler[h].todo[1][1] = "GetOwner"
          BY <5>1 DEF ReadOwner
        <5>2. ASSUME Listed(h) PROVE handler[h].todo[1][1] = "OwnedWorkers"
          BY <5>2 DEF Listed
        <5>3. QED
          BY <2>5, <4>5, <5>1, <5>2 DEF Goes
      <4>8. users[handler[h].user] = "active"
        BY <4>5, <4>7 DEF Took
      <4>9. workers[w].owner = handler[h].user
        BY <4>3, <4>5, <4>6 DEF CallsInv, OwnerRead
      <4>10. QED
        BY <4>8, <4>9
    <3>3. QED
      BY <3>1, <3>2 DEF Admitted
  <2>6. CASE Dropped(h)
    BY <1>3, <2>6, IdleHas DEF Dropped
  <2>7. CASE Begun(h)
    <3>1. ~ Only(handler'[h], Harmless) /\ ~ ChangesAccount(handler'[h])
      BY <1>3, <2>1, OnlyHas DEF Harmless, ChangesAccount
    <3>2. IsForWorker(handler'[h])
      BY <1>0, <2>7, <3>1, BegunKinds
    <3>3. QED
      BY <1>3, <2>1, <2>3, <3>2 DEF IsForWorker
  <2>8. QED
    BY <1>3, <2>4, <2>5, <2>6, <2>7 DEF Serves, Goes
<1>4. \A h \in Handler : Serves(h)
  BY OneServes DEF Serves
<1>5. QED
  BY <1>1, <1>2, <1>3, <1>4 DEF Admitted, Has

\* The request that is going to block the Worker goes on to do so.
LEMMA BlockingGoesOn ==
  ASSUME AccessInv, CallsInv, [AccessNext]_accessVars, NEW w \in Worker, NEW h \in Handler, Serves(h),
         OfDisabled(w), WillBlock(handler[h], w), workers'[w].owner = workers[w].owner
  PROVE  w \in blocked' \/ WillBlock(handler[h], w)'
<1> DEFINE D == << "OwnedWorkers", "disconnect" >>
           B == << "Block", w >>
<1>0. LoopOnce(handler[h]) /\ Enabling(handler[h]) /\ OrdersOK
  BY DEF CallsInv
<1>1. /\ Only(handler[h], Disabling) /\ handler[h].user = workers[w].owner
      /\ Has(handler[h], D) \/ Has(handler[h], B)
  BY DEF WillBlock
<1>2. D[1] = "OwnedWorkers" /\ D[2] = "disconnect" /\ B[1] = "Block" /\ B[2] = w
  OBVIOUS
<1> HIDE DEF D, B
<1>3. SUFFICES \/ w \in blocked'
               \/ /\ Only(handler'[h], Disabling) /\ handler'[h].user = workers'[w].owner
                  /\ Has(handler'[h], D) \/ Has(handler'[h], B)
  BY DEF WillBlock, Only, Has, D, B
<1>4. CASE Stays(h)
  BY <1>1, <1>4 DEF Stays
<1>5. ASSUME Goes(h) \/ Dropped(h) PROVE handler[h].todo[1][1] \in Disabling
  <2>1. 1 \in DOMAIN handler[h].todo
    BY <1>5, TodoTyped DEF Goes, Took, ReadOwner, Listed, Dropped
  <2>2. QED
    BY <1>1, <2>1 DEF Only
<1>6. ~ Dropped(h) /\ ~ ReadOwner(h)
  <2>1. ASSUME ReadOwner(h) PROVE handler[h].todo[1][1] = "GetOwner"
    BY <2>1 DEF ReadOwner
  <2>2. QED
    BY <1>5, <2>1 DEF Dropped, Goes, Disabling
<1>7. CASE Took(h)
  <2>1. ASSUME NEW call, Has(handler[h], call), handler[h].todo[1] # call PROVE Has(handler'[h], call)
    BY <1>7, <2>1, GoesHas DEF Goes
  <2>2. \A call : Has(handler'[h], call) => Has(handler[h], call)
    BY <1>7, TookFollows, FollowsHas
  <2>3. Only(handler'[h], Disabling)
    BY <1>1, <2>2, OnlyHas DEF Only, Has
  <2>4. CASE handler[h].todo[1] = B
    BY <1>2, <1>7, <2>4 DEF Took
  <2>5. CASE handler[h].todo[1] # B
    <3>1. handler[h].todo[1] # D
      BY <1>2, <1>7 DEF Took
    <3>2. Has(handler'[h], D) \/ Has(handler'[h], B)
      BY <1>1, <2>1, <2>5, <3>1
    <3>3. handler'[h].todo # << >>
      BY <3>2 DEF Has
    <3>4. handler'[h].user = handler[h].user
      BY <1>7, <3>3 DEF Took
    <3>5. QED
      BY <1>1, <2>3, <3>2, <3>4
  <2>6. QED
    BY <2>4, <2>5
<1>8. CASE Listed(h)
  <2>1. PICK do \in DOMAIN WorkerCalls, list \in SetToSeqs({v \in Worker : binding[v] = handler[h].user}) :
          /\ handler[h].todo[1] = << "OwnedWorkers", do >>
          /\ handler'[h].todo = ForEach(list, WorkerCalls[do]) \o Tail(handler[h].todo)
    BY <1>8 DEF Listed
  <2>2. handler[h].todo[1][1] = "OwnedWorkers" /\ handler[h].todo[1][2] = do
    BY <2>1
  <2>3. handler[h].todo # << >> /\ 1 \in DOMAIN handler[h].todo
    BY <1>8, GoesHas DEF Goes
  <2>4. \A call : Has(handler[h], call) /\ call[1] \in LoopNames \cup {"OwnedWorkers"} => call = handler[h].todo[1]
    BY <1>0, <2>2, <2>3 DEF LoopOnce, Has
  <2>5. ~ Has(handler[h], B)
    BY <1>2, <2>2, <2>4 DEF LoopNames
  <2>6. handler[h].todo[1] = D
    BY <1>1, <1>2, <2>4, <2>5
  <2>7. do = "disconnect"
    BY <1>2, <2>2, <2>6
  <2>8. /\ \A call : Has(handler'[h], call) =>
              \/ Has(handler[h], call)
              \/ \E v \in {v \in Worker : binding[v] = handler[h].user} : call = << "Block", v >>
        /\ \A v \in {v \in Worker : binding[v] = handler[h].user} : Has(handler'[h], << "Block", v >>)
    BY <2>1, <2>3, <2>7, LoopHas
  <2>9. binding[w] = handler[h].user
    BY <1>1 DEF OfDisabled, AccessInv, FleetInv, BindingsAgree
  <2>10. Has(handler'[h], B)
    BY <2>8, <2>9 DEF B
  <2>11. \A call : Has(handler'[h], call) => call[1] \in Disabling
    BY <1>1, <2>8, OnlyHas DEF Disabling
  <2>12. Only(handler'[h], Disabling)
    BY <2>11 DEF Only, Has
  <2>13. handler'[h].user = handler[h].user
    BY <1>8 DEF Listed
  <2>14. QED
    BY <1>1, <2>10, <2>12, <2>13
<1>9. CASE Begun(h)
  BY <1>1, <1>9, IdleHas DEF Begun
<1>10. QED
  BY <1>4, <1>6, <1>7, <1>8, <1>9 DEF Serves

LEMMA ShutContinues ==
  ASSUME AccessInv, CallsInv, Shut, [AccessNext]_accessVars
  PROVE  Shut'
<1>1. SUFFICES ASSUME NEW w \in Worker, OfDisabled(w)', Admitted(w)'
               PROVE  w \in blocked' \/ \E h \in Handler : WillBlock(handler[h], w)'
  BY DEF Shut
<1>2. Known(w)
  BY <1>1, AdmittedKnown
<1>3. workers'[w].owner = workers[w].owner /\ workers[w].state = "active"
  BY <1>1, <1>2, FleetContinues DEF FleetMoves, OfDisabled
<1>4. workers[w].owner \in User /\ users'[workers[w].owner] = "disabled"
  BY <1>1, <1>3 DEF OfDisabled, AccessInv, FleetInv, FleetOK, Row
<1>5. CASE users[workers[w].owner] # "disabled"
  <2>1. PICK u \in User : u = workers[w].owner
    BY <1>4
  <2>2. PICK h \in Handler : Took(h) /\ handler[h].user = u /\ handler[h].todo[1] = << "SetStatus", "disabled" >>
    BY <1>4, <1>5, <2>1, UsersContinue DEF UsersMove
  <2>3. 1 \in DOMAIN handler[h].todo
    BY <2>2, GoesHas DEF Goes
  <2>4. Has(handler[h], << "OwnedWorkers", "disconnect" >>) /\ Only(handler[h], Disabling)
    BY <2>2, <2>3 DEF CallsInv, OrdersOK, OrderOK
  <2>5. << "OwnedWorkers", "disconnect" >> # << "SetStatus", "disabled" >>
    OBVIOUS
  <2>6. Has(handler'[h], << "OwnedWorkers", "disconnect" >>)
    BY <2>2, <2>4, <2>5, GoesHas DEF Goes
  <2>7. Only(handler'[h], Disabling)
    <3>1. \A call : Has(handler'[h], call) => Has(handler[h], call)
      BY <2>2, TookFollows, FollowsHas
    <3>2. QED
      BY <2>4, <3>1, OnlyHas DEF Only, Has
  <2>8. handler'[h].user = workers'[w].owner
    BY <1>3, <2>1, <2>2, <2>6 DEF Took, Has
  <2>9. QED
    BY <2>6, <2>7, <2>8 DEF WillBlock, Only, Has
<1>6. CASE users[workers[w].owner] = "disabled"
  <2>1. ~ Restart
    <3>1. SUFFICES ASSUME Restart PROVE FALSE
      OBVIOUS
    <3>2. \A h \in Handler : handler'[h] = Idle
      BY <3>1 DEF Restart
    <3>3. \A t \in Bearer : bearers'[t].worker # w
      BY <3>1, AccessAssumption DEF Restart, NoBearer
    <3>4. QED
      BY <1>1, <3>2, <3>3, IdleCalls DEF Admitted, Has
  <2>2. OfDisabled(w) /\ Admitted(w)
    <3>1. workers[w].owner # NoUser
      BY <1>4, AccessAssumption
    <3>2. QED
      BY <1>1, <1>3, <1>6, <2>1, <3>1, AdmittedBefore DEF OfDisabled
  <2>3. CASE w \in blocked
    <3>1. ASSUME Makes("Unblock", w) PROVE FALSE
      <4>1. PICK h \in Handler : Took(h) /\ handler[h].todo[1] = << "Unblock", w >>
        BY <3>1 DEF Makes
      <4>2. Has(handler[h], << "Unblock", w >>)
        BY <4>1, GoesHas DEF Goes, Has
      <4>3. users[workers[w].owner] = "active"
        BY <4>2 DEF CallsInv, Enabling
      <4>4. QED
        BY <1>6, <4>3
    <3>2. QED
      BY <2>1, <2>3, <3>1, TablesContinue DEF TablesMove
  <2>4. ASSUME NEW h \in Handler, WillBlock(handler[h], w)
        PROVE  w \in blocked' \/ \E g \in Handler : WillBlock(handler[g], w)'
    <3>1. Serves(h)
      BY <2>1, OneServes DEF Serves
    <3>2. QED
      BY <1>3, <2>2, <2>4, <3>1, BlockingGoesOn
  <2>5. QED
    BY <2>2, <2>3, <2>4 DEF Shut
<1>7. QED
  BY <1>5, <1>6

-----------------------------------------------------------------------------
(* The theorems. *)

LEMMA AccessStarts == AccessInit => AccessInv
<1> SUFFICES ASSUME AccessInit PROVE AccessInv
  OBVIOUS
<1>1. /\ handler = [h \in Handler |-> Idle] /\ Idle.new = NoCredential /\ Idle.user = NoUser /\ ~ Opens(Idle)
  BY DEF AccessInit, Idle, Opens
<1>2. RequestsOK /\ NamesAreFree /\ UsersAreKnown
  BY <1>1, IdlePlain DEF RequestsOK, NamesAreFree, UsersAreKnown
<1>3. PICK before \in Registered :
        /\ users = [u \in User |-> IF u \in before THEN "active" ELSE "absent"]
        /\ opened = [u \in User |-> IF u \in before THEN "admin" ELSE "nobody"]
  BY DEF AccessInit
<1>4. AccountsOK /\ FirstUserOnce
  BY <1>3, AccessAssumption DEF AccountsOK, FirstUserOnce, Status
<1>5. CredentialsOK /\ InvitationsSingleUse
  <2>1. /\ credentials \in [Credential -> Issued]
        /\ \A c \in Credential : credentials[c].kind = "none" /\ credentials[c].user = NoUser
    BY DEF AccessInit, Issue, Issued
  <2> QED
    BY <2>1 DEF CredentialsOK, InvitationsSingleUse
<1>6. FleetInv
  <2>1. /\ workers \in [Worker -> Row] /\ binding \in [Worker -> User \cup {NoUser}]
        /\ \A w \in Worker : /\ workers[w].state = "absent" /\ workers[w].owner = NoUser
                             /\ workers[w].token = NoCredential /\ binding[w] = NoUser
        /\ \A c \in Credential : credentials[c].kind = "none"
    BY DEF AccessInit, Row, Issue
  <2> QED
    BY <2>1 DEF FleetInv, FleetOK, OneWorkerPerKey, UsesAreCounted, BindingsAgree
<1>7. MemoryOK
  BY DEF AccessInit, MemoryOK, NoBearer
<1> QED
  BY <1>2, <1>4, <1>5, <1>6, <1>7 DEF AccessInv, AccountInv

LEMMA AccessContinues == AccessInv /\ [AccessNext]_accessVars => AccessInv'
<1> SUFFICES ASSUME AccessInv, [AccessNext]_accessVars PROVE AccessInv'
  OBVIOUS
<1>1. ASSUME NEW h \in Handler, AccountStep(h) PROVE AccessInv'
  <2>1. CASE \E kind \in {"token", "invitation", "registration"} : AskFor(h, kind)
    BY <2>1, AskForKeeps
  <2>2. CASE \E kind \in Kind : Create(h, kind) \/ RevokeAll(h, kind)
    BY <2>2, CreateKeeps, RevokeAllKeeps
  <2>3. CASE \E status \in {"active", "disabled", "deleted"} : SetStatus(h, status)
    BY <2>3, SetStatusKeeps
  <2>4. CASE Register(h) \/ OpenFirst(h) \/ OpenInvited(h) \/ Login(h)
    BY <2>4, RegisterKeeps, OpenFirstKeeps, OpenInvitedKeeps, LoginKeeps
  <2>5. CASE ChangePassword(h) \/ ListSessions(h) \/ RevokeListed(h) \/ PatchUser(h) \/ DeleteUser(h)
    BY <2>5, ChangePasswordKeeps, ListSessionsKeeps, RevokeListedKeeps, PatchUserKeeps, DeleteUserKeeps
  <2>6. CASE RevokeUser(h) \/ OwnedWorkers(h) \/ Answered(h)
    BY <2>6, RevokeUserKeeps, OwnedWorkersKeeps, AnsweredKeeps
  <2> QED
    BY <1>1, <2>1, <2>2, <2>3, <2>4, <2>5, <2>6 DEF AccountStep
<1>2. ASSUME NEW h \in Handler, WorkerStep(h) PROVE AccessInv'
  <2>1. CASE \E c \in Credential, k \in Key, w \in Worker : RegisterWorker(h, c, k, w)
    BY <2>1, RegisterWorkerKeeps
  <2>2. CASE \E n \in Nonce : AuthSession(h, n)
    BY <2>2, AuthSessionKeeps
  <2>3. CASE \E t \in Bearer : Claim(h, t)
    BY <2>3, ClaimKeeps
  <2>4. ASSUME NEW w \in Worker,
               \/ DeleteWorker(h, w) \/ RevokeWorker(h, w) \/ AuthChallenge(h, w) \/ GetOwner(h, w)
               \/ RevokeNonces(h, w) \/ RevokeBearers(h, w) \/ Block(h, w) \/ Unblock(h, w)
               \/ CreateNonce(h, w) \/ CreateBearer(h, w)
               \/ GetUser(h, w) \/ GetActiveWorker(h, w) \/ ClaimOrWait(h, w)
        PROVE  AccessInv'
    BY <2>4, DeleteWorkerKeeps, RevokeWorkerKeeps, AuthChallengeKeeps, GetOwnerKeeps, MemoryCallsKeep
  <2> QED
    BY <1>2, <2>1, <2>2, <2>3, <2>4 DEF WorkerStep
<1>3. CASE \E u \in User : AdminCreateUser(u)
  BY <1>3, AdminCreateUserKeeps
<1>4. CASE \E c \in Credential : End(c)
  BY <1>4, EndKeeps
<1>5. CASE (\E n \in Nonce : ExpireNonce(n)) \/ (\E t \in Bearer : ExpireBearer(t))
  BY <1>5, ExpiryKeeps
<1>6. CASE Restart
  BY <1>6, RestartKeeps
<1>7. CASE UNCHANGED accessVars
  <2>1. HandlersCalm
    BY <1>7 DEF accessVars, HandlersCalm, AccessInv, AccountInv, RequestsOK
  <2>2. UNCHANGED accounts /\ UNCHANGED fleet /\ UNCHANGED memory
    BY <1>7 DEF accessVars, accounts, fleet, memory
  <2> QED
    BY <2>1, <2>2, UnchangedCalm, MemoryUnchanged
<1> QED
  BY <1>1, <1>2, <1>3, <1>4, <1>5, <1>6, <1>7 DEF AccessNext

(* The invariant holds of every reachable state, with any number of        *)
(* accounts, Workers and requests at once.                                 *)
THEOREM AccessIsSound == AccessSpec => []AccessInv
<1> QED
  BY AccessStarts, AccessContinues, PTL DEF AccessSpec

(* Every row keeps the shape of its table.                                 *)
THEOREM AccessTypesHold == AccessSpec => []AccessTypeOK
<1>1. AccessInv => AccessTypeOK
  BY DEF AccessInv, AccountInv, FleetInv, RequestsOK, AccountsOK, CredentialsOK, FleetOK, MemoryOK, AccessTypeOK
<1> QED
  BY <1>1, AccessIsSound, PTL

(* However many first registrations are served at once, one account at     *)
(* most is opened without an invitation or an administrator.               *)
THEOREM OneFirstUser == AccessSpec => []FirstUserOnce
<1>1. AccessInv => FirstUserOnce
  BY DEF AccessInv, AccountInv
<1> QED
  BY <1>1, AccessIsSound, PTL

(* However many requests present an invitation, it opens one account at    *)
(* most, and is marked as used if and only if it has.                      *)
THEOREM InvitationsServeOnce == AccessSpec => []InvitationsSingleUse
<1>1. AccessInv => InvitationsSingleUse
  BY DEF AccessInv, AccountInv
<1> QED
  BY <1>1, AccessIsSound, PTL

(* Of the Workers with one public key at most one is active.               *)
THEOREM KeysAreNotShared == AccessSpec => []OneWorkerPerKey
<1>1. AccessInv => OneWorkerPerKey
  BY DEF AccessInv, FleetInv
<1> QED
  BY <1>1, AccessIsSound, PTL

(* The uses of a registration token are the Workers registered with it, at *)
(* most max_uses of them.                                                  *)
THEOREM TokensAreCounted == AccessSpec => []UsesAreCounted
<1>1. AccessInv => UsesAreCounted
  BY DEF AccessInv, FleetInv
<1> QED
  BY <1>1, AccessIsSound, PTL

(* The binding of a Worker is there while the Worker is active, and names  *)
(* its owner.                                                              *)
THEOREM TablesAgree == AccessSpec => []BindingsAgree
<1>1. AccessInv => BindingsAgree
  BY DEF AccessInv, FleetInv
<1> QED
  BY <1>1, AccessIsSound, PTL

(* When a deletion, a disabling or a change of password is answered, all   *)
(* that it found to revoke is over, whatever other requests, restarts and  *)
(* expiry come between its calls (handleDeleteUser, handlePatchUser and    *)
(* handleChangePassword; AccessSpec has any number of requests under way). *)
THEOREM AnsweredIsDone == AccessSpec => []AnswersKeepTheirWord
<1>1. AccessInit => OrdersOK /\ WordsKept
  BY IdleCalls DEF AccessInit, OrdersOK, WordsKept, WordKept
<1>2. AccessInv /\ OrdersOK /\ WordsKept /\ [AccessNext]_accessVars => OrdersOK' /\ WordsKept'
  BY OrdersContinue, WordsContinue
<1>3. AccessInv /\ OrdersOK /\ WordsKept => AnswersKeepTheirWord
  <2>1. SUFFICES ASSUME AccessInv, OrdersOK, WordsKept, NEW h \in Handler, Calls(h, "Answer", NoWorker),
                        NEW c \in handler[h].listed
                 PROVE  Spent(c)
    BY DEF AnswersKeepTheirWord
  <2>2. /\ handler[h].todo # << >> /\ handler[h].todo[1][1] = "Answer"
        /\ OrderOK(handler[h]) /\ WordKept(handler[h])
    BY <2>1, CallFacts DEF OrdersOK, WordsKept
  <2>3. Len(handler[h].todo) \in Nat /\ DOMAIN handler[h].todo = 1 .. Len(handler[h].todo) /\ Len(handler[h].todo) > 0
    BY <2>1, <2>2, TodoTyped
  <2>4. Len(handler[h].todo) = 1
    <3>1. 1 \in DOMAIN handler[h].todo
      BY <2>3
    <3>2. QED
      BY <2>2, <3>1 DEF OrderOK
  <2>5. \A i \in DOMAIN handler[h].todo : i = 1
    BY <2>3, <2>4
  <2>6. ~ WillEnd(handler[h], c)
    BY <2>2, <2>5, <2>4 DEF WillEnd, Has
  <2>7. QED
    BY <2>2, <2>6 DEF WordKept
<1>4. QED
  BY <1>1, <1>2, <1>3, AccessIsSound, PTL DEF AccessSpec

(* While no two requests change one account at once, disabling an account  *)
(* shuts out its Workers: once the request that does so has listed and     *)
(* blocked them, a claim finds its Worker blocked, whatever logins and     *)
(* claims were under way (disconnectOwnedWorkers and handleTaskClaim, with *)
(* a login between GetUser and the creation of its session).               *)
THEOREM DisabledIsShutOut ==
  ASSUME ~ AdminsOverlap
  PROVE  AccessSpec => []DisabledWorkersGetNothing
<1>1. AccessInit => CallsInv /\ Shut
  <2>1. SUFFICES ASSUME AccessInit PROVE CallsInv /\ Shut
    OBVIOUS
  <2>2. /\ \A h \in Handler : handler[h] = Idle
        /\ \A n \in Nonce : nonces[n] = NoWorker
        /\ \A t \in Bearer : bearers[t] = NoBearer
    BY <2>1 DEF AccessInit
  <2>3. OrdersOK /\ TablesKnow /\ OneChange
    BY <2>2, IdleCalls DEF OrdersOK, TablesKnow, OneChange, Changes
  <2>4. \A h \in Handler : /\ LoopOnce(handler[h]) /\ LoginOnce(handler[h]) /\ Knows(handler[h])
                           /\ OwnerRead(handler[h]) /\ Enabling(handler[h])
    BY <2>2, IdleCalls, IdleHas DEF LoopOnce, LoginOnce, Knows, OwnerRead, Enabling
  <2>5. \A w \in Worker : ~ Admitted(w)
    BY <2>2, IdleHas, AccessAssumption DEF Admitted, NoBearer
  <2>6. QED
    BY <2>3, <2>4, <2>5 DEF CallsInv, Shut
<1>2. AccessInv /\ CallsInv /\ Shut /\ [AccessNext]_accessVars => CallsInv' /\ Shut'
  BY CallsContinue, ShutContinues
<1>3. AccessInv /\ CallsInv /\ Shut => DisabledWorkersGetNothing
  <2>1. SUFFICES ASSUME AccessInv, Shut, NEW h \in Handler, NEW w \in Worker, Calls(h, "ClaimOrWait", w),
                        OfDisabled(w), Settled(w)
                 PROVE  w \in blocked
    BY DEF DisabledWorkersGetNothing, OfDisabled
  <2>2. handler[h].todo # << >> /\ handler[h].todo[1] = << "ClaimOrWait", w >> /\ 1 \in DOMAIN handler[h].todo
    BY <2>1, CallFacts, TodoTyped
  <2>3. Admitted(w)
    BY <2>2 DEF Admitted, Has
  <2>4. \A g \in Handler : ~ WillBlock(handler[g], w)
    <3>1. << "OwnedWorkers", "disconnect" >>[1] = "OwnedWorkers"
      OBVIOUS
    <3>2. QED
      BY <2>1, <3>1 DEF Settled, WillBlock, Has
  <2>5. QED
    BY <2>1, <2>3, <2>4 DEF Shut
<1>4. QED
  BY <1>1, <1>2, <1>3, AccessIsSound, PTL DEF AccessSpec
=============================================================================
