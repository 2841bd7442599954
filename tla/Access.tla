-------------------------------- MODULE Access --------------------------------
(***************************************************************************)
(* Who may work with the system: AuthService, SessionService and           *)
(* LoginDefenseService (auth/), AccountsService (accounts/).  Archiving a   *)
(* person, which disables the account, is in Personnel.                    *)
(*                                                                         *)
(* Commands on accounts hold the lock of the property and of the account   *)
(* and are one step.  What holds no lock takes several: a login, between   *)
(* its checks and its session; a request, between reading its session and  *)
(* renewing it.                                                            *)
(*                                                                         *)
(* A password is right or wrong, and what a role permits is left out.      *)
(* There is no clock: a session grows idle or expires, and the time of a   *)
(* block or a window of failures passes, at any moment.                    *)
(***************************************************************************)
EXTENDS Integers, FiniteSets

CONSTANTS
  Accounts,       \* accounts, each with one email and one identity at Google
  Founders,       \* accounts made by bootstrap-admin
  Persons,        \* rows of staff
  Roles,
  Administrator,  \* the role of administrators
  Tokens,         \* sessions, a bound of the model
  Origins,        \* addresses logins come from
  Requests,       \* requests under way at a time
  MaxFailures,    \* AUTH_LOGIN_MAX_FAILURES
  Nobody          \* NULL

ASSUME AdministratorIsRole == Administrator \in Roles
ASSUME FoundersAreAccounts == Founders \subseteq Accounts
(* login_attempts has a key of two columns, the kind and what it is of. *)
ASSUME KindsAreApart == Origins \cap Accounts = {}
ASSUME NobodyIsNobody == Nobody \notin Accounts \cup Persons \cup Origins
ASSUME FailuresAreAllowed == MaxFailures \in Nat \ {0}
ASSUME RequestsAreFinite == IsFiniteSet(Requests)

VARIABLES
  account,   \* [Accounts -> AccountRows]
  asked,     \* [Accounts -> Answers], google_access_requests
  person,    \* [Persons -> Accounts \cup {Nobody}], staff.account_id
  token,     \* [Tokens -> TokenRows], sessions
  attempts,  \* [Origins \cup Accounts -> AttemptRows], login_attempts
  request    \* [Requests -> RequestRows], what each request knows; the
             \* last phase is Personnel's

accessVars == <<account, asked, person, token, attempts, request>>

AccountRows ==
  [status : {"absent", "active", "disabled"}, role : Roles, mustChange : BOOLEAN]
Answers == {"none", "pending", "approved", "rejected"}
NoToken == [status |-> "unused", account |-> Nobody, age |-> "fresh"]
TokenRows ==
  {NoToken} \cup [status : {"live", "revoked"}, account : Accounts, age : {"fresh", "idle", "expired"}]
(* over: the window of the failures has passed *)
NoAttempt == [count |-> 0, over |-> FALSE, block |-> "none"]
AttemptRows == [count : Nat, over : BOOLEAN, block : {"none", "running", "ended"}]

Idle == [phase |-> "idle"]
RequestRows ==
  {Idle}
  \cup [phase : {"allowed", "trusted"}, account : Accounts, origin : Origins \cup {Nobody}]
  \cup [phase : {"read", "served"}, token : Tokens, role : Roles, mustChange : BOOLEAN]
  \cup [phase : {"ending"}, token : Tokens]
  \cup [phase : {"archiving"}, person : Persons, account : Accounts \cup {Nobody}]

AccessInit ==
  /\ account = [a \in Accounts |->
       [status |-> IF a \in Founders THEN "active" ELSE "absent",
        role |-> Administrator, mustChange |-> FALSE]]
  /\ asked = [a \in Accounts |-> "none"]
  /\ person = [p \in Persons |-> Nobody]
  /\ token = [t \in Tokens |-> NoToken]
  /\ attempts = [k \in Origins \cup Accounts |-> NoAttempt]
  /\ request = [q \in Requests |-> Idle]

-----------------------------------------------------------------------------
Becomes(q, r) == request' = [request EXCEPT ![q] = r]
IsDone(q) == Becomes(q, Idle)

Live(a) == {t \in Tokens : token[t].status = "live" /\ token[t].account = a}
RevokeSessions(a) == [t \in Tokens |->
  IF t \in Live(a) THEN [token[t] EXCEPT !.status = "revoked"] ELSE token[t]]

-----------------------------------------------------------------------------
(* Logins. *)
IsBlocked(k) == attempts[k].block = "running"

(* A bug to catch: only the block of the account is asked for. *)
AssertAccountAllowed(origin, a) == ~IsBlocked(a)
AssertAllowed(origin, a) == ~IsBlocked(origin) /\ ~IsBlocked(a)

Login(q, a, origin) ==
  /\ request[q] = Idle
  /\ AssertAllowed(origin, a)
  /\ Becomes(q, [phase |-> "allowed", account |-> a, origin |-> origin])
  /\ UNCHANGED <<account, asked, person, token, attempts>>

(* A block that has ended starts the count again, and so does a window that
   has passed, be it while the block runs. *)
Increment(row) ==
  LET count == IF row.over \/ row.block = "ended" THEN 1 ELSE row.count + 1
  IN [count |-> count, over |-> FALSE,
      block |-> IF count >= MaxFailures THEN "running" ELSE "none"]

RegisterFailure(q) ==
  /\ request[q].phase = "allowed"
  /\ attempts' = [attempts EXCEPT
       ![request[q].origin] = Increment(@), ![request[q].account] = Increment(@)]
  /\ IsDone(q)
  /\ UNCHANGED <<account, asked, person, token>>

VerifyPassword(q) ==
  /\ request[q].phase = "allowed"
  /\ account[request[q].account].status = "active"
  /\ Becomes(q, [request[q] EXCEPT !.phase = "trusted"])
  /\ UNCHANGED <<account, asked, person, token, attempts>>

(* An identity that is linked to an account needs no password; one that is not
   asks for an account. *)
LoginGoogle(q, a) ==
  /\ request[q] = Idle
  /\ asked[a] = "approved" /\ account[a].status = "active"
  /\ Becomes(q, [phase |-> "trusted", account |-> a, origin |-> Nobody])
  /\ UNCHANGED <<account, asked, person, token, attempts>>
AskForAccount(a) ==
  /\ asked[a] = "none"
  /\ asked' = [asked EXCEPT ![a] = "pending"]
  /\ UNCHANGED <<account, person, token, attempts, request>>

(* A bug to catch: the sessions before this one go on. *)
CreateSessionBeside(q, t) ==
  LET a == request[q].account IN
  /\ request[q].phase = "trusted" /\ token[t] = NoToken
  /\ token' = [token EXCEPT ![t] = [status |-> "live", account |-> a, age |-> "fresh"]]
  /\ attempts' = IF request[q].origin = Nobody THEN attempts
                 ELSE [attempts EXCEPT ![a] = NoAttempt]
  /\ IsDone(q)
  /\ UNCHANGED <<account, asked, person>>

(* clearAccount, and SessionService.create, which does not look at the account
   again: it may have been disabled since. *)
CreateSession(q, t) ==
  LET a == request[q].account IN
  /\ request[q].phase = "trusted" /\ token[t] = NoToken
  /\ token' = [RevokeSessions(a) EXCEPT ![t] = [status |-> "live", account |-> a, age |-> "fresh"]]
  /\ attempts' = IF request[q].origin = Nobody THEN attempts
                 ELSE [attempts EXCEPT ![a] = NoAttempt]
  /\ IsDone(q)
  /\ UNCHANGED <<account, asked, person>>

-----------------------------------------------------------------------------
(* Requests: SessionService.resolve. *)
ReadSession(q, t) ==
  LET row == account[token[t].account] IN
  /\ request[q] = Idle /\ token[t].status = "live"
  /\ Becomes(q, IF row.status = "active" /\ token[t].age = "fresh"
                THEN [phase |-> "read", token |-> t, role |-> row.role, mustChange |-> row.mustChange]
                ELSE [phase |-> "ending", token |-> t])
  /\ UNCHANGED <<account, asked, person, token, attempts>>

(* The UPDATE asks again whether the session is revoked or expired; whether it
   was idle is decided by the clock of the request, from before it read. *)
TouchSession(q) ==
  /\ request[q].phase = "read"
  /\ LET t == request[q].token IN
     IF token[t].status = "live" /\ token[t].age # "expired"
     THEN /\ token' = [token EXCEPT ![t].age = "fresh"]
          /\ Becomes(q, [request[q] EXCEPT !.phase = "served"])
     ELSE /\ Becomes(q, [phase |-> "ending", token |-> t])
          /\ UNCHANGED token
  /\ UNCHANGED <<account, asked, person, attempts>>

EndSession(q) ==
  /\ request[q].phase = "ending"
  /\ token' = [token EXCEPT ![request[q].token].status = "revoked"]
  /\ IsDone(q)
  /\ UNCHANGED <<account, asked, person, attempts>>

Answer(q) ==
  /\ request[q].phase = "served"
  /\ IsDone(q)
  /\ UNCHANGED <<account, asked, person, token, attempts>>

Logout(t) ==
  /\ token[t].status = "live"
  /\ token' = [token EXCEPT ![t].status = "revoked"]
  /\ UNCHANGED <<account, asked, person, attempts, request>>

-----------------------------------------------------------------------------
(* Commands of a request that is served. *)
Actor(q) == token[request[q].token].account
IsServed(q) == request[q].phase = "served"
(* ALLOW_PASSWORD_CHANGE_REQUIRED *)
MayCommand(q) == IsServed(q) /\ ~request[q].mustChange

Administrators ==
  {a \in Accounts : account[a].status = "active" /\ account[a].role = Administrator}

ChangePassword(q) ==
  /\ IsServed(q)
  /\ account' = [account EXCEPT ![Actor(q)].mustChange = FALSE]
  /\ token' = RevokeSessions(Actor(q))
  /\ IsDone(q)
  /\ UNCHANGED <<asked, person, attempts>>

ResetPassword(q, a) ==
  /\ MayCommand(q) /\ a # Actor(q) /\ account[a].status # "absent"
  /\ account' = [account EXCEPT ![a].mustChange = TRUE]
  /\ token' = RevokeSessions(a)
  /\ IsDone(q)
  /\ UNCHANGED <<asked, person, attempts>>

(* claimPersonnel: p is nobody, or linked to no other account. *)
MayClaim(a, p) == p \in Persons => person[p] \in {a, Nobody}
Claimed(a, p) == [x \in Persons |->
  IF x = p THEN a ELSE IF person[x] = a THEN Nobody ELSE person[x]]

NewAccount(a, role, mustChange) ==
  /\ account[a].status = "absent"
  /\ account' = [account EXCEPT ![a] = [status |-> "active", role |-> role, mustChange |-> mustChange]]

CreateAccount(q, a, role, p) ==
  /\ MayCommand(q) /\ MayClaim(a, p)
  /\ NewAccount(a, role, TRUE)
  /\ person' = Claimed(a, p)
  /\ IsDone(q)
  /\ UNCHANGED <<asked, token, attempts>>

ApproveGoogleRequest(q, a, role, p) ==
  /\ MayCommand(q) /\ MayClaim(a, p)
  /\ asked[a] = "pending"
  /\ NewAccount(a, role, FALSE)
  /\ asked' = [asked EXCEPT ![a] = "approved"]
  /\ person' = Claimed(a, p)
  /\ IsDone(q)
  /\ UNCHANGED <<token, attempts>>

RejectGoogleRequest(q, a) ==
  /\ MayCommand(q)
  /\ asked[a] = "pending"
  /\ asked' = [asked EXCEPT ![a] = "rejected"]
  /\ IsDone(q)
  /\ UNCHANGED <<account, person, token, attempts>>

(* assertAccountTransitionSafe *)
IsSafe(q, a, status, role) ==
  /\ ~(a = Actor(q) /\ status = "disabled")
  /\ (Administrators = {a}) => (status = "active" /\ role = Administrator)

(* A bug to catch: who is given another role goes on under the old one. *)
EndsSessionsUnlessRole(a, status, role, renamed) ==
  renamed \/ (status = "disabled" /\ account[a].status # "disabled")
(* renamed: the account is given another email. *)
EndsSessions(a, status, role, renamed) ==
  \/ status = "disabled" /\ account[a].status # "disabled"
  \/ role # account[a].role \/ renamed

(* The person the account is linked to: whose it was, nobody's, or p's. *)
Links == {"unchanged", Nobody} \cup Persons

UpdateAccount(q, a, status, role, renamed, p) ==
  /\ MayCommand(q) /\ account[a].status # "absent"
  /\ IsSafe(q, a, status, role)
  /\ account' = [account EXCEPT ![a].status = status, ![a].role = role]
  /\ IF p = "unchanged" THEN UNCHANGED person
     ELSE MayClaim(a, p) /\ person' = Claimed(a, p)
  /\ token' = IF EndsSessions(a, status, role, renamed) THEN RevokeSessions(a) ELSE token
  /\ IsDone(q)
  /\ UNCHANGED <<asked, attempts>>

-----------------------------------------------------------------------------
(* What time does. *)
GrowIdle(t) ==
  /\ token[t].status = "live" /\ token[t].age = "fresh"
  /\ token' = [token EXCEPT ![t].age = "idle"]
  /\ UNCHANGED <<account, asked, person, attempts, request>>
Expire(t) ==
  /\ token[t].status = "live" /\ token[t].age # "expired"
  /\ token' = [token EXCEPT ![t].age = "expired"]
  /\ UNCHANGED <<account, asked, person, attempts, request>>
WindowPasses(k) ==
  /\ attempts[k].count > 0 /\ ~attempts[k].over
  /\ attempts' = [attempts EXCEPT ![k].over = TRUE]
  /\ UNCHANGED <<account, asked, person, token, request>>
BlockEnds(k) ==
  /\ IsBlocked(k)
  /\ attempts' = [attempts EXCEPT ![k].block = "ended"]
  /\ UNCHANGED <<account, asked, person, token, request>>

-----------------------------------------------------------------------------
LoginStep ==
  \/ \E k \in DOMAIN attempts : WindowPasses(k) \/ BlockEnds(k)
  \/ \E q \in Requests :
       \/ RegisterFailure(q) \/ VerifyPassword(q)
       \/ \E t \in Tokens : CreateSession(q, t)
       \/ \E a \in Accounts : LoginGoogle(q, a) \/ \E origin \in Origins : Login(q, a, origin)

SessionStep ==
  \/ \E t \in Tokens : Logout(t) \/ GrowIdle(t) \/ Expire(t)
  \/ \E q \in Requests :
       \/ TouchSession(q) \/ EndSession(q) \/ Answer(q)
       \/ \E t \in Tokens : ReadSession(q, t)

AccountStep ==
  \E a \in Accounts :
    \/ AskForAccount(a)
    \/ \E q \in Requests :
         \/ ResetPassword(q, a) \/ RejectGoogleRequest(q, a)
         \/ \E role \in Roles :
              \/ \E p \in Persons \cup {Nobody} :
                   CreateAccount(q, a, role, p) \/ ApproveGoogleRequest(q, a, role, p)
              \/ \E status \in {"active", "disabled"}, renamed \in BOOLEAN, p \in Links :
                   UpdateAccount(q, a, status, role, renamed, p)

AccessNext == LoginStep \/ SessionStep \/ AccountStep \/ \E q \in Requests : ChangePassword(q)
AccessSpec == AccessInit /\ [][AccessNext]_accessVars

-----------------------------------------------------------------------------
(* Every row has values of its columns; no account has two sessions, and no two
   people have one account. *)
AccessTypeOK ==
  /\ account \in [Accounts -> AccountRows]
  /\ asked \in [Accounts -> Answers]
  /\ person \in [Persons -> Accounts \cup {Nobody}]
  /\ token \in [Tokens -> TokenRows]
  /\ attempts \in [Origins \cup Accounts -> AttemptRows]
  /\ request \in [Requests -> RequestRows]
  /\ \A t, u \in Tokens :
       token[t].status = "live" /\ token[u].status = "live" /\ token[t].account = token[u].account => t = u
  /\ \A p, r \in Persons : person[p] = person[r] /\ person[p] # Nobody => p = r

(* Whoever is served is served as what the account is at that moment, active
   and under its role: although the account was read earlier, without a lock,
   and sessions are made for accounts that were disabled meanwhile. *)
ServedAsGranted ==
  [][\A q \in Requests : request[q].phase = "read" /\ request'[q].phase = "served" =>
       account[Actor(q)] =
         [status |-> "active", role |-> request[q].role, mustChange |-> request[q].mustChange]]_accessVars

(* An account, or an address, is tried no more often in a row than the limit,
   and by whoever was let in before it was reached. *)
FailuresAreBounded ==
  \A k \in DOMAIN attempts : attempts[k].count <= MaxFailures + Cardinality(Requests) - 1

(* The system is never left without an administrator: "The last active
   administrator cannot be disabled or demoted" (accounts.safety.ts). *)
AlwaysAnAdministrator == Administrators # {}
=============================================================================
