------------------------------ MODULE HouseProofs ------------------------------
(***************************************************************************)
(* For any number of accounts, sessions, requests, people, codes, cars and *)
(* places: a request is served as what the account is at that moment, who  *)
(* guesses a password is stopped, a repeated punch is answered with itself *)
(* and a code on the screen makes one, and a place in the car park holds   *)
(* one vehicle.                                                            *)
(***************************************************************************)
EXTENDS Attendance, Parking, FiniteSetTheorems, TLAPS

(* A session that a request knows was made. *)
TokensInUse ==
  \A q \in Requests :
    request[q].phase \in {"read", "served", "ending"} => token[request[q].token] # NoToken

(* What a request read of the account is what the account is, unless its
   session was ended. *)
GrantsHold ==
  \A q \in Requests :
    LET t == request[q].token IN
    request[q].phase = "read" /\ token[t].status = "live" =>
      account[token[t].account] =
        [status |-> "active", role |-> request[q].role, mustChange |-> request[q].mustChange]

(* While a block runs nobody is let in: each failure still to come is one of
   those that were before. *)
LetIn(k) == {q \in Requests : request[q].phase = "allowed" /\ k \in {request[q].origin, request[q].account}}
FailuresAreCounted ==
  \A k \in DOMAIN attempts :
    /\ attempts[k].block = "none" => attempts[k].count < MaxFailures
    /\ attempts[k].block = "running" =>
         attempts[k].count + Cardinality(LetIn(k)) <= MaxFailures + Cardinality(Requests) - 1
    /\ attempts[k].block = "ended" => attempts[k].count <= MaxFailures + Cardinality(Requests) - 1

AccessInv == AccessTypeOK /\ TokensInUse /\ GrantsHold /\ FailuresAreCounted

-----------------------------------------------------------------------------
(* What the rows of a request, and of a session, hold in each of their states. *)
LEMMA RequestFields ==
  ASSUME AccessTypeOK, NEW q \in Requests
  PROVE  /\ request[q].phase \in {"allowed", "trusted"} =>
              request[q] \in [phase : {"allowed", "trusted"}, account : Accounts, origin : Origins \cup {Nobody}]
         /\ request[q].phase \in {"read", "served"} =>
              request[q] \in [phase : {"read", "served"}, token : Tokens, role : Roles, mustChange : BOOLEAN]
         /\ request[q].phase = "ending" => request[q] \in [phase : {"ending"}, token : Tokens]
         /\ request[q].phase = "archiving" =>
              request[q] \in [phase : {"archiving"}, person : Persons, account : Accounts \cup {Nobody}]
  BY DEF AccessTypeOK, RequestRows, Idle

LEMMA TokenFields ==
  ASSUME AccessTypeOK, NEW t \in Tokens
  PROVE  /\ token[t] # NoToken =>
              token[t] \in [status : {"live", "revoked"}, account : Accounts, age : {"fresh", "idle", "expired"}]
         /\ token[t].status = "live" => token[t] # NoToken
  BY DEF AccessTypeOK, TokenRows, NoToken

LEMMA BecomesRow ==
  ASSUME AccessTypeOK, NEW q \in Requests, NEW r \in RequestRows, Becomes(q, r)
  PROVE  /\ request' \in [Requests -> RequestRows]
         /\ request'[q] = r
         /\ \A p \in Requests \ {q} : request'[p] = request[p]
  BY DEF AccessTypeOK, Becomes

LEMMA IdleRow == Idle \in RequestRows /\ Idle.phase = "idle"
  BY DEF Idle, RequestRows

(* Revoking ends the sessions of one account. *)
LEMMA Revoked ==
  ASSUME AccessTypeOK, NEW a
  PROVE  /\ RevokeSessions(a) \in [Tokens -> TokenRows]
         /\ \A t \in Tokens : RevokeSessions(a)[t].account = token[t].account
         /\ \A t \in Tokens : (RevokeSessions(a)[t] = NoToken) = (token[t] = NoToken)
         /\ \A t \in Tokens : RevokeSessions(a)[t].status = "live" =>
              token[t].status = "live" /\ token[t].account # a
<1> SUFFICES ASSUME NEW t \in Tokens
             PROVE  /\ RevokeSessions(a)[t] \in TokenRows
                    /\ RevokeSessions(a)[t].account = token[t].account
                    /\ (RevokeSessions(a)[t] = NoToken) = (token[t] = NoToken)
                    /\ RevokeSessions(a)[t].status = "live" => token[t].status = "live" /\ token[t].account # a
  BY DEF RevokeSessions
<1>1. CASE t \in Live(a)
  <2>1. token[t] \in [status : {"live", "revoked"}, account : Accounts, age : {"fresh", "idle", "expired"}]
    BY <1>1, TokenFields DEF Live
  <2>2. RevokeSessions(a)[t] = [token[t] EXCEPT !.status = "revoked"]
    BY <1>1 DEF RevokeSessions
  <2>3. token[t] # NoToken /\ [token[t] EXCEPT !.status = "revoked"] # NoToken
    BY <2>1 DEF NoToken
  <2>4. QED
    BY <2>1, <2>2, <2>3 DEF TokenRows
<1>2. CASE t \notin Live(a)
  BY <1>2 DEF RevokeSessions, Live, AccessTypeOK
<1>3. QED
  BY <1>1, <1>2

-----------------------------------------------------------------------------
(* What any step does to sessions, whichever command it is of: it lets them be,
   ends those of one account, ends or ages one, or makes one in their place. *)
TokensStep ==
  \/ UNCHANGED token
  \/ \E a : token' = RevokeSessions(a)
  \/ \E t \in Tokens : \E row \in TokenRows \ {NoToken} :
       /\ token[t] # NoToken /\ row.account = token[t].account
       /\ row.status = "live" => token[t].status = "live"
       /\ token' = [token EXCEPT ![t] = row]
  \/ \E t \in Tokens, a \in Accounts :
       /\ token[t] = NoToken
       /\ token' = [RevokeSessions(a) EXCEPT ![t] = [status |-> "live", account |-> a, age |-> "fresh"]]

(* To requests: what one knows of a session it has just read, or read before. *)
RequestsStep ==
  /\ request' \in [Requests -> RequestRows]
  /\ \A q \in Requests : request'[q].phase \in {"read", "served", "ending"} =>
       \/ request'[q] = request[q]
       \/ \E t \in Tokens : ReadSession(q, t)
       \/ /\ request[q].phase = "read" /\ request'[q].phase # "read"
          /\ request'[q].token = request[q].token
          /\ request'[q].phase = "served" => token[request[q].token].status = "live"

(* To accounts: whatever an active one changes in ends its sessions. *)
AccountsStep ==
  /\ account' \in [Accounts -> AccountRows]
  /\ \A a \in Accounts : account[a].status = "active" /\ account'[a] # account[a] =>
       \A t \in Tokens : token'[t].status = "live" => token'[t].account # a

(* And to the links of people, of whom no two have one account. *)
LinksStep ==
  /\ person' \in [Persons -> Accounts \cup {Nobody}]
  /\ \A p, r \in Persons : person'[p] = person'[r] /\ person'[p] # Nobody => p = r

RowsStep ==
  /\ TokensStep /\ RequestsStep /\ AccountsStep /\ LinksStep
  /\ asked' \in [Accounts -> Answers]
  /\ attempts' \in [Origins \cup Accounts -> AttemptRows]

LEMMA TokensKept ==
  ASSUME AccessTypeOK, TokensStep
  PROVE  /\ token' \in [Tokens -> TokenRows]
         /\ \A t, u \in Tokens :
              token'[t].status = "live" /\ token'[u].status = "live" /\ token'[t].account = token'[u].account => t = u
         /\ \A t \in Tokens : token[t] # NoToken =>
              /\ token'[t] # NoToken
              /\ token'[t].status = "live" => token[t].status = "live" /\ token'[t].account = token[t].account
<1> DEFINE Kept ==
      /\ token' \in [Tokens -> TokenRows]
      /\ \A t, u \in Tokens :
           token'[t].status = "live" /\ token'[u].status = "live" /\ token'[t].account = token'[u].account => t = u
      /\ \A t \in Tokens : token[t] # NoToken =>
           /\ token'[t] # NoToken
           /\ token'[t].status = "live" => token[t].status = "live" /\ token'[t].account = token[t].account
<1>1. CASE UNCHANGED token
  BY <1>1 DEF AccessTypeOK
<1>2. ASSUME NEW a, token' = RevokeSessions(a)
      PROVE  Kept
  BY <1>2, Revoked DEF AccessTypeOK
<1>3. ASSUME NEW t \in Tokens, NEW row \in TokenRows \ {NoToken},
             token[t] # NoToken, row.account = token[t].account,
             row.status = "live" => token[t].status = "live",
             token' = [token EXCEPT ![t] = row]
      PROVE  Kept
  <2>1. token'[t] = row /\ \A u \in Tokens \ {t} : token'[u] = token[u]
    BY <1>3 DEF AccessTypeOK
  <2>2. token' \in [Tokens -> TokenRows]
    BY <1>3 DEF AccessTypeOK
  <2>3. \A u \in Tokens : token'[u].status = "live" =>
          token[u].status = "live" /\ token'[u].account = token[u].account
    BY <1>3, <2>1
  <2>4. QED
    BY <1>3, <2>1, <2>2, <2>3 DEF AccessTypeOK
<1>4. ASSUME NEW t \in Tokens, NEW a \in Accounts, token[t] = NoToken,
             token' = [RevokeSessions(a) EXCEPT ![t] = [status |-> "live", account |-> a, age |-> "fresh"]]
      PROVE  Kept
  <2> DEFINE row == [status |-> "live", account |-> a, age |-> "fresh"]
  <2>1. row \in TokenRows /\ row # NoToken /\ row.account = a
    BY DEF TokenRows, NoToken
  <2>2. token' = [RevokeSessions(a) EXCEPT ![t] = row]
    BY <1>4
  <2> HIDE DEF row
  <2>3. token'[t] = row /\ \A u \in Tokens \ {t} : token'[u] = RevokeSessions(a)[u]
    BY <2>2, Revoked
  <2>4. token' \in [Tokens -> TokenRows]
    BY <2>1, <2>2, Revoked
  <2>5. \A u \in Tokens \ {t} : token'[u].status = "live" =>
          token[u].status = "live" /\ token'[u].account = token[u].account /\ token[u].account # a
    BY <2>3, Revoked
  <2>6. \A u \in Tokens \ {t} : token[u] # NoToken => token'[u] # NoToken
    BY <2>3, Revoked
  <2>7. \A u, v \in Tokens :
          token'[u].status = "live" /\ token'[v].status = "live" /\ token'[u].account = token'[v].account => u = v
    BY <2>1, <2>3, <2>5 DEF AccessTypeOK
  <2>8. QED
    BY <1>4, <2>4, <2>5, <2>6, <2>7
<1>5. QED
  BY <1>1, <1>2, <1>3, <1>4 DEF TokensStep

(* A request that is done knows of no session, and neither does one of a login. *)
LEMMA RequestMoves ==
  ASSUME AccessTypeOK, NEW q \in Requests, NEW r \in RequestRows, Becomes(q, r),
         \/ r.phase \notin {"read", "served", "ending"}
         \/ \E t \in Tokens : ReadSession(q, t)
         \/ /\ request[q].phase = "read" /\ r.phase # "read" /\ r.token = request[q].token
            /\ r.phase = "served" => token[request[q].token].status = "live"
  PROVE  RequestsStep
  BY BecomesRow DEF RequestsStep

LEMMA RequestEnds ==
  ASSUME AccessTypeOK, NEW q \in Requests, IsDone(q)
  PROVE  RequestsStep
  BY RequestMoves, IdleRow DEF IsDone

LEMMA NothingMoves ==
  ASSUME AccessTypeOK
  PROVE  /\ UNCHANGED request => RequestsStep
         /\ UNCHANGED account => AccountsStep
         /\ UNCHANGED person => LinksStep
         /\ UNCHANGED token => TokensStep
         /\ UNCHANGED asked => asked' \in [Accounts -> Answers]
         /\ UNCHANGED attempts => attempts' \in [Origins \cup Accounts -> AttemptRows]
  BY DEF AccessTypeOK, RequestsStep, AccountsStep, LinksStep, TokensStep

(* A failure counts, and no count is less than one afterwards. *)
LEMMA IncrementType ==
  ASSUME NEW row \in AttemptRows
  PROVE  Increment(row) \in AttemptRows
  BY DEF AttemptRows, Increment

(* A failure counts once for the address and once for the account. *)
LEMMA FailureCounts ==
  ASSUME AccessTypeOK, NEW q \in Requests, RegisterFailure(q)
  PROVE  /\ request[q].phase = "allowed"
         /\ request[q].account \in Accounts /\ request[q].origin \in Origins \cup {Nobody}
         /\ attempts' = [k \in Origins \cup Accounts |->
              IF k \in {request[q].origin, request[q].account} THEN Increment(attempts[k]) ELSE attempts[k]]
<1>1. request[q].phase = "allowed" /\ request[q].account \in Accounts /\ request[q].origin \in Origins \cup {Nobody}
  BY RequestFields DEF RegisterFailure
<1>2. request[q].account # request[q].origin
  BY <1>1, KindsAreApart, NobodyIsNobody
<1>3. attempts \in [Origins \cup Accounts -> AttemptRows]
  BY DEF AccessTypeOK
<1>4. attempts' = [attempts EXCEPT
        ![request[q].origin] = Increment(@), ![request[q].account] = Increment(@)]
  BY DEF RegisterFailure
<1>5. QED
  BY <1>1, <1>2, <1>3, <1>4

LEMMA LoginStepRows ==
  ASSUME AccessInv, LoginStep
  PROVE  RowsStep
<1> USE DEF AccessInv
<1>1. ASSUME NEW k \in DOMAIN attempts, WindowPasses(k) \/ BlockEnds(k)
      PROVE  RowsStep
  <2>1. UNCHANGED <<account, asked, person, token, request>>
    BY <1>1 DEF WindowPasses, BlockEnds
  <2>2. attempts \in [Origins \cup Accounts -> AttemptRows] /\ attempts[k] \in AttemptRows
    BY DEF AccessTypeOK
  <2>3. [attempts[k] EXCEPT !.over = TRUE] \in AttemptRows /\ [attempts[k] EXCEPT !.block = "ended"] \in AttemptRows
    BY <2>2 DEF AttemptRows
  <2>4. attempts' \in [Origins \cup Accounts -> AttemptRows]
    BY <1>1, <2>2, <2>3 DEF WindowPasses, BlockEnds
  <2>5. QED
    BY <2>1, <2>4, NothingMoves DEF RowsStep
<1>2. ASSUME NEW q \in Requests, RegisterFailure(q)
      PROVE  RowsStep
  <2>1. attempts' \in [Origins \cup Accounts -> AttemptRows]
    BY <1>2, FailureCounts, IncrementType DEF AccessTypeOK
  <2>2. QED
    BY <1>2, <2>1, NothingMoves, RequestEnds DEF RegisterFailure, RowsStep
<1>3. ASSUME NEW q \in Requests, VerifyPassword(q)
      PROVE  RowsStep
  <2>1. [request[q] EXCEPT !.phase = "trusted"] \in RequestRows
    BY <1>3, RequestFields DEF VerifyPassword, RequestRows
  <2>2. [request[q] EXCEPT !.phase = "trusted"].phase = "trusted"
    BY <1>3, RequestFields DEF VerifyPassword
  <2>3. RequestsStep
    BY <1>3, <2>1, <2>2, RequestMoves DEF VerifyPassword
  <2>4. QED
    BY <1>3, <2>3, NothingMoves DEF VerifyPassword, RowsStep
<1>4. ASSUME NEW q \in Requests, NEW t \in Tokens, CreateSession(q, t)
      PROVE  RowsStep
  <2> DEFINE a == request[q].account
  <2>1. a \in Accounts
    BY <1>4, RequestFields DEF CreateSession
  <2>2. TokensStep
    BY <1>4, <2>1 DEF CreateSession, TokensStep
  <2>3. attempts' \in [Origins \cup Accounts -> AttemptRows]
    BY <1>4, <2>1 DEF CreateSession, AccessTypeOK, NoAttempt, AttemptRows
  <2>4. QED
    BY <1>4, <2>2, <2>3, NothingMoves, RequestEnds DEF CreateSession, RowsStep
<1>5. ASSUME NEW q \in Requests, NEW a \in Accounts, LoginGoogle(q, a)
      PROVE  RowsStep
  <2>1. [phase |-> "trusted", account |-> a, origin |-> Nobody] \in RequestRows
    BY DEF RequestRows
  <2>2. RequestsStep
    BY <1>5, <2>1, RequestMoves DEF LoginGoogle
  <2>3. QED
    BY <1>5, <2>2, NothingMoves DEF LoginGoogle, RowsStep
<1>6. ASSUME NEW q \in Requests, NEW a \in Accounts, NEW origin \in Origins, Login(q, a, origin)
      PROVE  RowsStep
  <2>1. [phase |-> "allowed", account |-> a, origin |-> origin] \in RequestRows
    BY DEF RequestRows
  <2>2. RequestsStep
    BY <1>6, <2>1, RequestMoves DEF Login
  <2>3. QED
    BY <1>6, <2>2, NothingMoves DEF Login, RowsStep
<1>7. QED
  BY <1>1, <1>2, <1>3, <1>4, <1>5, <1>6 DEF LoginStep

LEMMA SessionStepRows ==
  ASSUME AccessInv, SessionStep
  PROVE  RowsStep
<1> USE DEF AccessInv
<1>1. ASSUME NEW t \in Tokens, Logout(t) \/ GrowIdle(t) \/ Expire(t)
      PROVE  RowsStep
  <2>1. token[t] \in [status : {"live", "revoked"}, account : Accounts, age : {"fresh", "idle", "expired"}]
    BY <1>1, TokenFields DEF Logout, GrowIdle, Expire
  <2>2. \A row \in {[token[t] EXCEPT !.status = "revoked"], [token[t] EXCEPT !.age = "idle"],
                    [token[t] EXCEPT !.age = "expired"]} :
          /\ row \in TokenRows \ {NoToken} /\ row.account = token[t].account
          /\ row.status = "live" => token[t].status = "live"
    BY <2>1 DEF TokenRows, NoToken
  <2>3. \E row \in {[token[t] EXCEPT !.status = "revoked"], [token[t] EXCEPT !.age = "idle"],
                    [token[t] EXCEPT !.age = "expired"]} : token' = [token EXCEPT ![t] = row]
    <3>1. CASE Logout(t)
      BY <3>1 DEF Logout
    <3>2. CASE GrowIdle(t)
      BY <3>2 DEF GrowIdle
    <3>3. CASE Expire(t)
      BY <3>3 DEF Expire
    <3>4. QED
      BY <1>1, <3>1, <3>2, <3>3
  <2>4. token[t] # NoToken
    BY <2>1 DEF NoToken
  <2>5. TokensStep
    BY <2>2, <2>3, <2>4 DEF TokensStep
  <2>6. QED
    BY <1>1, <2>5, NothingMoves DEF Logout, GrowIdle, Expire, RowsStep
<1>2. ASSUME NEW q \in Requests, TouchSession(q)
      PROVE  RowsStep
  <2> DEFINE t == request[q].token
  <2>1. request[q] \in [phase : {"read", "served"}, token : Tokens, role : Roles, mustChange : BOOLEAN]
    BY <1>2, RequestFields DEF TouchSession
  <2>2. CASE token[t].status = "live" /\ token[t].age # "expired"
    <3>1. token[t] \in [status : {"live", "revoked"}, account : Accounts, age : {"fresh", "idle", "expired"}]
      BY <2>1, <2>2, TokenFields
    <3>2. /\ [token[t] EXCEPT !.age = "fresh"] \in TokenRows \ {NoToken}
          /\ [token[t] EXCEPT !.age = "fresh"].account = token[t].account
      BY <3>1 DEF TokenRows, NoToken
    <3>3. TokensStep
      BY <1>2, <2>1, <2>2, <3>1, <3>2, TokenFields DEF TouchSession, TokensStep
    <3>4. /\ [request[q] EXCEPT !.phase = "served"] \in RequestRows
          /\ [request[q] EXCEPT !.phase = "served"].phase = "served"
          /\ [request[q] EXCEPT !.phase = "served"].token = t
      BY <2>1 DEF RequestRows
    <3>5. RequestsStep
      BY <1>2, <2>2, <3>4, RequestMoves DEF TouchSession
    <3>6. QED
      BY <1>2, <3>3, <3>5, NothingMoves DEF TouchSession, RowsStep
  <2>3. CASE ~(token[t].status = "live" /\ token[t].age # "expired")
    <3>1. [phase |-> "ending", token |-> t] \in RequestRows
      BY <2>1 DEF RequestRows
    <3>2. RequestsStep
      BY <1>2, <2>3, <3>1, RequestMoves DEF TouchSession
    <3>3. QED
      BY <1>2, <2>3, <3>2, NothingMoves DEF TouchSession, RowsStep
  <2>4. QED
    BY <2>2, <2>3
<1>3. ASSUME NEW q \in Requests, EndSession(q)
      PROVE  RowsStep
  <2> DEFINE t == request[q].token
  <2>1. t \in Tokens /\ token[t] # NoToken
    BY <1>3, RequestFields DEF EndSession, TokensInUse
  <2>2. token[t] \in [status : {"live", "revoked"}, account : Accounts, age : {"fresh", "idle", "expired"}]
    BY <2>1, TokenFields
  <2>3. /\ [token[t] EXCEPT !.status = "revoked"] \in TokenRows \ {NoToken}
        /\ [token[t] EXCEPT !.status = "revoked"].account = token[t].account
        /\ [token[t] EXCEPT !.status = "revoked"].status # "live"
    BY <2>2 DEF TokenRows, NoToken
  <2>4. token' = [token EXCEPT ![t] = [token[t] EXCEPT !.status = "revoked"]]
    BY <1>3 DEF EndSession
  <2>5. TokensStep
    BY <2>1, <2>3, <2>4 DEF TokensStep
  <2>6. QED
    BY <1>3, <2>5, NothingMoves, RequestEnds DEF EndSession, RowsStep
<1>4. ASSUME NEW q \in Requests, Answer(q)
      PROVE  RowsStep
  BY <1>4, NothingMoves, RequestEnds DEF Answer, RowsStep
<1>5. ASSUME NEW q \in Requests, NEW t \in Tokens, ReadSession(q, t)
      PROVE  RowsStep
  <2> DEFINE row == account[token[t].account]
             r == IF row.status = "active" /\ token[t].age = "fresh"
                  THEN [phase |-> "read", token |-> t, role |-> row.role, mustChange |-> row.mustChange]
                  ELSE [phase |-> "ending", token |-> t]
  <2>1. row \in AccountRows
    BY <1>5, TokenFields DEF ReadSession, AccessTypeOK
  <2>2. r \in RequestRows
    BY <2>1 DEF RequestRows, AccountRows
  <2>3. Becomes(q, r)
    BY <1>5 DEF ReadSession
  <2> HIDE DEF r
  <2>4. RequestsStep
    BY <1>5, <2>2, <2>3, RequestMoves
  <2>5. QED
    BY <1>5, <2>4, NothingMoves DEF ReadSession, RowsStep
<1>6. QED
  BY <1>1, <1>2, <1>3, <1>4, <1>5 DEF SessionStep

(* Links are moved, not shared. *)
LEMMA ClaimedLinks ==
  ASSUME AccessTypeOK, NEW a \in Accounts, NEW p, MayClaim(a, p), person' = Claimed(a, p)
  PROVE  LinksStep
<1>1. person \in [Persons -> Accounts \cup {Nobody}] /\ a # Nobody
  BY NobodyIsNobody DEF AccessTypeOK
<1>2. \A x \in Persons : person'[x] \in Accounts \cup {Nobody}
  BY <1>1 DEF Claimed
<1>3. \A x \in Persons : person'[x] = a => x = p
  BY <1>1 DEF Claimed
<1>4. \A x \in Persons : person'[x] \notin {a, Nobody} => person'[x] = person[x]
  BY <1>1 DEF Claimed
<1>5. person' \in [Persons -> Accounts \cup {Nobody}]
  BY <1>2 DEF Claimed
<1>6. QED
  BY <1>3, <1>4, <1>5 DEF LinksStep, AccessTypeOK

(* Whose command it is. *)
LEMMA ActorIsAccount ==
  ASSUME AccessInv, NEW q \in Requests, IsServed(q)
  PROVE  Actor(q) \in Accounts
<1>1. request[q].token \in Tokens /\ token[request[q].token] # NoToken
  BY RequestFields DEF AccessInv, TokensInUse, IsServed
<1>2. QED
  BY <1>1, TokenFields DEF AccessInv, Actor

(* Ending the sessions of the account that a command changes. *)
LEMMA ChangedAccount ==
  ASSUME AccessTypeOK, NEW a \in Accounts, NEW row \in AccountRows,
         account' = [account EXCEPT ![a] = row],
         \/ token' = RevokeSessions(a)
         \/ account[a].status # "active"
         \/ row = account[a]
  PROVE  AccountsStep
<1>1. account' \in [Accounts -> AccountRows] /\ account'[a] = row
      /\ \A b \in Accounts \ {a} : account'[b] = account[b]
  BY DEF AccessTypeOK
<1>2. token' = RevokeSessions(a) => \A t \in Tokens : token'[t].status = "live" => token'[t].account # a
  BY Revoked
<1>3. QED
  BY <1>1, <1>2 DEF AccountsStep

LEMMA NewAccountStep ==
  ASSUME AccessTypeOK, NEW a \in Accounts, NEW role \in Roles, NEW mustChange \in BOOLEAN,
         NewAccount(a, role, mustChange)
  PROVE  AccountsStep
<1>1. [status |-> "active", role |-> role, mustChange |-> mustChange] \in AccountRows
  BY DEF AccountRows
<1>2. QED
  BY <1>1, ChangedAccount DEF NewAccount

LEMMA AccountStepRows ==
  ASSUME AccessInv, AccountStep
  PROVE  RowsStep
<1> USE DEF AccessInv
<1>1. ASSUME NEW a \in Accounts, AskForAccount(a)
      PROVE  RowsStep
  <2>1. asked' \in [Accounts -> Answers]
    BY <1>1 DEF AskForAccount, AccessTypeOK, Answers
  <2>2. QED
    BY <1>1, <2>1, NothingMoves DEF AskForAccount, RowsStep
<1>2. ASSUME NEW a \in Accounts, NEW q \in Requests, ResetPassword(q, a)
      PROVE  RowsStep
  <2>1. account[a] \in AccountRows
    BY DEF AccessTypeOK
  <2>2. [account[a] EXCEPT !.mustChange = TRUE] \in AccountRows
    BY <2>1 DEF AccountRows
  <2>3. AccountsStep
    BY <1>2, <2>2, ChangedAccount DEF ResetPassword
  <2>4. QED
    BY <1>2, <2>3, NothingMoves, RequestEnds DEF ResetPassword, RowsStep, TokensStep
<1>3. ASSUME NEW a \in Accounts, NEW q \in Requests, RejectGoogleRequest(q, a)
      PROVE  RowsStep
  <2>1. asked' \in [Accounts -> Answers]
    BY <1>3 DEF RejectGoogleRequest, AccessTypeOK, Answers
  <2>2. QED
    BY <1>3, <2>1, NothingMoves, RequestEnds DEF RejectGoogleRequest, RowsStep
<1>4. ASSUME NEW a \in Accounts, NEW q \in Requests, NEW role \in Roles, NEW p \in Persons \cup {Nobody},
             CreateAccount(q, a, role, p)
      PROVE  RowsStep
  BY <1>4, NothingMoves, RequestEnds, NewAccountStep, ClaimedLinks DEF CreateAccount, RowsStep
<1>5. ASSUME NEW a \in Accounts, NEW q \in Requests, NEW role \in Roles, NEW p \in Persons \cup {Nobody},
             ApproveGoogleRequest(q, a, role, p)
      PROVE  RowsStep
  <2>1. asked' \in [Accounts -> Answers]
    BY <1>5 DEF ApproveGoogleRequest, AccessTypeOK, Answers
  <2>2. QED
    BY <1>5, <2>1, NothingMoves, RequestEnds, NewAccountStep, ClaimedLinks
    DEF ApproveGoogleRequest, RowsStep
<1>6. ASSUME NEW a \in Accounts, NEW q \in Requests, NEW role \in Roles,
             NEW status \in {"active", "disabled"}, NEW renamed \in BOOLEAN, NEW p \in Links,
             UpdateAccount(q, a, status, role, renamed, p)
      PROVE  RowsStep
  <2> DEFINE row == [status |-> status, role |-> role, mustChange |-> account[a].mustChange]
  <2>1. account[a] \in AccountRows
    BY DEF AccessTypeOK
  <2>2. row \in AccountRows /\ account' = [account EXCEPT ![a] = row]
    <3> DEFINE b == [account[a] EXCEPT !.status = status]
    <3>1. [account EXCEPT ![a].status = status, ![a].role = role] =
            [account EXCEPT ![a] = [b EXCEPT !.role = role]]
      BY DEF AccessTypeOK
    <3>2. b = [status |-> status, role |-> account[a].role, mustChange |-> account[a].mustChange]
      BY <2>1 DEF AccountRows
    <3> HIDE DEF b
    <3>3. [b EXCEPT !.role = role] = row
      BY <3>2
    <3>4. account[a].mustChange \in BOOLEAN
      BY <2>1 DEF AccountRows
    <3>5. QED
      BY <1>6, <3>1, <3>3, <3>4 DEF UpdateAccount, AccountRows
  <2>3. \/ token' = RevokeSessions(a)
        \/ account[a].status # "active"
        \/ row = account[a]
    BY <1>6, <2>1 DEF UpdateAccount, EndsSessions, AccountRows
  <2>4. AccountsStep
    BY <2>2, <2>3, ChangedAccount
  <2>5. TokensStep
    BY <1>6 DEF UpdateAccount, TokensStep
  <2>6. LinksStep
    BY <1>6, ClaimedLinks, NothingMoves DEF UpdateAccount
  <2>7. QED
    BY <1>6, <2>4, <2>5, <2>6, NothingMoves, RequestEnds DEF UpdateAccount, RowsStep
<1>7. QED
  BY <1>1, <1>2, <1>3, <1>4, <1>5, <1>6 DEF AccountStep

LEMMA PasswordRows ==
  ASSUME AccessInv, NEW q \in Requests, ChangePassword(q)
  PROVE  RowsStep
<1> DEFINE a == Actor(q)
<1>1. a \in Accounts
  BY ActorIsAccount DEF ChangePassword
<1>2. account[a] \in AccountRows
  BY <1>1 DEF AccessInv, AccessTypeOK
<1>3. [account[a] EXCEPT !.mustChange = FALSE] \in AccountRows
  BY <1>2 DEF AccountRows
<1>4. account' = [account EXCEPT ![a] = [account[a] EXCEPT !.mustChange = FALSE]] /\ token' = RevokeSessions(a)
  BY DEF ChangePassword
<1> HIDE DEF a
<1>5. AccountsStep
  BY <1>1, <1>3, <1>4, ChangedAccount DEF AccessInv
<1>6. QED
  BY <1>4, <1>5, NothingMoves, RequestEnds DEF AccessInv, ChangePassword, RowsStep, TokensStep

LEMMA StaffStepRows ==
  ASSUME AccessInv, StaffStep
  PROVE  RowsStep
<1> USE DEF AccessInv
<1>1. ASSUME NEW q \in Requests, NEW p \in Persons, CreateStaff(q, p) \/ ReactivateStaff(q, p)
      PROVE  RowsStep
  BY <1>1, NothingMoves, RequestEnds DEF CreateStaff, ReactivateStaff, RowsStep
<1>2. ASSUME NEW q \in Requests, NEW p \in Persons, ReadForArchive(q, p)
      PROVE  RowsStep
  <2>1. [phase |-> "archiving", person |-> p, account |-> person[p]] \in RequestRows
    BY DEF RequestRows, AccessTypeOK
  <2>2. RequestsStep
    BY <1>2, <2>1, RequestMoves DEF ReadForArchive
  <2>3. QED
    BY <1>2, <2>2, NothingMoves DEF ReadForArchive, RowsStep
<1>3. ASSUME NEW q \in Requests, ArchiveStaff(q)
      PROVE  RowsStep
  <2> DEFINE a == request[q].account
  <2>1. account \in [Accounts -> AccountRows]
    BY DEF AccessTypeOK
  <2>2. \A x \in Accounts : [account[x] EXCEPT !.status = "disabled"] \in AccountRows
    BY <2>1 DEF AccountRows
  <2>3. account' = [x \in Accounts |->
          IF x = a THEN [account[x] EXCEPT !.status = "disabled"] ELSE account[x]]
        /\ token' = RevokeSessions(a)
    BY <1>3 DEF ArchiveStaff
  <2>4. AccountsStep
    BY <2>1, <2>2, <2>3, Revoked DEF AccountsStep
  <2>5. QED
    BY <1>3, <2>3, <2>4, NothingMoves, RequestEnds DEF ArchiveStaff, RowsStep, TokensStep
<1>4. QED
  BY <1>1, <1>2, <1>3 DEF StaffStep

-----------------------------------------------------------------------------
(* Only a login lets somebody in, and not past a block. *)
NobodyLetIn == \A p \in Requests : request'[p].phase = "allowed" => request'[p] = request[p]

LEMMA OtherRow ==
  ASSUME AccessTypeOK, NEW q \in Requests, NEW r, Becomes(q, r), r.phase # "allowed"
  PROVE  NobodyLetIn
  BY DEF AccessTypeOK, Becomes, NobodyLetIn

LEMMA DoneRow ==
  ASSUME AccessTypeOK
  PROVE  /\ UNCHANGED request => NobodyLetIn
         /\ \A q \in Requests : IsDone(q) => NobodyLetIn
  BY OtherRow, IdleRow DEF IsDone, NobodyLetIn

LEMMA CommandsLetNobodyIn ==
  ASSUME AccessInv,
         \/ SessionStep \/ AccountStep \/ StaffStep
         \/ \E q \in Requests : ChangePassword(q)
  PROVE  NobodyLetIn /\ UNCHANGED attempts
<1> USE DEF AccessInv
<1>1. CASE SessionStep
  <2>1. ASSUME NEW t \in Tokens, Logout(t) \/ GrowIdle(t) \/ Expire(t)
        PROVE  NobodyLetIn /\ UNCHANGED attempts
    BY <2>1, DoneRow DEF Logout, GrowIdle, Expire
  <2>2. ASSUME NEW q \in Requests, TouchSession(q)
        PROVE  NobodyLetIn /\ UNCHANGED attempts
    <3>1. [request[q] EXCEPT !.phase = "served"].phase = "served"
      BY <2>2, RequestFields DEF TouchSession
    <3>2. QED
      BY <2>2, <3>1, OtherRow DEF TouchSession
  <2>3. ASSUME NEW q \in Requests, EndSession(q) \/ Answer(q)
        PROVE  NobodyLetIn /\ UNCHANGED attempts
    BY <2>3, DoneRow DEF EndSession, Answer
  <2>4. ASSUME NEW q \in Requests, NEW t \in Tokens, ReadSession(q, t)
        PROVE  NobodyLetIn /\ UNCHANGED attempts
    BY <2>4, OtherRow DEF ReadSession
  <2>5. QED
    BY <1>1, <2>1, <2>2, <2>3, <2>4 DEF SessionStep
<1>2. CASE AccountStep
  <2>1. ASSUME NEW a \in Accounts, AskForAccount(a)
        PROVE  NobodyLetIn /\ UNCHANGED attempts
    BY <2>1, DoneRow DEF AskForAccount
  <2>2. ASSUME NEW a \in Accounts, NEW q \in Requests, ResetPassword(q, a) \/ RejectGoogleRequest(q, a)
        PROVE  NobodyLetIn /\ UNCHANGED attempts
    BY <2>2, DoneRow DEF ResetPassword, RejectGoogleRequest
  <2>3. ASSUME NEW a \in Accounts, NEW q \in Requests, NEW role, NEW p,
               CreateAccount(q, a, role, p) \/ ApproveGoogleRequest(q, a, role, p)
        PROVE  NobodyLetIn /\ UNCHANGED attempts
    BY <2>3, DoneRow DEF CreateAccount, ApproveGoogleRequest
  <2>4. ASSUME NEW a \in Accounts, NEW q \in Requests, NEW status, NEW role, NEW renamed, NEW p,
               UpdateAccount(q, a, status, role, renamed, p)
        PROVE  NobodyLetIn /\ UNCHANGED attempts
    BY <2>4, DoneRow DEF UpdateAccount
  <2>5. QED
    BY <1>2, <2>1, <2>2, <2>3, <2>4 DEF AccountStep
<1>3. CASE StaffStep
  <2>1. ASSUME NEW q \in Requests, NEW p \in Persons, ReadForArchive(q, p)
        PROVE  NobodyLetIn /\ UNCHANGED attempts
    BY <2>1, OtherRow DEF ReadForArchive
  <2>2. QED
    BY <1>3, <2>1, DoneRow DEF StaffStep, CreateStaff, ReactivateStaff, ArchiveStaff
<1>4. ASSUME NEW q \in Requests, ChangePassword(q)
      PROVE  NobodyLetIn /\ UNCHANGED attempts
  BY <1>4, DoneRow DEF ChangePassword
<1>5. QED
  BY <1>1, <1>2, <1>3, <1>4

(* How many are let in. *)
LEMMA LetInCount ==
  /\ Cardinality(Requests) \in Nat
  /\ \A S \in SUBSET Requests :
       /\ IsFiniteSet(S) /\ Cardinality(S) \in Nat /\ Cardinality(S) <= Cardinality(Requests)
       /\ \A T \in SUBSET S : Cardinality(T) <= Cardinality(S)
       /\ \A q \in S : \A T \in SUBSET (S \ {q}) : Cardinality(T) <= Cardinality(S) - 1
<1> SUFFICES ASSUME NEW S \in SUBSET Requests
             PROVE  /\ IsFiniteSet(S) /\ Cardinality(S) \in Nat /\ Cardinality(S) <= Cardinality(Requests)
                    /\ \A T \in SUBSET S : Cardinality(T) <= Cardinality(S)
                    /\ \A q \in S : \A T \in SUBSET (S \ {q}) : Cardinality(T) <= Cardinality(S) - 1
  BY RequestsAreFinite, FS_CardinalityType
<1>1. IsFiniteSet(S) /\ Cardinality(S) \in Nat /\ Cardinality(S) <= Cardinality(Requests)
  BY RequestsAreFinite, FS_Subset, FS_CardinalityType
<1>2. \A T \in SUBSET S : Cardinality(T) <= Cardinality(S)
  BY <1>1, FS_Subset
<1>3. ASSUME NEW q \in S, NEW T \in SUBSET (S \ {q})
      PROVE  Cardinality(T) <= Cardinality(S) - 1
  <2>1. IsFiniteSet(S \ {q}) /\ Cardinality(S \ {q}) = Cardinality(S) - 1
    BY <1>1, FS_RemoveElement
  <2>2. QED
    BY <2>1, FS_Subset
<1>4. QED
  BY <1>1, <1>2, <1>3

(* Where attempts do not change, nobody may be let in to one who is blocked. *)
LEMMA CountsKept ==
  ASSUME AccessInv, UNCHANGED attempts,
         \A k \in DOMAIN attempts : IsBlocked(k) => LetIn(k)' \subseteq LetIn(k)
  PROVE  FailuresAreCounted'
<1> SUFFICES ASSUME NEW k \in DOMAIN attempts
             PROVE  /\ attempts[k].block = "none" => attempts[k].count < MaxFailures
                    /\ attempts[k].block = "running" =>
                         attempts[k].count + Cardinality(LetIn(k)') <= MaxFailures + Cardinality(Requests) - 1
                    /\ attempts[k].block = "ended" => attempts[k].count <= MaxFailures + Cardinality(Requests) - 1
  BY DEF FailuresAreCounted
<1>1. LetIn(k) \in SUBSET Requests
  BY DEF LetIn
<1>2. IsBlocked(k) => Cardinality(LetIn(k)') <= Cardinality(LetIn(k)) /\ Cardinality(LetIn(k)') \in Nat
  BY <1>1, LetInCount
<1>3. attempts[k].count \in Nat /\ MaxFailures \in Nat
  BY FailuresAreAllowed DEF AccessInv, AccessTypeOK, AttemptRows
<1>4. Cardinality(Requests) \in Nat /\ Cardinality(LetIn(k)) \in Nat
  BY <1>1, LetInCount
<1>5. QED
  BY <1>2, <1>3, <1>4 DEF AccessInv, FailuresAreCounted, IsBlocked

LEMMA LetInShrinks ==
  ASSUME NobodyLetIn, NEW k
  PROVE  LetIn(k)' \subseteq LetIn(k)
  BY DEF NobodyLetIn, LetIn

LEMMA LoginCounts ==
  ASSUME AccessInv, LoginStep
  PROVE  FailuresAreCounted'
<1> USE DEF AccessInv
<1>1. attempts \in [Origins \cup Accounts -> AttemptRows] /\ MaxFailures \in Nat \ {0}
      /\ \A k \in Origins \cup Accounts : LetIn(k) \in SUBSET Requests /\ LetIn(k)' \in SUBSET Requests
  BY FailuresAreAllowed DEF AccessTypeOK, LetIn
<1>2. \A k \in Origins \cup Accounts : attempts[k] \in AttemptRows
  BY <1>1
<1>3. ASSUME NEW k \in DOMAIN attempts, WindowPasses(k) \/ BlockEnds(k)
      PROVE  FailuresAreCounted'
  <2>1. \A x \in Origins \cup Accounts :
          /\ attempts'[x].count = attempts[x].count
          /\ attempts'[x].block \in {attempts[x].block, "ended"}
          /\ attempts'[x].block = "ended" => attempts[x].block \in {"ended", "running"}
    BY <1>1, <1>2, <1>3 DEF WindowPasses, BlockEnds, IsBlocked, AttemptRows
  <2>2. \A x \in Origins \cup Accounts : LetIn(x)' = LetIn(x)
    BY <1>3 DEF WindowPasses, BlockEnds, LetIn
  <2>3. DOMAIN attempts' = DOMAIN attempts /\ DOMAIN attempts = Origins \cup Accounts
    BY <1>1, <1>3 DEF WindowPasses, BlockEnds
  <2> SUFFICES ASSUME NEW x \in Origins \cup Accounts
               PROVE  /\ attempts'[x].block = "none" => attempts'[x].count < MaxFailures
                      /\ attempts'[x].block = "running" =>
                           attempts'[x].count + Cardinality(LetIn(x)') <= MaxFailures + Cardinality(Requests) - 1
                      /\ attempts'[x].block = "ended" =>
                           attempts'[x].count <= MaxFailures + Cardinality(Requests) - 1
    BY <2>3 DEF FailuresAreCounted
  <2>4. attempts[x].count \in Nat /\ Cardinality(LetIn(x)) \in Nat /\ Cardinality(Requests) \in Nat
    BY <1>1, <1>2, LetInCount DEF AttemptRows
  <2>5. /\ attempts[x].block = "none" => attempts[x].count < MaxFailures
        /\ attempts[x].block = "running" =>
             attempts[x].count + Cardinality(LetIn(x)) <= MaxFailures + Cardinality(Requests) - 1
        /\ attempts[x].block = "ended" => attempts[x].count <= MaxFailures + Cardinality(Requests) - 1
    BY <2>3 DEF FailuresAreCounted
  <2>6. QED
    BY <1>1, <2>1, <2>2, <2>4, <2>5
<1>4. ASSUME NEW q \in Requests, RegisterFailure(q)
      PROVE  FailuresAreCounted'
  <2> DEFINE failed == {request[q].origin, request[q].account}
  <2>1. attempts' = [k \in Origins \cup Accounts |->
          IF k \in failed THEN Increment(attempts[k]) ELSE attempts[k]]
    BY <1>4, FailureCounts
  <2>2. request[q].phase = "allowed" /\ NobodyLetIn /\ request'[q].phase # "allowed"
    BY <1>4, DoneRow, IdleRow DEF RegisterFailure, IsDone, Becomes, AccessTypeOK
  <2>3. \A k : LetIn(k)' \subseteq LetIn(k) \ {q}
    BY <2>2 DEF NobodyLetIn, LetIn
  <2>4. \A k \in failed : q \in LetIn(k)
    BY <2>2 DEF LetIn
  <2> SUFFICES ASSUME NEW x \in Origins \cup Accounts
               PROVE  /\ attempts'[x].block = "none" => attempts'[x].count < MaxFailures
                      /\ attempts'[x].block = "running" =>
                           attempts'[x].count + Cardinality(LetIn(x)') <= MaxFailures + Cardinality(Requests) - 1
                      /\ attempts'[x].block = "ended" =>
                           attempts'[x].count <= MaxFailures + Cardinality(Requests) - 1
    BY <2>1 DEF FailuresAreCounted
  <2>5. attempts[x].count \in Nat /\ Cardinality(LetIn(x)) \in Nat /\ Cardinality(LetIn(x)') \in Nat
        /\ Cardinality(Requests) \in Nat /\ Cardinality(LetIn(x)') <= Cardinality(LetIn(x))
        /\ attempts[x].block \in {"none", "running", "ended"}
    BY <1>1, <1>2, <2>3, LetInCount DEF AttemptRows
  <2>6. /\ attempts[x].block = "none" => attempts[x].count < MaxFailures
        /\ attempts[x].block = "running" =>
             attempts[x].count + Cardinality(LetIn(x)) <= MaxFailures + Cardinality(Requests) - 1
        /\ attempts[x].block = "ended" => attempts[x].count <= MaxFailures + Cardinality(Requests) - 1
    BY <1>1 DEF FailuresAreCounted
  <2>7. CASE x \notin failed
    BY <1>1, <2>1, <2>5, <2>6, <2>7
  <2>8. CASE x \in failed
    <3> DEFINE row == attempts[x]
               count == IF row.over \/ row.block = "ended" THEN 1 ELSE row.count + 1
    <3>1. attempts'[x].count = count
          /\ attempts'[x].block = IF count >= MaxFailures THEN "running" ELSE "none"
      BY <2>1, <2>8 DEF Increment
    <3>2. /\ Cardinality(LetIn(x)') <= Cardinality(LetIn(x)) - 1
          /\ Cardinality(LetIn(x)') <= Cardinality(Requests) - 1
      <4>1. LetIn(x)' \in SUBSET (LetIn(x) \ {q}) /\ LetIn(x)' \in SUBSET (Requests \ {q})
        BY <1>1, <2>3
      <4>2. QED
        BY <1>1, <2>4, <2>8, <4>1, LetInCount
    <3>3. count \in {1, row.count + 1}
      OBVIOUS
    <3> HIDE DEF count
    <3>4. CASE count = 1
      BY <1>1, <2>5, <3>1, <3>2, <3>4
    <3>5. CASE count = row.count + 1 /\ row.block = "none"
      BY <1>1, <2>5, <2>6, <3>1, <3>2, <3>5
    <3>6. CASE count = row.count + 1 /\ row.block = "running"
      BY <1>1, <2>5, <2>6, <3>1, <3>2, <3>6
    <3>7. row.block = "ended" => count = 1
      BY DEF count
    <3>8. QED
      BY <2>5, <3>3, <3>4, <3>5, <3>6, <3>7
  <2>9. QED
    BY <2>7, <2>8
<1>5. ASSUME NEW q \in Requests, VerifyPassword(q)
      PROVE  FailuresAreCounted'
  <2>1. [request[q] EXCEPT !.phase = "trusted"].phase # "allowed"
    BY <1>5, RequestFields DEF VerifyPassword
  <2>2. QED
    BY <1>5, <2>1, OtherRow, LetInShrinks, CountsKept DEF VerifyPassword
<1>6. ASSUME NEW q \in Requests, NEW t \in Tokens, CreateSession(q, t)
      PROVE  FailuresAreCounted'
  <2>1. NobodyLetIn
    BY <1>6, DoneRow DEF CreateSession
  <2>2. CASE UNCHANGED attempts
    BY <2>1, <2>2, LetInShrinks, CountsKept
  <2>3. CASE attempts' = [attempts EXCEPT ![request[q].account] = NoAttempt]
    <3> SUFFICES ASSUME NEW x \in Origins \cup Accounts
                 PROVE  /\ attempts'[x].block = "none" => attempts'[x].count < MaxFailures
                        /\ attempts'[x].block = "running" =>
                             attempts'[x].count + Cardinality(LetIn(x)') <= MaxFailures + Cardinality(Requests) - 1
                        /\ attempts'[x].block = "ended" =>
                             attempts'[x].count <= MaxFailures + Cardinality(Requests) - 1
      BY <1>1, <2>3 DEF FailuresAreCounted
    <3>1. attempts'[x] = NoAttempt \/ attempts'[x] = attempts[x]
      BY <1>1, <2>3
    <3>2. attempts[x].count \in Nat /\ Cardinality(LetIn(x)) \in Nat /\ Cardinality(LetIn(x)') \in Nat
          /\ Cardinality(Requests) \in Nat /\ Cardinality(LetIn(x)') <= Cardinality(LetIn(x))
      BY <1>1, <1>2, <2>1, LetInShrinks, LetInCount DEF AttemptRows
    <3>3. CASE attempts'[x] = NoAttempt
      BY <1>1, <3>3 DEF NoAttempt
    <3>4. CASE attempts'[x] = attempts[x]
      BY <1>1, <3>2, <3>4 DEF FailuresAreCounted
    <3>5. QED
      BY <3>1, <3>3, <3>4
  <2>4. QED
    BY <1>6, <2>2, <2>3 DEF CreateSession
<1>7. ASSUME NEW q \in Requests, NEW a \in Accounts, LoginGoogle(q, a)
      PROVE  FailuresAreCounted'
  BY <1>7, OtherRow, LetInShrinks, CountsKept DEF LoginGoogle
<1>8. ASSUME NEW q \in Requests, NEW a \in Accounts, NEW origin \in Origins, Login(q, a, origin)
      PROVE  FailuresAreCounted'
  <2>1. request'[q] = [phase |-> "allowed", account |-> a, origin |-> origin]
        /\ \A p \in Requests \ {q} : request'[p] = request[p]
    BY <1>8 DEF Login, Becomes, AccessTypeOK
  <2>2. ~IsBlocked(a) /\ ~IsBlocked(origin)
    BY <1>8 DEF Login, AssertAllowed
  <2>3. \A k \in DOMAIN attempts : IsBlocked(k) => LetIn(k)' \subseteq LetIn(k)
    BY <2>1, <2>2 DEF LetIn
  <2>4. QED
    BY <1>8, <2>3, CountsKept DEF Login
<1>9. QED
  BY <1>3, <1>4, <1>5, <1>6, <1>7, <1>8 DEF LoginStep

-----------------------------------------------------------------------------
(* The invariant of accounts, sessions and attempts. *)
PersonnelVars == <<accessVars, profile>>

LEMMA AccessStart ==
  ASSUME AccessInit
  PROVE  AccessInv
<1>1. AccessTypeOK
  <2>1. account \in [Accounts -> AccountRows]
    BY AdministratorIsRole DEF AccessInit, AccountRows
  <2>2. /\ asked \in [Accounts -> Answers]
        /\ person \in [Persons -> Accounts \cup {Nobody}] /\ \A p \in Persons : person[p] = Nobody
    BY DEF AccessInit, Answers
  <2>3. token \in [Tokens -> TokenRows] /\ \A t \in Tokens : token[t].status # "live"
    BY DEF AccessInit, TokenRows, NoToken
  <2>4. attempts \in [Origins \cup Accounts -> AttemptRows]
    BY DEF AccessInit, AttemptRows, NoAttempt
  <2>5. request \in [Requests -> RequestRows]
    BY IdleRow DEF AccessInit
  <2>6. QED
    BY <2>1, <2>2, <2>3, <2>4, <2>5 DEF AccessTypeOK
<1>2. \A q \in Requests : request[q].phase = "idle"
  BY IdleRow DEF AccessInit
<1>3. TokensInUse /\ GrantsHold
  BY <1>2 DEF TokensInUse, GrantsHold
<1>4. FailuresAreCounted
  BY FailuresAreAllowed DEF AccessInit, FailuresAreCounted, NoAttempt
<1>5. QED
  BY <1>1, <1>3, <1>4 DEF AccessInv

LEMMA PersonnelRows ==
  ASSUME AccessInv, [PersonnelNext]_PersonnelVars
  PROVE  RowsStep /\ FailuresAreCounted'
<1>1. CASE UNCHANGED PersonnelVars
  <2>1. UNCHANGED <<account, asked, person, token, attempts, request>>
    BY <1>1 DEF PersonnelVars, accessVars
  <2>2. FailuresAreCounted'
    BY <2>1, CountsKept DEF LetIn
  <2>3. QED
    BY <2>1, <2>2, NothingMoves DEF RowsStep, AccessInv
<1>2. CASE LoginStep
  BY <1>2, LoginStepRows, LoginCounts
<1>3. CASE SessionStep \/ AccountStep \/ StaffStep \/ \E q \in Requests : ChangePassword(q)
  <2>1. RowsStep
    BY <1>3, SessionStepRows, AccountStepRows, StaffStepRows, PasswordRows
  <2>2. NobodyLetIn /\ UNCHANGED attempts
    BY <1>3, CommandsLetNobodyIn
  <2>3. QED
    BY <2>1, <2>2, LetInShrinks, CountsKept
<1>4. QED
  BY <1>1, <1>2, <1>3 DEF PersonnelNext, AccessNext

(* A request knows of a session that was made, and what it knows of the account
   is so for as long as that session lives. *)
LEMMA AccessStep ==
  ASSUME AccessInv, [PersonnelNext]_PersonnelVars
  PROVE  AccessInv'
<1>1. RowsStep /\ FailuresAreCounted'
  BY PersonnelRows
<1>2. AccessTypeOK'
  BY <1>1, TokensKept DEF RowsStep, RequestsStep, AccountsStep, LinksStep, AccessInv, AccessTypeOK
<1>3. \A t \in Tokens : token[t] # NoToken =>
        /\ token'[t] # NoToken
        /\ token'[t].status = "live" => token[t].status = "live" /\ token'[t].account = token[t].account
  BY <1>1, TokensKept DEF RowsStep, AccessInv
<1>4. ASSUME NEW q \in Requests, request'[q].phase \in {"read", "served", "ending"}
      PROVE  /\ token'[request'[q].token] # NoToken
             /\ request'[q].phase = "read" /\ token'[request'[q].token].status = "live" =>
                  account'[token'[request'[q].token].account] =
                    [status |-> "active", role |-> request'[q].role, mustChange |-> request'[q].mustChange]
  <2>1. CASE request'[q] = request[q]
    <3> DEFINE t == request[q].token
    <3>1. t \in Tokens /\ token[t] # NoToken
      BY <1>4, <2>1, RequestFields DEF AccessInv, TokensInUse
    <3>2. SUFFICES ASSUME request[q].phase = "read", token'[t].status = "live"
                   PROVE  account'[token'[t].account] =
                     [status |-> "active", role |-> request[q].role, mustChange |-> request[q].mustChange]
      BY <1>3, <2>1, <3>1
    <3>3. token[t].status = "live" /\ token'[t].account = token[t].account /\ token[t].account \in Accounts
      BY <1>3, <3>1, <3>2, TokenFields DEF AccessInv
    <3>4. account[token[t].account] =
            [status |-> "active", role |-> request[q].role, mustChange |-> request[q].mustChange]
      BY <3>2, <3>3 DEF AccessInv, GrantsHold
    <3>5. account'[token[t].account] = account[token[t].account]
      BY <1>1, <3>1, <3>2, <3>3, <3>4 DEF RowsStep, AccountsStep
    <3>6. QED
      BY <3>3, <3>4, <3>5
  <2>2. CASE \E t \in Tokens : ReadSession(q, t)
    <3>1. PICK t \in Tokens : ReadSession(q, t)
      BY <2>2
    <3> DEFINE row == account[token[t].account]
    <3>2. /\ request'[q] = IF row.status = "active" /\ token[t].age = "fresh"
                            THEN [phase |-> "read", token |-> t, role |-> row.role, mustChange |-> row.mustChange]
                            ELSE [phase |-> "ending", token |-> t]
          /\ UNCHANGED <<account, token>> /\ token[t].status = "live"
      BY <3>1 DEF ReadSession, Becomes, AccessInv, AccessTypeOK
    <3>3. token[t] # NoToken /\ row \in AccountRows
      BY <3>2, TokenFields DEF AccessInv, AccessTypeOK
    <3>4. row = [status |-> row.status, role |-> row.role, mustChange |-> row.mustChange]
      BY <3>3 DEF AccountRows
    <3>5. request'[q].token = t
      BY <3>2
    <3>6. request'[q].phase = "read" =>
            row.status = "active" /\ request'[q].role = row.role /\ request'[q].mustChange = row.mustChange
      BY <3>2
    <3> HIDE DEF row
    <3>7. QED
      BY <3>2, <3>3, <3>4, <3>5, <3>6 DEF row
  <2>3. CASE /\ request[q].phase = "read" /\ request'[q].phase # "read"
             /\ request'[q].token = request[q].token
    BY <1>3, <2>3, RequestFields DEF AccessInv, TokensInUse
  <2>4. QED
    BY <1>1, <1>4, <2>1, <2>2, <2>3 DEF RowsStep, RequestsStep
<1>5. QED
  BY <1>1, <1>2, <1>4 DEF AccessInv, TokensInUse, GrantsHold

LEMMA AccessInvariant == PersonnelSpec => []AccessInv
<1>1. AccessInit => AccessInv
  BY AccessStart
<1>2. AccessInv /\ [PersonnelNext]_<<accessVars, profile>> => AccessInv'
  BY AccessStep DEF PersonnelVars
<1>3. QED
  BY <1>1, <1>2, PTL DEF PersonnelSpec

(* A request is served by renewing its session, which is live. *)
LEMMA OnlyTouchServes ==
  ASSUME AccessInv, [PersonnelNext]_<<accessVars, profile>>,
         NEW q \in Requests, request[q].phase = "read", request'[q].phase = "served"
  PROVE  token[request[q].token].status = "live"
<1>1. RequestsStep
  BY PersonnelRows DEF PersonnelVars, RowsStep
<1>2. ~ \E t \in Tokens : ReadSession(q, t)
  BY DEF ReadSession, Becomes, AccessInv, AccessTypeOK
<1>3. QED
  BY <1>1, <1>2 DEF RequestsStep

(* Rows keep their types whoever logs in, archives or is archived at once; no
   account has two sessions, and no two people have one account. *)
THEOREM AccessTypeCorrect == PersonnelSpec => []AccessTypeOK
<1>1. AccessInv => AccessTypeOK
  BY DEF AccessInv
<1>2. QED
  BY <1>1, AccessInvariant, PTL

(* However many guess passwords side by side, a limit of failures is passed by
   no more than those who were let in before the last of them failed. *)
THEOREM GuessesAreLimited == PersonnelSpec => []FailuresAreBounded
<1>1. AccessInv => FailuresAreBounded
  <2> SUFFICES ASSUME AccessInv, NEW k \in DOMAIN attempts
               PROVE  attempts[k].count <= MaxFailures + Cardinality(Requests) - 1
    BY DEF FailuresAreBounded
  <2>1. LetIn(k) \in SUBSET Requests
    BY DEF LetIn
  <2>2. Cardinality(LetIn(k)) \in Nat /\ Cardinality(Requests) \in Nat
    BY <2>1, LetInCount
  <2>3. attempts[k].count \in Nat /\ attempts[k].block \in {"none", "running", "ended"}
    BY DEF AccessInv, AccessTypeOK, AttemptRows
  <2>4. QED
    BY <2>2, <2>3, FailuresAreAllowed DEF AccessInv, FailuresAreCounted
<1>2. QED
  BY <1>1, AccessInvariant, PTL

(* A session that was read while its account was active, and renewed later, is
   served under the role the account has then: every command that changes an
   active account ends the sessions it has. *)
THEOREM RequestsServedAsGranted == PersonnelSpec => ServedAsGranted
<1> DEFINE Granted ==
      \A q \in Requests : request[q].phase = "read" /\ request'[q].phase = "served" =>
        account[Actor(q)] =
          [status |-> "active", role |-> request[q].role, mustChange |-> request[q].mustChange]
<1>1. ASSUME AccessInv, [PersonnelNext]_<<accessVars, profile>>
      PROVE  Granted
  <2> SUFFICES ASSUME NEW q \in Requests, request[q].phase = "read", request'[q].phase = "served"
               PROVE  account[Actor(q)] =
                 [status |-> "active", role |-> request[q].role, mustChange |-> request[q].mustChange]
    OBVIOUS
  <2>1. token[request[q].token].status = "live"
    BY <1>1, OnlyTouchServes
  <2>2. QED
    BY <1>1, <2>1 DEF AccessInv, GrantsHold, Actor
<1>2. QED
  BY <1>1, AccessInvariant, PTL DEF PersonnelSpec, ServedAsGranted

-----------------------------------------------------------------------------
(* Punches.  Rows are of their types; a key and a code on the screen have one
   punch: a code that made one is kept until it is shown no longer. *)
AttendanceTypeOK ==
  /\ now \in Moments /\ punches \subseteq Punches /\ nonces \subseteq Moments
  /\ correction \in [PunchKeys -> Decisions]
  /\ report \in [Reports -> ReportRows]

KeysHaveOnePunch == \A x, y \in punches : x.key = y.key => x = y

UsedCodesAreKept ==
  \A x \in punches : x.code # Nobody => x.code \in nonces \/ x.code + Ttl < now

AttendanceInv ==
  AttendanceTypeOK /\ KeysHaveOnePunch /\ UsedCodesAreKept /\ AnsweredWithOwnPunch /\ CodePunchesOnce

LEMMA ReportFields ==
  ASSUME AttendanceTypeOK, NEW r \in Reports
  PROVE  /\ report[r].phase = "new" => report[r] \in
              [phase : {"new"}, key : PunchKeys, person : Persons, movement : Movements, at : Moments]
         /\ report[r].phase = "verified" => report[r] \in
              [phase : {"verified"}, key : PunchKeys, code : Moments, account : Accounts,
               person : Persons \cup {Nobody}, movement : Movements \cup {"any"}]
         /\ report[r].phase = "deciding" => report[r] \in
              [phase : {"deciding"}, key : PunchKeys, to : {"Aprobado", "Rechazado"}]
  BY DEF AttendanceTypeOK, ReportRows, Idle

LEMMA MomentsAreIntegers ==
  /\ Moments \subseteq Int /\ ByHand \subseteq Moments
  /\ Ttl \in Int /\ Grace \in Int /\ Gap \in Int
  BY PeriodsAreNumbers, MomentsAreNumbers DEF Moments

(* A punch that has the key is found by it, and an answer with it is its own. *)
LEMMA FoundByKey ==
  ASSUME NEW k, HasKey(k)
  PROVE  PunchOf(k) \in punches /\ PunchOf(k).key = k
  BY DEF HasKey, PunchOf

LEMMA AnswerFits ==
  ASSUME AttendanceTypeOK, NEW p \in Persons \cup {Nobody}, NEW movement \in Movements \cup {"any"},
         NEW k, HasKey(k)
  PROVE  LET answer == AnswerIfAgrees(p, movement, PunchOf(k)) IN
         /\ answer \in ReportRows /\ answer.phase \in {"idle", "answered"}
         /\ answer.phase = "answered" =>
              Agrees(answer.person, answer.movement, answer.punch) /\ answer.punch \in punches
<1>1. PunchOf(k) \in punches /\ PunchOf(k) \in Punches
  BY FoundByKey DEF AttendanceTypeOK
<1>2. CASE Agrees(p, movement, PunchOf(k))
  BY <1>1, <1>2 DEF AnswerIfAgrees, AnswerWith, ReportRows
<1>3. CASE ~Agrees(p, movement, PunchOf(k))
  BY <1>3 DEF AnswerIfAgrees, Idle, ReportRows
<1>4. QED
  BY <1>2, <1>3

(* A report changes, and no punch is made. *)
LEMMA OnlyReport ==
  ASSUME AttendanceInv, UNCHANGED <<now, punches, nonces, correction>>,
         NEW r \in Reports, NEW row \in ReportRows, Reported(r, row),
         row.phase = "answered" => Agrees(row.person, row.movement, row.punch) /\ row.punch \in punches
  PROVE  AttendanceInv'
<1>1. report' \in [Reports -> ReportRows] /\ report'[r] = row
      /\ \A q \in Reports \ {r} : report'[q] = report[q]
  BY DEF Reported, AttendanceInv, AttendanceTypeOK
<1>2. AttendanceTypeOK' /\ UsedCodesAreKept' /\ CodePunchesOnce'
  BY <1>1 DEF AttendanceInv, AttendanceTypeOK, UsedCodesAreKept, CodePunchesOnce
<1>3. KeysHaveOnePunch'
  BY <1>1 DEF AttendanceInv, KeysHaveOnePunch, HasKey
<1>4. AnsweredWithOwnPunch'
  BY <1>1 DEF AttendanceInv, KeysHaveOnePunch, AnsweredWithOwnPunch, Agrees
<1>5. QED
  BY <1>2, <1>3, <1>4 DEF AttendanceInv

(* A punch is made for a key that has none, and is the answer. *)
LEMMA NewPunch ==
  ASSUME AttendanceInv, UNCHANGED <<now, correction>>,
         NEW r \in Reports, NEW x \in Punches, ~HasKey(x.key), punches' = punches \cup {x},
         NEW p \in Persons \cup {Nobody}, NEW movement \in Movements \cup {"any"},
         Agrees(p, movement, x), Reported(r, AnswerWith(p, movement, x)),
         \/ x.code = Nobody /\ nonces' = nonces
         \/ x.code \in Moments \ nonces /\ x.at = now /\ nonces' = nonces \cup {x.code}
  PROVE  AttendanceInv'
<1> DEFINE row == AnswerWith(p, movement, x)
<1>1. row \in ReportRows /\ row.phase = "answered" /\ row.person = p /\ row.movement = movement /\ row.punch = x
  BY DEF AnswerWith, ReportRows
<1>2. report' \in [Reports -> ReportRows] /\ report'[r] = row
      /\ \A q \in Reports \ {r} : report'[q] = report[q]
  BY <1>1 DEF Reported, AttendanceInv, AttendanceTypeOK
<1> HIDE DEF row
<1>3. AttendanceTypeOK'
  BY <1>2 DEF AttendanceInv, AttendanceTypeOK
<1>4. KeysHaveOnePunch'
  BY <1>1, <1>2 DEF AttendanceInv, KeysHaveOnePunch, HasKey
<1>5. AnsweredWithOwnPunch'
  BY <1>1, <1>2 DEF AttendanceInv, KeysHaveOnePunch, HasKey, AnsweredWithOwnPunch, Agrees
<1>6. UsedCodesAreKept'
  BY DEF AttendanceInv, UsedCodesAreKept
<1>7. CodePunchesOnce'
  <2>1. \A y \in punches : y.code = x.code /\ x.code # Nobody => x.at > x.code + Ttl
    BY MomentsAreIntegers DEF AttendanceInv, AttendanceTypeOK, UsedCodesAreKept
  <2>2. QED
    BY <2>1 DEF AttendanceInv, CodePunchesOnce
<1>8. QED
  BY <1>3, <1>4, <1>5, <1>6, <1>7 DEF AttendanceInv

LEMMA IdleReport == Idle \in ReportRows /\ Idle.phase = "idle"
  BY DEF Idle, ReportRows

(* Codes age, and are forgotten once they have. *)
LEMMA CodeAges ==
  ASSUME AttendanceInv, UNCHANGED <<punches, correction, report>>, now' \in Moments, now <= now',
         nonces' \subseteq nonces, \A code \in nonces \ nonces' : code + Ttl < now'
  PROVE  AttendanceInv'
<1>1. AttendanceTypeOK'
  BY DEF AttendanceInv, AttendanceTypeOK
<1>2. KeysHaveOnePunch' /\ AnsweredWithOwnPunch' /\ CodePunchesOnce'
  BY DEF AttendanceInv, KeysHaveOnePunch, HasKey, AnsweredWithOwnPunch, Agrees, CodePunchesOnce
<1>3. UsedCodesAreKept'
  <2> SUFFICES ASSUME NEW x \in punches, x.code # Nobody
               PROVE  x.code \in nonces' \/ x.code + Ttl < now'
    BY DEF UsedCodesAreKept
  <2>1. x.code \in Int /\ now \in Int /\ now' \in Int /\ Ttl \in Int
    BY MomentsAreIntegers DEF AttendanceInv, AttendanceTypeOK, Punches
  <2>2. x.code \in nonces \/ x.code + Ttl < now
    BY DEF AttendanceInv, UsedCodesAreKept
  <2>3. QED
    BY <2>1, <2>2
<1>4. QED
  BY <1>1, <1>2, <1>3 DEF AttendanceInv

LEMMA CodeStepInv ==
  ASSUME AttendanceInv, CodeStep
  PROVE  AttendanceInv'
<1>1. CASE Tick
  <2>1. now \in Int /\ now' \in Moments /\ now <= now'
    BY <1>1, PeriodsAreNumbers DEF Tick, AttendanceInv, AttendanceTypeOK, Moments
  <2>2. QED
    BY <1>1, <2>1, CodeAges DEF Tick
<1>2. CASE CleanupExpiredNonces
  <2>1. now \in Int /\ \A code \in nonces : code + Ttl \in Int
    BY MomentsAreIntegers DEF AttendanceInv, AttendanceTypeOK
  <2>2. \A code \in nonces \ nonces' : code + Ttl < now
    BY <1>2, <2>1 DEF CleanupExpiredNonces
  <2>3. now <= now /\ now \in Moments
    BY <2>1 DEF AttendanceInv, AttendanceTypeOK
  <2>4. QED
    BY <1>2, <2>2, <2>3, CodeAges DEF CleanupExpiredNonces
<1>3. ASSUME NEW r \in Reports, PunchWithCode(r)
      PROVE  AttendanceInv'
  <2> DEFINE row == report[r]
  <2>1. /\ row.key \in PunchKeys /\ row.code \in Moments
        /\ row.person \in Persons \cup {Nobody} /\ row.movement \in Movements \cup {"any"}
    BY <1>3, ReportFields DEF PunchWithCode, AttendanceInv
  <2>2. CASE /\ HasKey(row.key)
             /\ Reported(r, AnswerIfAgrees(row.person, row.movement, PunchOf(row.key)))
             /\ UNCHANGED <<now, punches, nonces, correction>>
    BY <2>1, <2>2, AnswerFits, OnlyReport DEF AttendanceInv
  <2>3. CASE Reported(r, Idle) /\ UNCHANGED <<now, punches, nonces, correction>>
    BY <2>3, IdleReport, OnlyReport
  <2>4. ASSUME ~HasKey(row.key), IsUnused(row.code), NEW p \in PersonOf(row), NEW movement \in MovementsOf(row, p),
               punches' = punches \cup
                 {[key |-> row.key, person |-> p, movement |-> movement, at |-> now, code |-> row.code]},
               Reported(r, AnswerWith(row.person, row.movement,
                 [key |-> row.key, person |-> p, movement |-> movement, at |-> now, code |-> row.code])),
               nonces' = nonces \cup {row.code}, UNCHANGED <<now, correction>>
        PROVE  AttendanceInv'
    <3> DEFINE x == [key |-> row.key, person |-> p, movement |-> movement, at |-> now, code |-> row.code]
    <3>1. p \in Persons /\ (row.person # Nobody => p = row.person)
      BY <2>1, <2>4 DEF PersonOf
    <3>2. movement \in Movements /\ (row.movement # "any" => movement = row.movement)
      BY <2>1, <2>4 DEF MovementsOf, Movements
    <3>3. x \in Punches /\ x.key = row.key /\ x.code = row.code /\ x.at = now
      BY <2>1, <3>1, <3>2 DEF Punches, AttendanceInv, AttendanceTypeOK
    <3>4. Agrees(row.person, row.movement, x)
      BY <3>1, <3>2 DEF Agrees
    <3>5. x.code \in Moments \ nonces
      BY <2>1, <2>4, <3>3 DEF IsUnused
    <3>6. punches' = punches \cup {x} /\ Reported(r, AnswerWith(row.person, row.movement, x))
      BY <2>4
    <3> HIDE DEF x
    <3>7. QED
      BY <2>1, <2>4, <3>3, <3>4, <3>5, <3>6, NewPunch
  <2>5. QED
    BY <1>3, <2>2, <2>3, <2>4 DEF PunchWithCode
<1>4. ASSUME NEW r \in Reports, NEW k \in PunchKeys, NEW code \in Moments, NEW a \in Accounts,
             NEW said \in Named, VerifyCode(r, k, code, a, said[1], said[2])
      PROVE  AttendanceInv'
  <2> DEFINE row == [phase |-> "verified", key |-> k, code |-> code, account |-> a,
                     person |-> said[1], movement |-> said[2]]
  <2>1. said[1] \in Persons \cup {Nobody} /\ said[2] \in Movements \cup {"any"}
    BY NamesArePeople DEF Movements
  <2>2. row \in ReportRows /\ row.phase = "verified"
    BY <2>1 DEF ReportRows
  <2>3. Reported(r, row) /\ UNCHANGED <<now, punches, nonces, correction>>
    BY <1>4 DEF VerifyCode
  <2> HIDE DEF row
  <2>4. QED
    BY <2>2, <2>3, OnlyReport
<1>5. QED
  BY <1>1, <1>2, <1>3, <1>4 DEF CodeStep

LEMMA ReportStepInv ==
  ASSUME AttendanceInv, ReportStep
  PROVE  AttendanceInv'
<1>1. ASSUME NEW r \in Reports, InsertPunch(r)
      PROVE  AttendanceInv'
  <2> DEFINE x == [key |-> report[r].key, person |-> report[r].person, movement |-> report[r].movement,
                   at |-> report[r].at, code |-> Nobody]
  <2>1. report[r] \in
          [phase : {"new"}, key : PunchKeys, person : Persons, movement : Movements, at : Moments]
    BY <1>1, ReportFields DEF InsertPunch, AttendanceInv
  <2>2. /\ x \in Punches /\ x.key = report[r].key /\ x.code = Nobody
        /\ x.person \in Persons /\ x.movement \in Movements
    BY <2>1 DEF Punches
  <2>3. CASE HasKey(x.key)
    BY <1>1, <2>3, IdleReport, OnlyReport DEF InsertPunch, PunchBy
  <2>4. CASE ~HasKey(x.key)
    <3>1. /\ Reported(r, AnswerWith(x.person, x.movement, x)) /\ punches' = punches \cup {x}
          /\ UNCHANGED <<now, nonces, correction>>
      BY <1>1, <2>4 DEF InsertPunch, PunchBy
    <3>2. Agrees(x.person, x.movement, x)
      BY DEF Agrees
    <3> HIDE DEF x
    <3>3. QED
      BY <2>2, <2>4, <3>1, <3>2, NewPunch
  <2>5. QED
    BY <2>3, <2>4
<1>2. ASSUME NEW r \in Reports, AnswerReport(r)
      PROVE  AttendanceInv'
  BY <1>2, IdleReport, OnlyReport DEF AnswerReport
<1>3. ASSUME NEW r \in Reports, NEW k \in PunchKeys, NEW p \in Persons, NEW movement \in Movements,
             NEW at \in ByHand, ReportPunch(r, k, p, movement, at)
      PROVE  AttendanceInv'
  <2> DEFINE row == [phase |-> "new", key |-> k, person |-> p, movement |-> movement, at |-> at]
  <2>1. row \in ReportRows /\ row.phase = "new"
    BY MomentsAreIntegers DEF ReportRows
  <2>2. CASE HasKey(k)
    BY <1>3, <2>2, AnswerFits, OnlyReport DEF ReportPunch, AttendanceInv
  <2>3. CASE ~HasKey(k)
    <3>1. Reported(r, row) /\ UNCHANGED <<now, punches, nonces, correction>>
      BY <1>3, <2>3 DEF ReportPunch
    <3> HIDE DEF row
    <3>2. QED
      BY <2>1, <3>1, OnlyReport
  <2>4. QED
    BY <2>2, <2>3
<1>4. QED
  BY <1>1, <1>2, <1>3 DEF ReportStep

LEMMA CorrectionStepInv ==
  ASSUME AttendanceInv, CorrectionStep
  PROVE  AttendanceInv'
<1> DEFINE Decided == correction' \in [PunchKeys -> Decisions]
<1>1. ASSUME NEW k \in PunchKeys, SubmitCorrection(k)
      PROVE  AttendanceInv'
  <2>1. Decided
    BY <1>1 DEF SubmitCorrection, AttendanceInv, AttendanceTypeOK, Decisions
  <2>2. QED
    BY <1>1, <2>1
    DEF SubmitCorrection, AttendanceInv, AttendanceTypeOK, KeysHaveOnePunch, HasKey, UsedCodesAreKept,
        AnsweredWithOwnPunch, Agrees, CodePunchesOnce
<1>2. ASSUME NEW r \in Reports, NEW k \in PunchKeys, NEW to \in {"Aprobado", "Rechazado"},
             ReadCorrection(r, k, to)
      PROVE  AttendanceInv'
  <2> DEFINE row == [phase |-> "deciding", key |-> k, to |-> to]
  <2>1. row \in ReportRows /\ row.phase = "deciding"
    BY DEF ReportRows
  <2>2. Reported(r, row) /\ UNCHANGED <<now, punches, nonces, correction>>
    BY <1>2 DEF ReadCorrection
  <2> HIDE DEF row
  <2>3. QED
    BY <2>1, <2>2, OnlyReport
<1>3. ASSUME NEW r \in Reports, DecideCorrection(r)
      PROVE  AttendanceInv'
  <2>1. report[r].key \in PunchKeys /\ report[r].to \in Decisions
    BY <1>3, ReportFields DEF DecideCorrection, AttendanceInv, Decisions
  <2>2. Decided
    BY <1>3, <2>1 DEF DecideCorrection, AttendanceInv, AttendanceTypeOK
  <2>3. report' \in [Reports -> ReportRows] /\ report'[r].phase = "idle"
        /\ \A q \in Reports \ {r} : report'[q] = report[q]
    BY <1>3, IdleReport DEF DecideCorrection, Reported, AttendanceInv, AttendanceTypeOK
  <2>4. UNCHANGED <<now, punches, nonces>>
    BY <1>3 DEF DecideCorrection
  <2>5. AttendanceTypeOK'
    BY <2>2, <2>3, <2>4 DEF AttendanceInv, AttendanceTypeOK
  <2>6. KeysHaveOnePunch' /\ UsedCodesAreKept' /\ CodePunchesOnce'
    BY <2>3, <2>4 DEF AttendanceInv, KeysHaveOnePunch, HasKey, UsedCodesAreKept, CodePunchesOnce
  <2>7. AnsweredWithOwnPunch'
    BY <2>3, <2>4 DEF AttendanceInv, AnsweredWithOwnPunch, Agrees
  <2>8. QED
    BY <2>5, <2>6, <2>7 DEF AttendanceInv
<1>4. QED
  BY <1>1, <1>2, <1>3 DEF CorrectionStep

LEMMA AttendanceInvariant == AttendanceSpec => []AttendanceInv
<1>1. AttendanceInit => AttendanceInv
  <2> SUFFICES ASSUME AttendanceInit PROVE AttendanceInv
    OBVIOUS
  <2>1. 0 \in Moments
    BY PeriodsAreNumbers DEF Moments
  <2>2. \A r \in Reports : report[r] = Idle
    BY DEF AttendanceInit
  <2>3. QED
    BY <2>1, <2>2, IdleReport
    DEF AttendanceInit, AttendanceInv, AttendanceTypeOK, Decisions, KeysHaveOnePunch, UsedCodesAreKept,
        AnsweredWithOwnPunch, CodePunchesOnce
<1>2. AttendanceInv /\ UNCHANGED attendanceVars => AttendanceInv'
  BY DEF attendanceVars, AttendanceInv, AttendanceTypeOK, KeysHaveOnePunch, HasKey, UsedCodesAreKept,
     AnsweredWithOwnPunch, Agrees, CodePunchesOnce
<1>3. AttendanceInv /\ [AttendanceNext]_<<accessVars, profile, attendanceVars>> => AttendanceInv'
  BY <1>2, CodeStepInv, ReportStepInv, CorrectionStepInv DEF AttendanceNext, AttendanceStep
<1>4. QED
  BY <1>1, <1>3, PTL DEF AttendanceSpec

(* Of the reports that race for a key, or repeat it, with a code or without,
   those that are answered are answered with the one punch the key has, and only
   if it is the one they report; the others are refused or told of an error. *)
THEOREM ReportsAreAnswered == AttendanceSpec => []AnsweredWithOwnPunch
<1>1. AttendanceInv => AnsweredWithOwnPunch
  BY DEF AttendanceInv
<1>2. QED
  BY <1>1, AttendanceInvariant, PTL

(* As long as the kiosk shows a code it makes one punch: a code is forgotten
   only when every later use of it is after its time on the screen. *)
THEOREM CodesAreUsedOnce == AttendanceSpec => []CodePunchesOnce
<1>1. AttendanceInv => CodePunchesOnce
  BY DEF AttendanceInv
<1>2. QED
  BY <1>1, AttendanceInvariant, PTL

-----------------------------------------------------------------------------
(* The car park.  An update that is under way is of a vehicle that is there. *)
ParkingTypeOK ==
  /\ vehicle \in [Vehicles -> VehicleRows]
  /\ charge \in [Vehicles -> Charges]
  /\ closed \subseteq Lodgings
  /\ update \in [Clerks -> Updates]
UpdatesAreOfVehicles ==
  \A c \in Clerks : update[c] # NoUpdate => update[c].vehicle \in Vehicles /\ IsRegistered(update[c].vehicle)
ParkingInv == ParkingTypeOK /\ UpdatesAreOfVehicles /\ PlaceHoldsOne

LEMMA VehicleFields ==
  ASSUME ParkingTypeOK, NEW v \in Vehicles, IsRegistered(v)
  PROVE  vehicle[v] \in [status : {"Dentro", "Fuera", "Archivado"}, slot : Slots, stay : Lodgings \cup {NoStay},
           fee : Fees, charged : BOOLEAN, updated : BOOLEAN]
  BY DEF ParkingTypeOK, VehicleRows, IsRegistered

(* A row that keeps its place and does not come in, or is marked as updated, is
   in nobody's way. *)
LEMMA VehicleChanges ==
  ASSUME ParkingInv, NEW v \in Vehicles, NEW row \in VehicleRows \ {NoVehicle},
         vehicle' = [vehicle EXCEPT ![v] = row],
         \/ row.status # "Dentro" \/ row.updated = TRUE \/ ~IsTaken(v, row.slot)
  PROVE  vehicle' \in [Vehicles -> VehicleRows] /\ PlaceHoldsOne'
         /\ \A w \in Vehicles : IsRegistered(w) => vehicle'[w] # NoVehicle
<1>1. vehicle'[v] = row /\ \A w \in Vehicles \ {v} : vehicle'[w] = vehicle[w]
  BY DEF ParkingInv, ParkingTypeOK
<1>2. vehicle' \in [Vehicles -> VehicleRows]
  BY DEF ParkingInv, ParkingTypeOK
<1>3. PlaceHoldsOne'
  BY <1>1 DEF ParkingInv, PlaceHoldsOne, IsInside, IsTaken
<1>4. QED
  BY <1>1, <1>2, <1>3 DEF IsRegistered

LEMMA ParkingStepInv ==
  ASSUME ParkingInv, [ParkingStep]_parkingVars
  PROVE  ParkingInv'
<1> USE DEF ParkingInv
<1>1. CASE UNCHANGED parkingVars
  BY <1>1 DEF parkingVars, ParkingTypeOK, UpdatesAreOfVehicles, IsRegistered, PlaceHoldsOne, IsInside
<1>2. ASSUME NEW s \in Lodgings, CloseStay(s)
      PROVE  ParkingInv'
  BY <1>2 DEF CloseStay, ParkingTypeOK, UpdatesAreOfVehicles, IsRegistered, PlaceHoldsOne, IsInside
<1>3. ASSUME NEW c \in Clerks, WriteUpdate(c)
      PROVE  ParkingInv'
  <2> DEFINE v == update[c].vehicle
             row == [vehicle[v] EXCEPT !.slot = update[c].slot, !.stay = update[c].stay,
                                       !.fee = update[c].fee, !.updated = TRUE]
  <2>1. /\ update[c] \in [vehicle : Vehicles, slot : Slots, stay : Lodgings \cup {NoStay}, fee : Fees]
        /\ v \in Vehicles /\ IsRegistered(v)
    BY <1>3 DEF WriteUpdate, ParkingTypeOK, Updates, UpdatesAreOfVehicles
  <2>2. row = [status |-> vehicle[v].status, slot |-> update[c].slot, stay |-> update[c].stay,
               fee |-> update[c].fee, charged |-> vehicle[v].charged, updated |-> TRUE]
    <3> DEFINE old == vehicle[v]
               moved == [old EXCEPT !.slot = update[c].slot]
               rented == [moved EXCEPT !.stay = update[c].stay]
               priced == [rented EXCEPT !.fee = update[c].fee]
    <3>1. moved = [status |-> old.status, slot |-> update[c].slot, stay |-> old.stay,
                   fee |-> old.fee, charged |-> old.charged, updated |-> old.updated]
      BY <2>1, VehicleFields
    <3>2. row = [priced EXCEPT !.updated = TRUE]
      OBVIOUS
    <3> HIDE DEF moved
    <3>3. rented = [status |-> old.status, slot |-> update[c].slot, stay |-> update[c].stay,
                    fee |-> old.fee, charged |-> old.charged, updated |-> old.updated]
      BY <3>1
    <3> HIDE DEF rented
    <3>4. priced = [status |-> old.status, slot |-> update[c].slot, stay |-> update[c].stay,
                    fee |-> update[c].fee, charged |-> old.charged, updated |-> old.updated]
      BY <3>3
    <3> HIDE DEF priced, row
    <3>5. QED
      BY <3>2, <3>4
  <2>3. vehicle[v].status \in {"Dentro", "Fuera", "Archivado"} /\ vehicle[v].charged \in BOOLEAN
    BY <2>1, VehicleFields
  <2>4. vehicle' = [vehicle EXCEPT ![v] = row]
    BY <1>3 DEF WriteUpdate
  <2> HIDE DEF row
  <2>5. row \in VehicleRows \ {NoVehicle} /\ row.updated = TRUE
    BY <2>1, <2>2, <2>3 DEF VehicleRows, NoVehicle
  <2>6. /\ vehicle' \in [Vehicles -> VehicleRows] /\ PlaceHoldsOne'
        /\ \A w \in Vehicles : IsRegistered(w) => vehicle'[w] # NoVehicle
    BY <2>1, <2>4, <2>5, VehicleChanges
  <2>7. update' \in [Clerks -> Updates] /\ \A d \in Clerks : update'[d] # NoUpdate => update'[d] = update[d]
    BY <1>3 DEF WriteUpdate, ParkingTypeOK, Updates
  <2>8. QED
    BY <1>3, <2>6, <2>7 DEF WriteUpdate, ParkingTypeOK, UpdatesAreOfVehicles, IsRegistered
<1>4. ASSUME NEW v \in Vehicles, Exit(v) \/ Archive(v)
      PROVE  ParkingInv'
  <2>1. IsRegistered(v)
    BY <1>4 DEF Exit, Archive, IsRegistered, IsInside, NoVehicle
  <2>2. PICK row \in VehicleRows \ {NoVehicle} :
          row.status # "Dentro" /\ vehicle' = [vehicle EXCEPT ![v] = row]
    <3>1. \A status \in {"Fuera", "Archivado"} :
            /\ [vehicle[v] EXCEPT !.status = status] \in VehicleRows \ {NoVehicle}
            /\ [vehicle[v] EXCEPT !.status = status].status # "Dentro"
      BY <2>1, VehicleFields DEF VehicleRows, NoVehicle
    <3>2. CASE Exit(v)
      BY <3>1, <3>2 DEF Exit
    <3>3. CASE Archive(v)
      BY <3>1, <3>3 DEF Archive
    <3>4. QED
      BY <1>4, <3>2, <3>3
  <2>3. /\ vehicle' \in [Vehicles -> VehicleRows] /\ PlaceHoldsOne'
        /\ \A w \in Vehicles : IsRegistered(w) => vehicle'[w] # NoVehicle
    BY <2>2, VehicleChanges
  <2>4. QED
    BY <1>4, <2>3 DEF Exit, Archive, ParkingTypeOK, UpdatesAreOfVehicles, IsRegistered
<1>5. ASSUME NEW v \in Vehicles, ReverseCharge(v)
      PROVE  ParkingInv'
  <2>1. charge' \in [Vehicles -> Charges]
    <3>1. charge[v] \in [stay : Lodgings, amount : Fees, reversed : BOOLEAN]
      BY <1>5 DEF ReverseCharge, ParkingTypeOK, Charges
    <3>2. [charge[v] EXCEPT !.reversed = TRUE] \in Charges
      BY <3>1 DEF Charges
    <3>3. QED
      BY <1>5, <3>2 DEF ReverseCharge, ParkingTypeOK
  <2>2. QED
    BY <1>5, <2>1
    DEF ReverseCharge, ParkingTypeOK, UpdatesAreOfVehicles, IsRegistered, PlaceHoldsOne, IsInside
<1>6. ASSUME NEW v \in Vehicles, NEW slot \in Slots, NEW stay \in Lodgings \cup {NoStay}, NEW fee \in Fees,
             Create(v, slot, stay, fee)
      PROVE  ParkingInv'
  <2> DEFINE row == [status |-> "Dentro", slot |-> slot, stay |-> stay, fee |-> fee,
                     charged |-> IsCharged(stay, fee), updated |-> FALSE]
  <2>1. IsCharged(stay, fee) \in BOOLEAN /\ (IsCharged(stay, fee) => stay \in Lodgings)
    BY DEF IsCharged
  <2>2. row \in VehicleRows \ {NoVehicle} /\ row.slot = slot
    BY <2>1 DEF VehicleRows, NoVehicle
  <2>3. vehicle' = [vehicle EXCEPT ![v] = row] /\ ~IsTaken(v, slot)
    BY <1>6 DEF Create
  <2> HIDE DEF row
  <2>4. /\ vehicle' \in [Vehicles -> VehicleRows] /\ PlaceHoldsOne'
        /\ \A w \in Vehicles : IsRegistered(w) => vehicle'[w] # NoVehicle
    BY <2>2, <2>3, VehicleChanges
  <2>5. charge' \in [Vehicles -> Charges]
    BY <1>6, <2>1 DEF Create, ParkingTypeOK, Charges, NoCharge
  <2>6. QED
    BY <1>6, <2>4, <2>5 DEF Create, ParkingTypeOK, UpdatesAreOfVehicles, IsRegistered
<1>7. ASSUME NEW c \in Clerks, NEW v \in Vehicles, NEW slot \in Slots, NEW stay \in Lodgings \cup {NoStay},
             NEW fee \in Fees, ReadForUpdate(c, v, slot, stay, fee)
      PROVE  ParkingInv'
  <2>1. update' \in [Clerks -> Updates]
    BY <1>7 DEF ReadForUpdate, ParkingTypeOK, Updates
  <2>2. UpdatesAreOfVehicles'
    BY <1>7 DEF ReadForUpdate, UpdatesAreOfVehicles, IsRegistered, ParkingTypeOK
  <2>3. QED
    BY <1>7, <2>1, <2>2 DEF ReadForUpdate, ParkingTypeOK, PlaceHoldsOne, IsInside
<1>8. QED
  BY <1>1, <1>2, <1>3, <1>4, <1>5, <1>6, <1>7 DEF ParkingStep

(* Two vehicles have one place only if an update, which looks without a lock,
   moved one of them there. *)
THEOREM PlacesHoldOne == ParkingSpec => []PlaceHoldsOne
<1>1. ParkingInit => ParkingInv
  BY DEF ParkingInit, ParkingInv, ParkingTypeOK, VehicleRows, Charges, Updates, UpdatesAreOfVehicles,
     PlaceHoldsOne, IsInside, NoVehicle
<1>2. ParkingInv => PlaceHoldsOne
  BY DEF ParkingInv
<1>3. QED
  BY <1>1, <1>2, ParkingStepInv, PTL DEF ParkingSpec
=============================================================================
