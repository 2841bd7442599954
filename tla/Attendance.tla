------------------------------ MODULE Attendance ------------------------------
(***************************************************************************)
(* Who came and went: AttendanceService and DynamicQrService (attendance/).*)
(* A punch made by hand or by a fingerprint reader is looked up by its key *)
(* and inserted without a lock; the unique index of the keys decides, and  *)
(* who loses is told of an error: the clause that would look the punch up  *)
(* tests the code of an error that wraps the one with the code.  A punch   *)
(* with the code on the kiosk's screen is verified first and made under    *)
(* the lock of the property afterwards.                                    *)
(*                                                                         *)
(* The kiosk shows a new code at each moment, and a code is named by its   *)
(* moment.  The moments of the model are those of one day.  Left out: the  *)
(* shift a punch belongs to, where the phone was, the fingerprints.        *)
(***************************************************************************)
EXTENDS Personnel

CONSTANTS
  Horizon,    \* the last moment, a bound of the model
  PunchKeys,  \* idempotency keys of reports
  Reports,    \* reports under way at a time
  Ttl, Grace, \* how long a code is shown, and accepted afterwards
  Gap,        \* the two minutes between punches with a code
  ByHand,     \* moments that punches are reported for by hand
  Named       \* what reports with a code say: whose punch it is, and which

ASSUME PeriodsAreNumbers == Horizon \in Nat /\ Ttl \in Nat /\ Grace \in Nat /\ Gap \in Nat
ASSUME MomentsAreNumbers == ByHand \subseteq 0 .. Horizon
ASSUME NamesArePeople ==
  Named \subseteq (Persons \cup {Nobody}) \X {"Ingreso", "Salida", "any"}

VARIABLES
  now,         \* the clock
  punches,     \* SUBSET Punches, attendance_events
  nonces,      \* codes that were used, attendance_qr_nonces
  correction,  \* [PunchKeys -> Decisions], attendance_corrections, one a punch
  report       \* [Reports -> ReportRows]

attendanceVars == <<now, punches, nonces, correction, report>>

Moments == 0 .. Horizon
Movements == {"Ingreso", "Salida"}
Decisions == {"none", "Solicitado", "Aprobado", "Rechazado"}
(* code: Nobody when the punch was made without one. *)
Punches ==
  [key : PunchKeys, person : Persons, movement : Movements, at : Moments, code : Moments \cup {Nobody}]

(* A report says whose punch it is and which; one with a code may leave both
   to the server: Nobody, "any". *)
ReportRows ==
  {Idle}
  \cup [phase : {"new"}, key : PunchKeys, person : Persons, movement : Movements, at : Moments]
  \cup [phase : {"verified"}, key : PunchKeys, code : Moments, account : Accounts,
        person : Persons \cup {Nobody}, movement : Movements \cup {"any"}]
  \cup [phase : {"answered"}, person : Persons \cup {Nobody}, movement : Movements \cup {"any"}, punch : Punches]
  \cup [phase : {"deciding"}, key : PunchKeys, to : {"Aprobado", "Rechazado"}]

AttendanceInit ==
  /\ now = 0
  /\ punches = {}
  /\ nonces = {}
  /\ correction = [k \in PunchKeys |-> "none"]
  /\ report = [r \in Reports |-> Idle]

-----------------------------------------------------------------------------
Reported(r, row) == report' = [report EXCEPT ![r] = row]
HasKey(k) == \E x \in punches : x.key = k
PunchOf(k) == CHOOSE x \in punches : x.key = k

(* whose, which: what a report says. *)
Agrees(whose, which, x) == whose \in {Nobody, x.person} /\ which \in {"any", x.movement}
AnswerWith(whose, which, x) ==
  [phase |-> "answered", person |-> whose, movement |-> which, punch |-> x]
(* IDEMPOTENCY_KEY_REUSED otherwise. *)
AnswerIfAgrees(whose, which, x) == IF Agrees(whose, which, x) THEN AnswerWith(whose, which, x) ELSE Idle

(* reportManualAttendance, reportBiometricAttendance: the key is looked up. *)
ReportPunch(r, k, p, movement, at) ==
  /\ report[r] = Idle
  /\ Reported(r, IF HasKey(k) THEN AnswerIfAgrees(p, movement, PunchOf(k))
                 ELSE [phase |-> "new", key |-> k, person |-> p, movement |-> movement, at |-> at])
  /\ UNCHANGED <<now, punches, nonces, correction>>

PunchBy(row) ==
  [key |-> row.key, person |-> row.person, movement |-> row.movement, at |-> row.at, code |-> Nobody]

(* A bug to catch: without the index, the key that was free when it was looked up. *)
InsertUnindexed(r) ==
  LET x == PunchBy(report[r]) IN
  /\ report[r].phase = "new"
  /\ Reported(r, AnswerWith(x.person, x.movement, x)) /\ punches' = punches \cup {x}
  /\ UNCHANGED <<now, nonces, correction>>

(* attendance_events_idempotency_unique: whoever loses may only report again. *)
InsertPunch(r) ==
  LET x == PunchBy(report[r]) IN
  /\ report[r].phase = "new"
  /\ IF HasKey(x.key)
     THEN Reported(r, Idle) /\ UNCHANGED punches
     ELSE Reported(r, AnswerWith(x.person, x.movement, x)) /\ punches' = punches \cup {x}
  /\ UNCHANGED <<now, nonces, correction>>

-----------------------------------------------------------------------------
(* verifyToken, before the lock is asked for. *)
VerifyCode(r, k, code, a, p, movement) ==
  /\ report[r] = Idle
  /\ code <= now /\ now <= code + Ttl + Grace
  /\ Reported(r, [phase |-> "verified", key |-> k, code |-> code, account |-> a,
                  person |-> p, movement |-> movement])
  /\ UNCHANGED <<now, punches, nonces, correction>>

(* Whose punch it is: the person named, or whom the account is linked to. *)
PersonOf(row) ==
  IF row.person # Nobody THEN {row.person} ELSE {p \in Persons : person[p] = row.account}

PunchesOf(p) == {x \in punches : x.person = p}
(* Punches made by hand for a moment ahead count as well. *)
PunchedLately(p) == \E x \in PunchesOf(p) : x.at >= now - Gap
LastMovements(p) ==
  {x.movement : x \in {x \in PunchesOf(p) : \A y \in PunchesOf(p) : y.at <= x.at}}
MovementsOf(row, p) ==
  IF row.movement # "any" THEN {row.movement}
  ELSE IF PunchesOf(p) = {} THEN {"Ingreso"}
  ELSE {IF last = "Ingreso" THEN "Salida" ELSE "Ingreso" : last \in LastMovements(p)}

IsUnused(code) == code \notin nonces

(* Under the lock: answered before, or refused, or a punch that uses the code.
   Punches by hand take no lock: the index may refuse one whose key was free. *)
PunchWithCode(r) ==
  LET row == report[r] IN
  /\ row.phase = "verified"
  /\ \/ /\ HasKey(row.key)
        /\ \E answer \in {AnswerIfAgrees(row.person, row.movement, PunchOf(row.key)), Idle} : Reported(r, answer)
        /\ UNCHANGED <<punches, nonces>>
     \/ /\ ~HasKey(row.key)
        /\ \A p \in PersonOf(row) : PunchedLately(p) \/ ~IsUnused(row.code)
        /\ Reported(r, Idle)
        /\ UNCHANGED <<punches, nonces>>
     \/ /\ ~HasKey(row.key) /\ IsUnused(row.code)
        /\ \E p \in PersonOf(row) : \E movement \in MovementsOf(row, p) :
             LET x == [key |-> row.key, person |-> p, movement |-> movement, at |-> now, code |-> row.code] IN
             /\ ~PunchedLately(p)
             /\ punches' = punches \cup {x}
             /\ Reported(r, AnswerWith(row.person, row.movement, x))
        /\ nonces' = nonces \cup {row.code}
  /\ UNCHANGED <<now, correction>>

(* A bug to catch: a used code is forgotten while it is still shown. *)
CleanupTooSoon ==
  /\ nonces' = {code \in nonces : code >= now}
  /\ UNCHANGED <<now, punches, correction, report>>

(* A code is forgotten once it is no longer shown, though it is accepted for
   Grace longer. *)
CleanupExpiredNonces ==
  /\ nonces' = {code \in nonces : code + Ttl >= now}
  /\ UNCHANGED <<now, punches, correction, report>>

-----------------------------------------------------------------------------
SubmitCorrection(k) ==
  /\ HasKey(k) /\ correction[k] = "none"
  /\ correction' = [correction EXCEPT ![k] = "Solicitado"]
  /\ UNCHANGED <<now, punches, nonces, report>>

(* Read without a lock and written whatever became of it: of two supervisors
   the second decides. *)
ReadCorrection(r, k, to) ==
  /\ report[r] = Idle /\ correction[k] = "Solicitado"
  /\ Reported(r, [phase |-> "deciding", key |-> k, to |-> to])
  /\ UNCHANGED <<now, punches, nonces, correction>>

DecideCorrection(r) ==
  /\ report[r].phase = "deciding"
  /\ correction' = [correction EXCEPT ![report[r].key] = report[r].to]
  /\ Reported(r, Idle)
  /\ UNCHANGED <<now, punches, nonces>>

AnswerReport(r) ==
  /\ report[r].phase = "answered"
  /\ Reported(r, Idle)
  /\ UNCHANGED <<now, punches, nonces, correction>>

-----------------------------------------------------------------------------
Tick ==
  /\ now < Horizon
  /\ now' = now + 1
  /\ UNCHANGED <<punches, nonces, correction, report>>

CodeStep ==
  \/ Tick \/ CleanupExpiredNonces
  \/ \E r \in Reports :
       \/ PunchWithCode(r)
       \/ \E k \in PunchKeys, code \in Moments, a \in Accounts, said \in Named :
            VerifyCode(r, k, code, a, said[1], said[2])

ReportStep ==
  \E r \in Reports :
    \/ InsertPunch(r) \/ AnswerReport(r)
    \/ \E k \in PunchKeys, p \in Persons, movement \in Movements, at \in ByHand :
         ReportPunch(r, k, p, movement, at)

CorrectionStep ==
  \E k \in PunchKeys :
    \/ SubmitCorrection(k)
    \/ \E r \in Reports :
         \/ DecideCorrection(r)
         \/ \E to \in {"Aprobado", "Rechazado"} : ReadCorrection(r, k, to)

AttendanceStep == CodeStep \/ ReportStep \/ CorrectionStep

(* Beside whatever is done with people and their accounts meanwhile. *)
AttendanceNext ==
  \/ AttendanceStep /\ UNCHANGED <<accessVars, profile>>
  \/ PersonnelNext /\ UNCHANGED attendanceVars

AttendanceSpec ==
  AccessInit /\ PersonnelInit /\ AttendanceInit
  /\ [][AttendanceNext]_<<accessVars, profile, attendanceVars>>

-----------------------------------------------------------------------------
(* A report that is repeated, be it at the same time and under whatever lock,
   made one punch, and whoever is answered at all is answered with that one,
   never with a punch of somebody else or of another movement. *)
AnsweredWithOwnPunch ==
  \A r \in Reports : report[r].phase = "answered" =>
    /\ Agrees(report[r].person, report[r].movement, report[r].punch) /\ report[r].punch \in punches
    /\ \A x \in punches : x.key = report[r].punch.key => x = report[r].punch

(* As long as a code is on the screen it makes one punch, whoever reports it,
   in whatever order reports are verified and made and used codes forgotten. *)
CodePunchesOnce ==
  \A x, y \in punches :
    (x # y /\ x.code = y.code /\ x.code # Nobody) => x.at > x.code + Ttl \/ y.at > y.code + Ttl
=============================================================================
