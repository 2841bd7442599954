---------------------------- MODULE MCHouseServices ----------------------------
(* The services beside the front desk, for TLC.  They share no state but the
   link of a person to an account, so each behaviour moves one of them: `part`
   says which, and keeps the rest at its start.  The parts about accounts are
   those of Personnel with one thing or another held still. *)
EXTENDS Attendance, Parking, EventSpaces, TLC

CONSTANTS Parts, p1, p2

VARIABLE part

personnelVars == <<accessVars, profile>>
houseVars == <<part, personnelVars, attendanceVars, parkingVars, vars>>

OwnDocument == [p \in Persons |-> p]
Unsaid == {<<Nobody, "any">>, <<p2, "any">>}
TwoEvents == 1 .. 2
Times3 == 0 .. 2
SetupOnly == {[before |-> 1, after |-> 0]}
(* The sets that are interchangeable in all parts. *)
Symmetry == Permutations(Tokens) \cup Permutations(Requests) \cup Permutations(Slots)

HouseInit ==
  /\ part \in Parts
  /\ AccessInit /\ PersonnelInit /\ AttendanceInit /\ ParkingInit /\ Init

(* p1 is given an account before the first punch. *)
LinkPerson ==
  /\ punches = {}
  /\ \E a \in Founders : person' = Claimed(a, p1)
  /\ UNCHANGED <<account, asked, token, attempts, request, profile>>

Moves(name, others) == part = name /\ UNCHANGED <<part, others>>
HouseNext ==
  \/ /\ Moves("logins", <<profile, attendanceVars, parkingVars, vars>>)
     /\ LoginStep
  \/ /\ Moves("accounts", <<attempts, person, profile, attendanceVars, parkingVars, vars>>)
     /\ AccessNext
     /\ \A t \in Tokens : token'[t].age = "fresh"
  \/ /\ Moves("sessions", <<asked, attempts, person, profile, attendanceVars, parkingVars, vars>>)
     /\ AccessNext
     /\ \A u \in Accounts : account'[u].role = Administrator
  \/ /\ Moves("staff", <<attempts, asked, attendanceVars, parkingVars, vars>>)
     /\ PersonnelNext
     /\ \A a \in Accounts : account'[a].role = Administrator
     /\ \A t \in Tokens : token'[t].age = "fresh"
  \/ /\ Moves("reports", <<personnelVars, parkingVars, vars>>)
     /\ CorrectionStep \/ ReportStep
  \/ /\ Moves("codes", <<personnelVars, parkingVars, vars>>)
     /\ CodeStep \/ ReportStep
  \/ /\ Moves("codes", <<attendanceVars, parkingVars, vars>>)
     /\ LinkPerson
  \/ /\ Moves("parking", <<personnelVars, attendanceVars, vars>>)
     /\ ParkingStep
  \/ /\ Moves("events", <<personnelVars, attendanceVars, parkingVars>>)
     /\ Next

HouseSpec == HouseInit /\ [][HouseNext]_houseVars
=============================================================================
