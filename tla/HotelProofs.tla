------------------------------ MODULE HotelProofs ------------------------------
(***************************************************************************)
(* For any number of rooms, reservations, stays, tasks and incidents, and  *)
(* whichever desks are used: rows keep their types, rooms are never booked *)
(* or occupied twice, stays follow their reservations, no room is stranded *)
(* in cleaning, and Hotel implements RoomOccupancy.  Without the incident  *)
(* desk and tasks by hand, the status of a room tells who has it.          *)
(***************************************************************************)
EXTENDS Hotel, FiniteSetTheorems, TLAPS

(* The empty tables have rows of their types. *)
LEMMA InitType == Init => TypeOK
  BY NoneIsNoId DEF Init, HotelInit, TypeOK, RoomStatuses, ReservationRows, StayRows, TaskRows, IncidentRows

(* The front desk keeps the types: a departure completes a reservation that is there. *)
LEMMA FrontDeskType == TypeOK /\ StayMatchesReservation /\ FrontDeskStep => TypeOK'
<1> SUFFICES ASSUME TypeOK, StayMatchesReservation, FrontDeskStep PROVE TypeOK'
  OBVIOUS
<1> USE DEF TypeOK, RoomStatuses
<1>1. ASSUME NEW i \in ReservationIds, NEW r \in Rooms, NEW from \in Days, NEW to \in Days,
             CreateReservation(i, r, from, to)
      PROVE  TypeOK'
  BY <1>1, DaysAreNumbers DEF CreateReservation, ReservationRows
<1>2. ASSUME NEW i \in ReservationIds, NEW s \in StayIds, NEW r \in Rooms,
             NEW from \in Nat, NEW to \in Nat, CreateStay(i, s, r, from, to)
      PROVE  TypeOK'
  BY <1>2 DEF CreateStay, SetRoom, ReservationRows, StayRows
<1>3. ASSUME NEW i \in ReservationIds, NEW s \in StayIds, NEW from \in Days, CheckIn(i, s, from)
      PROVE  TypeOK'
  <2>1. reservation[i].to \in Nat /\ reservation[i].room \in Rooms
    BY <1>3 DEF ReservationRows, NoReservation, CheckIn, ActiveStatusesBeforeArrival
  <2>2. QED
    BY <1>2, <1>3, <2>1, DaysAreNumbers DEF CheckIn
<1>4. ASSUME NEW i \in ReservationIds, NEW s \in StayIds, NEW r \in Rooms,
             NEW from \in Days, NEW to \in Days, WalkIn(i, s, r, from, to)
      PROVE  TypeOK'
  BY <1>2, <1>4, DaysAreNumbers DEF WalkIn
<1>5. ASSUME NEW s \in StayIds, NEW t \in TaskIds, CheckOut(s, t)
      PROVE  TypeOK'
  <2>1. /\ stay[s].status = "active"
        /\ stay[s] \in [status : {"active", "checked_out"}, reservation : ReservationIds, room : Rooms]
    BY <1>5 DEF CheckOut, StayRows, NoStay
  <2>2. reservation[stay[s].reservation] \in ReservationRows \ {NoReservation}
    BY <2>1 DEF StayMatchesReservation, NoReservation
  <2>3. stay' \in [StayIds -> StayRows]
    BY <1>5, <2>1 DEF CheckOut, StayRows
  <2>4. reservation' \in [ReservationIds -> ReservationRows]
    BY <1>5, <2>1, <2>2 DEF CheckOut, ReservationRows
  <2>5. room' \in [Rooms -> RoomStatuses] /\ task' \in [TaskIds -> TaskRows]
    BY <1>5, <2>1 DEF CheckOut, SetRoom, TaskRows
  <2>6. QED
    BY <1>5, <2>3, <2>4, <2>5 DEF CheckOut
<1>6. ASSUME NEW r \in Rooms, CleaningComplete(r)
      PROVE  TypeOK'
  <2>1. PICK t \in TaskIds :
          task[t].status # "absent" /\ task' = [task EXCEPT ![t].status = "approved"]
    BY <1>6 DEF CleaningComplete
  <2>2. task' \in [TaskIds -> TaskRows]
    BY <2>1 DEF TaskRows, NoTask
  <2>3. QED
    BY <1>6, <2>2 DEF CleaningComplete, SetRoom
<1>7. QED
  BY <1>1, <1>3, <1>4, <1>5, <1>6 DEF FrontDeskStep

(* Cleaning tasks, their approval and reported faults keep the types. *)
LEMMA HousekeepingType == TypeOK /\ HousekeepingStep => TypeOK'
<1> SUFFICES ASSUME TypeOK, HousekeepingStep PROVE TypeOK'
  OBVIOUS
<1> USE DEF TypeOK, RoomStatuses
<1>1. ASSUME NEW t \in TaskIds, NEW r \in Rooms, CreateTask(t, r)
      PROVE  TypeOK'
  BY <1>1 DEF CreateTask, SetRoom, TaskRows
<1>2. ASSUME NEW t \in TaskIds, ProgressTask(t)
      PROVE  TypeOK'
  BY <1>2 DEF ProgressTask, NextTaskStatus, TaskRows, NoTask
<1>3. ASSUME NEW t \in TaskIds, ApproveTask(t)
      PROVE  TypeOK'
  <2>1. task[t] \in TaskRows \ {NoTask} /\ task[t].room \in Rooms
    BY <1>3 DEF ApproveTask, TaskRows, NoTask
  <2>2. room' \in [Rooms -> RoomStatuses]
    BY <1>3 DEF ApproveTask, SetRoom
  <2>3. task' \in [TaskIds -> TaskRows]
    BY <1>3, <2>1 DEF ApproveTask, NextTaskStatus, TaskRows
  <2>4. incident' \in [IncidentIds -> IncidentRows]
    <3>1. CASE UNCHANGED incident
      BY <3>1
    <3>2. CASE \E n \in IncidentIds : incident' = [incident EXCEPT ![n] =
                 [status |-> "closed", type |-> "cleaning", room |-> task[t].room,
                  reference |-> t, blocks |-> FALSE]]
      BY <2>1, <3>2 DEF IncidentRows, IncidentTypes
    <3>3. QED
      BY <1>3, <3>1, <3>2 DEF ApproveTask, RecordApproval
  <2>5. QED
    BY <1>3, <2>2, <2>3, <2>4 DEF ApproveTask
<1>4. ASSUME NEW t \in TaskIds, NEW n \in IncidentIds, NEW blocks \in BOOLEAN,
             ReportIncident(t, n, blocks)
      PROVE  TypeOK'
  <2>1. task[t].room \in Rooms
    BY <1>4 DEF ReportIncident, TaskRows, NoTask
  <2>2. QED
    BY <1>4, <2>1 DEF ReportIncident, SetRoom, IncidentRows, IncidentTypes
<1>5. QED
  BY <1>1, <1>2, <1>3, <1>4 DEF HousekeepingStep

(* Blocks, incidents and tickets keep the types. *)
LEMMA OutOfServiceType == TypeOK /\ OutOfServiceStep => TypeOK'
<1> SUFFICES ASSUME TypeOK, OutOfServiceStep PROVE TypeOK'
  OBVIOUS
<1> USE DEF TypeOK, RoomStatuses
<1>1. ASSUME NEW r \in Rooms, NEW blocked \in BOOLEAN, SetBlocked(r, blocked)
      PROVE  TypeOK'
  BY <1>1 DEF SetBlocked, SetRoom
<1>2. ASSUME NEW n \in IncidentIds, NEW type \in IncidentTypes, NEW r \in Rooms \cup {None},
             NEW blocks \in BOOLEAN, InsertIncident(n, type, r, blocks)
      PROVE  incident' \in [IncidentIds -> IncidentRows] /\ UNCHANGED <<reservation, stay, task>>
  BY <1>2 DEF InsertIncident, IncidentRows
<1>3. ASSUME NEW n \in IncidentIds, NEW type \in IncidentTypes, NEW r \in Rooms \cup {None},
             NEW blocks \in BOOLEAN, OpenIncident(n, type, r, blocks)
      PROVE  TypeOK'
  BY <1>2, <1>3 DEF OpenIncident, SetRoom, BlockingStatus
<1>4. ASSUME NEW n \in IncidentIds, NEW r \in Rooms \cup {None}, NEW blocks \in BOOLEAN,
             OpenTicket(n, r, blocks)
      PROVE  TypeOK'
  BY <1>2, <1>4 DEF OpenTicket, BlockForMaintenance, SetRoom, IncidentTypes
<1>5. ASSUME NEW n \in IncidentIds, incident[n].status # "absent",
             NEW status \in {"pending", "assigned", "in_progress", "resolved", "closed"},
             NEW blocks \in BOOLEAN
      PROVE  [incident EXCEPT ![n].status = status, ![n].blocks = blocks]
               \in [IncidentIds -> IncidentRows]
  <2>1. incident[n] \in
          [status : {"pending", "assigned", "in_progress", "resolved", "closed"},
           type : IncidentTypes, room : Rooms \cup {None},
           reference : TaskIds \cup {None}, blocks : BOOLEAN]
    BY <1>5 DEF IncidentRows, NoIncident
  <2>2. [[incident[n] EXCEPT !.status = status] EXCEPT !.blocks = blocks] \in IncidentRows
    BY <2>1 DEF IncidentRows
  <2>3. [incident EXCEPT ![n].status = status, ![n].blocks = blocks] =
          [incident EXCEPT ![n] = [[incident[n] EXCEPT !.status = status] EXCEPT !.blocks = blocks]]
    OBVIOUS
  <2>4. QED
    BY <2>2, <2>3
<1>6. ASSUME NEW n \in IncidentIds, NEW blocks \in BOOLEAN, UpdateIncident(n, blocks)
      PROVE  TypeOK'
  <2>1. incident' \in [IncidentIds -> IncidentRows]
    BY <1>6 DEF UpdateIncident, IncidentRows, NoIncident
  <2>2. QED
    BY <1>6, <2>1 DEF UpdateIncident, SetRoom, BlockingStatus
<1>7. ASSUME NEW n \in IncidentIds, NEW blocks \in BOOLEAN, UpdateTicket(n, blocks)
      PROVE  TypeOK'
  <2>1. incident' \in [IncidentIds -> IncidentRows]
    BY <1>7 DEF UpdateTicket, IsTicket, IncidentRows, NoIncident
  <2>2. QED
    BY <1>7, <2>1 DEF UpdateTicket, BlockForMaintenance, SetRoom
<1>8. ASSUME NEW n \in IncidentIds, ProgressIncident(n)
      PROVE  TypeOK'
  <2> DEFINE next == NextIncidentStatus[incident[n].status]
             releases == /\ next \in {"resolved", "closed"}
                         /\ incident[n].blocks /\ incident[n].room # None
  <2>1. next \in {"assigned", "in_progress", "resolved", "closed"}
    BY <1>8 DEF ProgressIncident, IncidentRows, NoIncident, NextIncidentStatus
  <2>2. (incident[n].blocks /\ ~releases) \in BOOLEAN
    OBVIOUS
  <2>3. incident' = [incident EXCEPT ![n].status = next,
                                     ![n].blocks = incident[n].blocks /\ ~releases]
    BY <1>8 DEF ProgressIncident
  <2>4. incident' \in [IncidentIds -> IncidentRows]
    <3> HIDE DEF next, releases
    <3>1. incident[n].status # "absent"
      BY <1>8 DEF ProgressIncident
    <3>2. QED
      BY <1>5, <2>1, <2>2, <2>3, <3>1
  <2>5. room' \in [Rooms -> RoomStatuses] /\ UNCHANGED <<reservation, stay, task>>
    BY <1>8 DEF ProgressIncident, SetRoom
  <2>6. QED
    BY <2>4, <2>5
<1>9. ASSUME NEW n \in IncidentIds, NEW action \in TicketActions, NEW releaseRoom \in BOOLEAN,
             ProgressTicket(n, action, releaseRoom)
      PROVE  TypeOK'
  <2>1. ActionStatus[action] \in {"assigned", "in_progress", "resolved", "closed"}
    BY DEF TicketActions, ActionStatus
  <2>2. (incident[n].blocks /\ ~releaseRoom) \in BOOLEAN
    OBVIOUS
  <2>3. /\ incident[n].status # "absent"
        /\ incident' = [incident EXCEPT ![n].status = ActionStatus[action],
                                        ![n].blocks = incident[n].blocks /\ ~releaseRoom]
    BY <1>9 DEF ProgressTicket, IsTicket
  <2>4. incident' \in [IncidentIds -> IncidentRows]
    BY <1>5, <2>1, <2>2, <2>3
  <2>5. room' \in [Rooms -> RoomStatuses] /\ UNCHANGED <<reservation, stay, task>>
    BY <1>9 DEF ProgressTicket, ReleaseFromMaintenance, SetRoom
  <2>6. QED
    BY <2>4, <2>5
<1>10. QED
  BY <1>1, <1>3, <1>4, <1>6, <1>7, <1>8, <1>9 DEF OutOfServiceStep

-----------------------------------------------------------------------------
(* What the claims of a room and the stays in it have to do with each      *)
(* other: no two live claims of one room meet because every write of a     *)
(* claim is checked against the others, and no two guests are in house in  *)
(* one room because of the index on active stays.                          *)
OccupancyInv == TypeOK /\ StayMatchesReservation /\ OneActiveStayPerRoom /\ NoDoubleBooking

(* Housekeeping, the incident desk and maintenance move nobody. *)
LEMMA OtherDesksMoveNobody ==
  HousekeepingStep \/ OutOfServiceStep => UNCHANGED <<reservation, stay>>
  BY DEF HousekeepingStep, OutOfServiceStep, CreateTask, ProgressTask, ApproveTask, ReportIncident,
     SetBlocked, OpenIncident, OpenTicket, InsertIncident, UpdateIncident, UpdateTicket,
     ProgressIncident, ProgressTicket

(* So does every step. *)
LEMMA StepType == TypeOK /\ StayMatchesReservation /\ [Next]_hotelVars => TypeOK'
<1> SUFFICES ASSUME TypeOK, StayMatchesReservation, [Next]_hotelVars PROVE TypeOK'
  OBVIOUS
<1>1. CASE UNCHANGED hotelVars
  BY <1>1 DEF hotelVars, TypeOK
<1>2. QED
  BY <1>1, FrontDeskType, HousekeepingType, OutOfServiceType DEF Next

(* A new or an existing reservation gets its stay: CheckIn and WalkIn. *)
LEMMA CreateStayKeepsInv ==
  ASSUME OccupancyInv,
         NEW i \in ReservationIds, NEW s \in StayIds, NEW r \in Rooms,
         NEW from \in Nat, NEW to \in Nat,
         reservation[i].status \in {"absent", "pending", "confirmed"},
         stay[s].status = "absent",
         ExclusionAllows(i, r, from, to),
         CreateStay(i, s, r, from, to)
  PROVE  StayMatchesReservation' /\ OneActiveStayPerRoom' /\ NoDoubleBooking'
<1> DEFINE newStay == [status |-> "active", reservation |-> i, room |-> r]
           newRow == [status |-> "checked_in", room |-> r, from |-> from, to |-> to]
<1>1. /\ stay' = [stay EXCEPT ![s] = newStay]
      /\ reservation' = [reservation EXCEPT ![i] = newRow]
      /\ UniqueIndexesAllow(i, r)
  BY DEF CreateStay
<1>2. /\ stay \in [StayIds -> StayRows]
      /\ reservation \in [ReservationIds -> ReservationRows]
  BY DEF OccupancyInv, TypeOK
<1>3. \A u \in StayIds : stay[u].status # "absent" => stay[u].reservation # i
  BY DEF OccupancyInv, StayMatchesReservation
<1>4. \A u \in StayIds : stay'[u] = IF u = s THEN newStay ELSE stay[u]
  BY <1>1, <1>2
<1>5. \A j \in ReservationIds : reservation'[j] = IF j = i THEN newRow ELSE reservation[j]
  BY <1>1, <1>2
<1> HIDE DEF newStay, newRow
<1>6. /\ newStay.status = "active" /\ newStay.reservation = i /\ newStay.room = r
      /\ newRow.status = "checked_in" /\ newRow.room = r /\ newRow.from = from /\ newRow.to = to
  BY DEF newStay, newRow
<1>7. StayMatchesReservation'
  <2>1. \A u \in StayIds : stay'[u].status # "absent" =>
          /\ reservation'[stay'[u].reservation].room = stay'[u].room
          /\ reservation'[stay'[u].reservation].status =
               IF stay'[u].status = "active" THEN "checked_in" ELSE "completed"
    <3> TAKE u \in StayIds
    <3> HAVE stay'[u].status # "absent"
    <3>1. CASE u = s
      BY <1>4, <1>5, <1>6, <3>1
    <3>2. CASE u # s
      <4>1. stay[u].reservation \in ReservationIds \ {i}
        BY <1>2, <1>3, <1>4, <3>2 DEF StayRows, NoStay
      <4>2. QED
        BY <1>4, <1>5, <3>2, <4>1 DEF OccupancyInv, StayMatchesReservation
    <3>3. QED
      BY <3>1, <3>2
  <2>2. \A j \in ReservationIds : reservation'[j].status \in {"checked_in", "completed"} =>
          \E u \in StayIds : stay'[u].status # "absent" /\ stay'[u].reservation = j
    <3> TAKE j \in ReservationIds
    <3> HAVE reservation'[j].status \in {"checked_in", "completed"}
    <3>1. CASE j = i
      BY <1>4, <1>6, <3>1
    <3>2. CASE j # i
      <4>1. PICK u \in StayIds : stay[u].status # "absent" /\ stay[u].reservation = j
        BY <1>5, <3>2 DEF OccupancyInv, StayMatchesReservation
      <4>2. u # s
        BY <4>1
      <4>3. QED
        BY <1>4, <4>1, <4>2
    <3>3. QED
      BY <3>1, <3>2
  <2>3. \A u, v \in StayIds :
          (stay'[u].status # "absent" /\ stay'[u].reservation = stay'[v].reservation) => u = v
    <3> TAKE u, v \in StayIds
    <3> HAVE stay'[u].status # "absent" /\ stay'[u].reservation = stay'[v].reservation
    <3>1. CASE u # s /\ v # s
      BY <1>4, <3>1 DEF OccupancyInv, StayMatchesReservation
    <3>2. CASE u = s /\ v # s
      <4>1. stay[v].reservation = i
        BY <1>4, <1>6, <3>2
      <4>2. stay[v].status # "absent"
        BY <1>2, <4>1, NoneIsNoId DEF StayRows, NoStay
      <4>3. QED
        BY <1>3, <4>1, <4>2
    <3>3. CASE u # s /\ v = s
      BY <1>3, <1>4, <1>6, <3>3
    <3>4. QED
      BY <3>1, <3>2, <3>3
  <2>4. QED
    BY <2>1, <2>2, <2>3 DEF StayMatchesReservation
<1>8. OneActiveStayPerRoom'
  BY <1>1, <1>4, <1>6 DEF OccupancyInv, OneActiveStayPerRoom, UniqueIndexesAllow
<1>9. NoDoubleBooking'
  <2>1. \A j \in ReservationIds : j # i /\ reservation[j].room = r /\ reservation[j].status \in ActiveStatuses
          => reservation[j].to <= from \/ to <= reservation[j].from
    BY <1>2 DEF ExclusionAllows, Overlaps, ReservationRows, NoReservation
  <2>2. QED
    BY <1>5, <1>6, <2>1 DEF OccupancyInv, NoDoubleBooking
<1>10. QED
  BY <1>7, <1>8, <1>9

(* What a check-in needs of the reservation, and that the stay follows. *)
LEMMA CheckInArrives ==
  ASSUME TypeOK,
         NEW i \in ReservationIds, NEW s \in StayIds, NEW from \in Days, CheckIn(i, s, from)
  PROVE  /\ reservation[i].status \in {"pending", "confirmed"}
         /\ reservation[i].room \in Rooms /\ reservation[i].to \in Nat
         /\ from < reservation[i].to /\ stay[s].status = "absent"
         /\ ExclusionAllows(i, reservation[i].room, from, reservation[i].to)
         /\ CreateStay(i, s, reservation[i].room, from, reservation[i].to)
  BY DEF TypeOK, CheckIn, ActiveStatusesBeforeArrival, IsNextId, IsValidInterval,
     ReservationRows, NoReservation

(* Each command of the front desk keeps the invariant. *)
LEMMA FrontDeskKeepsInv ==
  OccupancyInv /\ FrontDeskStep =>
    StayMatchesReservation' /\ OneActiveStayPerRoom' /\ NoDoubleBooking'
<1> SUFFICES ASSUME OccupancyInv, FrontDeskStep
    PROVE  StayMatchesReservation' /\ OneActiveStayPerRoom' /\ NoDoubleBooking'
  OBVIOUS
<1> USE DEF OccupancyInv
<1>0. /\ stay \in [StayIds -> StayRows]
      /\ reservation \in [ReservationIds -> ReservationRows]
  BY DEF TypeOK
<1>1. ASSUME NEW i \in ReservationIds, NEW r \in Rooms, NEW from \in Days, NEW to \in Days,
             CreateReservation(i, r, from, to)
      PROVE  StayMatchesReservation' /\ OneActiveStayPerRoom' /\ NoDoubleBooking'
  <2> DEFINE newRow == [status |-> "pending", room |-> r, from |-> from, to |-> to]
  <2>1. /\ UNCHANGED stay /\ reservation[i].status = "absent"
        /\ reservation' = [reservation EXCEPT ![i] = newRow]
        /\ ExclusionAllows(i, r, from, to)
    BY <1>1 DEF CreateReservation, IsNextId
  <2>2. \A j \in ReservationIds : reservation'[j] = IF j = i THEN newRow ELSE reservation[j]
    BY <1>0, <2>1
  <2>3. /\ newRow.status = "pending" /\ newRow.room = r
        /\ newRow.from = from /\ newRow.to = to
    OBVIOUS
  <2> HIDE DEF newRow
  <2>4. \A u \in StayIds : stay[u].status # "absent" =>
          stay[u].reservation \in ReservationIds \ {i}
    BY <1>0, <2>1 DEF StayMatchesReservation, StayRows, NoStay
  <2>5. StayMatchesReservation'
    BY <2>1, <2>2, <2>3, <2>4 DEF StayMatchesReservation
  <2>6. OneActiveStayPerRoom'
    BY <2>1 DEF OneActiveStayPerRoom
  <2>7. \A j \in ReservationIds : j # i /\ reservation[j].room = r /\ reservation[j].status \in ActiveStatuses
          => reservation[j].to <= from \/ to <= reservation[j].from
    BY <1>0, <2>1, DaysAreNumbers DEF ExclusionAllows, Overlaps, ReservationRows, NoReservation
  <2>8. NoDoubleBooking'
    BY <2>2, <2>3, <2>7 DEF NoDoubleBooking
  <2>9. QED
    BY <2>5, <2>6, <2>8
<1>2. ASSUME NEW i \in ReservationIds, NEW s \in StayIds, NEW from \in Days, CheckIn(i, s, from)
      PROVE  StayMatchesReservation' /\ OneActiveStayPerRoom' /\ NoDoubleBooking'
  BY <1>2, CheckInArrives, CreateStayKeepsInv, DaysAreNumbers
<1>3. ASSUME NEW i \in ReservationIds, NEW s \in StayIds, NEW r \in Rooms,
             NEW from \in Days, NEW to \in Days, WalkIn(i, s, r, from, to)
      PROVE  StayMatchesReservation' /\ OneActiveStayPerRoom' /\ NoDoubleBooking'
  <2>1. /\ reservation[i].status = "absent" /\ stay[s].status = "absent"
        /\ ExclusionAllows(i, r, from, to) /\ CreateStay(i, s, r, from, to)
    BY <1>3 DEF WalkIn, IsNextId
  <2>2. QED
    BY <2>1, CreateStayKeepsInv, DaysAreNumbers
<1>4. ASSUME NEW s \in StayIds, NEW t \in TaskIds, CheckOut(s, t)
      PROVE  StayMatchesReservation' /\ OneActiveStayPerRoom' /\ NoDoubleBooking'
  <2> DEFINE i == stay[s].reservation
  <2>1. /\ stay[s].status = "active" /\ i \in ReservationIds
        /\ stay' = [stay EXCEPT ![s].status = "checked_out"]
        /\ reservation' = [reservation EXCEPT ![i].status = "completed"]
    BY <1>0, <1>4 DEF CheckOut, StayRows, NoStay
  <2>2. \A u \in StayIds :
          /\ stay'[u].reservation = stay[u].reservation /\ stay'[u].room = stay[u].room
          /\ stay'[u].status = IF u = s THEN "checked_out" ELSE stay[u].status
    BY <1>0, <2>1 DEF StayRows, NoStay
  <2>3. \A j \in ReservationIds :
          /\ reservation'[j].room = reservation[j].room
          /\ reservation'[j].from = reservation[j].from /\ reservation'[j].to = reservation[j].to
          /\ reservation'[j].status = IF j = i THEN "completed" ELSE reservation[j].status
    BY <1>0, <2>1 DEF ReservationRows, NoReservation
  <2>4. \A u \in StayIds : stay[u].status # "absent" =>
          stay[u].reservation \in ReservationIds /\ (u # s => stay[u].reservation # i)
    BY <1>0, <2>1 DEF StayMatchesReservation, StayRows, NoStay
  <2> HIDE DEF i
  <2>5. StayMatchesReservation'
    <3>1. \A u \in StayIds : stay'[u].status # "absent" =>
            /\ reservation'[stay'[u].reservation].room = stay'[u].room
            /\ reservation'[stay'[u].reservation].status =
                 IF stay'[u].status = "active" THEN "checked_in" ELSE "completed"
      BY <2>1, <2>2, <2>3, <2>4 DEF StayMatchesReservation, i
    <3>2. \A j \in ReservationIds : reservation'[j].status \in {"checked_in", "completed"} =>
            \E u \in StayIds : stay'[u].status # "absent" /\ stay'[u].reservation = j
      BY <2>1, <2>2, <2>3 DEF StayMatchesReservation, i
    <3>3. \A u, v \in StayIds :
            (stay'[u].status # "absent" /\ stay'[u].reservation = stay'[v].reservation) => u = v
      BY <2>1, <2>2 DEF StayMatchesReservation
    <3>4. QED
      BY <3>1, <3>2, <3>3 DEF StayMatchesReservation
  <2>6. OneActiveStayPerRoom'
    BY <2>2 DEF OneActiveStayPerRoom
  <2>7. NoDoubleBooking'
    BY <2>3 DEF NoDoubleBooking, ActiveStatuses
  <2>8. QED
    BY <2>5, <2>6, <2>7
<1>5. ASSUME NEW r \in Rooms, CleaningComplete(r)
      PROVE  StayMatchesReservation' /\ OneActiveStayPerRoom' /\ NoDoubleBooking'
  BY <1>5 DEF CleaningComplete, StayMatchesReservation, OneActiveStayPerRoom, NoDoubleBooking
<1>6. QED
  BY <1>1, <1>2, <1>3, <1>4, <1>5 DEF FrontDeskStep

(* The empty hotel satisfies the invariant. *)
LEMMA InitInv == Init => OccupancyInv
  BY InitType DEF OccupancyInv, Init, HotelInit, StayMatchesReservation, OneActiveStayPerRoom,
     NoDoubleBooking, NoStay, NoReservation, ActiveStatuses

(* Every step keeps the invariant. *)
LEMMA StepInv == OccupancyInv /\ [Next]_hotelVars => OccupancyInv'
<1> SUFFICES ASSUME OccupancyInv, [Next]_hotelVars PROVE OccupancyInv'
  OBVIOUS
<1>1. TypeOK'
  BY StepType DEF OccupancyInv
<1>2. CASE UNCHANGED <<reservation, stay>>
  BY <1>1, <1>2 DEF OccupancyInv, StayMatchesReservation, OneActiveStayPerRoom, NoDoubleBooking
<1>3. CASE FrontDeskStep
  BY <1>1, <1>3, FrontDeskKeepsInv DEF OccupancyInv
<1>4. QED
  BY <1>2, <1>3, OtherDesksMoveNobody DEF Next, hotelVars

(* The inductive invariant of the bookings and the stays: whatever the four *)
(* desks do, in any order, it holds.                                       *)
THEOREM Invariance == Spec => []OccupancyInv
  BY InitInv, StepInv, PTL DEF Spec

(* Rows keep the types of their columns, and a row that exists has its     *)
(* room: check-out never completes a reservation that is not there.        *)
THEOREM TypeCorrect == Spec => []TypeOK
  BY Invariance, PTL DEF OccupancyInv

(* No two live reservations of a room overlap, ever.                       *)
THEOREM RoomsAreNeverDoubleBooked == Spec => []NoDoubleBooking
  BY Invariance, PTL DEF OccupancyInv

(* No room ever has two guests in house.                                   *)
THEOREM RoomsAreNeverSharedByStays == Spec => []OneActiveStayPerRoom
  BY Invariance, PTL DEF OccupancyInv

(* Every reservation that was checked in has exactly one stay, which ends  *)
(* with it.                                                                *)
THEOREM StaysFollowReservations == Spec => []StayMatchesReservation
  BY Invariance, PTL DEF OccupancyInv

-----------------------------------------------------------------------------
(* A room is put into 'cleaning' together with a new task, and approving   *)
(* any task of a room in 'cleaning' releases it.                           *)
LEMMA CleaningStep ==
  TypeOK /\ CleaningRoomHasOpenTask /\ [Next]_hotelVars => CleaningRoomHasOpenTask'
<1> SUFFICES ASSUME TypeOK, CleaningRoomHasOpenTask, [Next]_hotelVars
    PROVE  CleaningRoomHasOpenTask'
  OBVIOUS
<1>0. task \in [TaskIds -> TaskRows] /\ room \in [Rooms -> RoomStatuses]
  BY DEF TypeOK
<1>1. CASE UNCHANGED task /\ \A r \in Rooms : room'[r] = "cleaning" => room[r] = "cleaning"
  BY <1>1 DEF CleaningRoomHasOpenTask
<1>2. ASSUME NEW t \in TaskIds, NEW r \in Rooms, NEW s, task[t].status = "absent",
             task' = [task EXCEPT ![t] = [status |-> "pending", room |-> r, stay |-> s]],
             \A q \in Rooms : room'[q] = "cleaning" => q = r \/ room[q] = "cleaning"
      PROVE  CleaningRoomHasOpenTask'
  BY <1>0, <1>2 DEF CleaningRoomHasOpenTask
<1>3. ASSUME NEW t \in TaskIds, task[t].status # "absent",
             task' = [task EXCEPT ![t].status = "approved"],
             \A q \in Rooms : room'[q] = "cleaning" => room[q] = "cleaning" /\ q # task[t].room
      PROVE  CleaningRoomHasOpenTask'
  BY <1>0, <1>3 DEF CleaningRoomHasOpenTask, TaskRows, NoTask
<1>4. CASE FrontDeskStep
  <2>1. CASE UNCHANGED <<room, task>>
    BY <1>1, <2>1
  <2>2. ASSUME NEW i \in ReservationIds, NEW s \in StayIds, NEW r, NEW from, NEW to,
               CreateStay(i, s, r, from, to)
        PROVE  CleaningRoomHasOpenTask'
    BY <1>0, <1>1, <2>2 DEF CreateStay, SetRoom
  <2>3. ASSUME NEW s \in StayIds, NEW t \in TaskIds, CheckOut(s, t)
        PROVE  CleaningRoomHasOpenTask'
    <3>1. stay[s].room \in Rooms
      BY <2>3 DEF CheckOut, TypeOK, StayRows, NoStay
    <3>2. QED
      BY <1>0, <1>2, <2>3, <3>1 DEF CheckOut, SetRoom, IsNextId
  <2>4. ASSUME NEW r \in Rooms, CleaningComplete(r)
        PROVE  CleaningRoomHasOpenTask'
    <3>1. PICK t \in TaskIds : /\ task[t].room = r /\ task[t].status # "absent"
                               /\ task' = [task EXCEPT ![t].status = "approved"]
      BY <2>4 DEF CleaningComplete
    <3>2. QED
      BY <1>0, <1>3, <2>4, <3>1 DEF CleaningComplete, SetRoom
  <2>5. QED
    BY <1>4, <2>1, <2>2, <2>3, <2>4 DEF FrontDeskStep, CreateReservation, CheckIn, WalkIn
<1>5. CASE HousekeepingStep
  <2>1. ASSUME NEW t \in TaskIds, NEW r \in Rooms, CreateTask(t, r)
        PROVE  CleaningRoomHasOpenTask'
    BY <1>0, <1>2, <2>1 DEF CreateTask, SetRoom, IsNextId
  <2>2. ASSUME NEW t \in TaskIds, ProgressTask(t)
        PROVE  CleaningRoomHasOpenTask'
    BY <1>0, <2>2 DEF ProgressTask, NextTaskStatus, CleaningRoomHasOpenTask, TaskRows, NoTask
  <2>3. ASSUME NEW t \in TaskIds, ApproveTask(t)
        PROVE  CleaningRoomHasOpenTask'
    BY <1>0, <1>3, <2>3 DEF ApproveTask, NextTaskStatus, SetRoom
  <2>4. ASSUME NEW t \in TaskIds, NEW n \in IncidentIds, NEW blocks \in BOOLEAN,
               ReportIncident(t, n, blocks)
        PROVE  CleaningRoomHasOpenTask'
    BY <1>0, <1>1, <2>4 DEF ReportIncident, SetRoom
  <2>5. QED
    BY <1>5, <2>1, <2>2, <2>3, <2>4 DEF HousekeepingStep
<1>6. CASE OutOfServiceStep
  <2>1. UNCHANGED task
    BY <1>6 DEF OutOfServiceStep, SetBlocked, OpenIncident, OpenTicket, InsertIncident,
       UpdateIncident, UpdateTicket, ProgressIncident, ProgressTicket
  <2>2. \A q \in Rooms : room'[q] = "cleaning" => room[q] = "cleaning"
    BY <1>0, <1>6 DEF OutOfServiceStep, SetBlocked, OpenIncident, OpenTicket, UpdateIncident,
       UpdateTicket, ProgressIncident, ProgressTicket, SetRoom, BlockingStatus,
       BlockForMaintenance, ReleaseFromMaintenance
  <2>3. QED
    BY <1>1, <2>1, <2>2
<1>7. CASE UNCHANGED hotelVars
  BY <1>1, <1>7 DEF hotelVars
<1>8. QED
  BY <1>4, <1>5, <1>6, <1>7 DEF Next

(* No room is ever stranded in 'cleaning' without a task to approve.       *)
THEOREM CleaningCanBeFinished == Spec => []CleaningRoomHasOpenTask
<1>1. Init => CleaningRoomHasOpenTask
  BY DEF Init, HotelInit, CleaningRoomHasOpenTask
<1>2. QED
  BY <1>1, CleaningStep, TypeCorrect, PTL DEF Spec

-----------------------------------------------------------------------------
(* The refinement: every command moves the claims of RoomOccupancy by one  *)
(* of its steps, or not at all.                                            *)
LEMMA InitRefines == Init => Occupancy!Init
  BY DEF Init, HotelInit, Occupancy!Init, claimOf, PhaseOf, NoReservation

(* What the promise sees of a reservation. *)
LEMMA ClaimFields ==
  \A i \in ReservationIds :
    /\ claimOf[i].phase = PhaseOf(reservation[i].status)
    /\ claimOf[i].room = reservation[i].room
    /\ claimOf[i].from = reservation[i].from
    /\ claimOf[i].to = reservation[i].to
  BY DEF claimOf

(* Two intervals that do not overlap are one before the other. *)
LEMMA NotOverlapping ==
  \A a, b, c, d \in Nat : ~(a < b /\ c > d) => c <= d \/ b <= a
  OBVIOUS

(* A room's interval that the constraint lets in is free in the promise.   *)
LEMMA ExclusionMeansFree ==
  ASSUME TypeOK, NEW i \in ReservationIds, NEW r \in Rooms, NEW from \in Nat, NEW to \in Nat,
         ExclusionAllows(i, r, from, to)
  PROVE  Occupancy!IsFree(i, r, from, to)
<1>1. \A j \in ReservationIds : reservation[j] \in ReservationRows
  BY DEF TypeOK
<1>2. \A j \in ReservationIds :
        PhaseOf(reservation[j].status) \in {"booked", "in house"} =>
          /\ reservation[j].status \in ActiveStatuses
          /\ reservation[j].from \in Nat /\ reservation[j].to \in Nat
  BY <1>1 DEF PhaseOf, ActiveStatuses, ReservationRows, NoReservation
<1>3. QED
  <2> SUFFICES ASSUME NEW j \in ReservationIds \ {i},
                      claimOf[j].room = r, claimOf[j].phase \in {"booked", "in house"}
               PROVE  claimOf[j].to <= from \/ to <= claimOf[j].from
    BY DEF Occupancy!IsFree
  <2>1. /\ reservation[j].room = r /\ reservation[j].status \in ActiveStatuses
        /\ reservation[j].from \in Nat /\ reservation[j].to \in Nat
    BY <1>2, ClaimFields
  <2>2. ~Overlaps(j, from, to)
    BY <2>1 DEF ExclusionAllows
  <2>3. reservation[j].to <= from \/ to <= reservation[j].from
    BY <2>1, <2>2, NotOverlapping DEF Overlaps
  <2>4. QED
    BY <2>3, ClaimFields

(* A room without an active stay has nobody in house in the promise.       *)
LEMMA IndexMeansVacant ==
  ASSUME OccupancyInv, NEW i \in ReservationIds, NEW r \in Rooms, UniqueIndexesAllow(i, r)
  PROVE  Occupancy!IsVacant(r)
<1>1. \A j \in ReservationIds :
        PhaseOf(reservation[j].status) = "in house" => reservation[j].status = "checked_in"
  BY DEF PhaseOf
<1>2. \A j \in ReservationIds : reservation[j].status = "checked_in" =>
        \E s \in StayIds : stay[s].status = "active" /\ stay[s].room = reservation[j].room
  BY DEF OccupancyInv, StayMatchesReservation, TypeOK, StayRows
<1>3. QED
  BY <1>1, <1>2, ClaimFields DEF UniqueIndexesAllow, Occupancy!IsVacant

(* What writing one reservation row does to the claims.                    *)
LEMMA ClaimWritten ==
  ASSUME TypeOK, NEW i \in ReservationIds, NEW status \in {"pending", "checked_in"},
         NEW r, NEW from, NEW to,
         reservation' = [reservation EXCEPT ![i] =
           [status |-> status, room |-> r, from |-> from, to |-> to]]
  PROVE  claimOf' = [claimOf EXCEPT ![i] =
           [phase |-> IF status = "pending" THEN "booked" ELSE "in house",
            room |-> r, from |-> from, to |-> to]]
  BY DEF TypeOK, claimOf, PhaseOf

(* Every step of the hotel is one of the promise, or a stutter. *)
LEMMA StepRefines == OccupancyInv /\ [Next]_hotelVars => [Occupancy!Next]_claimOf
<1> SUFFICES ASSUME OccupancyInv, [Next]_hotelVars PROVE [Occupancy!Next]_claimOf
  OBVIOUS
<1>0. TypeOK
  BY DEF OccupancyInv
<1>1. CASE UNCHANGED reservation
  BY <1>1 DEF claimOf
<1>2. ASSUME NEW i \in ReservationIds, NEW r \in Rooms, NEW from \in Days, NEW to \in Days,
             CreateReservation(i, r, from, to)
      PROVE  Occupancy!Next
  <2>1. claimOf[i].phase = "none"
    BY <1>2, ClaimFields DEF CreateReservation, IsNextId, PhaseOf
  <2>2. Occupancy!IsFree(i, r, from, to)
    BY <1>0, <1>2, ExclusionMeansFree, DaysAreNumbers DEF CreateReservation
  <2>3. claimOf' = [claimOf EXCEPT ![i] =
          [phase |-> "booked", room |-> r, from |-> from, to |-> to]]
    BY <1>0, <1>2, ClaimWritten DEF CreateReservation
  <2>4. QED
    BY <1>2, <2>1, <2>2, <2>3
       DEF CreateReservation, IsValidInterval, Occupancy!Next, Occupancy!Book, Occupancy!Take
<1>3. ASSUME NEW i \in ReservationIds, NEW s \in StayIds, NEW from \in Days, CheckIn(i, s, from)
      PROVE  Occupancy!Next
  <2> DEFINE r == reservation[i].room
             to == reservation[i].to
  <2>1. /\ reservation[i].status \in {"pending", "confirmed"}
        /\ r \in Rooms /\ to \in Nat /\ from < to
        /\ ExclusionAllows(i, r, from, to) /\ CreateStay(i, s, r, from, to)
    BY <1>0, <1>3, CheckInArrives
  <2>2. claimOf[i].phase = "booked" /\ claimOf[i].room = r /\ claimOf[i].to = to
    BY <2>1, ClaimFields DEF PhaseOf
  <2> HIDE DEF r, to
  <2>3. Occupancy!IsFree(i, r, from, to) /\ Occupancy!IsVacant(r)
    BY <1>0, <2>1, ExclusionMeansFree, IndexMeansVacant, DaysAreNumbers DEF CreateStay
  <2>4. claimOf' = [claimOf EXCEPT ![i] =
          [phase |-> "in house", room |-> r, from |-> from, to |-> to]]
    BY <1>0, <2>1, ClaimWritten DEF CreateStay
  <2>5. Occupancy!Arrive(i)
    BY <2>1, <2>2, <2>3, <2>4 DEF Occupancy!Arrive, Occupancy!Take
  <2>6. QED
    BY <2>5 DEF Occupancy!Next
<1>4. ASSUME NEW i \in ReservationIds, NEW s \in StayIds, NEW r \in Rooms,
             NEW from \in Days, NEW to \in Days, WalkIn(i, s, r, from, to)
      PROVE  Occupancy!Next
  <2>1. /\ reservation[i].status = "absent" /\ from < to
        /\ ExclusionAllows(i, r, from, to) /\ CreateStay(i, s, r, from, to)
    BY <1>4 DEF WalkIn, IsNextId, IsValidInterval
  <2>2. claimOf[i].phase = "none"
    BY <2>1, ClaimFields DEF PhaseOf
  <2>3. Occupancy!IsFree(i, r, from, to) /\ Occupancy!IsVacant(r)
    BY <1>0, <2>1, ExclusionMeansFree, IndexMeansVacant, DaysAreNumbers DEF CreateStay
  <2>4. claimOf' = [claimOf EXCEPT ![i] =
          [phase |-> "in house", room |-> r, from |-> from, to |-> to]]
    BY <1>0, <2>1, ClaimWritten DEF CreateStay
  <2>5. Occupancy!ArriveUnbooked(i)
    BY <2>1, <2>2, <2>3, <2>4 DEF Occupancy!ArriveUnbooked, Occupancy!Take
  <2>6. QED
    BY <2>5 DEF Occupancy!Next
<1>5. ASSUME NEW s \in StayIds, NEW t \in TaskIds, CheckOut(s, t)
      PROVE  Occupancy!Next
  <2> DEFINE i == stay[s].reservation
  <2>1. i \in ReservationIds /\ reservation[i].status = "checked_in"
    BY <1>0, <1>5 DEF CheckOut, OccupancyInv, StayMatchesReservation, TypeOK, StayRows, NoStay
  <2>2. /\ reservation' = [reservation EXCEPT ![i].status = "completed"]
        /\ reservation \in [ReservationIds -> ReservationRows]
    BY <1>0, <1>5 DEF CheckOut, TypeOK
  <2> HIDE DEF i
  <2>3. claimOf[i].phase = "in house"
    BY <2>1, ClaimFields DEF PhaseOf
  <2>4. claimOf' = [claimOf EXCEPT ![i].phase = "left"]
    <3>1. \A j \in ReservationIds :
            /\ reservation'[j].room = reservation[j].room
            /\ reservation'[j].from = reservation[j].from
            /\ reservation'[j].to = reservation[j].to
            /\ reservation'[j].status = IF j = i THEN "completed" ELSE reservation[j].status
      BY <2>1, <2>2 DEF ReservationRows, NoReservation
    <3>2. PhaseOf("completed") = "left"
      BY DEF PhaseOf
    <3> HIDE DEF PhaseOf
    <3>3. QED
      BY <2>1, <3>1, <3>2 DEF claimOf
  <2>5. QED
    BY <2>1, <2>3, <2>4 DEF Occupancy!Next, Occupancy!Leave
<1>6. QED
  BY <1>1, <1>2, <1>3, <1>4, <1>5, OtherDesksMoveNobody
     DEF Next, FrontDeskStep, CleaningComplete, hotelVars

(* Whatever housekeeping, the incident desk and maintenance do to a room,  *)
(* guests see bookings, arrivals and departures as RoomOccupancy promises. *)
THEOREM HotelImplementsOccupancy == Spec => ImplementsOccupancy
  BY InitRefines, StepRefines, Invariance, PTL DEF Spec, ImplementsOccupancy, Occupancy!Spec

-----------------------------------------------------------------------------
(* What the status of a room stands for where no task is opened by hand    *)
(* and the incident desk is closed: the guest in it, the one ticket that   *)
(* blocks it, or the one task whose approval it waits for.                 *)
OnlyMaintenance == "tasks" \notin Desks /\ "incidents" \notin Desks

HasGuest(r) == \E s \in StayIds : stay[s].status = "active" /\ stay[s].room = r
GuestsAreTold == \A r \in Rooms : room[r] = "occupied" <=> HasGuest(r)

TicketsAreTold ==
  \A r \in Rooms :
    IF room[r] = "maintenance" THEN \E n \in IncidentIds : BlockingTickets(r) = {n}
    ELSE BlockingTickets(r) = {}

IsOpenTask(t) == task[t].status \notin {"absent", "approved"}
CleaningIsOwed ==
  \A t \in TaskIds : IsOpenTask(t) =>
    /\ room[task[t].room] = "cleaning"
    /\ \A u \in TaskIds : IsOpenTask(u) /\ task[u].room = task[t].room => u = t

StatusInv == GuestsAreTold /\ TicketsAreTold /\ CleaningIsOwed

(* Rows that are there have a room, or none if they are tickets. *)
LEMMA RowFields ==
  ASSUME TypeOK
  PROVE  /\ \A s \in StayIds : stay[s].status \in {"active", "checked_out"} => stay[s].room \in Rooms
         /\ \A t \in TaskIds : task[t].status # "absent" => task[t].room \in Rooms
         /\ \A t \in TaskIds : task[t].status \in {"absent", "pending", "in_progress", "completed", "approved"}
                              /\ (task[t].stay # None => task[t].status # "absent")
         /\ \A n \in IncidentIds : incident[n].room \in Rooms \cup {None}
<1>1. \A row \in StayRows : row.status \in {"active", "checked_out"} => row.room \in Rooms
  BY DEF StayRows, NoStay
<1>2. \A row \in TaskRows :
        /\ row.status # "absent" => row.room \in Rooms
        /\ row.status \in {"absent", "pending", "in_progress", "completed", "approved"}
        /\ row.stay # None => row.status # "absent"
  BY DEF TaskRows, NoTask
<1>3. \A row \in IncidentRows : row.room \in Rooms \cup {None}
  BY DEF IncidentRows, NoIncident
<1>4. QED
  BY <1>1, <1>2, <1>3 DEF TypeOK

(* Arrivals: the room was on sale, and nobody is in it but the new guest. *)
LEMMA ArrivalTells ==
  ASSUME OccupancyInv, StatusInv, NEW i \in ReservationIds, NEW s \in StayIds, NEW r \in Rooms,
         NEW from, NEW to, room[r] = "available", stay[s].status = "absent", CreateStay(i, s, r, from, to)
  PROVE  StatusInv'
<1>1. /\ stay' = [stay EXCEPT ![s] = [status |-> "active", reservation |-> i, room |-> r]]
      /\ room' = [room EXCEPT ![r] = "occupied"] /\ UNCHANGED <<task, incident>>
  BY DEF CreateStay, SetRoom
<1>2. /\ stay'[s].status = "active" /\ stay'[s].room = r
      /\ \A u \in StayIds \ {s} : stay'[u] = stay[u]
      /\ room'[r] = "occupied" /\ \A q \in Rooms \ {r} : room'[q] = room[q]
  BY <1>1 DEF OccupancyInv, TypeOK
<1>3. GuestsAreTold'
  <2>1. \A q \in Rooms \ {r} : HasGuest(q)' <=> HasGuest(q)
    BY <1>2 DEF HasGuest
  <2>2. HasGuest(r)'
    BY <1>2 DEF HasGuest
  <2>3. QED
    BY <1>2, <2>1, <2>2 DEF StatusInv, GuestsAreTold
<1>4. TicketsAreTold'
  BY <1>1, <1>2 DEF StatusInv, TicketsAreTold, BlockingTickets, IsTicket
<1>5. CleaningIsOwed'
  BY <1>1, <1>2, RowFields DEF StatusInv, OccupancyInv, CleaningIsOwed, IsOpenTask
<1>6. QED
  BY <1>3, <1>4, <1>5 DEF StatusInv

(* Departures: the one guest leaves, and one task is owed. *)
LEMMA DepartureTells ==
  ASSUME OccupancyInv, StatusInv, NEW s \in StayIds, NEW t \in TaskIds, CheckOut(s, t)
  PROVE  StatusInv'
<1>0. PICK r \in Rooms : r = stay[s].room
  BY RowFields DEF CheckOut, OccupancyInv
<1>1. /\ stay[s].status = "active" /\ room[r] = "occupied" /\ task[t].status = "absent" /\ r \in Rooms
      /\ stay' = [stay EXCEPT ![s].status = "checked_out"] /\ room' = [room EXCEPT ![r] = "cleaning"]
      /\ task' = [task EXCEPT ![t] = [status |-> "pending", room |-> r, stay |-> s]] /\ UNCHANGED incident
  BY <1>0 DEF CheckOut, SetRoom, IsNextId
<1>2. /\ stay'[s].status = "checked_out" /\ \A u \in StayIds \ {s} : stay'[u] = stay[u]
      /\ room'[r] = "cleaning" /\ \A q \in Rooms \ {r} : room'[q] = room[q]
      /\ task'[t].status = "pending" /\ task'[t].room = r /\ \A u \in TaskIds \ {t} : task'[u] = task[u]
  BY <1>1 DEF OccupancyInv, TypeOK, StayRows, NoStay
<1>3. GuestsAreTold'
  <2>1. \A q \in Rooms \ {r} : HasGuest(q)' <=> HasGuest(q)
    BY <1>0, <1>2 DEF HasGuest
  <2>2. ~HasGuest(r)'
    BY <1>0, <1>1, <1>2 DEF HasGuest, OccupancyInv, OneActiveStayPerRoom
  <2>3. QED
    BY <1>2, <2>1, <2>2 DEF StatusInv, GuestsAreTold
<1>4. TicketsAreTold'
  BY <1>1, <1>2 DEF StatusInv, TicketsAreTold, BlockingTickets, IsTicket
<1>5. CleaningIsOwed'
  <2>1. \A u \in TaskIds \ {t} : (IsOpenTask(u)' <=> IsOpenTask(u)) /\ task'[u].room = task[u].room
    BY <1>2 DEF IsOpenTask
  <2>2. \A u \in TaskIds : IsOpenTask(u) => task[u].room \in Rooms \ {r}
    BY <1>1, RowFields DEF StatusInv, CleaningIsOwed, IsOpenTask, OccupancyInv
  <2>3. QED
    BY <1>2, <2>1, <2>2 DEF StatusInv, CleaningIsOwed
<1>6. QED
  BY <1>3, <1>4, <1>5 DEF StatusInv

(* The one open task of a room in cleaning is approved, at either desk. *)
LEMMA ApprovalTells ==
  ASSUME TypeOK, StatusInv, NEW t \in TaskIds, IsOpenTask(t),
         room' = [room EXCEPT ![task[t].room] = "available"],
         task' = [task EXCEPT ![t].status = "approved"],
         UNCHANGED stay, \A r \in Rooms : BlockingTickets(r)' = BlockingTickets(r)
  PROVE  StatusInv'
<1> DEFINE r == task[t].room
<1>1. r \in Rooms /\ room[r] = "cleaning"
  BY RowFields DEF StatusInv, CleaningIsOwed, IsOpenTask
<1>2. /\ room'[r] = "available" /\ \A q \in Rooms \ {r} : room'[q] = room[q]
      /\ task'[t].status = "approved" /\ \A u \in TaskIds \ {t} : task'[u] = task[u]
  BY <1>1 DEF TypeOK, TaskRows, NoTask, IsOpenTask
<1>3. GuestsAreTold'
  BY <1>1, <1>2 DEF StatusInv, GuestsAreTold, HasGuest
<1>4. TicketsAreTold'
  BY <1>1, <1>2 DEF StatusInv, TicketsAreTold
<1>5. CleaningIsOwed'
  <2>1. /\ ~IsOpenTask(t)'
        /\ \A u \in TaskIds \ {t} : (IsOpenTask(u)' <=> IsOpenTask(u)) /\ task'[u].room = task[u].room
    BY <1>2 DEF IsOpenTask
  <2>2. \A u \in TaskIds \ {t} : IsOpenTask(u) => task[u].room \in Rooms \ {r}
    BY <1>1, RowFields DEF StatusInv, CleaningIsOwed, IsOpenTask
  <2>3. QED
    BY <1>2, <2>1, <2>2 DEF StatusInv, CleaningIsOwed
<1>6. QED
  BY <1>3, <1>4, <1>5 DEF StatusInv

(* A room goes from one status to another, of which neither is 'occupied' or *)
(* 'cleaning', and its tickets follow.                                      *)
LEMMA OutOfServiceTells ==
  ASSUME TypeOK, StatusInv, NEW r \in Rooms, NEW status \in {"available", "blocked", "maintenance"},
         room[r] \in {"available", "blocked", "maintenance"}, room' = [room EXCEPT ![r] = status],
         UNCHANGED <<stay, task>>,
         \A q \in Rooms \ {r} : BlockingTickets(q)' = BlockingTickets(q),
         IF status = "maintenance" THEN \E n \in IncidentIds : BlockingTickets(r)' = {n}
         ELSE BlockingTickets(r)' = {}
  PROVE  StatusInv'
<1>1. room'[r] = status /\ \A q \in Rooms \ {r} : room'[q] = room[q]
  BY DEF TypeOK
<1>2. GuestsAreTold'
  BY <1>1 DEF StatusInv, GuestsAreTold, HasGuest
<1>3. TicketsAreTold'
  BY <1>1 DEF StatusInv, TicketsAreTold
<1>4. CleaningIsOwed'
  BY <1>1, RowFields DEF StatusInv, CleaningIsOwed, IsOpenTask
<1>5. QED
  BY <1>2, <1>3, <1>4 DEF StatusInv

LEMMA MaintenanceTells ==
  ASSUME OnlyMaintenance, TypeOK, StatusInv, OutOfServiceStep
  PROVE  StatusInv'
<1> USE DEF OnlyMaintenance
<1>1. ASSUME NEW r \in Rooms, NEW blocked \in BOOLEAN, SetBlocked(r, blocked)
      PROVE  StatusInv'
  <2> DEFINE to == IF blocked THEN "blocked" ELSE "available"
  <2>1. /\ room[r] \in {"available", "blocked"} /\ to \in {"available", "blocked"}
        /\ room' = [room EXCEPT ![r] = to] /\ UNCHANGED <<stay, task, incident>>
    BY <1>1 DEF SetBlocked, SetRoom
  <2> HIDE DEF to
  <2>2. \A q \in Rooms : BlockingTickets(q)' = BlockingTickets(q)
    BY <2>1 DEF BlockingTickets, IsTicket
  <2>3. BlockingTickets(r)' = {} /\ to # "maintenance"
    BY <2>1, <2>2 DEF StatusInv, TicketsAreTold
  <2>4. QED
    BY <2>1, <2>2, <2>3, OutOfServiceTells
<1>2. ASSUME NEW n \in IncidentIds, UNCHANGED <<room, stay, task>>,
             \A q \in Rooms : BlockingTickets(q)' = BlockingTickets(q)
      PROVE  StatusInv'
  BY <1>2 DEF StatusInv, GuestsAreTold, HasGuest, TicketsAreTold, CleaningIsOwed, IsOpenTask
<1>3. ASSUME NEW n \in IncidentIds, NEW r \in Rooms, ~(IsTicket(n) /\ incident[n].blocks),
             BlockForMaintenance(r), UNCHANGED <<stay, task>>,
             IsTicket(n)', incident'[n].room = r, incident'[n].blocks,
             \A m \in IncidentIds \ {n} : incident'[m] = incident[m]
      PROVE  StatusInv'
  <2>1. room[r] = "available" /\ room' = [room EXCEPT ![r] = "maintenance"]
    BY <1>3 DEF BlockForMaintenance, SetRoom
  <2>2. BlockingTickets(r) = {}
    BY <2>1 DEF StatusInv, TicketsAreTold
  <2>3. BlockingTickets(r)' = {n}
    BY <1>3, <2>2 DEF BlockingTickets, IsTicket
  <2>4. \A q \in Rooms \ {r} : BlockingTickets(q)' = BlockingTickets(q)
    BY <1>3 DEF BlockingTickets, IsTicket
  <2>5. QED
    BY <1>3, <2>1, <2>3, <2>4, OutOfServiceTells
<1>4. ASSUME NEW n \in IncidentIds, NEW r \in Rooms \cup {None}, NEW blocks \in BOOLEAN,
             OpenTicket(n, r, blocks)
      PROVE  StatusInv'
  <2>1. /\ ~IsTicket(n) /\ UNCHANGED <<stay, task>>
        /\ incident' = [incident EXCEPT ![n] = [status |-> "pending", type |-> "maintenance", room |-> r,
                                                reference |-> None, blocks |-> blocks]]
    BY <1>4 DEF OpenTicket, InsertIncident, IsNextId, IsTicket
  <2>2. /\ incident'[n].room = r /\ incident'[n].blocks = blocks /\ IsTicket(n)'
        /\ \A m \in IncidentIds \ {n} : incident'[m] = incident[m]
    BY <2>1 DEF TypeOK, IsTicket
  <2>3. CASE blocks /\ r # None
    BY <1>3, <1>4, <2>1, <2>2, <2>3 DEF OpenTicket
  <2>4. CASE ~(blocks /\ r # None)
    <3>1. \A q \in Rooms : BlockingTickets(q)' = BlockingTickets(q)
      BY <2>1, <2>2, <2>4, NoneIsNoId DEF BlockingTickets, IsTicket
    <3>2. QED
      BY <1>2, <1>4, <2>1, <2>4, <3>1 DEF OpenTicket
  <2>5. QED
    BY <2>3, <2>4
<1>5. ASSUME NEW n \in IncidentIds, NEW blocks \in BOOLEAN, UpdateTicket(n, blocks)
      PROVE  StatusInv'
  <2>1. /\ IsTicket(n) /\ UNCHANGED <<stay, task>> /\ incident[n].blocks # blocks
        /\ incident' = [incident EXCEPT ![n].blocks = blocks]
    BY <1>5 DEF UpdateTicket
  <2>2. /\ incident'[n].room = incident[n].room /\ incident'[n].blocks = blocks /\ IsTicket(n)'
        /\ \A m \in IncidentIds \ {n} : incident'[m] = incident[m]
    BY <2>1 DEF TypeOK, IsTicket, IncidentRows, NoIncident
  <2>3. CASE incident[n].room # None
    <3>1. blocks /\ BlockForMaintenance(incident[n].room) /\ incident[n].room \in Rooms
      BY <1>5, <2>3, RowFields DEF UpdateTicket
    <3>2. PICK r \in Rooms : r = incident[n].room
      BY <3>1
    <3>3. QED
      BY <1>3, <2>1, <2>2, <3>1, <3>2
  <2>4. CASE incident[n].room = None
    <3>1. \A q \in Rooms : BlockingTickets(q)' = BlockingTickets(q)
      BY <2>1, <2>2, <2>4, NoneIsNoId DEF BlockingTickets, IsTicket
    <3>2. QED
      BY <1>2, <1>5, <2>1, <2>4, <3>1 DEF UpdateTicket
  <2>5. QED
    BY <2>3, <2>4
<1>6. ASSUME NEW n \in IncidentIds, NEW action \in TicketActions, NEW releaseRoom \in BOOLEAN,
             ProgressTicket(n, action, releaseRoom)
      PROVE  StatusInv'
  <2> DEFINE b == incident[n].blocks /\ ~releaseRoom
  <2>1. /\ IsTicket(n) /\ UNCHANGED <<stay, task>>
        /\ incident' = [incident EXCEPT ![n].status = ActionStatus[action], ![n].blocks = b]
    BY <1>6 DEF ProgressTicket
  <2>2. ActionStatus[action] # "absent"
    BY DEF TicketActions, ActionStatus
  <2> HIDE DEF b
  <2>3. /\ incident'[n].room = incident[n].room /\ incident'[n].blocks = b /\ IsTicket(n)'
        /\ \A m \in IncidentIds \ {n} : incident'[m] = incident[m]
    BY <2>1, <2>2 DEF TypeOK, IsTicket, IncidentRows, NoIncident
  <2>4. CASE releaseRoom /\ incident[n].blocks /\ incident[n].room # None
    <3>1. PICK r \in Rooms : r = incident[n].room
      BY <2>4, RowFields
    <3>2. room[r] = "maintenance" /\ room' = [room EXCEPT ![r] = "available"]
      BY <1>6, <2>4, <3>1 DEF ProgressTicket, ReleaseFromMaintenance, SetRoom
    <3>3. BlockingTickets(r) = {n}
      <4>1. n \in BlockingTickets(r)
        BY <2>1, <2>4, <3>1 DEF BlockingTickets
      <4>2. \E m \in IncidentIds : BlockingTickets(r) = {m}
        BY <3>2 DEF StatusInv, TicketsAreTold
      <4>3. QED
        BY <4>1, <4>2
    <3>4. BlockingTickets(r)' = {}
      BY <2>3, <2>4, <3>3 DEF b, BlockingTickets, IsTicket
    <3>5. \A q \in Rooms \ {r} : BlockingTickets(q)' = BlockingTickets(q)
      BY <2>1, <2>3, <3>1 DEF BlockingTickets, IsTicket
    <3>6. QED
      BY <2>1, <3>2, <3>4, <3>5, OutOfServiceTells
  <2>5. CASE ~(releaseRoom /\ incident[n].blocks /\ incident[n].room # None)
    <3>1. UNCHANGED room
      BY <1>6, <2>5 DEF ProgressTicket
    <3>2. \A q \in Rooms : BlockingTickets(q)' = BlockingTickets(q)
      BY <2>1, <2>3, <2>5, NoneIsNoId DEF b, BlockingTickets, IsTicket
    <3>3. QED
      BY <1>2, <2>1, <3>1, <3>2
  <2>6. QED
    BY <2>4, <2>5
<1>7. QED
  BY <1>1, <1>4, <1>5, <1>6 DEF OutOfServiceStep, OpenIncident, UpdateIncident, ProgressIncident

LEMMA HousekeepingTells ==
  ASSUME OnlyMaintenance, TypeOK, StatusInv, HousekeepingStep
  PROVE  StatusInv'
<1> USE DEF OnlyMaintenance
<1>1. ASSUME NEW t \in TaskIds, ProgressTask(t)
      PROVE  StatusInv'
  <2>1. /\ UNCHANGED <<room, stay, incident>> /\ IsOpenTask(t)
        /\ task' = [task EXCEPT ![t].status = NextTaskStatus[task[t].status]]
        /\ NextTaskStatus[task[t].status] \in {"in_progress", "completed"}
    BY <1>1 DEF ProgressTask, IsOpenTask, NextTaskStatus
  <2>2. \A u \in TaskIds : task'[u].room = task[u].room /\ (IsOpenTask(u)' <=> IsOpenTask(u))
    BY <2>1 DEF TypeOK, IsOpenTask, TaskRows, NoTask
  <2>3. QED
    BY <2>1, <2>2 DEF StatusInv, GuestsAreTold, HasGuest, TicketsAreTold, BlockingTickets, IsTicket, CleaningIsOwed
<1>2. ASSUME NEW t \in TaskIds, ApproveTask(t)
      PROVE  StatusInv'
  <2>1. IsOpenTask(t) /\ task' = [task EXCEPT ![t].status = "approved"] /\ UNCHANGED stay
    BY <1>2 DEF ApproveTask, IsOpenTask, NextTaskStatus
  <2>2. room' = [room EXCEPT ![task[t].room] = "available"]
    BY <1>2, <2>1 DEF ApproveTask, SetRoom, StatusInv, CleaningIsOwed
  <2>3. \A r \in Rooms : BlockingTickets(r)' = BlockingTickets(r)
    <3>1. CASE UNCHANGED incident
      BY <3>1 DEF BlockingTickets, IsTicket
    <3>2. ASSUME NEW n \in IncidentIds, IsNextId(incident, n), NEW row, row.type = "cleaning",
                 incident' = [incident EXCEPT ![n] = row]
          PROVE  \A r \in Rooms : BlockingTickets(r)' = BlockingTickets(r)
      <4>1. /\ ~IsTicket(n) /\ ~IsTicket(n)' /\ \A m \in IncidentIds \ {n} : incident'[m] = incident[m]
        BY <3>2 DEF IsNextId, IsTicket, TypeOK
      <4>2. QED
        BY <4>1 DEF BlockingTickets, IsTicket
    <3>3. UNCHANGED incident \/ \E n \in IncidentIds : IsNextId(incident, n) /\ \E row :
            row.type = "cleaning" /\ incident' = [incident EXCEPT ![n] = row]
      <4>1. CASE UNCHANGED incident
        BY <4>1
      <4>2. CASE ~UNCHANGED incident
        <5> DEFINE row == [status |-> "closed", type |-> "cleaning", room |-> task[t].room,
                           reference |-> t, blocks |-> FALSE]
        <5>1. PICK n \in IncidentIds : IsNextId(incident, n) /\ incident' = [incident EXCEPT ![n] = row]
          BY <1>2, <4>2 DEF ApproveTask, RecordApproval
        <5>2. row.type = "cleaning"
          OBVIOUS
        <5> HIDE DEF row
        <5>3. QED
          BY <5>1, <5>2
      <4>3. QED
        BY <4>1, <4>2
    <3>4. QED
      BY <3>1, <3>2, <3>3
  <2>4. QED
    BY <2>1, <2>2, <2>3, ApprovalTells
<1>3. QED
  BY <1>1, <1>2 DEF HousekeepingStep, CreateTask, ReportIncident

LEMMA FrontDeskTells ==
  ASSUME OccupancyInv, StatusInv, FrontDeskStep
  PROVE  StatusInv'
<1>0. TypeOK
  BY DEF OccupancyInv
<1>1. ASSUME NEW i \in ReservationIds, NEW r \in Rooms, NEW from \in Days, NEW to \in Days,
             CreateReservation(i, r, from, to)
      PROVE  StatusInv'
  BY <1>1 DEF CreateReservation, StatusInv, GuestsAreTold, HasGuest, TicketsAreTold, BlockingTickets, IsTicket,
     CleaningIsOwed, IsOpenTask
<1>2. ASSUME NEW i \in ReservationIds, NEW s \in StayIds, NEW from \in Days, CheckIn(i, s, from)
      PROVE  StatusInv'
  <2>1. PICK r \in Rooms : r = reservation[i].room
    BY <1>0, <1>2, CheckInArrives
  <2>2. room[r] = "available" /\ stay[s].status = "absent" /\ CreateStay(i, s, r, from, reservation[i].to)
    BY <1>0, <1>2, <2>1, CheckInArrives DEF CheckIn
  <2>3. QED
    BY <2>2, ArrivalTells
<1>3. ASSUME NEW i \in ReservationIds, NEW s \in StayIds, NEW r \in Rooms,
             NEW from \in Days, NEW to \in Days, WalkIn(i, s, r, from, to)
      PROVE  StatusInv'
  BY <1>3, ArrivalTells DEF WalkIn, IsNextId
<1>4. ASSUME NEW s \in StayIds, NEW t \in TaskIds, CheckOut(s, t)
      PROVE  StatusInv'
  BY <1>4, DepartureTells
<1>5. ASSUME NEW r \in Rooms, CleaningComplete(r)
      PROVE  StatusInv'
  <2>1. PICK t \in TaskIds : task[t].room = r /\ IsOpenTask(t) /\ task' = [task EXCEPT ![t].status = "approved"]
    BY <1>5 DEF CleaningComplete, IsOpenTask
  <2>2. room' = [room EXCEPT ![task[t].room] = "available"] /\ UNCHANGED <<stay, incident>>
    BY <1>5, <2>1 DEF CleaningComplete, SetRoom
  <2>3. \A q \in Rooms : BlockingTickets(q)' = BlockingTickets(q)
    BY <2>2 DEF BlockingTickets, IsTicket
  <2>4. QED
    BY <1>0, <2>1, <2>2, <2>3, ApprovalTells
<1>6. QED
  BY <1>1, <1>2, <1>3, <1>4, <1>5 DEF FrontDeskStep

LEMMA StatusStep == ASSUME OnlyMaintenance, OccupancyInv, StatusInv, [Next]_hotelVars PROVE StatusInv'
<1>1. CASE UNCHANGED hotelVars
  BY <1>1 DEF hotelVars, StatusInv, GuestsAreTold, HasGuest, TicketsAreTold, BlockingTickets, IsTicket,
     CleaningIsOwed, IsOpenTask
<1>2. TypeOK
  BY DEF OccupancyInv
<1>3. QED
  BY <1>1, <1>2, FrontDeskTells, HousekeepingTells, MaintenanceTells DEF Next

LEMMA StatusStart == Init => StatusInv
  BY DEF Init, HotelInit, StatusInv, GuestsAreTold, HasGuest, TicketsAreTold, BlockingTickets, IsTicket,
     CleaningIsOwed, IsOpenTask, NoStay, NoTask, NoIncident

(* Where no task is opened by hand and the incident desk is closed, the    *)
(* status of a room tells who has it: a guest, or exactly one ticket that  *)
(* blocks it, however tickets are reopened or follow one another.          *)
THEOREM StatusIsReliable ==
  ASSUME OnlyMaintenance PROVE Spec => []StatusTellsWhoHasTheRoom
<1>1. OccupancyInv /\ StatusInv /\ [Next]_hotelVars => StatusInv'
  BY StatusStep
<1>2. StatusInv => StatusTellsWhoHasTheRoom
  <2>1. \A n : Cardinality({n}) = 1
    BY FS_Singleton
  <2>2. QED
    BY <2>1 DEF StatusInv, GuestsAreTold, HasGuest, TicketsAreTold, StatusTellsWhoHasTheRoom
<1>3. QED
  BY <1>1, <1>2, StatusStart, Invariance, PTL DEF Spec

(* Under the same condition a room is on sale only when the cleaning of    *)
(* every departure from it was approved.                                   *)
THEOREM RoomsAreSoldClean ==
  ASSUME OnlyMaintenance PROVE Spec => []RoomOnSaleIsClean
<1>1. OccupancyInv /\ StatusInv /\ [Next]_hotelVars => StatusInv'
  BY StatusStep
<1>2. OccupancyInv /\ StatusInv => RoomOnSaleIsClean
  BY RowFields DEF OccupancyInv, StatusInv, CleaningIsOwed, IsOpenTask, RoomOnSaleIsClean
<1>3. QED
  BY <1>1, <1>2, StatusStart, Invariance, PTL DEF Spec
=============================================================================
