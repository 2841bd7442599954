------------------------------ MODULE HotelState ------------------------------
(***************************************************************************)
(* The rows that the front desk, housekeeping, the incident desk and       *)
(* maintenance share: rooms, reservations, stays, cleaning_tasks and       *)
(* incidents of one property.  Every command of these services first takes *)
(* the property's advisory transaction lock                                *)
(* (database/transaction-policy.ts), so one command is one step.           *)
(*                                                                         *)
(* Ids are numbers handed out in the order of insertion.  Time is counted  *)
(* in local days; an interval [from, to) stands for checkInAt..checkOutAt. *)
(***************************************************************************)
EXTENDS Integers, FiniteSets

CONSTANTS
  Rooms,           \* ids of rooms
  ReservationIds, StayIds, TaskIds, IncidentIds,
                   \* ids of rows, and the bounds of the model on their number
  Days,            \* days a reservation may start or end on
  None,            \* NULL
  Desks            \* which of AllDesks are used, see below

(* "tasks": cleaning tasks opened by hand.  "incidents": the incident desk *)
(* and the incidents reported by cleaners.  "maintenance": its tickets.    *)
AllDesks == {"tasks", "incidents", "maintenance"}

ASSUME IdsAreNumbers ==
  /\ ReservationIds \subseteq Nat /\ StayIds \subseteq Nat
  /\ TaskIds \subseteq Nat /\ IncidentIds \subseteq Nat
ASSUME DaysAreNumbers == Days \subseteq Nat
ASSUME NoneIsNoId ==
  /\ None \notin Rooms /\ None \notin ReservationIds
  /\ None \notin StayIds /\ None \notin TaskIds
ASSUME DesksExist == Desks \subseteq AllDesks

VARIABLES
  room,         \* [Rooms -> RoomStatuses], rooms.status
  reservation,  \* [ReservationIds -> ReservationRows]
  stay,         \* [StayIds -> StayRows]
  task,         \* [TaskIds -> TaskRows]
  incident      \* [IncidentIds -> IncidentRows], tickets of maintenance included

hotelVars == <<room, reservation, stay, task, incident>>

(* 'reserved' and 'out_of_service' are values of the enum nobody writes. *)
RoomStatuses == {"available", "occupied", "cleaning", "maintenance", "blocked"}

NoReservation == [status |-> "absent", room |-> None, from |-> 0, to |-> 0]
ReservationRows ==
  {NoReservation} \cup
  [status : {"pending", "confirmed", "checked_in", "completed"},
   room : Rooms, from : Nat, to : Nat]

NoStay == [status |-> "absent", reservation |-> None, room |-> None]
StayRows ==
  {NoStay} \cup
  [status : {"active", "checked_out"}, reservation : ReservationIds, room : Rooms]

NoTask == [status |-> "absent", room |-> None, stay |-> None]
TaskRows ==
  {NoTask} \cup
  [status : {"pending", "in_progress", "completed", "approved"},
   room : Rooms, stay : StayIds \cup {None}]

IncidentTypes == {"cleaning", "maintenance"}

NoIncident ==
  [status |-> "absent", type |-> "cleaning", room |-> None, reference |-> None, blocks |-> FALSE]
IncidentRows ==
  {NoIncident} \cup
  [status : {"pending", "assigned", "in_progress", "resolved", "closed"},
   type : IncidentTypes, room : Rooms \cup {None},
   reference : TaskIds \cup {None}, blocks : BOOLEAN]

HotelInit ==
  /\ room = [r \in Rooms |-> "available"]
  /\ reservation = [i \in ReservationIds |-> NoReservation]
  /\ stay = [s \in StayIds |-> NoStay]
  /\ task = [t \in TaskIds |-> NoTask]
  /\ incident = [n \in IncidentIds |-> NoIncident]

(* The id the next row inserted into the table gets. *)
IsNextId(table, i) ==
  /\ table[i].status = "absent"
  /\ \A j \in DOMAIN table : j < i => table[j].status # "absent"

SetRoom(r, status) == room' = [room EXCEPT ![r] = status]
=============================================================================
