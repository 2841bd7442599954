------------------------------- MODULE FrontDesk -------------------------------
(***************************************************************************)
(* ReservationsService.create (reservations/reservations.service.ts) and   *)
(* StaysService (stays/stays.service.ts) of the backend, with the          *)
(* constraints of the database they rely on.  Guests, capacities and money *)
(* can only refuse a command: a refused command is no step.                *)
(***************************************************************************)
EXTENDS HotelState

ActiveStatusesBeforeArrival == {"pending", "confirmed"}
(* ACTIVE_RESERVATION_STATUSES *)
ActiveStatuses == {"pending", "confirmed", "checked_in"}

IsValidInterval(from, to) == from < to

Overlaps(i, from, to) == reservation[i].from < to /\ reservation[i].to > from

(* The check of the service, before it inserts. *)
IsBooked(r, from, to) ==
  \E i \in ReservationIds :
    /\ reservation[i].room = r
    /\ reservation[i].status \in ActiveStatuses
    /\ Overlaps(i, from, to)

(* A bug to catch: the constraint forgets reservations not confirmed yet. *)
ExclusionForgetsPending(i, r, from, to) ==
  ~ \E j \in ReservationIds \ {i} :
      /\ reservation[j].room = r
      /\ reservation[j].status \in ActiveStatuses \ {"pending"}
      /\ Overlaps(j, from, to)

(* The constraint reservations_no_active_overlap, on the row written as i. *)
ExclusionAllows(i, r, from, to) ==
  ~ \E j \in ReservationIds \ {i} :
      /\ reservation[j].room = r
      /\ reservation[j].status \in ActiveStatuses
      /\ Overlaps(j, from, to)

CreateReservation(i, r, from, to) ==
  /\ IsNextId(reservation, i)
  /\ IsValidInterval(from, to)
  /\ room[r] = "available"
  /\ ~IsBooked(r, from, to)
  /\ ExclusionAllows(i, r, from, to)
  /\ reservation' = [reservation EXCEPT ![i] =
       [status |-> "pending", room |-> r, from |-> from, to |-> to]]
  /\ UNCHANGED <<room, stay, task, incident>>

-----------------------------------------------------------------------------
(* A bug to catch: the indexes on active stays do not exist. *)
NoUniqueIndexes(i, r) == i \in ReservationIds /\ r \in Rooms
(* stays_one_active_per_reservation_idx and stays_one_active_per_room_idx *)
UniqueIndexesAllow(i, r) ==
  \A s \in StayIds :
    stay[s].status = "active" => stay[s].reservation # i /\ stay[s].room # r

CreateStay(i, s, r, from, to) ==
  /\ UniqueIndexesAllow(i, r)
  /\ stay' = [stay EXCEPT ![s] = [status |-> "active", reservation |-> i, room |-> r]]
  /\ SetRoom(r, "occupied")
  /\ reservation' = [reservation EXCEPT ![i] =
       [status |-> "checked_in", room |-> r, from |-> from, to |-> to]]
  /\ UNCHANGED <<task, incident>>

(* Without earlyCheckInAt the reservation keeps its start; with it the     *)
(* start may move, at most one local day back, to any day before the end.  *)
CheckIn(i, s, from) ==
  /\ reservation[i].status \in ActiveStatusesBeforeArrival
  /\ room[reservation[i].room] = "available"
  /\ from >= reservation[i].from - 1
  /\ IsValidInterval(from, reservation[i].to)
  /\ ExclusionAllows(i, reservation[i].room, from, reservation[i].to)
  /\ IsNextId(stay, s)
  /\ CreateStay(i, s, reservation[i].room, from, reservation[i].to)

(* No look for an overlap here: the exclusion constraint finds it. *)
WalkIn(i, s, r, from, to) ==
  /\ IsNextId(reservation, i) /\ IsNextId(stay, s)
  /\ IsValidInterval(from, to)
  /\ room[r] = "available"
  /\ ExclusionAllows(i, r, from, to)
  /\ CreateStay(i, s, r, from, to)

CheckOut(s, t) ==
  /\ stay[s].status = "active"
  /\ room[stay[s].room] = "occupied"
  /\ IsNextId(task, t)
  /\ stay' = [stay EXCEPT ![s].status = "checked_out"]
  /\ reservation' = [reservation EXCEPT ![stay[s].reservation].status = "completed"]
  /\ SetRoom(stay[s].room, "cleaning")
  /\ task' = [task EXCEPT ![t] = [status |-> "pending", room |-> stay[s].room, stay |-> s]]
  /\ UNCHANGED incident

(* ORDER BY check_out_at DESC LIMIT 1: guests of one room leave in the     *)
(* order in which they came.                                               *)
IsLatestCheckedOut(s, r) ==
  /\ stay[s].status = "checked_out" /\ stay[s].room = r
  /\ \A u \in StayIds : (stay[u].status = "checked_out" /\ stay[u].room = r) => u <= s

(* A bug to catch: the room is released, its task stays open. *)
CleaningCompleteRoomOnly(r) ==
  /\ room[r] = "cleaning"
  /\ SetRoom(r, "available")
  /\ UNCHANGED <<reservation, stay, task, incident>>

CleaningComplete(r) ==
  /\ room[r] = "cleaning"
  /\ \E s \in StayIds, t \in TaskIds :
       /\ IsLatestCheckedOut(s, r)
       /\ task[t].stay = s /\ task[t].room = r
       /\ task[t].status \notin {"absent", "approved"}
       /\ reservation[stay[s].reservation].status = "completed"
       /\ task' = [task EXCEPT ![t].status = "approved"]
  /\ SetRoom(r, "available")
  /\ UNCHANGED <<reservation, stay, incident>>
=============================================================================
