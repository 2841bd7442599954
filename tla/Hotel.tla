--------------------------------- MODULE Hotel ---------------------------------
(***************************************************************************)
(* The services around rooms.status composed: any interleaving of the      *)
(* commands of FrontDesk, Housekeeping and OutOfService, and what they     *)
(* keep true of the rows they share.                                       *)
(***************************************************************************)
EXTENDS FrontDesk, Housekeeping, OutOfService

Init == HotelInit

FrontDeskStep ==
  \/ \E i \in ReservationIds, r \in Rooms, from, to \in Days : CreateReservation(i, r, from, to)
  \/ \E i \in ReservationIds, s \in StayIds, from \in Days : CheckIn(i, s, from)
  \/ \E i \in ReservationIds, s \in StayIds, r \in Rooms, from, to \in Days :
       WalkIn(i, s, r, from, to)
  \/ \E s \in StayIds, t \in TaskIds : CheckOut(s, t)
  \/ \E r \in Rooms : CleaningComplete(r)

HousekeepingStep ==
  \/ \E t \in TaskIds, r \in Rooms : CreateTask(t, r)
  \/ \E t \in TaskIds : ProgressTask(t) \/ ApproveTask(t)
  \/ \E t \in TaskIds, n \in IncidentIds, blocks \in BOOLEAN : ReportIncident(t, n, blocks)

OutOfServiceStep ==
  \/ \E r \in Rooms, blocked \in BOOLEAN : SetBlocked(r, blocked)
  \/ \E n \in IncidentIds, r \in Rooms \cup {None}, blocks \in BOOLEAN :
       \/ \E type \in IncidentTypes : OpenIncident(n, type, r, blocks)
       \/ OpenTicket(n, r, blocks)
  \/ \E n \in IncidentIds, blocks \in BOOLEAN : UpdateIncident(n, blocks) \/ UpdateTicket(n, blocks)
  \/ \E n \in IncidentIds : ProgressIncident(n)
  \/ \E n \in IncidentIds, action \in TicketActions, releaseRoom \in BOOLEAN :
       ProgressTicket(n, action, releaseRoom)

Next == FrontDeskStep \/ HousekeepingStep \/ OutOfServiceStep

Spec == Init /\ [][Next]_hotelVars

-----------------------------------------------------------------------------
(* Every row holds values of its columns. *)
TypeOK ==
  /\ room \in [Rooms -> RoomStatuses]
  /\ reservation \in [ReservationIds -> ReservationRows]
  /\ stay \in [StayIds -> StayRows]
  /\ task \in [TaskIds -> TaskRows]
  /\ incident \in [IncidentIds -> IncidentRows]

(* Two live reservations of one room never meet in time: whatever the      *)
(* order of bookings, early check-ins and walk-ins, none is let in where   *)
(* another guest is expected or still in house.                            *)
NoDoubleBooking ==
  \A i, j \in ReservationIds :
    /\ i # j
    /\ reservation[i].room = reservation[j].room
    /\ reservation[i].status \in ActiveStatuses /\ reservation[j].status \in ActiveStatuses
    => reservation[i].to <= reservation[j].from \/ reservation[j].to <= reservation[i].from

(* Nobody is checked in to a room where a guest still is, even after an    *)
(* incident or a cleaning task has made the room 'available' around them.  *)
OneActiveStayPerRoom ==
  \A s, u \in StayIds :
    /\ stay[s].status = "active" /\ stay[u].status = "active"
    /\ stay[s].room = stay[u].room
    => s = u

(* Stays and reservations move together: an active stay is the one stay of *)
(* a checked-in reservation of its room, a closed one of a completed one,  *)
(* and every reservation in those states has its stay.                     *)
StayMatchesReservation ==
  /\ \A s \in StayIds : stay[s].status # "absent" =>
       /\ reservation[stay[s].reservation].room = stay[s].room
       /\ reservation[stay[s].reservation].status =
            IF stay[s].status = "active" THEN "checked_in" ELSE "completed"
  /\ \A i \in ReservationIds : reservation[i].status \in {"checked_in", "completed"} =>
       \E s \in StayIds : stay[s].status # "absent" /\ stay[s].reservation = i
  /\ \A s, u \in StayIds :
       (stay[s].status # "absent" /\ stay[s].reservation = stay[u].reservation) => s = u

(* A room waiting for cleaning always has a task that is not approved yet, *)
(* so that somebody can release it: approvals, completions and incidents   *)
(* never leave it stranded in 'cleaning'.                                  *)
CleaningRoomHasOpenTask ==
  \A r \in Rooms : room[r] = "cleaning" =>
    \E t \in TaskIds : task[t].room = r /\ task[t].status \notin {"absent", "approved"}

(* Where no task is opened by hand and the incident desk is not used, the  *)
(* status of a room tells who has it: it reads 'occupied' exactly when a   *)
(* guest is in it, and 'maintenance' exactly because of one ticket, which  *)
(* keeps it until it is closed with a release, however often it is         *)
(* reopened, moved or followed by other tickets.                           *)
BlockingTickets(r) ==
  {n \in IncidentIds : IsTicket(n) /\ incident[n].room = r /\ incident[n].blocks}
StatusTellsWhoHasTheRoom ==
  \A r \in Rooms :
    /\ room[r] = "occupied" <=> \E s \in StayIds : stay[s].status = "active" /\ stay[s].room = r
    /\ IF room[r] = "maintenance" THEN Cardinality(BlockingTickets(r)) = 1
       ELSE BlockingTickets(r) = {}

(* A room is on sale only when the cleaning of every departure from it has *)
(* been approved: "A room in `cleaning` MUST NOT accept a future check-in  *)
(* until an explicit cleaning completion changes it to `available`"        *)
(* (openspec, persistent-stay-lifecycle).                                  *)
RoomOnSaleIsClean ==
  \A t \in TaskIds :
    (task[t].stay # None /\ room[task[t].room] = "available") => task[t].status = "approved"

-----------------------------------------------------------------------------
(* The refinement of RoomOccupancy. *)
PhaseOf(status) ==
  IF status = "absent" THEN "none"
  ELSE IF status = "checked_in" THEN "in house"
  ELSE IF status = "completed" THEN "left" ELSE "booked"

claimOf ==
  [i \in ReservationIds |->
     [phase |-> PhaseOf(reservation[i].status), room |-> reservation[i].room,
      from |-> reservation[i].from, to |-> reservation[i].to]]

Occupancy == INSTANCE RoomOccupancy WITH Claims <- ReservationIds, claim <- claimOf

(* Every command is a booking, an arrival or a departure of the promise,   *)
(* or leaves all claims as they are: no housekeeping or incident command   *)
(* moves a guest, and nobody arrives where another guest still is.         *)
ImplementsOccupancy == Occupancy!Spec
=============================================================================
