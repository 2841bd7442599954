----------------------------- MODULE OutOfService -----------------------------
(***************************************************************************)
(* What takes a room out of service and brings it back: IncidentsService   *)
(* (incidents/incidents.service.ts), MaintenanceService                    *)
(* (maintenance/maintenance.service.ts), which share the table incidents,  *)
(* and RoomsService.setBlocked (rooms/rooms.service.ts).                   *)
(***************************************************************************)
EXTENDS HotelState

SetBlocked(r, blocked) ==
  /\ room[r] = IF blocked THEN "available" ELSE "blocked"
  /\ SetRoom(r, IF blocked THEN "blocked" ELSE "available")
  /\ UNCHANGED <<reservation, stay, task, incident>>

InsertIncident(n, type, r, blocks) ==
  /\ IsNextId(incident, n)
  /\ incident' = [incident EXCEPT ![n] =
       [status |-> "pending", type |-> type, room |-> r, reference |-> None, blocks |-> blocks]]
  /\ UNCHANGED <<reservation, stay, task>>

-----------------------------------------------------------------------------
(* The incident desk; it also handles the tickets of maintenance. *)
BlockingStatus(type) == IF type = "maintenance" THEN "maintenance" ELSE "blocked"

OpenIncident(n, type, r, blocks) ==
  /\ "incidents" \in Desks
  /\ InsertIncident(n, type, r, blocks)
  /\ IF blocks /\ r # None THEN SetRoom(r, BlockingStatus(type)) ELSE UNCHANGED room

UpdateIncident(n, blocks) ==
  /\ "incidents" \in Desks
  /\ incident[n].status \notin {"absent", "closed"}
  /\ incident[n].blocks # blocks
  /\ incident' = [incident EXCEPT ![n].blocks = blocks]
  /\ IF incident[n].room = None THEN UNCHANGED room
     ELSE SetRoom(incident[n].room, IF blocks THEN BlockingStatus(incident[n].type) ELSE "available")
  /\ UNCHANGED <<reservation, stay, task>>

(* STATUS_TRANSITIONS, of which progress takes the first. *)
NextIncidentStatus ==
  [pending |-> "assigned", assigned |-> "in_progress", in_progress |-> "resolved",
   resolved |-> "closed", closed |-> "in_progress"]

ProgressIncident(n) ==
  /\ "incidents" \in Desks
  /\ incident[n].status # "absent"
  /\ LET next == NextIncidentStatus[incident[n].status]
         releases == /\ next \in {"resolved", "closed"}
                     /\ incident[n].blocks /\ incident[n].room # None
     IN /\ incident' = [incident EXCEPT ![n].status = next,
                                        ![n].blocks = @ /\ ~releases]
        /\ IF releases THEN SetRoom(incident[n].room, "available") ELSE UNCHANGED room
  /\ UNCHANGED <<reservation, stay, task>>

-----------------------------------------------------------------------------
(* Maintenance blocks available rooms only, and releases explicitly. *)
TicketActions == {"assign", "start", "resolve", "close", "reopen"}

ActionTransitions ==
  [assign |-> {"pending"}, start |-> {"assigned"}, resolve |-> {"in_progress"},
   close |-> {"resolved"}, reopen |-> {"resolved", "closed"}]

ActionStatus ==
  [assign |-> "assigned", start |-> "in_progress", resolve |-> "resolved",
   close |-> "closed", reopen |-> "in_progress"]

IsTicket(n) == incident[n].status # "absent" /\ incident[n].type = "maintenance"

(* A bug to catch: any room can be blocked.                                *)
BlockForMaintenanceAnyRoom(r) == SetRoom(r, "maintenance")
BlockForMaintenance(r) == room[r] = "available" /\ SetRoom(r, "maintenance")

OpenTicket(n, r, blocks) ==
  /\ "maintenance" \in Desks
  /\ InsertIncident(n, "maintenance", r, blocks)
  /\ IF blocks /\ r # None THEN BlockForMaintenance(r) ELSE UNCHANGED room

(* blocksRoom can be switched on, but off only where no room is linked. *)
UpdateTicket(n, blocks) ==
  /\ "maintenance" \in Desks
  /\ IsTicket(n) /\ incident[n].status # "closed"
  /\ incident[n].blocks # blocks
  /\ incident' = [incident EXCEPT ![n].blocks = blocks]
  /\ IF incident[n].room = None THEN UNCHANGED room
     ELSE blocks /\ BlockForMaintenance(incident[n].room)
  /\ UNCHANGED <<reservation, stay, task>>

OtherTicketBlocks(n, r) ==
  \E m \in IncidentIds \ {n} :
    IsTicket(m) /\ incident[m].room = r /\ incident[m].blocks /\ incident[m].status # "closed"

ReleaseFromMaintenance(n, r) ==
  /\ ~OtherTicketBlocks(n, r)
  /\ room[r] = "maintenance"
  /\ SetRoom(r, "available")

ProgressTicket(n, action, releaseRoom) ==
  /\ "maintenance" \in Desks
  /\ releaseRoom => action = "close"
  /\ IsTicket(n) /\ incident[n].status \in ActionTransitions[action]
  /\ incident' = [incident EXCEPT ![n].status = ActionStatus[action],
                                  ![n].blocks = @ /\ ~releaseRoom]
  /\ IF releaseRoom /\ incident[n].blocks /\ incident[n].room # None
     THEN ReleaseFromMaintenance(n, incident[n].room) ELSE UNCHANGED room
  /\ UNCHANGED <<reservation, stay, task>>
=============================================================================
