----------------------------- MODULE Housekeeping -----------------------------
(***************************************************************************)
(* CleaningService (cleaning/cleaning.service.ts).  Editing a task's       *)
(* assignee, observation or evidence changes nothing that is modelled.     *)
(***************************************************************************)
EXTENDS HotelState

CreateTask(t, r) ==
  /\ "tasks" \in Desks
  /\ IsNextId(task, t)
  /\ task' = [task EXCEPT ![t] = [status |-> "pending", room |-> r, stay |-> None]]
  /\ IF room[r] \in {"available", "occupied"} THEN SetRoom(r, "cleaning") ELSE UNCHANGED room
  /\ UNCHANGED <<reservation, stay, incident>>

(* A bug to catch: a status that is no value of the enum. *)
NextTaskStatusInvented ==
  [pending |-> "in_progress", in_progress |-> "completed", completed |-> "done"]
NextTaskStatus ==
  [pending |-> "in_progress", in_progress |-> "completed", completed |-> "approved"]

ProgressTask(t) ==
  /\ task[t].status \in {"pending", "in_progress"}
  /\ task' = [task EXCEPT ![t].status = NextTaskStatus[task[t].status]]
  /\ UNCHANGED <<room, reservation, stay, incident>>

(* An approval leaves an incident behind, closed from the start, unless    *)
(* the task already has one.                                               *)
RecordApproval(t) ==
  IF \E n \in IncidentIds :
       incident[n].status # "absent" /\ incident[n].type = "cleaning" /\ incident[n].reference = t
  THEN UNCHANGED incident
  ELSE \E n \in IncidentIds :
         /\ IsNextId(incident, n)
         /\ incident' = [incident EXCEPT ![n] =
              [status |-> "closed", type |-> "cleaning", room |-> task[t].room,
               reference |-> t, blocks |-> FALSE]]

(* A bug to catch: the approval does not release the room. *)
ApproveTaskOnly(t) ==
  /\ task[t].status = "completed"
  /\ task' = [task EXCEPT ![t].status = "approved"]
  /\ RecordApproval(t)
  /\ UNCHANGED <<room, reservation, stay>>

ApproveTask(t) ==
  /\ task[t].status = "completed"
  /\ task[t].stay # None =>
       stay[task[t].stay].status = "checked_out" /\ stay[task[t].stay].room = task[t].room
  /\ task' = [task EXCEPT ![t].status = NextTaskStatus["completed"]]
  /\ IF room[task[t].room] = "cleaning" THEN SetRoom(task[t].room, "available") ELSE UNCHANGED room
  /\ RecordApproval(t)
  /\ UNCHANGED <<reservation, stay>>

ReportIncident(t, n, blocks) ==
  /\ "incidents" \in Desks
  /\ task[t].status # "absent"
  /\ IsNextId(incident, n)
  /\ incident' = [incident EXCEPT ![n] =
       [status |-> "pending", type |-> "cleaning", room |-> task[t].room,
        reference |-> t, blocks |-> blocks]]
  /\ IF blocks THEN SetRoom(task[t].room, "blocked") ELSE UNCHANGED room
  /\ UNCHANGED <<reservation, stay, task>>
=============================================================================
