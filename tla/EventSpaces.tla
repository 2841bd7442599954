------------------------------ MODULE EventSpaces ------------------------------
(***************************************************************************)
(* EventsService (events/events.service.ts): the halls of the hotel, what  *)
(* customers pre-reserve in them and what the staff makes of it.  Commands *)
(* hold the property's lock, and are one step; three things are not under  *)
(* it: reads, the clock, and the list of a customer's events, which writes *)
(* off the pre-reservations that have run out.  ConfirmEvent is two steps, *)
(* as it writes over a row that the list may have written off meanwhile.   *)
(*                                                                         *)
(* An event takes place from `from` to `to` and needs its hall from        *)
(* `margin.before` earlier until `margin.after` later (starts_at, ends_at  *)
(* of the table).  `lapsed` says that expires_at <= now.  Prices, guests   *)
(* and services can only refuse a command: a refused command is no step.   *)
(***************************************************************************)
EXTENDS Integers

CONSTANTS
  Events,      \* ids of events, handed out in order
  Spaces,      \* ids of halls
  Staff,       \* members of staff
  Times,       \* instants at which an event may begin or end
  Margins,     \* setup and teardown times the policy of a hall may have
  None,        \* no event
  MaxVersion   \* bound of the model: the version of an event

NoMargin == [before |-> 0, after |-> 0]

ASSUME EventsAreNumbers == Events \subseteq Nat /\ None \notin Events
ASSUME TimesAreNumbers == Times \subseteq Int
ASSUME MarginsAreDurations == Margins \subseteq [before : Nat, after : Nat]
ASSUME MaxVersionIsNumber == MaxVersion \in Nat

VARIABLES
  event,       \* [Events -> EventRows]
  screen,      \* [Staff -> Screens], the event each of the staff has open
  confirming   \* the event of an open confirmEvent, which holds the lock

vars == <<event, screen, confirming>>

Operational == {"confirmed", "preparing", "in_progress"}
EventStatuses == Operational \cup {"draft", "tentative", "cancelled", "completed", "archived"}

NoEvent ==
  [status |-> "absent", space |-> None, from |-> 0, to |-> 1, margin |-> NoMargin,
   lapsed |-> FALSE, version |-> 0]
EventRows ==
  {NoEvent} \cup
  [status : EventStatuses, space : Spaces, from : Int, to : Int,
   margin : Margins \cup {NoMargin}, lapsed : BOOLEAN, version : Nat \ {0}]
Screens == [id : Events \cup {None}, row : EventRows]

Init ==
  /\ event = [e \in Events |-> NoEvent]
  /\ screen = [a \in Staff |-> [id |-> None, row |-> NoEvent]]
  /\ confirming = None

-----------------------------------------------------------------------------
Exists(e) == event[e].status # "absent"
IsNextId(e) == ~Exists(e) /\ \A f \in Events : f < e => Exists(f)
Unlocked == confirming = None

StartsAt(e) == event[e].from - event[e].margin.before
EndsAt(e) == event[e].to + event[e].margin.after
IsHold(e) == event[e].status = "tentative" /\ ~event[e].lapsed
IsOperational(e) == event[e].status \in Operational

(* A bug to catch: an empty interval is let through. *)
IsIntervalOrEmpty(from, to) == from <= to
IsInterval(from, to) == from < to

(* A bug to catch: what customers hold does not block the staff. *)
BlocksWhenOperational(e) == IsOperational(e)
Blocks(e) == IsOperational(e) \/ IsHold(e)

(* A bug to catch: the time to set up the other event is not looked at. *)
IsAvailableForThePublic(e, space, startsAt, endsAt) ==
  ~ \E f \in Events \ {e} :
      /\ Blocks(f) /\ event[f].space = space
      /\ event[f].from < endsAt /\ EndsAt(f) > startsAt

(* checkAvailability: nothing else blocks the hall from startsAt to endsAt. *)
IsAvailable(e, space, startsAt, endsAt) ==
  ~ \E f \in Events \ {e} :
      /\ Blocks(f) /\ event[f].space = space
      /\ StartsAt(f) < endsAt /\ EndsAt(f) > startsAt

NewEvent(status, space, from, to, margin) ==
  [status |-> status, space |-> space, from |-> from, to |-> to, margin |-> margin,
   lapsed |-> FALSE, version |-> 1]

(* expireTentatives: the version stays as it is. *)
Expired(row) ==
  IF row.status = "tentative" /\ row.lapsed THEN [row EXCEPT !.status = "cancelled"] ELSE row

-----------------------------------------------------------------------------
(* Outside the lock. *)
ReadEvent(a, e) ==
  /\ Exists(e)
  /\ screen' = [screen EXCEPT ![a] = [id |-> e, row |-> event[e]]]
  /\ UNCHANGED <<event, confirming>>

HoldLapses(e) ==
  /\ IsHold(e)
  /\ event' = [event EXCEPT ![e].lapsed = TRUE]
  /\ UNCHANGED <<screen, confirming>>

ListCustomerEvents ==
  /\ event' = [e \in Events |-> Expired(event[e])]
  /\ UNCHANGED <<screen, confirming>>

-----------------------------------------------------------------------------
(* Of the staff and the customers: both may create, only one looks first. *)
CreateEvent(e, space, from, to, margin) ==
  /\ Unlocked /\ IsNextId(e)
  /\ IsInterval(from, to)
  /\ event' = [event EXCEPT ![e] = NewEvent("draft", space, from, to, margin)]
  /\ UNCHANGED <<screen, confirming>>

(* The hall is asked for the event alone, without its own margin. *)
CreateCustomerPreReservation(e, space, from, to, margin) ==
  /\ Unlocked /\ IsNextId(e)
  /\ IsInterval(from, to)
  /\ IsAvailable(e, space, from, to)
  /\ event' = [f \in Events |->
       IF f = e THEN NewEvent("tentative", space, from, to, margin) ELSE Expired(event[f])]
  /\ UNCHANGED <<screen, confirming>>

CancelCustomerEvent(e) ==
  /\ Unlocked
  /\ event[e].status \in {"draft", "tentative"} /\ event[e].version < MaxVersion
  /\ event' = [event EXCEPT ![e].status = "cancelled", ![e].version = @ + 1]
  /\ UNCHANGED <<screen, confirming>>

(* expectedVersion is that of the row on the screen. *)
IsUpToDate(a, e) ==
  /\ Exists(e) /\ screen[a].id = e /\ screen[a].row.version = event[e].version
  /\ event[e].version < MaxVersion

(* A bug to catch: the version stays. *)
UpdateEventInPlace(a, e, space, from, to, margin) ==
  /\ Unlocked /\ IsUpToDate(a, e)
  /\ event[e].status \notin {"cancelled", "archived"}
  /\ IsInterval(from, to)
  /\ event[e].status \in Operational \cup {"tentative"} =>
       IsAvailable(e, space, from - margin.before, to + margin.after)
  /\ event' = [event EXCEPT ![e].space = space, ![e].from = from, ![e].to = to, ![e].margin = margin]
  /\ UNCHANGED <<screen, confirming>>

UpdateEvent(a, e, space, from, to, margin) ==
  /\ Unlocked /\ IsUpToDate(a, e)
  /\ event[e].status \notin {"cancelled", "archived"}
  /\ IsInterval(from, to)
  /\ event[e].status \in Operational \cup {"tentative"} =>
       IsAvailable(e, space, from - margin.before, to + margin.after)
  /\ event' = [event EXCEPT ![e].space = space, ![e].from = from, ![e].to = to,
                            ![e].margin = margin, ![e].version = @ + 1]
  /\ UNCHANGED <<screen, confirming>>

(* Any event may be confirmed that is not cancelled or archived, a completed
   one too.  The checks, and the UPDATE that relies on them: *)
BeginConfirm(a, e) ==
  /\ Unlocked /\ IsUpToDate(a, e)
  /\ event[e].status \notin {"cancelled", "archived"}
  /\ ~(event[e].status = "tentative" /\ event[e].lapsed)
  /\ IsAvailable(e, event[e].space, StartsAt(e), EndsAt(e))
  /\ confirming' = e
  /\ UNCHANGED <<event, screen>>

FinishConfirm(e) ==
  /\ confirming = e
  /\ event' = [event EXCEPT ![e].status = "confirmed", ![e].version = @ + 1]
  /\ confirming' = None
  /\ UNCHANGED screen

(* The transaction is rolled back. *)
AbortConfirm ==
  /\ confirming # None
  /\ confirming' = None
  /\ UNCHANGED <<event, screen>>

SetStatus(a, e, from, to) ==
  /\ Unlocked /\ IsUpToDate(a, e)
  /\ event[e].status \in from
  /\ event' = [event EXCEPT ![e].status = to, ![e].version = @ + 1]
  /\ UNCHANGED <<screen, confirming>>

CancelEvent(a, e) == SetStatus(a, e, EventStatuses \ {"archived"}, "cancelled")
AdvanceEvent(a, e) ==
  \/ SetStatus(a, e, {"confirmed"}, "preparing")
  \/ SetStatus(a, e, {"preparing"}, "in_progress")
  \/ SetStatus(a, e, {"in_progress"}, "completed")
ArchiveEvent(a, e) == SetStatus(a, e, {"cancelled", "completed"}, "archived")

Next ==
  \/ ListCustomerEvents \/ AbortConfirm
  \/ \E e \in Events : HoldLapses(e) \/ CancelCustomerEvent(e) \/ FinishConfirm(e)
  \/ \E e \in Events, space \in Spaces, from, to \in Times :
       \/ \E margin \in Margins : CreateCustomerPreReservation(e, space, from, to, margin)
       \/ \E margin \in Margins \cup {NoMargin} :
            \/ CreateEvent(e, space, from, to, margin)
            \/ \E a \in Staff : UpdateEvent(a, e, space, from, to, margin)
  \/ \E a \in Staff, e \in Events :
       \/ ReadEvent(a, e) \/ BeginConfirm(a, e)
       \/ CancelEvent(a, e) \/ AdvanceEvent(a, e) \/ ArchiveEvent(a, e)

Spec == Init /\ [][Next]_vars

-----------------------------------------------------------------------------
(* Every row has values of its columns and an interval that is not empty. *)
EventsTypeOK ==
  /\ event \in [Events -> EventRows]
  /\ screen \in [Staff -> Screens]
  /\ confirming \in Events \cup {None}
  /\ \A e \in Events : event[e].from < event[e].to

(* No two events that the hotel has taken on need one hall at one time, with
   the time to set up and to clear away: however drafts, holds and completed
   events are moved and confirmed.  No constraint of the database says so. *)
OperationalNeverOverlap ==
  \A e, f \in Events :
    (e # f /\ IsOperational(e) /\ IsOperational(f) /\ event[e].space = event[f].space) =>
      EndsAt(e) <= StartsAt(f) \/ EndsAt(f) <= StartsAt(e)

(* As long as a customer's hold runs, the hall is kept for the time of the
   event: from the staff's events with their margins, and from other holds. *)
KeptFrom(e) == IF IsHold(e) THEN event[e].from ELSE StartsAt(e)
KeptTo(e) == IF IsHold(e) THEN event[e].to ELSE EndsAt(e)
HoldsAreHonoured ==
  \A e, f \in Events :
    (e # f /\ IsHold(e) /\ Blocks(f) /\ event[e].space = event[f].space) =>
      event[e].to <= KeptFrom(f) \/ KeptTo(f) <= event[e].from

(* A version names a state of the event: who sends it has seen the interval,
   the hall and the status the command will meet, unless the event was written
   off since, which leaves the version. *)
IsWhatWasShown(row, shown) ==
  \/ row = [shown EXCEPT !.lapsed = row.lapsed]
  \/ /\ shown.status = "tentative"
     /\ row = [shown EXCEPT !.status = "cancelled", !.lapsed = TRUE]
VersionIdentifies ==
  \A a \in Staff, e \in Events :
    (screen[a].id = e /\ screen[a].row.version = event[e].version) =>
      IsWhatWasShown(event[e], screen[a].row)
=============================================================================
