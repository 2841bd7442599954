------------------------------ MODULE EventProofs ------------------------------
(***************************************************************************)
(* Proofs about EventSpaces, for any number of halls, events and staff.    *)
(*                                                                         *)
(* Nothing but the checks of the service keeps events apart, and the only  *)
(* one that is not made and used in one step is that of confirmEvent: the  *)
(* invariant says that it still holds when the UPDATE is executed, because *)
(* what goes on outside the lock only takes events away.                   *)
(***************************************************************************)
EXTENDS EventSpaces, TLAPS

(* What was checked for an event that is being confirmed is still so. *)
CheckStillHolds ==
  confirming # None =>
    /\ Exists(confirming)
    /\ IsAvailable(confirming, event[confirming].space, StartsAt(confirming), EndsAt(confirming))

(* A screen shows an event that exists, in a version it has or had. *)
ScreensShowThePast ==
  \A a \in Staff : screen[a].id # None =>
    /\ Exists(screen[a].id) /\ screen[a].row.status # "absent"
    /\ screen[a].row.version <= event[screen[a].id].version

EventsInv ==
  /\ EventsTypeOK
  /\ OperationalNeverOverlap
  /\ HoldsAreHonoured
  /\ CheckStillHolds
  /\ ScreensShowThePast
  /\ VersionIdentifies

-----------------------------------------------------------------------------
(* The fields of a row. *)
LEMMA RowFields ==
  ASSUME NEW row \in EventRows
  PROVE  /\ row.from \in Int /\ row.to \in Int /\ row.lapsed \in BOOLEAN
         /\ row.margin.before \in Nat /\ row.margin.after \in Nat
         /\ row.margin \in Margins \cup {NoMargin}
         /\ row.version \in Nat /\ row.status \in EventStatuses \cup {"absent"}
         /\ row.status # "absent" => row.version \in Nat \ {0} /\ row.space \in Spaces
<1>1. \A m \in Margins \cup {NoMargin} : m.before \in Nat /\ m.after \in Nat
  BY MarginsAreDurations DEF NoMargin
<1>2. CASE row = NoEvent
  BY <1>1, <1>2 DEF NoEvent, NoMargin
<1>3. CASE row # NoEvent
  <2>1. row \in [status : EventStatuses, space : Spaces, from : Int, to : Int,
                 margin : Margins \cup {NoMargin}, lapsed : BOOLEAN, version : Nat \ {0}]
    BY <1>3 DEF EventRows
  <2>2. row.status # "absent"
    BY <2>1 DEF EventStatuses, Operational
  <2>3. QED
    BY <1>1, <2>1, <2>2
<1>4. QED
  BY <1>2, <1>3

(* Rows stay rows when they are written to. *)
LEMMA RowUpdates ==
  ASSUME NEW row \in EventRows, row.status # "absent"
  PROVE  /\ [row EXCEPT !.lapsed = TRUE] \in EventRows
         /\ \A st \in EventStatuses : [row EXCEPT !.status = st] \in EventRows
         /\ \A st \in EventStatuses :
              [row EXCEPT !.status = st, !.version = row.version + 1] \in EventRows
         /\ \A space \in Spaces, from, to \in Int, margin \in Margins \cup {NoMargin} :
              [row EXCEPT !.space = space, !.from = from, !.to = to,
                          !.margin = margin, !.version = row.version + 1] \in EventRows
<1>1. row \in [status : EventStatuses, space : Spaces, from : Int, to : Int,
               margin : Margins \cup {NoMargin}, lapsed : BOOLEAN, version : Nat \ {0}]
  BY DEF EventRows, NoEvent
<1>2. /\ [row EXCEPT !.lapsed = TRUE] \in EventRows
      /\ \A st \in EventStatuses : [row EXCEPT !.status = st] \in EventRows
  BY <1>1 DEF EventRows
<1>. row.version + 1 \in Nat \ {0}
  BY <1>1
<1>3. \A v \in Nat \ {0}, st \in EventStatuses :
        [row EXCEPT !.status = st, !.version = v] \in EventRows
  BY <1>1 DEF EventRows
<1>4. \A v \in Nat \ {0}, space \in Spaces, from, to \in Int, margin \in Margins \cup {NoMargin} :
        [row EXCEPT !.space = space, !.from = from, !.to = to,
                    !.margin = margin, !.version = v] \in EventRows
  BY <1>1 DEF EventRows
<1>5. QED
  BY <1>2, <1>3, <1>4

LEMMA ExpiredRow ==
  ASSUME NEW row \in EventRows
  PROVE  /\ Expired(row) \in EventRows
         /\ Expired(row).from = row.from /\ Expired(row).to = row.to
         /\ Expired(row).space = row.space /\ Expired(row).margin = row.margin
         /\ Expired(row).version = row.version /\ Expired(row).lapsed = row.lapsed
         /\ Expired(row).status = "absent" <=> row.status = "absent"
         /\ \/ Expired(row) = row
            \/ /\ row.status = "tentative" /\ row.lapsed
               /\ Expired(row) = [row EXCEPT !.status = "cancelled"]
<1>1. CASE row.status = "tentative" /\ row.lapsed
  <2>1. Expired(row) = [row EXCEPT !.status = "cancelled"]
    BY <1>1 DEF Expired
  <2>2. row \in [status : EventStatuses, space : Spaces, from : Int, to : Int,
               margin : Margins \cup {NoMargin}, lapsed : BOOLEAN, version : Nat \ {0}]
    BY <1>1 DEF EventRows, NoEvent
  <2>3. QED
    BY <1>1, <2>1, <2>2 DEF EventRows, EventStatuses
<1>2. CASE ~(row.status = "tentative" /\ row.lapsed)
  BY <1>2 DEF Expired
<1>3. QED
  BY <1>1, <1>2

-----------------------------------------------------------------------------
(* Where events only stop blocking their halls, no two of them come to meet. *)
LEMMA NoNewBlocks ==
  ASSUME OperationalNeverOverlap, HoldsAreHonoured, CheckStillHolds,
         \A f \in Events :
           /\ Blocks(f)' => /\ IsOperational(f)' <=> IsOperational(f)
                            /\ IsHold(f)' <=> IsHold(f)
           /\ Exists(f) =>
                /\ Exists(f)'
                /\ event'[f].space = event[f].space /\ event'[f].margin = event[f].margin
                /\ event'[f].from = event[f].from /\ event'[f].to = event[f].to,
         confirming \in Events \cup {None},
         confirming' \in {None, confirming}
  PROVE  OperationalNeverOverlap' /\ HoldsAreHonoured' /\ CheckStillHolds'
<1>1. \A f \in Events : Blocks(f)' =>
        /\ Blocks(f)
        /\ IsOperational(f)' <=> IsOperational(f)
        /\ IsHold(f)' <=> IsHold(f)
        /\ event'[f].space = event[f].space
        /\ event'[f].from = event[f].from /\ event'[f].to = event[f].to
        /\ StartsAt(f)' = StartsAt(f) /\ EndsAt(f)' = EndsAt(f)
  BY DEF Blocks, IsHold, IsOperational, Operational, Exists, StartsAt, EndsAt
<1>2. OperationalNeverOverlap'
  BY <1>1 DEF OperationalNeverOverlap, Blocks
<1>3. HoldsAreHonoured'
  BY <1>1 DEF HoldsAreHonoured, Blocks, KeptFrom, KeptTo
<1>4. CheckStillHolds'
  <2>1. SUFFICES ASSUME confirming' # None
                 PROVE  /\ Exists(confirming)'
                        /\ IsAvailable(confirming, event[confirming].space,
                                       StartsAt(confirming), EndsAt(confirming))'
    BY DEF CheckStillHolds
  <2>2. /\ confirming' = confirming /\ confirming \in Events /\ Exists(confirming)
        /\ IsAvailable(confirming, event[confirming].space,
                       StartsAt(confirming), EndsAt(confirming))
    BY <2>1 DEF CheckStillHolds
  <2>3. /\ Exists(confirming)' /\ event'[confirming].space = event[confirming].space
        /\ StartsAt(confirming)' = StartsAt(confirming) /\ EndsAt(confirming)' = EndsAt(confirming)
    BY <2>2 DEF StartsAt, EndsAt
  <2>4. QED
    <3>1. SUFFICES ASSUME NEW f \in Events \ {confirming}, Blocks(f)',
                          event'[f].space = event'[confirming].space
                   PROVE  ~(StartsAt(f)' < EndsAt(confirming)' /\ EndsAt(f)' > StartsAt(confirming)')
      BY <2>2, <2>3 DEF IsAvailable
    <3>2. Blocks(f) /\ event[f].space = event[confirming].space
      BY <1>1, <2>3, <3>1
    <3>3. ~(StartsAt(f) < EndsAt(confirming) /\ EndsAt(f) > StartsAt(confirming))
      BY <2>2, <3>2 DEF IsAvailable
    <3>4. QED
      BY <1>1, <2>3, <3>1, <3>3
<1>5. QED
  BY <1>2, <1>3, <1>4

(* One event may come to block its hall, if it is kept clear of the others. *)
LEMMA OneNewBlock ==
  ASSUME OperationalNeverOverlap, HoldsAreHonoured, NEW e \in Events, confirming' = None,
         \A f \in Events :
           /\ event[f].from \in Int /\ event[f].to \in Int
           /\ event[f].margin.before \in Nat /\ event[f].margin.after \in Nat,
         /\ event'[e].from \in Int /\ event'[e].to \in Int
         /\ event'[e].margin.before \in Nat /\ event'[e].margin.after \in Nat,
         \A f \in Events \ {e} : Blocks(f)' => event'[f] = event[f],
         Blocks(e)' =>
           \A f \in Events \ {e} :
             (Blocks(f) /\ event[f].space = event'[e].space) =>
               KeptTo(e)' <= StartsAt(f) \/ EndsAt(f) <= KeptFrom(e)'
  PROVE  OperationalNeverOverlap' /\ HoldsAreHonoured' /\ CheckStillHolds'
<1>1. \A f \in Events \ {e} : Blocks(f)' =>
        /\ event'[f] = event[f] /\ Blocks(f)
        /\ IsOperational(f)' <=> IsOperational(f)
        /\ IsHold(f)' <=> IsHold(f)
        /\ StartsAt(f)' = StartsAt(f)
        /\ EndsAt(f)' = EndsAt(f)
        /\ KeptFrom(f)' = KeptFrom(f)
        /\ KeptTo(f)' = KeptTo(f)
  BY DEF Blocks, IsHold, IsOperational, StartsAt, EndsAt, KeptFrom, KeptTo
<1>2. \A f \in Events :
        /\ StartsAt(f) \in Int /\ EndsAt(f) \in Int
        /\ StartsAt(f) <= event[f].from /\ event[f].to <= EndsAt(f)
        /\ StartsAt(f) <= KeptFrom(f) /\ KeptTo(f) <= EndsAt(f)
        /\ KeptFrom(f) \in Int /\ KeptTo(f) \in Int
  BY DEF StartsAt, EndsAt, KeptFrom, KeptTo
<1>3. /\ KeptFrom(e)' \in Int /\ KeptTo(e)' \in Int
      /\ IsHold(e)' => KeptFrom(e)' = event'[e].from /\ KeptTo(e)' = event'[e].to
      /\ IsOperational(e)' => KeptFrom(e)' = StartsAt(e)' /\ KeptTo(e)' = EndsAt(e)'
  BY DEF StartsAt, EndsAt, KeptFrom, KeptTo, IsHold, IsOperational, Operational
<1>4. \A f \in Events \ {e} :
        (Blocks(f)' /\ Blocks(e)' /\ event'[f].space = event'[e].space) =>
          KeptTo(e)' <= StartsAt(f) \/ EndsAt(f) <= KeptFrom(e)'
  BY <1>1
<1>5. OperationalNeverOverlap'
  <2>1. SUFFICES ASSUME NEW f \in Events, NEW g \in Events, f # g, IsOperational(f)',
                        IsOperational(g)', event'[f].space = event'[g].space
                 PROVE  EndsAt(f)' <= StartsAt(g)' \/ EndsAt(g)' <= StartsAt(f)'
    BY DEF OperationalNeverOverlap
  <2>2. Blocks(f)' /\ Blocks(g)'
    BY <2>1 DEF Blocks
  <2>3. CASE f = e
    BY <1>1, <1>3, <1>4, <2>1, <2>2, <2>3
  <2>4. CASE g = e
    BY <1>1, <1>3, <1>4, <2>1, <2>2, <2>4
  <2>5. CASE f # e /\ g # e
    BY <1>1, <2>1, <2>2, <2>5 DEF OperationalNeverOverlap
  <2>6. QED
    BY <2>3, <2>4, <2>5
<1>6. HoldsAreHonoured'
  <2>1. SUFFICES ASSUME NEW f \in Events, NEW g \in Events, f # g, IsHold(f)',
                        Blocks(g)', event'[f].space = event'[g].space
                 PROVE  event'[f].to <= KeptFrom(g)' \/ KeptTo(g)' <= event'[f].from
    BY DEF HoldsAreHonoured
  <2>2. Blocks(f)'
    BY <2>1 DEF Blocks
  <2>3. CASE f = e
    <3>1. /\ KeptTo(e)' <= StartsAt(g) \/ EndsAt(g) <= KeptFrom(e)'
          /\ KeptFrom(g)' = KeptFrom(g) /\ KeptTo(g)' = KeptTo(g)
      BY <1>1, <1>4, <2>1, <2>2, <2>3
    <3>2. KeptFrom(e)' = event'[e].from /\ KeptTo(e)' = event'[e].to
      BY <1>3, <2>1, <2>3
    <3>3. QED
      BY <1>2, <2>3, <3>1, <3>2
  <2>4. CASE g = e
    <3>1. /\ KeptTo(e)' <= StartsAt(f) \/ EndsAt(f) <= KeptFrom(e)'
          /\ event'[f] = event[f]
      BY <1>1, <1>4, <2>1, <2>2, <2>4
    <3>2. QED
      BY <1>2, <1>3, <2>4, <3>1
  <2>5. CASE f # e /\ g # e
    <3>1. /\ event'[f] = event[f] /\ IsHold(f) /\ Blocks(g) /\ event'[g] = event[g]
          /\ KeptFrom(g)' = KeptFrom(g) /\ KeptTo(g)' = KeptTo(g)
      BY <1>1, <2>1, <2>2, <2>5
    <3>2. QED
      BY <2>1, <3>1 DEF HoldsAreHonoured
  <2>6. QED
    BY <2>3, <2>4, <2>5
<1>7. CheckStillHolds'
  BY DEF CheckStillHolds
<1>8. QED
  BY <1>5, <1>6, <1>7

(* A command that counts the version up leaves every screen behind. *)
LEMMA ScreensFallBehind ==
  ASSUME EventsTypeOK, ScreensShowThePast, VersionIdentifies,
         NEW e \in Events, NEW row,
         Exists(e), row.status # "absent", row.version = event[e].version + 1,
         event' = [event EXCEPT ![e] = row], screen' = screen
  PROVE  ScreensShowThePast' /\ VersionIdentifies'
<1>1. event[e].version \in Nat /\ \A a \in Staff : screen[a].row.version \in Nat
  BY RowFields DEF EventsTypeOK, Screens
<1>2. \A f \in Events : event'[f] = IF f = e THEN row ELSE event[f]
  BY DEF EventsTypeOK
<1>3. \A a \in Staff : screen[a].id = e => screen[a].row.version < event'[e].version
  BY <1>1, <1>2, EventsAreNumbers DEF ScreensShowThePast
<1>4. ScreensShowThePast'
  BY <1>1, <1>2, <1>3 DEF ScreensShowThePast, Exists
<1>5. VersionIdentifies'
  BY <1>1, <1>2, <1>3 DEF VersionIdentifies
<1>6. QED
  BY <1>4, <1>5

-----------------------------------------------------------------------------
(* Every action keeps the types. *)
LEMMA TypeStep == EventsTypeOK /\ CheckStillHolds /\ [Next]_vars => EventsTypeOK'
<1> SUFFICES ASSUME EventsTypeOK, CheckStillHolds, [Next]_vars PROVE EventsTypeOK'
  OBVIOUS
<1>0. \A e \in Events : event[e] \in EventRows /\ event[e].from < event[e].to
  BY DEF EventsTypeOK
<1>1. ASSUME NEW e \in Events, NEW row \in EventRows, row.from < row.to,
             event' = [event EXCEPT ![e] = row], screen' = screen,
             confirming' \in Events \cup {None}
      PROVE  EventsTypeOK'
  BY <1>1 DEF EventsTypeOK
<1>2. ASSUME NEW e \in Events, NEW space \in Spaces, NEW from \in Int, NEW to \in Int,
             NEW margin \in Margins \cup {NoMargin}, NEW st \in EventStatuses
      PROVE  NewEvent(st, space, from, to, margin) \in EventRows
  BY DEF NewEvent, EventRows
<1>3. CASE ListCustomerEvents
  BY <1>0, <1>3, ExpiredRow DEF ListCustomerEvents, EventsTypeOK
<1>4. CASE AbortConfirm
  BY <1>4 DEF AbortConfirm, EventsTypeOK
<1>5. ASSUME NEW e \in Events, HoldLapses(e)
      PROVE  EventsTypeOK'
  <2>1. event' = [event EXCEPT ![e] = [event[e] EXCEPT !.lapsed = TRUE]]
    BY <1>5 DEF HoldLapses, EventsTypeOK
  <2>2. [event[e] EXCEPT !.lapsed = TRUE] \in EventRows
    BY <1>0, <1>5, RowUpdates DEF HoldLapses, IsHold
  <2>3. [event[e] EXCEPT !.lapsed = TRUE].from < [event[e] EXCEPT !.lapsed = TRUE].to
    BY <1>0, <1>5 DEF HoldLapses, IsHold, EventRows, NoEvent
  <2>4. QED
    BY <1>1, <1>5, <2>1, <2>2, <2>3 DEF HoldLapses, EventsTypeOK
<1>6. ASSUME NEW e \in Events, NEW st \in EventStatuses, Exists(e), UNCHANGED screen,
             confirming' \in Events \cup {None},
             event' = [event EXCEPT ![e].status = st, ![e].version = @ + 1]
      PROVE  EventsTypeOK'
  <2> DEFINE row == [event[e] EXCEPT !.status = st, !.version = event[e].version + 1]
  <2>1. event' = [event EXCEPT ![e] = row]
    BY <1>6 DEF EventsTypeOK
  <2>2. row \in EventRows
    BY <1>0, <1>6, RowUpdates DEF Exists
  <2>3. row.from < row.to
    BY <1>0, <1>6 DEF Exists, EventRows, NoEvent
  <2>4. QED
    BY <1>1, <1>6, <2>1, <2>2, <2>3
<1>7. ASSUME NEW e \in Events, CancelCustomerEvent(e) \/ FinishConfirm(e)
      PROVE  EventsTypeOK'
  <2>1. Exists(e)
    BY <1>7, EventsAreNumbers DEF CancelCustomerEvent, FinishConfirm, CheckStillHolds, Exists
  <2>2. QED
    BY <1>6, <1>7, <2>1
       DEF CancelCustomerEvent, FinishConfirm, EventStatuses, Operational, EventsTypeOK
<1>8. ASSUME NEW e \in Events, NEW space \in Spaces, NEW from \in Times, NEW to \in Times,
             NEW margin \in Margins \cup {NoMargin},
             \/ CreateEvent(e, space, from, to, margin)
             \/ CreateCustomerPreReservation(e, space, from, to, margin)
             \/ \E a \in Staff : UpdateEvent(a, e, space, from, to, margin)
      PROVE  EventsTypeOK'
  <2>1. from \in Int /\ to \in Int /\ from < to
    BY <1>8, TimesAreNumbers DEF CreateEvent, CreateCustomerPreReservation, UpdateEvent, IsInterval
  <2>2. CASE CreateEvent(e, space, from, to, margin)
    <3>1. NewEvent("draft", space, from, to, margin) \in EventRows
      BY <1>2, <2>1 DEF EventStatuses
    <3>2. QED
      BY <1>1, <2>1, <2>2, <3>1 DEF CreateEvent, NewEvent, EventsTypeOK
  <2>3. CASE CreateCustomerPreReservation(e, space, from, to, margin)
    <3>1. NewEvent("tentative", space, from, to, margin) \in EventRows
      BY <1>2, <2>1 DEF EventStatuses
    <3>2. NewEvent("tentative", space, from, to, margin).from = from
          /\ NewEvent("tentative", space, from, to, margin).to = to
      BY DEF NewEvent
    <3>3. QED
      BY <1>0, <2>1, <2>3, <3>1, <3>2, ExpiredRow DEF CreateCustomerPreReservation, EventsTypeOK
  <2>4. ASSUME NEW a \in Staff, UpdateEvent(a, e, space, from, to, margin)
        PROVE  EventsTypeOK'
    <3> DEFINE row == [event[e] EXCEPT !.space = space, !.from = from, !.to = to,
                                       !.margin = margin, !.version = event[e].version + 1]
    <3>1. event' = [event EXCEPT ![e] = row]
      BY <2>4 DEF UpdateEvent, EventsTypeOK
    <3>2. row \in EventRows
      BY <1>0, <2>1, <2>4, RowUpdates DEF UpdateEvent, IsUpToDate, Exists
    <3>3. row.from < row.to
      BY <1>0, <2>1, <2>4 DEF UpdateEvent, IsUpToDate, Exists, EventRows, NoEvent
    <3>4. QED
      BY <1>1, <2>4, <3>1, <3>2, <3>3 DEF UpdateEvent, EventsTypeOK
  <2>5. QED
    BY <1>8, <2>2, <2>3, <2>4
<1>9. ASSUME NEW a \in Staff, NEW e \in Events, ReadEvent(a, e) \/ BeginConfirm(a, e)
      PROVE  EventsTypeOK'
  BY <1>9 DEF ReadEvent, BeginConfirm, EventsTypeOK, Screens
<1>10. ASSUME NEW a \in Staff, NEW e \in Events, CancelEvent(a, e) \/ AdvanceEvent(a, e) \/ ArchiveEvent(a, e)
       PROVE  EventsTypeOK'
  BY <1>6, <1>10 DEF CancelEvent, AdvanceEvent, ArchiveEvent, SetStatus, IsUpToDate,
                     EventStatuses, Operational, EventsTypeOK
<1>11. CASE UNCHANGED vars
  BY <1>11 DEF vars, EventsTypeOK
<1>12. QED
  BY <1>3, <1>4, <1>5, <1>7, <1>8, <1>9, <1>10, <1>11 DEF Next

(* Every action leaves events apart that have to be. *)
LEMMA OverlapStep ==
  EventsInv /\ [Next]_vars => OperationalNeverOverlap' /\ HoldsAreHonoured' /\ CheckStillHolds'
<1> SUFFICES ASSUME EventsInv, [Next]_vars
             PROVE  OperationalNeverOverlap' /\ HoldsAreHonoured' /\ CheckStillHolds'
  OBVIOUS
<1> USE DEF EventsInv
<1>0. /\ event \in [Events -> EventRows] /\ confirming \in Events \cup {None}
      /\ \A e \in Events :
           /\ event[e].from \in Int /\ event[e].to \in Int /\ event[e].from < event[e].to
           /\ event[e].margin.before \in Nat /\ event[e].margin.after \in Nat
  BY RowFields DEF EventsTypeOK
<1>1. CASE ListCustomerEvents
  <2>1. \A f \in Events :
          /\ Exists(f) => Exists(f)'
          /\ event'[f].space = event[f].space /\ event'[f].margin = event[f].margin
          /\ event'[f].from = event[f].from /\ event'[f].to = event[f].to
    BY <1>0, <1>1, ExpiredRow DEF ListCustomerEvents, Exists
  <2>2. \A f \in Events : event'[f] = event[f] \/ ~Blocks(f)'
    <3>1. \A f \in Events : event'[f] = Expired(event[f])
      BY <1>1 DEF ListCustomerEvents
    <3>2. \A f \in Events : event'[f] = event[f] \/ event'[f].status = "cancelled"
      BY <1>0, <3>1 DEF Expired, EventRows, NoEvent
    <3>3. QED
      BY <3>2 DEF Blocks, IsOperational, IsHold, Operational
  <2>3. QED
    BY <1>0, <1>1, <2>1, <2>2, NoNewBlocks DEF ListCustomerEvents, Blocks, IsOperational, IsHold
<1>2. ASSUME \/ AbortConfirm \/ UNCHANGED vars
             \/ \E a \in Staff, e \in Events : ReadEvent(a, e)
      PROVE  OperationalNeverOverlap' /\ HoldsAreHonoured' /\ CheckStillHolds'
  <2>1. event' = event /\ confirming' \in {None, confirming}
    BY <1>2 DEF AbortConfirm, vars, ReadEvent
  <2>2. QED
    BY <1>0, <2>1, NoNewBlocks DEF Blocks, IsOperational, IsHold, Exists
<1>3. ASSUME NEW e \in Events, HoldLapses(e)
      PROVE  OperationalNeverOverlap' /\ HoldsAreHonoured' /\ CheckStillHolds'
  <2>1. event'[e] = [event[e] EXCEPT !.lapsed = TRUE]
    BY <1>0, <1>3 DEF HoldLapses
  <2>2. event[e].status = "tentative" /\ event[e] # NoEvent
    BY <1>3 DEF HoldLapses, IsHold, NoEvent
  <2>3. /\ event'[e].status = "tentative" /\ event'[e].lapsed
        /\ event'[e].space = event[e].space /\ event'[e].margin = event[e].margin
        /\ event'[e].from = event[e].from /\ event'[e].to = event[e].to
    BY <1>0, <2>1, <2>2 DEF EventRows
  <2>4. ~Blocks(e)' /\ Exists(e)'
    BY <2>3 DEF Blocks, IsOperational, Operational, IsHold, Exists
  <2>5. \A f \in Events \ {e} : event'[f] = event[f]
    BY <1>0, <1>3 DEF HoldLapses
  <2>6. QED
    BY <1>0, <1>3, <2>3, <2>4, <2>5, NoNewBlocks DEF HoldLapses, Blocks, IsOperational, IsHold, Exists
<1>4. ASSUME NEW e \in Events, NEW st \in EventStatuses, Exists(e), confirming' = confirming,
             st \in Operational => IsOperational(e), st # "tentative",
             event' = [event EXCEPT ![e].status = st, ![e].version = @ + 1]
      PROVE  OperationalNeverOverlap' /\ HoldsAreHonoured' /\ CheckStillHolds'
  <2>1. event'[e] = [event[e] EXCEPT !.status = st, !.version = @ + 1] /\ event[e] # NoEvent
    BY <1>0, <1>4 DEF Exists, NoEvent
  <2>2. /\ event'[e].status = st
        /\ event'[e].space = event[e].space /\ event'[e].margin = event[e].margin
        /\ event'[e].from = event[e].from /\ event'[e].to = event[e].to
    BY <1>0, <2>1 DEF EventRows
  <2>3. Exists(e)' /\ (Blocks(e)' => (IsOperational(e)' /\ IsOperational(e) /\ ~IsHold(e) /\ ~IsHold(e)'))
    BY <1>4, <2>2 DEF Exists, EventStatuses, Blocks, IsOperational, IsHold, Operational
  <2>4. \A f \in Events \ {e} : event'[f] = event[f]
    BY <1>0, <1>4
  <2>5. QED
    BY <1>0, <1>4, <2>2, <2>3, <2>4, NoNewBlocks DEF Blocks, IsOperational, IsHold, Exists
<1>5. ASSUME NEW e \in Events, CancelCustomerEvent(e)
      PROVE  OperationalNeverOverlap' /\ HoldsAreHonoured' /\ CheckStillHolds'
  <2>1. /\ Exists(e) /\ confirming' = confirming
        /\ event' = [event EXCEPT ![e].status = "cancelled", ![e].version = @ + 1]
    BY <1>5 DEF CancelCustomerEvent, Exists
  <2>2. "cancelled" \in EventStatuses /\ "cancelled" \notin Operational
    BY DEF EventStatuses, Operational
  <2>3. QED
    BY <1>4, <2>1, <2>2
<1>6. ASSUME NEW a \in Staff, NEW e \in Events, CancelEvent(a, e) \/ AdvanceEvent(a, e) \/ ArchiveEvent(a, e)
      PROVE  OperationalNeverOverlap' /\ HoldsAreHonoured' /\ CheckStillHolds'
  BY <1>4, <1>6 DEF CancelEvent, AdvanceEvent, ArchiveEvent, SetStatus, IsUpToDate, IsOperational,
                    EventStatuses, Operational
<1>7. ASSUME NEW e \in Events, NEW space \in Spaces, NEW from \in Times, NEW to \in Times,
             NEW margin \in Margins \cup {NoMargin}, CreateEvent(e, space, from, to, margin)
      PROVE  OperationalNeverOverlap' /\ HoldsAreHonoured' /\ CheckStillHolds'
  <2>1. ~Exists(e) /\ event'[e].status = "draft" /\ confirming' = confirming
    BY <1>0, <1>7 DEF CreateEvent, IsNextId, NewEvent
  <2>2. \A f \in Events \ {e} : event'[f] = event[f]
    BY <1>0, <1>7 DEF CreateEvent
  <2>3. ~Blocks(e)'
    BY <2>1 DEF Blocks, IsOperational, IsHold, Operational
  <2>4. QED
    BY <1>0, <2>1, <2>2, <2>3, NoNewBlocks DEF Blocks, IsOperational, IsHold, Exists
<1>8. ASSUME NEW e \in Events, NEW space \in Spaces, NEW from \in Times, NEW to \in Times,
             NEW margin \in Margins, CreateCustomerPreReservation(e, space, from, to, margin)
      PROVE  OperationalNeverOverlap' /\ HoldsAreHonoured' /\ CheckStillHolds'
  <2>1. /\ event'[e].status = "tentative" /\ event'[e].space = space
        /\ event'[e].from = from /\ event'[e].to = to /\ event'[e].margin = margin
        /\ ~event'[e].lapsed /\ confirming' = None
    BY <1>8 DEF CreateCustomerPreReservation, NewEvent, Unlocked
  <2>2. \A f \in Events \ {e} : Blocks(f)' => event'[f] = event[f]
    <3>1. \A f \in Events \ {e} : event'[f] = Expired(event[f])
      BY <1>8 DEF CreateCustomerPreReservation
    <3>2. \A f \in Events \ {e} : event'[f] = event[f] \/ event'[f].status = "cancelled"
      BY <1>0, <3>1 DEF Expired, EventRows, NoEvent
    <3>3. QED
      BY <3>2 DEF Blocks, IsOperational, IsHold, Operational
  <2>3. \A f \in Events \ {e} :
          (Blocks(f) /\ event[f].space = space) => to <= StartsAt(f) \/ EndsAt(f) <= from
    <3>1. \A f \in Events \ {e} : StartsAt(f) \in Int /\ EndsAt(f) \in Int
      BY <1>0 DEF StartsAt, EndsAt
    <3>2. QED
      BY <1>8, <3>1, TimesAreNumbers DEF CreateCustomerPreReservation, IsAvailable
  <2>4. KeptFrom(e)' = from /\ KeptTo(e)' = to
    BY <2>1 DEF KeptFrom, KeptTo, IsHold
  <2>5. margin.before \in Nat /\ margin.after \in Nat /\ from \in Int /\ to \in Int
    BY MarginsAreDurations, TimesAreNumbers
  <2>6. QED
    BY <1>0, <2>1, <2>2, <2>3, <2>4, <2>5, OneNewBlock
<1>9. ASSUME NEW a \in Staff, NEW e \in Events, NEW space \in Spaces, NEW from \in Times, NEW to \in Times,
             NEW margin \in Margins \cup {NoMargin}, UpdateEvent(a, e, space, from, to, margin)
      PROVE  OperationalNeverOverlap' /\ HoldsAreHonoured' /\ CheckStillHolds'
  <2>1. margin.before \in Nat /\ margin.after \in Nat /\ from \in Int /\ to \in Int
    BY MarginsAreDurations, TimesAreNumbers DEF NoMargin
  <2>2. event[e] \in [status : EventStatuses, space : Spaces, from : Int, to : Int,
                      margin : Margins \cup {NoMargin}, lapsed : BOOLEAN, version : Nat \ {0}]
    BY <1>0, <1>9 DEF UpdateEvent, IsUpToDate, Exists, EventRows, NoEvent
  <2>3. \A v : LET row == [event[e] EXCEPT !.space = space, !.from = from, !.to = to,
                                           !.margin = margin, !.version = v]
               IN /\ row.status = event[e].status /\ row.lapsed = event[e].lapsed
                  /\ row.space = space /\ row.from = from /\ row.to = to
                  /\ row.margin = margin
    BY <2>2
  <2>4. event'[e] = [event[e] EXCEPT !.space = space, !.from = from, !.to = to,
                                     !.margin = margin, !.version = event[e].version + 1]
    BY <1>0, <1>9 DEF UpdateEvent
  <2>5. /\ event'[e].status = event[e].status /\ event'[e].lapsed = event[e].lapsed
        /\ event'[e].space = space /\ event'[e].from = from /\ event'[e].to = to
        /\ event'[e].margin = margin
    BY <2>3, <2>4
  <2>6. confirming' = None /\ \A f \in Events \ {e} : event'[f] = event[f]
    BY <1>0, <1>9 DEF UpdateEvent, Unlocked
  <2>7. Blocks(e)' =>
          \A f \in Events \ {e} :
             (Blocks(f) /\ event[f].space = space) =>
               KeptTo(e)' <= StartsAt(f) \/ EndsAt(f) <= KeptFrom(e)'
    <3>1. SUFFICES ASSUME Blocks(e)', NEW f \in Events \ {e}, Blocks(f), event[f].space = space
                   PROVE  KeptTo(e)' <= StartsAt(f) \/ EndsAt(f) <= KeptFrom(e)'
      OBVIOUS
    <3>2. event[e].status \in Operational \cup {"tentative"}
      BY <2>5, <3>1 DEF Blocks, IsOperational, IsHold
    <3>3. ~(StartsAt(f) < to + margin.after /\ EndsAt(f) > from - margin.before)
      BY <1>9, <3>1, <3>2 DEF UpdateEvent, IsAvailable
    <3>4. /\ from - margin.before <= KeptFrom(e)' /\ KeptTo(e)' <= to + margin.after
          /\ KeptFrom(e)' \in Int /\ KeptTo(e)' \in Int
      BY <2>1, <2>5 DEF KeptFrom, KeptTo, StartsAt, EndsAt
    <3>5. StartsAt(f) \in Int /\ EndsAt(f) \in Int
      BY <1>0 DEF StartsAt, EndsAt
    <3>6. QED
      BY <2>1, <3>3, <3>4, <3>5
  <2>8. QED
    BY <1>0, <2>1, <2>5, <2>6, <2>7, OneNewBlock
<1>10. ASSUME NEW a \in Staff, NEW e \in Events, BeginConfirm(a, e)
       PROVE  OperationalNeverOverlap' /\ HoldsAreHonoured' /\ CheckStillHolds'
  <2>1. event' = event /\ confirming' = e /\ Exists(e)
        /\ IsAvailable(e, event[e].space, StartsAt(e), EndsAt(e))
    BY <1>10 DEF BeginConfirm, IsUpToDate
  <2>2. CheckStillHolds'
    BY <2>1 DEF CheckStillHolds, IsAvailable, Exists, StartsAt, EndsAt, Blocks, IsHold, IsOperational
  <2>3. OperationalNeverOverlap' /\ HoldsAreHonoured'
    BY <2>1 DEF OperationalNeverOverlap, HoldsAreHonoured, KeptFrom, KeptTo,
                StartsAt, EndsAt, Blocks, IsHold, IsOperational
  <2>4. QED
    BY <2>2, <2>3
<1>11. ASSUME NEW e \in Events, FinishConfirm(e)
       PROVE  OperationalNeverOverlap' /\ HoldsAreHonoured' /\ CheckStillHolds'
  <2>1. /\ confirming = e /\ confirming # None /\ Exists(e) /\ confirming' = None
        /\ IsAvailable(e, event[e].space, StartsAt(e), EndsAt(e))
    BY <1>11, EventsAreNumbers DEF FinishConfirm, CheckStillHolds
  <2>2. event[e] \in [status : EventStatuses, space : Spaces, from : Int, to : Int,
                      margin : Margins \cup {NoMargin}, lapsed : BOOLEAN, version : Nat \ {0}]
    BY <1>0, <2>1 DEF Exists, EventRows, NoEvent
  <2>3. event'[e] = [event[e] EXCEPT !.status = "confirmed", !.version = event[e].version + 1]
    BY <1>0, <1>11 DEF FinishConfirm
  <2>4. /\ event'[e].status = "confirmed" /\ event'[e].space = event[e].space
        /\ event'[e].from = event[e].from /\ event'[e].to = event[e].to
        /\ event'[e].margin = event[e].margin
    BY <2>2, <2>3
  <2>5. \A f \in Events \ {e} : event'[f] = event[f]
    BY <1>0, <1>11 DEF FinishConfirm
  <2>6. KeptFrom(e)' = StartsAt(e) /\ KeptTo(e)' = EndsAt(e)
    BY <2>4 DEF KeptFrom, KeptTo, StartsAt, EndsAt, IsHold
  <2>7. \A f \in Events : StartsAt(f) \in Int /\ EndsAt(f) \in Int
    BY <1>0 DEF StartsAt, EndsAt
  <2>8. \A f \in Events \ {e} :
          (Blocks(f) /\ event[f].space = event'[e].space) =>
             KeptTo(e)' <= StartsAt(f) \/ EndsAt(f) <= KeptFrom(e)'
    BY <2>1, <2>4, <2>6, <2>7 DEF IsAvailable
  <2>9. QED
    BY <1>0, <2>1, <2>4, <2>5, <2>8, OneNewBlock
<1>12. QED
  BY <1>1, <1>2, <1>3, <1>5, <1>6, <1>7, <1>8, <1>9, <1>10, <1>11 DEF Next

(* Every action leaves a version the name of what a screen shows. *)
LEMMA ScreenStep ==
  EventsInv /\ [Next]_vars => ScreensShowThePast' /\ VersionIdentifies'
<1> SUFFICES ASSUME EventsInv, [Next]_vars
             PROVE  ScreensShowThePast' /\ VersionIdentifies'
  OBVIOUS
<1> USE DEF EventsInv
<1>0. /\ event \in [Events -> EventRows] /\ screen \in [Staff -> Screens]
      /\ confirming \in Events \cup {None}
      /\ \A a \in Staff : screen[a].row \in EventRows /\ screen[a].id \in Events \cup {None}
  BY DEF EventsTypeOK, Screens
<1>1. ASSUME NEW e \in Events, NEW st \in EventStatuses, Exists(e), UNCHANGED screen,
             event' = [event EXCEPT ![e].status = st, ![e].version = @ + 1]
      PROVE  ScreensShowThePast' /\ VersionIdentifies'
  <2> DEFINE row == [event[e] EXCEPT !.status = st, !.version = event[e].version + 1]
  <2>1. event' = [event EXCEPT ![e] = row]
    BY <1>0, <1>1
  <2>2. event[e] \in [status : EventStatuses, space : Spaces, from : Int, to : Int,
                      margin : Margins \cup {NoMargin}, lapsed : BOOLEAN, version : Nat \ {0}]
    BY <1>0, <1>1 DEF Exists, EventRows, NoEvent
  <2>3. row.status = st /\ row.version = event[e].version + 1 /\ st # "absent"
    BY <2>2 DEF EventStatuses, Operational
  <2>4. QED
    BY <1>1, <2>1, <2>3, ScreensFallBehind
<1>2. ASSUME \A f \in Events :
                event'[f] \in {event[f], Expired(event[f])} \/ ~Exists(f),
             UNCHANGED screen
      PROVE  ScreensShowThePast' /\ VersionIdentifies'
  <2>1. \A f \in Events : Exists(f) =>
           /\ Exists(f)' /\ event'[f].version = event[f].version
           /\ \/ event'[f] = event[f]
              \/ /\ event[f].status = "tentative" /\ event[f].lapsed
                 /\ event'[f] = [event[f] EXCEPT !.status = "cancelled"]
    BY <1>0, <1>2, ExpiredRow DEF Exists
  <2>2. ScreensShowThePast'
    BY <1>0, <1>2, <2>1 DEF ScreensShowThePast
  <2>3. VersionIdentifies'
    <3>1. SUFFICES ASSUME NEW a \in Staff, NEW e \in Events, screen[a].id = e,
                          screen[a].row.version = event'[e].version
                   PROVE  IsWhatWasShown(event'[e], screen[a].row)
      BY <1>2 DEF VersionIdentifies
    <3>2. Exists(e)
      BY <3>1, EventsAreNumbers DEF ScreensShowThePast
    <3>3. IsWhatWasShown(event[e], screen[a].row)
      BY <2>1, <3>1, <3>2 DEF VersionIdentifies
    <3>4. CASE event'[e] = event[e]
      BY <3>3, <3>4
    <3>5. CASE /\ event[e].status = "tentative" /\ event[e].lapsed
               /\ event'[e] = [event[e] EXCEPT !.status = "cancelled"]
      <4>1. screen[a].row \in [status : EventStatuses, space : Spaces, from : Int, to : Int,
                      margin : Margins \cup {NoMargin}, lapsed : BOOLEAN, version : Nat \ {0}]
        BY <1>0, <3>1, <3>2, EventsAreNumbers DEF ScreensShowThePast, EventRows, NoEvent
      <4>2. event[e] = [screen[a].row EXCEPT !.lapsed = TRUE] /\ screen[a].row.status = "tentative"
        BY <3>3, <3>5, <4>1 DEF IsWhatWasShown
      <4>3. event'[e] = [screen[a].row EXCEPT !.status = "cancelled", !.lapsed = TRUE]
        BY <3>5, <4>1, <4>2
      <4>4. QED
        BY <4>2, <4>3 DEF IsWhatWasShown
    <3>6. QED
      BY <2>1, <3>2, <3>4, <3>5
  <2>4. QED
    BY <2>2, <2>3
<1>3. CASE ListCustomerEvents
  BY <1>2, <1>3 DEF ListCustomerEvents
<1>4. CASE AbortConfirm \/ UNCHANGED vars \/ \E a \in Staff, e \in Events : BeginConfirm(a, e)
  BY <1>2, <1>4 DEF AbortConfirm, vars, BeginConfirm
<1>5. ASSUME NEW e \in Events, HoldLapses(e)
      PROVE  ScreensShowThePast' /\ VersionIdentifies'
  <2>1. /\ event' = [event EXCEPT ![e] = [event[e] EXCEPT !.lapsed = TRUE]]
        /\ UNCHANGED screen /\ event[e].status = "tentative" /\ Exists(e)
    BY <1>0, <1>5 DEF HoldLapses, IsHold, Exists
  <2>2. event[e] \in [status : EventStatuses, space : Spaces, from : Int, to : Int,
                      margin : Margins \cup {NoMargin}, lapsed : BOOLEAN, version : Nat \ {0}]
    BY <1>0, <2>1 DEF Exists, EventRows, NoEvent
  <2>3. /\ event'[e] = [event[e] EXCEPT !.lapsed = TRUE]
        /\ event'[e].version = event[e].version /\ event'[e].status = "tentative"
        /\ \A f \in Events \ {e} : event'[f] = event[f]
    BY <1>0, <2>1, <2>2
  <2>4. ScreensShowThePast'
    BY <1>0, <2>1, <2>3 DEF ScreensShowThePast, Exists
  <2>5. VersionIdentifies'
    <3>1. SUFFICES ASSUME NEW a \in Staff, screen[a].id = e,
                          screen[a].row.version = event'[e].version
                   PROVE  IsWhatWasShown(event'[e], screen[a].row)
      BY <2>1, <2>3 DEF VersionIdentifies
    <3>2. IsWhatWasShown(event[e], screen[a].row)
      BY <2>3, <3>1 DEF VersionIdentifies
    <3>3. screen[a].row \in [status : EventStatuses, space : Spaces, from : Int, to : Int,
                      margin : Margins \cup {NoMargin}, lapsed : BOOLEAN, version : Nat \ {0}]
      BY <1>0, <3>1, EventsAreNumbers DEF ScreensShowThePast, EventRows, NoEvent
    <3>4. event[e] = [screen[a].row EXCEPT !.lapsed = event[e].lapsed]
      BY <2>1, <3>2, <3>3 DEF IsWhatWasShown
    <3>5. event'[e] = [screen[a].row EXCEPT !.lapsed = TRUE] /\ event'[e].lapsed = TRUE
      BY <2>2, <2>3, <3>3, <3>4
    <3>6. QED
      BY <3>5 DEF IsWhatWasShown
  <2>6. QED
    BY <2>4, <2>5
<1>6. ASSUME NEW a \in Staff, NEW e \in Events, ReadEvent(a, e)
      PROVE  ScreensShowThePast' /\ VersionIdentifies'
  <2>1. /\ event' = event /\ Exists(e) /\ event[e].version \in Nat
        /\ \A b \in Staff : screen'[b] = IF b = a THEN [id |-> e, row |-> event[e]] ELSE screen[b]
    BY <1>0, <1>6, RowFields DEF ReadEvent
  <2>2. ScreensShowThePast'
    BY <2>1 DEF ScreensShowThePast, Exists
  <2>3. IsWhatWasShown(event[e], event[e])
    <3>1. event[e] \in [status : EventStatuses, space : Spaces, from : Int, to : Int,
                      margin : Margins \cup {NoMargin}, lapsed : BOOLEAN, version : Nat \ {0}]
      BY <1>0, <2>1 DEF Exists, EventRows, NoEvent
    <3>2. QED
      BY <3>1 DEF IsWhatWasShown
  <2>4. VersionIdentifies'
    BY <2>1, <2>3 DEF VersionIdentifies
  <2>5. QED
    BY <2>2, <2>4
<1>7. ASSUME NEW e \in Events, CancelCustomerEvent(e) \/ FinishConfirm(e)
      PROVE  ScreensShowThePast' /\ VersionIdentifies'
  <2>1. "cancelled" \in EventStatuses /\ "confirmed" \in EventStatuses
    BY DEF EventStatuses, Operational
  <2>2. CASE CancelCustomerEvent(e)
    BY <1>1, <2>1, <2>2 DEF CancelCustomerEvent, Exists
  <2>3. CASE FinishConfirm(e)
    BY <1>1, <2>1, <2>3, EventsAreNumbers DEF FinishConfirm, CheckStillHolds
  <2>4. QED
    BY <1>7, <2>2, <2>3
<1>8. ASSUME NEW a \in Staff, NEW e \in Events, CancelEvent(a, e) \/ AdvanceEvent(a, e) \/ ArchiveEvent(a, e)
      PROVE  ScreensShowThePast' /\ VersionIdentifies'
  BY <1>1, <1>8 DEF CancelEvent, AdvanceEvent, ArchiveEvent, SetStatus, IsUpToDate,
                    EventStatuses, Operational
<1>9. ASSUME NEW e \in Events, NEW space \in Spaces, NEW from \in Times, NEW to \in Times,
             NEW margin \in Margins \cup {NoMargin},
             \/ CreateEvent(e, space, from, to, margin)
             \/ CreateCustomerPreReservation(e, space, from, to, margin)
      PROVE  ScreensShowThePast' /\ VersionIdentifies'
  <2>1. ~Exists(e) /\ UNCHANGED screen
    BY <1>9 DEF CreateEvent, CreateCustomerPreReservation, IsNextId
  <2>2. \A f \in Events \ {e} : event'[f] \in {event[f], Expired(event[f])}
    BY <1>0, <1>9 DEF CreateEvent, CreateCustomerPreReservation
  <2>3. QED
    BY <1>2, <2>1, <2>2
<1>10. ASSUME NEW a \in Staff, NEW e \in Events, NEW space \in Spaces, NEW from \in Times, NEW to \in Times,
              NEW margin \in Margins \cup {NoMargin}, UpdateEvent(a, e, space, from, to, margin)
       PROVE  ScreensShowThePast' /\ VersionIdentifies'
  <2> DEFINE row == [event[e] EXCEPT !.space = space, !.from = from, !.to = to,
                                     !.margin = margin, !.version = event[e].version + 1]
  <2>1. event' = [event EXCEPT ![e] = row] /\ screen' = screen /\ Exists(e)
    BY <1>0, <1>10 DEF UpdateEvent, IsUpToDate
  <2>2. event[e] \in [status : EventStatuses, space : Spaces, from : Int, to : Int,
                      margin : Margins \cup {NoMargin}, lapsed : BOOLEAN, version : Nat \ {0}]
    BY <1>0, <2>1 DEF Exists, EventRows, NoEvent
  <2>3. row.status # "absent" /\ row.version = event[e].version + 1
    BY <2>1, <2>2 DEF Exists
  <2>4. QED
    BY <2>1, <2>3, ScreensFallBehind
<1>11. QED
  BY <1>3, <1>4, <1>5, <1>6, <1>7, <1>8, <1>9, <1>10 DEF Next

-----------------------------------------------------------------------------
(* The invariant that keeps events apart holds from the start, and is kept. *)
THEOREM EventsInvariant == Spec => []EventsInv
<1>1. Init => EventsInv
  <2> SUFFICES ASSUME Init PROVE EventsInv
    OBVIOUS
  <2>1. \A e \in Events : event[e] = NoEvent
    BY DEF Init
  <2>2. \A e \in Events : ~Blocks(e)
    <3> NoEvent.status = "absent"
      BY DEF NoEvent
    <3>1. \A e \in Events : event[e].status = "absent"
      BY <2>1
    <3>2. QED
      BY <3>1 DEF Blocks, IsOperational, IsHold, Operational
  <2>3. EventsTypeOK
    BY <2>1 DEF Init, EventsTypeOK, Screens, EventRows, NoEvent
  <2>4. OperationalNeverOverlap /\ HoldsAreHonoured
    BY <2>2 DEF OperationalNeverOverlap, HoldsAreHonoured, Blocks
  <2>5. CheckStillHolds /\ ScreensShowThePast /\ VersionIdentifies
    BY EventsAreNumbers DEF Init, CheckStillHolds, ScreensShowThePast, VersionIdentifies
  <2>6. QED
    BY <2>3, <2>4, <2>5 DEF EventsInv
<1>2. EventsInv /\ [Next]_vars => EventsInv'
  BY TypeStep, OverlapStep, ScreenStep DEF EventsInv
<1>3. QED
  BY <1>1, <1>2, PTL DEF Spec

(* Rows have values of their columns, and intervals that are not empty. *)
THEOREM EventsTypeCorrect == Spec => []EventsTypeOK
<1>1. EventsInv => EventsTypeOK
  BY DEF EventsInv
<1>2. QED
  BY <1>1, EventsInvariant, PTL

(* For any halls, margins, events and staff: no two events that the hotel has
   taken on need one hall at one time. *)
THEOREM EventsKeepApart == Spec => []OperationalNeverOverlap
<1>1. EventsInv => OperationalNeverOverlap
  BY DEF EventsInv
<1>2. QED
  BY <1>1, EventsInvariant, PTL

(* The hall is kept for a customer's hold as long as it runs. *)
THEOREM HoldsAreKept == Spec => []HoldsAreHonoured
<1>1. EventsInv => HoldsAreHonoured
  BY DEF EventsInv
<1>2. QED
  BY <1>1, EventsInvariant, PTL

(* A command that passes the version check meets the event that was shown. *)
THEOREM VersionsIdentify == Spec => []VersionIdentifies
<1>1. EventsInv => VersionIdentifies
  BY DEF EventsInv
<1>2. QED
  BY <1>1, EventsInvariant, PTL
=============================================================================
