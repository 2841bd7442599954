------------------------------- MODULE Amenities -------------------------------
(***************************************************************************)
(* A zone that guests and visitors book places in: AmenitiesService        *)
(* (amenities/amenities.service.ts), of which the settling of an account,  *)
(* which closes its restaurant orders, is in RestaurantOrders.  Bookings,  *)
(* passes and arrivals hold the property's lock and are one step; changing *)
(* the zone's rules holds none, and takes two while there is no row yet.   *)
(*                                                                         *)
(* The zone keeps its name: bookings are found by the name they were made  *)
(* under, which would hide them from the rules of a zone with another.     *)
(* There is no clock: a customer's booking that would begin in the past is *)
(* refused, and so is no step.                                             *)
(***************************************************************************)
EXTENDS FolioLedger

CONSTANTS
  Tabs,        \* ids of amenity reservations: bookings and passes
  Instants,    \* when a booking may begin
  Sizes,       \* numbers of people of one booking
  RuleRows,    \* ids of rows of amenity_configs for the zone
  Rules,       \* rules the zone may be given
  DefaultRule  \* DEFAULT_CONFIGS, in force while there is no row

ZoneRules == [active : BOOLEAN, duration : Nat \ {0}, maxPax : Nat \ {0}, capacity : Nat \ {0}]

ASSUME ZoneIsRuled == Rules \subseteq ZoneRules /\ DefaultRule \in ZoneRules
ASSUME BookingsHavePeople == Instants \subseteq Nat /\ Sizes \subseteq Nat \ {0}
ASSUME TabsAndStaysAreNotNone == None \notin Tabs \cup Stays
ASSUME TabsAreFinite == IsFiniteSet(Tabs)
ASSUME PassesAreReferences == Tabs \subseteq References

VARIABLES
  pass,     \* [Tabs -> PassRows], amenity_reservations
  rule,     \* [RuleRows -> ZoneRules \cup {NoRule}], amenity_configs
  updating  \* commands that found no row of rules, and will insert one

amenityVars == <<pass, rule, updating>>

TabStatuses == {"pending", "open_tab", "paid"}
(* stay: None when the booking is a customer's own (amenity_reservations_owner_check). *)
PassRows ==
  [status : {"absent", "confirmed", "checked_in"}, payment : TabStatuses,
   stay : Stays \cup {None}, from : Nat, to : Nat, pax : Nat]
NoPass ==
  [status |-> "absent", payment |-> "pending", stay |-> None, from |-> 0, to |-> 0, pax |-> 0]
NoRule == [active |-> FALSE, duration |-> 0, maxPax |-> 0, capacity |-> 0]

AmenityInit ==
  /\ pass = [t \in Tabs |-> NoPass]
  /\ rule = [c \in RuleRows |-> NoRule]
  /\ updating = {}

-----------------------------------------------------------------------------
RowsOfRules == {c \in RuleRows : rule[c] # NoRule}
(* Of two rows, either may be read last. *)
RulesInForce == IF RowsOfRules = {} THEN {DefaultRule} ELSE {rule[c] : c \in RowsOfRules}

Booked(status) == {t \in Tabs : pass[t].status \in status}
(* A bug to catch: who has entered no longer counts. *)
PlacesTakenByExpected(from, to) ==
  MapThenSumSet(LAMBDA t : pass[t].pax,
    {t \in Booked({"confirmed"}) : pass[t].to > from /\ pass[t].from <= to})
(* All who are booked at any time of the interval, its end included. *)
PlacesTaken(from, to) ==
  MapThenSumSet(LAMBDA t : pass[t].pax,
    {t \in Booked({"confirmed", "checked_in"}) : pass[t].to > from /\ pass[t].from <= to})

(* The duration is always that of the rules. *)
Admit(t, r, from, pax, stay, payment) ==
  LET to == from + r.duration IN
  /\ pass[t].status = "absent"
  /\ PlacesTaken(from, to) + pax <= r.capacity
  /\ pass' = [pass EXCEPT ![t] =
       [status |-> "confirmed", payment |-> payment, stay |-> stay,
        from |-> from, to |-> to, pax |-> pax]]
  /\ UNCHANGED <<rule, updating>>

(* A customer books; without a price there is nothing to pay. *)
CreateReservation(t, from, pax, payment) ==
  /\ \E r \in RulesInForce :
       /\ r.active
       /\ pax <= r.maxPax
       /\ Admit(t, r, from, pax, None, payment)
  /\ payment \in {"pending", "paid"}
  /\ UNCHANGED ledgerVars

(* The staff lets in whom it likes, while there is room.  Only with a stay: the
   owner check refuses the row of a visitor.  Cash for a price goes into the
   drawer if one is open, and nowhere if none is. *)
CreateManualPass(t, s, from, pax, payment, priced, cash) ==
  /\ \E r \in RulesInForce : Admit(t, r, from, pax, s, payment)
  /\ IF payment = "paid" /\ cash /\ priced /\ \E x \in Sessions : IsOpen(x)
     THEN \E a \in Amounts : CreateMovement(t, "Ingreso", a)
     ELSE UNCHANGED ledgerVars

CheckInReservation(t) ==
  /\ pass[t].status = "confirmed"
  /\ pass' = [pass EXCEPT ![t].status = "checked_in"]
  /\ UNCHANGED <<ledgerVars, rule, updating>>

(* Nothing makes the row of a zone unique: whoever has found none inserts one. *)
FindNoRule(c) ==
  /\ RowsOfRules = {}
  /\ updating' = updating \cup {c}
  /\ UNCHANGED <<ledgerVars, pass, rule>>
InsertRule(c, r) ==
  /\ c \in updating
  /\ rule' = [rule EXCEPT ![c] = r]
  /\ updating' = updating \ {c}
  /\ UNCHANGED <<ledgerVars, pass>>
UpdateConfig(c, r) ==
  /\ c \in RowsOfRules
  /\ rule' = [rule EXCEPT ![c] = r]
  /\ UNCHANGED <<ledgerVars, pass, updating>>

ZoneStep ==
  \/ \E t \in Tabs :
       \/ CheckInReservation(t)
       \/ \E from \in Instants, pax \in Sizes, payment \in TabStatuses :
            \/ CreateReservation(t, from, pax, payment)
            \/ \E s \in Stays, priced, cash \in BOOLEAN :
                 CreateManualPass(t, s, from, pax, payment, priced, cash)
  \/ \E c \in RuleRows :
       FindNoRule(c) \/ \E r \in Rules : InsertRule(c, r) \/ UpdateConfig(c, r)

-----------------------------------------------------------------------------
PeopleAt(i) ==
  MapThenSumSet(LAMBDA t : pass[t].pax,
    {t \in Tabs : pass[t].status # "absent" /\ pass[t].from <= i /\ i < pass[t].to})

(* Whoever is booked in fits, all the time of the booking: however the durations
   and capacities of earlier bookings differed, and whether those people have
   entered or not, there are never more than the rules in force allow. *)
BookedFits ==
  [][\A t \in Tabs : pass[t].status = "absent" /\ pass'[t].status # "absent" =>
       \E r \in RulesInForce : \A i \in pass'[t].from .. pass'[t].to - 1 :
         PeopleAt(i)' <= r.capacity]_amenityVars
=============================================================================
