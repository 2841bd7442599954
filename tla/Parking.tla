-------------------------------- MODULE Parking --------------------------------
(***************************************************************************)
(* Vehicles in the car park (parking/parking.service.ts) and the charge    *)
(* that the entry of a guest's vehicle posts on the folio of the stay      *)
(* (folios/folio.service.ts).  Entries and exits hold the property's lock; *)
(* an update reads, looks for another vehicle and writes without it.       *)
(*                                                                         *)
(* A slot stands for the place and the plate of a vehicle, which are       *)
(* checked alike.  Who drives and what is noted down is left out.          *)
(***************************************************************************)
EXTENDS Naturals

CONSTANTS
  Vehicles,  \* ids of registrations
  Slots,     \* places
  Lodgings,  \* stays
  Fees,      \* fees of a registration
  Clerks,    \* updates under way at a time
  NoStay     \* of a vehicle that is not a guest's

ASSUME FeesAreNumbers == Fees \subseteq Nat
ASSUME NoStayIsNone == NoStay \notin Lodgings

VARIABLES
  vehicle,  \* [Vehicles -> VehicleRows], vehicle_registrations
  charge,   \* [Vehicles -> Charges], folio_entries of source parking_entry
  closed,   \* stays that have checked out
  update    \* [Clerks -> Updates], what an update is about to write

parkingVars == <<vehicle, charge, closed, update>>

NoVehicle == [status |-> "absent"]
(* charged: charge_id is set.  updated: updated_at is that of an update. *)
VehicleRows ==
  {NoVehicle} \cup
  [status : {"Dentro", "Fuera", "Archivado"}, slot : Slots, stay : Lodgings \cup {NoStay},
   fee : Fees, charged : BOOLEAN, updated : BOOLEAN]
NoCharge == [stay |-> NoStay, amount |-> 0, reversed |-> FALSE]
Charges == {NoCharge} \cup [stay : Lodgings, amount : Fees, reversed : BOOLEAN]
NoUpdate == [vehicle |-> NoStay]
Updates ==
  {NoUpdate} \cup [vehicle : Vehicles, slot : Slots, stay : Lodgings \cup {NoStay}, fee : Fees]

ParkingInit ==
  /\ vehicle = [v \in Vehicles |-> NoVehicle]
  /\ charge = [v \in Vehicles |-> NoCharge]
  /\ closed = {}
  /\ update = [c \in Clerks |-> NoUpdate]

-----------------------------------------------------------------------------
IsRegistered(v) == vehicle[v] # NoVehicle
IsInside(v) == vehicle[v].status = "Dentro"
(* A bug to catch: whoever comes in looks at nobody's place. *)
AnySlot(v, slot) == FALSE
IsTaken(v, slot) == \E w \in Vehicles \ {v} : IsInside(w) /\ vehicle[w].slot = slot

IsCharged(stay, fee) == stay # NoStay /\ fee > 0

Create(v, slot, stay, fee) ==
  /\ ~IsRegistered(v) /\ stay \notin closed /\ ~IsTaken(v, slot)
  /\ vehicle' = [vehicle EXCEPT ![v] =
       [status |-> "Dentro", slot |-> slot, stay |-> stay, fee |-> fee,
        charged |-> IsCharged(stay, fee), updated |-> FALSE]]
  /\ charge' = [charge EXCEPT ![v] =
       IF IsCharged(stay, fee) THEN [stay |-> stay, amount |-> fee, reversed |-> FALSE] ELSE NoCharge]
  /\ UNCHANGED <<closed, update>>

(* The place is looked at if the vehicle is inside and a place or plate is given. *)
ReadForUpdate(c, v, slot, stay, fee) ==
  /\ update[c] = NoUpdate /\ IsRegistered(v)
  /\ ~(IsInside(v) /\ IsTaken(v, slot))
  /\ update' = [update EXCEPT ![c] = [vehicle |-> v, slot |-> slot, stay |-> stay, fee |-> fee]]
  /\ UNCHANGED <<vehicle, charge, closed>>

(* The charge stays what and where it was. *)
WriteUpdate(c) ==
  /\ update[c] # NoUpdate
  /\ vehicle' = [vehicle EXCEPT
       ![update[c].vehicle] = [@ EXCEPT !.slot = update[c].slot, !.stay = update[c].stay,
                                        !.fee = update[c].fee, !.updated = TRUE]]
  /\ update' = [update EXCEPT ![c] = NoUpdate]
  /\ UNCHANGED <<charge, closed>>

(* A vehicle that left is not let out again: that answers, or refuses when the
   charge is not the registration's. *)
Exit(v) ==
  /\ IsInside(v)
  /\ vehicle' = [vehicle EXCEPT ![v].status = "Fuera"]
  /\ UNCHANGED <<charge, closed, update>>

Archive(v) ==
  /\ IsRegistered(v)
  /\ vehicle' = [vehicle EXCEPT ![v].status = "Archivado"]
  /\ UNCHANGED <<charge, closed, update>>

(* At the front desk. *)
ReverseCharge(v) ==
  /\ charge[v] # NoCharge /\ ~charge[v].reversed /\ charge[v].stay \notin closed
  /\ charge' = [charge EXCEPT ![v].reversed = TRUE]
  /\ UNCHANGED <<vehicle, closed, update>>
CloseStay(s) ==
  /\ s \notin closed
  /\ closed' = closed \cup {s}
  /\ UNCHANGED <<vehicle, charge, update>>

ParkingStep ==
  \/ \E s \in Lodgings : CloseStay(s)
  \/ \E c \in Clerks : WriteUpdate(c)
  \/ \E v \in Vehicles :
       \/ Exit(v) \/ Archive(v) \/ ReverseCharge(v)
       \/ \E slot \in Slots, stay \in Lodgings \cup {NoStay}, fee \in Fees :
            \/ Create(v, slot, stay, fee)
            \/ \E c \in Clerks : ReadForUpdate(c, v, slot, stay, fee)

ParkingSpec == ParkingInit /\ [][ParkingStep]_parkingVars

-----------------------------------------------------------------------------
(* A place holds one vehicle, unless one of two was moved there by an update:
   entries and exits see each other, whatever updates run beside them. *)
PlaceHoldsOne ==
  \A v, w \in Vehicles :
    (v # w /\ IsInside(v) /\ IsInside(w) /\ vehicle[v].slot = vehicle[w].slot) =>
      vehicle[v].updated \/ vehicle[w].updated
=============================================================================
