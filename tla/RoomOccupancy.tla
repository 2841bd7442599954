----------------------------- MODULE RoomOccupancy -----------------------------
(***************************************************************************)
(* What the front desk promises about rooms, without rows, tasks or        *)
(* incidents (openspec: interval-reservation-availability,                 *)
(* walk-in-stays, persistent-stay-lifecycle): a claim holds a room for an  *)
(* interval that no other live claim of the room meets; its guests arrive  *)
(* once, when nobody else is in house in that room, and leave once, which  *)
(* frees the interval.  Hotel implements this specification.               *)
(***************************************************************************)
EXTENDS Integers

CONSTANTS Rooms, Claims, Days, None

VARIABLE claim  \* [Claims -> [phase, room, from, to]]

Phases == {"none", "booked", "in house", "left"}

Init == claim = [i \in Claims |-> [phase |-> "none", room |-> None, from |-> 0, to |-> 0]]

IsFree(i, r, from, to) ==
  \A j \in Claims \ {i} :
    (claim[j].room = r /\ claim[j].phase \in {"booked", "in house"}) =>
      claim[j].to <= from \/ to <= claim[j].from

IsVacant(r) == \A j \in Claims : claim[j].phase = "in house" => claim[j].room # r

Take(i, phase, r, from, to) ==
  /\ from < to
  /\ IsFree(i, r, from, to)
  /\ claim' = [claim EXCEPT ![i] = [phase |-> phase, room |-> r, from |-> from, to |-> to]]

Book(i) ==
  /\ claim[i].phase = "none"
  /\ \E r \in Rooms, from, to \in Days : Take(i, "booked", r, from, to)

(* Guests who have booked may come earlier or later than booked. *)
Arrive(i) ==
  /\ claim[i].phase = "booked"
  /\ IsVacant(claim[i].room)
  /\ \E from \in Days : Take(i, "in house", claim[i].room, from, claim[i].to)

ArriveUnbooked(i) ==
  /\ claim[i].phase = "none"
  /\ \E r \in Rooms, from, to \in Days :
       IsVacant(r) /\ Take(i, "in house", r, from, to)

Leave(i) ==
  /\ claim[i].phase = "in house"
  /\ claim' = [claim EXCEPT ![i].phase = "left"]

Next == \E i \in Claims : Book(i) \/ Arrive(i) \/ ArriveUnbooked(i) \/ Leave(i)

Spec == Init /\ [][Next]_claim
=============================================================================
