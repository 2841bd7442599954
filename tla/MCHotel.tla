-------------------------------- MODULE MCHotel --------------------------------
(* Instances of Hotel for TLC: which desks are used, and symmetric rooms. *)
EXTENDS Hotel, TLC

CONSTANTS r1, r2

OneRoom == {r1}
TwoRooms == {r1, r2}
Upto1 == {1}
Upto2 == 1..2
Upto3 == 1..3
Upto4 == 1..4
Days3 == 0..2
Days4 == 0..3
NoDesk == {}
EveryDesk == AllDesks
TasksOnly == {"tasks"}
IncidentsOnly == {"incidents"}
MaintenanceOnly == {"maintenance"}
RoomSymmetry == Permutations(Rooms)
=============================================================================
