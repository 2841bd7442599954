-------------------------- MODULE MCRestaurantOrders --------------------------
(* Small instances of RestaurantOrders for TLC. *)
EXTENDS RestaurantOrders, TLC

Amounts1 == {1}
Openings0 == {0}
TakeTwo == {-2}
Standard == [active |-> TRUE, duration |-> 2, maxPax |-> 2, capacity |-> 3]
Larger == {[active |-> FALSE, duration |-> 1, maxPax |-> 1, capacity |-> 4]}
OrderSymmetry == Permutations(Sources)
TabSymmetry == Permutations(Tabs)
OrderAndLineSymmetry == Permutations(Sources) \cup Permutations(Lines)
=============================================================================
