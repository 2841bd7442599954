----------------------------- MODULE MCSuppliers -----------------------------
(* A small instance of Suppliers, and with it of the restaurant, for TLC. *)
EXTENDS Suppliers, MCRestaurantOrders
=============================================================================
