------------------------------- MODULE Suppliers -------------------------------
(***************************************************************************)
(* Suppliers, and the stock they deliver: SuppliersService                 *)
(* (suppliers/suppliers.service.ts), composed with the restaurant that     *)
(* reserves and consumes the same stock.  Every command holds the          *)
(* property's lock and is one step.                                        *)
(*                                                                         *)
(* A version only refuses commands of those who do not know of the last    *)
(* one, so that a command is one whose version is that of the row.  An     *)
(* order is for some quantity of the one item of inventory.                *)
(***************************************************************************)
EXTENDS RestaurantOrders

CONSTANTS
  Vendors,        \* ids of suppliers
  TaxIds,         \* normalised tax ids
  PurchaseOrders, \* ids of purchase orders
  Vouchers,       \* idempotency keys of deliveries without an order
  Quantities      \* quantities ordered and delivered

ASSUME VendorsAreNotNone == None \notin Vendors
ASSUME QuantitiesArePositive == Quantities \subseteq Nat \ {0}
ASSUME OrdersAreNoPairs == PurchaseOrders \cap (Vendors \X Vouchers) = {}

VARIABLES
  vendor,     \* [Vendors -> VendorRows], suppliers
  suppliedBy, \* the item's supplier, inventory_items.supplier_id
  purchase,   \* [PurchaseOrders -> PurchaseRows], purchase_orders
  delivered   \* [Documents -> Nat], rows of inventory_ledger by what they refer to

storeVars == <<vendor, suppliedBy, purchase, delivered>>
allVars == <<vars, storeVars>>

(* The receipt of a delivery without an order is of its supplier alone. *)
Documents == PurchaseOrders \cup (Vendors \X Vouchers)

VendorRows == [status : {"absent", "active", "archived"}, taxId : TaxIds \cup {None}]
PurchaseRows ==
  [status : {"absent", "draft", "sent", "received"}, supplier : Vendors \cup {None}, quantity : Nat]
NoPurchase == [status |-> "absent", supplier |-> None, quantity |-> 0]

StoreInit ==
  /\ RestaurantInit
  /\ vendor = [v \in Vendors |-> [status |-> "absent", taxId |-> None]]
  /\ suppliedBy = None
  /\ purchase = [p \in PurchaseOrders |-> NoPurchase]
  /\ delivered = [d \in Documents |-> 0]

-----------------------------------------------------------------------------
IsVendor(v) == vendor[v].status # "absent"
(* idx_suppliers_tax_id_active *)
TaxIdIsFree(v, x) == \A w \in Vendors \ {v} : vendor[w].status = "active" => vendor[w].taxId # x

(* A list of items for v: none given, one with the item, or one without it. *)
Lists == {"unchanged", "with", "without"}
Supplies(v, items) ==
  suppliedBy' = CASE items = "with" -> v
                  [] items = "without" /\ suppliedBy = v -> None
                  [] OTHER -> suppliedBy

CreateSupplier(v, x, items) ==
  /\ ~IsVendor(v)
  /\ TaxIdIsFree(v, x)
  /\ vendor' = [vendor EXCEPT ![v] = [status |-> "active", taxId |-> x]]
  /\ Supplies(v, items)
  /\ UNCHANGED <<vars, purchase, delivered>>

UpdateSupplier(v, x, items) ==
  /\ vendor[v].status = "active"
  /\ TaxIdIsFree(v, x)
  /\ vendor' = [vendor EXCEPT ![v].taxId = x]
  /\ Supplies(v, items)
  /\ UNCHANGED <<vars, purchase, delivered>>

ArchiveSupplier(v) ==
  /\ vendor[v].status = "active" /\ suppliedBy # v
  /\ vendor' = [vendor EXCEPT ![v].status = "archived"]
  /\ UNCHANGED <<vars, suppliedBy, purchase, delivered>>

ReactivateSupplier(v) ==
  /\ vendor[v].status = "archived"
  /\ TaxIdIsFree(v, vendor[v].taxId)
  /\ vendor' = [vendor EXCEPT ![v].status = "active"]
  /\ UNCHANGED <<vars, suppliedBy, purchase, delivered>>

(* An archived supplier may be given the item, and may deliver it. *)
AssignSupplierInventory(v, items) ==
  /\ IsVendor(v)
  /\ Supplies(v, items)
  /\ UNCHANGED <<vars, vendor, purchase, delivered>>

-----------------------------------------------------------------------------
CreatePurchaseOrder(p, v, q) ==
  /\ purchase[p].status = "absent" /\ IsVendor(v)
  /\ purchase' = [purchase EXCEPT ![p] = [status |-> "draft", supplier |-> v, quantity |-> q]]
  /\ UNCHANGED <<vars, vendor, suppliedBy, delivered>>

(* A bug to catch: an order is sent again after it was received. *)
SendPurchaseOrderAgain(p) ==
  /\ purchase[p].status # "absent"
  /\ purchase' = [purchase EXCEPT ![p].status = "sent"]
  /\ UNCHANGED <<vars, vendor, suppliedBy, delivered>>
(* An order that is sent already stays so. *)
SendPurchaseOrder(p) ==
  /\ purchase[p].status \in {"draft", "sent"}
  /\ purchase' = [purchase EXCEPT ![p].status = "sent"]
  /\ UNCHANGED <<vars, vendor, suppliedBy, delivered>>

(* The stock grows, and the item is the supplier's from then on. *)
TakeIn(d, v, q) ==
  /\ stock + q <= MaxStock
  /\ stock' = stock + q
  /\ suppliedBy' = v
  /\ delivered' = [delivered EXCEPT ![d] = @ + 1]
  /\ UNCHANGED <<ledgerVars, amenityVars, order, line, reserved, recipe, posted, cancelling>>

(* An order may be received that was never sent. *)
ReceivePurchaseOrder(p) ==
  /\ purchase[p].status \in {"draft", "sent"}
  /\ TakeIn(p, purchase[p].supplier, purchase[p].quantity)
  /\ purchase' = [purchase EXCEPT ![p].status = "received"]
  /\ UNCHANGED vendor

(* The receipt of the key keeps a delivery from being taken in again. *)
RestockFromSupplier(v, k, q) ==
  /\ IsVendor(v)
  /\ delivered[<<v, k>>] = 0
  /\ TakeIn(<<v, k>>, v, q)
  /\ UNCHANGED <<vendor, purchase>>

SupplierStep ==
  \E v \in Vendors :
    \/ ArchiveSupplier(v) \/ ReactivateSupplier(v)
    \/ \E items \in {"with", "without"} : AssignSupplierInventory(v, items)
    \/ \E items \in Lists, x \in TaxIds : CreateSupplier(v, x, items) \/ UpdateSupplier(v, x, items)

DeliveryStep ==
  \/ \E p \in PurchaseOrders :
       \/ SendPurchaseOrder(p) \/ ReceivePurchaseOrder(p)
       \/ \E v \in Vendors, q \in Quantities : CreatePurchaseOrder(p, v, q)
  \/ \E v \in Vendors, k \in Vouchers, q \in Quantities : RestockFromSupplier(v, k, q)

StoreNext ==
  \/ SupplierStep
  \/ DeliveryStep
  \/ RestaurantNext /\ UNCHANGED storeVars

StoreSpec == StoreInit /\ [][StoreNext]_allVars

-----------------------------------------------------------------------------
(* Whatever is ordered reaches the stock once, when it is received and never
   again, however often it is sent, received and sent again with other keys. *)
ReceivedOnce ==
  \A p \in PurchaseOrders :
    delivered[p] = IF purchase[p].status = "received" THEN 1 ELSE 0
=============================================================================
