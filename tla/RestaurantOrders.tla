--------------------------- MODULE RestaurantOrders ---------------------------
(***************************************************************************)
(* The restaurant: RestaurantService (restaurant/restaurant.service.ts),   *)
(* its pure rules (order-domain.ts, inventory-domain.ts) and the settling  *)
(* of an amenity's account (amenities/amenities.service.ts), composed with *)
(* the ledger that delivered orders are charged to.  A staff command holds *)
(* the order's row, and the inventory's rows while it writes them, so that *)
(* it is one step; a customer's cancellation reads the order with no lock  *)
(* and writes it later, which takes two.                                   *)
(*                                                                         *)
(* One item of inventory and one dish stand for all: an order needs the    *)
(* recipe's quantity once for each of its lines.                           *)
(***************************************************************************)
EXTENDS Amenities

CONSTANTS
  Lines,        \* the lines of an order
  Commands,     \* the commands in use besides those on whole orders
  Recipes,      \* quantities of the item one dish may take
  Adjustments,  \* quantities added to the stock by hand
  InitialStock, MaxStock

Orders == Sources

ASSUME CommandsAreKnown == Commands \subseteq {"lines", "customer", "tabs", "recipes", "adjust", "desk",
                                               "drawer"}
ASSUME QuantitiesAreBounded ==
  /\ Recipes \subseteq Nat \ {0} /\ Recipes # {} /\ Adjustments \subseteq Int
  /\ MaxStock \in Nat /\ InitialStock \in 0 .. MaxStock
ASSUME OrdersHaveLines == Lines # {} /\ IsFiniteSet(Lines)
ASSUME OrdersAreFinite == IsFiniteSet(Orders)

VARIABLES
  order,      \* [Orders -> OrderRows]
  line,       \* [Orders -> [Lines -> LineStatuses]], order_items.status
  stock, reserved,  \* of the inventory item
  recipe,     \* quantity of the item in the dish
  posted,     \* [Orders -> [Postings -> Nat]], inventory_ledger by order and type
  cancelling  \* orders whose customer has read them in order to cancel

restaurantVars == <<order, line, stock, reserved, recipe, posted, cancelling>>
vars == <<ledgerVars, amenityVars, restaurantVars>>

Flow == <<"Pedido recibido", "Confirmado", "En preparacion", "Listo", "Entregado", "Pagado">>
OrderStatuses == {Flow[i] : i \in 1 .. 6} \cup {"Cancelado", "absent"}
Stages == {"Sin reservar", "Reservado", "Consumido"}
LineStatuses == {"recibido", "en_preparacion", "listo", "entregado"}
Postings == {"Reserva", "Consumo", "Devolucion"}

(* portal: a row of customer_orders ties the order to a customer's account. *)
OrderRows ==
  [status : OrderStatuses, stage : Stages, stay : Stays \cup {None}, tab : Tabs \cup {None},
   portal : BOOLEAN]
NoOrder ==
  [status |-> "absent", stage |-> "Sin reservar", stay |-> None, tab |-> None, portal |-> FALSE]

RestaurantInit ==
  /\ LedgerInit /\ AmenityInit
  /\ order = [o \in Orders |-> NoOrder]
  /\ line = [o \in Orders |-> [l \in Lines |-> "recibido"]]
  /\ stock = InitialStock /\ reserved = 0
  /\ recipe \in Recipes
  /\ posted = [o \in Orders |-> [p \in Postings |-> 0]]
  /\ cancelling = {}

-----------------------------------------------------------------------------
(* Inventory: the requirement of an order is worked out anew, from the recipe
   of the moment, by each command that needs it. *)
Required == recipe * Cardinality(Lines)
AtLeastZero(n) == IF n < 0 THEN 0 ELSE n

Post(o, p) == posted' = [posted EXCEPT ![o][p] = @ + Required]

(* A bug to catch: what others have reserved counts as available. *)
ReserveFromStock(o) ==
  /\ stock >= Required
  /\ reserved' = reserved + Required
  /\ Post(o, "Reserva")
  /\ UNCHANGED stock
ReserveInventory(o) ==
  /\ stock - reserved >= Required
  /\ reserved' = reserved + Required
  /\ Post(o, "Reserva")
  /\ UNCHANGED stock

(* A bug to catch: the reservation is kept when the stock is taken. *)
ConsumeStockOnly(o) ==
  /\ stock' = AtLeastZero(stock - Required)
  /\ Post(o, "Consumo")
  /\ UNCHANGED reserved
(* A bug to catch: stock that was corrected by hand is taken below zero. *)
ConsumeBelowZero(o) ==
  /\ stock' = stock - Required
  /\ reserved' = AtLeastZero(reserved - Required)
  /\ Post(o, "Consumo")
ConsumeInventory(o) ==
  /\ stock' = AtLeastZero(stock - Required)
  /\ reserved' = AtLeastZero(reserved - Required)
  /\ Post(o, "Consumo")

ReleaseInventory(o) ==
  /\ reserved' = AtLeastZero(reserved - Required)
  /\ Post(o, "Devolucion")
  /\ UNCHANGED stock

InventoryAsItIs == UNCHANGED <<stock, reserved, posted>>

AdjustInventory(q) ==
  /\ stock + q <= MaxStock
  /\ stock' = AtLeastZero(stock + q)
  /\ UNCHANGED <<ledgerVars, amenityVars, order, line, reserved, recipe, posted, cancelling>>

UpdateRecipe(q) ==
  /\ recipe' = q
  /\ UNCHANGED <<ledgerVars, amenityVars, order, line, stock, reserved, posted, cancelling>>

-----------------------------------------------------------------------------
Exists(o) == order[o].status # "absent"
IsEditable(o) == order[o].status \in {"Pedido recibido", "Confirmado"}
SetLines(o, st) == line' = [line EXCEPT ![o] = [l \in Lines |-> st]]
Created(s, t, portal) ==
  [NoOrder EXCEPT !.status = "Pedido recibido", !.stay = s, !.tab = t, !.portal = portal]

(* Nothing is asked of the stay until the order is delivered. *)
CreateOrder(o, s) ==
  /\ ~Exists(o)
  /\ order' = [order EXCEPT ![o] = Created(s, None, FALSE)]
  /\ UNCHANGED <<ledgerVars, amenityVars, line, stock, reserved, recipe, posted, cancelling>>

(* Of a stay and a booking given together, only the stay is looked up; a booking
   must be of the customer, who must not have entered yet. *)
MayOrder(s, t) ==
  /\ IF s # None THEN settlement[s] = "open"
     ELSE t # None /\ pass[t].status = "confirmed" /\ pass[t].stay = None
  /\ t # None => pass[t].status # "absent"

(* A bug to catch: an account that was settled stays so. *)
CreateCustomerOrderOnly(new, s, t) ==
  /\ new # {} /\ \A o \in new : ~Exists(o)
  /\ MayOrder(s, t)
  /\ order' = [o \in Orders |-> IF o \in new THEN Created(s, t, TRUE) ELSE order[o]]
  /\ UNCHANGED <<ledgerVars, amenityVars, line, stock, reserved, recipe, posted, cancelling>>

(* One command makes an order for each station, and opens the account anew. *)
CreateCustomerOrder(new, s, t) ==
  /\ new # {} /\ \A o \in new : ~Exists(o)
  /\ MayOrder(s, t)
  /\ order' = [o \in Orders |-> IF o \in new THEN Created(s, t, TRUE) ELSE order[o]]
  /\ pass' = [u \in Tabs |-> IF u = t THEN [pass[u] EXCEPT !.payment = "open_tab"] ELSE pass[u]]
  /\ UNCHANGED <<ledgerVars, rule, updating, line, stock, reserved, recipe, posted, cancelling>>

UpdateOrder(o, s) ==
  /\ IsEditable(o)
  /\ order' = [order EXCEPT ![o].stay = s]
  /\ SetLines(o, "recibido")
  /\ UNCHANGED <<ledgerVars, amenityVars, stock, reserved, recipe, posted, cancelling>>

(* The order moves to st, as do its lines, and its inventory to the stage. *)
MoveTo(o, st, stage) == order' = [order EXCEPT ![o].status = st, ![o].stage = stage]

Confirm(o) ==
  /\ order[o].status = "Pedido recibido"
  /\ MoveTo(o, "Confirmado", order[o].stage)
  /\ InventoryAsItIs
  /\ UNCHANGED <<ledgerVars, line>>

(* A bug to catch: the order is not marked as reserved for. *)
StartPreparingUnmarked(o) ==
  /\ order[o].status = "Confirmado"
  /\ ReserveInventory(o) /\ SetLines(o, "en_preparacion") /\ MoveTo(o, "En preparacion", order[o].stage)
  /\ UNCHANGED ledgerVars
StartPreparing(o) ==
  /\ order[o].status = "Confirmado"
  /\ IF order[o].stage = "Sin reservar"
     THEN ReserveInventory(o) /\ SetLines(o, "en_preparacion") /\ MoveTo(o, "En preparacion", "Reservado")
     ELSE InventoryAsItIs /\ UNCHANGED line /\ MoveTo(o, "En preparacion", order[o].stage)
  /\ UNCHANGED ledgerVars

(* A bug to catch: the stage is not looked at before the stock is taken. *)
FinishPreparingTwice(o) ==
  /\ order[o].status = "En preparacion"
  /\ ConsumeInventory(o) /\ SetLines(o, "listo") /\ MoveTo(o, "Listo", order[o].stage)
  /\ UNCHANGED ledgerVars
FinishPreparing(o) ==
  /\ order[o].status = "En preparacion"
  /\ IF order[o].stage = "Reservado"
     THEN ConsumeInventory(o) /\ SetLines(o, "listo") /\ MoveTo(o, "Listo", "Consumido")
     ELSE InventoryAsItIs /\ UNCHANGED line /\ MoveTo(o, "Listo", order[o].stage)
  /\ UNCHANGED ledgerVars

(* A bug to catch: the charge is written without asking the folio. *)
DeliverUnasked(o) ==
  /\ order[o].status = "Listo"
  /\ IF order[o].stay = None
     THEN UNCHANGED ledgerVars
     ELSE \E a \in Amounts :
            /\ entries' = entries \cup {NewEntry(o, order[o].stay, "charge", a, FALSE)}
            /\ UNCHANGED <<settlement, receivable, session, movements>>
  /\ SetLines(o, "entregado")
  /\ MoveTo(o, "Entregado", order[o].stage)
  /\ InventoryAsItIs
Deliver(o) ==
  /\ order[o].status = "Listo"
  /\ IF order[o].stay = None
     THEN UNCHANGED ledgerVars
     ELSE \E a \in Amounts : PostSourceCharge(o, order[o].stay, a)
  /\ SetLines(o, "entregado")
  /\ MoveTo(o, "Entregado", order[o].stage)
  /\ InventoryAsItIs

(* An order charged to a stay is paid with the folio, never by itself. *)
PayOrder(o) ==
  /\ order[o].status = "Entregado" /\ order[o].stay = None
  /\ MoveTo(o, "Pagado", order[o].stage)
  /\ InventoryAsItIs
  /\ UNCHANGED <<ledgerVars, line>>

AdvanceOrder(o) ==
  /\ Confirm(o) \/ StartPreparing(o) \/ FinishPreparing(o) \/ Deliver(o) \/ PayOrder(o)
  /\ UNCHANGED <<amenityVars, recipe, cancelling>>

(* One line is set to any status, whatever it and its order were.  Both
   conditions read the order as it was when the command began: lines that
   become ready at once are reserved for and the order is Listo and Consumido,
   with nothing consumed. *)
AdvanceOrderItem(o, l, st) ==
  LET lines == [line[o] EXCEPT ![l] = st]
      begins == /\ \E x \in Lines : lines[x] \in {"en_preparacion", "listo"}
                /\ order[o].stage = "Sin reservar"
      ends == /\ \A x \in Lines : lines[x] \in {"listo", "entregado"}
              /\ order[o].status \notin {"Listo", "Entregado", "Pagado"}
      takes == ends /\ order[o].stage = "Reservado"
  IN
  /\ Exists(o)
  /\ line' = [line EXCEPT ![o] = lines]
  /\ begins => ReserveInventory(o)
  /\ takes => ConsumeInventory(o)
  /\ ~begins /\ ~takes => InventoryAsItIs
  /\ CASE ends -> MoveTo(o, "Listo", "Consumido")
       [] begins /\ ~ends -> MoveTo(o, "En preparacion", "Reservado")
       [] OTHER -> UNCHANGED order
  /\ UNCHANGED <<ledgerVars, amenityVars, recipe, cancelling>>

(* A bug to catch: the charge of a delivered order stays when it is cancelled. *)
CancelOrderOnly(o) ==
  /\ order[o].status \notin {"absent", "Pagado", "Cancelado"}
  /\ IF order[o].stage = "Reservado" THEN ReleaseInventory(o) ELSE InventoryAsItIs
  /\ order' = [order EXCEPT ![o].status = "Cancelado"]
  /\ UNCHANGED <<ledgerVars, amenityVars, line, recipe, cancelling>>

CancelOrder(o) ==
  /\ order[o].status \notin {"absent", "Pagado", "Cancelado"}
  /\ IF order[o].stay # None /\ order[o].status = "Entregado"
     THEN CancelSourceCharge(o)
     ELSE UNCHANGED ledgerVars
  /\ IF order[o].stage = "Reservado" THEN ReleaseInventory(o) ELSE InventoryAsItIs
  /\ order' = [order EXCEPT ![o].status = "Cancelado"]
  /\ UNCHANGED <<amenityVars, line, recipe, cancelling>>

(* A customer's cancellation: what was read is not looked at again. *)
ReadToCancel(o) ==
  /\ order[o].portal /\ IsEditable(o)
  /\ cancelling' = cancelling \cup {o}
  /\ UNCHANGED <<ledgerVars, amenityVars, order, line, stock, reserved, recipe, posted>>
CancelCustomerOrder(o) ==
  /\ o \in cancelling
  /\ order' = [order EXCEPT ![o].status = "Cancelado"]
  /\ cancelling' = cancelling \ {o}
  /\ UNCHANGED <<ledgerVars, amenityVars, line, stock, reserved, recipe, posted>>

(* All the orders of the account become paid, the cancelled ones too.  Cash
   needs an open drawer; but with one open and something to pay, the movement
   is written with a reference of 51 characters, which a column of 48 refuses,
   and the command fails.  The drawer is read with a lock on its row. *)
DrawerIsOpen == \E x \in Sessions : IsOpen(x)
Linked(t) == {o \in Orders : order[o].tab = t}
HasActiveOrders(t) == \E o \in Linked(t) : order[o].status # "Cancelado"

SettleReservation(t, cash) ==
  /\ pass[t].status # "absent" /\ pass[t].payment # "paid"
  /\ cash => DrawerIsOpen
  /\ ~(DrawerIsOpen /\ HasActiveOrders(t))
  /\ pass' = [pass EXCEPT ![t].payment = "paid"]
  /\ order' = [o \in Orders |->
       IF o \in Linked(t) THEN [order[o] EXCEPT !.status = "Pagado"] ELSE order[o]]
  /\ UNCHANGED <<ledgerVars, rule, updating, line, stock, reserved, recipe, posted, cancelling>>

-----------------------------------------------------------------------------
OrderStep ==
  \E o \in Orders :
    \/ \E s \in Stays \cup {None} : CreateOrder(o, s) \/ UpdateOrder(o, s)
    \/ AdvanceOrder(o)
    \/ CancelOrder(o)

LineStep ==
  /\ "lines" \in Commands
  /\ \E o \in Orders, l \in Lines, st \in LineStatuses : AdvanceOrderItem(o, l, st)

CustomerStep ==
  /\ "customer" \in Commands
  /\ \/ \E new \in SUBSET Orders, s \in Stays \cup {None}, t \in Tabs \cup {None} :
          CreateCustomerOrder(new, s, t)
     \/ \E o \in Orders : ReadToCancel(o) \/ CancelCustomerOrder(o)

TabStep ==
  /\ "tabs" \in Commands
  /\ \/ \E t \in Tabs, cash \in BOOLEAN : SettleReservation(t, cash)
     \/ ZoneStep /\ UNCHANGED restaurantVars

StoreStep ==
  \/ "adjust" \in Commands /\ \E q \in Adjustments : AdjustInventory(q)
  \/ "recipes" \in Commands /\ \E q \in Recipes : UpdateRecipe(q)

(* The desk posts to the ledger, and drawers open and close, all along. *)
LedgerStep ==
  /\ \/ \E s \in Stays : CheckOut(s)
     \/ "desk" \in Commands /\ DeskStep
     \/ "drawer" \in Commands /\ DrawerStep
  /\ UNCHANGED <<amenityVars, restaurantVars>>

RestaurantNext ==
  OrderStep \/ LineStep \/ CustomerStep \/ TabStep \/ StoreStep \/ LedgerStep

RestaurantSpec == RestaurantInit /\ [][RestaurantNext]_vars

-----------------------------------------------------------------------------
(* Every table holds rows of its type, and no quantity is negative. *)
RestaurantTypeOK ==
  /\ order \in [Orders -> OrderRows]
  /\ line \in [Orders -> [Lines -> LineStatuses]]
  /\ stock \in 0 .. MaxStock /\ reserved \in Nat /\ recipe \in Recipes
  /\ posted \in [Orders -> [Postings -> Nat]]
  /\ pass \in [Tabs -> PassRows]
  /\ rule \in [RuleRows -> ZoneRules \cup {NoRule}] /\ updating \subseteq RuleRows
  /\ cancelling \subseteq Orders

Held(o) == posted[o]["Reserva"] - posted[o]["Consumo"] - posted[o]["Devolucion"]
LiveCharge(o) == KeyIsUsed(o) /\ ~IsReversed(o)
IsServed(o) == order[o].status \in {"Listo", "Entregado", "Pagado"}

(* Reserved stock is that of the orders in preparation and of no other: it is
   all given back or used up when they end, and the inventory's ledger says so. *)
ReservedIsHeld ==
  /\ reserved = MapThenSumSet(Held, Orders)
  /\ \A o \in Orders : Held(o) = IF order[o].status = "En preparacion" THEN Required ELSE 0

(* Whatever is ready, served or paid was taken from the stock. *)
ServedWasConsumed == \A o \in Orders : IsServed(o) => posted[o]["Consumo"] = Required

(* No command on an order promises stock that is not there: only a correction
   by hand can leave less than is reserved. *)
OnlyAdjustmentsOversell ==
  [][stock >= reserved /\ stock' < reserved' => UNCHANGED <<order, line, posted>>]_vars

(* An order takes its stock once, whatever way it is advanced, cancelled and
   revived. *)
TakenOnce ==
  [][\A o \in Orders :
       posted'[o]["Consumo"] # posted[o]["Consumo"] => posted[o]["Consumo"] = 0]_vars

(* A stay owes for the orders delivered to it and for no other; a delivered
   order that it does not owe for had its charge reversed at the desk. *)
DeliveredIsCharged ==
  \A o \in Orders :
    LET delivered == order[o].status = "Entregado" /\ order[o].stay # None IN
    /\ LiveCharge(o) => delivered /\ EntryOf(o).stay = order[o].stay
    /\ delivered /\ ~LiveCharge(o) =>
         \E e \in entries : e.reverses = o /\ e.key \in Keys

(* The restaurant's commands do to the ledger nothing but what the ledger's
   own commands may do. *)
ImplementsLedger == LedgerSpec

(* An account that was settled leaves no order behind that somebody should
   still pay: whoever orders on it opens it again. *)
PaidTabIsPaidUp ==
  \A t \in Tabs : pass[t].payment = "paid" =>
    \A o \in Linked(t) : order[o].status \in {"Pagado", "Cancelado"}

(* Nothing is owed for a cancelled order. *)
CancelledOwesNothing ==
  \A o \in Orders : order[o].status = "Cancelado" => ~LiveCharge(o)
=============================================================================
