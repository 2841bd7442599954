\* Whole orders, deliveries, the desk and corrections of the stock: 2 orders of a
\* line, one stay, one supplier with 2 orders and a delivery without one.
CONSTANTS
  None = None
  Stays = {s1}
  Keys = {k1}
  References = {}
  Sources = {o1, o2}
  Sessions = {}
  Amounts <- Amounts1
  Openings <- Openings0
  Lines = {l1}
  Tabs = {}
  Instants = {}
  Sizes = {}
  RuleRows = {}
  Rules = {}
  DefaultRule <- Standard
  Commands = {"adjust", "desk"}
  Recipes = {1}
  Adjustments <- TakeTwo
  InitialStock = 3
  MaxStock = 3
  Vendors = {v1}
  TaxIds = {x1}
  PurchaseOrders = {p1, p2}
  Vouchers = {u1}
  Quantities = {2}
SYMMETRY OrderSymmetry
SPECIFICATION StoreSpec
CHECK_DEADLOCK FALSE
INVARIANTS ReservedIsHeld ServedWasConsumed DeliveredIsCharged ReceivedOnce
PROPERTIES OnlyAdjustmentsOversell ImplementsLedger
