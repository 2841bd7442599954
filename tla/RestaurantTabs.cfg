\* Customers, bookings, accounts and the drawer: an order of a line, 2 bookings, one stay.
CONSTANTS
  None = None
  Stays = {s1}
  Keys = {}
  References = {t1, t2}
  Sources = {o1}
  Sessions = {x1}
  Amounts <- Amounts1
  Openings <- Openings0
  Lines = {l1}
  Tabs = {t1, t2}
  Instants = {0, 2}
  Sizes = {2}
  RuleRows = {c1}
  Rules <- Larger
  DefaultRule <- Standard
  Commands = {"customer", "tabs", "drawer"}
  Recipes = {1}
  Adjustments <- TakeTwo
  InitialStock = 4
  MaxStock = 4
SYMMETRY TabSymmetry
SPECIFICATION RestaurantSpec
CHECK_DEADLOCK FALSE
INVARIANT PaidTabIsPaidUp
PROPERTY BookedFits
