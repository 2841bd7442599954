\* Orders advanced line by line too: 2 orders of 2 lines, changing recipes, no stay.
CONSTANTS
  None = None
  Stays = {}
  Keys = {}
  References = {}
  Sources = {o1, o2}
  Sessions = {}
  Amounts <- Amounts1
  Openings <- Openings0
  Lines = {l1, l2}
  Tabs = {}
  Instants = {}
  Sizes = {}
  RuleRows = {}
  Rules = {}
  DefaultRule <- Standard
  Commands = {"lines", "recipes", "adjust"}
  Recipes = {1, 2}
  Adjustments <- TakeTwo
  InitialStock = 4
  MaxStock = 4
SYMMETRY OrderAndLineSymmetry
SPECIFICATION RestaurantSpec
CHECK_DEADLOCK FALSE
INVARIANT RestaurantTypeOK
PROPERTY TakenOnce
