\* A customer's cancellation races the kitchen.
CONSTANTS
  None = None
  Stays = {s1}
  Keys = {}
  References = {}
  Sources = {o1}
  Sessions = {}
  Amounts <- Amounts1
  Openings <- Openings0
  Lines = {l1}
  Tabs = {}
  Instants = {}
  Sizes = {}
  RuleRows = {}
  Rules = {}
  DefaultRule <- Standard
  Commands = {"customer"}
  Recipes = {1}
  Adjustments <- TakeTwo
  InitialStock = 4
  MaxStock = 4
SPECIFICATION RestaurantSpec
CHECK_DEADLOCK FALSE
INVARIANT CancelledOwesNothing
