\* One stay, one restaurant order, two drawers in a row, four commands of clients, one of a cashier.
CONSTANTS
  None = None
  Stays = {s1}
  Keys = {k1, k2, k3, k4}
  References = {r1}
  Sources = {o1}
  Sessions = {x1, x2}
  Amounts <- Amounts12
  Openings <- Openings0
SYMMETRY KeyAndDrawerSymmetry
SPECIFICATION LedgerSpec
CHECK_DEADLOCK FALSE
INVARIANTS ReceivableIsBalance CashMatchesLedger ClosedDrawerIsFinal
PROPERTY ImplementsAccount
