---------------------------- MODULE RestaurantProofs ----------------------------
(***************************************************************************)
(* For any number of orders, stays, bookings and deliveries: the tables of *)
(* the restaurant, of the zone it serves and of its suppliers keep their   *)
(* types; what they do to the folios is what the ledger allows, so that    *)
(* the theorems of LedgerProofs hold of them too; and stock is taken once, *)
(* is held for the orders in preparation alone, and is received once.      *)
(***************************************************************************)
EXTENDS Suppliers, LedgerProofs

-----------------------------------------------------------------------------
(* Rows of orders. *)
LEMMA OrderFields ==
  ASSUME NEW r \in OrderRows
  PROVE  /\ r.status \in OrderStatuses /\ r.stage \in Stages /\ r.stay \in Stays \cup {None}
         /\ r.tab \in Tabs \cup {None} /\ r.portal \in BOOLEAN
         /\ r = [status |-> r.status, stage |-> r.stage, stay |-> r.stay, tab |-> r.tab,
                 portal |-> r.portal]
  BY DEF OrderRows

LEMMA StatusesInUse ==
  /\ {"Pedido recibido", "Confirmado", "En preparacion", "Listo", "Entregado", "Pagado",
      "Cancelado", "absent"} \subseteq OrderStatuses
  /\ OrderStatuses \subseteq {"Pedido recibido", "Confirmado", "En preparacion", "Listo", "Entregado",
      "Pagado", "Cancelado", "absent"}
<1>1. /\ Flow[1] = "Pedido recibido" /\ Flow[2] = "Confirmado" /\ Flow[3] = "En preparacion"
      /\ Flow[4] = "Listo" /\ Flow[5] = "Entregado" /\ Flow[6] = "Pagado"
  BY DEF Flow
<1>2. \A i \in 1 .. 6 : i \in {1, 2, 3, 4, 5, 6}
  OBVIOUS
<1>3. {1, 2, 3, 4, 5, 6} \subseteq 1 .. 6
  OBVIOUS
<1>4. QED
  BY <1>1, <1>2, <1>3 DEF OrderStatuses

(* The row of an order, field by field. *)
RowIs(r, st, stage, stay, tab, portal) ==
  r.status = st /\ r.stage = stage /\ r.stay = stay /\ r.tab = tab /\ r.portal = portal

LEMMA CreatedRow ==
  ASSUME NEW s \in Stays \cup {None}, NEW t \in Tabs \cup {None}, NEW portal \in BOOLEAN
  PROVE  /\ Created(s, t, portal) \in OrderRows
         /\ RowIs(Created(s, t, portal), "Pedido recibido", "Sin reservar", s, t, portal)
<1> DEFINE no == FALSE
           st == "Pedido recibido"
           stage == "Sin reservar"
           a == [NoOrder EXCEPT !.status = st]
           b == [a EXCEPT !.stay = s]
           c == [b EXCEPT !.tab = t]
           d == [c EXCEPT !.portal = portal]
<1>1. Created(s, t, portal) = d
  BY Zenon DEF Created
<1>2. NoOrder = [status |-> "absent", stage |-> stage, stay |-> None, tab |-> None, portal |-> no]
  BY Zenon DEF NoOrder
<1>3. st \in OrderStatuses /\ stage \in Stages
  BY Zenon, StatusesInUse DEF Stages
<1> HIDE DEF no, st, stage
<1>4. a = [status |-> st, stage |-> stage, stay |-> None, tab |-> None, portal |-> no]
  BY <1>2
<1> HIDE DEF a
<1>5. b = [status |-> st, stage |-> stage, stay |-> s, tab |-> None, portal |-> no]
  BY <1>4
<1> HIDE DEF b
<1>6. c = [status |-> st, stage |-> stage, stay |-> s, tab |-> t, portal |-> no]
  BY <1>5
<1> HIDE DEF c
<1>7. d = [status |-> st, stage |-> stage, stay |-> s, tab |-> t, portal |-> portal]
  BY <1>6
<1> HIDE DEF d
<1>8. Created(s, t, portal) \in OrderRows
  BY <1>1, <1>3, <1>7 DEF OrderRows
<1>9. RowIs(Created(s, t, portal), st, stage, s, t, portal)
  BY <1>1, <1>7 DEF RowIs
<1>10. QED
  BY Zenon, <1>8, <1>9 DEF st, stage

LEMMA CreatedTab ==
  ASSUME NEW s \in Stays \cup {None}, NEW t \in Tabs \cup {None}
  PROVE  Created(s, t, TRUE).tab = t /\ Created(s, t, FALSE).tab = t
<1>1. ASSUME NEW portal \in BOOLEAN
      PROVE  Created(s, t, portal).tab = t
  <2>1. RowIs(Created(s, t, portal), "Pedido recibido", "Sin reservar", s, t, portal)
    BY Zenon, CreatedRow
  <2>2. QED
    BY Zenon, <2>1 DEF RowIs
<1>2. TRUE \in BOOLEAN /\ FALSE \in BOOLEAN
  OBVIOUS
<1>3. QED
  BY Zenon, <1>1, <1>2

(* One order is given a row of its type. *)
RowBecomes(o, r) == order' = [order EXCEPT ![o] = r]

LEMMA BecomesTyped ==
  ASSUME RestaurantTypeOK, NEW o \in Orders, NEW r \in OrderRows, RowBecomes(o, r)
  PROVE  /\ order' \in [Orders -> OrderRows]
         /\ order'[o] = r /\ \A u \in Orders \ {o} : order'[u] = order[u]
  BY DEF RestaurantTypeOK, RowBecomes

LEMMA Moves ==
  ASSUME RestaurantTypeOK, NEW o \in Orders, NEW st \in OrderStatuses, NEW stage \in Stages,
         MoveTo(o, st, stage)
  PROVE  /\ order' \in [Orders -> OrderRows]
         /\ RowIs(order'[o], st, stage, order[o].stay, order[o].tab, order[o].portal)
         /\ \A u \in Orders \ {o} : order'[u] = order[u]
<1> DEFINE a == [order[o] EXCEPT !.status = st]
           b == [a EXCEPT !.stage = stage]
           m == [order EXCEPT ![o] = a]
<1>1. order[o] \in OrderRows /\ order \in [Orders -> OrderRows]
  BY DEF RestaurantTypeOK
<1>2. order[o] = [status |-> order[o].status, stage |-> order[o].stage, stay |-> order[o].stay,
                  tab |-> order[o].tab, portal |-> order[o].portal]
  BY <1>1, OrderFields
<1>3. a = [status |-> st, stage |-> order[o].stage, stay |-> order[o].stay, tab |-> order[o].tab,
           portal |-> order[o].portal]
  BY <1>2
<1>4. order' = [m EXCEPT ![o] = [m[o] EXCEPT !.stage = stage]]
  BY DEF MoveTo
<1> HIDE DEF a
<1>5. b = [status |-> st, stage |-> stage, stay |-> order[o].stay, tab |-> order[o].tab,
           portal |-> order[o].portal]
  BY <1>3
<1>6. b \in OrderRows
  BY <1>1, <1>5, OrderFields DEF OrderRows
<1>7. m[o] = a
  BY <1>1
<1>8. order' = [order EXCEPT ![o] = b]
  BY <1>1, <1>4, <1>7
<1> HIDE DEF b
<1>9. order' \in [Orders -> OrderRows] /\ order'[o] = b /\ \A u \in Orders \ {o} : order'[u] = order[u]
  BY <1>1, <1>6, <1>8
<1>10. QED
  BY <1>5, <1>9 DEF RowIs

LEMMA Closes ==
  ASSUME RestaurantTypeOK, NEW o \in Orders, NEW st \in OrderStatuses,
         order' = [order EXCEPT ![o].status = st]
  PROVE  /\ order' \in [Orders -> OrderRows]
         /\ RowIs(order'[o], st, order[o].stage, order[o].stay, order[o].tab, order[o].portal)
         /\ \A u \in Orders \ {o} : order'[u] = order[u]
<1>1. order[o] \in OrderRows /\ order \in [Orders -> OrderRows]
  BY DEF RestaurantTypeOK
<1>2. order[o] = [status |-> order[o].status, stage |-> order[o].stage, stay |-> order[o].stay,
                  tab |-> order[o].tab, portal |-> order[o].portal]
  BY <1>1, OrderFields
<1>3. [order[o] EXCEPT !.status = st] =
        [status |-> st, stage |-> order[o].stage, stay |-> order[o].stay, tab |-> order[o].tab,
         portal |-> order[o].portal]
  BY <1>2
<1>4. [order[o] EXCEPT !.status = st] \in OrderRows
  BY <1>1, <1>3, OrderFields DEF OrderRows
<1>5. order' = [order EXCEPT ![o] = [order[o] EXCEPT !.status = st]]
  OBVIOUS
<1>6. QED
  BY <1>1, <1>3, <1>4, <1>5 DEF RowIs

LEMMA GoesToStay ==
  ASSUME RestaurantTypeOK, NEW o \in Orders, NEW s \in Stays \cup {None},
         order' = [order EXCEPT ![o].stay = s]
  PROVE  /\ order' \in [Orders -> OrderRows]
         /\ RowIs(order'[o], order[o].status, order[o].stage, s, order[o].tab, order[o].portal)
         /\ \A u \in Orders \ {o} : order'[u] = order[u]
<1>1. order[o] \in OrderRows /\ order \in [Orders -> OrderRows]
  BY DEF RestaurantTypeOK
<1>2. order[o] = [status |-> order[o].status, stage |-> order[o].stage, stay |-> order[o].stay,
                  tab |-> order[o].tab, portal |-> order[o].portal]
  BY <1>1, OrderFields
<1>3. [order[o] EXCEPT !.stay = s] =
        [status |-> order[o].status, stage |-> order[o].stage, stay |-> s, tab |-> order[o].tab,
         portal |-> order[o].portal]
  BY <1>2
<1>4. [order[o] EXCEPT !.stay = s] \in OrderRows
  BY <1>1, <1>3, OrderFields DEF OrderRows
<1>5. order' = [order EXCEPT ![o] = [order[o] EXCEPT !.stay = s]]
  OBVIOUS
<1>6. QED
  BY <1>1, <1>3, <1>4, <1>5 DEF RowIs

-----------------------------------------------------------------------------
(* The stock, and what an order does to it. *)
LEMMA RequiredType == recipe \in Recipes => Required \in Nat \ {0}
<1>1. Cardinality(Lines) \in Nat \ {0}
  BY OrdersHaveLines, FS_CardinalityType, FS_EmptySet
<1>2. \A a, b \in Nat \ {0} : a * b \in Nat \ {0}
  BY SMT
<1>3. QED
  BY <1>1, <1>2, QuantitiesAreBounded DEF Required

StockTyped ==
  stock \in 0 .. MaxStock /\ reserved \in Nat /\ posted \in [Orders -> [Postings -> Nat]]

(* The quantity of one more posting. *)
LEMMA Posts ==
  ASSUME RestaurantTypeOK, NEW o \in Orders, NEW p \in Postings, Post(o, p)
  PROVE  /\ posted' \in [Orders -> [Postings -> Nat]]
         /\ posted'[o] = [posted[o] EXCEPT ![p] = posted[o][p] + Required]
         /\ \A u \in Orders \ {o} : posted'[u] = posted[u]
<1> DEFINE row == [posted[o] EXCEPT ![p] = posted[o][p] + Required]
<1>1. posted \in [Orders -> [Postings -> Nat]] /\ Required \in Nat
  BY RequiredType DEF RestaurantTypeOK
<1>2. row \in [Postings -> Nat]
  BY <1>1
<1>3. posted' = [posted EXCEPT ![o] = row]
  BY DEF Post
<1> HIDE DEF row
<1>4. /\ posted' \in [Orders -> [Postings -> Nat]] /\ posted'[o] = row
      /\ \A u \in Orders \ {o} : posted'[u] = posted[u]
  BY <1>1, <1>2, <1>3
<1>5. QED
  BY <1>4 DEF row

LEMMA StockMoves ==
  ASSUME RestaurantTypeOK, NEW o \in Orders,
         ReserveInventory(o) \/ ConsumeInventory(o) \/ ReleaseInventory(o) \/ InventoryAsItIs
  PROVE  StockTyped'
<1>1. stock \in 0 .. MaxStock /\ reserved \in Nat /\ Required \in Nat /\ MaxStock \in Nat
  BY RequiredType, QuantitiesAreBounded DEF RestaurantTypeOK
<1>2. \A p \in Postings : Post(o, p) => posted' \in [Orders -> [Postings -> Nat]]
  BY Posts
<1>3. {"Reserva", "Consumo", "Devolucion"} = Postings
  BY DEF Postings
<1>4. CASE ReserveInventory(o)
  BY <1>1, <1>2, <1>3, <1>4 DEF ReserveInventory, StockTyped
<1>5. CASE ConsumeInventory(o)
  BY <1>1, <1>2, <1>3, <1>5 DEF ConsumeInventory, StockTyped, AtLeastZero
<1>6. CASE ReleaseInventory(o)
  BY <1>1, <1>2, <1>3, <1>6 DEF ReleaseInventory, StockTyped, AtLeastZero
<1>7. CASE InventoryAsItIs
  BY <1>7 DEF InventoryAsItIs, StockTyped, RestaurantTypeOK
<1>8. QED
  BY <1>4, <1>5, <1>6, <1>7

-----------------------------------------------------------------------------
(* The zone: bookings, passes and the rows of its rules. *)
ZoneTyped ==
  /\ pass \in [Tabs -> PassRows]
  /\ rule \in [RuleRows -> ZoneRules \cup {NoRule}] /\ updating \subseteq RuleRows

LEMMA PassFields ==
  ASSUME NEW r \in PassRows
  PROVE  /\ r.status \in {"absent", "confirmed", "checked_in"} /\ r.payment \in TabStatuses
         /\ r.stay \in Stays \cup {None} /\ r.from \in Nat /\ r.to \in Nat /\ r.pax \in Nat
         /\ r = [status |-> r.status, payment |-> r.payment, stay |-> r.stay, from |-> r.from,
                 to |-> r.to, pax |-> r.pax]
  BY DEF PassRows

LEMMA PassPaid ==
  ASSUME NEW r \in PassRows, NEW payment \in TabStatuses
  PROVE  /\ [r EXCEPT !.payment = payment] \in PassRows
         /\ [r EXCEPT !.payment = payment] =
              [status |-> r.status, payment |-> payment, stay |-> r.stay, from |-> r.from,
               to |-> r.to, pax |-> r.pax]
<1>1. [r EXCEPT !.payment = payment] =
        [status |-> r.status, payment |-> payment, stay |-> r.stay, from |-> r.from,
         to |-> r.to, pax |-> r.pax]
  BY PassFields
<1>2. QED
  BY <1>1, PassFields DEF PassRows

LEMMA PassEnters ==
  ASSUME NEW r \in PassRows
  PROVE  /\ [r EXCEPT !.status = "checked_in"] \in PassRows
         /\ [r EXCEPT !.status = "checked_in"] =
              [status |-> "checked_in", payment |-> r.payment, stay |-> r.stay, from |-> r.from,
               to |-> r.to, pax |-> r.pax]
<1>1. [r EXCEPT !.status = "checked_in"] =
        [status |-> "checked_in", payment |-> r.payment, stay |-> r.stay, from |-> r.from,
         to |-> r.to, pax |-> r.pax]
  BY PassFields
<1>2. QED
  BY <1>1, PassFields DEF PassRows

LEMMA RulesAreRules ==
  ASSUME ZoneTyped, NEW r \in RulesInForce
  PROVE  r \in ZoneRules /\ r.duration \in Nat \ {0} /\ r.maxPax \in Nat \ {0} /\ r.capacity \in Nat \ {0}
<1>1. r \in ZoneRules
  BY ZoneIsRuled DEF RulesInForce, RowsOfRules, ZoneTyped
<1>2. QED
  BY <1>1 DEF ZoneRules

LEMMA Admits ==
  ASSUME ZoneTyped, NEW t \in Tabs, NEW r \in RulesInForce, NEW from \in Instants, NEW pax \in Sizes,
         NEW stay \in Stays \cup {None}, NEW payment \in TabStatuses,
         Admit(t, r, from, pax, stay, payment)
  PROVE  /\ ZoneTyped'
         /\ pass[t].status = "absent"
         /\ pass'[t].status = "confirmed" /\ pass'[t].payment = payment
         /\ pass'[t].from = from /\ pass'[t].to = from + r.duration /\ pass'[t].pax = pax
         /\ \A u \in Tabs \ {t} : pass'[u] = pass[u]
<1> DEFINE to == from + r.duration
           row == [status |-> "confirmed", payment |-> payment, stay |-> stay,
                   from |-> from, to |-> to, pax |-> pax]
<1>1. from \in Nat /\ pax \in Nat /\ to \in Nat
  BY RulesAreRules, BookingsHavePeople
<1>2. row \in PassRows
  <2> HIDE DEF to
  <2>1. QED
    BY <1>1 DEF PassRows
<1>3. pass' = [pass EXCEPT ![t] = row] /\ UNCHANGED <<rule, updating>> /\ pass[t].status = "absent"
  BY Zenon DEF Admit
<1> HIDE DEF row
<1>4. /\ pass' \in [Tabs -> PassRows] /\ pass'[t] = row
      /\ \A u \in Tabs \ {t} : pass'[u] = pass[u]
  BY <1>2, <1>3 DEF ZoneTyped
<1>5. QED
  BY <1>3, <1>4 DEF ZoneTyped, row

(* What a step of the zone does to the ledger is no more than a movement of its drawer. *)
LEMMA ZoneSteps ==
  ASSUME ZoneTyped, ZoneStep
  PROVE  ZoneTyped' /\ [LedgerNext]_ledgerVars
<1>1. ASSUME NEW t \in Tabs, CheckInReservation(t)
      PROVE  ZoneTyped' /\ [LedgerNext]_ledgerVars
  <2>1. pass' = [pass EXCEPT ![t] = [pass[t] EXCEPT !.status = "checked_in"]]
    BY <1>1 DEF CheckInReservation
  <2>2. [pass[t] EXCEPT !.status = "checked_in"] \in PassRows
    BY PassEnters DEF ZoneTyped
  <2>3. pass' \in [Tabs -> PassRows]
    BY <2>1, <2>2 DEF ZoneTyped
  <2>4. QED
    BY <1>1, <2>3 DEF CheckInReservation, ZoneTyped
<1>2. ASSUME NEW t \in Tabs, NEW from \in Instants, NEW pax \in Sizes, NEW payment \in TabStatuses,
             CreateReservation(t, from, pax, payment)
      PROVE  ZoneTyped' /\ [LedgerNext]_ledgerVars
  <2>1. PICK r \in RulesInForce : Admit(t, r, from, pax, None, payment)
    BY <1>2 DEF CreateReservation
  <2>2. ZoneTyped'
    BY <2>1, Admits
  <2>3. QED
    BY <1>2, <2>2 DEF CreateReservation
<1>3. ASSUME NEW t \in Tabs, NEW from \in Instants, NEW pax \in Sizes, NEW payment \in TabStatuses,
             NEW s \in Stays, NEW priced \in BOOLEAN, NEW cash \in BOOLEAN,
             CreateManualPass(t, s, from, pax, payment, priced, cash)
      PROVE  ZoneTyped' /\ [LedgerNext]_ledgerVars
  <2>1. PICK r \in RulesInForce : Admit(t, r, from, pax, s, payment)
    BY <1>3, Zenon DEF CreateManualPass
  <2>2. ZoneTyped'
    BY <2>1, Admits
  <2>3. (\E a \in Amounts : CreateMovement(t, "Ingreso", a)) \/ UNCHANGED ledgerVars
    BY <1>3, Zenon DEF CreateManualPass
  <2>4. t \in References
    BY PassesAreReferences
  <2>5. QED
    BY <2>2, <2>3, <2>4 DEF LedgerNext, CashierStep
<1>4. ASSUME NEW c \in RuleRows, FindNoRule(c)
      PROVE  ZoneTyped' /\ [LedgerNext]_ledgerVars
  BY <1>4 DEF FindNoRule, ZoneTyped
<1>5. ASSUME NEW c \in RuleRows, NEW r \in Rules, InsertRule(c, r) \/ UpdateConfig(c, r)
      PROVE  ZoneTyped' /\ [LedgerNext]_ledgerVars
  <2>1. r \in ZoneRules
    BY ZoneIsRuled
  <2>2. QED
    BY <1>5, <2>1 DEF InsertRule, UpdateConfig, ZoneTyped
<1>6. QED
  BY <1>1, <1>2, <1>3, <1>4, <1>5 DEF ZoneStep

-----------------------------------------------------------------------------
(* Every command keeps the types of the tables and does to the ledger what the
   ledger may do. *)
LEMMA LinesTyped ==
  ASSUME RestaurantTypeOK, NEW o \in Orders, NEW st \in LineStatuses,
         SetLines(o, st) \/ UNCHANGED line
  PROVE  line' \in [Orders -> [Lines -> LineStatuses]]
<1>1. line \in [Orders -> [Lines -> LineStatuses]]
  BY DEF RestaurantTypeOK
<1>2. [l \in Lines |-> st] \in [Lines -> LineStatuses]
  OBVIOUS
<1>3. QED
  BY <1>1, <1>2 DEF SetLines

LEMMA AdvanceTyped ==
  ASSUME RestaurantTypeOK, NEW o \in Orders, AdvanceOrder(o)
  PROVE  /\ RestaurantTypeOK' /\ [LedgerNext]_ledgerVars
         /\ \E st \in OrderStatuses, stage \in Stages : MoveTo(o, st, stage)
         /\ Confirm(o) \/ StartPreparing(o) \/ FinishPreparing(o) \/ Deliver(o) \/ PayOrder(o)
<1> DEFINE Moved == \E st \in OrderStatuses, stage \in Stages : MoveTo(o, st, stage)
           Kept == StockTyped' /\ line' \in [Orders -> [Lines -> LineStatuses]]
                   /\ [LedgerNext]_ledgerVars
<1>1. /\ order[o].stage \in Stages /\ order[o].stay \in Stays \cup {None}
      /\ "Sin reservar" \in Stages /\ "Reservado" \in Stages /\ "Consumido" \in Stages
  <2>1. order[o] \in OrderRows
    BY DEF RestaurantTypeOK
  <2>2. QED
    BY Zenon, <2>1, OrderFields DEF Stages
<1>2. \A st \in {"en_preparacion", "listo", "entregado"} : st \in LineStatuses
  BY DEF LineStatuses
<1>3. ASSUME Confirm(o) PROVE Moved /\ Kept
  <2>1. Moved
    BY Zenon, <1>1, <1>3, StatusesInUse DEF Confirm
  <2>2. Kept
    BY <1>2, <1>3, StockMoves, LinesTyped DEF Confirm
  <2>3. QED
    BY <2>1, <2>2
<1>4. ASSUME StartPreparing(o) PROVE Moved /\ Kept
  <2>1. Moved
    BY Zenon, <1>1, <1>4, StatusesInUse DEF StartPreparing
  <2>2. /\ ReserveInventory(o) \/ InventoryAsItIs
        /\ SetLines(o, "en_preparacion") \/ UNCHANGED line
        /\ UNCHANGED ledgerVars
    BY Zenon, <1>4 DEF StartPreparing
  <2>3. Kept
    BY <1>2, <2>2, StockMoves, LinesTyped
  <2>4. QED
    BY <2>1, <2>3
<1>5. ASSUME FinishPreparing(o) PROVE Moved /\ Kept
  <2>1. Moved
    BY Zenon, <1>1, <1>5, StatusesInUse DEF FinishPreparing
  <2>2. /\ ConsumeInventory(o) \/ InventoryAsItIs
        /\ SetLines(o, "listo") \/ UNCHANGED line
        /\ UNCHANGED ledgerVars
    BY Zenon, <1>5 DEF FinishPreparing
  <2>3. Kept
    BY <1>2, <2>2, StockMoves, LinesTyped
  <2>4. QED
    BY <2>1, <2>3
<1>6. ASSUME Deliver(o) PROVE Moved /\ Kept
  <2>1. Moved
    BY Zenon, <1>1, <1>6, StatusesInUse DEF Deliver
  <2>2. InventoryAsItIs /\ SetLines(o, "entregado")
    BY Zenon, <1>6 DEF Deliver
  <2>3. StockTyped' /\ line' \in [Orders -> [Lines -> LineStatuses]]
    BY <1>2, <2>2, StockMoves, LinesTyped
  <2>4. [LedgerNext]_ledgerVars
    <3>1. CASE order[o].stay = None
      BY Zenon, <1>6, <3>1 DEF Deliver
    <3>2. CASE order[o].stay # None
      <4>1. \E a \in Amounts : PostSourceCharge(o, order[o].stay, a)
        BY Zenon, <1>6, <3>2 DEF Deliver
      <4>2. order[o].stay \in Stays
        BY <1>1, <3>2
      <4>3. QED
        BY <4>1, <4>2 DEF LedgerNext, SourceStep, Orders
    <3>3. QED
      BY <3>1, <3>2
  <2>5. QED
    BY <2>1, <2>3, <2>4
<1>7. ASSUME PayOrder(o) PROVE Moved /\ Kept
  <2>1. Moved
    BY Zenon, <1>1, <1>7, StatusesInUse DEF PayOrder
  <2>2. Kept
    BY <1>2, <1>7, StockMoves, LinesTyped DEF PayOrder
  <2>3. QED
    BY <2>1, <2>2
<1>8. Moved /\ Kept /\ UNCHANGED <<amenityVars, recipe, cancelling>>
  BY <1>3, <1>4, <1>5, <1>6, <1>7 DEF AdvanceOrder
<1>9. order' \in [Orders -> OrderRows]
  BY <1>8, Moves
<1>10. QED
  BY <1>8, <1>9 DEF AdvanceOrder, RestaurantTypeOK, StockTyped, amenityVars

LEMMA OrderStepTyped ==
  ASSUME RestaurantTypeOK, OrderStep
  PROVE  RestaurantTypeOK' /\ [LedgerNext]_ledgerVars
<1>1. ASSUME NEW o \in Orders, NEW s \in Stays \cup {None}, CreateOrder(o, s)
      PROVE  RestaurantTypeOK' /\ [LedgerNext]_ledgerVars
  <2>1. Created(s, None, FALSE) \in OrderRows
    BY CreatedRow
  <2>2. order' \in [Orders -> OrderRows]
    BY <1>1, <2>1, BecomesTyped DEF CreateOrder, RowBecomes
  <2>3. QED
    BY <1>1, <2>2 DEF CreateOrder, RestaurantTypeOK, amenityVars
<1>2. ASSUME NEW o \in Orders, NEW s \in Stays \cup {None}, UpdateOrder(o, s)
      PROVE  RestaurantTypeOK' /\ [LedgerNext]_ledgerVars
  <2>1. order' \in [Orders -> OrderRows]
    BY <1>2, GoesToStay DEF UpdateOrder
  <2>2. line' \in [Orders -> [Lines -> LineStatuses]]
    BY <1>2, LinesTyped DEF UpdateOrder, LineStatuses
  <2>3. QED
    BY <1>2, <2>1, <2>2 DEF UpdateOrder, RestaurantTypeOK, amenityVars
<1>3. ASSUME NEW o \in Orders, CancelOrder(o)
      PROVE  RestaurantTypeOK' /\ [LedgerNext]_ledgerVars
  <2>1. order' \in [Orders -> OrderRows]
    BY <1>3, Closes, StatusesInUse DEF CancelOrder
  <2>2. ReleaseInventory(o) \/ InventoryAsItIs
    BY Zenon, <1>3 DEF CancelOrder
  <2>3. StockTyped'
    BY <2>2, StockMoves
  <2>4. CancelSourceCharge(o) \/ UNCHANGED ledgerVars
    BY Zenon, <1>3 DEF CancelOrder
  <2>5. [LedgerNext]_ledgerVars
    BY <2>4 DEF LedgerNext, SourceStep, Orders
  <2>6. QED
    BY <1>3, <2>1, <2>3, <2>5 DEF CancelOrder, RestaurantTypeOK, amenityVars, StockTyped
<1>4. QED
  BY <1>1, <1>2, <1>3, AdvanceTyped DEF OrderStep

LEMMA LineStepTyped ==
  ASSUME RestaurantTypeOK, NEW o \in Orders, NEW l \in Lines, NEW st \in LineStatuses,
         AdvanceOrderItem(o, l, st)
  PROVE  RestaurantTypeOK' /\ UNCHANGED ledgerVars
<1>1. line' \in [Orders -> [Lines -> LineStatuses]]
  BY DEF AdvanceOrderItem, RestaurantTypeOK
<1>2. ReserveInventory(o) \/ ConsumeInventory(o) \/ InventoryAsItIs
  BY Zenon DEF AdvanceOrderItem
<1>3. StockTyped'
  BY <1>2, StockMoves
<1>4. MoveTo(o, "Listo", "Consumido") \/ MoveTo(o, "En preparacion", "Reservado") \/ UNCHANGED order
  BY Zenon DEF AdvanceOrderItem
<1>5. "Reservado" \in Stages /\ "Consumido" \in Stages
  BY DEF Stages
<1>6. order' \in [Orders -> OrderRows]
  <2>1. CASE UNCHANGED order
    BY <2>1 DEF RestaurantTypeOK
  <2>2. QED
    BY <1>4, <1>5, <2>1, Moves, StatusesInUse
<1>7. QED
  BY <1>1, <1>3, <1>6 DEF AdvanceOrderItem, RestaurantTypeOK, StockTyped, amenityVars

(* The orders a customer makes at once, and what becomes of their account. *)
MadeAtOnce(new, s, t) ==
  /\ \A o \in new : order[o].status = "absent" /\ order'[o] = Created(s, t, TRUE)
  /\ \A o \in Orders \ new : order'[o] = order[o]

LEMMA CustomerOrders ==
  ASSUME RestaurantTypeOK, NEW new \in SUBSET Orders, NEW s \in Stays \cup {None},
         NEW t \in Tabs \cup {None}, CreateCustomerOrder(new, s, t)
  PROVE  /\ RestaurantTypeOK' /\ UNCHANGED ledgerVars
         /\ MadeAtOnce(new, s, t)
         /\ \A u \in Tabs \ {t} : pass'[u] = pass[u]
         /\ \A u \in Tabs : u = t => pass'[u] = [pass[u] EXCEPT !.payment = "open_tab"]
         /\ t # None => pass[t].status # "absent"
<1>1. \A o \in Orders : order[o] \in OrderRows
  BY DEF RestaurantTypeOK
<1>2. Created(s, t, TRUE) \in OrderRows
  BY CreatedRow
<1>3. order' = [o \in Orders |-> IF o \in new THEN Created(s, t, TRUE) ELSE order[o]]
  BY DEF CreateCustomerOrder
<1>4. /\ order' \in [Orders -> OrderRows]
      /\ \A o \in Orders : order'[o] = IF o \in new THEN Created(s, t, TRUE) ELSE order[o]
  BY Zenon, <1>1, <1>2, <1>3
<1>5. pass' = [u \in Tabs |-> IF u = t THEN [pass[u] EXCEPT !.payment = "open_tab"] ELSE pass[u]]
  BY DEF CreateCustomerOrder
<1>6. \A u \in Tabs : pass[u] \in PassRows /\ [pass[u] EXCEPT !.payment = "open_tab"] \in PassRows
  BY PassPaid DEF RestaurantTypeOK, TabStatuses
<1>7. /\ pass' \in [Tabs -> PassRows]
      /\ \A u \in Tabs : pass'[u] = IF u = t THEN [pass[u] EXCEPT !.payment = "open_tab"] ELSE pass[u]
  BY Zenon, <1>5, <1>6
<1>8. RestaurantTypeOK'
  BY <1>4, <1>7 DEF CreateCustomerOrder, RestaurantTypeOK
<1>9. /\ \A o \in new : order[o].status = "absent"
      /\ t # None => pass[t].status # "absent"
  BY Zenon DEF CreateCustomerOrder, Exists, MayOrder
<1>10. QED
  BY Zenon, <1>4, <1>7, <1>8, <1>9 DEF CreateCustomerOrder, MadeAtOnce

LEMMA CancelsLate ==
  ASSUME RestaurantTypeOK, NEW o \in Orders, ReadToCancel(o) \/ CancelCustomerOrder(o)
  PROVE  RestaurantTypeOK' /\ UNCHANGED ledgerVars
<1>1. CASE ReadToCancel(o)
  BY <1>1 DEF ReadToCancel, RestaurantTypeOK, amenityVars
<1>2. CASE CancelCustomerOrder(o)
  <2>1. order' \in [Orders -> OrderRows]
    BY <1>2, Closes, StatusesInUse DEF CancelCustomerOrder
  <2>2. QED
    BY <1>2, <2>1 DEF CancelCustomerOrder, RestaurantTypeOK, amenityVars
<1>3. QED
  BY <1>1, <1>2

LEMMA Settles ==
  ASSUME RestaurantTypeOK, NEW t \in Tabs, NEW cash \in BOOLEAN, SettleReservation(t, cash)
  PROVE  /\ RestaurantTypeOK' /\ UNCHANGED ledgerVars
         /\ \A o \in Orders : order[o].tab # t => order'[o] = order[o]
         /\ \A o \in Orders : order[o].tab = t =>
              RowIs(order'[o], "Pagado", order[o].stage, order[o].stay, order[o].tab, order[o].portal)
         /\ pass'[t] = [pass[t] EXCEPT !.payment = "paid"]
         /\ \A u \in Tabs \ {t} : pass'[u] = pass[u]
<1> DEFINE st == "Pagado"
<1>1. st \in OrderStatuses
  BY StatusesInUse
<1> HIDE DEF st
<1>2. \A o \in Orders : order[o] \in OrderRows
  BY DEF RestaurantTypeOK
<1>3. \A r \in OrderRows :
        /\ [r EXCEPT !.status = st] \in OrderRows
        /\ [r EXCEPT !.status = st] = [status |-> st, stage |-> r.stage, stay |-> r.stay,
                                       tab |-> r.tab, portal |-> r.portal]
  <2> SUFFICES ASSUME NEW r \in OrderRows
               PROVE  /\ [r EXCEPT !.status = st] \in OrderRows
                      /\ [r EXCEPT !.status = st] = [status |-> st, stage |-> r.stage, stay |-> r.stay,
                                                     tab |-> r.tab, portal |-> r.portal]
    OBVIOUS
  <2>1. [r EXCEPT !.status = st] = [status |-> st, stage |-> r.stage, stay |-> r.stay,
                                    tab |-> r.tab, portal |-> r.portal]
    BY OrderFields
  <2>2. QED
    BY <1>1, <2>1, OrderFields DEF OrderRows
<1>4. order' = [o \in Orders |-> IF o \in Linked(t) THEN [order[o] EXCEPT !.status = st] ELSE order[o]]
  BY Zenon DEF SettleReservation, st
<1>5. /\ order' \in [Orders -> OrderRows]
      /\ \A o \in Orders :
           order'[o] = IF o \in Linked(t) THEN [order[o] EXCEPT !.status = st] ELSE order[o]
  BY Zenon, <1>2, <1>3, <1>4
<1>6. \A o \in Orders : o \in Linked(t) <=> order[o].tab = t
  BY DEF Linked
<1>7. pass' = [pass EXCEPT ![t] = [pass[t] EXCEPT !.payment = "paid"]]
  BY DEF SettleReservation
<1>8. [pass[t] EXCEPT !.payment = "paid"] \in PassRows /\ pass \in [Tabs -> PassRows]
  BY PassPaid DEF RestaurantTypeOK, TabStatuses
<1>9. /\ pass' \in [Tabs -> PassRows] /\ pass'[t] = [pass[t] EXCEPT !.payment = "paid"]
      /\ \A u \in Tabs \ {t} : pass'[u] = pass[u]
  BY <1>7, <1>8
<1>10. RestaurantTypeOK'
  BY <1>5, <1>9 DEF SettleReservation, RestaurantTypeOK
<1>11. /\ \A o \in Orders : order[o].tab # t => order'[o] = order[o]
       /\ \A o \in Orders : order[o].tab = t =>
            RowIs(order'[o], st, order[o].stage, order[o].stay, order[o].tab, order[o].portal)
  <2>1. \A o \in Orders : order[o].tab # t => order'[o] = order[o]
    BY Zenon, <1>5, <1>6
  <2>2. ASSUME NEW o \in Orders, order[o].tab = t
        PROVE  RowIs(order'[o], st, order[o].stage, order[o].stay, order[o].tab, order[o].portal)
    <3>1. order'[o] = [order[o] EXCEPT !.status = st]
      BY Zenon, <1>5, <1>6, <2>2
    <3>2. order'[o] = [status |-> st, stage |-> order[o].stage, stay |-> order[o].stay,
                       tab |-> order[o].tab, portal |-> order[o].portal]
      BY Zenon, <1>2, <1>3, <3>1
    <3>3. QED
      BY <3>2 DEF RowIs
  <2>3. QED
    BY Zenon, <2>1, <2>2
<1>12. QED
  BY Zenon, <1>9, <1>10, <1>11 DEF SettleReservation, st

LEMMA StepTyped ==
  ASSUME RestaurantTypeOK, [RestaurantNext]_vars
  PROVE  RestaurantTypeOK' /\ [LedgerNext]_ledgerVars
<1>1. CASE UNCHANGED vars
  BY <1>1 DEF vars, restaurantVars, amenityVars, RestaurantTypeOK
<1>2. CASE OrderStep
  BY <1>2, OrderStepTyped
<1>3. CASE LineStep
  BY <1>3, LineStepTyped DEF LineStep
<1>4. CASE CustomerStep
  <2>1. PICK o \in Orders, new \in SUBSET Orders, s \in Stays \cup {None}, t \in Tabs \cup {None} :
          CreateCustomerOrder(new, s, t) \/ ReadToCancel(o) \/ CancelCustomerOrder(o)
    <3>1. CASE \E new \in SUBSET Orders, s \in Stays \cup {None}, t \in Tabs \cup {None} :
                 CreateCustomerOrder(new, s, t)
      <4>1. PICK new \in SUBSET Orders, s \in Stays \cup {None}, t \in Tabs \cup {None} :
              CreateCustomerOrder(new, s, t)
        BY <3>1
      <4>2. \E o \in Orders : o \in new
        BY <4>1 DEF CreateCustomerOrder
      <4>3. QED
        BY <4>1, <4>2
    <3>2. CASE \E o \in Orders : ReadToCancel(o) \/ CancelCustomerOrder(o)
      BY Zenon, <3>2
    <3>3. QED
      BY Zenon, <1>4, <3>1, <3>2 DEF CustomerStep
  <2>2. QED
    BY <2>1, CustomerOrders, CancelsLate
<1>5. CASE TabStep
  <2>1. CASE \E t \in Tabs, cash \in BOOLEAN : SettleReservation(t, cash)
    BY <2>1, Settles
  <2>2. CASE ZoneStep /\ UNCHANGED restaurantVars
    <3>1. ZoneTyped
      BY DEF RestaurantTypeOK, ZoneTyped
    <3>2. ZoneTyped' /\ [LedgerNext]_ledgerVars
      BY <2>2, <3>1, ZoneSteps
    <3>3. QED
      BY <2>2, <3>2 DEF RestaurantTypeOK, ZoneTyped, restaurantVars
  <2>3. QED
    BY <1>5, <2>1, <2>2 DEF TabStep
<1>6. CASE StoreStep
  <2>1. ASSUME NEW q \in Adjustments, AdjustInventory(q)
        PROVE  RestaurantTypeOK' /\ UNCHANGED ledgerVars
    <3>1. q \in Int /\ MaxStock \in Nat /\ stock \in 0 .. MaxStock
      BY QuantitiesAreBounded DEF RestaurantTypeOK
    <3>2. stock' \in 0 .. MaxStock
      BY <2>1, <3>1 DEF AdjustInventory, AtLeastZero
    <3>3. QED
      BY <2>1, <3>2 DEF AdjustInventory, RestaurantTypeOK, amenityVars
  <2>2. ASSUME NEW q \in Recipes, UpdateRecipe(q)
        PROVE  RestaurantTypeOK' /\ UNCHANGED ledgerVars
    BY <2>2 DEF UpdateRecipe, RestaurantTypeOK, amenityVars
  <2>3. QED
    BY <1>6, <2>1, <2>2 DEF StoreStep
<1>7. CASE LedgerStep
  BY <1>7 DEF LedgerStep, LedgerNext, CashierStep, restaurantVars, amenityVars, RestaurantTypeOK
<1>8. QED
  BY <1>1, <1>2, <1>3, <1>4, <1>5, <1>6, <1>7 DEF RestaurantNext

LEMMA RestaurantInitTyped == RestaurantInit => RestaurantTypeOK /\ LedgerInit
<1> SUFFICES ASSUME RestaurantInit PROVE RestaurantTypeOK
  BY DEF RestaurantInit
<1>1. NoOrder \in OrderRows
  BY StatusesInUse DEF NoOrder, OrderRows, Stages
<1>2. NoPass \in PassRows
  BY DEF NoPass, PassRows, TabStatuses
<1>3. order \in [Orders -> OrderRows] /\ pass \in [Tabs -> PassRows]
  BY <1>1, <1>2 DEF RestaurantInit, AmenityInit
<1>4. /\ line \in [Orders -> [Lines -> LineStatuses]]
      /\ posted \in [Orders -> [Postings -> Nat]]
      /\ rule \in [RuleRows -> ZoneRules \cup {NoRule}] /\ updating \subseteq RuleRows
      /\ cancelling \subseteq Orders
  BY DEF RestaurantInit, AmenityInit, LineStatuses
<1>5. stock \in 0 .. MaxStock /\ reserved \in Nat /\ recipe \in Recipes
  BY QuantitiesAreBounded DEF RestaurantInit
<1>6. QED
  BY <1>3, <1>4, <1>5 DEF RestaurantTypeOK

-----------------------------------------------------------------------------
(* The store: what it does to the restaurant is to raise the stock. *)
Restocks(q) ==
  /\ stock + q <= MaxStock /\ stock' = stock + q
  /\ UNCHANGED <<ledgerVars, amenityVars, order, line, reserved, recipe, posted, cancelling>>

StoreTypeOK ==
  /\ purchase \in [PurchaseOrders -> PurchaseRows]
  /\ delivered \in [Documents -> Nat]

StoreInv == RestaurantTypeOK /\ StoreTypeOK /\ ReceivedOnce

LEMMA RestockTyped ==
  ASSUME RestaurantTypeOK, NEW q \in Nat, Restocks(q)
  PROVE  RestaurantTypeOK' /\ UNCHANGED ledgerVars
<1>1. stock \in 0 .. MaxStock /\ MaxStock \in Nat
  BY QuantitiesAreBounded DEF RestaurantTypeOK
<1>2. stock' \in 0 .. MaxStock
  BY <1>1 DEF Restocks
<1>3. QED
  BY <1>2 DEF Restocks, RestaurantTypeOK, amenityVars

LEMMA PurchaseFields ==
  ASSUME NEW r \in PurchaseRows
  PROVE  /\ r.quantity \in Nat
         /\ r = [status |-> r.status, supplier |-> r.supplier, quantity |-> r.quantity]
         /\ \A st \in {"absent", "draft", "sent", "received"} :
              [r EXCEPT !.status = st] \in PurchaseRows /\ [r EXCEPT !.status = st].status = st
<1>1. /\ r.quantity \in Nat /\ r.supplier \in Vendors \cup {None}
      /\ r = [status |-> r.status, supplier |-> r.supplier, quantity |-> r.quantity]
  BY DEF PurchaseRows
<1>2. ASSUME NEW st \in {"absent", "draft", "sent", "received"}
      PROVE  [r EXCEPT !.status = st] \in PurchaseRows /\ [r EXCEPT !.status = st].status = st
  <2>1. [r EXCEPT !.status = st] = [status |-> st, supplier |-> r.supplier, quantity |-> r.quantity]
    BY <1>1
  <2>2. QED
    BY <1>1, <2>1 DEF PurchaseRows
<1>3. QED
  BY <1>1, <1>2

(* A delivery is counted at its document. *)
LEMMA TakesIn ==
  ASSUME StoreInv, NEW d \in Documents, NEW v, NEW q \in Nat, TakeIn(d, v, q)
  PROVE  /\ Restocks(q)
         /\ delivered' \in [Documents -> Nat] /\ delivered'[d] = delivered[d] + 1
         /\ \A u \in Documents \ {d} : delivered'[u] = delivered[u]
<1>1. Restocks(q)
  BY DEF TakeIn, Restocks
<1>2. delivered \in [Documents -> Nat] /\ delivered' = [delivered EXCEPT ![d] = delivered[d] + 1]
  BY DEF StoreInv, StoreTypeOK, TakeIn
<1>3. QED
  BY <1>1, <1>2

(* A purchase order moves on without a delivery. *)
LEMMA PurchaseMoves ==
  ASSUME StoreInv, NEW p \in PurchaseOrders, NEW r \in PurchaseRows, r.status # "received",
         purchase[p].status # "received", purchase' = [purchase EXCEPT ![p] = r], UNCHANGED delivered
  PROVE  StoreTypeOK' /\ ReceivedOnce'
  BY DEF StoreInv, StoreTypeOK, ReceivedOnce

LEMMA StoreSteps ==
  ASSUME StoreInv, [StoreNext]_allVars
  PROVE  StoreTypeOK' /\ ReceivedOnce' /\ ([RestaurantNext]_vars \/ \E q \in Nat : Restocks(q))
<1> DEFINE Goal == StoreTypeOK' /\ ReceivedOnce' /\ ([RestaurantNext]_vars \/ \E q \in Nat : Restocks(q))
<1>1. ASSUME UNCHANGED <<purchase, delivered>>, [RestaurantNext]_vars
      PROVE  Goal
  BY <1>1 DEF StoreInv, StoreTypeOK, ReceivedOnce
<1>2. ASSUME SupplierStep
      PROVE  Goal
  <2>1. UNCHANGED <<vars, purchase, delivered>>
    BY <1>2 DEF SupplierStep, CreateSupplier, UpdateSupplier, ArchiveSupplier, ReactivateSupplier,
       AssignSupplierInventory
  <2>2. QED
    BY <1>1, <2>1
<1>3. ASSUME NEW p \in PurchaseOrders, SendPurchaseOrder(p)
      PROVE  Goal
  <2>1. purchase[p] \in PurchaseRows
    BY DEF StoreInv, StoreTypeOK
  <2>2. /\ [purchase[p] EXCEPT !.status = "sent"] \in PurchaseRows
        /\ [purchase[p] EXCEPT !.status = "sent"].status = "sent"
    BY <2>1, PurchaseFields
  <2>3. /\ purchase' = [purchase EXCEPT ![p] = [purchase[p] EXCEPT !.status = "sent"]]
        /\ UNCHANGED <<vars, delivered>> /\ purchase[p].status # "received"
    BY <1>3 DEF SendPurchaseOrder
  <2>4. QED
    BY <2>2, <2>3, PurchaseMoves
<1>4. ASSUME NEW p \in PurchaseOrders, NEW v \in Vendors, NEW q \in Quantities, CreatePurchaseOrder(p, v, q)
      PROVE  Goal
  <2>1. [status |-> "draft", supplier |-> v, quantity |-> q] \in PurchaseRows
    BY QuantitiesArePositive DEF PurchaseRows
  <2>2. /\ purchase' = [purchase EXCEPT ![p] = [status |-> "draft", supplier |-> v, quantity |-> q]]
        /\ UNCHANGED <<vars, delivered>> /\ purchase[p].status # "received"
    BY <1>4 DEF CreatePurchaseOrder
  <2>3. QED
    BY <2>1, <2>2, PurchaseMoves
<1>5. ASSUME NEW p \in PurchaseOrders, ReceivePurchaseOrder(p)
      PROVE  Goal
  <2>1. purchase[p] \in PurchaseRows /\ purchase \in [PurchaseOrders -> PurchaseRows]
    BY DEF StoreInv, StoreTypeOK
  <2>2. /\ [purchase[p] EXCEPT !.status = "received"] \in PurchaseRows
        /\ [purchase[p] EXCEPT !.status = "received"].status = "received"
        /\ purchase[p].quantity \in Nat /\ p \in Documents
    BY <2>1, PurchaseFields DEF Documents
  <2>3. /\ purchase' = [purchase EXCEPT ![p] = [purchase[p] EXCEPT !.status = "received"]]
        /\ TakeIn(p, purchase[p].supplier, purchase[p].quantity) /\ purchase[p].status # "received"
    BY <1>5 DEF ReceivePurchaseOrder
  <2>4. /\ Restocks(purchase[p].quantity)
        /\ delivered' \in [Documents -> Nat] /\ delivered'[p] = delivered[p] + 1
        /\ \A u \in Documents \ {p} : delivered'[u] = delivered[u]
    BY <2>2, <2>3, TakesIn
  <2>5. delivered[p] = 0
    BY <2>3 DEF StoreInv, ReceivedOnce
  <2>6. \A u \in PurchaseOrders \ {p} : delivered'[u] = delivered[u] /\ purchase'[u] = purchase[u]
    BY <2>1, <2>3, <2>4 DEF Documents
  <2>7. ReceivedOnce'
    BY <2>1, <2>2, <2>3, <2>4, <2>5, <2>6 DEF StoreInv, ReceivedOnce
  <2>8. QED
    BY <2>1, <2>2, <2>3, <2>4, <2>7 DEF StoreTypeOK
<1>6. ASSUME NEW v \in Vendors, NEW k \in Vouchers, NEW q \in Quantities, RestockFromSupplier(v, k, q)
      PROVE  Goal
  <2>1. <<v, k>> \in Documents /\ <<v, k>> \notin PurchaseOrders /\ q \in Nat
    BY OrdersAreNoPairs, QuantitiesArePositive DEF Documents
  <2>2. TakeIn(<<v, k>>, v, q) /\ UNCHANGED purchase
    BY <1>6 DEF RestockFromSupplier
  <2>3. /\ Restocks(q) /\ delivered' \in [Documents -> Nat]
        /\ \A u \in Documents \ {<<v, k>>} : delivered'[u] = delivered[u]
    BY <2>1, <2>2, TakesIn
  <2>4. \A p \in PurchaseOrders : delivered'[p] = delivered[p]
    BY <2>1, <2>3 DEF Documents
  <2>5. QED
    BY <2>1, <2>2, <2>3, <2>4 DEF StoreInv, StoreTypeOK, ReceivedOnce
<1>7. ASSUME RestaurantNext, UNCHANGED storeVars
      PROVE  Goal
  BY <1>1, <1>7 DEF storeVars
<1>8. ASSUME UNCHANGED allVars
      PROVE  Goal
  BY <1>1, <1>8 DEF allVars, storeVars
<1>9. QED
  BY <1>2, <1>3, <1>4, <1>5, <1>6, <1>7, <1>8 DEF StoreNext, DeliveryStep

LEMMA StoreStepTyped ==
  ASSUME StoreInv, [StoreNext]_allVars
  PROVE  StoreInv' /\ [LedgerNext]_ledgerVars
  BY StoreSteps, StepTyped, RestockTyped DEF StoreInv

LEMMA StoreInitTyped == StoreInit => StoreInv /\ LedgerInit
<1> SUFFICES ASSUME StoreInit PROVE StoreTypeOK /\ ReceivedOnce
  BY RestaurantInitTyped DEF StoreInit, StoreInv
<1>1. NoPurchase \in PurchaseRows /\ NoPurchase.status = "absent"
  BY DEF NoPurchase, PurchaseRows
<1>2. QED
  BY <1>1 DEF StoreInit, StoreTypeOK, ReceivedOnce, Documents

(* Every table of the restaurant holds rows of its type and no negative quantity,
   also when deliveries and adjustments reach the stock all along. *)
THEOREM RestaurantTypeCorrect ==
  /\ RestaurantSpec => []RestaurantTypeOK
  /\ StoreSpec => []RestaurantTypeOK
<1>1. RestaurantInit => RestaurantTypeOK
  BY RestaurantInitTyped
<1>2. RestaurantTypeOK /\ [RestaurantNext]_vars => RestaurantTypeOK'
  BY StepTyped
<1>3. StoreInv => RestaurantTypeOK
  BY DEF StoreInv
<1>4. RestaurantSpec => []RestaurantTypeOK
  BY <1>1, <1>2, PTL DEF RestaurantSpec
<1>5. StoreSpec => []RestaurantTypeOK
  BY <1>3, StoreInitTyped, StoreStepTyped, PTL DEF StoreSpec
<1>6. QED
  BY <1>4, <1>5

(* A purchase order reaches the stock once, when it is received, and a delivery
   without an order adds to none. *)
THEOREM OrdersAreReceivedOnce == StoreSpec => []ReceivedOnce
<1>1. StoreInv => ReceivedOnce
  BY DEF StoreInv
<1>2. QED
  BY <1>1, StoreInitTyped, StoreStepTyped, PTL DEF StoreSpec

(* Whatever the restaurant, the zone and the store do to the folios and the
   drawer is a step of the ledger. *)
THEOREM RestaurantImplementsLedger ==
  /\ RestaurantSpec => ImplementsLedger
  /\ StoreSpec => ImplementsLedger
<1>1. RestaurantInit => RestaurantTypeOK /\ LedgerInit
  BY RestaurantInitTyped
<1>2. RestaurantTypeOK /\ [RestaurantNext]_vars => RestaurantTypeOK' /\ [LedgerNext]_ledgerVars
  BY StepTyped
<1>3. RestaurantSpec => ImplementsLedger
  BY <1>1, <1>2, PTL DEF RestaurantSpec, ImplementsLedger, LedgerSpec
<1>4. StoreSpec => ImplementsLedger
  BY StoreInitTyped, StoreStepTyped, PTL DEF StoreSpec, ImplementsLedger, LedgerSpec
<1>5. QED
  BY <1>3, <1>4

(* So folios, receivables and the drawer stay in agreement under the commands of
   the restaurant as they do under the ledger's own. *)
COROLLARY RestaurantKeepsTheBooks ==
  RestaurantSpec => [](EntriesAreSound /\ ReceivableIsBalance /\ CashMatchesLedger /\ ClosedDrawerIsFinal)
  BY RestaurantImplementsLedger, EntriesStaySound, ReceivablesFollowFolios, CashFollowsFolios,
     ClosedDrawersStay, PTL DEF ImplementsLedger

-----------------------------------------------------------------------------
(* Stock is taken once.  An order that has taken its stock is Consumido and stays
   so; one that is not there yet has no history. *)
Taken ==
  \A o \in Orders :
    /\ order[o].status = "absent" => order[o] = NoOrder
    /\ posted[o]["Consumo"] # 0 => order[o].stage = "Consumido"

TakesItsStock(o) ==
  ConsumeInventory(o) /\ order[o].stage = "Reservado" /\ order'[o].stage = "Consumido"
InventoryEffect ==
  \/ UNCHANGED <<stock, reserved, posted>>
  \/ UNCHANGED <<order, line, posted>>
  \/ \E o \in Orders : ReserveInventory(o) \/ ReleaseInventory(o) \/ TakesItsStock(o)
StageEffect ==
  \A o \in Orders :
    /\ order[o].stage = "Consumido" => order'[o].stage = "Consumido"
    /\ order'[o].status = "absent" => order'[o] = order[o]

LEMMA NoOrderFields == RowIs(NoOrder, "absent", "Sin reservar", None, None, FALSE)
  BY Zenon DEF NoOrder, RowIs

LEMMA OneOrderMoves ==
  ASSUME NEW o \in Orders, \A u \in Orders \ {o} : order'[u] = order[u],
         order[o].stage = "Consumido" => order'[o].stage = "Consumido",
         order'[o].status # "absent"
  PROVE  StageEffect
  BY DEF StageEffect

LEMMA AdvanceEffect ==
  ASSUME RestaurantTypeOK, NEW o \in Orders, AdvanceOrder(o)
  PROVE  InventoryEffect /\ StageEffect
<1>1. \A st \in OrderStatuses, stage \in Stages : MoveTo(o, st, stage) =>
        /\ order'[o].status = st /\ order'[o].stage = stage
        /\ \A u \in Orders \ {o} : order'[u] = order[u]
  BY Moves DEF RowIs
<1>2. order[o].stage \in Stages /\ "Reservado" \in Stages /\ "Consumido" \in Stages
  BY OrderFields DEF RestaurantTypeOK, Stages
<1>3. CASE Confirm(o)
  <2>1. order'[o].status = "Confirmado" /\ order'[o].stage = order[o].stage
        /\ \A u \in Orders \ {o} : order'[u] = order[u]
    BY <1>1, <1>2, <1>3, StatusesInUse DEF Confirm
  <2>2. QED
    BY <1>3, <2>1, OneOrderMoves DEF Confirm, InventoryAsItIs, InventoryEffect
<1>4. CASE StartPreparing(o)
  <2>1. CASE order[o].stage = "Sin reservar"
    <3>1. ReserveInventory(o) /\ MoveTo(o, "En preparacion", "Reservado")
      BY <1>4, <2>1 DEF StartPreparing
    <3>2. order'[o].status = "En preparacion" /\ \A u \in Orders \ {o} : order'[u] = order[u]
      BY <1>1, <1>2, <3>1, StatusesInUse
    <3>3. QED
      BY <2>1, <3>1, <3>2, OneOrderMoves DEF InventoryEffect
  <2>2. CASE order[o].stage # "Sin reservar"
    <3>1. InventoryAsItIs /\ MoveTo(o, "En preparacion", order[o].stage)
      BY Zenon, <1>4, <2>2 DEF StartPreparing
    <3>2. order'[o].status = "En preparacion" /\ order'[o].stage = order[o].stage
          /\ \A u \in Orders \ {o} : order'[u] = order[u]
      BY <1>1, <1>2, <3>1, StatusesInUse
    <3>3. QED
      BY <3>1, <3>2, OneOrderMoves DEF InventoryEffect, InventoryAsItIs
  <2>3. QED
    BY <2>1, <2>2
<1>5. CASE FinishPreparing(o)
  <2>1. CASE order[o].stage = "Reservado"
    <3>1. ConsumeInventory(o) /\ MoveTo(o, "Listo", "Consumido")
      BY Zenon, <1>5, <2>1 DEF FinishPreparing
    <3>2. order'[o].status = "Listo" /\ order'[o].stage = "Consumido"
          /\ \A u \in Orders \ {o} : order'[u] = order[u]
      BY <1>1, <1>2, <3>1, StatusesInUse
    <3>3. QED
      BY <2>1, <3>1, <3>2, OneOrderMoves DEF InventoryEffect, TakesItsStock
  <2>2. CASE order[o].stage # "Reservado"
    <3>1. InventoryAsItIs /\ MoveTo(o, "Listo", order[o].stage)
      BY Zenon, <1>5, <2>2 DEF FinishPreparing
    <3>2. order'[o].status = "Listo" /\ order'[o].stage = order[o].stage
          /\ \A u \in Orders \ {o} : order'[u] = order[u]
      BY <1>1, <1>2, <3>1, StatusesInUse
    <3>3. QED
      BY <3>1, <3>2, OneOrderMoves DEF InventoryEffect, InventoryAsItIs
  <2>3. QED
    BY <2>1, <2>2
<1>6. CASE Deliver(o)
  <2>1. InventoryAsItIs /\ MoveTo(o, "Entregado", order[o].stage)
    BY Zenon, <1>6 DEF Deliver
  <2>2. order'[o].status = "Entregado" /\ order'[o].stage = order[o].stage
        /\ \A u \in Orders \ {o} : order'[u] = order[u]
    BY <1>1, <1>2, <2>1, StatusesInUse
  <2>3. QED
    BY <2>1, <2>2, OneOrderMoves DEF InventoryEffect, InventoryAsItIs
<1>7. CASE PayOrder(o)
  <2>1. order'[o].status = "Pagado" /\ order'[o].stage = order[o].stage
        /\ \A u \in Orders \ {o} : order'[u] = order[u]
    BY <1>1, <1>2, <1>7, StatusesInUse DEF PayOrder
  <2>2. QED
    BY <1>7, <2>1, OneOrderMoves DEF PayOrder, InventoryAsItIs, InventoryEffect
<1>8. QED
  BY <1>3, <1>4, <1>5, <1>6, <1>7 DEF AdvanceOrder

(* Lines that become ready at once are not consumed: the order's stage is what it
   was before it was reserved for. *)
LEMMA LineEffect ==
  ASSUME RestaurantTypeOK, Taken, NEW o \in Orders, NEW l \in Lines, NEW st \in LineStatuses,
         AdvanceOrderItem(o, l, st)
  PROVE  InventoryEffect /\ StageEffect
<1> DEFINE lines == [line[o] EXCEPT ![l] = st]
           begins == /\ \E x \in Lines : lines[x] \in {"en_preparacion", "listo"}
                     /\ order[o].stage = "Sin reservar"
           ends == /\ \A x \in Lines : lines[x] \in {"listo", "entregado"}
                   /\ order[o].status \notin {"Listo", "Entregado", "Pagado"}
           takes == ends /\ order[o].stage = "Reservado"
<1>1. /\ order[o].status # "absent"
      /\ begins => ReserveInventory(o)
      /\ takes => ConsumeInventory(o)
      /\ ~begins /\ ~takes => InventoryAsItIs
      /\ CASE ends -> MoveTo(o, "Listo", "Consumido")
           [] begins /\ ~ends -> MoveTo(o, "En preparacion", "Reservado")
           [] OTHER -> UNCHANGED order
  BY Zenon DEF AdvanceOrderItem, Exists
<1>2. begins => order[o].stage = "Sin reservar"
  BY Zenon
<1>3. takes <=> ends /\ order[o].stage = "Reservado"
  BY Zenon
<1> HIDE DEF begins, ends, takes
<1>4. \A s \in OrderStatuses, stage \in Stages : MoveTo(o, s, stage) =>
        /\ order'[o].status = s /\ order'[o].stage = stage
        /\ \A u \in Orders \ {o} : order'[u] = order[u]
  BY Moves DEF RowIs
<1>5. "Reservado" \in Stages /\ "Consumido" \in Stages
  BY DEF Stages
<1>6. CASE ends
  <2>1. order'[o].status = "Listo" /\ order'[o].stage = "Consumido"
        /\ \A u \in Orders \ {o} : order'[u] = order[u]
    BY <1>1, <1>4, <1>5, <1>6, StatusesInUse
  <2>2. InventoryEffect
    BY <1>1, <1>3, <1>6, <2>1 DEF InventoryEffect, InventoryAsItIs, TakesItsStock
  <2>3. QED
    BY <2>1, <2>2, OneOrderMoves
<1>7. CASE begins /\ ~ends
  <2>1. order'[o].status = "En preparacion" /\ \A u \in Orders \ {o} : order'[u] = order[u]
    BY <1>1, <1>4, <1>5, <1>7, StatusesInUse
  <2>2. order[o].stage # "Consumido"
    BY <1>2, <1>7
  <2>3. QED
    BY <1>1, <1>7, <2>1, <2>2, OneOrderMoves DEF InventoryEffect
<1>8. CASE ~begins /\ ~ends
  BY <1>1, <1>3, <1>8 DEF InventoryEffect, InventoryAsItIs, StageEffect
<1>9. QED
  BY <1>6, <1>7, <1>8

LEMMA OrderEffect ==
  ASSUME RestaurantTypeOK, Taken, OrderStep
  PROVE  InventoryEffect /\ StageEffect
<1>1. ASSUME NEW o \in Orders, NEW s \in Stays \cup {None}, CreateOrder(o, s)
      PROVE  InventoryEffect /\ StageEffect
  <2>1. /\ Created(s, None, FALSE) \in OrderRows
        /\ Created(s, None, FALSE).status = "Pedido recibido"
    <3> FALSE \in BOOLEAN /\ None \in Tabs \cup {None}
      OBVIOUS
    <3> QED
      BY Zenon, CreatedRow DEF RowIs
  <2>2. order'[o] = Created(s, None, FALSE) /\ \A u \in Orders \ {o} : order'[u] = order[u]
    BY <1>1, <2>1, BecomesTyped DEF CreateOrder, RowBecomes
  <2>3. order[o].stage # "Consumido"
    BY Zenon, <1>1, NoOrderFields DEF CreateOrder, Exists, Taken, RowIs
  <2>4. QED
    BY <1>1, <2>1, <2>2, <2>3, OneOrderMoves DEF CreateOrder, InventoryEffect
<1>2. ASSUME NEW o \in Orders, NEW s \in Stays \cup {None}, UpdateOrder(o, s)
      PROVE  InventoryEffect /\ StageEffect
  <2>1. order'[o].status = order[o].status /\ order'[o].stage = order[o].stage
        /\ \A u \in Orders \ {o} : order'[u] = order[u]
    BY <1>2, GoesToStay DEF UpdateOrder, RowIs
  <2>2. order[o].status # "absent"
    BY <1>2 DEF UpdateOrder, IsEditable
  <2>3. QED
    BY <1>2, <2>1, <2>2, OneOrderMoves DEF UpdateOrder, InventoryEffect
<1>3. ASSUME NEW o \in Orders, CancelOrder(o)
      PROVE  InventoryEffect /\ StageEffect
  <2>1. order'[o].status = "Cancelado" /\ order'[o].stage = order[o].stage
        /\ \A u \in Orders \ {o} : order'[u] = order[u]
    BY <1>3, Closes, StatusesInUse DEF CancelOrder, RowIs
  <2>2. ReleaseInventory(o) \/ InventoryAsItIs
    BY Zenon, <1>3 DEF CancelOrder
  <2>3. QED
    BY <2>1, <2>2, OneOrderMoves DEF InventoryEffect, InventoryAsItIs
<1>4. QED
  BY <1>1, <1>2, <1>3, AdvanceEffect DEF OrderStep

LEMMA StepEffect ==
  ASSUME RestaurantTypeOK, Taken, [RestaurantNext]_vars
  PROVE  InventoryEffect /\ StageEffect
<1>1. CASE UNCHANGED vars
  BY <1>1 DEF vars, restaurantVars, InventoryEffect, StageEffect
<1>2. CASE OrderStep
  BY <1>2, OrderEffect
<1>3. CASE LineStep
  BY <1>3, LineEffect DEF LineStep
<1>4. CASE CustomerStep
  <2>1. ASSUME NEW new \in SUBSET Orders, NEW s \in Stays \cup {None}, NEW t \in Tabs \cup {None},
               CreateCustomerOrder(new, s, t)
        PROVE  InventoryEffect /\ StageEffect
    <3>1. /\ \A o \in new : order[o].status = "absent" /\ order'[o] = Created(s, t, TRUE)
          /\ \A o \in Orders \ new : order'[o] = order[o]
      <4>1. MadeAtOnce(new, s, t)
        BY <2>1, CustomerOrders
      <4>2. QED
        BY Zenon, <4>1 DEF MadeAtOnce
    <3>2. Created(s, t, TRUE).status = "Pedido recibido"
      BY Zenon, CreatedRow DEF RowIs
    <3>3. \A o \in new : order[o].stage # "Consumido" /\ order'[o].status # "absent"
      BY Zenon, <3>1, <3>2, NoOrderFields DEF Taken, RowIs
    <3>4. StageEffect
      BY <3>1, <3>3 DEF StageEffect
    <3>5. QED
      BY <2>1, <3>4 DEF CreateCustomerOrder, InventoryEffect
  <2>2. ASSUME NEW o \in Orders, ReadToCancel(o)
        PROVE  InventoryEffect /\ StageEffect
    BY <2>2 DEF ReadToCancel, InventoryEffect, StageEffect
  <2>3. ASSUME NEW o \in Orders, CancelCustomerOrder(o)
        PROVE  InventoryEffect /\ StageEffect
    <3>1. order'[o].status = "Cancelado" /\ order'[o].stage = order[o].stage
          /\ \A u \in Orders \ {o} : order'[u] = order[u]
      BY <2>3, Closes, StatusesInUse DEF CancelCustomerOrder, RowIs
    <3>2. QED
      BY <2>3, <3>1, OneOrderMoves DEF CancelCustomerOrder, InventoryEffect
  <2>4. QED
    BY <1>4, <2>1, <2>2, <2>3 DEF CustomerStep
<1>5. CASE TabStep
  <2>1. ASSUME NEW t \in Tabs, NEW cash \in BOOLEAN, SettleReservation(t, cash)
        PROVE  InventoryEffect /\ StageEffect
    <3>1. \A o \in Orders :
            order'[o] = order[o] \/ (order'[o].status = "Pagado" /\ order'[o].stage = order[o].stage)
      BY <2>1, Settles DEF RowIs
    <3>2. QED
      BY <2>1, <3>1 DEF SettleReservation, InventoryEffect, StageEffect
  <2>2. CASE ZoneStep /\ UNCHANGED restaurantVars
    BY <2>2 DEF restaurantVars, InventoryEffect, StageEffect
  <2>3. QED
    BY <1>5, <2>1, <2>2 DEF TabStep
<1>6. CASE StoreStep
  BY <1>6 DEF StoreStep, AdjustInventory, UpdateRecipe, InventoryEffect, StageEffect
<1>7. CASE LedgerStep
  BY <1>7 DEF LedgerStep, restaurantVars, InventoryEffect, StageEffect
<1>8. QED
  BY <1>1, <1>2, <1>3, <1>4, <1>5, <1>6, <1>7 DEF RestaurantNext

(* What each kind of posting leaves of the others. *)
LEMMA PostedElsewhere ==
  ASSUME RestaurantTypeOK, NEW o \in Orders, NEW p \in Postings, Post(o, p)
  PROVE  /\ \A u \in Orders, q \in Postings :
              u # o \/ q # p => posted'[u][q] = posted[u][q]
         /\ posted'[o][p] = posted[o][p] + Required
<1>1. posted \in [Orders -> [Postings -> Nat]]
  BY DEF RestaurantTypeOK
<1>2. posted[o] \in [Postings -> Nat]
  BY <1>1
<1>3. /\ posted'[o] = [posted[o] EXCEPT ![p] = posted[o][p] + Required]
      /\ \A u \in Orders \ {o} : posted'[u] = posted[u]
  BY Posts
<1>4. \A q \in Postings : posted'[o][q] = IF q = p THEN posted[o][p] + Required ELSE posted[o][q]
  BY <1>2, <1>3
<1>5. ASSUME NEW u \in Orders, NEW q \in Postings, u # o \/ q # p
      PROVE  posted'[u][q] = posted[u][q]
  BY Zenon, <1>3, <1>4, <1>5
<1>6. QED
  BY Zenon, <1>4, <1>5

LEMMA TakenStep ==
  ASSUME RestaurantTypeOK, Taken, InventoryEffect, StageEffect
  PROVE  /\ Taken'
         /\ \A o \in Orders : posted'[o]["Consumo"] # posted[o]["Consumo"] => posted[o]["Consumo"] = 0
<1> DEFINE Consumed(o) == posted[o]["Consumo"]
           Later(o) == posted'[o]["Consumo"]
           Goal == \A o \in Orders :
                     Later(o) = Consumed(o) \/ (Consumed(o) = 0 /\ order'[o].stage = "Consumido")
<1>1. "Reserva" \in Postings /\ "Consumo" \in Postings /\ "Devolucion" \in Postings
  BY DEF Postings
<1>2. CASE UNCHANGED posted
  BY <1>2 DEF Taken, StageEffect
<1>3. ASSUME NEW o \in Orders, ReserveInventory(o) \/ ReleaseInventory(o)
      PROVE  Goal
  BY <1>1, <1>3, PostedElsewhere DEF ReserveInventory, ReleaseInventory
<1>4. ASSUME NEW o \in Orders, TakesItsStock(o)
      PROVE  Goal
  <2>1. \A u \in Orders \ {o} : Later(u) = Consumed(u)
    BY <1>1, <1>4, PostedElsewhere DEF TakesItsStock, ConsumeInventory
  <2>2. Consumed(o) = 0 /\ order'[o].stage = "Consumido"
    BY <1>4 DEF TakesItsStock, Taken
  <2>3. QED
    BY <2>1, <2>2
<1>5. Goal
  BY <1>2, <1>3, <1>4 DEF InventoryEffect
<1>6. QED
  BY <1>5 DEF Taken, StageEffect

LEMMA TakenInit == RestaurantInit => Taken
<1> SUFFICES ASSUME RestaurantInit, NEW o \in Orders
             PROVE  order[o] = NoOrder /\ posted[o]["Consumo"] = 0
  BY Zenon DEF Taken
<1>1. posted[o] = [p \in Postings |-> 0] /\ order[o] = NoOrder
  BY Zenon DEF RestaurantInit
<1>2. QED
  BY Zenon, <1>1 DEF Postings

(* No command on an order promises what is not there. *)
LEMMA NoCommandOversells ==
  ASSUME RestaurantTypeOK, InventoryEffect, stock >= reserved, stock' < reserved'
  PROVE  UNCHANGED <<order, line, posted>>
<1>1. stock \in Nat /\ reserved \in Nat /\ Required \in Nat
  BY RequiredType, QuantitiesAreBounded DEF RestaurantTypeOK
<1>2. \A o \in Orders : ~ReserveInventory(o)
  BY <1>1 DEF ReserveInventory
<1>3. \A o \in Orders : ~ReleaseInventory(o)
  BY <1>1 DEF ReleaseInventory, AtLeastZero
<1>4. \A o \in Orders : ~ConsumeInventory(o)
  BY <1>1 DEF ConsumeInventory, AtLeastZero
<1>5. QED
  BY <1>1, <1>2, <1>3, <1>4 DEF InventoryEffect, TakesItsStock

(* The same of the store, which only adds to the stock. *)
LEMMA RestockEffect ==
  ASSUME RestaurantTypeOK, NEW q \in Nat, Restocks(q)
  PROVE  InventoryEffect /\ StageEffect
  BY DEF Restocks, InventoryEffect, StageEffect

TakingInv == RestaurantTypeOK /\ Taken

LEMMA TakingStep ==
  ASSUME TakingInv, [RestaurantNext]_vars
  PROVE  /\ TakingInv'
         /\ \A o \in Orders : posted'[o]["Consumo"] # posted[o]["Consumo"] => posted[o]["Consumo"] = 0
         /\ stock >= reserved /\ stock' < reserved' => UNCHANGED <<order, line, posted>>
<1>1. RestaurantTypeOK /\ Taken
  BY DEF TakingInv
<1>2. InventoryEffect /\ StageEffect
  BY <1>1, StepEffect
<1>3. QED
  BY <1>1, <1>2, StepTyped, TakenStep, NoCommandOversells DEF TakingInv

LEMMA TakingInStore ==
  ASSUME StoreInv, Taken, [StoreNext]_allVars
  PROVE  /\ StoreInv' /\ Taken'
         /\ \A o \in Orders : posted'[o]["Consumo"] # posted[o]["Consumo"] => posted[o]["Consumo"] = 0
         /\ stock >= reserved /\ stock' < reserved' => UNCHANGED <<order, line, posted>>
<1>1. RestaurantTypeOK
  BY DEF StoreInv
<1>2. InventoryEffect /\ StageEffect
  BY <1>1, StoreSteps, StepEffect, RestockEffect
<1>3. QED
  BY <1>1, <1>2, StoreStepTyped, TakenStep, NoCommandOversells

(* However an order is advanced, line by line or as a whole, cancelled, cancelled
   late by its customer, revived and settled, its stock is taken once. *)
THEOREM StockIsTakenOnce ==
  /\ RestaurantSpec => TakenOnce
  /\ StoreSpec => TakenOnce
<1>1. RestaurantInit => TakingInv
  BY RestaurantInitTyped, TakenInit DEF TakingInv
<1>2. TakingInv /\ [RestaurantNext]_vars =>
        /\ TakingInv'
        /\ [\A o \in Orders : posted'[o]["Consumo"] # posted[o]["Consumo"] => posted[o]["Consumo"] = 0]_vars
  BY TakingStep
<1>3. StoreInit => StoreInv /\ Taken
  BY StoreInitTyped, TakenInit DEF StoreInit
<1>4. StoreInv /\ Taken /\ [StoreNext]_allVars =>
        /\ StoreInv' /\ Taken'
        /\ [\A o \in Orders : posted'[o]["Consumo"] # posted[o]["Consumo"] => posted[o]["Consumo"] = 0]_vars
  BY TakingInStore
<1>5. RestaurantSpec => TakenOnce
  BY <1>1, <1>2, PTL DEF RestaurantSpec, TakenOnce
<1>6. StoreSpec => TakenOnce
  BY <1>3, <1>4, PTL DEF StoreSpec, TakenOnce
<1>7. QED
  BY <1>5, <1>6

(* Only a correction by hand can leave less stock than is reserved: no order, no
   delivery and no change of a recipe does. *)
THEOREM NothingOversells ==
  /\ RestaurantSpec => OnlyAdjustmentsOversell
  /\ StoreSpec => OnlyAdjustmentsOversell
<1>1. RestaurantInit => TakingInv
  BY RestaurantInitTyped, TakenInit DEF TakingInv
<1>2. TakingInv /\ [RestaurantNext]_vars =>
        /\ TakingInv'
        /\ [stock >= reserved /\ stock' < reserved' => UNCHANGED <<order, line, posted>>]_vars
  BY TakingStep
<1>3. StoreInit => StoreInv /\ Taken
  BY StoreInitTyped, TakenInit DEF StoreInit
<1>4. StoreInv /\ Taken /\ [StoreNext]_allVars =>
        /\ StoreInv' /\ Taken'
        /\ [stock >= reserved /\ stock' < reserved' => UNCHANGED <<order, line, posted>>]_vars
  BY TakingInStore
<1>5. RestaurantSpec => OnlyAdjustmentsOversell
  BY <1>1, <1>2, PTL DEF RestaurantSpec, OnlyAdjustmentsOversell
<1>6. StoreSpec => OnlyAdjustmentsOversell
  BY <1>3, <1>4, PTL DEF StoreSpec, OnlyAdjustmentsOversell
<1>7. QED
  BY <1>5, <1>6

-----------------------------------------------------------------------------
(* Bookings, and the accounts of those who made them.  A step of the zone admits
   one booking, or changes none but its status. *)
Admission(t, r) ==
  \E from \in Instants, pax \in Sizes, stay \in Stays \cup {None}, payment \in TabStatuses :
    Admit(t, r, from, pax, stay, payment)
RemainsBooked(t) ==
  /\ pass[t].status # "absent" /\ pass'[t].status # "absent"
  /\ pass'[t].payment = pass[t].payment
  /\ \A u \in Tabs \ {t} : pass'[u] = pass[u]
ZoneEffect ==
  \/ UNCHANGED pass
  \/ \E t \in Tabs : RemainsBooked(t)
  \/ \E t \in Tabs, r \in RulesInForce : Admission(t, r)

LEMMA ZoneEffects == ASSUME ZoneTyped, ZoneStep PROVE ZoneEffect
<1>1. ASSUME NEW t \in Tabs, CheckInReservation(t)
      PROVE  ZoneEffect
  <2>1. /\ [pass[t] EXCEPT !.status = "checked_in"].status = "checked_in"
        /\ [pass[t] EXCEPT !.status = "checked_in"].payment = pass[t].payment
    BY PassEnters DEF ZoneTyped
  <2>2. pass' = [pass EXCEPT ![t] = [pass[t] EXCEPT !.status = "checked_in"]]
        /\ pass[t].status = "confirmed"
    BY <1>1 DEF CheckInReservation
  <2>3. RemainsBooked(t)
    BY <2>1, <2>2 DEF RemainsBooked, ZoneTyped
  <2>4. QED
    BY <2>3 DEF ZoneEffect
<1>2. ASSUME NEW t \in Tabs, NEW from \in Instants, NEW pax \in Sizes, NEW payment \in TabStatuses,
             CreateReservation(t, from, pax, payment)
      PROVE  ZoneEffect
  BY <1>2 DEF CreateReservation, Admission, ZoneEffect
<1>3. ASSUME NEW t \in Tabs, NEW from \in Instants, NEW pax \in Sizes, NEW payment \in TabStatuses,
             NEW s \in Stays, NEW priced \in BOOLEAN, NEW cash \in BOOLEAN,
             CreateManualPass(t, s, from, pax, payment, priced, cash)
      PROVE  ZoneEffect
  <2>1. PICK r \in RulesInForce : Admit(t, r, from, pax, s, payment)
    BY <1>3, Zenon DEF CreateManualPass
  <2>2. QED
    BY <2>1 DEF Admission, ZoneEffect
<1>4. ASSUME NEW c \in RuleRows, FindNoRule(c) \/ \E r \in Rules : InsertRule(c, r) \/ UpdateConfig(c, r)
      PROVE  ZoneEffect
  BY <1>4 DEF FindNoRule, InsertRule, UpdateConfig, ZoneEffect
<1>5. QED
  BY <1>1, <1>2, <1>3, <1>4 DEF ZoneStep

(* Sums over bookings. *)
LEMMA PaxIsSum ==
  ASSUME NEW p, NEW S
  PROVE  MapThenSumSet(LAMBDA t : p[t].pax, S) = SumFunctionOnSet([t \in S |-> p[t].pax], S)
  BY DEF SumFunctionOnSet, FoldFunctionOnSet, MapThenFoldSet, MapThenSumSet

(* Those who are there at an instant of a new booking all overlap it. *)
LEMMA AdmittedFits ==
  ASSUME ZoneTyped, NEW t \in Tabs, NEW r \in RulesInForce, Admission(t, r)
  PROVE  \A i \in pass'[t].from .. pass'[t].to - 1 : PeopleAt(i)' <= r.capacity
<1>1. PICK from \in Instants, pax \in Sizes, stay \in Stays \cup {None}, payment \in TabStatuses :
        Admit(t, r, from, pax, stay, payment)
  BY DEF Admission
<1> DEFINE to == from + r.duration
<1>2. /\ ZoneTyped' /\ pass[t].status = "absent"
      /\ pass'[t].status = "confirmed" /\ pass'[t].from = from /\ pass'[t].to = to
      /\ pass'[t].pax = pax /\ \A u \in Tabs \ {t} : pass'[u] = pass[u]
  BY <1>1, Admits
<1>3. from \in Nat /\ pax \in Nat /\ to \in Nat /\ r.capacity \in Nat
  BY RulesAreRules, BookingsHavePeople
<1>4. PlacesTaken(from, to) + pax <= r.capacity
  BY <1>1 DEF Admit
<1> HIDE DEF to
<1>5. SUFFICES ASSUME NEW i \in from .. to - 1 PROVE PeopleAt(i)' <= r.capacity
  BY <1>2
<1> DEFINE overlap == {u \in Booked({"confirmed", "checked_in"}) : pass[u].to > from /\ pass[u].from <= to}
           there == {u \in Tabs : /\ pass'[u].status # "absent"
                                  /\ pass'[u].from <= i /\ i < pass'[u].to}
           others == there \ {t}
           f == [u \in overlap |-> pass[u].pax]
           g == [u \in there |-> pass'[u].pax]
<1>6. /\ IsFiniteSet(overlap) /\ IsFiniteSet(there) /\ IsFiniteSet(others)
      /\ others \subseteq Tabs \ {t} /\ overlap \subseteq Tabs
  <2>1. overlap \subseteq Tabs /\ there \subseteq Tabs /\ others \subseteq there
    BY DEF Booked
  <2> HIDE DEF overlap, there
  <2>2. IsFiniteSet(overlap) /\ IsFiniteSet(there)
    BY <2>1, TabsAreFinite, FS_Subset
  <2>3. QED
    BY <2>1, <2>2, FS_Subset
<1>7. \A u \in Tabs : pass[u].pax \in Nat /\ pass[u].from \in Nat /\ pass[u].to \in Nat
                      /\ pass[u].status \in {"absent", "confirmed", "checked_in"}
  BY PassFields DEF ZoneTyped
<1>8. others \subseteq overlap
  <2> SUFFICES ASSUME NEW u \in others PROVE u \in overlap
    OBVIOUS
  <2>1. u \in Tabs /\ pass'[u] = pass[u] /\ pass[u].status # "absent"
        /\ pass[u].from <= i /\ i < pass[u].to
    BY <1>2, <1>6
  <2>2. pass[u].to > from /\ pass[u].from <= to
    BY <1>3, <1>7, <2>1
  <2>3. QED
    BY <1>7, <2>1, <2>2 DEF Booked
<1>9. t \in there /\ others \cup {t} = there /\ t \notin others
  BY <1>2, <1>3
<1>10. PeopleAt(i)' = SumFunctionOnSet(g, there)
  <2>1. PeopleAt(i)' = MapThenSumSet(LAMBDA u : pass'[u].pax, there)
    BY DEF PeopleAt, MapThenFoldSet, MapThenSumSet
  <2>2. MapThenSumSet(LAMBDA u : pass'[u].pax, there) = SumFunctionOnSet(g, there)
    BY PaxIsSum
  <2>3. QED
    BY <2>1, <2>2
<1>11. PlacesTaken(from, to) = SumFunctionOnSet(f, overlap)
  BY PaxIsSum DEF PlacesTaken
<1>12. /\ \A u \in others : g[u] = f[u] /\ g[u] \in Int
       /\ g[t] = pax
       /\ \A u \in overlap : f[u] \in Nat
  <2>1. \A u \in there : g[u] = pass'[u].pax
    OBVIOUS
  <2>2. \A u \in overlap : f[u] = pass[u].pax
    OBVIOUS
  <2>3. \A u \in others : u \in there /\ u \in overlap /\ u \in Tabs \ {t}
    BY <1>6, <1>8
  <2> HIDE DEF f, g, overlap, there, others
  <2>4. QED
    BY <1>2, <1>3, <1>6, <1>7, <1>9, <2>1, <2>2, <2>3
<1> HIDE DEF f, g, overlap, there, others
<1>13. SumFunctionOnSet(g, there) = pax + SumFunctionOnSet(g, others)
  <2>1. \A u \in others \cup {t} : g[u] \in Int
    BY <1>3, <1>12
  <2>2. SumFunctionOnSet(g, others \cup {t}) = g[t] + SumFunctionOnSet(g, others)
    BY <1>6, <1>9, <2>1, SumWith
  <2>3. QED
    BY <1>9, <1>12, <2>2
<1>14. SumFunctionOnSet(g, others) = SumFunctionOnSet(f, others)
  BY <1>6, <1>12, SumSame
<1>15. /\ SumFunctionOnSet(f, others) <= SumFunctionOnSet(f, overlap)
       /\ SumFunctionOnSet(f, overlap) \in Nat
  BY <1>6, <1>8, <1>12, SumOfPart, SumIsNatural
<1>16. SumFunctionOnSet(f, others) \in Nat
  BY <1>6, <1>8, <1>12, SumIsNatural
<1>17. QED
  BY <1>3, <1>4, <1>10, <1>11, <1>13, <1>14, <1>15, <1>16

(* Outside of the zone nobody is booked. *)
LEMMA BookedInTheZone ==
  ASSUME RestaurantTypeOK, [RestaurantNext]_vars
  PROVE  \/ ZoneStep /\ UNCHANGED restaurantVars
         \/ \A t \in Tabs : pass'[t].status = pass[t].status
<1> DEFINE Same == \A t \in Tabs : pass'[t].status = pass[t].status
<1>1. \A t \in Tabs, payment \in TabStatuses :
        pass[t] \in PassRows /\ [pass[t] EXCEPT !.payment = payment].status = pass[t].status
  BY PassPaid DEF RestaurantTypeOK
<1>2. ASSUME NEW new \in SUBSET Orders, NEW s \in Stays \cup {None}, NEW t \in Tabs \cup {None},
             CreateCustomerOrder(new, s, t)
      PROVE  Same
  <2>1. /\ \A u \in Tabs \ {t} : pass'[u] = pass[u]
        /\ \A u \in Tabs : u = t => pass'[u] = [pass[u] EXCEPT !.payment = "open_tab"]
    BY <1>2, CustomerOrders
  <2>2. QED
    BY <1>1, <2>1 DEF TabStatuses
<1>3. ASSUME NEW t \in Tabs, NEW cash \in BOOLEAN, SettleReservation(t, cash)
      PROVE  Same
  <2>1. pass'[t] = [pass[t] EXCEPT !.payment = "paid"] /\ \A u \in Tabs \ {t} : pass'[u] = pass[u]
    BY <1>3, Settles
  <2>2. QED
    BY <1>1, <2>1 DEF TabStatuses
<1>4. ASSUME OrderStep PROVE Same
  BY <1>4 DEF OrderStep, CreateOrder, UpdateOrder, AdvanceOrder, CancelOrder, amenityVars
<1>5. ASSUME LineStep PROVE Same
  BY Zenon, <1>5 DEF LineStep, AdvanceOrderItem, amenityVars
<1>6. ASSUME StoreStep \/ LedgerStep \/ UNCHANGED vars PROVE Same
  BY <1>6 DEF StoreStep, AdjustInventory, UpdateRecipe, LedgerStep, vars, amenityVars
<1>7. ASSUME NEW o \in Orders, ReadToCancel(o) \/ CancelCustomerOrder(o) PROVE Same
  BY <1>7 DEF ReadToCancel, CancelCustomerOrder, amenityVars
<1>8. ASSUME CustomerStep PROVE Same
  BY Zenon, <1>2, <1>7, <1>8 DEF CustomerStep
<1>9. QED
  BY <1>3, <1>4, <1>5, <1>6, <1>8 DEF RestaurantNext, TabStep

BookingFits ==
  \A t \in Tabs : pass[t].status = "absent" /\ pass'[t].status # "absent" =>
    \E r \in RulesInForce : \A i \in pass'[t].from .. pass'[t].to - 1 : PeopleAt(i)' <= r.capacity

LEMMA StepFits ==
  ASSUME RestaurantTypeOK, [RestaurantNext]_vars
  PROVE  BookingFits
<1>1. ZoneTyped
  BY DEF RestaurantTypeOK, ZoneTyped
<1>2. CASE \A t \in Tabs : pass'[t].status = pass[t].status
  BY <1>2 DEF BookingFits
<1>3. CASE ZoneStep
  <2>1. ZoneEffect
    BY <1>1, <1>3, ZoneEffects
  <2>2. CASE UNCHANGED pass
    BY <2>2 DEF BookingFits
  <2>3. ASSUME NEW t \in Tabs, RemainsBooked(t)
        PROVE  BookingFits
    BY <2>3 DEF BookingFits, RemainsBooked
  <2>4. ASSUME NEW t \in Tabs, NEW r \in RulesInForce, Admission(t, r)
        PROVE  BookingFits
    <3>1. \A i \in pass'[t].from .. pass'[t].to - 1 : PeopleAt(i)' <= r.capacity
      BY <1>1, <2>4, AdmittedFits
    <3>2. \A u \in Tabs \ {t} : pass'[u] = pass[u]
      BY <1>1, <2>4, Admits DEF Admission
    <3>3. SUFFICES ASSUME NEW u \in Tabs, pass[u].status = "absent", pass'[u].status # "absent"
                   PROVE  \E q \in RulesInForce : \A i \in pass'[u].from .. pass'[u].to - 1 :
                            PeopleAt(i)' <= q.capacity
      BY DEF BookingFits
    <3>4. u = t
      BY <3>2, <3>3
    <3>5. QED
      BY Zenon, <3>1, <3>4
  <2>5. QED
    BY <2>1, <2>2, <2>3, <2>4 DEF ZoneEffect
<1>4. QED
  BY <1>2, <1>3, BookedInTheZone

(* However long the bookings there are, and under whatever rules they were made,
   a new one fits at every instant of its own. *)
THEOREM BookingsFit ==
  /\ RestaurantSpec => BookedFits
  /\ StoreSpec => BookedFits
<1>1. RestaurantInit => RestaurantTypeOK
  BY RestaurantInitTyped
<1>2. RestaurantTypeOK /\ [RestaurantNext]_vars => RestaurantTypeOK' /\ [BookingFits]_amenityVars
  BY StepTyped, StepFits
<1>3. StoreInv /\ [StoreNext]_allVars => StoreInv' /\ [BookingFits]_amenityVars
  <2> SUFFICES ASSUME StoreInv, [StoreNext]_allVars PROVE StoreInv' /\ [BookingFits]_amenityVars
    OBVIOUS
  <2>1. RestaurantTypeOK
    BY DEF StoreInv
  <2>2. [RestaurantNext]_vars \/ \E q \in Nat : Restocks(q)
    BY StoreSteps
  <2>3. QED
    BY <2>1, <2>2, StoreStepTyped, StepFits DEF Restocks
<1>4. RestaurantSpec => BookedFits
  BY <1>1, <1>2, PTL DEF RestaurantSpec, BookedFits, BookingFits
<1>5. StoreSpec => BookedFits
  BY <1>3, StoreInitTyped, PTL DEF StoreSpec, BookedFits, BookingFits
<1>6. QED
  BY <1>4, <1>5

-----------------------------------------------------------------------------
(* Accounts.  An order is on the account of somebody who is booked, and a command
   on an order that is paid or cancelled leaves it so: unless it is advanced line
   by line, which revives it. *)
AccountsInv ==
  /\ \A o \in Orders : order[o].tab # None => pass[order[o].tab].status # "absent"
  /\ PaidTabIsPaidUp

Ended == {"Pagado", "Cancelado"}
LeavesAccounts(o) ==
  \/ order'[o].tab = order[o].tab /\ (order[o].status \in Ended => order'[o].status \in Ended)
  \/ order'[o].tab = None

LEMMA OrdersLeaveAccounts ==
  ASSUME RestaurantTypeOK, OrderStep
  PROVE  UNCHANGED pass /\ \A o \in Orders : LeavesAccounts(o)
<1> DEFINE Goal == \A o \in Orders : LeavesAccounts(o)
<1>1. UNCHANGED pass
  BY DEF OrderStep, CreateOrder, UpdateOrder, AdvanceOrder, CancelOrder, amenityVars
<1>2. ASSUME NEW o \in Orders, \A u \in Orders \ {o} : order'[u] = order[u], LeavesAccounts(o)
      PROVE  Goal
  BY <1>2 DEF LeavesAccounts
<1>3. ASSUME NEW o \in Orders, NEW s \in Stays \cup {None}, CreateOrder(o, s)
      PROVE  Goal
  <2>1. Created(s, None, FALSE) \in OrderRows /\ Created(s, None, FALSE).tab = None
    <3> FALSE \in BOOLEAN /\ None \in Tabs \cup {None}
      OBVIOUS
    <3> QED
      BY Zenon, CreatedRow, CreatedTab
  <2>2. order'[o] = Created(s, None, FALSE) /\ \A u \in Orders \ {o} : order'[u] = order[u]
    BY <1>3, <2>1, BecomesTyped DEF CreateOrder, RowBecomes
  <2>3. QED
    BY Zenon, <1>2, <2>1, <2>2 DEF LeavesAccounts
<1>4. ASSUME NEW o \in Orders, NEW s \in Stays \cup {None}, UpdateOrder(o, s)
      PROVE  Goal
  <2>1. RowIs(order'[o], order[o].status, order[o].stage, s, order[o].tab, order[o].portal)
        /\ \A u \in Orders \ {o} : order'[u] = order[u]
    BY <1>4, GoesToStay DEF UpdateOrder
  <2>2. QED
    BY Zenon, <1>2, <2>1 DEF LeavesAccounts, RowIs
<1>5. ASSUME NEW o \in Orders, CancelOrder(o)
      PROVE  Goal
  <2>1. RowIs(order'[o], "Cancelado", order[o].stage, order[o].stay, order[o].tab, order[o].portal)
        /\ \A u \in Orders \ {o} : order'[u] = order[u]
    BY <1>5, Closes, StatusesInUse DEF CancelOrder
  <2>2. QED
    BY Zenon, <1>2, <2>1 DEF LeavesAccounts, RowIs, Ended
<1>6. ASSUME NEW o \in Orders, AdvanceOrder(o)
      PROVE  Goal
  <2>1. PICK st \in OrderStatuses, stage \in Stages : MoveTo(o, st, stage)
    BY <1>6, AdvanceTyped
  <2>2. RowIs(order'[o], st, stage, order[o].stay, order[o].tab, order[o].portal)
        /\ \A u \in Orders \ {o} : order'[u] = order[u]
    BY <2>1, Moves
  <2>3. order[o].status \notin Ended
    BY <1>6, AdvanceTyped DEF Confirm, StartPreparing, FinishPreparing, Deliver, PayOrder, Ended
  <2>4. QED
    BY Zenon, <1>2, <2>2, <2>3 DEF LeavesAccounts, RowIs
<1>7. QED
  BY <1>1, <1>3, <1>4, <1>5, <1>6 DEF OrderStep

LEMMA AccountsKeep ==
  ASSUME RestaurantTypeOK, AccountsInv, UNCHANGED pass, \A o \in Orders : LeavesAccounts(o)
  PROVE  AccountsInv'
<1>1. \A o \in Orders : order'[o].tab # None =>
        order'[o].tab = order[o].tab /\ (order[o].status \in Ended => order'[o].status \in Ended)
  BY DEF LeavesAccounts
<1>2. \A t \in Tabs : t # None
  BY TabsAndStaysAreNotNone
<1>3. \A o \in Orders : order'[o].tab # None => pass'[order'[o].tab].status # "absent"
  BY <1>1 DEF AccountsInv
<1>4. ASSUME NEW t \in Tabs, pass'[t].payment = "paid", NEW o \in Orders, order'[o].tab = t
      PROVE  order'[o].status \in Ended
  BY <1>1, <1>2, <1>4 DEF AccountsInv, PaidTabIsPaidUp, Linked, Ended
<1>5. QED
  BY <1>3, <1>4 DEF AccountsInv, PaidTabIsPaidUp, Linked, Ended

LEMMA CustomerKeepsAccounts ==
  ASSUME RestaurantTypeOK, AccountsInv, NEW new \in SUBSET Orders, NEW s \in Stays \cup {None},
         NEW t \in Tabs \cup {None}, CreateCustomerOrder(new, s, t)
  PROVE  AccountsInv'
<1>1. /\ MadeAtOnce(new, s, t)
      /\ \A u \in Tabs \ {t} : pass'[u] = pass[u]
      /\ \A u \in Tabs : u = t => pass'[u] = [pass[u] EXCEPT !.payment = "open_tab"]
      /\ t # None => pass[t].status # "absent"
  BY CustomerOrders
<1>2. Created(s, t, TRUE).tab = t
  BY Zenon, CreatedTab
<1>3. /\ \A o \in new : order'[o].tab = t
      /\ \A o \in Orders \ new : order'[o] = order[o]
  BY Zenon, <1>1, <1>2 DEF MadeAtOnce
<1>4. \A u \in Tabs : /\ pass[u] \in PassRows
                      /\ [pass[u] EXCEPT !.payment = "open_tab"].status = pass[u].status
                      /\ [pass[u] EXCEPT !.payment = "open_tab"].payment = "open_tab"
  BY PassPaid DEF RestaurantTypeOK, TabStatuses
<1>5. \A u \in Tabs : pass'[u].status = pass[u].status /\ (pass'[u].payment = "paid" => pass'[u] = pass[u] /\ u # t)
  BY <1>1, <1>4
<1>6. \A o \in Orders : order[o].tab \in Tabs \cup {None}
  BY OrderFields DEF RestaurantTypeOK
<1>7. ASSUME NEW o \in Orders, order'[o].tab # None
      PROVE  pass'[order'[o].tab].status # "absent"
  <2>1. CASE o \in new
    BY <1>1, <1>3, <1>5, <1>7, <2>1
  <2>2. CASE o \notin new
    BY <1>3, <1>5, <1>6, <1>7, <2>2 DEF AccountsInv
  <2>3. QED
    BY <2>1, <2>2
<1>8. ASSUME NEW u \in Tabs, pass'[u].payment = "paid", NEW o \in Orders, order'[o].tab = u
      PROVE  order'[o].status \in Ended
  <2>1. o \notin new /\ order'[o] = order[o] /\ pass[u].payment = "paid"
    BY <1>3, <1>5, <1>8
  <2>2. QED
    BY <1>8, <2>1 DEF AccountsInv, PaidTabIsPaidUp, Linked, Ended
<1>9. QED
  BY <1>7, <1>8 DEF AccountsInv, PaidTabIsPaidUp, Linked, Ended

LEMMA SettlingKeepsAccounts ==
  ASSUME RestaurantTypeOK, AccountsInv, NEW t \in Tabs, NEW cash \in BOOLEAN, SettleReservation(t, cash)
  PROVE  AccountsInv'
<1>1. /\ \A o \in Orders : order[o].tab # t => order'[o] = order[o]
      /\ \A o \in Orders : order[o].tab = t =>
           RowIs(order'[o], "Pagado", order[o].stage, order[o].stay, order[o].tab, order[o].portal)
      /\ pass'[t] = [pass[t] EXCEPT !.payment = "paid"]
      /\ \A u \in Tabs \ {t} : pass'[u] = pass[u]
  BY Settles
<1>2. pass[t] \in PassRows /\ [pass[t] EXCEPT !.payment = "paid"].status = pass[t].status
  BY PassPaid DEF RestaurantTypeOK, TabStatuses
<1>3. \A u \in Tabs : pass'[u].status = pass[u].status
  BY <1>1, <1>2
<1>4. \A o \in Orders : /\ order[o].tab \in Tabs \cup {None} /\ order'[o].tab = order[o].tab
                        /\ order[o].tab = t => order'[o].status = "Pagado"
  BY <1>1, OrderFields DEF RestaurantTypeOK, RowIs
<1>5. \A o \in Orders : order'[o].tab # None => pass'[order'[o].tab].status # "absent"
  BY <1>3, <1>4 DEF AccountsInv
<1>6. ASSUME NEW u \in Tabs, pass'[u].payment = "paid", NEW o \in Orders, order'[o].tab = u
      PROVE  order'[o].status \in Ended
  <2>1. CASE u = t
    BY <1>4, <1>6, <2>1 DEF Ended
  <2>2. CASE u # t
    BY <1>1, <1>4, <1>6, <2>2 DEF AccountsInv, PaidTabIsPaidUp, Linked, Ended
  <2>3. QED
    BY <2>1, <2>2
<1>7. QED
  BY <1>5, <1>6 DEF AccountsInv, PaidTabIsPaidUp, Linked, Ended

LEMMA ZoneKeepsAccounts ==
  ASSUME RestaurantTypeOK, AccountsInv, ZoneStep, UNCHANGED restaurantVars
  PROVE  AccountsInv'
<1>1. ZoneTyped /\ UNCHANGED order /\ \A o \in Orders : order[o].tab \in Tabs \cup {None}
  BY OrderFields DEF RestaurantTypeOK, ZoneTyped, restaurantVars
<1>2. ZoneEffect
  BY <1>1, ZoneEffects
<1>3. \A t \in Tabs : pass[t].status # "absent" =>
        pass'[t].status # "absent" /\ pass'[t].payment = pass[t].payment
  <2>1. ASSUME NEW t \in Tabs, NEW r \in RulesInForce, Admission(t, r)
        PROVE  pass[t].status = "absent" /\ \A u \in Tabs \ {t} : pass'[u] = pass[u]
    BY <1>1, <2>1, Admits DEF Admission
  <2>2. QED
    BY <1>2, <2>1 DEF ZoneEffect, RemainsBooked
<1>4. \A o \in Orders : order'[o] = order[o]
                        /\ (order[o].tab # None => order[o].tab \in Tabs /\ pass[order[o].tab].status # "absent")
  BY <1>1 DEF AccountsInv
<1>5. \A t \in Tabs : t # None
  BY TabsAndStaysAreNotNone
<1>6. \A o \in Orders : order'[o].tab # None => pass'[order'[o].tab].status # "absent"
  BY <1>3, <1>4
<1>7. ASSUME NEW u \in Tabs, pass'[u].payment = "paid", NEW o \in Orders, order'[o].tab = u
      PROVE  order'[o].status \in Ended
  BY <1>3, <1>4, <1>5, <1>7 DEF AccountsInv, PaidTabIsPaidUp, Linked, Ended
<1>8. QED
  BY <1>6, <1>7 DEF AccountsInv, PaidTabIsPaidUp, Linked, Ended

LEMMA AccountsStep ==
  ASSUME "lines" \notin Commands, RestaurantTypeOK, AccountsInv, [RestaurantNext]_vars
  PROVE  AccountsInv'
<1>1. CASE OrderStep
  BY <1>1, OrdersLeaveAccounts, AccountsKeep
<1>2. CASE CustomerStep
  <2>1. ASSUME NEW o \in Orders, ReadToCancel(o) PROVE AccountsInv'
    <3>1. UNCHANGED pass /\ \A u \in Orders : LeavesAccounts(u)
      BY <2>1 DEF ReadToCancel, LeavesAccounts, amenityVars
    <3>2. QED
      BY <3>1, AccountsKeep
  <2>2. ASSUME NEW o \in Orders, CancelCustomerOrder(o) PROVE AccountsInv'
    <3>1. RowIs(order'[o], "Cancelado", order[o].stage, order[o].stay, order[o].tab, order[o].portal)
          /\ \A u \in Orders \ {o} : order'[u] = order[u]
      BY <2>2, Closes, StatusesInUse DEF CancelCustomerOrder
    <3>2. UNCHANGED pass
      BY <2>2 DEF CancelCustomerOrder, amenityVars
    <3>3. \A u \in Orders : LeavesAccounts(u)
      BY <3>1 DEF LeavesAccounts, RowIs, Ended
    <3>4. QED
      BY <3>2, <3>3, AccountsKeep
  <2>3. QED
    BY <1>2, <2>1, <2>2, CustomerKeepsAccounts DEF CustomerStep
<1>3. CASE TabStep
  BY <1>3, SettlingKeepsAccounts, ZoneKeepsAccounts DEF TabStep
<1>4. CASE StoreStep \/ LedgerStep \/ UNCHANGED vars
  <2>1. UNCHANGED pass /\ \A o \in Orders : LeavesAccounts(o)
    BY <1>4 DEF StoreStep, AdjustInventory, UpdateRecipe, LedgerStep, vars, amenityVars,
       restaurantVars, LeavesAccounts
  <2>2. QED
    BY <2>1, AccountsKeep
<1>5. QED
  BY <1>1, <1>2, <1>3, <1>4 DEF RestaurantNext, LineStep

LEMMA AccountsInit == RestaurantInit => AccountsInv
<1> SUFFICES ASSUME RestaurantInit PROVE AccountsInv
  OBVIOUS
<1>1. \A o \in Orders : order[o].tab = None
  BY Zenon, NoOrderFields DEF RestaurantInit, RowIs
<1>2. \A t \in Tabs : pass[t].payment # "paid"
  BY DEF RestaurantInit, AmenityInit, NoPass
<1>3. QED
  BY <1>1, <1>2 DEF AccountsInv, PaidTabIsPaidUp

(* Where orders are advanced as a whole, an account that was settled leaves no
   order that is still to be paid, whoever booked, ordered, cancelled and paid in
   between.  An order advanced line by line can come back after it was cancelled,
   on an account that was settled. *)
THEOREM SettledAccountsAreClear ==
  ASSUME "lines" \notin Commands
  PROVE  RestaurantSpec => []PaidTabIsPaidUp
<1>1. RestaurantInit => RestaurantTypeOK /\ AccountsInv
  BY RestaurantInitTyped, AccountsInit
<1>2. RestaurantTypeOK /\ AccountsInv /\ [RestaurantNext]_vars => RestaurantTypeOK' /\ AccountsInv'
  BY StepTyped, AccountsStep
<1>3. AccountsInv => PaidTabIsPaidUp
  BY DEF AccountsInv
<1>4. QED
  BY <1>1, <1>2, <1>3, PTL DEF RestaurantSpec

-----------------------------------------------------------------------------
(* Where orders are advanced as a whole, by the staff, the status of an order
   tells what was done to the stock for it. *)
WholeOrders == Commands \cap {"lines", "customer"} = {}

StageOfStatus(o) ==
  LET st == order[o].status IN
  /\ st \in {"absent", "Pedido recibido", "Confirmado"} => order[o].stage = "Sin reservar"
  /\ st = "En preparacion" => order[o].stage = "Reservado"
  /\ IsServed(o) => order[o].stage = "Consumido"
  /\ order[o].tab = None

(* An order that is cancelled gives back what was held for it, and what it took stays taken. *)
PostedForStage(o) ==
  /\ posted[o]["Reserva"] = IF order[o].stage = "Sin reservar" THEN 0 ELSE Required
  /\ posted[o]["Consumo"] = IF order[o].stage = "Consumido" THEN Required ELSE 0
  /\ posted[o]["Devolucion"] =
       IF order[o].stage = "Reservado" /\ order[o].status = "Cancelado" THEN Required ELSE 0

Holding == \A o \in Orders : StageOfStatus(o) /\ PostedForStage(o)
ReservedAddsUp == reserved = SumFunctionOnSet([o \in Orders |-> Held(o)], Orders)

LEMMA HeldIsWhatItTakes ==
  ASSUME RestaurantTypeOK, Holding
  PROVE  \A o \in Orders :
           Held(o) \in Nat /\ Held(o) = IF order[o].status = "En preparacion" THEN Required ELSE 0
<1>1. Required \in Nat
  BY RequiredType DEF RestaurantTypeOK
<1>2. SUFFICES ASSUME NEW o \in Orders
               PROVE  Held(o) = IF order[o].status = "En preparacion" THEN Required ELSE 0
  <2>1. (Required \in Nat) /\ 0 \in Nat
    BY <1>1
  <2>2. QED
    BY Zenon, <1>2, <2>1
<1>3. StageOfStatus(o) /\ PostedForStage(o) /\ order[o].stage \in Stages /\ order[o].status \in OrderStatuses
  BY OrderFields DEF Holding, RestaurantTypeOK
<1>4. CASE order[o].stage = "Sin reservar"
  <2>1. order[o].status # "En preparacion"
    BY Zenon, <1>3, <1>4 DEF StageOfStatus
  <2>2. posted[o]["Reserva"] = 0 /\ posted[o]["Consumo"] = 0 /\ posted[o]["Devolucion"] = 0
    BY Zenon, <1>3, <1>4 DEF PostedForStage
  <2>3. Held(o) = 0
    BY <2>2 DEF Held
  <2>4. QED
    BY Zenon, <2>1, <2>3
<1>5. CASE order[o].stage = "Consumido"
  <2>1. order[o].status # "En preparacion"
    BY Zenon, <1>3, <1>5 DEF StageOfStatus
  <2>2. posted[o]["Reserva"] = Required /\ posted[o]["Consumo"] = Required /\ posted[o]["Devolucion"] = 0
    BY Zenon, <1>3, <1>5 DEF PostedForStage
  <2>3. Held(o) = 0
    BY <1>1, <2>2 DEF Held
  <2>4. QED
    BY Zenon, <2>1, <2>3
<1>6. CASE order[o].stage = "Reservado"
  <2>1. order[o].status = "En preparacion" \/ order[o].status = "Cancelado"
    BY <1>3, <1>6, StatusesInUse DEF StageOfStatus, IsServed
  <2>2. CASE order[o].status = "En preparacion"
    <3>1. posted[o]["Reserva"] = Required /\ posted[o]["Consumo"] = 0 /\ posted[o]["Devolucion"] = 0
      BY <1>3, <1>6, <2>2 DEF PostedForStage
    <3>2. Held(o) = Required
      BY <1>1, <3>1 DEF Held
    <3>3. QED
      BY Zenon, <2>2, <3>2
  <2>3. CASE order[o].status = "Cancelado"
    <3>1. posted[o]["Reserva"] = Required /\ posted[o]["Consumo"] = 0 /\ posted[o]["Devolucion"] = Required
      BY <1>3, <1>6, <2>3 DEF PostedForStage
    <3>2. Held(o) = 0 /\ order[o].status # "En preparacion"
      BY <1>1, <2>3, <3>1 DEF Held
    <3>3. QED
      BY Zenon, <3>2
  <2>4. QED
    BY <2>1, <2>2, <2>3
<1>7. QED
  BY <1>3, <1>4, <1>5, <1>6 DEF Stages

HeldAreNumbers == \A o \in Orders : Held(o) \in Nat

LEMMA HeldType == RestaurantTypeOK /\ Holding => HeldAreNumbers
  BY HeldIsWhatItTakes DEF HeldAreNumbers

LEMMA HeldLater == RestaurantTypeOK' /\ Holding' => HeldAreNumbers'
  BY HeldType, PTL

(* One order holds more, or less: the sum of what is held moves with it. *)
LEMMA HeldSumMoves ==
  ASSUME NEW f, NEW g, NEW o \in Orders, \A u \in Orders : f[u] \in Nat /\ g[u] \in Nat,
         \A u \in Orders \ {o} : g[u] = f[u]
  PROVE  /\ SumFunctionOnSet(g, Orders) = SumFunctionOnSet(f, Orders) + (g[o] - f[o])
         /\ SumFunctionOnSet(f, Orders) \in Nat /\ f[o] <= SumFunctionOnSet(f, Orders)
<1> DEFINE rest == Orders \ {o}
<1>1. IsFiniteSet(Orders) /\ IsFiniteSet(rest)
  BY OrdersAreFinite, FS_Subset
<1>2. /\ SumFunctionOnSet(f, Orders) = f[o] + SumFunctionOnSet(f, rest)
      /\ SumFunctionOnSet(g, Orders) = g[o] + SumFunctionOnSet(g, rest)
  BY <1>1, SumWithout
<1>3. SumFunctionOnSet(f, rest) = SumFunctionOnSet(g, rest)
  BY <1>1, SumSame
<1>4. SumFunctionOnSet(f, rest) \in Nat
  BY <1>1, SumIsNatural
<1> HIDE DEF rest
<1>5. QED
  BY <1>2, <1>3, <1>4

ReservedEffect ==
  \/ UNCHANGED <<reserved, posted>>
  \/ \E o \in Orders : ReserveInventory(o)
  \/ \E o \in Orders : Held(o) = Required /\ (ConsumeInventory(o) \/ ReleaseInventory(o))

LEMMA ReservedStaysUp ==
  ASSUME RestaurantTypeOK, RestaurantTypeOK', Holding, Holding', ReservedAddsUp, ReservedEffect
  PROVE  ReservedAddsUp'
<1> DEFINE f == [o \in Orders |-> Held(o)]
           g == [o \in Orders |-> Held(o)']
<1>1. /\ reserved = SumFunctionOnSet(f, Orders)
      /\ ReservedAddsUp' <=> reserved' = SumFunctionOnSet(g, Orders)
  BY DEF ReservedAddsUp
<1>2. \A u \in Orders : f[u] = Held(u) /\ g[u] = Held(u)' /\ f[u] \in Nat /\ g[u] \in Nat
  <2>1. \A u \in Orders : Held(u) \in Nat
    BY HeldIsWhatItTakes
  <2>2. \A u \in Orders : Held(u)' \in Nat
    BY HeldLater DEF HeldAreNumbers
  <2>3. QED
    BY <2>1, <2>2
<1>3. Required \in Nat /\ posted \in [Orders -> [Postings -> Nat]]
      /\ "Reserva" \in Postings /\ "Consumo" \in Postings /\ "Devolucion" \in Postings
  BY RequiredType DEF RestaurantTypeOK, Postings
<1> HIDE DEF f, g
<1>4. CASE UNCHANGED <<reserved, posted>>
  <2>1. \A u \in Orders : f[u] = g[u]
    BY <1>2, <1>4 DEF Held
  <2>2. QED
    BY <1>1, <1>4, <2>1, OrdersAreFinite, SumSame
<1>5. ASSUME NEW o \in Orders, NEW p \in Postings, Post(o, p)
      PROVE  /\ \A u \in Orders \ {o} : g[u] = f[u]
             /\ g[o] = IF p = "Reserva" THEN f[o] + Required ELSE f[o] - Required
  <2>1. /\ \A u \in Orders, q \in Postings : u # o \/ q # p => posted'[u][q] = posted[u][q]
        /\ posted'[o][p] = posted[o][p] + Required
    BY <1>5, PostedElsewhere
  <2>2. \A u \in Orders \ {o} : g[u] = f[u]
    BY <1>2, <1>3, <2>1 DEF Held
  <2>3. \A q \in Postings : posted[o][q] \in Nat
    BY <1>3
  <2>4. /\ f[o] = posted[o]["Reserva"] - posted[o]["Consumo"] - posted[o]["Devolucion"]
        /\ g[o] = posted'[o]["Reserva"] - posted'[o]["Consumo"] - posted'[o]["Devolucion"]
    BY <1>2 DEF Held
  <2>5. p = "Reserva" \/ p = "Consumo" \/ p = "Devolucion"
    BY DEF Postings
  <2>6. CASE p = "Reserva"
    BY <1>3, <2>1, <2>2, <2>3, <2>4, <2>6
  <2>7. CASE p = "Consumo"
    BY <1>3, <2>1, <2>2, <2>3, <2>4, <2>7
  <2>8. CASE p = "Devolucion"
    BY <1>3, <2>1, <2>2, <2>3, <2>4, <2>8
  <2>9. QED
    BY <2>5, <2>6, <2>7, <2>8
<1>6. ASSUME NEW o \in Orders, ReserveInventory(o)
      PROVE  ReservedAddsUp'
  <2>1. reserved' = reserved + Required /\ Post(o, "Reserva")
    BY <1>6 DEF ReserveInventory
  <2>2. (\A u \in Orders \ {o} : g[u] = f[u]) /\ g[o] = f[o] + Required
    BY <1>3, <1>5, <2>1
  <2>3. SumFunctionOnSet(g, Orders) = SumFunctionOnSet(f, Orders) + (g[o] - f[o])
        /\ SumFunctionOnSet(f, Orders) \in Nat
    BY <1>2, <2>2, HeldSumMoves
  <2>4. QED
    BY <1>1, <1>2, <1>3, <2>1, <2>2, <2>3
<1>7. ASSUME NEW o \in Orders, Held(o) = Required, ConsumeInventory(o) \/ ReleaseInventory(o)
      PROVE  ReservedAddsUp'
  <2>1. reserved' = AtLeastZero(reserved - Required) /\ (Post(o, "Consumo") \/ Post(o, "Devolucion"))
    BY <1>7 DEF ConsumeInventory, ReleaseInventory
  <2>2. (\A u \in Orders \ {o} : g[u] = f[u]) /\ g[o] = f[o] - Required
    BY <1>3, <1>5, <2>1
  <2>3. /\ SumFunctionOnSet(g, Orders) = SumFunctionOnSet(f, Orders) + (g[o] - f[o])
        /\ SumFunctionOnSet(f, Orders) \in Nat /\ f[o] <= SumFunctionOnSet(f, Orders)
    BY <1>2, <2>2, HeldSumMoves
  <2>4. f[o] = Required
    BY <1>2, <1>7
  <2>5. QED
    BY <1>1, <1>2, <1>3, <2>1, <2>2, <2>3, <2>4 DEF AtLeastZero
<1>8. QED
  BY <1>4, <1>6, <1>7 DEF ReservedEffect

LEMMA HoldingOfOne ==
  ASSUME Holding, UNCHANGED recipe, NEW o \in Orders,
         \A u \in Orders \ {o} : order'[u] = order[u] /\ posted'[u] = posted[u],
         NEW st, NEW stage, order'[o].status = st, order'[o].stage = stage, order'[o].tab = None,
         st \in {"absent", "Pedido recibido", "Confirmado"} => stage = "Sin reservar",
         st = "En preparacion" => stage = "Reservado",
         st \in {"Listo", "Entregado", "Pagado"} => stage = "Consumido",
         posted'[o]["Reserva"] = IF stage = "Sin reservar" THEN 0 ELSE Required,
         posted'[o]["Consumo"] = IF stage = "Consumido" THEN Required ELSE 0,
         posted'[o]["Devolucion"] = IF stage = "Reservado" /\ st = "Cancelado" THEN Required ELSE 0
  PROVE  Holding'
<1>1. Required' = Required
  BY DEF Required
<1>2. ASSUME NEW u \in Orders \ {o}
      PROVE  (StageOfStatus(u) /\ PostedForStage(u))'
  <2>1. order'[u] = order[u] /\ posted'[u] = posted[u] /\ StageOfStatus(u) /\ PostedForStage(u)
    BY DEF Holding
  <2>2. StageOfStatus(u)'
    BY Zenon, <2>1 DEF StageOfStatus, IsServed
  <2>3. PostedForStage(u)'
    BY Zenon, <1>1, <2>1 DEF PostedForStage
  <2>4. QED
    BY <2>2, <2>3
<1>3. StageOfStatus(o)'
  BY Zenon DEF StageOfStatus, IsServed
<1>4. PostedForStage(o)'
  BY Zenon, <1>1 DEF PostedForStage
<1>5. QED
  BY <1>2, <1>3, <1>4 DEF Holding

LEMMA AdvanceHolds ==
  ASSUME RestaurantTypeOK, Holding, NEW o \in Orders, AdvanceOrder(o)
  PROVE  Holding' /\ ReservedEffect
<1> DEFINE Goal == Holding' /\ ReservedEffect
           As(st, stage) == /\ order'[o].status = st /\ order'[o].stage = stage
                            /\ order'[o].tab = order[o].tab
                            /\ \A u \in Orders \ {o} : order'[u] = order[u]
<1>1. \A st \in OrderStatuses, stage \in Stages : MoveTo(o, st, stage) => As(st, stage)
  BY Moves DEF RowIs
<1>2. StageOfStatus(o) /\ PostedForStage(o) /\ order[o].tab = None /\ UNCHANGED recipe
  BY DEF Holding, StageOfStatus, AdvanceOrder
<1>3. "Sin reservar" \in Stages /\ "Reservado" \in Stages /\ "Consumido" \in Stages
  BY DEF Stages
<1>4. Required \in Nat /\ 0 + Required = Required
  BY RequiredType DEF RestaurantTypeOK
<1>5. "Reserva" \in Postings /\ "Consumo" \in Postings /\ "Devolucion" \in Postings
  BY DEF Postings
<1> HIDE DEF As
<1>6. InventoryAsItIs => UNCHANGED <<reserved, posted>> /\ ReservedEffect
  BY DEF InventoryAsItIs, ReservedEffect
<1>7. ASSUME Confirm(o) PROVE Goal
  <2>1. order[o].stage = "Sin reservar" /\ order[o].status = "Pedido recibido"
    BY Zenon, <1>2, <1>7 DEF Confirm, StageOfStatus
  <2>2. As("Confirmado", "Sin reservar")
    BY Zenon, <1>1, <1>3, <1>7, <2>1, StatusesInUse DEF Confirm
  <2>3. posted[o]["Reserva"] = 0 /\ posted[o]["Consumo"] = 0 /\ posted[o]["Devolucion"] = 0
    BY Zenon, <1>2, <2>1 DEF PostedForStage
  <2>4. UNCHANGED <<reserved, posted>> /\ ReservedEffect
    BY <1>6, <1>7 DEF Confirm
  <2>5. Holding'
    BY <1>2, <2>2, <2>3, <2>4, HoldingOfOne DEF As
  <2>6. QED
    BY <2>4, <2>5
<1>8. ASSUME StartPreparing(o) PROVE Goal
  <2>1. order[o].stage = "Sin reservar" /\ order[o].status = "Confirmado"
    BY Zenon, <1>2, <1>8 DEF StartPreparing, StageOfStatus
  <2>2. ReserveInventory(o) /\ MoveTo(o, "En preparacion", "Reservado")
    BY Zenon, <1>8, <2>1 DEF StartPreparing
  <2>3. As("En preparacion", "Reservado")
    BY Zenon, <1>1, <1>3, <2>2, StatusesInUse
  <2>4. posted[o]["Reserva"] = 0 /\ posted[o]["Consumo"] = 0 /\ posted[o]["Devolucion"] = 0
    BY Zenon, <1>2, <2>1 DEF PostedForStage
  <2>5. Post(o, "Reserva")
    BY <2>2 DEF ReserveInventory
  <2>6. posted'[o]["Reserva"] = Required /\ posted'[o]["Consumo"] = 0 /\ posted'[o]["Devolucion"] = 0
        /\ \A u \in Orders \ {o} : posted'[u] = posted[u]
    <3>1. \A u \in Orders \ {o} : posted'[u] = posted[u]
      BY <1>5, <2>5, Posts
    <3>2. /\ \A q \in Postings : q # "Reserva" => posted'[o][q] = posted[o][q]
          /\ posted'[o]["Reserva"] = posted[o]["Reserva"] + Required
      BY <1>5, <2>5, PostedElsewhere
    <3>3. QED
      BY <1>4, <1>5, <2>4, <3>1, <3>2
  <2>7. Holding'
    BY <1>2, <2>3, <2>6, HoldingOfOne DEF As
  <2>8. QED
    BY <2>2, <2>7 DEF ReservedEffect
<1>9. ASSUME FinishPreparing(o) PROVE Goal
  <2>1. order[o].stage = "Reservado" /\ order[o].status = "En preparacion"
    BY Zenon, <1>2, <1>9 DEF FinishPreparing, StageOfStatus
  <2>2. ConsumeInventory(o) /\ MoveTo(o, "Listo", "Consumido")
    BY Zenon, <1>9, <2>1 DEF FinishPreparing
  <2>3. As("Listo", "Consumido")
    BY Zenon, <1>1, <1>3, <2>2, StatusesInUse
  <2>4. posted[o]["Reserva"] = Required /\ posted[o]["Consumo"] = 0 /\ posted[o]["Devolucion"] = 0
    BY Zenon, <1>2, <2>1 DEF PostedForStage
  <2>5. Post(o, "Consumo")
    BY <2>2 DEF ConsumeInventory
  <2>6. posted'[o]["Reserva"] = Required /\ posted'[o]["Consumo"] = Required /\ posted'[o]["Devolucion"] = 0
        /\ \A u \in Orders \ {o} : posted'[u] = posted[u]
    <3>1. \A u \in Orders \ {o} : posted'[u] = posted[u]
      BY <1>5, <2>5, Posts
    <3>2. /\ \A q \in Postings : q # "Consumo" => posted'[o][q] = posted[o][q]
          /\ posted'[o]["Consumo"] = posted[o]["Consumo"] + Required
      BY <1>5, <2>5, PostedElsewhere
    <3>3. QED
      BY <1>4, <1>5, <2>4, <3>1, <3>2
  <2>7. Holding'
    BY <1>2, <2>3, <2>6, HoldingOfOne DEF As
  <2>8. Held(o) = Required
    BY Zenon, <2>1, HeldIsWhatItTakes
  <2>9. QED
    BY <2>2, <2>7, <2>8 DEF ReservedEffect
<1>10. ASSUME Deliver(o) \/ PayOrder(o) PROVE Goal
  <2>1. order[o].stage = "Consumido" /\ InventoryAsItIs
    BY Zenon, <1>2, <1>10 DEF Deliver, PayOrder, StageOfStatus, IsServed
  <2>2. PICK st \in {"Entregado", "Pagado"} : MoveTo(o, st, order[o].stage)
    BY Zenon, <1>10 DEF Deliver, PayOrder
  <2>3. As(st, "Consumido")
    BY <1>1, <1>3, <2>1, <2>2, StatusesInUse
  <2>4. posted[o]["Reserva"] = Required /\ posted[o]["Consumo"] = Required /\ posted[o]["Devolucion"] = 0
    BY Zenon, <1>2, <2>1 DEF PostedForStage
  <2>5. UNCHANGED <<reserved, posted>> /\ ReservedEffect
    BY <1>6, <2>1
  <2>6. Holding'
    BY <1>2, <2>3, <2>4, <2>5, HoldingOfOne DEF As
  <2>7. QED
    BY <2>5, <2>6
<1>11. QED
  BY <1>7, <1>8, <1>9, <1>10 DEF AdvanceOrder

LEMMA OrderHolds ==
  ASSUME RestaurantTypeOK, Holding, OrderStep
  PROVE  Holding' /\ ReservedEffect
<1> DEFINE Goal == Holding' /\ ReservedEffect
<1>1. Required \in Nat /\ 0 + Required = Required /\ UNCHANGED recipe
  <2>1. Required \in Nat /\ 0 + Required = Required
    BY RequiredType DEF RestaurantTypeOK
  <2>2. \A o \in Orders :
          /\ AdvanceOrder(o) \/ CancelOrder(o) => recipe' = recipe
          /\ \A s \in Stays \cup {None} : CreateOrder(o, s) \/ UpdateOrder(o, s) => recipe' = recipe
    BY DEF CreateOrder, UpdateOrder, AdvanceOrder, CancelOrder
  <2>3. recipe' = recipe
    BY Zenon, <2>2 DEF OrderStep
  <2>4. QED
    BY <2>1, <2>3
<1>2. "Reserva" \in Postings /\ "Consumo" \in Postings /\ "Devolucion" \in Postings
  BY DEF Postings
<1>3. ASSUME NEW o \in Orders, order'[o].status = order[o].status, order'[o].stage = order[o].stage,
             order'[o].tab = order[o].tab, \A u \in Orders \ {o} : order'[u] = order[u],
             UNCHANGED <<reserved, posted>>
      PROVE  Goal
  <2>1. StageOfStatus(o) /\ PostedForStage(o)
    BY DEF Holding
  <2>2. StageOfStatus(o)' /\ PostedForStage(o)'
    <3>1. posted'[o] = posted[o] /\ Required' = Required
      BY <1>1, <1>3 DEF Required
    <3>2. QED
      BY Zenon, <1>3, <2>1, <3>1 DEF StageOfStatus, PostedForStage, IsServed
  <2>3. \A u \in Orders \ {o} : StageOfStatus(u)' /\ PostedForStage(u)'
    <3>1. SUFFICES ASSUME NEW u \in Orders \ {o} PROVE StageOfStatus(u)' /\ PostedForStage(u)'
      OBVIOUS
    <3>2. posted'[u] = posted[u] /\ Required' = Required /\ order'[u] = order[u]
          /\ StageOfStatus(u) /\ PostedForStage(u)
      BY <1>1, <1>3 DEF Required, Holding
    <3>3. QED
      BY Zenon, <3>2 DEF StageOfStatus, PostedForStage, IsServed
  <2>4. QED
    BY <1>3, <2>2, <2>3 DEF Holding, ReservedEffect
<1>4. ASSUME NEW o \in Orders, NEW s \in Stays \cup {None}, CreateOrder(o, s)
      PROVE  Goal
  <2>1. /\ Created(s, None, FALSE) \in OrderRows
        /\ RowIs(Created(s, None, FALSE), "Pedido recibido", "Sin reservar", s, None, FALSE)
    <3> FALSE \in BOOLEAN /\ None \in Tabs \cup {None}
      OBVIOUS
    <3> QED
      BY Zenon, CreatedRow
  <2>2. order'[o] = Created(s, None, FALSE) /\ \A u \in Orders \ {o} : order'[u] = order[u]
    BY <1>4, <2>1, BecomesTyped DEF CreateOrder, RowBecomes
  <2>3. order'[o].status = "Pedido recibido" /\ order'[o].stage = "Sin reservar" /\ order'[o].tab = None
    BY Zenon, <2>1, <2>2 DEF RowIs
  <2>4. UNCHANGED <<reserved, posted>>
    BY <1>4 DEF CreateOrder
  <2>5. posted[o]["Reserva"] = 0 /\ posted[o]["Consumo"] = 0 /\ posted[o]["Devolucion"] = 0
    <3>1. StageOfStatus(o) /\ PostedForStage(o) /\ order[o].status = "absent"
      BY <1>4 DEF Holding, CreateOrder, Exists
    <3>2. QED
      BY Zenon, <3>1 DEF StageOfStatus, PostedForStage
  <2>6. Holding'
    BY <1>1, <2>2, <2>3, <2>4, <2>5, HoldingOfOne
  <2>7. QED
    BY <2>4, <2>6 DEF ReservedEffect
<1>5. ASSUME NEW o \in Orders, NEW s \in Stays \cup {None}, UpdateOrder(o, s)
      PROVE  Goal
  <2>1. RowIs(order'[o], order[o].status, order[o].stage, s, order[o].tab, order[o].portal)
        /\ \A u \in Orders \ {o} : order'[u] = order[u]
    BY <1>5, GoesToStay DEF UpdateOrder
  <2>2. UNCHANGED <<reserved, posted>>
    BY <1>5 DEF UpdateOrder
  <2>3. order'[o].status = order[o].status /\ order'[o].stage = order[o].stage
        /\ order'[o].tab = order[o].tab
    BY Zenon, <2>1 DEF RowIs
  <2>4. QED
    BY <1>3, <2>1, <2>2, <2>3
<1>6. ASSUME NEW o \in Orders, CancelOrder(o)
      PROVE  Goal
  <2>1. RowIs(order'[o], "Cancelado", order[o].stage, order[o].stay, order[o].tab, order[o].portal)
        /\ \A u \in Orders \ {o} : order'[u] = order[u]
    BY <1>6, Closes, StatusesInUse DEF CancelOrder
  <2>2. StageOfStatus(o) /\ PostedForStage(o) /\ order[o].tab = None
        /\ order[o].stage \in Stages /\ order[o].status \in OrderStatuses
    BY OrderFields DEF Holding, StageOfStatus, RestaurantTypeOK
  <2>3. order'[o].status = "Cancelado" /\ order'[o].stage = order[o].stage /\ order'[o].tab = None
    BY Zenon, <2>1, <2>2 DEF RowIs
  <2>4. CASE order[o].stage = "Reservado"
    <3>1. ReleaseInventory(o) /\ order[o].status # "Cancelado" /\ order[o].status # "absent"
      BY Zenon, <1>6, <2>4 DEF CancelOrder
    <3>2. order[o].status = "En preparacion"
      BY <2>2, <2>4, <3>1, StatusesInUse DEF StageOfStatus, IsServed
    <3>3. posted[o]["Reserva"] = Required /\ posted[o]["Consumo"] = 0 /\ posted[o]["Devolucion"] = 0
      BY <2>2, <2>4, <3>1 DEF PostedForStage
    <3>4. Post(o, "Devolucion")
      BY <3>1 DEF ReleaseInventory
    <3>5. posted'[o]["Reserva"] = Required /\ posted'[o]["Consumo"] = 0
          /\ posted'[o]["Devolucion"] = Required /\ \A u \in Orders \ {o} : posted'[u] = posted[u]
      <4>1. \A u \in Orders \ {o} : posted'[u] = posted[u]
        BY <1>2, <3>4, Posts
      <4>2. /\ \A q \in Postings : q # "Devolucion" => posted'[o][q] = posted[o][q]
            /\ posted'[o]["Devolucion"] = posted[o]["Devolucion"] + Required
        BY <1>2, <3>4, PostedElsewhere
      <4>3. QED
        BY <1>1, <1>2, <3>3, <4>1, <4>2
    <3>6. Holding'
      BY <1>1, <2>1, <2>3, <2>4, <3>5, HoldingOfOne
    <3>7. Held(o) = Required
      BY Zenon, <3>2, HeldIsWhatItTakes
    <3>8. QED
      BY <3>1, <3>6, <3>7 DEF ReservedEffect
  <2>5. CASE order[o].stage # "Reservado"
    <3>1. UNCHANGED <<reserved, posted>>
      BY <1>6, <2>5 DEF CancelOrder, InventoryAsItIs
    <3>2. posted'[o]["Reserva"] = IF order[o].stage = "Sin reservar" THEN 0 ELSE Required
      BY Zenon, <2>2, <3>1 DEF PostedForStage
    <3>3. posted'[o]["Consumo"] = IF order[o].stage = "Consumido" THEN Required ELSE 0
      BY Zenon, <2>2, <3>1 DEF PostedForStage
    <3>4. posted'[o]["Devolucion"] = 0
      BY Zenon, <2>2, <2>5, <3>1 DEF PostedForStage
    <3>5. Holding'
      BY <1>1, <2>1, <2>3, <2>5, <3>1, <3>2, <3>3, <3>4, HoldingOfOne
    <3>6. QED
      BY <3>1, <3>5 DEF ReservedEffect
  <2>6. QED
    BY <2>4, <2>5
<1>7. QED
  BY <1>4, <1>5, <1>6, AdvanceHolds DEF OrderStep

LEMMA StepHolds ==
  ASSUME WholeOrders, "recipes" \notin Commands, RestaurantTypeOK, Holding, [RestaurantNext]_vars
  PROVE  Holding' /\ ReservedEffect
<1>1. ASSUME UNCHANGED <<order, recipe, reserved, posted>>
      PROVE  Holding' /\ ReservedEffect
  BY <1>1 DEF Holding, StageOfStatus, IsServed, PostedForStage, Required, ReservedEffect
<1>2. CASE OrderStep
  BY <1>2, OrderHolds
<1>3. CASE TabStep
  <2>1. ASSUME NEW t \in Tabs, NEW cash \in BOOLEAN, SettleReservation(t, cash)
        PROVE  UNCHANGED <<order, recipe, reserved, posted>>
    <3>1. \A o \in Orders : order[o].tab = None
      BY DEF Holding, StageOfStatus
    <3>2. /\ \A o \in Orders : order[o].tab # t => order'[o] = order[o]
          /\ RestaurantTypeOK'
      BY Zenon, <2>1, Settles
    <3>3. \A o \in Orders : order'[o] = order[o]
      BY <3>1, <3>2, TabsAndStaysAreNotNone
    <3>4. order \in [Orders -> OrderRows] /\ order' \in [Orders -> OrderRows]
      BY <3>2 DEF RestaurantTypeOK
    <3>5. order' = order
      BY <3>3, <3>4
    <3>6. QED
      BY <2>1, <3>5 DEF SettleReservation
  <2>2. QED
    BY <1>1, <1>3, <2>1 DEF TabStep, restaurantVars
<1>4. CASE StoreStep \/ LedgerStep \/ UNCHANGED vars
  BY <1>1, <1>4 DEF StoreStep, AdjustInventory, LedgerStep, vars, restaurantVars
<1>5. QED
  BY <1>2, <1>3, <1>4 DEF RestaurantNext, LineStep, CustomerStep, WholeOrders

HoldingInv == RestaurantTypeOK /\ Holding /\ ReservedAddsUp

LEMMA HoldingStep ==
  ASSUME WholeOrders, "recipes" \notin Commands, HoldingInv, [RestaurantNext]_vars
  PROVE  HoldingInv'
<1>1. RestaurantTypeOK' /\ Holding' /\ ReservedEffect
  BY StepTyped, StepHolds DEF HoldingInv
<1>2. QED
  BY <1>1, ReservedStaysUp DEF HoldingInv

LEMMA RestockHolds ==
  ASSUME HoldingInv, NEW q \in Nat, Restocks(q)
  PROVE  HoldingInv'
<1>1. RestaurantTypeOK'
  BY RestockTyped DEF HoldingInv
<1>2. Holding' /\ ReservedEffect
  BY DEF HoldingInv, Restocks, Holding, StageOfStatus, IsServed, PostedForStage, Required, ReservedEffect
<1>3. QED
  BY <1>1, <1>2, ReservedStaysUp DEF HoldingInv

LEMMA HoldingInit == RestaurantInit => HoldingInv
<1> SUFFICES ASSUME RestaurantInit PROVE HoldingInv
  OBVIOUS
<1>1. RestaurantTypeOK
  BY RestaurantInitTyped
<1>2. /\ \A o \in Orders : order[o] = NoOrder
      /\ \A o \in Orders, p \in Postings : posted[o][p] = 0
      /\ reserved = 0
  BY DEF RestaurantInit
<1>3. "Reserva" \in Postings /\ "Consumo" \in Postings /\ "Devolucion" \in Postings
  BY DEF Postings
<1>4. \A o \in Orders : StageOfStatus(o) /\ PostedForStage(o)
  <2>1. SUFFICES ASSUME NEW o \in Orders PROVE StageOfStatus(o) /\ PostedForStage(o)
    OBVIOUS
  <2>2. order[o].status = "absent" /\ order[o].stage = "Sin reservar" /\ order[o].tab = None
    BY Zenon, <1>2, NoOrderFields DEF RowIs
  <2>3. "absent" \notin {"Listo", "Entregado", "Pagado"} /\ "absent" # "En preparacion"
        /\ "Sin reservar" # "Reservado" /\ "Sin reservar" # "Consumido"
    OBVIOUS
  <2>4. StageOfStatus(o)
    BY Zenon, <2>2, <2>3 DEF StageOfStatus, IsServed
  <2>5. posted[o]["Reserva"] = 0 /\ posted[o]["Consumo"] = 0 /\ posted[o]["Devolucion"] = 0
    BY <1>2, <1>3
  <2>6. PostedForStage(o)
    BY Zenon, <2>2, <2>3, <2>5 DEF PostedForStage
  <2>7. QED
    BY <2>4, <2>6
<1>5. ReservedAddsUp
  <2> DEFINE f == [o \in Orders |-> Held(o)]
  <2>1. \A o \in Orders : f[o] = 0
    BY <1>2, <1>3 DEF Held
  <2> HIDE DEF f
  <2>2. SumFunctionOnSet(f, Orders) = 0
    BY <2>1, OrdersAreFinite, SumOfZeros
  <2>3. QED
    BY <1>2, <2>2 DEF ReservedAddsUp, f
<1>6. QED
  BY <1>1, <1>4, <1>5 DEF HoldingInv, Holding

LEMMA HeldSum == MapThenSumSet(Held, Orders) = SumFunctionOnSet([o \in Orders |-> Held(o)], Orders)
  BY DEF SumFunctionOnSet, FoldFunctionOnSet, MapThenFoldSet, MapThenSumSet

LEMMA HoldingSays == HoldingInv => ReservedIsHeld /\ ServedWasConsumed
<1> SUFFICES ASSUME HoldingInv PROVE ReservedIsHeld /\ ServedWasConsumed
  OBVIOUS
<1>1. reserved = MapThenSumSet(Held, Orders)
  BY HeldSum DEF HoldingInv, ReservedAddsUp
<1>2. \A o \in Orders : Held(o) = IF order[o].status = "En preparacion" THEN Required ELSE 0
  BY Zenon, HeldIsWhatItTakes DEF HoldingInv
<1>3. \A o \in Orders : IsServed(o) => posted[o]["Consumo"] = Required
  BY Zenon DEF HoldingInv, Holding, StageOfStatus, PostedForStage
<1>4. QED
  BY Zenon, <1>1, <1>2, <1>3 DEF ReservedIsHeld, ServedWasConsumed

(* Where orders are advanced as a whole, by the staff, and the recipe stays as it
   is: what the item says is reserved is what the orders in preparation take, and
   whatever was served was taken from the stock; however orders are cancelled, the
   stock is corrected and deliveries arrive.  Each of the conditions is needed: a
   line that is advanced by itself, a customer's late cancellation and a change of
   the recipe each break it. *)
THEOREM StockIsHeldForOrders ==
  ASSUME WholeOrders, "recipes" \notin Commands
  PROVE  /\ RestaurantSpec => [](ReservedIsHeld /\ ServedWasConsumed)
         /\ StoreSpec => [](ReservedIsHeld /\ ServedWasConsumed)
<1>1. HoldingInv => ReservedIsHeld /\ ServedWasConsumed
  BY HoldingSays
<1>2. RestaurantInit => HoldingInv
  BY HoldingInit
<1>3. HoldingInv /\ [RestaurantNext]_vars => HoldingInv'
  BY HoldingStep
<1>4. StoreInit => StoreInv /\ HoldingInv
  BY StoreInitTyped, HoldingInit DEF StoreInit
<1>5. StoreInv /\ HoldingInv /\ [StoreNext]_allVars => StoreInv' /\ HoldingInv'
  BY StoreSteps, StoreStepTyped, HoldingStep, RestockHolds
<1>6. RestaurantSpec => [](ReservedIsHeld /\ ServedWasConsumed)
  BY <1>1, <1>2, <1>3, PTL DEF RestaurantSpec
<1>7. StoreSpec => [](ReservedIsHeld /\ ServedWasConsumed)
  BY <1>1, <1>4, <1>5, PTL DEF StoreSpec
<1>8. QED
  BY <1>6, <1>7

(* Of these the kitchen's half: no order is served whose stock was not consumed. *)
COROLLARY ServedOrdersWereConsumed ==
  ASSUME WholeOrders, "recipes" \notin Commands
  PROVE  RestaurantSpec => []ServedWasConsumed
<1>1. RestaurantSpec => [](ReservedIsHeld /\ ServedWasConsumed)
  BY StockIsHeldForOrders
<1>2. QED
  BY <1>1, PTL

-----------------------------------------------------------------------------
(* Where orders are advanced as a whole, by the staff, the key of an order's charge
   is used once it was delivered to its stay, and not before; only the desk or the
   order's own cancellation reverses that charge. *)
ChargeSound(o) ==
  /\ order[o].tab = None
  /\ \A e \in entries : e.key = o =>
       /\ order[o].stay # None /\ e.stay = order[o].stay
       /\ order[o].status \in {"Entregado", "Cancelado"}
       /\ order[o].status = "Cancelado" => IsReversed(o)
  /\ order[o].status = "Entregado" /\ order[o].stay # None => KeyIsUsed(o)
  /\ \A e \in entries : e.reverses = o => e.key \in Keys \cup {UndoKey(o)}
  /\ KeyIsUsed(UndoKey(o)) => order[o].status = "Cancelado"
Charges == \A o \in Orders : ChargeSound(o)

(* What neither the order nor the new entry has to do with. *)
LEMMA OtherChargesKeep ==
  ASSUME Charges, NEW u \in Orders, order'[u] = order[u], NEW n, entries' = entries \cup {n},
         n.key # u, n.key # UndoKey(u), n.reverses = u => n.key \in Keys
  PROVE  ChargeSound(u)'
<1>1. ChargeSound(u)
  BY DEF Charges
<1>2. /\ KeyIsUsed(u)' <=> KeyIsUsed(u)
      /\ KeyIsUsed(UndoKey(u))' <=> KeyIsUsed(UndoKey(u))
      /\ IsReversed(u) => IsReversed(u)'
  BY DEF KeyIsUsed, IsReversed, UndoKey
<1>3. UndoKey(u)' = UndoKey(u)
  BY DEF UndoKey
<1>4. QED
  BY <1>1, <1>2, <1>3 DEF ChargeSound

(* An order that was not charged goes on without being charged. *)
LEMMA UnchargedKeeps ==
  ASSUME Charges, UNCHANGED entries, NEW o \in Orders, ~KeyIsUsed(o),
         \A u \in Orders \ {o} : order'[u] = order[u], order'[o].tab = None,
         order'[o].status = "Entregado" => order'[o].stay = None,
         order[o].status = "Cancelado" => order'[o].status = "Cancelado"
  PROVE  Charges'
<1>1. /\ \A k : (KeyIsUsed(k)' <=> KeyIsUsed(k)) /\ (IsReversed(k)' <=> IsReversed(k))
      /\ \A k : UndoKey(k)' = UndoKey(k)
  BY DEF KeyIsUsed, IsReversed, UndoKey
<1>2. ChargeSound(o)'
  BY <1>1 DEF Charges, ChargeSound, KeyIsUsed
<1>3. ASSUME NEW u \in Orders \ {o}
      PROVE  ChargeSound(u)'
  BY <1>1 DEF Charges, ChargeSound
<1>4. QED
  BY <1>2, <1>3 DEF Charges

LEMMA DeliveryCharges ==
  ASSUME RestaurantTypeOK, Charges, NEW o \in Orders, order[o].status = "Listo",
         NEW s \in Stays, NEW a \in Amounts, s = order[o].stay, PostSourceCharge(o, s, a),
         order'[o].status = "Entregado", order'[o].stay = s, order'[o].tab = None,
         \A u \in Orders \ {o} : order'[u] = order[u]
  PROVE  Charges'
<1> DEFINE n == NewEntry(o, s, "charge", a, FALSE)
<1>1. n.key = o /\ n.stay = s /\ n.reverses = None
  BY DEF NewEntry
<1>2. o \in Sources /\ \A u \in Orders : u \in Sources /\ u # None /\ UndoKey(u) # o
  BY KeysAreApart, KeysAreNotNone DEF Orders
<1>3. ~KeyIsUsed(o) /\ ~KeyIsUsed(UndoKey(o))
  BY DEF Charges, ChargeSound, KeyIsUsed
<1>4. entries' = entries \cup {n}
  BY <1>3 DEF PostSourceCharge, Append
<1> HIDE DEF n
<1>5. ASSUME NEW u \in Orders \ {o}
      PROVE  ChargeSound(u)'
  BY <1>1, <1>2, <1>4, OtherChargesKeep
<1>6. ChargeSound(o)'
  <2>1. UndoKey(o)' = UndoKey(o) /\ UndoKey(o) # o /\ o # None /\ s # None
    BY <1>2, TabsAndStaysAreNotNone DEF UndoKey
  <2>2. \A e \in entries' : e.key = o => e = n
    BY <1>3, <1>4 DEF KeyIsUsed
  <2>3. KeyIsUsed(o)' /\ ~KeyIsUsed(UndoKey(o))'
    BY <1>1, <1>3, <1>4, <2>1 DEF KeyIsUsed
  <2>4. \A e \in entries' : e.reverses = o => e.key \in Keys \cup {UndoKey(o)}
    BY <1>1, <1>4, <2>1 DEF Charges, ChargeSound
  <2>5. QED
    BY <1>1, <2>1, <2>2, <2>3, <2>4 DEF ChargeSound
<1>7. QED
  BY <1>5, <1>6 DEF Charges

LEMMA CancellingReverses ==
  ASSUME RestaurantTypeOK, LedgerTypeOK, Charges, NEW o \in Orders, order[o].status = "Entregado",
         CancelSourceCharge(o), order'[o].status = "Cancelado", order'[o].stay = order[o].stay,
         order'[o].tab = None, \A u \in Orders \ {o} : order'[u] = order[u]
  PROVE  Charges'
<1> DEFINE e == EntryOf(o)
           k == UndoKey(o)
           n == ReversalOf(k, e)
<1>1. e \in entries /\ e.key = o
  BY DEF CancelSourceCharge, KeyIsUsed, EntryOf
<1>2. \A u \in Orders : /\ u \in Sources /\ UndoKey(u) \in EntryKeys /\ k # u
                        /\ k = UndoKey(u) => u = o
  BY KeysAreApart, EntryKeysHold DEF Orders, UndoKey
<1>3. n.key = k /\ n.reverses = o
  <2>1. k \in EntryKeys
    BY <1>2
  <2> HIDE DEF e, k
  <2>2. ReversalOf(k, e) = [key |-> k, stay |-> e.stay, type |-> "reversal", amount |-> e.amount,
              cash |-> e.cash, collection |-> e.collection, reverses |-> e.key]
    BY <1>1, <2>1, ReversalType
  <2>3. QED
    BY <1>1, <2>2
<1>4. ~KeyIsUsed(k)
  BY DEF Charges, ChargeSound
<1>5. entries' = entries \cup {n}
  BY <1>4 DEF CancelSourceCharge, Insert, Append
<1> HIDE DEF n, e
<1>6. ASSUME NEW u \in Orders \ {o}
      PROVE  ChargeSound(u)'
  BY <1>2, <1>3, <1>5, OtherChargesKeep
<1>7. ChargeSound(o)'
  <2>1. UndoKey(o)' = UndoKey(o) /\ k # o
    BY <1>2 DEF UndoKey
  <2>2. IsReversed(o)'
    BY <1>3, <1>5 DEF IsReversed
  <2>3. \A f \in entries' : f.key = o => f \in entries /\ order[o].stay # None /\ f.stay = order[o].stay
    BY <1>3, <1>5, <2>1 DEF Charges, ChargeSound
  <2>4. \A f \in entries' : f.reverses = o => f.key \in Keys \cup {UndoKey(o)}
    BY <1>3, <1>5 DEF Charges, ChargeSound
  <2>5. QED
    BY <2>1, <2>2, <2>3, <2>4 DEF ChargeSound
<1>8. QED
  BY <1>6, <1>7 DEF Charges

(* The desk writes entries of its own keys, and the other commands none. *)
LEMMA DeskAppends ==
  ASSUME LedgerTypeOK, DeskStep
  PROVE  \E n : n.key \in Keys /\ entries' = entries \cup {n}
<1> DEFINE Goal == \E n : n.key \in Keys /\ entries' = entries \cup {n}
<1>1. ASSUME NEW k \in Keys, NEW s \in Stays, NEW a \in Amounts, Charge(k, s, a)
      PROVE  Goal
  BY <1>1 DEF Charge, Insert, Append, NewEntry
<1>2. ASSUME NEW k \in Keys, NEW s \in Stays, NEW a \in Amounts, NEW cash \in BOOLEAN,
             Pay(k, s, a, cash)
      PROVE  Goal
  BY <1>2 DEF Pay, Insert, Append, NewEntry
<1>3. ASSUME NEW k \in Keys, NEW s \in Stays, NEW a \in Amounts, NEW cash \in BOOLEAN,
             Collect(k, s, a, cash)
      PROVE  Goal
  <2> DEFINE n == [NewEntry(k, s, "payment", a, cash) EXCEPT !.collection = TRUE]
  <2>1. n.key = k
    BY DEF NewEntry
  <2>2. Append(n)
    BY <1>3 DEF Collect
  <2> HIDE DEF n
  <2>3. QED
    BY <2>1, <2>2 DEF Append
<1>4. ASSUME NEW k \in Keys, NEW e \in entries, Reverse(k, e) \/ ReverseCollection(k, e)
      PROVE  Goal
  <2>1. ReversalOf(k, e).key = k
    BY EntryKeysHold, ReversalType
  <2>2. Append(ReversalOf(k, e))
    BY <1>4 DEF Reverse, ReverseCollection, Insert
  <2>3. QED
    BY <2>1, <2>2 DEF Append
<1>5. QED
  BY <1>1, <1>2, <1>3, <1>4 DEF DeskStep

LEMMA OrdersKeepCharges ==
  ASSUME RestaurantTypeOK, LedgerTypeOK, Charges, OrderStep
  PROVE  Charges'
<1>1. \A o \in Orders : order[o].tab = None
  BY DEF Charges, ChargeSound
<1>2. \A o \in Orders : order[o].status \notin {"Entregado", "Cancelado"} => ~KeyIsUsed(o)
  BY DEF Charges, ChargeSound, KeyIsUsed
<1>3. ASSUME NEW o \in Orders, NEW s \in Stays \cup {None}, CreateOrder(o, s)
      PROVE  Charges'
  <2>1. /\ Created(s, None, FALSE) \in OrderRows
        /\ RowIs(Created(s, None, FALSE), "Pedido recibido", "Sin reservar", s, None, FALSE)
    <3> FALSE \in BOOLEAN /\ None \in Tabs \cup {None}
      OBVIOUS
    <3> QED
      BY Zenon, CreatedRow
  <2>2. order'[o] = Created(s, None, FALSE) /\ \A u \in Orders \ {o} : order'[u] = order[u]
    BY <1>3, <2>1, BecomesTyped DEF CreateOrder, RowBecomes
  <2>3. order'[o].status = "Pedido recibido" /\ order'[o].tab = None
    BY Zenon, <2>1, <2>2 DEF RowIs
  <2>4. UNCHANGED entries /\ order[o].status = "absent"
    BY <1>3 DEF CreateOrder, Exists, ledgerVars
  <2>5. QED
    BY <1>2, <2>2, <2>3, <2>4, UnchargedKeeps
<1>4. ASSUME NEW o \in Orders, NEW s \in Stays \cup {None}, UpdateOrder(o, s)
      PROVE  Charges'
  <2>1. RowIs(order'[o], order[o].status, order[o].stage, s, order[o].tab, order[o].portal)
        /\ \A u \in Orders \ {o} : order'[u] = order[u]
    BY <1>4, GoesToStay DEF UpdateOrder
  <2>2. order'[o].status = order[o].status /\ order'[o].tab = None
    BY Zenon, <1>1, <2>1 DEF RowIs
  <2>3. UNCHANGED entries /\ order[o].status \in {"Pedido recibido", "Confirmado"}
    BY <1>4 DEF UpdateOrder, IsEditable, ledgerVars
  <2>4. QED
    BY <1>2, <2>1, <2>2, <2>3, UnchargedKeeps
<1>5. ASSUME NEW o \in Orders, AdvanceOrder(o)
      PROVE  Charges'
  <2>1. Confirm(o) \/ StartPreparing(o) \/ FinishPreparing(o) \/ Deliver(o) \/ PayOrder(o)
    BY <1>5, AdvanceTyped
  <2>2. \A st \in OrderStatuses, stage \in Stages : MoveTo(o, st, stage) =>
          /\ order'[o].status = st /\ order'[o].stay = order[o].stay /\ order'[o].tab = None
          /\ \A u \in Orders \ {o} : order'[u] = order[u]
    BY <1>1, Moves DEF RowIs
  <2>3. /\ order[o].stage \in Stages /\ order[o].stay \in Stays \cup {None}
        /\ "Reservado" \in Stages /\ "Consumido" \in Stages
    BY OrderFields DEF RestaurantTypeOK, Stages
  <2>4. CASE Confirm(o) \/ StartPreparing(o) \/ FinishPreparing(o)
    <3>1. /\ order[o].status \notin {"Entregado", "Cancelado"}
          /\ UNCHANGED ledgerVars
      BY Zenon, <2>4 DEF Confirm, StartPreparing, FinishPreparing
    <3>2. \E st \in {"Confirmado", "En preparacion", "Listo"}, stage \in Stages : MoveTo(o, st, stage)
      BY Zenon, <2>3, <2>4 DEF Confirm, StartPreparing, FinishPreparing
    <3>3. /\ order'[o].status # "Entregado" /\ order'[o].tab = None
          /\ \A u \in Orders \ {o} : order'[u] = order[u]
      BY <2>2, <3>2, StatusesInUse
    <3>4. QED
      BY <1>2, <3>1, <3>3, UnchargedKeeps DEF ledgerVars
  <2>5. CASE Deliver(o)
    <3>1. MoveTo(o, "Entregado", order[o].stage) /\ order[o].status = "Listo"
      BY Zenon, <2>5 DEF Deliver
    <3>2. /\ order'[o].status = "Entregado" /\ order'[o].stay = order[o].stay /\ order'[o].tab = None
          /\ \A u \in Orders \ {o} : order'[u] = order[u]
      BY <2>2, <2>3, <3>1, StatusesInUse
    <3>3. CASE order[o].stay = None
      <4>1. UNCHANGED entries
        BY <2>5, <3>3 DEF Deliver, ledgerVars
      <4>2. QED
        BY <1>2, <3>1, <3>2, <3>3, <4>1, UnchargedKeeps
    <3>4. CASE order[o].stay # None
      <4>1. PICK a \in Amounts : PostSourceCharge(o, order[o].stay, a)
        BY Zenon, <2>5, <3>4 DEF Deliver
      <4>2. order[o].stay \in Stays
        BY <2>3, <3>4
      <4>3. QED
        BY <3>1, <3>2, <4>1, <4>2, DeliveryCharges
    <3>5. QED
      BY <3>3, <3>4
  <2>6. CASE PayOrder(o)
    <3>1. /\ MoveTo(o, "Pagado", order[o].stage) /\ order[o].status = "Entregado"
          /\ order[o].stay = None /\ UNCHANGED entries
      BY <2>6 DEF PayOrder, ledgerVars
    <3>2. /\ order'[o].status = "Pagado" /\ order'[o].tab = None
          /\ \A u \in Orders \ {o} : order'[u] = order[u]
      BY <2>2, <2>3, <3>1, StatusesInUse
    <3>3. ~KeyIsUsed(o)
      BY <3>1 DEF Charges, ChargeSound, KeyIsUsed
    <3>4. QED
      BY <3>1, <3>2, <3>3, UnchargedKeeps
  <2>7. QED
    BY <2>1, <2>4, <2>5, <2>6
<1>6. ASSUME NEW o \in Orders, CancelOrder(o)
      PROVE  Charges'
  <2>1. RowIs(order'[o], "Cancelado", order[o].stage, order[o].stay, order[o].tab, order[o].portal)
        /\ \A u \in Orders \ {o} : order'[u] = order[u]
    BY <1>6, Closes, StatusesInUse DEF CancelOrder
  <2>2. order'[o].status = "Cancelado" /\ order'[o].stay = order[o].stay /\ order'[o].tab = None
    BY Zenon, <1>1, <2>1 DEF RowIs
  <2>3. CASE order[o].stay # None /\ order[o].status = "Entregado"
    <3>1. CancelSourceCharge(o)
      BY Zenon, <1>6, <2>3 DEF CancelOrder
    <3>2. QED
      BY <2>1, <2>2, <2>3, <3>1, CancellingReverses
  <2>4. CASE ~(order[o].stay # None /\ order[o].status = "Entregado")
    <3>1. UNCHANGED ledgerVars /\ order[o].status # "Cancelado"
      BY Zenon, <1>6, <2>4 DEF CancelOrder
    <3>2. ~KeyIsUsed(o)
      BY <2>4, <3>1 DEF Charges, ChargeSound, KeyIsUsed
    <3>3. QED
      BY <2>1, <2>2, <3>1, <3>2, UnchargedKeeps DEF ledgerVars
  <2>5. QED
    BY <2>3, <2>4
<1>7. QED
  BY <1>3, <1>4, <1>5, <1>6 DEF OrderStep

LEMMA ZoneLeavesFolios == ZoneStep => UNCHANGED entries
<1>1. ASSUME NEW t \in Tabs, NEW from \in Instants, NEW pax \in Sizes, NEW payment \in TabStatuses,
             NEW s \in Stays, NEW priced \in BOOLEAN, NEW cash \in BOOLEAN,
             CreateManualPass(t, s, from, pax, payment, priced, cash)
      PROVE  UNCHANGED entries
  <2>1. (\E a \in Amounts : CreateMovement(t, "Ingreso", a)) \/ UNCHANGED ledgerVars
    BY <1>1, Zenon DEF CreateManualPass
  <2>2. QED
    BY <2>1 DEF CreateMovement, ledgerVars
<1>2. QED
  BY <1>1 DEF ZoneStep, CheckInReservation, CreateReservation, FindNoRule, InsertRule, UpdateConfig,
     ledgerVars

LEMMA ChargesStep ==
  ASSUME WholeOrders, RestaurantTypeOK, LedgerTypeOK, Charges, [RestaurantNext]_vars
  PROVE  Charges'
<1>1. ASSUME UNCHANGED <<order, entries>>
      PROVE  Charges'
  BY <1>1 DEF Charges, ChargeSound, KeyIsUsed, IsReversed, UndoKey
<1>2. CASE OrderStep
  BY <1>2, OrdersKeepCharges
<1>3. CASE TabStep
  <2>1. ASSUME NEW t \in Tabs, NEW cash \in BOOLEAN, SettleReservation(t, cash)
        PROVE  UNCHANGED <<order, entries>>
    <3>1. \A o \in Orders : order[o].tab = None
      BY DEF Charges, ChargeSound
    <3>2. /\ \A o \in Orders : order[o].tab # t => order'[o] = order[o]
          /\ RestaurantTypeOK' /\ UNCHANGED ledgerVars
      BY Zenon, <2>1, Settles
    <3>3. \A o \in Orders : order'[o] = order[o]
      BY <3>1, <3>2, TabsAndStaysAreNotNone
    <3>4. order \in [Orders -> OrderRows] /\ order' \in [Orders -> OrderRows]
      BY <3>2 DEF RestaurantTypeOK
    <3>5. order' = order
      BY <3>3, <3>4
    <3>6. QED
      BY <3>2, <3>5 DEF ledgerVars
  <2>2. ASSUME ZoneStep, UNCHANGED restaurantVars
        PROVE  UNCHANGED <<order, entries>>
    <3>1. UNCHANGED entries
      BY <2>2, ZoneLeavesFolios
    <3>2. QED
      BY <2>2, <3>1 DEF restaurantVars
  <2>3. QED
    BY <1>1, <1>3, <2>1, <2>2 DEF TabStep
<1>4. CASE LedgerStep
  <2>1. UNCHANGED order
    BY <1>4 DEF LedgerStep, restaurantVars
  <2>2. CASE DeskStep
    <3>1. PICK n : n.key \in Keys /\ entries' = entries \cup {n}
      BY <2>2, DeskAppends
    <3>2. \A u \in Orders : n.key # u /\ n.key # UndoKey(u)
      BY <3>1, KeysAreApart DEF Orders
    <3>3. \A u \in Orders : ChargeSound(u)'
      BY <2>1, <3>1, <3>2, OtherChargesKeep
    <3>4. QED
      BY <3>3 DEF Charges
  <2>3. CASE DrawerStep \/ \E s \in Stays : CheckOut(s)
    BY <1>1, <2>1, <2>3 DEF DrawerStep, CountSession, CloseSession, OpenSession, CheckOut
  <2>4. QED
    BY <1>4, <2>2, <2>3 DEF LedgerStep
<1>5. CASE StoreStep \/ UNCHANGED vars
  BY <1>1, <1>5 DEF StoreStep, AdjustInventory, UpdateRecipe, vars, restaurantVars, ledgerVars
<1>6. QED
  BY <1>2, <1>3, <1>4, <1>5 DEF RestaurantNext, LineStep, CustomerStep, WholeOrders

LEMMA ChargesInit == RestaurantInit => Charges
<1> SUFFICES ASSUME RestaurantInit, NEW o \in Orders PROVE ChargeSound(o)
  BY DEF Charges
<1>1. entries = {} /\ order[o] = NoOrder
  BY DEF RestaurantInit, LedgerInit
<1>2. order[o].status = "absent" /\ order[o].tab = None
  BY Zenon, <1>1, NoOrderFields DEF RowIs
<1>3. QED
  BY <1>1, <1>2 DEF ChargeSound, KeyIsUsed

LEMMA ChargesSay == Charges => DeliveredIsCharged
<1> SUFFICES ASSUME Charges, NEW o \in Orders
             PROVE  LET isDelivered == order[o].status = "Entregado" /\ order[o].stay # None IN
                    /\ LiveCharge(o) => isDelivered /\ EntryOf(o).stay = order[o].stay
                    /\ isDelivered /\ ~LiveCharge(o) =>
                         \E e \in entries : e.reverses = o /\ e.key \in Keys
  BY DEF DeliveredIsCharged
<1>1. ChargeSound(o)
  BY DEF Charges
<1>2. KeyIsUsed(o) => EntryOf(o) \in entries /\ EntryOf(o).key = o
  BY DEF KeyIsUsed, EntryOf
<1>3. ASSUME LiveCharge(o)
      PROVE  order[o].status = "Entregado" /\ order[o].stay # None /\ EntryOf(o).stay = order[o].stay
  BY <1>1, <1>2, <1>3 DEF ChargeSound, LiveCharge
<1>4. ASSUME order[o].status = "Entregado", order[o].stay # None, ~LiveCharge(o)
      PROVE  \E e \in entries : e.reverses = o /\ e.key \in Keys
  <2>1. PICK e \in entries : e.reverses = o
    BY <1>1, <1>4 DEF ChargeSound, LiveCharge, IsReversed
  <2>2. ~KeyIsUsed(UndoKey(o))
    BY <1>1, <1>4 DEF ChargeSound
  <2>3. e.key \in Keys
    BY <1>1, <2>1, <2>2 DEF ChargeSound, KeyIsUsed
  <2>4. QED
    BY <2>1, <2>3
<1>5. QED
  BY <1>3, <1>4

(* Where orders are advanced as a whole, by the staff, a stay owes for the orders
   delivered to it and for no other, whatever the desk charges, takes and reverses
   in between: only a reversal made at the desk lets a delivered order go.  A line
   advanced by itself makes an order Listo again after its delivery, and a late
   cancellation by the customer leaves the charge. *)
THEOREM DeliveriesAreCharged ==
  ASSUME WholeOrders
  PROVE  /\ RestaurantSpec => []DeliveredIsCharged
         /\ StoreSpec => []DeliveredIsCharged
<1>1. RestaurantInit => RestaurantTypeOK /\ Charges
  BY RestaurantInitTyped, ChargesInit
<1>2. RestaurantTypeOK /\ LedgerTypeOK /\ Charges /\ [RestaurantNext]_vars => RestaurantTypeOK' /\ Charges'
  BY StepTyped, ChargesStep
<1>3. StoreInit => StoreInv /\ Charges
  BY StoreInitTyped, ChargesInit DEF StoreInit
<1>4. StoreInv /\ LedgerTypeOK /\ Charges /\ [StoreNext]_allVars => StoreInv' /\ Charges'
  <2> SUFFICES ASSUME StoreInv, LedgerTypeOK, Charges, [StoreNext]_allVars PROVE StoreInv' /\ Charges'
    OBVIOUS
  <2>1. StoreInv' /\ RestaurantTypeOK /\ ([RestaurantNext]_vars \/ \E q \in Nat : Restocks(q))
    BY StoreSteps, StoreStepTyped DEF StoreInv
  <2>2. ASSUME NEW q \in Nat, Restocks(q)
        PROVE  Charges'
    BY <2>2 DEF Restocks, ledgerVars, Charges, ChargeSound, KeyIsUsed, IsReversed, UndoKey
  <2>3. QED
    BY <2>1, <2>2, ChargesStep
<1>5. Charges => DeliveredIsCharged
  BY ChargesSay
<1>6. RestaurantSpec => []LedgerTypeOK
  BY RestaurantImplementsLedger, LedgerTypeCorrect, PTL DEF ImplementsLedger
<1>7. StoreSpec => []LedgerTypeOK
  BY RestaurantImplementsLedger, LedgerTypeCorrect, PTL DEF ImplementsLedger
<1>8. RestaurantSpec => []DeliveredIsCharged
  BY <1>1, <1>2, <1>5, <1>6, PTL DEF RestaurantSpec
<1>9. StoreSpec => []DeliveredIsCharged
  BY <1>3, <1>4, <1>5, <1>7, PTL DEF StoreSpec
<1>10. QED
  BY <1>8, <1>9
=============================================================================
