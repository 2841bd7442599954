------------------------------ MODULE FolioLedger ------------------------------
(***************************************************************************)
(* The money of stays: FolioService (folios/folio.service.ts),             *)
(* ReceivablesService (receivables/receivables.service.ts), CashService    *)
(* (cash/cash.service.ts), and what StaysService.checkOut                  *)
(* (stays/stays.service.ts) does with a folio.  Commands run under the     *)
(* property's transaction lock or, for charges of restaurant orders, under *)
(* the lock of the stay's row, so that each one is one step.  Receipts     *)
(* make a repeated command no step: a client's key is used once.           *)
(***************************************************************************)
EXTENDS Integers, FiniteSets, FiniteSetsExt

CONSTANTS
  Stays,      \* ids of stays
  Keys,       \* idempotency keys of clients, and the bound on their commands
  References, \* references of movements that are no folio entry's, and their bound
  Sources,    \* ids of restaurant orders (or other records) that post a charge
  Sessions,   \* ids of cash sessions, a bound of the model
  Amounts,    \* amounts of money in one command
  Openings,   \* amounts a drawer is opened with
  None        \* NULL

ASSUME AmountsArePositive == Amounts \subseteq Nat \ {0} /\ Openings \subseteq Nat
(* A cancelled order's reversal has the id of the charge's entry as its key. *)
UndoKey(o) == <<"undo", o>>

(* Keys of clients are UUIDs of theirs, those of sources the ids of records. *)
ASSUME KeysAreNotNone == None \notin Keys \cup Sources
ASSUME KeysAreApart ==
  /\ Keys \cap Sources = {}
  /\ \A o \in Sources : UndoKey(o) \notin Keys \cup Sources \cup {None}

VARIABLES
  settlement,  \* [Stays -> Settlements], stays.settlement
  entries,     \* SUBSET Entries, folio_entries
  receivable,  \* [Stays -> ReceivableRows]
  session,     \* [Sessions -> SessionRows]
  movements    \* SUBSET Movements, cash_movements

ledgerVars == <<settlement, entries, receivable, session, movements>>

EntryKeys == Keys \cup Sources \cup {UndoKey(o) : o \in Sources}

Settlements == {"open", "settled", "receivable"}
(* cash: the entry moved cash; collection: it was made through a receivable. *)
Entries ==
  [key : EntryKeys, stay : Stays, type : {"charge", "payment", "reversal"}, amount : Nat,
   cash : BOOLEAN, collection : BOOLEAN, reverses : EntryKeys \cup {None}]
Movements ==
  [session : Sessions, reference : EntryKeys \cup References, folio : BOOLEAN,
   type : {"Ingreso", "Egreso"}, amount : Nat]

NoReceivable == [status |-> "absent", original |-> 0, outstanding |-> 0]
ReceivableRows == [status : {"absent", "open", "settled"}, original : Nat, outstanding : Nat]
NoSession == [status |-> "absent", opening |-> 0, expected |-> 0]
SessionRows == [status : {"absent", "open", "closed"}, opening : Nat, expected : Int]

LedgerInit ==
  /\ settlement = [s \in Stays |-> "open"]
  /\ entries = {}
  /\ receivable = [s \in Stays |-> NoReceivable]
  /\ session = [x \in Sessions |-> NoSession]
  /\ movements = {}

-----------------------------------------------------------------------------
Total(S) == MapThenSumSet(LAMBDA e : e.amount, S)

EntryOf(k) == CHOOSE e \in entries : e.key = k
(* Payments lower the balance, and so do reversals of charges. *)
Raises(e) ==
  \/ e.type = "charge"
  \/ e.type = "reversal" /\ EntryOf(e.reverses).type = "payment"
EntriesOf(s) == {e \in entries : e.stay = s}
Balance(s) ==
  LET up == {e \in EntriesOf(s) : Raises(e)} IN Total(up) - Total(EntriesOf(s) \ up)

KeyIsUsed(k) == \E e \in entries : e.key = k
IsReversed(k) == \E e \in entries : e.reverses = k

(* folio_entries_property_idempotency_unique and one_reversal_idx *)
UniqueIndexesAllow(e) == ~KeyIsUsed(e.key) /\ (e.reverses # None => ~IsReversed(e.reverses))

Append(e) == UniqueIndexesAllow(e) /\ entries' = entries \cup {e}

(* A bug to catch: a folio is written to after check-out. *)
InsertAlways(e) == Append(e)
Insert(e) == settlement[e.stay] = "open" /\ Append(e)

NewEntry(k, s, type, amount, cash) ==
  [key |-> k, stay |-> s, type |-> type, amount |-> amount, cash |-> cash,
   collection |-> FALSE, reverses |-> None]
ReversalOf(k, e) ==
  [e EXCEPT !.key = k, !.type = "reversal", !.reverses = e.key]

-----------------------------------------------------------------------------
(* The drawer. *)
IsOpen(x) == session[x].status = "open"

Move(k, folio, type, amount) ==
  \E x \in Sessions :
    /\ IsOpen(x)
    /\ movements' = movements \cup
         {[session |-> x, reference |-> k, folio |-> folio, type |-> type, amount |-> amount]}

(* A bug to catch: the reversal of a cash payment leaves the drawer alone. *)
MoveOnlyIn(e, type) ==
  IF e.cash /\ type = "Ingreso" THEN Move(e.key, TRUE, type, e.amount) ELSE UNCHANGED movements
MoveIfCash(e, type) ==
  IF e.cash THEN Move(e.key, TRUE, type, e.amount) ELSE UNCHANGED movements

MovementsOf(x, type) == {m \in movements : m.session = x /\ m.type = type}
ExpectedAmount(x) ==
  session[x].opening + Total(MovementsOf(x, "Ingreso")) - Total(MovementsOf(x, "Egreso"))

OpenSession(x, opening) ==
  /\ session[x].status = "absent"
  /\ ~ \E y \in Sessions : IsOpen(y)
  /\ session' = [session EXCEPT ![x] = [status |-> "open", opening |-> opening, expected |-> 0]]
  /\ UNCHANGED <<settlement, entries, receivable, movements>>

CountSession(x) ==
  /\ IsOpen(x)
  /\ session' = [session EXCEPT ![x].expected = ExpectedAmount(x)]
  /\ UNCHANGED <<settlement, entries, receivable, movements>>

(* A bug to catch: the drawer is closed with the amount last counted. *)
CloseSessionAsCounted(x) ==
  /\ IsOpen(x)
  /\ session' = [session EXCEPT ![x].status = "closed"]
  /\ UNCHANGED <<settlement, entries, receivable, movements>>

CloseSession(x) ==
  /\ IsOpen(x)
  /\ session' = [session EXCEPT ![x].status = "closed", ![x].expected = ExpectedAmount(x)]
  /\ UNCHANGED <<settlement, entries, receivable, movements>>

(* A movement that is no folio entry's, always in cash. *)
CreateMovement(r, type, amount) ==
  /\ ~ \E m \in movements : ~m.folio /\ m.reference = r
  /\ Move(r, FALSE, type, amount)
  /\ UNCHANGED <<settlement, entries, receivable, session>>

-----------------------------------------------------------------------------
(* The folio of a stay in the house. *)
Charge(k, s, a) ==
  /\ Insert(NewEntry(k, s, "charge", a, FALSE))
  /\ UNCHANGED <<settlement, receivable, session, movements>>

Pay(k, s, a, cash) ==
  LET e == NewEntry(k, s, "payment", a, cash) IN
  /\ a <= Balance(s)
  /\ Insert(e)
  /\ MoveIfCash(e, "Ingreso")
  /\ UNCHANGED <<settlement, receivable, session>>

Reverse(k, e) ==
  /\ e.type # "reversal"
  /\ ~IsReversed(e.key)
  /\ Insert(ReversalOf(k, e))
  /\ MoveIfCash(ReversalOf(k, e), "Egreso")
  /\ UNCHANGED <<settlement, receivable, session>>

(* The charge of a delivered order: posted again, it answers with the charge
   there is, which may have been reversed since. *)
PostSourceCharge(o, s, a) ==
  /\ settlement[s] = "open"
  /\ \/ KeyIsUsed(o) /\ UNCHANGED entries
     \/ Append(NewEntry(o, s, "charge", a, FALSE))
  /\ UNCHANGED <<settlement, receivable, session, movements>>

(* The charge of an order cancelled after delivery is reversed.  Only the
   unique index knows of a reversal made at the desk: it fails the command. *)
CancelSourceCharge(o) ==
  /\ KeyIsUsed(o)
  /\ \/ KeyIsUsed(UndoKey(o)) /\ UNCHANGED entries
     \/ Insert(ReversalOf(UndoKey(o), EntryOf(o)))
  /\ UNCHANGED <<settlement, receivable, session, movements>>

(* A debt leaves with a receivable, which takes an authorised override. *)
CheckOut(s) ==
  /\ settlement[s] = "open"
  /\ IF Balance(s) > 0
     THEN /\ settlement' = [settlement EXCEPT ![s] = "receivable"]
          /\ receivable' = [receivable EXCEPT ![s] =
               [status |-> "open", original |-> Balance(s), outstanding |-> Balance(s)]]
     ELSE /\ settlement' = [settlement EXCEPT ![s] = "settled"]
          /\ UNCHANGED receivable
  /\ UNCHANGED <<entries, session, movements>>

-----------------------------------------------------------------------------
(* The receivable of a stay that left with a debt.  Its entries are appended
   to the closed folio without asking whether it is open. *)
Outstanding(s, amount) ==
  receivable' = [receivable EXCEPT
    ![s].outstanding = amount, ![s].status = IF amount = 0 THEN "settled" ELSE "open"]

Collect(k, s, a, cash) ==
  LET e == [NewEntry(k, s, "payment", a, cash) EXCEPT !.collection = TRUE] IN
  /\ receivable[s].status = "open"
  /\ settlement[s] = "receivable"
  /\ a <= receivable[s].outstanding
  /\ Append(e)
  /\ Outstanding(s, receivable[s].outstanding - a)
  /\ MoveIfCash(e, "Ingreso")
  /\ UNCHANGED <<settlement, session>>

(* A bug to catch: the receivable is reopened for its original amount. *)
ReverseCollectionInFull(k, e) ==
  /\ e.collection /\ e.type = "payment"
  /\ receivable[e.stay].status = "settled"
  /\ ~IsReversed(e.key)
  /\ Append(ReversalOf(k, e))
  /\ Outstanding(e.stay, receivable[e.stay].original)
  /\ MoveIfCash(ReversalOf(k, e), "Egreso")
  /\ UNCHANGED <<settlement, session>>

ReverseCollection(k, e) ==
  /\ e.collection /\ e.type = "payment"
  /\ receivable[e.stay].status = "settled"
  /\ ~IsReversed(e.key)
  /\ receivable[e.stay].outstanding + e.amount <= receivable[e.stay].original
  /\ Append(ReversalOf(k, e))
  /\ Outstanding(e.stay, receivable[e.stay].outstanding + e.amount)
  /\ MoveIfCash(ReversalOf(k, e), "Egreso")
  /\ UNCHANGED <<settlement, session>>

-----------------------------------------------------------------------------
DeskStep ==
  \E k \in Keys :
    \/ \E s \in Stays, a \in Amounts :
         \/ Charge(k, s, a)
         \/ \E cash \in BOOLEAN : Pay(k, s, a, cash) \/ Collect(k, s, a, cash)
    \/ \E e \in entries : Reverse(k, e) \/ ReverseCollection(k, e)

DrawerStep ==
  \E x \in Sessions :
    \/ CountSession(x) \/ CloseSession(x)
    \/ \E opening \in Openings : OpenSession(x, opening)

CashierStep ==
  \/ DrawerStep
  \/ \E r \in References, a \in Amounts, type \in {"Ingreso", "Egreso"} :
       CreateMovement(r, type, a)

SourceStep ==
  \E o \in Sources :
    \/ \E s \in Stays, a \in Amounts : PostSourceCharge(o, s, a)
    \/ CancelSourceCharge(o)

LedgerNext ==
  \/ DeskStep
  \/ CashierStep
  \/ SourceStep
  \/ \E s \in Stays : CheckOut(s)

LedgerSpec == LedgerInit /\ [][LedgerNext]_ledgerVars

-----------------------------------------------------------------------------
(* The receivable of a stay and the folio's balance, which are stored apart and
   written by different services, agree after any sequence of collections and
   reversals; a receivable is settled exactly when nothing is owed. *)
ReceivableIsBalance ==
  \A s \in Stays :
    IF settlement[s] = "receivable"
    THEN /\ receivable[s].outstanding = Balance(s)
         /\ receivable[s].outstanding <= receivable[s].original
         /\ receivable[s].status = IF Balance(s) = 0 THEN "settled" ELSE "open"
    ELSE receivable[s] = NoReceivable

(* The drawer and the folios agree: each entry in cash has one movement of its
   amount, in for payments and out for reversals, and no other entry has one. *)
CashMatchesLedger ==
  /\ \A m \in movements : m.folio =>
       \E e \in entries : e.key = m.reference /\ e.cash
  /\ \A e \in entries : e.cash =>
       \E m \in movements :
         /\ m.folio /\ m.reference = e.key /\ m.amount = e.amount
         /\ m.type = IF e.type = "payment" THEN "Ingreso" ELSE "Egreso"
  /\ \A m, n \in movements : m.folio /\ n.folio /\ m.reference = n.reference => m = n

(* What a drawer was expected to hold when it closed is what its movements add
   up to ever after: cash never moves in a drawer that is closed. *)
ClosedDrawerIsFinal ==
  \A x \in Sessions : session[x].status = "closed" => session[x].expected = ExpectedAmount(x)

-----------------------------------------------------------------------------
(* The five tables implement the account a guest is promised: the balance that
   the folio's entries add up to moves freely in the house, is frozen once
   settled, and is a debt within its bounds once a receivable. *)
Account == INSTANCE GuestAccount WITH
  account <- settlement,
  owed <- [s \in Stays |-> Balance(s)],
  debt <- [s \in Stays |-> receivable[s].original]
ImplementsAccount == Account!AccountSpec
=============================================================================
