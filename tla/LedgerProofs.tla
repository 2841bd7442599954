------------------------------ MODULE LedgerProofs ------------------------------
(***************************************************************************)
(* For any number of stays, entries, drawers and orders: the receivable of *)
(* a stay is the balance of its folio, the drawer has the cash of the      *)
(* folios, a closed drawer's count stays right, and the ledger implements  *)
(* GuestAccount.  All of it rests on what one appended entry, or one       *)
(* movement of cash, does to a sum (AppendedBalance, MovedAmount).         *)
(***************************************************************************)
EXTENDS FolioLedger, SumTheorems

LedgerTypeOK ==
  /\ settlement \in [Stays -> Settlements]
  /\ entries \subseteq Entries /\ IsFiniteSet(entries) /\ \A e \in entries : e.amount # 0
  /\ receivable \in [Stays -> ReceivableRows]
  /\ session \in [Sessions -> SessionRows]
  /\ movements \subseteq Movements /\ IsFiniteSet(movements)

(* An entry is known by its key, and reverses a charge or a payment that is there
   and that no other entry reverses. *)
EntryIsSound(e) ==
  /\ \A f \in entries : e.key = f.key => e = f
  /\ e.key \in Sources => e.type = "charge"
  /\ e.type = "charge" => ~e.cash
  /\ IF e.type = "reversal"
     THEN \E f \in entries : f.key = e.reverses /\ f.type # "reversal" /\ e = ReversalOf(e.key, f)
     ELSE e.reverses = None
  /\ e.reverses # None => \A f \in entries : f.reverses = e.reverses => e = f
EntriesAreSound == \A e \in entries : EntryIsSound(e)

-----------------------------------------------------------------------------
(* The total of a set of entries or movements. *)
LEMMA TotalIsSum ==
  ASSUME NEW S
  PROVE  Total(S) = SumFunctionOnSet([e \in S |-> e.amount], S)
  BY DEF Total, SumFunctionOnSet, FoldFunctionOnSet, MapThenFoldSet, MapThenSumSet

LEMMA TotalOfNone == Total({}) = 0
  BY TotalIsSum, SumOfNone

LEMMA TotalType ==
  ASSUME NEW S, IsFiniteSet(S), \A e \in S : e.amount \in Int
  PROVE  Total(S) \in Int
<1> DEFINE f == [e \in S |-> e.amount]
<1>1. \A e \in S : f[e] \in Int
  OBVIOUS
<1> HIDE DEF f
<1>2. SumFunctionOnSet(f, S) \in Int
  BY <1>1, SumIsInteger
<1>3. QED
  BY <1>2, TotalIsSum DEF f

(* A new element adds its amount. *)
LEMMA TotalWith ==
  ASSUME NEW S, IsFiniteSet(S), NEW n, n \notin S, \A e \in S \cup {n} : e.amount \in Int
  PROVE  Total(S \cup {n}) = Total(S) + n.amount
<1> DEFINE f == [e \in S |-> e.amount]
           g == [e \in S \cup {n} |-> e.amount]
<1>1. (\A e \in S : f[e] = g[e]) /\ (\A e \in S \cup {n} : g[e] \in Int) /\ g[n] = n.amount
  OBVIOUS
<1>2. Total(S) = SumFunctionOnSet(f, S) /\ Total(S \cup {n}) = SumFunctionOnSet(g, S \cup {n})
  BY TotalIsSum
<1> HIDE DEF f, g
<1>3. SumFunctionOnSet(f, S) = SumFunctionOnSet(g, S)
  BY <1>1, SumSame
<1>4. SumFunctionOnSet(g, S \cup {n}) = g[n] + SumFunctionOnSet(g, S)
  BY <1>1, SumWith
<1>5. n.amount \in Int /\ Total(S) \in Int
  BY <1>1, TotalType
<1>6. QED
  BY <1>1, <1>2, <1>3, <1>4, <1>5

-----------------------------------------------------------------------------
(* The entries stay sound. *)
LEMMA InitSound == LedgerInit => LedgerTypeOK /\ EntriesAreSound
  BY FS_EmptySet DEF LedgerInit, LedgerTypeOK, EntriesAreSound, Settlements, ReceivableRows,
     NoReceivable, SessionRows, NoSession

(* An entry of a new key, sound among the entries there are, leaves the others as they are. *)
LEMMA AppendSound ==
  ASSUME EntriesAreSound, NEW n, Append(n),
         n.key \in Sources => n.type = "charge",
         n.type = "charge" => ~n.cash,
         IF n.type = "reversal"
         THEN \E f \in entries : f.key = n.reverses /\ f.type # "reversal" /\ n = ReversalOf(n.key, f)
         ELSE n.reverses = None
  PROVE  EntriesAreSound'
<1>1. entries' = entries \cup {n} /\ \A e \in entries : e.key # n.key
  BY DEF Append, UniqueIndexesAllow, KeyIsUsed
<1>2. n.reverses # None => \A e \in entries : e.reverses # n.reverses
  BY DEF Append, UniqueIndexesAllow, IsReversed
<1>3. ASSUME NEW e \in entries
      PROVE  EntryIsSound(e)'
  BY <1>1, <1>2, <1>3 DEF EntriesAreSound, EntryIsSound, ReversalOf
<1>4. EntryIsSound(n)'
  BY <1>1, <1>2 DEF EntryIsSound, ReversalOf
<1>5. QED
  BY <1>1, <1>3, <1>4 DEF EntriesAreSound

(* What the entries that commands append are. *)
LEMMA NewEntryType ==
  ASSUME NEW k \in EntryKeys, NEW s \in Stays, NEW type \in {"charge", "payment"},
         NEW a \in Amounts, NEW cash \in BOOLEAN
  PROVE  /\ NewEntry(k, s, type, a, cash) \in Entries
         /\ [NewEntry(k, s, type, a, cash) EXCEPT !.collection = TRUE] \in Entries
         /\ a \in Nat \ {0}
  BY AmountsArePositive DEF NewEntry, Entries

LEMMA ReversalType ==
  ASSUME LedgerTypeOK, NEW k \in EntryKeys, NEW e \in entries
  PROVE  /\ ReversalOf(k, e) \in Entries
         /\ ReversalOf(k, e) = [key |-> k, stay |-> e.stay, type |-> "reversal", amount |-> e.amount,
              cash |-> e.cash, collection |-> e.collection, reverses |-> e.key]
         /\ e.amount \in Nat \ {0} /\ e.stay \in Stays /\ e.key \in EntryKeys
<1>1. e \in Entries /\ e.amount # 0
  BY DEF LedgerTypeOK
<1>2. /\ e.key \in EntryKeys /\ e.stay \in Stays /\ e.amount \in Nat
      /\ e.cash \in BOOLEAN /\ e.collection \in BOOLEAN
  BY <1>1 DEF Entries
<1>3. ReversalOf(k, e) = [key |-> k, stay |-> e.stay, type |-> "reversal", amount |-> e.amount,
        cash |-> e.cash, collection |-> e.collection, reverses |-> e.key]
  <2>1. e = [key |-> e.key, stay |-> e.stay, type |-> e.type, amount |-> e.amount,
             cash |-> e.cash, collection |-> e.collection, reverses |-> e.reverses]
    BY <1>1 DEF Entries
  <2> DEFINE a == [e EXCEPT !.key = k]
             b == [a EXCEPT !.type = "reversal"]
             c == [b EXCEPT !.reverses = e.key]
  <2>2. ReversalOf(k, e) = c
    BY DEF ReversalOf
  <2>3. a = [key |-> k, stay |-> e.stay, type |-> e.type, amount |-> e.amount,
             cash |-> e.cash, collection |-> e.collection, reverses |-> e.reverses]
    BY <2>1
  <2> HIDE DEF a
  <2>4. b = [key |-> k, stay |-> e.stay, type |-> "reversal", amount |-> e.amount,
             cash |-> e.cash, collection |-> e.collection, reverses |-> e.reverses]
    BY <2>3
  <2> HIDE DEF b
  <2>5. QED
    BY <2>2, <2>4
<1>4. QED
  BY <1>1, <1>2, <1>3 DEF Entries

LEMMA EntryKeysHold == Keys \subseteq EntryKeys /\ Sources \subseteq EntryKeys /\ None \notin EntryKeys
                       /\ \A o \in Sources : UndoKey(o) \in EntryKeys \ Sources
  BY KeysAreNotNone, KeysAreApart DEF EntryKeys

-----------------------------------------------------------------------------
(* Sums of entries and of movements are integers, and read nothing else. *)
LEMMA BalanceType ==
  ASSUME LedgerTypeOK
  PROVE  \A s \in Stays : Balance(s) \in Int
<1> SUFFICES ASSUME NEW s \in Stays PROVE Balance(s) \in Int
  OBVIOUS
<1> DEFINE up == {e \in EntriesOf(s) : Raises(e)}
<1>1. up \subseteq entries /\ EntriesOf(s) \ up \subseteq entries
  BY DEF EntriesOf
<1>2. IsFiniteSet(entries) /\ \A e \in entries : e.amount \in Int
  BY DEF LedgerTypeOK, Entries
<1> HIDE DEF up
<1>3. IsFiniteSet(up) /\ IsFiniteSet(EntriesOf(s) \ up)
  BY <1>1, <1>2, FS_Subset
<1>4. Total(up) \in Int /\ Total(EntriesOf(s) \ up) \in Int
  BY <1>1, <1>2, <1>3, TotalType
<1>5. QED
  BY <1>4 DEF Balance, up

LEMMA ExpectedType ==
  ASSUME LedgerTypeOK
  PROVE  /\ \A x \in Sessions : ExpectedAmount(x) \in Int
         /\ \A x \in Sessions, type \in {"Ingreso", "Egreso"} : Total(MovementsOf(x, type)) \in Int
<1>1. ASSUME NEW x \in Sessions, NEW type \in {"Ingreso", "Egreso"}
      PROVE  Total(MovementsOf(x, type)) \in Int
  <2>1. IsFiniteSet(MovementsOf(x, type)) /\ \A m \in MovementsOf(x, type) : m.amount \in Int
    BY FS_Subset, MovementsOf(x, type) \subseteq movements DEF LedgerTypeOK, Movements, MovementsOf
  <2>2. QED
    BY <2>1, TotalType
<1>2. \A x \in Sessions : session[x].opening \in Nat
  BY DEF LedgerTypeOK, SessionRows
<1>3. QED
  BY <1>1, <1>2 DEF ExpectedAmount

LEMMA BalanceReadsEntries ==
  ASSUME entries' = entries
  PROVE  \A s \in Stays : Balance(s)' = Balance(s)
<1> SUFFICES ASSUME NEW s \in Stays PROVE Balance(s)' = Balance(s)
  OBVIOUS
<1>1. \A k : EntryOf(k)' = EntryOf(k)
  BY DEF EntryOf
<1>2. \A e : Raises(e)' <=> Raises(e)
  BY <1>1 DEF Raises
<1>3. EntriesOf(s)' = EntriesOf(s)
  BY DEF EntriesOf
<1> DEFINE up == {e \in EntriesOf(s) : Raises(e)}
           later == {e \in EntriesOf(s)' : Raises(e)'}
<1>4. later = up
  BY <1>2, <1>3
<1>5. Balance(s) = Total(up) - Total(EntriesOf(s) \ up)
  BY DEF Balance
<1>6. Balance(s)' = Total(later) - Total(EntriesOf(s)' \ later)
  BY DEF Balance
<1> HIDE DEF up, later
<1>7. QED
  BY <1>3, <1>4, <1>5, <1>6

(* One entry more changes the balance of its stay by its amount: up for a charge
   or the reversal of a payment, down for a payment or the reversal of a charge. *)
LEMMA AppendedBalance ==
  ASSUME LedgerTypeOK, EntriesAreSound, EntriesAreSound', NEW n \in Entries, Append(n)
  PROVE  \A s \in Stays : Balance(s)' =
           IF s # n.stay THEN Balance(s)
           ELSE IF Raises(n)' THEN Balance(s) + n.amount ELSE Balance(s) - n.amount
<1>1. entries' = entries \cup {n} /\ n \notin entries
  BY DEF Append, UniqueIndexesAllow, KeyIsUsed
<1>2. ASSUME NEW e \in entries
      PROVE  Raises(e)' <=> Raises(e)
  <2>1. CASE e.type = "reversal"
    <3>1. PICK f \in entries : f.key = e.reverses
      BY <1>2, <2>1 DEF EntriesAreSound, EntryIsSound
    <3>2. EntryOf(e.reverses) = f
      BY <3>1 DEF EntryOf, EntriesAreSound, EntryIsSound
    <3>3. EntryOf(e.reverses)' = f
      <4>1. f \in entries' /\ \A g \in entries' : f.key = g.key => f = g
        BY <1>1 DEF EntriesAreSound, EntryIsSound
      <4>2. QED
        BY <3>1, <4>1 DEF EntryOf
    <3>4. QED
      BY <3>2, <3>3 DEF Raises
  <2>2. CASE e.type # "reversal"
    BY <2>2 DEF Raises
  <2>3. QED
    BY <2>1, <2>2
<1>3. SUFFICES ASSUME NEW s \in Stays
               PROVE  Balance(s)' =
                        IF s # n.stay THEN Balance(s)
                        ELSE IF Raises(n)' THEN Balance(s) + n.amount ELSE Balance(s) - n.amount
  OBVIOUS
<1> DEFINE up == {e \in EntriesOf(s) : Raises(e)}
           down == EntriesOf(s) \ up
           later == {e \in EntriesOf(s)' : Raises(e)'}
           below == EntriesOf(s)' \ later
<1>4. Balance(s) = Total(up) - Total(down) /\ Balance(s)' = Total(later) - Total(below)
  BY DEF Balance
<1>5. /\ up \subseteq entries /\ down \subseteq entries
      /\ IsFiniteSet(entries) /\ \A e \in entries \cup {n} : e.amount \in Int
  BY DEF LedgerTypeOK, Entries, EntriesOf
<1>6. /\ s # n.stay => later = up /\ below = down
      /\ s = n.stay /\ Raises(n)' => later = up \cup {n} /\ below = down
      /\ s = n.stay /\ ~Raises(n)' => later = up /\ below = down \cup {n}
  <2>1. EntriesOf(s)' = IF s = n.stay THEN EntriesOf(s) \cup {n} ELSE EntriesOf(s)
    BY <1>1 DEF EntriesOf
  <2>2. \A e \in EntriesOf(s) : (Raises(e)' <=> Raises(e)) /\ e # n
    BY <1>1, <1>2 DEF EntriesOf
  <2>3. CASE s # n.stay
    BY <2>1, <2>2, <2>3
  <2>4. CASE s = n.stay /\ Raises(n)'
    BY <2>1, <2>2, <2>4
  <2>5. CASE s = n.stay /\ ~Raises(n)'
    BY <2>1, <2>2, <2>5
  <2>6. QED
    BY <2>3, <2>4, <2>5
<1> HIDE DEF up, down, later, below
<1>7. IsFiniteSet(up) /\ IsFiniteSet(down)
  BY <1>5, FS_Subset
<1>8. Total(up) \in Int /\ Total(down) \in Int /\ n.amount \in Int
  BY <1>5, <1>7, TotalType
<1>9. Total(up \cup {n}) = Total(up) + n.amount /\ Total(down \cup {n}) = Total(down) + n.amount
  <2>1. n \notin up /\ n \notin down
    BY <1>1, <1>5
  <2>2. QED
    BY <1>5, <1>7, <2>1, TotalWith
<1>10. \A a, b, c \in Int : (a + c) - b = (a - b) + c /\ a - (b + c) = (a - b) - c
  OBVIOUS
<1>11. CASE s # n.stay
  BY <1>4, <1>6, <1>11
<1>12. CASE s = n.stay /\ Raises(n)'
  <2>1. Balance(s)' = Total(up \cup {n}) - Total(down)
    BY <1>4, <1>6, <1>12
  <2>2. Balance(s)' = (Total(up) + n.amount) - Total(down)
    BY <1>9, <2>1
  <2>3. Balance(s)' = Balance(s) + n.amount
    BY <1>4, <1>8, <1>10, <2>2
  <2>4. QED
    BY <1>12, <2>3
<1>13. CASE s = n.stay /\ ~Raises(n)'
  <2>1. Balance(s)' = Total(up) - Total(down \cup {n})
    BY <1>4, <1>6, <1>13
  <2>2. Balance(s)' = Total(up) - (Total(down) + n.amount)
    BY <1>9, <2>1
  <2>3. Balance(s)' = Balance(s) - n.amount
    BY <1>4, <1>8, <1>10, <2>2
  <2>4. QED
    BY <1>13, <2>3
<1>14. QED
  BY <1>11, <1>12, <1>13

-----------------------------------------------------------------------------
(* Every command that appends an entry posts it: the entry is sound, and the
   cash it stands for moves with it. *)
Fits(n) ==
  /\ n \in Entries /\ n.amount # 0
  /\ n.key \in Sources => n.type = "charge"
  /\ n.type = "charge" => ~n.cash
  /\ IF n.type = "reversal"
     THEN \E f \in entries : f.key = n.reverses /\ f.type # "reversal" /\ n = ReversalOf(n.key, f)
     ELSE n.reverses = None

Posting(n) ==
  /\ Fits(n) /\ Append(n)
  /\ MoveIfCash(n, IF n.type = "payment" THEN "Ingreso" ELSE "Egreso")
  /\ UNCHANGED <<settlement, session>>

(* In the house, through a receivable that has something left, and back. *)
PostsInHouse(n) == Posting(n) /\ settlement[n.stay] = "open" /\ UNCHANGED receivable
Collects(n) ==
  /\ Posting(n) /\ n.type = "payment" /\ settlement[n.stay] = "receivable"
  /\ receivable[n.stay].status = "open" /\ n.amount <= receivable[n.stay].outstanding
  /\ Outstanding(n.stay, receivable[n.stay].outstanding - n.amount)
Reclaims(n) ==
  /\ Posting(n) /\ n.type = "reversal" /\ EntryOf(n.reverses).type = "payment"
  /\ receivable[n.stay].status = "settled"
  /\ receivable[n.stay].outstanding + n.amount <= receivable[n.stay].original
  /\ Outstanding(n.stay, receivable[n.stay].outstanding + n.amount)

LedgerInv ==
  LedgerTypeOK /\ EntriesAreSound /\ ReceivableIsBalance /\ CashMatchesLedger /\ ClosedDrawerIsFinal

(* A charge or a payment with a client's key, or a charge with its source's. *)
LEMMA NewEntryFits ==
  ASSUME NEW k \in EntryKeys, NEW s \in Stays, NEW type \in {"charge", "payment"},
         NEW a \in Amounts, NEW cash \in BOOLEAN, k \in Sources => type = "charge",
         type = "charge" => ~cash
  PROVE  /\ Fits(NewEntry(k, s, type, a, cash))
         /\ Fits([NewEntry(k, s, type, a, cash) EXCEPT !.collection = TRUE])
  BY NewEntryType DEF Fits, NewEntry

LEMMA ReversalFits ==
  ASSUME LedgerTypeOK, NEW k \in EntryKeys \ Sources, NEW e \in entries, e.type # "reversal"
  PROVE  Fits(ReversalOf(k, e))
  BY ReversalType DEF Fits

(* The commands at the desk post what they say. *)
LEMMA DeskPosts ==
  ASSUME LedgerInv, DeskStep
  PROVE  \E n : PostsInHouse(n) \/ Collects(n) \/ Reclaims(n)
<1> USE EntryKeysHold
<1>1. ASSUME NEW k \in Keys, NEW s \in Stays, NEW a \in Amounts, Charge(k, s, a)
      PROVE  PostsInHouse(NewEntry(k, s, "charge", a, FALSE))
  <2>1. Fits(NewEntry(k, s, "charge", a, FALSE))
    BY NewEntryFits
  <2>2. QED
    BY <1>1, <2>1 DEF Charge, Insert, PostsInHouse, Posting, MoveIfCash, NewEntry
<1>2. ASSUME NEW k \in Keys, NEW s \in Stays, NEW a \in Amounts, NEW cash \in BOOLEAN,
             Pay(k, s, a, cash)
      PROVE  PostsInHouse(NewEntry(k, s, "payment", a, cash))
  <2>1. Fits(NewEntry(k, s, "payment", a, cash))
    BY NewEntryFits, KeysAreApart
  <2>2. NewEntry(k, s, "payment", a, cash).type = "payment"
    BY DEF NewEntry
  <2>3. QED
    BY <1>2, <2>1, <2>2 DEF Pay, Insert, PostsInHouse, Posting
<1>3. ASSUME NEW k \in Keys, NEW e \in entries, Reverse(k, e)
      PROVE  PostsInHouse(ReversalOf(k, e))
  <2>1. Fits(ReversalOf(k, e)) /\ ReversalOf(k, e).type = "reversal"
    BY <1>3, ReversalFits, ReversalType, KeysAreApart DEF Reverse, LedgerInv
  <2>2. MoveIfCash(ReversalOf(k, e), "Egreso")
    BY <1>3 DEF Reverse
  <2>3. QED
    BY <1>3, <2>1, <2>2 DEF Reverse, Insert, PostsInHouse, Posting
<1>4. ASSUME NEW k \in Keys, NEW s \in Stays, NEW a \in Amounts, NEW cash \in BOOLEAN,
             Collect(k, s, a, cash)
      PROVE  Collects([NewEntry(k, s, "payment", a, cash) EXCEPT !.collection = TRUE])
  <2> DEFINE n == [NewEntry(k, s, "payment", a, cash) EXCEPT !.collection = TRUE]
  <2>1. Fits(n)
    BY NewEntryFits, KeysAreApart
  <2>2. n.type = "payment" /\ n.stay = s /\ n.amount = a
    BY DEF NewEntry
  <2> HIDE DEF n
  <2>3. Collect(k, s, a, cash) <=>
          /\ receivable[s].status = "open" /\ settlement[s] = "receivable"
          /\ a <= receivable[s].outstanding
          /\ Append(n) /\ Outstanding(s, receivable[s].outstanding - a)
          /\ MoveIfCash(n, "Ingreso") /\ UNCHANGED <<settlement, session>>
    BY DEF Collect, n
  <2>4. QED
    BY <1>4, <2>1, <2>2, <2>3 DEF Collects, Posting, n
<1>5. ASSUME NEW k \in Keys, NEW e \in entries, ReverseCollection(k, e)
      PROVE  Reclaims(ReversalOf(k, e))
  <2> DEFINE n == ReversalOf(k, e)
  <2>1. Fits(n) /\ n.type = "reversal" /\ n.stay = e.stay /\ n.amount = e.amount /\ n.reverses = e.key
    BY <1>5, ReversalFits, ReversalType, KeysAreApart DEF ReverseCollection, LedgerInv
  <2>2. EntryOf(n.reverses) = e
    BY <2>1 DEF EntryOf, LedgerInv, EntriesAreSound, EntryIsSound
  <2> HIDE DEF n
  <2>3. /\ Append(n) /\ MoveIfCash(n, "Egreso") /\ UNCHANGED <<settlement, session>>
        /\ e.type = "payment" /\ receivable[e.stay].status = "settled"
        /\ receivable[e.stay].outstanding + e.amount <= receivable[e.stay].original
        /\ Outstanding(e.stay, receivable[e.stay].outstanding + e.amount)
    BY <1>5 DEF ReverseCollection, n
  <2>4. Posting(n)
    BY <2>1, <2>3 DEF Posting
  <2>5. QED
    BY <2>1, <2>2, <2>3, <2>4 DEF Reclaims, n
<1>6. QED
  BY <1>1, <1>2, <1>3, <1>4, <1>5 DEF DeskStep

(* So do the charges of delivered orders, unless they are there already. *)
LEMMA SourcePosts ==
  ASSUME LedgerInv, SourceStep
  PROVE  (\E n : PostsInHouse(n)) \/ UNCHANGED ledgerVars
<1> USE EntryKeysHold
<1>1. ASSUME NEW o \in Sources, NEW s \in Stays, NEW a \in Amounts, PostSourceCharge(o, s, a)
      PROVE  PostsInHouse(NewEntry(o, s, "charge", a, FALSE)) \/ UNCHANGED ledgerVars
  <2>1. Fits(NewEntry(o, s, "charge", a, FALSE))
    BY NewEntryFits
  <2>2. QED
    BY <1>1, <2>1
    DEF PostSourceCharge, PostsInHouse, Posting, MoveIfCash, NewEntry, ledgerVars
<1>2. ASSUME NEW o \in Sources, CancelSourceCharge(o)
      PROVE  PostsInHouse(ReversalOf(UndoKey(o), EntryOf(o))) \/ UNCHANGED ledgerVars
  <2> DEFINE e == EntryOf(o)
             n == ReversalOf(UndoKey(o), e)
  <2>1. e \in entries /\ e.key = o
    BY <1>2 DEF CancelSourceCharge, KeyIsUsed, EntryOf
  <2>2. e.type = "charge" /\ ~e.cash
    BY <2>1 DEF LedgerInv, EntriesAreSound, EntryIsSound
  <2> HIDE DEF e
  <2>3. Fits(n) /\ n.cash = e.cash
    BY <2>1, <2>2, ReversalFits, ReversalType DEF LedgerInv
  <2> HIDE DEF n
  <2>4. UNCHANGED entries \/ Insert(n)
    BY <1>2 DEF CancelSourceCharge, n, e
  <2>5. UNCHANGED <<settlement, receivable, session, movements>>
    BY <1>2 DEF CancelSourceCharge
  <2>6. CASE UNCHANGED entries
    BY <2>5, <2>6 DEF ledgerVars
  <2>7. CASE Insert(n)
    <3>1. PostsInHouse(n)
      BY <2>2, <2>3, <2>5, <2>7 DEF Insert, PostsInHouse, Posting, MoveIfCash
    <3>2. QED
      BY <3>1 DEF n, e
  <2>8. QED
    BY <2>4, <2>6, <2>7
<1>3. QED
  BY <1>1, <1>2 DEF SourceStep

-----------------------------------------------------------------------------
(* What a posting keeps. *)
LEMMA MoveType ==
  ASSUME LedgerTypeOK, NEW k \in EntryKeys \cup References, NEW folio \in BOOLEAN,
         NEW type \in {"Ingreso", "Egreso"}, NEW a \in Nat, Move(k, folio, type, a)
  PROVE  movements' \subseteq Movements /\ IsFiniteSet(movements')
<1>1. PICK x \in Sessions :
        movements' = movements \cup
          {[session |-> x, reference |-> k, folio |-> folio, type |-> type, amount |-> a]}
  BY DEF Move
<1>2. [session |-> x, reference |-> k, folio |-> folio, type |-> type, amount |-> a] \in Movements
  BY DEF Movements
<1>3. QED
  BY <1>1, <1>2, FS_AddElement DEF LedgerTypeOK
(* A movement goes to the drawer that is open: the sums of the closed ones stay. *)
LEMMA MovedAmount ==
  ASSUME LedgerTypeOK, ClosedDrawerIsFinal, UNCHANGED session,
         NEW k, NEW folio, NEW type, NEW a, Move(k, folio, type, a) \/ UNCHANGED movements
  PROVE  ClosedDrawerIsFinal'
<1> SUFFICES ASSUME NEW x \in Sessions, session[x].status = "closed"
             PROVE  session[x].expected = ExpectedAmount(x)'
  BY DEF ClosedDrawerIsFinal
<1>1. ASSUME NEW t \in {"Ingreso", "Egreso"}
      PROVE  MovementsOf(x, t)' = MovementsOf(x, t)
  BY DEF Move, IsOpen, MovementsOf
<1>2. ExpectedAmount(x)' = ExpectedAmount(x)
  BY <1>1 DEF ExpectedAmount
<1>3. QED
  BY <1>2 DEF ClosedDrawerIsFinal

(* The cash of a posted entry moves once, and no other entry's moves. *)
LEMMA PostedCash ==
  ASSUME LedgerInv, NEW n, Posting(n)
  PROVE  CashMatchesLedger'
<1> DEFINE dir(e) == IF e.type = "payment" THEN "Ingreso" ELSE "Egreso"
<1>1. entries' = entries \cup {n} /\ \A e \in entries : e.key # n.key
  BY DEF Posting, Append, UniqueIndexesAllow, KeyIsUsed
<1>2. \A m \in movements : m.folio => m.reference # n.key
  BY <1>1 DEF LedgerInv, CashMatchesLedger
<1>3. CASE ~n.cash
  <2>1. movements' = movements
    BY <1>3 DEF Posting, MoveIfCash
  <2>2. QED
    BY <1>1, <1>3, <2>1 DEF LedgerInv, CashMatchesLedger
<1>4. CASE n.cash
  <2>1. PICK x \in Sessions :
          movements' = movements \cup
            {[session |-> x, reference |-> n.key, folio |-> TRUE, type |-> dir(n), amount |-> n.amount]}
    BY <1>4 DEF Posting, MoveIfCash, Move
  <2> DEFINE c == [session |-> x, reference |-> n.key, folio |-> TRUE, type |-> dir(n), amount |-> n.amount]
  <2>2. c.folio /\ c.reference = n.key /\ c.amount = n.amount /\ c.type = dir(n)
    OBVIOUS
  <2>3. movements' = movements \cup {c}
    BY <2>1
  <2> HIDE DEF c
  <2>4. \A m \in movements' : m.folio => \E e \in entries' : e.key = m.reference /\ e.cash
    BY <1>1, <1>4, <2>2, <2>3 DEF LedgerInv, CashMatchesLedger
  <2>5. \A e \in entries' : e.cash =>
          \E m \in movements' :
            m.folio /\ m.reference = e.key /\ m.amount = e.amount /\ m.type = dir(e)
    BY <1>1, <2>2, <2>3 DEF LedgerInv, CashMatchesLedger
  <2>6. \A m, o \in movements' : m.folio /\ o.folio /\ m.reference = o.reference => m = o
    BY <1>2, <2>2, <2>3 DEF LedgerInv, CashMatchesLedger
  <2>7. QED
    BY <2>4, <2>5, <2>6 DEF CashMatchesLedger
<1>5. n.cash \in BOOLEAN
  BY DEF Posting, Fits, Entries
<1>6. QED
  BY <1>3, <1>4, <1>5

(* A posting moves the balance of its stay, and none but that. *)
LEMMA PostingKeeps ==
  ASSUME LedgerInv, NEW n, Posting(n)
  PROVE  /\ EntriesAreSound' /\ CashMatchesLedger' /\ ClosedDrawerIsFinal'
         /\ receivable' \in [Stays -> ReceivableRows] => LedgerTypeOK'
         /\ n.stay \in Stays /\ n.amount \in Nat \ {0}
         /\ \A s \in Stays : Balance(s) \in Int /\ Balance(s)' \in Int
         /\ \A s \in Stays \ {n.stay} : Balance(s)' = Balance(s)
         /\ n.type = "payment" => Balance(n.stay)' = Balance(n.stay) - n.amount
         /\ n.type = "reversal" /\ EntryOf(n.reverses).type = "payment" =>
              Balance(n.stay)' = Balance(n.stay) + n.amount
<1>1. n \in Entries /\ n.amount \in Nat \ {0} /\ n.stay \in Stays /\ n.key \in EntryKeys
  BY DEF Posting, Fits, Entries
<1>2. EntriesAreSound'
  BY AppendSound DEF LedgerInv, Posting, Fits
<1>3. CashMatchesLedger'
  BY PostedCash
<1>4. ClosedDrawerIsFinal'
  BY MovedAmount DEF LedgerInv, Posting, MoveIfCash
<1>5. movements' \subseteq Movements /\ IsFiniteSet(movements')
  <2>1. CASE n.cash
    BY <1>1, <2>1, MoveType DEF LedgerInv, Posting, MoveIfCash
  <2>2. CASE ~n.cash
    BY <2>2 DEF LedgerInv, LedgerTypeOK, Posting, MoveIfCash
  <2>3. QED
    BY <2>1, <2>2
<1>6. entries' \subseteq Entries /\ IsFiniteSet(entries') /\ \A e \in entries' : e.amount # 0
  BY <1>1, FS_AddElement DEF LedgerInv, LedgerTypeOK, Posting, Append
<1>7. receivable' \in [Stays -> ReceivableRows] => LedgerTypeOK'
  BY <1>5, <1>6 DEF LedgerInv, LedgerTypeOK, Posting
<1>8. \A s \in Stays : Balance(s)' =
        IF s # n.stay THEN Balance(s)
        ELSE IF Raises(n)' THEN Balance(s) + n.amount ELSE Balance(s) - n.amount
  BY <1>1, <1>2, AppendedBalance DEF LedgerInv, Posting
<1>9. \A s \in Stays : Balance(s) \in Int
  BY BalanceType DEF LedgerInv
<1>10. n.type = "payment" => ~Raises(n)'
  BY DEF Raises
<1>11. n.type = "reversal" /\ EntryOf(n.reverses).type = "payment" => Raises(n)'
  <2>1. SUFFICES ASSUME n.type = "reversal", EntryOf(n.reverses).type = "payment"
                 PROVE  EntryOf(n.reverses)'.type = "payment"
    BY DEF Raises
  <2>2. PICK f \in entries : f.key = n.reverses
    BY <2>1 DEF Posting, Fits
  <2>3. EntryOf(n.reverses) = f
    BY <2>2 DEF EntryOf, LedgerInv, EntriesAreSound, EntryIsSound
  <2>4. f \in entries' /\ \A g \in entries' : f.key = g.key => f = g
    BY <1>2 DEF Posting, Append, EntriesAreSound, EntryIsSound
  <2>5. EntryOf(n.reverses)' = f
    BY <2>2, <2>4 DEF EntryOf
  <2>6. QED
    BY <2>1, <2>3, <2>5
<1>12. \A s \in Stays : Balance(s)' \in Int
  BY <1>1, <1>8, <1>9
<1>13. \A s \in Stays \ {n.stay} : Balance(s)' = Balance(s)
  BY <1>8
<1>14. /\ n.type = "payment" => Balance(n.stay)' = Balance(n.stay) - n.amount
       /\ n.type = "reversal" /\ EntryOf(n.reverses).type = "payment" =>
            Balance(n.stay)' = Balance(n.stay) + n.amount
  BY <1>1, <1>8, <1>10, <1>11
<1>15. QED
  BY <1>1, <1>2, <1>3, <1>4, <1>7, <1>9, <1>12, <1>13, <1>14

-----------------------------------------------------------------------------
(* The invariant step by step. *)
LEMMA InitInv == LedgerInit => LedgerInv
<1> SUFFICES ASSUME LedgerInit PROVE LedgerInv
  OBVIOUS
<1>1. LedgerTypeOK /\ EntriesAreSound
  BY InitSound
<1>2. ReceivableIsBalance /\ CashMatchesLedger /\ ClosedDrawerIsFinal
  BY DEF LedgerInit, ReceivableIsBalance, CashMatchesLedger, ClosedDrawerIsFinal, NoSession
<1>3. QED
  BY <1>1, <1>2 DEF LedgerInv

(* In the house there is no receivable to disturb. *)
LEMMA InHouseInv ==
  ASSUME LedgerInv, NEW n, PostsInHouse(n)
  PROVE  LedgerInv'
<1>1. Posting(n)
  BY DEF PostsInHouse
<1>2. LedgerTypeOK'
  BY <1>1, PostingKeeps DEF PostsInHouse, LedgerInv, LedgerTypeOK
<1>3. ReceivableIsBalance'
  <2> SUFFICES ASSUME NEW s \in Stays
               PROVE  (IF settlement[s] = "receivable"
                       THEN /\ receivable[s].outstanding = Balance(s)
                            /\ receivable[s].outstanding <= receivable[s].original
                            /\ receivable[s].status = IF Balance(s) = 0 THEN "settled" ELSE "open"
                       ELSE receivable[s] = NoReceivable)'
    BY DEF ReceivableIsBalance
  <2>1. settlement' = settlement /\ receivable' = receivable /\ settlement[n.stay] = "open"
    BY DEF PostsInHouse, Posting
  <2>2. CASE settlement[s] = "receivable"
    BY <1>1, <2>1, <2>2, PostingKeeps DEF LedgerInv, ReceivableIsBalance
  <2>3. CASE settlement[s] # "receivable"
    BY <2>1, <2>3 DEF LedgerInv, ReceivableIsBalance
  <2>4. QED
    BY <2>2, <2>3
<1>4. QED
  BY <1>1, <1>2, <1>3, PostingKeeps DEF LedgerInv

(* A collection, or its reversal, moves the receivable with the balance. *)
LEMMA ReceivableMoves ==
  ASSUME LedgerInv, NEW n, Collects(n) \/ Reclaims(n)
  PROVE  /\ Posting(n) /\ settlement[n.stay] = "receivable"
         /\ \A s \in Stays \ {n.stay} : receivable'[s] = receivable[s]
         /\ receivable'[n.stay].outstanding = Balance(n.stay)'
         /\ receivable'[n.stay].original = receivable[n.stay].original
         /\ receivable'[n.stay].status = IF Balance(n.stay)' = 0 THEN "settled" ELSE "open"
         /\ Balance(n.stay)' \in 0 .. receivable[n.stay].original
         /\ Collects(n) => Balance(n.stay)' < Balance(n.stay)
         /\ Reclaims(n) => Balance(n.stay) = 0 /\ Balance(n.stay)' > 0
         /\ receivable' \in [Stays -> ReceivableRows]
<1> DEFINE s == n.stay
<1>1. Posting(n) /\ s \in Stays /\ n.amount \in Nat \ {0}
  BY PostingKeeps DEF Collects, Reclaims
<1>2. receivable \in [Stays -> ReceivableRows] /\ receivable[s] \in ReceivableRows
  BY <1>1 DEF LedgerInv, LedgerTypeOK
<1>3. settlement[s] = "receivable"
  BY <1>1 DEF Collects, Reclaims, LedgerInv, ReceivableIsBalance, NoReceivable
<1>4. /\ receivable[s].outstanding = Balance(s) /\ receivable[s].outstanding <= receivable[s].original
      /\ receivable[s].status = IF Balance(s) = 0 THEN "settled" ELSE "open"
      /\ receivable[s].outstanding \in Nat /\ receivable[s].original \in Nat
  BY <1>1, <1>2, <1>3 DEF LedgerInv, ReceivableIsBalance, ReceivableRows
<1>5. \A d \in Nat : Outstanding(s, d) =>
        /\ \A t \in Stays \ {s} : receivable'[t] = receivable[t]
        /\ receivable'[s].outstanding = d /\ receivable'[s].original = receivable[s].original
        /\ receivable'[s].status = IF d = 0 THEN "settled" ELSE "open"
        /\ receivable' \in [Stays -> ReceivableRows]
  BY <1>1, <1>2 DEF Outstanding, ReceivableRows
<1>6. CASE Collects(n)
  <2>1. Balance(s)' = receivable[s].outstanding - n.amount
    BY <1>1, <1>4, <1>6, PostingKeeps DEF Collects
  <2>2. Balance(s)' \in Nat /\ Balance(s)' <= receivable[s].original /\ Balance(s)' < Balance(s)
    BY <1>1, <1>4, <1>6, <2>1 DEF Collects
  <2>3. Outstanding(s, Balance(s)')
    BY <1>6, <2>1 DEF Collects
  <2>4. ~Reclaims(n)
    BY <1>6 DEF Collects, Reclaims
  <2>5. QED
    BY <1>1, <1>3, <1>4, <1>5, <2>2, <2>3, <2>4
<1>7. CASE Reclaims(n)
  <2>1. Balance(s)' = receivable[s].outstanding + n.amount
    BY <1>1, <1>4, <1>7, PostingKeeps DEF Reclaims
  <2>2. Balance(s) = 0 /\ Balance(s)' \in Nat /\ Balance(s)' <= receivable[s].original /\ Balance(s)' > 0
    BY <1>1, <1>4, <1>7, <2>1 DEF Reclaims
  <2>3. Outstanding(s, Balance(s)')
    BY <1>7, <2>1 DEF Reclaims
  <2>4. ~Collects(n)
    BY <1>7 DEF Collects, Reclaims
  <2>5. QED
    BY <1>1, <1>3, <1>4, <1>5, <2>2, <2>3, <2>4
<1>8. QED
  BY <1>6, <1>7

LEMMA ReceivableInv ==
  ASSUME LedgerInv, NEW n, Collects(n) \/ Reclaims(n)
  PROVE  LedgerInv'
<1>1. Posting(n) /\ UNCHANGED settlement
  BY ReceivableMoves DEF Posting
<1>2. LedgerTypeOK'
  BY <1>1, ReceivableMoves, PostingKeeps
<1>3. ReceivableIsBalance'
  <2> SUFFICES ASSUME NEW s \in Stays
               PROVE  (IF settlement[s] = "receivable"
                       THEN /\ receivable[s].outstanding = Balance(s)
                            /\ receivable[s].outstanding <= receivable[s].original
                            /\ receivable[s].status = IF Balance(s) = 0 THEN "settled" ELSE "open"
                       ELSE receivable[s] = NoReceivable)'
    BY DEF ReceivableIsBalance
  <2>1. CASE s = n.stay
    BY <1>1, <2>1, ReceivableMoves
  <2>2. CASE s # n.stay
    BY <1>1, <2>2, ReceivableMoves, PostingKeeps DEF LedgerInv, ReceivableIsBalance
  <2>3. QED
    BY <2>1, <2>2
<1>4. QED
  BY <1>1, <1>2, <1>3, PostingKeeps DEF LedgerInv

(* The drawer's own commands leave the folios alone. *)
LEMMA FolioUnmoved ==
  ASSUME LedgerInv, UNCHANGED <<settlement, entries, receivable>>
  PROVE  ReceivableIsBalance' /\ EntriesAreSound'
<1>1. \A s \in Stays : Balance(s)' = Balance(s)
  BY BalanceReadsEntries
<1>2. ReceivableIsBalance'
  BY <1>1 DEF LedgerInv, ReceivableIsBalance
<1>3. EntriesAreSound'
  BY DEF LedgerInv, EntriesAreSound, EntryIsSound
<1>4. QED
  BY <1>2, <1>3

LEMMA DrawerInv ==
  ASSUME LedgerInv, DrawerStep
  PROVE  LedgerInv'
<1>1. UNCHANGED <<settlement, entries, receivable, movements>>
  BY DEF DrawerStep, OpenSession, CountSession, CloseSession
<1>2. \A x \in Sessions, t \in {"Ingreso", "Egreso"} : MovementsOf(x, t)' = MovementsOf(x, t)
  BY <1>1 DEF MovementsOf
<1>3. CashMatchesLedger'
  BY <1>1 DEF LedgerInv, CashMatchesLedger
<1>4. session \in [Sessions -> SessionRows] /\ \A x \in Sessions : ExpectedAmount(x) \in Int
  BY ExpectedType DEF LedgerInv, LedgerTypeOK
<1> DEFINE Counted ==
      /\ session' \in [Sessions -> SessionRows]
      /\ \A x \in Sessions : session'[x].status = "closed" =>
           /\ session'[x].opening = session[x].opening
           /\ session'[x] = session[x] \/ session'[x].expected = ExpectedAmount(x)
<1>5. Counted
  <2>1. ASSUME NEW x \in Sessions, NEW opening \in Openings, OpenSession(x, opening)
        PROVE  Counted
    BY <1>4, <2>1, AmountsArePositive DEF OpenSession, SessionRows
  <2>2. ASSUME NEW x \in Sessions, CountSession(x)
        PROVE  Counted
    BY <1>4, <2>2 DEF CountSession, IsOpen, SessionRows
  <2>3. ASSUME NEW x \in Sessions, CloseSession(x)
        PROVE  Counted
    <3>1. session[x].opening \in Nat /\ ExpectedAmount(x) \in Int
      BY <1>4 DEF SessionRows
    <3>2. session'[x] = [status |-> "closed", opening |-> session[x].opening, expected |-> ExpectedAmount(x)]
      BY <1>4, <2>3 DEF CloseSession, SessionRows
    <3>3. \A y \in Sessions \ {x} : session'[y] = session[y]
      BY <1>4, <2>3 DEF CloseSession
    <3>4. session'[x] \in SessionRows /\ DOMAIN session' = Sessions
      BY <1>4, <2>3, <3>1, <3>2 DEF CloseSession, SessionRows
    <3>5. session' \in [Sessions -> SessionRows]
      BY <1>4, <2>3, <3>3, <3>4 DEF CloseSession
    <3>6. QED
      BY <3>2, <3>3, <3>5
  <2>4. QED
    BY <2>1, <2>2, <2>3 DEF DrawerStep
<1>6. ClosedDrawerIsFinal'
  <2> SUFFICES ASSUME NEW x \in Sessions, session'[x].status = "closed"
               PROVE  session'[x].expected = ExpectedAmount(x)'
    BY DEF ClosedDrawerIsFinal
  <2>1. ExpectedAmount(x)' = ExpectedAmount(x)
    BY <1>2, <1>5 DEF ExpectedAmount
  <2>2. QED
    BY <1>5, <2>1 DEF LedgerInv, ClosedDrawerIsFinal
<1>7. LedgerTypeOK'
  BY <1>1, <1>5 DEF LedgerInv, LedgerTypeOK
<1>8. QED
  BY <1>1, <1>3, <1>6, <1>7, FolioUnmoved DEF LedgerInv

LEMMA CashierInv ==
  ASSUME LedgerInv, CashierStep
  PROVE  LedgerInv'
<1>1. CASE DrawerStep
  BY <1>1, DrawerInv
<1>2. ASSUME NEW r \in References, NEW a \in Amounts, NEW type \in {"Ingreso", "Egreso"},
             CreateMovement(r, type, a)
      PROVE  LedgerInv'
  <2>1. Move(r, FALSE, type, a) /\ UNCHANGED <<settlement, entries, receivable, session>>
    BY <1>2 DEF CreateMovement
  <2>2. LedgerTypeOK'
    BY <2>1, MoveType, AmountsArePositive DEF LedgerInv, LedgerTypeOK
  <2>3. ClosedDrawerIsFinal'
    BY <2>1, MovedAmount DEF LedgerInv
  <2>4. \A m \in movements' : m.folio => m \in movements
    BY <2>1 DEF Move
  <2>5. movements \subseteq movements'
    BY <2>1 DEF Move
  <2>6. CashMatchesLedger'
    BY <2>1, <2>4, <2>5 DEF LedgerInv, CashMatchesLedger
  <2>7. QED
    BY <2>1, <2>2, <2>3, <2>6, FolioUnmoved DEF LedgerInv
<1>3. QED
  BY <1>1, <1>2 DEF CashierStep

(* Who leaves with a debt leaves its balance as a receivable. *)
LEMMA CheckOutInv ==
  ASSUME LedgerInv, NEW s \in Stays, CheckOut(s)
  PROVE  LedgerInv'
<1>1. UNCHANGED <<entries, session, movements>> /\ settlement[s] = "open"
  BY DEF CheckOut
<1>2. \A t \in Stays : Balance(t)' = Balance(t) /\ Balance(t) \in Int
  BY <1>1, BalanceReadsEntries, BalanceType DEF LedgerInv
<1>3. /\ settlement \in [Stays -> Settlements] /\ receivable \in [Stays -> ReceivableRows]
      /\ receivable[s] = NoReceivable
  BY <1>1 DEF LedgerInv, LedgerTypeOK, ReceivableIsBalance
<1>4. CASE Balance(s) > 0
  <2>1. /\ settlement' = [settlement EXCEPT ![s] = "receivable"]
        /\ receivable' = [receivable EXCEPT ![s] =
             [status |-> "open", original |-> Balance(s), outstanding |-> Balance(s)]]
    BY <1>4 DEF CheckOut
  <2>2. LedgerTypeOK'
    BY <1>1, <1>2, <1>3, <1>4, <2>1 DEF LedgerInv, LedgerTypeOK, Settlements, ReceivableRows
  <2>3. ReceivableIsBalance'
    BY <1>2, <1>3, <1>4, <2>1 DEF LedgerInv, ReceivableIsBalance
  <2>4. QED
    BY <1>1, <2>2, <2>3 DEF LedgerInv, EntriesAreSound, EntryIsSound, CashMatchesLedger,
       ClosedDrawerIsFinal, ExpectedAmount, MovementsOf
<1>5. CASE ~(Balance(s) > 0)
  <2>1. settlement' = [settlement EXCEPT ![s] = "settled"] /\ receivable' = receivable
    BY <1>5 DEF CheckOut
  <2>2. LedgerTypeOK'
    BY <1>1, <1>3, <2>1 DEF LedgerInv, LedgerTypeOK, Settlements
  <2>3. ReceivableIsBalance'
    BY <1>2, <1>3, <2>1 DEF LedgerInv, ReceivableIsBalance
  <2>4. QED
    BY <1>1, <2>2, <2>3 DEF LedgerInv, EntriesAreSound, EntryIsSound, CashMatchesLedger,
       ClosedDrawerIsFinal, ExpectedAmount, MovementsOf
<1>6. QED
  BY <1>4, <1>5

LEMMA StepInv == LedgerInv /\ [LedgerNext]_ledgerVars => LedgerInv'
<1> SUFFICES ASSUME LedgerInv, [LedgerNext]_ledgerVars PROVE LedgerInv'
  OBVIOUS
<1>1. CASE UNCHANGED ledgerVars
  <2>1. UNCHANGED <<settlement, entries, receivable, session, movements>>
    BY <1>1 DEF ledgerVars
  <2>2. ReceivableIsBalance' /\ EntriesAreSound'
    BY <2>1, FolioUnmoved
  <2>3. LedgerTypeOK' /\ CashMatchesLedger' /\ ClosedDrawerIsFinal'
    BY <2>1 DEF LedgerInv, LedgerTypeOK, CashMatchesLedger, ClosedDrawerIsFinal, ExpectedAmount, MovementsOf
  <2>4. QED
    BY <2>2, <2>3 DEF LedgerInv
<1>2. CASE DeskStep
  BY <1>2, DeskPosts, InHouseInv, ReceivableInv
<1>3. CASE SourceStep
  BY <1>1, <1>3, SourcePosts, InHouseInv
<1>4. CASE CashierStep
  BY <1>4, CashierInv
<1>5. ASSUME NEW s \in Stays, CheckOut(s)
      PROVE  LedgerInv'
  BY <1>5, CheckOutInv
<1>6. QED
  BY <1>1, <1>2, <1>3, <1>4, <1>5 DEF LedgerNext

(* Rows keep their types, and each amount of the ledger is of its kind: nothing
   is a debt below zero, and no entry of the folio is for nothing. *)
THEOREM LedgerTypeCorrect == LedgerSpec => []LedgerTypeOK
<1>1. LedgerInit => LedgerInv
  BY InitInv
<1>2. LedgerInv => LedgerTypeOK
  BY DEF LedgerInv
<1>3. QED
  BY <1>1, <1>2, StepInv, PTL DEF LedgerSpec

(* Whatever was charged, paid, collected and reversed, and in whatever order, the
   receivable of a stay is what the entries of its folio add up to. *)
THEOREM ReceivablesFollowFolios == LedgerSpec => []ReceivableIsBalance
<1>1. LedgerInit => LedgerInv
  BY InitInv
<1>2. LedgerInv => ReceivableIsBalance
  BY DEF LedgerInv
<1>3. QED
  BY <1>1, <1>2, StepInv, PTL DEF LedgerSpec

(* Cash moves in a drawer exactly once for each entry in cash. *)
THEOREM CashFollowsFolios == LedgerSpec => []CashMatchesLedger
<1>1. LedgerInit => LedgerInv
  BY InitInv
<1>2. LedgerInv => CashMatchesLedger
  BY DEF LedgerInv
<1>3. QED
  BY <1>1, <1>2, StepInv, PTL DEF LedgerSpec

(* No movement reaches a drawer after it was closed and counted. *)
THEOREM ClosedDrawersStay == LedgerSpec => []ClosedDrawerIsFinal
<1>1. LedgerInit => LedgerInv
  BY InitInv
<1>2. LedgerInv => ClosedDrawerIsFinal
  BY DEF LedgerInv
<1>3. QED
  BY <1>1, <1>2, StepInv, PTL DEF LedgerSpec

(* A folio entry is reversed at most once, by an entry of its own amount, stay
   and drawer, and never after it was itself a reversal. *)
THEOREM EntriesStaySound == LedgerSpec => []EntriesAreSound
<1>1. LedgerInit => LedgerInv
  BY InitInv
<1>2. LedgerInv => EntriesAreSound
  BY DEF LedgerInv
<1>3. QED
  BY <1>1, <1>2, StepInv, PTL DEF LedgerSpec

-----------------------------------------------------------------------------
(* The ledger implements the account. *)
LEMMA InitAccount == LedgerInit => Account!AccountInit
<1> SUFFICES ASSUME LedgerInit PROVE Account!AccountInit
  OBVIOUS
<1>1. \A s \in Stays : Balance(s) = 0
  <2> SUFFICES ASSUME NEW s \in Stays PROVE Balance(s) = 0
    OBVIOUS
  <2> DEFINE up == {e \in EntriesOf(s) : Raises(e)}
  <2>1. up = {} /\ EntriesOf(s) \ up = {}
    BY DEF LedgerInit, EntriesOf
  <2>2. Balance(s) = Total(up) - Total(EntriesOf(s) \ up)
    BY DEF Balance
  <2> HIDE DEF up
  <2>3. QED
    BY <2>1, <2>2, TotalOfNone
<1>2. [s \in Stays |-> Balance(s)] = [s \in Stays |-> 0]
  BY <1>1
<1>3. [s \in Stays |-> receivable[s].original] = [s \in Stays |-> 0]
  BY DEF LedgerInit, NoReceivable
<1>4. QED
  BY <1>2, <1>3 DEF Account!AccountInit, LedgerInit

(* Without a new entry, and but for a departure, no account changes. *)
LEMMA AccountStutters ==
  ASSUME UNCHANGED <<settlement, entries, receivable>>
  PROVE  UNCHANGED Account!accountVars
<1>1. [s \in Stays |-> Balance(s)]' = [s \in Stays |-> Balance(s)]
  BY BalanceReadsEntries
<1>2. [s \in Stays |-> receivable[s].original]' = [s \in Stays |-> receivable[s].original]
  OBVIOUS
<1>3. QED
  BY <1>1, <1>2 DEF Account!accountVars

(* A posting is life in the house, a repayment or the reversal of one. *)
LEMMA PostingAccount ==
  ASSUME LedgerInv, NEW n, PostsInHouse(n) \/ Collects(n) \/ Reclaims(n)
  PROVE  Account!AccountNext
<1> DEFINE owed == [s \in Stays |-> Balance(s)]
           debt == [s \in Stays |-> receivable[s].original]
<1>1. Posting(n) /\ n.stay \in Stays /\ UNCHANGED settlement
  BY PostingKeeps DEF PostsInHouse, Collects, Reclaims, Posting
<1>2. \A t \in Stays \ {n.stay} : owed'[t] = owed[t]
  BY <1>1, PostingKeeps
<1>3. CASE PostsInHouse(n)
  <2>1. Account!Live(n.stay)
    BY <1>1, <1>2, <1>3 DEF PostsInHouse, Account!Live
  <2>2. QED
    BY <1>1, <2>1 DEF Account!AccountNext
<1>4. ASSUME Collects(n) \/ Reclaims(n)
      PROVE  /\ debt' = debt /\ settlement[n.stay] = "receivable"
             /\ owed' = [owed EXCEPT ![n.stay] = Balance(n.stay)']
  <2>1. \A s \in Stays : receivable'[s].original = receivable[s].original
    BY <1>4, ReceivableMoves
  <2>2. QED
    BY <1>1, <1>2, <1>4, <2>1, ReceivableMoves
<1>5. CASE Collects(n)
  <2>1. Balance(n.stay)' \in 0 .. Balance(n.stay) - 1
    BY <1>1, <1>5, ReceivableMoves, PostingKeeps
  <2>2. Account!Repay(n.stay)
    BY <1>1, <1>4, <1>5, <2>1 DEF Account!Repay, Account!Owe
  <2>3. QED
    BY <1>1, <2>2 DEF Account!AccountNext
<1>6. CASE Reclaims(n)
  <2>1. Balance(n.stay) = 0 /\ Balance(n.stay)' \in 1 .. debt[n.stay]
    BY <1>1, <1>6, ReceivableMoves, PostingKeeps
  <2>2. Account!Reclaim(n.stay)
    BY <1>1, <1>4, <1>6, <2>1 DEF Account!Reclaim, Account!Owe
  <2>3. QED
    BY <1>1, <2>2 DEF Account!AccountNext
<1>7. QED
  BY <1>3, <1>5, <1>6

(* Check-out closes the account. *)
LEMMA CheckOutAccount ==
  ASSUME LedgerInv, NEW s \in Stays, CheckOut(s)
  PROVE  Account!AccountNext
<1> DEFINE owed == [t \in Stays |-> Balance(t)]
           debt == [t \in Stays |-> receivable[t].original]
<1>1. owed' = owed
  BY BalanceReadsEntries DEF CheckOut
<1>2. receivable \in [Stays -> ReceivableRows] /\ Balance(s) \in Int
  BY BalanceType DEF LedgerInv, LedgerTypeOK
<1>3. CASE Balance(s) > 0
  <2>1. debt' = [debt EXCEPT ![s] = owed[s]]
    <3>1. receivable'[s].original = Balance(s)
      BY <1>2, <1>3 DEF CheckOut
    <3>2. \A t \in Stays \ {s} : receivable'[t] = receivable[t]
      BY <1>2, <1>3 DEF CheckOut
    <3>3. QED
      BY <3>1, <3>2
  <2>2. Account!LeaveOwing(s)
    BY <1>1, <1>3, <2>1 DEF CheckOut, Account!LeaveOwing
  <2>3. QED
    BY <2>2 DEF Account!AccountNext
<1>4. CASE ~(Balance(s) > 0)
  <2>1. Account!LeavePaid(s)
    BY <1>1, <1>2, <1>4 DEF CheckOut, Account!LeavePaid
  <2>2. QED
    BY <2>1 DEF Account!AccountNext
<1>5. QED
  BY <1>3, <1>4

LEMMA StepAccount ==
  LedgerInv /\ [LedgerNext]_ledgerVars => [Account!AccountNext]_(Account!accountVars)
<1> SUFFICES ASSUME LedgerInv, [LedgerNext]_ledgerVars
             PROVE  Account!AccountNext \/ UNCHANGED Account!accountVars
  OBVIOUS
<1>1. CASE UNCHANGED ledgerVars
  BY <1>1, AccountStutters DEF ledgerVars
<1>2. CASE DeskStep
  BY <1>2, DeskPosts, PostingAccount
<1>3. CASE SourceStep
  BY <1>1, <1>3, SourcePosts, PostingAccount
<1>4. CASE CashierStep
  BY <1>4, AccountStutters
  DEF CashierStep, DrawerStep, OpenSession, CountSession, CloseSession, CreateMovement
<1>5. ASSUME NEW s \in Stays, CheckOut(s)
      PROVE  Account!AccountNext
  BY <1>5, CheckOutAccount
<1>6. QED
  BY <1>1, <1>2, <1>3, <1>4, <1>5 DEF LedgerNext

(* Entries, receivables and drawers implement the account a guest is promised:
   it moves freely in the house, freezes once settled, and is a debt within the
   bounds of what was owed at check-out once it is a receivable. *)
THEOREM LedgerImplementsAccount == LedgerSpec => ImplementsAccount
<1>1. LedgerInit => LedgerInv /\ Account!AccountInit
  BY InitInv, InitAccount
<1>2. QED
  BY <1>1, StepInv, StepAccount, PTL DEF LedgerSpec, ImplementsAccount, Account!AccountSpec
=============================================================================
