# PARK PLAZA HOTEL: specifications and proofs

TLA+ modules of the backend of the PARK PLAZA HOTEL (`Backend/src`, NestJS and
Drizzle over PostgreSQL) and of how the screens of its staff (`Fronted/src`,
React) work with it, the TLC configurations that check them on small instances,
and theorems about them that TLAPS proves for instances of any size. Paths below
are relative to the repository; `stays.service.ts:91` is a line of the file of
that name under `Backend/src`, and `useStayCommands.js:41` one under
`Fronted/src`.

`PROJECT.json` lists the components, the runs, the source lines each definition
stands for, the theorems, the hazards and what the checks found.

## 1. The system

One PostgreSQL database holds the state of record; API replicas hold none of
their own except timers. Transactions run at READ COMMITTED. A command of the
staff usually takes the *property lock* first (`acquirePropertyTransactionLock`,
`database/transaction-policy.ts:21-26`, an advisory lock of the transaction), so
that these commands of one property run one after the other. The exceptions are
where interleavings happen: they are marked ◊ below.

| component | state | operations | interacts with | what is hard |
|---|---|---|---|---|
| **Front desk** `reservations/`, `stays/` | `reservations`, `stays`, `rooms.status` | create, check in (also early), walk in, check out, cleaning complete | folio at check-out, a cleaning task per departure | overlapping intervals, kept apart only by the exclusion constraint; one active stay per room, kept only by a partial unique index |
| **Housekeeping** `cleaning/` | `cleaning_tasks`, `rooms.status`, `incidents` | create task, progress, approve, report incident | the same rooms and tasks as the front desk | rooms left in `cleaning`, released too early, or taken from under a guest |
| **Incidents, maintenance, blocked rooms** `incidents/`, `maintenance/`, `rooms/` | `incidents` (tickets too), `rooms.status` | open, update, progress, close with or without release, block | the same rooms | several tickets on one room; releasing what others still hold |
| **Folio** `folios/` | `folio_entries`, `stays.settlement` | charge, payment, reversal, charges of orders and their reversal | cash drawer, restaurant, check-out | append-only entries, one reversal each, folio closed at check-out |
| **Receivables** `receivables/` | `receivables`, `folio_entries` | collect, reverse | folio, cash drawer | an outstanding amount stored apart from the balance it must equal |
| **Cash drawer** `cash/` | `cash_sessions`, `cash_movements`, `cash_counts` | open, count, close, movement | folio, receivables, amenities | one drawer at a time, no cash in a closed one |
| **Restaurant** `restaurant/` ◊ | `orders`, `order_items`, `inventory_items`, `inventory_ledger`, `menu` | create, update, advance an order or a line, cancel, adjust; customers create and cancel | folio, amenity accounts, outbox | orders lock their own row, not the property; a customer's cancellation locks nothing |
| **Amenities** `amenities/` ◊ | `amenity_reservations`, `amenity_configs`, blocks | book, manual pass, check in, change the rules, block, settle | restaurant orders, cash drawer | capacity counted over overlapping bookings; rules changed without the lock |
| **Outbox** `audit/outbox.service.ts` ◊ | `outbox_events` | enqueue, dispatch, requeue | every service; realtime gateway | several replicas, leases, crashes, lost answers, at-least-once |
| **Event spaces** `events/` ◊ | `events`, services, `event_commands` | create, pre-reserve, update, confirm, advance, cancel, archive; customers list and cancel | outbox | kept apart by checks of the service alone; pre-reservations that run out while they are confirmed; versions; setup and teardown |
| **Suppliers** `suppliers/` | `purchase_orders`, `suppliers`, `inventory_items.supplier_id` | create, edit, archive, assign; order, send, receive, restock | inventory | deliveries taken in once, while the same stock is reserved |
| **Parking** `parking/` ◊ | `vehicle_registrations` | enter, update, leave, archive | folio, check-out | the place and the plate are looked for outside the transaction that writes them |
| **Attendance** `attendance/` ◊ | `attendance_events`, `attendance_corrections`, `attendance_qr_nonces` | punch by hand, by reader, by code; correct, decide | people, accounts | punches sent twice at once; codes used once; two deciders |
| **Sessions and login defence** `auth/` ◊ | `sessions`, `login_attempts` | login, resolve, logout | accounts | one live session per account, sessions ended while they are used, failures counted beside each other |
| **Accounts and staff** `accounts/`, `staff/` ◊ | `accounts`, `google_access_requests`, `staff`, `staff_profiles` | create, approve, update, reset; hire, archive, take back | sessions | an administrator must remain; whoever loses a role must lose its sessions; archiving takes no lock |
| **Screens of the staff** `Fronted/src/*/use*Commands.js`, `realtime/` ◊ | what is shown, generations, kept keys, blocked buttons | load, send a command, follow an event, recover | every service | answers that come late, in another order or never; retries |
| **Idempotent commands** `database/idempotency.ts`, `*_commands` | receipts | replay, refuse | every service | a key used again for something else |
| Roles, guests, pets, audit, documents, communications, settings, health | rows | single transactions | — | no protocol between actors |
| Views of `Fronted/`, all of `Fronted-Cliente/` | none of record | render | API | — |

## 2. The modules

```
OutboxPromise  <=  OutboxDispatch  <-  OutboxProofs           (<= implements, <- is about)
RoomOccupancy  <=  Hotel  <-  HotelProofs
                   Hotel = FrontDesk + Housekeeping + OutOfService over HotelState
GuestAccount   <=  FolioLedger  <-  LedgerProofs, SumTheorems
                   FolioLedger  <=  RestaurantOrders  (= orders over FolioLedger + Amenities)
                   Suppliers (= deliveries over RestaurantOrders)  <-  RestaurantProofs
                   EventSpaces  <-  EventProofs
                   Attendance (= punches over Personnel (= people over Access))  <-  HouseProofs
                   Parking  <-  HouseProofs
                   StaffScreens  <-  ScreensProofs
MCOutboxDispatch, MCHotel, MCFolioLedger, MCRestaurantOrders, MCSuppliers, MCStaffScreens,
MCHouseServices (= Attendance, Parking and EventSpaces side by side)
                   (instances for TLC)
```

**One command, one step.** Where commands take the property lock, or hold the
rows they read `FOR UPDATE` until they write them, a command is one action with
the guards in the order of the code and all of its writes. Where a command does
not (a dispatch cycle of the outbox, the cancellation of a customer) it is as
many actions as others can come in between. A command that is refused is no
step. Receipts of idempotent commands are abstracted by using each key once: a
repeated command answers with what is stored and changes nothing. `Attendance`
and `StaffScreens`, which are about retries, have the keys.

### OutboxDispatch: `audit/outbox.service.ts`, `outbox-domain.ts`

A row is `status`, `attempts`, `lockToken` and two facts about the clock: `due`
(`availableAt <= now`) and `expired` (`lockedAt` is older than the lease). A
replica's `phase` says where `dispatchPending` stands: it selects eligible rows
`FOR UPDATE SKIP LOCKED` (`SelectForUpdate`), commits a lease on them or sends
exhausted ones to the dead letters (`CommitClaim`), and then, row by row and
outside any transaction, publishes (`Publish`, `PublishFails`) and settles
(`MarkSent`, `SettleFailure`), each by an UPDATE fenced by the lease's token.
The UPDATE may fail, applied or not (`MarkSentFails`, `AbandonBatch`), and a
replica may crash anywhere (`Crash`), which releases its row locks but not its
leases. `emitted` and `requeues` are history. `OutboxPromise` is what callers of
`enqueue` rely on: an event is owed, is settled only once it was delivered, or
is parked for an operator.

### Hotel: `reservations/`, `stays/`, `cleaning/`, `incidents/`, `maintenance/`, `rooms/`

`HotelState` holds the rows that four services share. `FrontDesk` has
`CreateReservation`, `CheckIn`, `WalkIn`, `CheckOut`, `CleaningComplete`;
`Housekeeping` has `CreateTask`, `ProgressTask`, `ApproveTask`,
`ReportIncident`; `OutOfService` has the commands on incidents and tickets and
`SetBlocked`. The database does part of the work and is modelled as it is: the
exclusion constraint `reservations_no_active_overlap` is `ExclusionAllows`, the
partial unique indexes on active stays are `UniqueIndexesAllow`. `Hotel`
composes them. The constant `Desks` chooses which optional desks are used, as
some properties hold only where the code's known gaps (section 6) are not
touched. Times are whole days: the code compares instants only with `<`.
`RoomOccupancy` is the promise: a claim holds a room for an interval nobody else
holds, guests arrive once, in an empty room, and leave once.

### FolioLedger: `folios/`, `receivables/`, `cash/`

`entries` are the append-only rows of `folio_entries`; `Balance` is what the
code sums up. `settlement` is the stay's: open, settled, or left with a
receivable. `Charge`, `Pay`, `Reverse` are the desk's; `PostSourceCharge` and
`CancelSourceCharge` are called by the restaurant, and look for other keys than
the desk does, so that only the unique index `folio_entries_one_reversal_idx`
stands between them; `CheckOut` opens a receivable for a debt; `Collect` and
`ReverseCollection` append to the closed folio and change the stored outstanding
amount. Cash entries write a movement into the one open drawer, and fail without
one. The drawer itself is `OpenSession`, `CountSession`, `CloseSession`,
`CreateMovement`. `GuestAccount` is the promise: the balance moves freely in the
house, is frozen once settled, and is a bounded debt once a receivable.

### Amenities: `amenities/`

A booking or pass is a row `pass[t]`: the interval, the people (`pax`), whether
they have entered, whose it is (`stay`, or `None` for a customer's own: the table's
check demands one of the two) and the `payment` of its account. `CreateReservation`
and `CreateManualPass` share `Admit`, which adds up the people of every booking that
meets the interval (`PlacesTaken`); a pass that is paid in cash is a movement of the
ledger's drawer. `updateConfig` takes no lock and finds its row by a SELECT: while
there is none, two commands may each insert one (`FindNoRule`, `InsertRule`), and
which of them is read is then anybody's guess (`RulesInForce`). One zone stands for
both, with a name that does not change. Blocks are left out: no command reads them.

### RestaurantOrders: `restaurant/`, `amenities.service.ts` (settlement)

Composes orders with `Amenities` and `FolioLedger`. An order has a `status` (the linear flow of
`order-domain.ts:33`), the `stage` of its inventory, and maybe a stay or a
booking (`tab`) whose account it is on. `AdvanceOrder` is split by what it does: `Confirm`,
`StartPreparing` (reserves), `FinishPreparing` (consumes), `Deliver` (charges
the stay's folio), `PayOrder`. `AdvanceOrderItem` sets one line to any status,
and its two conditions read the order as it was at the beginning, as the code
does. `ReadToCancel` and `CancelCustomerOrder` are the two halves of a
customer's cancellation. One inventory item and one dish stand for all; the
requirement of an order is worked out anew by each command, from the recipe of
the moment. The constant `Commands` chooses which commands are in use.
`SettleReservation` marks every order of an account as paid; with a drawer open
and something to pay it fails, since its movement has a reference of 51
characters and the column 48 (`amenities.service.ts:623`,
`cash.schema.ts:33`).

### Suppliers: `suppliers/`

Composes deliveries with `RestaurantOrders`, whose `stock` they add to. A purchase
order goes `draft`, `sent`, `received` (or straight to `received`);
`RestockFromSupplier` takes stock in without one, once per supplier and key, since
only the receipt of the command stands in the way of a second time. `delivered`
counts the rows of `inventory_ledger` by the document they refer to. Suppliers are
active or archived, of one tax id each (`TaxIdIsFree` is the partial unique index),
and the item belongs to one of them (`suppliedBy`). Versions are left out: they only
refuse commands.

### EventSpaces: `events/`

An event has a `status`, a hall, its own interval (`from`, `to`), the `margin` to
set up before and clear away after it (`startsAt` and `endsAt` of the row are the
interval with its margin) and a `version`. `lapsed` says that the `expiresAt` of a
pre-reservation is over (`HoldLapses` is the clock); it is written off as
`cancelled`, by the next pre-reservation (`CreateCustomerPreReservation`) or by
any customer who lists events (`ListCustomerEvents`), which holds no lock and
leaves the version. A `screen` is the event one of the staff has open: the version
that a command sends (`IsUpToDate`). Commands hold the property's lock and are one
step, but for `confirmEvent`: its checks (`BeginConfirm`) and its UPDATE
(`FinishConfirm`), which writes the status whatever it has become, can have a
customer's list in between. The margin of an event is that of the policy when it
was created or moved, or none; policies change freely, so that any of `Margins`
may be met at any time. Prices, services, guests, deposits and least durations
can only refuse commands.

### Access, Personnel: `auth/`, `accounts/`, `staff/`

A token is a row of `sessions`, live or revoked, whose `age` is what the clock has
made of it; a row of `login_attempts` is its count, whether its window is `over` and
the state of its block. A `request` is what a call knows between two statements: a
login that passed `assertAllowed` (`allowed`), whose password was right (`trusted`);
a call whose session was read (`read`), renewed (`served`) or is about to be ended
(`ending`); an archiving that has read its person. Commands on accounts run under
the locks of the property and the account and are one step of a request that is
served: `CreateAccount`, `ApproveGoogleRequest`, `RejectGoogleRequest`,
`UpdateAccount` (with `assertAccountTransitionSafe`), `ResetPassword`,
`ChangePassword`. Logins and `SessionService.resolve` hold no lock: between
`VerifyPassword` and `CreateSession` an account may be disabled, between
`ReadSession` and `TouchSession` a session revoked. `Personnel` adds people:
`archiveStaff` reads the person in one step (`ReadForArchive`) and in another writes
what follows, to the account it read.

### Attendance: `attendance/`

Reports by hand or by a reader look for their key (`ReportPunch`), insert
(`InsertPunch`; `attendance_events_idempotency_unique` decides). Who loses at the
index gets an error: the branch that would look for the punch that won is never
taken (section 6). A report with a code is verified before the lock is taken
(`VerifyCode`) and made under it (`PunchWithCode`): the person from the report or
from the account, the movement from the report or from the last punch, the code
used up. Codes are named by the moment at which they were made, one at each `Tick`;
`CleanupExpiredNonces` forgets used ones. A correction is read in one step and
decided in another.

### Parking: `parking/`

A registration is its status, its slot (place and plate, which are checked alike),
its stay and its fee. `Create` and `Exit` hold the lock; an update looks for the slot
in one step (`ReadForUpdate`) and writes in another (`WriteUpdate`). The charge of an
entry is posted on the folio of the stay, which must be open (`closed`).

### StaffScreens: `Fronted/src`

Seventeen hooks and forms of the front end do the same things in slightly different
ways, and the model says so: an action is what all of them do, and a screen is two
records of how it does it. `StayCommand` to `FolioForm` are the commands: whether late
answers are told by a generation of their own, by the one of the loads or not at all;
whether the key of a form outlives a failure; whether the answer is put into the list
and the list loaded again; what happens when an answer is lost; what the screen asks
before it takes a command, and whether something is stored between the asking and the
sending. `StayList` to `FolioList` are the lists: whether the socket reloads them, what
a load that was replaced gives to who waits for it, and whether the answers to the
commands of other screens are put in them (`PatchArrives`; bare where one of them is
not followed by a load, as that of `updateCategory`). The server is a version that
every change counts up, and for each key the version its command made. A request holds
the version the server read it at; a list shows the version it was last given; a load
stands for all the lists a hook loads together. An operator enters, leaves, asks for
the list, fills in and sends forms; a command may be applied without the screen hearing
of it (`FailureArrives` before `ServerApplies`), a load may fail, the socket may come
and go and loses what was on its way.

A command is asked for and sent in one step (`Submit`) where the code does both before
its first `await`; where it draws up a contract or stores photos in between, these are
`Prepare` and `SendPrepared`, and the second asks nothing. What is kept of a form is
which form it is: every edit, and every other form that is opened, is `Edit`, which
makes it another form without a key (`FolioPanel.jsx` and `OrdersView.jsx` drop the key
in the handlers of their fields). `Leave` is the end of the session, or of the panel of
the folio: it unmounts what would hear of the requests under way.

## 3. What is checked

| run | instance | what it shows |
|---|---|---|
| `outbox` | 2 replicas, 2 events, batches of 2, 2 attempts, 1 requeue, fair timers | types; nothing is `sent` that was not published; publications are bounded by the attempts; a lease is respected by late workers; the promise is implemented; every event settles or is parked |
| `hotel_house` | 1 room, 2 reservations, 2 stays, 3 tasks, 1 incident, 3 days, every desk | types; a room in cleaning can always be released; `RoomOccupancy` is implemented |
| `hotel_rooms` | 2 rooms, 2 reservations, 2 stays, 2 tasks, 2 tickets, 3 days, no incident desk or tasks by hand | the status of a room tells whether a guest is in it, a task is open for it or a ticket holds it; rooms on sale are clean; no overlap |
| `folio_ledger` | 1 stay, 1 order, 4 commands of clients and 1 of a cashier, amounts 1 and 2, 2 drawers | receivable and balance agree; cash and folio agree; closed drawers stay; `GuestAccount` is implemented, which has that who left settled owes nothing, for ever |
| `restaurant_staff` | 2 orders of 1 line, 1 stay, stock 3, corrections, 1 command of the desk, 1 supplier with 2 purchase orders and 1 delivery without | reserved stock is that of orders in preparation; what is served was consumed; stays owe for what was delivered; only corrections oversell; every step is one of the ledger; a purchase order reaches the stock once |
| `restaurant_lines` | 2 orders of 2 lines, recipes of 1 and 2, stock 4 | no negative quantity; an order takes its stock once, whatever its lines do |
| `restaurant_tabs` | 1 order, 2 bookings of 2 people, 2 rules of a zone (in one row), 1 stay, 1 drawer, customers | no order still to be paid is left on a settled account; whoever is booked in fits, all the time of the booking |
| `house_services` | access: 2 accounts, 2 sessions that age, 2 requests, 2 failures, 2 people, 2 roles; punches: 2 keys, 2 reports, 3 moments; 2 vehicles, 2 places; 2 events, 1 hall, 3 instants, 4 versions | whoever is served is what the account is at that moment; failures are bounded; whoever is answered for a key of a punch is answered with the one punch it has; a code on the screen punches once; entries share no place; events the hotel has taken on never need the hall at once, margins included, and a hold keeps the hall for the event itself; a version names what was shown |
| `staff_screens` | 18 pairs of a command and a list, 2 commands, 3 versions, 2 to 4 acts of the operator | no reservation is created after one that was lost before the list was loaded anew; a list that falls back is being put right (not so of rooms); a form sent again as it is acts once; what an event told of orders is shown |

and three runs in which TLC finds a statement of the repository violated
(section 6). Every property has a mutant: a changed definition (the operators
under comments "A bug to catch") under which TLC finds it violated.

**Side by side.** `MCHouseServices` moves one part in each behaviour: the services
share no state but the link of a person to an account, so that their product would
show nothing that the parts do not. What is about accounts is split in four: logins,
of accounts that stay as they are (`LoginStep` alone); sessions that age, turn idle and
expire while accounts of one role are changed; accounts of both roles, with sessions
that do not age, of people that stay; people, with accounts of one role and sessions
that do not age. `Personnel` with everything moving is larger than the time a run may
take.

**Bounds.** Ids of rows are handed out once, and the sets of ids bound the
number of commands: this is the only bound on behaviours besides `MaxStock`
(guard of `AdjustInventory` and `TakeIn`), `MaxRequeues`, `Horizon` (the last moment of
attendance), `MaxVersion` (of events: four versions let an event be moved once and
confirmed, or completed; what comes after is left to the proofs), and the
`MaxVersion`, `MaxSubmits` and `MaxActs` of the screens (two commands and one change
of somebody else; four acts are to enter, to send two commands and to ask for the
list or change the form in between, or to leave and come back; three where the socket
or a command in preparation acts as well, two where the socket does and other screens
show the same). A code is shown for a moment and accepted
for one more, so that three moments have it shown, late and gone. Two events and a hall suffice for properties of
pairs, one of the staff for those of a screen. Two rooms and two reservations
suffice for properties about pairs; three days give intervals that overlap, touch
and are apart. Two bookings of two people meet in a zone for three, or lie apart, as the
rules' durations have it. Two of `folio_ledger`'s amounts allow partial payments and
over-collection; four commands are a charge, two collections and a reversal, with
check-out and the order's charge besides. Two replicas and two attempts let a
lease expire and pass on, and its first owner come back. `Outbox.cfg` has two
action constraints: `TokensInTurn` (tokens are taken in order, which is their symmetry
by hand, as a run with a liveness property may declare none) and `RequeuedAlone`
(one event is requeued only where there is no other: two events dispatched together,
or one that is requeued, but not both in one behaviour). Four
tokens are enough never to block a claim. Symmetry is used for ids that are only
compared for equality (rooms, keys, drawers, orders, lines; sessions and requests in
`house_services`), and in no run with a liveness property.

**Fairness.** Two runs assume any. `outbox`: the timer of a replica keeps
firing and every `await` ends, one way or the other (weak fairness of each
phase, over the disjunction of success and failure); clocks advance
(`BackoffElapses`, `LeaseExpires`); and a claim transaction that is opened again
and again commits in the end (strong fairness of `CommitClaim`: replicas may
crash for ever, but not inside every claim). `staff_screens`: the server reads what
a load asks for (`Loading`) and the network brings the answer or gives up
(`LoadEnds`, either way); commands, events and people are not fair. Crashes,
failures and requests of clients never are. The services answer requests and owe
nobody progress, so nothing else is claimed to happen eventually. `CHECK_DEADLOCK`
is off, as every model ends when its ids, versions or acts are used up.

## 4. What is proved

Every safety property that a passing run checks is a theorem, for all values of the
constants: any number of rooms, replicas, accounts, orders, lines, screens, commands,
and any bounds. The constants are under the named `ASSUME`s of the modules: ids are
numbers or not `NULL`, limits and amounts are positive, and

* keys are told apart: the keys of clients are UUIDs, those of restaurant charges the
  ids of orders, those of their reversals the ids of entries (`KeysAreApart`);
  `login_attempts` has a key of two columns (`KindsAreApart`); the documents of a
  delivery are an order or a pair of supplier and key (`OrdersAreNoPairs`);
* tables are finite where their rows are added up or counted (`OrdersAreFinite`,
  `TabsAreFinite`, `RequestsAreFinite`), without a bound on their size;
* a screen has a record of the kind the hooks have (`ScreensAreKnown`), and whoever
  verifies has a generation of its own, while no key is kept where loads and commands
  share one (`ScreensAreFenced`): so it is in all of them, which TLC checks.

Some theorems say what holds only while the gaps of section 6 are not used; their
hypothesis is on `Desks` or `Commands`, the constants that choose what is in use, and
the run that checks the property meets it.

| theorems | hypothesis | because otherwise |
|---|---|---|
| `StatusIsReliable`, `RoomsAreSoldClean` | `OnlyMaintenance`: no incident desk, no tasks by hand | a task by hand changes the status under a guest; an incident that is resolved puts a dirty room on sale (run `hotel_dirty_room`) |
| `StockIsHeldForOrders`, `ServedOrdersWereConsumed` | `WholeOrders` (staff advances orders as a whole, no customer cancels) and an unchanged recipe | a line finishes an order on the stage read before; a late cancellation never gives back what was reserved; stock is released by the recipe of the day |
| `DeliveriesAreCharged` | `WholeOrders` | a line makes an order `Listo` again that was charged; a late cancellation leaves the charge (run `restaurant_late_cancel`) |
| `SettledAccountsAreClear` | orders are not advanced by lines | a cancelled order comes back on an account that was settled |

TLC finds each of them violated when the hypothesis is dropped from its run.

**Outbox** (`OutboxProofs`). `SentWasPublished` is not inductive: a worker may
be about to mark a row that it has published, and a claim may meet a row that was
settled between its SELECT and its UPDATE. The inductive invariant `OutboxInv`
adds `LockDiscipline` (a row locked by a claim is still eligible: settling waits
for the lock), `CurrentWasPublished` (a replica in the phase `published` has
published its current row) and `ClaimsAreRows`. From it: `TypeCorrect`,
`NoUnpublishedEventSent`, `SentStaysSent` and `DispatchImplementsPromise`, where
each step of a replica is mapped to `Deliver`, `Settle`, `Park`, `Reopen` or a
stutter. `LeasesAreRespected` needs besides that a row that was claimed anew was
expired when its claim locked it (`LockedIsExpired`). `PublicationsAreBounded` counts:
`PublicationsArePaidFor` adds to the publications of an event the replicas that still
owe it one (those with a claim of it, under a lease or without, that has not come to
its row), and bounds the sum by the attempts that were taken; a requeue, which sets the
attempts back, pays for as many more. Leases are what it does not need: an expired one
only means that two replicas owe the same event.

**Hotel** (`HotelProofs`). `OccupancyInv` conjoins types, `NoDoubleBooking`,
`OneActiveStayPerRoom` and `StayMatchesReservation`, which need one another: a
check-out completes the reservation of its stay, and the exclusion constraint
must speak about the same rows as the unique index. Proved once per action of the
front desk; the other desks leave reservations and stays alone
(`OtherDesksMoveNobody`). `CleaningCanBeFinished` is separate: a room enters
`cleaning` only together with a task, and a task that is approved takes its room
out. `HotelImplementsOccupancy` maps every command to a booking, an arrival, a
departure or a stutter of `RoomOccupancy`. The status of a room follows from
`StatusInv`, proved of the front desk, of housekeeping and of tickets with
`OccupancyInv` beside it: `GuestsAreTold` (occupied exactly with an active stay),
`TicketsAreTold` (out of service exactly by one ticket, which alone names the room as
blocked) and `CleaningIsOwed` (the task of a departure that is not approved holds its
room in cleaning, and there is one at most).

**Event spaces** (`EventProofs`). Nothing but the checks of the service keeps
events apart, and one of them, that of `confirmEvent`, is used a step after it was
made. The inductive invariant `EventsInv` conjoins types, `OperationalNeverOverlap`
and `HoldsAreHonoured`, which need one another (a hold becomes an event, and an
event must stay clear of holds), with `CheckStillHolds`: what was checked for the
event that is being confirmed still holds, because all that goes on outside the
lock only stops events from blocking halls (`NoNewBlocks`). Commands that make an
event block a hall go through `OneNewBlock`. `ScreensShowThePast` (no screen is
ahead of its event) makes `VersionIdentifies` inductive: whoever counts the version
up leaves all screens behind (`ScreensFallBehind`). The margins may be any
durations, and the proof needs that they are not negative.

**Sums** (`SumTheorems`). The ledger and the restaurant add over sets of rows.
`SumFunctionOnSet` takes the elements in the order `CHOOSE` gives them; that the sum
does not depend on it, and what one element more, one less or one changed does to it
(`SumWith`, `SumWithout`, `SumSame`, `SumOfPart`), is proved here once. There is no
induction over an operator: a lemma looks at a smallest set for which it would fail
(`MinimalSet`), and takes an element out of that.

**Ledger** (`LedgerProofs`). `ReceivableIsBalance` relates a stored number to a sum of
entries, and holds because a reversal takes back an entry of that stay, once:
`EntriesAreSound` says so, with keys that are unique among entries, and is proved
with it (`LedgerInv`, with types, `CashMatchesLedger` and `ClosedDrawerIsFinal`).
An operation that posts is first brought to one form, an entry appended with its
movement if it is in cash; what that does to the balance and to the drawer is proved
once (`AppendedBalance`, `MovedAmount`). `LedgerImplementsAccount` maps a posting to
life in the house, a repayment or its reversal, and check-out to the two ways to leave
in `GuestAccount`.

**Restaurant** (`RestaurantProofs`). Theorems are about `RestaurantSpec` and about
`StoreSpec`, which adds the suppliers, unless they are about one of them alone.
`RestaurantImplementsLedger` is the composition: every command of the restaurant,
the zone and the suppliers is a step of the ledger or none, so that
`RestaurantKeepsTheBooks` follows from the theorems above without looking at an order.
`StockIsTakenOnce` and `NothingOversells` hold whatever is in use: an order that has
taken its stock is `Consumido` for ever (`Taken`), though its status may come back.
`StockIsHeldForOrders` needs that the status of an order tells the stage of its
inventory, the stage what was posted (`Holding`), and that the column `reserved` is
the sum of what orders hold (`ReservedAddsUp`). `DeliveriesAreCharged` needs that the
key of a charge is used exactly by orders that were delivered and that only the desk
or the order's own cancellation reverses it (`ChargeSound`). `BookingsFit` shows that the sum
over all bookings which the code makes bounds the people of every instant.
`SettledAccountsAreClear` and `OrdersAreReceivedOnce` are almost inductive.

**Access** (`HouseProofs`). The inductive `AccessInv` has, beside the types and the one
session of an account, `GrantsHold`: what a request has read of the account is still
so, or its session has ended; every command that changes a role or a status ends the
sessions. `RequestsServedAsGranted` needs just that, as the UPDATE that renews a
session demands a live one. `GuessesAreLimited` counts: while a block runs, the
failures and the logins let in before it are at most the limit and one less than the
requests there are (`FailuresAreCounted`).

**Attendance** (`HouseProofs`). `AnsweredWithOwnPunch` says that who is answered for a
key is answered with the one punch the key has, and with what it asked for; it needs
that keys are unique among punches, which only the index sees to, as the look for the
key comes a step before. `CodePunchesOnce` needs that a used code is remembered until
it is shown no longer (`UsedCodesAreKept`).

**Parking** (`HouseProofs`). `PlaceHoldsOne` is inductive with the types and with
updates being of vehicles that are registered.

**Screens** (`ScreensProofs`). One proof for all screens: each conjunct of `ScreensInv`
holds under the feature of the screen it needs. At most one command is current where
there is a fence (`OneIsCurrent`); at most one load is, and what it reads is no older
than what was shown, if all that is put in the list is put right (`LoadsAreNewest`;
`IsPutRight` is a condition on the records of the screen, which rooms do not meet);
where commands and loads share a generation, and nothing else touches the list, a
command and a load are never current together, so that no answer is older than the list
(`SharedIsFresh`); where commands are verified by their result and sent when they are
asked for, none is current and the buttons are not ready while the end of one is not
known (`BlindIsBlocked`); and a form that keeps its key has sent no other as long as it
was not changed (`KeysAreKept`, `OneKeyEach`).

`SentIsFinal`, `OneActiveStayPerRoom`, `StayMatchesReservation` and `EntriesAreSound`
are proved and not run: `OutboxPromise`, `RoomOccupancy` and `GuestAccount`, which are
checked, imply most of what they say of the instances.

**Only model-checked.** Liveness, `EveryEventSettles` and `CatchesUp`: fairness speaks
of what is enabled, which the prover cannot reason about. That each property can fail
(its mutant), and that what it is about happens within the bounds, is also for TLC
alone to show.

## 5. What is not modelled

Data that no property tells apart: texts, currencies and cents, units of stock,
evidence, responsible accounts, pagination, audit rows. Guests,
companions and capacities only refuse commands. What a role permits is left out, as a
permission only refuses; that a role is the one the account has at that moment is
`ServedAsGranted`. The menu and its import, documents, experiences, communications,
guests, pets and roles are records that one transaction edits: no two actors of them
wait for, or rely on, each other. Work schedules and shifts are left out of
`Personnel`; section 6 says what was seen there.

Most of the repository's lines are none of this. Four fifths of the two front ends are
views: markup, styles, texts and the checks of forms, which the server makes again; of
the backend, a third is the schema as columns, the parsing of requests and the shapes
of answers, and most of a service's lines are the values of an INSERT and the audit
row that goes with it. A module about them would repeat them. Of the front ends the
project models what can go wrong between two parties: how requests are sent, told
apart, repeated and followed by events. `suppliers/useSuppliersResource.js`,
`hooks/useStaffResource.js` and the hooks of events and amenities fence nothing and
are not in `StaffScreens`; neither is the customers' front end, which loads when a
page opens. `PROJECT.json` gives the reason for each component that has no module.

## 6. What the models found

Checked by a run each:

* `last_administrator`: archiving a person disables the account linked to it
  (`staff.service.ts:165`) without a look at who else administers.
* `hotel_dirty_room`: an incident on a room in cleaning blocks it, and resolving
  it sets the room to `available` (`incidents.service.ts:214`) with the cleaning of
  the last departure still pending.
* `restaurant_late_cancel`: a customer's cancellation, read before the delivery
  and written after it, leaves the charge on the folio (`restaurant.service.ts:832`).

Seen while modelling, part of the models as the code is, with no run of their own.

In the house:
a cleaning task opened on an occupied room sets it to `cleaning`
(`cleaning.service.ts:86`), and check-out demands `occupied` (`stays.service.ts:91`),
so that the stay cannot be closed, although
`openspec/specs/persistent-stay-lifecycle/spec.md:28` lets an active stay check out;
when the lines of an order become ready at once, `advanceOrderItem` reserves, and
then marks the order as consumed on the stage it read at the beginning
(`restaurant.service.ts:487`; TLC shows it when `"lines"` is added to the `Commands`
of `RestaurantStaff.cfg`);
`OUTBOX_MAX_ATTEMPTS` has no effect, as the column it stands in for is never null
(`outbox.service.ts:172`); an order whose charge was reversed at the desk can
never be cancelled (`folio.service.ts:63`); setting a line of a cancelled or paid
order brings the order back (`restaurant.service.ts:480`); settling an account
marks orders still in preparation as paid, and what they reserved is never
released (`amenities.service.ts:605`); a settlement with a drawer open and
something to pay always fails (`amenities.service.ts:623`); a manual pass without a
stay always fails, as the row has no owner (`amenities.service.ts:275`,
`0028_external_amenity_reservations.sql:3`), although it is priced as a visitor's;
a customer who has entered can order on the booking no more, which must be
`confirmed` (`restaurant.service.ts:954`); a supplier is archived only when no
active item is its own, but an archived one is given items by each delivery and
assignment (`suppliers.service.ts:358`, `suppliers.service.ts:122`); a hold that is written
off between the checks of its confirmation and the UPDATE is confirmed all the same,
harmlessly, as the checks still hold (`events.service.ts:501`); a pre-reservation sent
again is refused, as its receipt is stored under another operation than it is looked
up by (`events.service.ts:347`); a completed event may be confirmed anew
(`events.service.ts:495`).

Of people and cars: archiving disables the account that was read, from which the
person may have been unlinked meanwhile (`staff.service.ts:155`); its UPDATE of work
schedules, `staffId = x AND validTo IS NULL OR validTo > NOW()`, ends assignments of
other people (`staff.service.ts:181`); a login makes a session for an account that was
disabled after its password was verified (`auth.service.ts:45`), which
`ServedAsGranted` shows to be harmless; a code is accepted for a while after it may
have been forgotten as used (`dynamic-qr.service.ts:141`), so that `CodePunchesOnce`
speaks of codes on the screen, and a punch with a code that is repeated after the code
ran out is refused, not answered (`attendance.service.ts:383`); of two decisions on a
correction the later stands (`attendance.service.ts:346`); two updates may share a
place (`parking.service.ts:84`); an update changes the fee and the stay of a
registration and not the charge, so that a repeated exit refuses
(`parking.service.ts:115`). The clauses that recognise a lost unique index look at
`error.code` (`attendance.service.ts:153`, `suppliers.service.ts:582`,
`postgres-error.ts:6`), while the version of drizzle-orm in `package-lock.json:4557`
wraps the driver's error: they are never taken. Nothing is lost by it, as the
transaction is undone and the command may be sent again, but a punch that was reported
twice at once is answered with an error and not with itself, and so it is in
`InsertPunch`; elsewhere a command that loses is no step, whatever its error says.

On the screens: after a reconciliation that failed, check-in and check-out stay
blocked until the session ends, as nothing lifts the block but a reset, or a check-in
that was asked for before and is sent after (below)
(`useStayCommands.js:44`, `hotelReducer.js:598`), although the message asks to refresh and
`docs/frontend-quality/phase-5-journey-matrix.md` has the block last until a successful
reconciliation; in cleaning and maintenance a reload that was overtaken counts as
reconciled (`useOperationalCommands.js:38`), although line 83 of the same document has
an answer that is ambiguous reconciled before another attempt is allowed; a check-in
asks whether commands are blocked, then awaits the signed contract
(`CheckInOutView.jsx:33`, `CheckInOutView.jsx:82`), and `runStayCommand` asks nothing:
a check-out that is lost meanwhile, from another dialog once this one was closed, is
followed by a check-in sent blindly, which also lifts the block. Photos of cleaning and
maintenance come between in the same way (`CleaningView.jsx:88`). So `NoBlindRetry`
speaks of the creation of reservations, which looks at the result of the verification
and sends when it is asked; TLC finds it violated of stays when their exemption is
dropped. Rooms have one generation
for loads and commands (`useRoomCommands.js:95`): a command drops the reload an event
asked for, and the event of a command drops its answer; `updateCategory`
(`useRoomCommands.js:60`) has none at all, is neither aborted nor followed by a load,
and its late answer replaces the categories and rooms of a newer list and leaves the
request of rooms as `saving` (`hotelReducer.js:742`). An event of the change comes from
the server and loads rooms again, if the socket is connected, but may come before the
answer. So `CatchesUp` and `RegressesOnlyWhileReloading` exclude rooms. What commands
on incidents and on the drawer commit (`INCIDENT_CREATED`, `CASH_SESSION_OPENED` and
their like) no case of `hotelReducer.js` takes: an incident is not seen until its list
is loaded again, which its commands do not do (`useOperationalCommands.js:66`). Events
missed while the socket was away are not caught up on. The form of the folio drops its
key with every edit (`FolioPanel.jsx:310`, `FolioPanel.jsx:363`), so that a form that
was changed after its answer was lost is a second command, as `ActedOnce` has it; but
the forms of payments and charges share the amount, and each handler drops the key of
its own form only: a charge that was lost, and is sent again after its amount was
changed on the tab of payments, has its old key, and the folio, which keeps no
fingerprint, answers it with the first. That is not in the model, whose forms have no
fields.

## 7. Plan

Done: the modules and runs of section 3, and proofs of all their safety properties.
Next, in this order:

1. Receipts and their fingerprints as a module over any handler, against the
   abstract specification that a key has its effect once; the amount that two forms of
   the folio share, with a key each, belongs there.
2. Work schedules in `Personnel`: assignments that end by mistake when another person
   is archived.
3. `EventSpaces` as a refinement of a promise like `RoomOccupancy`'s, with expiry,
   the policies of halls as state, and its proof.
4. Proofs of what a hypothesis on `Commands` sets aside: what remains true of stock and
   charges when orders are advanced line by line or cancelled by customers.
5. Amenities with two zones that are renamed, and blocks if they come to be read.
