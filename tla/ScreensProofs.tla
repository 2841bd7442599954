---------------------------- MODULE ScreensProofs ----------------------------
(***************************************************************************)
(* For every screen whose commands are fenced as those of the code are,    *)
(* and any number of commands, loads and events: where a command is sent   *)
(* when it is asked for, none is taken while a lost one was not verified;  *)
(* where all that is put in a list is put right, what is shown goes back   *)
(* only under a load or a notice; and a form that is sent again as it is   *)
(* acts once.  What makes it so is which requests are still current: at    *)
(* most one command, no command beside a load where they share a           *)
(* generation, and no load that was overtaken by what is already shown.    *)
(***************************************************************************)
EXTENDS StaffScreens, TLAPS

Phases == {"unused", "sent", "answered", "refused", "over"}
Buttons == {"ready", "saving", "reconciling", "blocked"}
Keys == 0 .. MaxSubmits
AttemptRows == [phase : Phases, form : Nat, key : Keys, version : Nat, current : BOOLEAN]
LoadRows == [read : Nat, current : BOOLEAN, awaited : {"none", "verify", "late", "button"}]
ListRows == [shown : Nat, seen : Nat, told : Nat, failed : BOOLEAN]
DeskRows == [ui : Buttons, form : Nat, kept : Keys, prepared : BOOLEAN, blind : BOOLEAN]

ScreensTypeOK ==
    /\ screen \in Screens /\ server \in Nat /\ receipts \in [Submissions -> Nat]
    /\ attempts \in [Submissions -> AttemptRows]
    /\ loads \subseteq LoadRows /\ list \in ListRows /\ desk \in DeskRows /\ attended \in BOOLEAN
    /\ patches \subseteq Nat /\ (screen.list.patched = "never" => patches = {})
    /\ desk.form # 0 /\ (desk.prepared => screen.command.prepares)

-----------------------------------------------------------------------------
(* What is current: a command on an open screen only, and one at a time where
   there is a fence. *)
IsUsed(n) == attempts[n].phase # "unused"
AttemptIsSound(n) ==
    /\ IsUsed(n) => attempts[n].form \in 1 .. desk.form /\ attempts[n].key \in Submissions
    /\ ~IsUsed(n) => attempts[n].form = 0
    /\ attempts[n].current => IsUsed(n) /\ attended
AttemptsAreSound == \A n \in Submissions : AttemptIsSound(n)

OneIsCurrent ==
    screen.command.fence # "none" =>
        \A m, n \in Submissions : attempts[m].current /\ attempts[n].current => m = n

Verifies ==
    screen.command.onFailure = "verifies" /\ screen.command.checks # "no" /\ ~screen.command.prepares
BlindIsBlocked ==
    Verifies /\ desk.blind =>
        desk.ui \in {"reconciling", "blocked"} /\ \A n \in Submissions : ~attempts[n].current

(* No version is known that the server did not make.  At most one load is current,
   and if it was read it is of a version no older than what was shown. *)
VersionsAreKnown ==
    /\ list.seen <= server
    /\ \A l \in loads : l.read <= server
    /\ \A version \in patches : version <= server
    /\ \A n \in Submissions : receipts[n] <= server /\ attempts[n].version <= server
LoadsAreNewest ==
    /\ \A l, r \in loads : l.current /\ r.current => l = r
    /\ IsPutRight => \A l \in loads : l.current /\ l.read > 0 => list.seen <= l.read

(* Where commands and loads share a generation, and no other screen puts answers in
   the list, only one of them is current, so that nothing newer is shown between a
   command and its answer. *)
IsFresh == Shares /\ screen.list.patched = "never"
AnswerIsNewest(n) ==
    /\ IsUsed(n) => attempts[n].key = n
    /\ attempts[n].phase \in {"unused", "sent", "refused"} => receipts[n] = 0
    /\ attempts[n].current /\ attempts[n].phase = "answered" => list.seen <= attempts[n].version
SharedIsFresh ==
    IsFresh =>
        /\ ~((\E n \in Submissions : attempts[n].current) /\ \E l \in loads : l.current)
        /\ list.shown = list.seen
        /\ \A n \in Submissions : AnswerIsNewest(n)

(* Where keys are kept: the form keeps the key of the commands it was sent with as it
   is, and so all of them had the same. *)
KeysAreKept ==
    screen.command.keeps =>
        \A n \in Submissions : IsUsed(n) /\ attempts[n].form = desk.form => desk.kept = attempts[n].key
OneKeyEach ==
    screen.command.keeps =>
        \A m, n \in Submissions :
            IsUsed(m) /\ IsUsed(n) /\ attempts[m].form = attempts[n].form => attempts[m].key = attempts[n].key

ScreensInv ==
    /\ ScreensTypeOK /\ AttemptsAreSound /\ OneIsCurrent /\ BlindIsBlocked /\ VersionsAreKnown
    /\ LoadsAreNewest /\ SharedIsFresh /\ KeysAreKept /\ OneKeyEach /\ RegressesOnlyWhileReloading

-----------------------------------------------------------------------------
(* Rows: of commands, lists and the desk. *)
Alike(q, r) == q.phase = r.phase /\ q.form = r.form /\ q.key = r.key /\ q.version = r.version

LEMMA AttemptFields ==
  ASSUME NEW r \in AttemptRows
  PROVE  /\ r.phase \in Phases /\ r.form \in Nat /\ r.key \in Keys /\ r.version \in Nat /\ r.current \in BOOLEAN
         /\ r = [phase |-> r.phase, form |-> r.form, key |-> r.key, version |-> r.version, current |-> r.current]
  BY DEF AttemptRows

LEMMA ScreenFields ==
  ASSUME NEW s \in Screens
  PROVE  /\ s.command.fence \in {"own", "shared", "none"} /\ s.command.keeps \in BOOLEAN
         /\ s.command.reloads \in BOOLEAN /\ s.command.commits \in BOOLEAN /\ s.command.prepares \in BOOLEAN
         /\ s.command.checks \in {"no", "own", "any"} /\ s.list.patched \in {"never", "reloaded", "bare"}
         /\ s.command.onFailure \in {"verifies", "reloads", "asAdvised", "nothing"}
         /\ s.command.onFailure = "verifies" => s.command.fence = "own"
         /\ s.command.keeps => s.command.fence # "shared"
  BY ScreensAreKnown, ScreensAreFenced

(* Of the screens that verify, none takes an overtaken load for an answer. *)
LEMMA SettledButtons ==
  ASSUME NEW u \in Buttons, NEW awaited
  PROVE  /\ \A content \in BOOLEAN : Settled(u, awaited, content) \in Buttons
         /\ Settled(u, awaited, FALSE) \in {u, "blocked"}
         /\ OvertakenWillDo \in BOOLEAN /\ (Verifies => ~OvertakenWillDo)
<1>1. "ready" \in Buttons /\ "blocked" \in Buttons
  BY DEF Buttons
<1>2. QED
  BY <1>1 DEF Settled, OvertakenWillDo, Verifies

LEMMA SupersededAttempts ==
  ASSUME ScreensTypeOK
  PROVE  /\ Superseded(attempts) \in [Submissions -> AttemptRows]
         /\ \A n \in Submissions : Alike(Superseded(attempts)[n], attempts[n])
                                   /\ ~Superseded(attempts)[n].current
<1>1. ASSUME NEW r \in AttemptRows
      PROVE  /\ [r EXCEPT !.current = FALSE] \in AttemptRows
             /\ Alike([r EXCEPT !.current = FALSE], r) /\ ~[r EXCEPT !.current = FALSE].current
  BY AttemptFields DEF AttemptRows, Alike
<1>2. \A n \in Submissions : attempts[n] \in AttemptRows
  BY DEF ScreensTypeOK
<1>3. QED
  BY <1>1, <1>2 DEF Superseded

LEMMA OvertakenLoads ==
  ASSUME ScreensTypeOK
  PROVE  /\ Overtaken(loads) \subseteq LoadRows
         /\ \A l \in Overtaken(loads) : ~l.current /\ \E r \in loads : l.read = r.read
<1>1. \A r \in LoadRows : LET q == [r EXCEPT !.current = FALSE, !.awaited = "none"] IN
        q \in LoadRows /\ ~q.current /\ q.read = r.read
  BY DEF LoadRows
<1>2. \A r \in loads : r \in LoadRows
  BY DEF ScreensTypeOK
<1>3. QED
  BY <1>1, <1>2 DEF Overtaken

LEMMA ReloadedLoads ==
  ASSUME ScreensTypeOK, NEW awaited \in {"none", "verify", "late", "button"}
  PROVE  /\ Reload(awaited) \subseteq LoadRows
         /\ \E l \in Reload(awaited) : l.current
         /\ \A l \in Reload(awaited) : l.current => l.read = 0
         /\ \A l, r \in Reload(awaited) : l.current /\ r.current => l = r
         /\ \A l \in Reload(awaited) : l.read = 0 \/ \E r \in loads : l.read = r.read
<1> DEFINE new == [read |-> 0, current |-> TRUE, awaited |-> awaited]
<1>1. new \in LoadRows /\ new.current /\ new.read = 0
  BY DEF LoadRows
<1>2. Reload(awaited) = Overtaken(loads) \cup {new}
  BY DEF Reload
<1> HIDE DEF new
<1>3. QED
  BY <1>1, <1>2, OvertakenLoads

(* Another command is sent after the one that is verified. *)
LEMMA LateLoads ==
  ASSUME ScreensTypeOK, LoadsAreNewest,
         NEW late, late = {[l EXCEPT !.awaited = IF @ = "verify" THEN "late" ELSE @] : l \in loads}
  PROVE  /\ late \subseteq LoadRows
         /\ \A l, r \in late : l.current /\ r.current => l = r
         /\ \A l \in late : \E r \in loads : l.read = r.read /\ (l.current <=> r.current)
         /\ (\E r \in loads : r.current) => \E l \in late : l.current
<1> DEFINE After(l) == [l EXCEPT !.awaited = IF @ = "verify" THEN "late" ELSE @]
<1>1. \A l \in LoadRows : After(l) \in LoadRows /\ After(l).read = l.read /\ After(l).current = l.current
  BY DEF LoadRows
<1>2. late = {After(l) : l \in loads} /\ \A l \in loads : l \in LoadRows
  BY DEF ScreensTypeOK
<1>3. \A l, r \in loads : l.current /\ r.current => l = r
  BY DEF LoadsAreNewest
<1> HIDE DEF After
<1>4. QED
  BY <1>1, <1>2, <1>3

LEMMA DeskFields ==
  ASSUME NEW d \in DeskRows
  PROVE  /\ d.ui \in Buttons /\ d.form \in Nat /\ d.kept \in Keys /\ d.prepared \in BOOLEAN /\ d.blind \in BOOLEAN
         /\ d = [ui |-> d.ui, form |-> d.form, kept |-> d.kept, prepared |-> d.prepared, blind |-> d.blind]
         /\ \A u \in Buttons : LET q == [d EXCEPT !.ui = u] IN
              /\ q \in DeskRows /\ q.ui = u /\ q.form = d.form /\ q.kept = d.kept
              /\ q.prepared = d.prepared /\ q.blind = d.blind
  BY DEF DeskRows

LEMMA ListFields ==
  ASSUME NEW d \in ListRows
  PROVE  /\ d.shown \in Nat /\ d.seen \in Nat /\ d.told \in Nat /\ d.failed \in BOOLEAN
         /\ d = [shown |-> d.shown, seen |-> d.seen, told |-> d.told, failed |-> d.failed]
         /\ \A f \in BOOLEAN : LET q == [d EXCEPT !.failed = f] IN
              q \in ListRows /\ q.shown = d.shown /\ q.seen = d.seen /\ q.failed = f
         /\ \A t \in Nat, f \in BOOLEAN : LET q == [d EXCEPT !.told = t, !.failed = f] IN
              q \in ListRows /\ q.shown = d.shown /\ q.seen = d.seen
         /\ \A v \in Nat, w \in Nat, f \in BOOLEAN :
              LET q == [d EXCEPT !.shown = v, !.seen = w, !.failed = f] IN
              q \in ListRows /\ q.shown = v /\ q.seen = w /\ q.failed = f
         /\ \A v \in Nat, w \in Nat :
              LET q == [d EXCEPT !.shown = v, !.seen = w] IN
              q \in ListRows /\ q.shown = v /\ q.seen = w /\ q.failed = d.failed
  BY DEF ListRows

-----------------------------------------------------------------------------
(* Commands that only lapse: what was sound of them stays so. *)
Lapse ==
    /\ attempts' \in [Submissions -> AttemptRows]
    /\ \A n \in Submissions : Alike(attempts'[n], attempts[n]) /\ (attempts'[n].current => attempts[n].current)

LEMMA LapseKeeps ==
  ASSUME ScreensInv, Lapse, UNCHANGED screen, desk'.form \in Nat, desk.form <= desk'.form,
         attended' = attended \/ \A n \in Submissions : ~attempts'[n].current
  PROVE  /\ AttemptsAreSound' /\ OneIsCurrent' /\ OneKeyEach'
         /\ \A n \in Submissions : IsUsed(n)' <=> IsUsed(n)
<1>1. \A n \in Submissions : IsUsed(n)' <=> IsUsed(n)
  BY DEF Lapse, Alike, IsUsed
<1>2. desk.form \in Nat /\ \A k \in 1 .. desk.form : k \in 1 .. desk'.form
  BY DeskFields DEF ScreensInv, ScreensTypeOK
<1>3. AttemptsAreSound'
  BY <1>1, <1>2 DEF ScreensInv, AttemptsAreSound, AttemptIsSound, Lapse, Alike
<1>4. OneIsCurrent'
  BY DEF ScreensInv, OneIsCurrent, Lapse
<1>5. OneKeyEach'
  BY <1>1 DEF ScreensInv, OneKeyEach, Lapse, Alike
<1>6. QED
  BY <1>1, <1>3, <1>4, <1>5

LEMMA LoadBegins ==
  ASSUME ScreensInv, NEW awaited \in {"none", "button"}, BeginLoad(awaited),
         list' \in ListRows, list'.seen <= server, IsFresh => list'.shown = list.shown /\ list'.seen = list.seen,
         patches' \subseteq patches, UNCHANGED <<screen, server, receipts, attended>>
  PROVE  ScreensInv'
<1> USE DEF ScreensInv
<1>1. /\ loads' \subseteq LoadRows
      /\ \E l \in loads' : l.current
      /\ \A l \in loads' : l.current => l.read = 0
      /\ \A l, r \in loads' : l.current /\ r.current => l = r
      /\ \A l \in loads' : l.read = 0 \/ \E r \in loads : l.read = r.read
  BY ReloadedLoads DEF BeginLoad
<1>2. Lapse /\ (Shares => \A n \in Submissions : ~attempts'[n].current)
  <2>1. CASE Shares
    BY <2>1, SupersededAttempts DEF BeginLoad, Lapse
  <2>2. CASE ~Shares
    BY <2>2 DEF BeginLoad, Lapse, ScreensTypeOK, Alike
  <2>3. QED
    BY <2>1, <2>2
<1>3. /\ desk' \in DeskRows /\ desk'.form = desk.form /\ desk'.kept = desk.kept
      /\ desk'.prepared = desk.prepared /\ desk'.blind = desk.blind
      /\ Verifies => desk'.ui \in {desk.ui, "blocked"}
  <2> DEFINE u == IF Shares THEN "ready" ELSE Settled(desk.ui, Awaiting, OvertakenWillDo)
  <2>1. desk \in DeskRows /\ desk.ui \in Buttons /\ "ready" \in Buttons
    BY DeskFields DEF ScreensTypeOK, Buttons
  <2>2. OvertakenWillDo \in BOOLEAN /\ (Verifies => OvertakenWillDo = FALSE)
    BY <2>1, SettledButtons
  <2>3. u \in Buttons
    BY <2>1, <2>2, SettledButtons
  <2>4. Verifies => ~Shares
    BY ScreenFields DEF Verifies, Shares, ScreensTypeOK
  <2>5. Verifies => u \in {desk.ui, "blocked"}
    <3>1. Settled(desk.ui, Awaiting, FALSE) \in {desk.ui, "blocked"}
      BY <2>1, SettledButtons
    <3>2. QED
      BY <2>2, <2>4, <3>1
  <2>6. desk' = [desk EXCEPT !.ui = u]
    BY DEF BeginLoad
  <2> HIDE DEF u
  <2>7. QED
    BY <2>1, <2>3, <2>5, <2>6, DeskFields
<1>4. desk'.form \in Nat /\ desk.form <= desk'.form
  BY <1>3, DeskFields
<1>5. AttemptsAreSound' /\ OneIsCurrent' /\ OneKeyEach' /\ \A n \in Submissions : IsUsed(n)' <=> IsUsed(n)
  BY <1>2, <1>4, LapseKeeps
<1>6. ScreensTypeOK'
  BY <1>1, <1>2, <1>3 DEF ScreensTypeOK, Lapse
<1>7. BlindIsBlocked'
  BY <1>2, <1>3 DEF BlindIsBlocked, Verifies, Lapse
<1>8. VersionsAreKnown'
  BY <1>1, <1>2 DEF VersionsAreKnown, Lapse, Alike, ScreensTypeOK
<1>9. LoadsAreNewest'
  BY <1>1 DEF LoadsAreNewest
<1>10. SharedIsFresh'
  BY <1>2, <1>5 DEF SharedIsFresh, IsFresh, AnswerIsNewest, Lapse, Alike, Shares
<1>11. KeysAreKept'
  BY <1>2, <1>3, <1>5 DEF KeysAreKept, Lapse, Alike
<1>12. RegressesOnlyWhileReloading'
  BY <1>1 DEF RegressesOnlyWhileReloading
<1>13. QED
  BY <1>5, <1>6, <1>7, <1>8, <1>9, <1>10, <1>11, <1>12

(* The operator. *)
LEMMA EnterKeeps == ASSUME ScreensInv, Enter PROVE ScreensInv'
<1> USE DEF ScreensInv
<1>1. /\ loads' \subseteq LoadRows
      /\ \E l \in loads' : l.current
      /\ \A l \in loads' : l.current => l.read = 0
      /\ \A l, r \in loads' : l.current /\ r.current => l = r
      /\ \A l \in loads' : l.read = 0 \/ \E r \in loads : l.read = r.read
  BY ReloadedLoads DEF Enter
<1>2. UNCHANGED <<screen, server, receipts, attempts, patches, list, desk>> /\ attended' = TRUE
  BY DEF Enter
<1>3. \A n \in Submissions : ~attempts[n].current
  BY DEF Enter, AttemptsAreSound, AttemptIsSound
<1>4. ScreensTypeOK'
  BY <1>1, <1>2 DEF ScreensTypeOK
<1>5. AttemptsAreSound'
  BY <1>2, <1>3 DEF AttemptsAreSound, AttemptIsSound, IsUsed
<1>6. OneIsCurrent' /\ OneKeyEach' /\ KeysAreKept' /\ BlindIsBlocked'
  BY <1>2 DEF OneIsCurrent, OneKeyEach, KeysAreKept, BlindIsBlocked, Verifies, IsUsed
<1>7. VersionsAreKnown'
  BY <1>1, <1>2 DEF VersionsAreKnown, ScreensTypeOK
<1>8. LoadsAreNewest' /\ RegressesOnlyWhileReloading'
  BY <1>1 DEF LoadsAreNewest, RegressesOnlyWhileReloading
<1>9. SharedIsFresh'
  BY <1>2, <1>3 DEF SharedIsFresh, IsFresh, AnswerIsNewest, Shares, IsUsed
<1>10. QED
  BY <1>4, <1>5, <1>6, <1>7, <1>8, <1>9

LEMMA LeaveKeeps == ASSUME ScreensInv, Leave PROVE ScreensInv'
<1> USE DEF ScreensInv
<1>1. Lapse /\ \A n \in Submissions : ~attempts'[n].current
  BY SupersededAttempts DEF Leave, Lapse
<1>2. /\ list' \in ListRows /\ list'.shown = 0 /\ list'.seen = 0 /\ loads' = {} /\ patches' = {}
      /\ attended' = FALSE /\ UNCHANGED <<screen, server, receipts>>
  BY DEF EmptyList, ListRows, Leave
<1>3. /\ desk' \in DeskRows /\ ~desk'.blind /\ ~desk'.prepared
      /\ desk'.form = desk.form + 1 /\ desk'.form # 0 /\ desk.form \in Nat
  <2> DEFINE f == desk.form + 1
  <2>1. f \in Nat /\ f # 0 /\ desk.form \in Nat /\ 0 \in Keys
    BY DeskFields, BoundsAreNaturals DEF ScreensTypeOK, Keys
  <2>2. desk' = [IdleDesk EXCEPT !.form = f]
    BY DEF Leave
  <2> HIDE DEF f
  <2>3. desk' \in DeskRows /\ ~desk'.blind /\ ~desk'.prepared /\ desk'.form = f
    BY <2>1, <2>2 DEF IdleDesk, DeskRows, Buttons
  <2>4. QED
    BY <2>1, <2>3 DEF f
<1>4. desk'.form \in Nat /\ desk.form <= desk'.form
  BY <1>3
<1>5. AttemptsAreSound' /\ OneIsCurrent' /\ OneKeyEach' /\ \A n \in Submissions : IsUsed(n)' <=> IsUsed(n)
  BY <1>1, <1>2, <1>4, LapseKeeps
<1>6. ScreensTypeOK'
  BY <1>1, <1>2, <1>3 DEF ScreensTypeOK, Lapse
<1>7. BlindIsBlocked' /\ LoadsAreNewest' /\ RegressesOnlyWhileReloading'
  BY <1>2, <1>3 DEF BlindIsBlocked, LoadsAreNewest, RegressesOnlyWhileReloading
<1>8. KeysAreKept'
  <2>1. \A n \in Submissions : IsUsed(n)' => attempts'[n].form # desk'.form
    BY <1>1, <1>3, <1>5 DEF AttemptsAreSound, AttemptIsSound, Lapse, Alike
  <2>2. QED
    BY <2>1 DEF KeysAreKept
<1>9. VersionsAreKnown'
  BY <1>1, <1>2 DEF VersionsAreKnown, Lapse, Alike, ScreensTypeOK
<1>10. SharedIsFresh'
  BY <1>1, <1>2, <1>5 DEF SharedIsFresh, IsFresh, AnswerIsNewest, Lapse, Alike, Shares
<1>11. QED
  BY <1>5, <1>6, <1>7, <1>8, <1>9, <1>10

LEMMA AsksKeep ==
  ASSUME ScreensInv, AskAgain \/ RefreshForRetry \/ \E version \in 1 .. MaxVersion : EventArrives(version)
  PROVE  ScreensInv'
<1>1. list \in ListRows /\ list.seen <= server
  BY DEF ScreensInv, ScreensTypeOK, VersionsAreKnown
<1>2. CASE AskAgain \/ RefreshForRetry
  <2>1. list' \in ListRows /\ list'.shown = list.shown /\ list'.seen = list.seen
    <3>1. list' = [list EXCEPT !.failed = FALSE]
      BY <1>2 DEF AskAgain, RefreshForRetry
    <3>2. QED
      BY <1>1, <3>1 DEF ListRows
  <2>2. PICK awaited \in {"none", "button"} : BeginLoad(awaited)
    BY <1>2 DEF AskAgain, RefreshForRetry
  <2>3. UNCHANGED <<screen, server, receipts, patches, attended>>
    BY <1>2 DEF AskAgain, RefreshForRetry
  <2>4. QED
    BY <1>1, <2>1, <2>2, <2>3, LoadBegins
<1>3. ASSUME NEW version \in 1 .. MaxVersion, EventArrives(version)
      PROVE  ScreensInv'
  <2>1. Higher(list.told, version) \in Nat
    BY <1>1, BoundsAreNaturals DEF Higher, ListRows
  <2>2. list' \in ListRows /\ list'.shown = list.shown /\ list'.seen = list.seen
    <3> DEFINE t == Higher(list.told, version)
    <3>1. list' = [list EXCEPT !.told = t, !.failed = FALSE] /\ t \in Nat
      BY <1>3, <2>1 DEF EventArrives
    <3> HIDE DEF t
    <3>2. QED
      BY <1>1, <3>1 DEF ListRows
  <2>3. BeginLoad("none") /\ UNCHANGED <<screen, server, receipts, patches, attended>>
    BY <1>3 DEF EventArrives, ReloadOnEvent
  <2>4. QED
    BY <1>1, <2>2, <2>3, LoadBegins
<1>4. QED
  BY <1>2, <1>3

(* Steps that change only the desk, and lift no block. *)
LEMMA DeskKeeps ==
  ASSUME ScreensInv, UNCHANGED <<screen, server, receipts, attempts, loads, patches, list, attended>>,
         desk' \in DeskRows, desk'.ui = desk.ui, desk'.blind = desk.blind,
         desk'.prepared => screen.command.prepares,
         \/ desk'.form = desk.form /\ desk'.kept = desk.kept
         \/ desk'.form = desk.form + 1
  PROVE  ScreensInv'
<1> USE DEF ScreensInv
<1>1. desk.form \in Nat /\ desk'.form \in Nat /\ desk.form <= desk'.form
  BY DeskFields DEF ScreensTypeOK
<1>2. Lapse
  BY DEF Lapse, Alike, ScreensTypeOK
<1>3. AttemptsAreSound' /\ OneIsCurrent' /\ OneKeyEach' /\ \A n \in Submissions : IsUsed(n)' <=> IsUsed(n)
  BY <1>1, <1>2, LapseKeeps
<1>4. ScreensTypeOK'
  BY <1>1 DEF ScreensTypeOK
<1>5. BlindIsBlocked' /\ VersionsAreKnown' /\ LoadsAreNewest' /\ RegressesOnlyWhileReloading'
  BY DEF BlindIsBlocked, Verifies, VersionsAreKnown, LoadsAreNewest, RegressesOnlyWhileReloading, IsPutRight, Shares
<1>6. SharedIsFresh'
  BY <1>3 DEF SharedIsFresh, IsFresh, AnswerIsNewest, Shares
<1>7. KeysAreKept'
  <2>1. CASE desk'.form = desk.form /\ desk'.kept = desk.kept
    BY <1>3, <2>1 DEF KeysAreKept
  <2>2. CASE desk'.form = desk.form + 1
    <3>1. \A n \in Submissions : IsUsed(n) => attempts[n].form # desk'.form
      BY <1>1, <2>2 DEF AttemptsAreSound, AttemptIsSound
    <3>2. QED
      BY <1>3, <3>1 DEF KeysAreKept
  <2>3. QED
    BY <2>1, <2>2
<1>8. QED
  BY <1>3, <1>4, <1>5, <1>6, <1>7

LEMMA EditKeeps == ASSUME ScreensInv, Edit \/ Prepare PROVE ScreensInv'
<1> DEFINE f == desk.form + 1
<1>1. desk \in DeskRows /\ f \in Nat /\ 0 \in Keys /\ TRUE \in BOOLEAN /\ (desk.prepared => screen.command.prepares)
  BY DeskFields, BoundsAreNaturals DEF ScreensInv, ScreensTypeOK, Keys
<1>2. /\ UNCHANGED <<screen, server, receipts, attempts, loads, patches, list, attended>>
      /\ \/ desk' = [desk EXCEPT !.form = f, !.kept = 0]
         \/ desk' = [desk EXCEPT !.prepared = TRUE] /\ screen.command.prepares
  BY DEF Edit, Prepare
<1> HIDE DEF f
<1>3. /\ desk' \in DeskRows /\ desk'.ui = desk.ui /\ desk'.blind = desk.blind
      /\ desk'.prepared => screen.command.prepares
      /\ (desk'.form = desk.form /\ desk'.kept = desk.kept) \/ desk'.form = f
  BY <1>1, <1>2 DEF DeskRows
<1>4. QED
  BY <1>2, <1>3, DeskKeeps DEF f

LEMMA SendKeeps ==
  ASSUME ScreensInv, NEW prepared \in BOOLEAN, Send(prepared), attended,
         prepared => screen.command.prepares, Verifies => ~desk.blind
  PROVE  ScreensInv'
<1> USE DEF ScreensInv
<1>1. PICK n \in Submissions :
        /\ attempts[n].phase = "unused"
        /\ attempts' = [(IF screen.command.fence = "none" THEN attempts ELSE Superseded(attempts)) EXCEPT
                          ![n] = [phase |-> "sent", form |-> desk.form, key |-> KeyFor(n), version |-> 0,
                                  current |-> TRUE]]
        /\ desk' = [desk EXCEPT !.ui = "saving", !.kept = IF screen.command.keeps THEN KeyFor(n) ELSE 0,
                                !.prepared = prepared]
  BY DEF Send
<1> DEFINE k == KeyFor(n)
           row == [phase |-> "sent", form |-> desk.form, key |-> k, version |-> 0, current |-> TRUE]
           others == IF screen.command.fence = "none" THEN attempts ELSE Superseded(attempts)
<1>2. /\ UNCHANGED <<screen, server, receipts, patches, list, attended>>
      /\ loads' = IF Shares THEN Overtaken(loads)
                  ELSE {[l EXCEPT !.awaited = IF @ = "verify" THEN "late" ELSE @] : l \in loads}
  BY DEF Send
<1>3. /\ desk.kept \in Keys /\ desk.form \in Nat /\ n \in Keys
      /\ \A m \in Keys : m # 0 => m \in Submissions
      /\ \A m \in Submissions : m # 0
  BY DeskFields, BoundsAreNaturals DEF ScreensTypeOK, Submissions, Keys
<1>4. k \in Submissions /\ k \in Keys /\ (~screen.command.keeps \/ desk.kept = 0 => k = n)
      /\ (screen.command.keeps /\ desk.kept # 0 => k = desk.kept)
  BY <1>3, BoundsAreNaturals DEF KeyFor, Submissions, Keys
<1> HIDE DEF k
<1>5. /\ row \in AttemptRows /\ row.phase = "sent" /\ row.form = desk.form /\ row.key = k /\ row.version = 0
      /\ row.current
  BY <1>3, <1>4 DEF AttemptRows, Phases
<1>6. /\ others \in [Submissions -> AttemptRows]
      /\ \A m \in Submissions : /\ Alike(others[m], attempts[m])
                                /\ others[m].current => attempts[m].current /\ screen.command.fence = "none"
  BY SupersededAttempts DEF ScreensTypeOK, Alike
<1>7. attempts' = [others EXCEPT ![n] = row]
  BY <1>1 DEF k
<1> HIDE DEF row, others
<1>8. /\ attempts' \in [Submissions -> AttemptRows]
      /\ attempts'[n] = row
      /\ \A m \in Submissions \ {n} :
           /\ Alike(attempts'[m], attempts[m])
           /\ attempts'[m].current => attempts[m].current /\ screen.command.fence = "none"
  BY <1>5, <1>6, <1>7
<1>9. /\ desk' \in DeskRows /\ desk'.form = desk.form /\ desk'.blind = desk.blind /\ desk'.prepared = prepared
      /\ desk'.kept = (IF screen.command.keeps THEN k ELSE 0)
  <2> DEFINE v == IF screen.command.keeps THEN k ELSE 0
  <2>1. v \in Keys
    BY <1>4, BoundsAreNaturals DEF Keys
  <2>2. desk' = [desk EXCEPT !.ui = "saving", !.kept = v, !.prepared = prepared]
    BY <1>1 DEF k
  <2> HIDE DEF v
  <2>3. desk' \in DeskRows /\ desk'.form = desk.form /\ desk'.blind = desk.blind /\ desk'.prepared = prepared
        /\ desk'.kept = v
    BY <2>1, <2>2 DEF DeskRows, Buttons, ScreensTypeOK
  <2>4. QED
    BY <2>3 DEF v
<1>10. /\ loads' \subseteq LoadRows /\ (Shares => \A l \in loads' : ~l.current)
       /\ \A l, r \in loads' : l.current /\ r.current => l = r
       /\ \A l \in loads' : \E r \in loads : l.read = r.read /\ (l.current => r.current)
       /\ (~Shares /\ \E r \in loads : r.current) => \E l \in loads' : l.current
  <2>1. CASE Shares
    BY <1>2, <2>1, OvertakenLoads
  <2>2. CASE ~Shares
    <3>1. loads' = {[l EXCEPT !.awaited = IF @ = "verify" THEN "late" ELSE @] : l \in loads}
      BY <1>2, <2>2
    <3>2. QED
      BY <2>2, <3>1, LateLoads
  <2>3. QED
    BY <2>1, <2>2
<1>11. ScreensTypeOK'
  BY <1>2, <1>8, <1>9, <1>10 DEF ScreensTypeOK
<1>12. ~IsUsed(n) /\ IsUsed(n)' /\ \A m \in Submissions \ {n} : IsUsed(m)' <=> IsUsed(m)
  BY <1>1, <1>5, <1>8 DEF IsUsed, Alike
<1>13. desk.form \in 1 .. desk.form
  <2>1. desk.form # 0
    BY DEF ScreensTypeOK
  <2>2. QED
    BY <1>3, <2>1
<1>14. AttemptsAreSound'
  BY <1>2, <1>4, <1>5, <1>8, <1>9, <1>12, <1>13 DEF AttemptsAreSound, AttemptIsSound, Alike
<1>15. OneIsCurrent'
  BY <1>2, <1>8 DEF OneIsCurrent
<1>16. BlindIsBlocked'
  BY <1>2, <1>9 DEF BlindIsBlocked, Verifies
<1>17. VersionsAreKnown'
  BY <1>2, <1>5, <1>8, <1>10 DEF VersionsAreKnown, Alike, ScreensTypeOK
<1>18. LoadsAreNewest'
  BY <1>2, <1>10 DEF LoadsAreNewest, IsPutRight, Shares
<1>19. SharedIsFresh'
  <2>1. IsFresh => k = n /\ receipts[n] = 0
    BY <1>1, <1>4, ScreenFields DEF Shares, IsFresh, SharedIsFresh, AnswerIsNewest, ScreensTypeOK
  <2>2. QED
    BY <1>2, <1>5, <1>8, <1>10, <1>12, <2>1 DEF SharedIsFresh, IsFresh, AnswerIsNewest, Shares, Alike
<1>20. screen.command.keeps => \A m \in Submissions \ {n} :
         IsUsed(m)' /\ attempts'[m].form = desk.form => attempts'[m].key = k
  <2> SUFFICES ASSUME screen.command.keeps, NEW m \in Submissions, m # n, IsUsed(m)', attempts'[m].form = desk.form
               PROVE  attempts'[m].key = k
    OBVIOUS
  <2>1. /\ IsUsed(m) /\ attempts[m].form = desk.form
        /\ attempts'[m].key = attempts[m].key /\ attempts[m].key \in Submissions
    BY <1>8, <1>12 DEF Alike, AttemptsAreSound, AttemptIsSound
  <2>2. QED
    BY <1>3, <1>4, <2>1 DEF KeysAreKept
<1>21. KeysAreKept'
  BY <1>2, <1>5, <1>8, <1>9, <1>20 DEF KeysAreKept
<1>22. OneKeyEach'
  <2> SUFFICES ASSUME screen.command.keeps, NEW l \in Submissions, NEW m \in Submissions, IsUsed(l)', IsUsed(m)',
                      attempts'[l].form = attempts'[m].form
               PROVE  attempts'[l].key = attempts'[m].key
    BY <1>2 DEF OneKeyEach
  <2>1. CASE l = n \/ m = n
    BY <1>5, <1>8, <1>20, <2>1
  <2>2. CASE l # n /\ m # n
    BY <1>8, <1>12, <2>2 DEF OneKeyEach, Alike
  <2>3. QED
    BY <2>1, <2>2
<1>23. RegressesOnlyWhileReloading'
  <2>1. CASE IsFresh
    <3>1. list.shown = list.seen /\ list.seen \in Nat
      BY <2>1, ListFields DEF SharedIsFresh, ScreensTypeOK
    <3>2. ~(list.shown < list.seen)
      BY <3>1
    <3>3. QED
      BY <1>2, <3>2 DEF RegressesOnlyWhileReloading
  <2>2. CASE ~Shares
    BY <1>2, <1>10, <2>2 DEF RegressesOnlyWhileReloading, IsPutRight, Shares
  <2>3. CASE ~IsFresh /\ Shares
    BY <1>2, <2>3 DEF RegressesOnlyWhileReloading, IsPutRight, IsFresh, Shares
  <2>4. QED
    BY <2>1, <2>2, <2>3
<1>24. QED
  BY <1>11, <1>14, <1>15, <1>16, <1>17, <1>18, <1>19, <1>21, <1>22, <1>23

LEMMA SubmitKeeps == ASSUME ScreensInv, Submit \/ SendPrepared PROVE ScreensInv'
<1>1. desk.prepared \in BOOLEAN /\ (desk.prepared => screen.command.prepares)
  BY DeskFields DEF ScreensInv, ScreensTypeOK
<1>2. CASE Submit
  <2>1. Send(desk.prepared) /\ attended /\ (Verifies => ~desk.blind)
    BY <1>2 DEF Submit, AcceptsSubmit, ScreensInv, BlindIsBlocked
  <2>2. QED
    BY <1>1, <2>1, SendKeeps
<1>3. CASE SendPrepared
  <2>1. PICK more \in BOOLEAN : Send(more)
    BY <1>3 DEF SendPrepared
  <2>2. attended /\ desk.prepared /\ ~Verifies
    BY <1>1, <1>3 DEF SendPrepared, Verifies
  <2>3. QED
    BY <1>1, <2>1, <2>2, SendKeeps
<1>4. QED
  BY <1>2, <1>3

-----------------------------------------------------------------------------
(* One command goes on: what it asks for, and with which key, stays. *)
GoesOn(n) ==
    /\ attempts' \in [Submissions -> AttemptRows]
    /\ \A m \in Submissions \ {n} : attempts'[m] = attempts[m]
    /\ attempts'[n].form = attempts[n].form /\ attempts'[n].key = attempts[n].key
    /\ attempts[n].phase # "unused" /\ attempts'[n].phase # "unused"
    /\ attempts'[n].current => attempts[n].current

LEMMA GoingOnKeeps ==
  ASSUME ScreensInv, NEW n \in Submissions, GoesOn(n), UNCHANGED <<screen, attended>>,
         desk'.form \in Nat, desk.form <= desk'.form
  PROVE  /\ AttemptsAreSound' /\ OneIsCurrent' /\ OneKeyEach'
         /\ (\A m \in Submissions : IsUsed(m)' <=> IsUsed(m))
<1>1. \A m \in Submissions : IsUsed(m)' <=> IsUsed(m)
  BY DEF GoesOn, IsUsed
<1>2. desk.form \in Nat /\ \A k \in 1 .. desk.form : k \in 1 .. desk'.form
  BY DeskFields DEF ScreensInv, ScreensTypeOK
<1>3. AttemptsAreSound'
  BY <1>1, <1>2 DEF ScreensInv, AttemptsAreSound, AttemptIsSound, GoesOn
<1>4. OneIsCurrent'
  BY DEF ScreensInv, OneIsCurrent, GoesOn
<1>5. OneKeyEach'
  BY <1>1 DEF ScreensInv, OneKeyEach, GoesOn
<1>6. QED
  BY <1>1, <1>3, <1>4, <1>5

LEMMA FormStays ==
  ASSUME ScreensInv
  PROVE  UNCHANGED desk => desk'.form \in Nat /\ desk.form <= desk'.form
  BY DeskFields DEF ScreensInv, ScreensTypeOK

(* The fields of a command that goes on. *)
LEMMA RowGoesOn ==
  ASSUME ScreensTypeOK, NEW n \in Submissions, NEW p \in Phases, NEW v \in Nat
  PROVE  /\ attempts' = [attempts EXCEPT ![n].phase = p, ![n].version = v] =>
              /\ attempts' \in [Submissions -> AttemptRows]
              /\ \A m \in Submissions \ {n} : attempts'[m] = attempts[m]
              /\ attempts'[n] = [phase |-> p, form |-> attempts[n].form, key |-> attempts[n].key,
                   version |-> v, current |-> attempts[n].current]
         /\ attempts' = [attempts EXCEPT ![n].phase = p] =>
              /\ attempts' \in [Submissions -> AttemptRows]
              /\ \A m \in Submissions \ {n} : attempts'[m] = attempts[m]
              /\ attempts'[n] = [phase |-> p, form |-> attempts[n].form, key |-> attempts[n].key,
                   version |-> attempts[n].version, current |-> attempts[n].current]
         /\ attempts' = [attempts EXCEPT ![n].phase = p, ![n].current = FALSE] =>
              /\ attempts' \in [Submissions -> AttemptRows]
              /\ \A m \in Submissions \ {n} : attempts'[m] = attempts[m]
              /\ attempts'[n] = [phase |-> p, form |-> attempts[n].form, key |-> attempts[n].key,
                   version |-> attempts[n].version, current |-> FALSE]
<1> DEFINE r == attempts[n]
           a == [r EXCEPT !.phase = p]
           b == [a EXCEPT !.version = v]
           no == FALSE
           c == [a EXCEPT !.current = no]
<1>1. attempts \in [Submissions -> AttemptRows] /\ r \in AttemptRows
  BY DEF ScreensTypeOK
<1>2. /\ r.form \in Nat /\ r.key \in Keys /\ r.version \in Nat
      /\ r.current \in BOOLEAN
      /\ r = [phase |-> r.phase, form |-> r.form, key |-> r.key, version |-> r.version,
              current |-> r.current]
  BY <1>1, AttemptFields
<1>3. /\ attempts' = [attempts EXCEPT ![n].phase = p, ![n].version = v] => attempts' = [attempts EXCEPT ![n] = b]
      /\ attempts' = [attempts EXCEPT ![n].phase = p] => attempts' = [attempts EXCEPT ![n] = a]
      /\ attempts' = [attempts EXCEPT ![n].phase = p, ![n].current = FALSE] =>
           attempts' = [attempts EXCEPT ![n] = c]
  BY <1>1
<1> HIDE DEF r, no
<1>4. a = [phase |-> p, form |-> r.form, key |-> r.key, version |-> r.version,
           current |-> r.current]
  BY <1>2
<1> HIDE DEF a
<1>5. b = [phase |-> p, form |-> r.form, key |-> r.key, version |-> v,
           current |-> r.current]
  BY <1>4
<1>6. c = [phase |-> p, form |-> r.form, key |-> r.key, version |-> r.version,
           current |-> no]
  BY <1>4
<1>7. a \in AttemptRows /\ b \in AttemptRows /\ c \in AttemptRows
  BY <1>2, <1>4, <1>5, <1>6 DEF AttemptRows, no
<1> HIDE DEF b, c
<1>8. \A q \in AttemptRows : attempts' = [attempts EXCEPT ![n] = q] =>
        /\ attempts' \in [Submissions -> AttemptRows] /\ attempts'[n] = q
        /\ \A m \in Submissions \ {n} : attempts'[m] = attempts[m]
  BY <1>1
<1>9. QED
  BY <1>3, <1>4, <1>5, <1>6, <1>7, <1>8 DEF r, no

-----------------------------------------------------------------------------
(* The server. *)
LEMMA ServerMoves ==
  ASSUME ScreensInv, server' \in Nat, server <= server',
         UNCHANGED patches \/ (screen.list.patched # "never" /\ patches' = patches \cup {server'}),
         UNCHANGED <<screen, receipts, attempts, loads, list, desk, attended>>
  PROVE  ScreensInv'
<1>1. VersionsAreKnown'
  <2>1. \A x \in Nat : x <= server => x <= server'
    BY DEF ScreensInv, ScreensTypeOK
  <2>2. /\ list.seen \in Nat /\ (\A l \in loads : l.read \in Nat) /\ patches \subseteq Nat
        /\ \A n \in Submissions : receipts[n] \in Nat /\ attempts[n].version \in Nat
    BY DEF ScreensInv, ScreensTypeOK, ListRows, LoadRows, AttemptRows
  <2>3. \A version \in patches' : version <= server'
    <3>1. \A version \in patches : version <= server /\ version \in Nat
      BY <2>2 DEF ScreensInv, VersionsAreKnown
    <3>2. server' <= server' /\ \A version \in patches' : version \in patches \/ version = server'
      OBVIOUS
    <3>3. QED
      BY <2>1, <3>1, <3>2
  <2>4. QED
    BY <2>1, <2>2, <2>3 DEF ScreensInv, VersionsAreKnown
<1>2. ScreensTypeOK'
  BY DEF ScreensInv, ScreensTypeOK
<1>3. QED
  BY <1>1, <1>2 DEF ScreensInv, AttemptsAreSound, AttemptIsSound, IsUsed, OneIsCurrent, BlindIsBlocked,
     Verifies, LoadsAreNewest, IsPutRight, Shares, IsFresh, SharedIsFresh, AnswerIsNewest, KeysAreKept, OneKeyEach,
     RegressesOnlyWhileReloading

LEMMA AppliesKeeps ==
  ASSUME ScreensInv, NEW n \in Submissions, ServerApplies(n)
  PROVE  ScreensInv'
<1> USE DEF ScreensInv
<1> DEFINE key == attempts[n].key
<1>1. /\ attempts[n].phase = "sent" /\ UNCHANGED <<screen, loads, patches, list, desk, attended>>
      /\ key \in Submissions /\ IsUsed(n) /\ "answered" \in Phases
      /\ server \in Nat /\ receipts \in [Submissions -> Nat]
  BY DEF ServerApplies, AttemptsAreSound, AttemptIsSound, IsUsed, Phases, ScreensTypeOK
<1> DEFINE Answered(v) == attempts' = [attempts EXCEPT ![n].phase = "answered", ![n].version = v]
           Made(v) ==
             /\ server' \in Nat /\ server <= server' /\ v <= server'
             /\ receipts' \in [Submissions -> Nat]
             /\ \A m \in Submissions : m # key => receipts'[m] = receipts[m]
             /\ receipts'[key] <= server'
             /\ receipts[key] = 0 => v = server + 1
<1>2. \E v \in Nat : Answered(v) /\ Made(v)
  <2>1. CASE receipts[key] = 0
    <3>1. /\ server' = server + 1 /\ receipts' = [receipts EXCEPT ![key] = server + 1]
          /\ Answered(server + 1)
      BY <2>1 DEF ServerApplies, Changes
    <3> HIDE DEF key, Answered
    <3>2. Made(server + 1) /\ server + 1 \in Nat
      BY <1>1, <3>1
    <3> HIDE DEF Made
    <3>3. QED
      BY <3>1, <3>2
  <2>2. CASE receipts[key] # 0
    <3>1. Answered(receipts[key]) /\ UNCHANGED <<server, receipts>>
      BY <2>2 DEF ServerApplies
    <3>2. receipts[key] <= server /\ receipts[key] \in Nat
      BY <1>1 DEF VersionsAreKnown
    <3> HIDE DEF key, Answered
    <3>3. Made(receipts[key])
      BY <1>1, <2>2, <3>1, <3>2
    <3> HIDE DEF Made
    <3>4. QED
      BY <3>1, <3>2, <3>3
  <2>3. QED
    BY <2>1, <2>2
<1> HIDE DEF Answered, Made
<1>3. PICK v \in Nat : Answered(v) /\ Made(v)
  BY <1>2
<1>4. /\ attempts' = [attempts EXCEPT ![n].phase = "answered", ![n].version = v]
      /\ server' \in Nat /\ server <= server' /\ v <= server' /\ receipts' \in [Submissions -> Nat]
      /\ \A m \in Submissions : m # key => receipts'[m] = receipts[m]
      /\ receipts'[key] <= server'
      /\ receipts[key] = 0 => v = server + 1
  BY <1>3, Zenon DEF Answered, Made
<1>5. /\ attempts' \in [Submissions -> AttemptRows]
      /\ \A m \in Submissions \ {n} : attempts'[m] = attempts[m]
      /\ attempts'[n] = [phase |-> "answered", form |-> attempts[n].form, key |-> attempts[n].key,
           version |-> v, current |-> attempts[n].current]
  <2>1. "answered" \in Phases /\ ScreensTypeOK
    BY <1>1
  <2>2. ASSUME NEW p \in Phases, attempts' = [attempts EXCEPT ![n].phase = p, ![n].version = v]
        PROVE  /\ attempts' \in [Submissions -> AttemptRows]
               /\ \A m \in Submissions \ {n} : attempts'[m] = attempts[m]
               /\ attempts'[n] = [phase |-> p, form |-> attempts[n].form, key |-> attempts[n].key,
                    version |-> v, current |-> attempts[n].current]
    BY <2>1, <2>2, RowGoesOn
  <2>3. QED
    BY <1>4, <2>1, <2>2
<1>6. GoesOn(n) /\ attempts'[n].version = v /\ attempts'[n].phase = "answered"
      /\ attempts'[n].current = attempts[n].current
  BY <1>1, <1>5 DEF GoesOn
<1>7. /\ AttemptsAreSound' /\ OneIsCurrent' /\ OneKeyEach'
      /\ \A m \in Submissions : IsUsed(m)' <=> IsUsed(m)
  BY <1>1, <1>6, FormStays, GoingOnKeeps
<1>8. ScreensTypeOK'
  BY <1>1, <1>4, <1>5 DEF ScreensTypeOK
<1>9. BlindIsBlocked'
  BY <1>1, <1>6 DEF BlindIsBlocked, Verifies, GoesOn
<1>10. VersionsAreKnown'
  <2>1. \A x \in Nat : x <= server => x <= server'
    BY <1>1, <1>4
  <2>2. /\ list.seen \in Nat /\ (\A l \in loads : l.read \in Nat) /\ patches \subseteq Nat
        /\ \A m \in Submissions : receipts[m] \in Nat /\ attempts[m].version \in Nat
    BY DEF ScreensTypeOK, ListRows, LoadRows, AttemptRows
  <2>3. \A m \in Submissions : receipts'[m] <= server'
    BY <1>4, <2>1, <2>2 DEF VersionsAreKnown
  <2>4. \A m \in Submissions : attempts'[m].version <= server'
    BY <1>4, <1>5, <1>6, <2>1, <2>2 DEF VersionsAreKnown
  <2>5. /\ list'.seen <= server' /\ (\A l \in loads' : l.read <= server')
        /\ \A version \in patches' : version <= server'
    BY <1>1, <2>1, <2>2 DEF VersionsAreKnown
  <2>6. QED
    BY <2>3, <2>4, <2>5 DEF VersionsAreKnown
<1>11. LoadsAreNewest' /\ RegressesOnlyWhileReloading'
  BY <1>1 DEF LoadsAreNewest, RegressesOnlyWhileReloading, IsPutRight, Shares
<1>12. SharedIsFresh'
  <2> SUFFICES ASSUME IsFresh
               PROVE  /\ ~((\E m \in Submissions : attempts'[m].current) /\ \E l \in loads' : l.current)
                      /\ list'.shown = list'.seen
                      /\ \A m \in Submissions : AnswerIsNewest(m)'
    BY <1>1 DEF SharedIsFresh, IsFresh, Shares
  <2>1. key = n /\ receipts[n] = 0
    BY <1>1 DEF SharedIsFresh, AnswerIsNewest
  <2>2. list.seen <= v
    <3>1. list.seen \in Nat /\ list.seen <= server
      BY ListFields DEF VersionsAreKnown, ScreensTypeOK
    <3>2. v = server + 1
      BY <1>4, <2>1
    <3>3. QED
      BY <1>1, <3>1, <3>2
  <2>3. AnswerIsNewest(n)'
    BY <1>1, <1>6, <2>1, <2>2 DEF AnswerIsNewest, GoesOn
  <2>4. ASSUME NEW m \in Submissions, m # n
        PROVE  AnswerIsNewest(m)'
    <3>1. AnswerIsNewest(m) /\ attempts'[m] = attempts[m] /\ receipts'[m] = receipts[m]
      BY <1>4, <1>5, <2>1, <2>4 DEF SharedIsFresh
    <3>2. QED
      BY <1>1, <3>1 DEF AnswerIsNewest, IsUsed
  <2>5. QED
    BY <1>1, <1>6, <2>3, <2>4 DEF SharedIsFresh, GoesOn
<1>13. KeysAreKept'
  BY <1>1, <1>6, <1>7 DEF KeysAreKept, GoesOn
<1>14. QED
  BY <1>7, <1>8, <1>9, <1>10, <1>11, <1>12, <1>13

LEMMA RefusesKeeps ==
  ASSUME ScreensInv, NEW n \in Submissions, ServerRefuses(n)
  PROVE  ScreensInv'
<1> USE DEF ScreensInv
<1>1. /\ attempts[n].phase = "sent" /\ receipts[attempts[n].key] = 0 /\ "refused" \in Phases
      /\ UNCHANGED <<screen, server, receipts, loads, patches, list, desk, attended>>
      /\ attempts' = [attempts EXCEPT ![n].phase = "refused"]
  BY DEF ServerRefuses, Phases
<1>2. /\ attempts' \in [Submissions -> AttemptRows]
      /\ \A m \in Submissions \ {n} : attempts'[m] = attempts[m]
      /\ attempts'[n] = [phase |-> "refused", form |-> attempts[n].form, key |-> attempts[n].key,
           version |-> attempts[n].version, current |-> attempts[n].current]
  BY <1>1, 0 \in Nat, RowGoesOn
<1>3. GoesOn(n) /\ attempts'[n].version = attempts[n].version /\ attempts'[n].phase = "refused"
      /\ attempts'[n].current = attempts[n].current
  BY <1>1, <1>2 DEF GoesOn
<1>4. /\ AttemptsAreSound' /\ OneIsCurrent' /\ OneKeyEach'
      /\ \A m \in Submissions : IsUsed(m)' <=> IsUsed(m)
  BY <1>1, <1>3, FormStays, GoingOnKeeps
<1>5. ScreensTypeOK'
  BY <1>1, <1>2 DEF ScreensTypeOK
<1>6. BlindIsBlocked'
  BY <1>1, <1>3 DEF BlindIsBlocked, Verifies, GoesOn
<1>7. VersionsAreKnown'
  BY <1>1, <1>2, <1>3 DEF VersionsAreKnown
<1>8. LoadsAreNewest' /\ RegressesOnlyWhileReloading'
  BY <1>1 DEF LoadsAreNewest, RegressesOnlyWhileReloading, IsPutRight, Shares
<1>9. SharedIsFresh'
  <2> SUFFICES ASSUME IsFresh
               PROVE  /\ ~((\E m \in Submissions : attempts'[m].current) /\ \E l \in loads' : l.current)
                      /\ list'.shown = list'.seen
                      /\ \A m \in Submissions : AnswerIsNewest(m)'
    BY <1>1 DEF SharedIsFresh, IsFresh, Shares
  <2>1. AnswerIsNewest(n)'
    BY <1>1, <1>3, <1>4 DEF SharedIsFresh, AnswerIsNewest, GoesOn, IsUsed
  <2>2. \A m \in Submissions \ {n} : AnswerIsNewest(m)'
    BY <1>1, <1>2 DEF SharedIsFresh, AnswerIsNewest, IsUsed
  <2>3. QED
    BY <1>1, <1>3, <2>1, <2>2 DEF SharedIsFresh, GoesOn
<1>10. KeysAreKept'
  BY <1>1, <1>3, <1>4 DEF KeysAreKept, GoesOn
<1>11. QED
  BY <1>4, <1>5, <1>6, <1>7, <1>8, <1>9, <1>10

LEMMA ReadsKeep ==
  ASSUME ScreensInv, NEW l \in loads, ServerReads(l)
  PROVE  ScreensInv'
<1> USE DEF ScreensInv
<1> DEFINE q == [l EXCEPT !.read = server]
<1>1. /\ l.read = 0 /\ loads' = (loads \ {l}) \cup {q} /\ server \in Nat
      /\ UNCHANGED <<screen, server, receipts, attempts, patches, list, desk, attended>>
  BY DEF ServerReads, ScreensTypeOK
<1>2. q \in LoadRows /\ q.read = server /\ q.current = l.current
  BY <1>1 DEF ScreensTypeOK, LoadRows
<1> HIDE DEF q
<1>3. (\E r \in loads' : r.current) <=> \E r \in loads : r.current
  BY <1>1, <1>2
<1>4. ScreensTypeOK'
  BY <1>1, <1>2 DEF ScreensTypeOK
<1>5. AttemptsAreSound' /\ OneIsCurrent' /\ OneKeyEach' /\ BlindIsBlocked' /\ KeysAreKept'
  BY <1>1 DEF AttemptsAreSound, AttemptIsSound, IsUsed, OneIsCurrent, OneKeyEach, BlindIsBlocked, Verifies,
     KeysAreKept
<1>6. VersionsAreKnown'
  BY <1>1, <1>2 DEF VersionsAreKnown
<1>7. LoadsAreNewest'
  BY <1>1, <1>2 DEF LoadsAreNewest, VersionsAreKnown, IsPutRight, Shares
<1>8. SharedIsFresh' /\ RegressesOnlyWhileReloading'
  BY <1>1, <1>3 DEF SharedIsFresh, IsFresh, AnswerIsNewest, IsUsed, IsPutRight, Shares, RegressesOnlyWhileReloading
<1>9. QED
  BY <1>4, <1>5, <1>6, <1>7, <1>8

-----------------------------------------------------------------------------
(* What comes back. *)
LEMMA ArrivesKeeps ==
  ASSUME ScreensInv, NEW l \in loads, LoadArrives(l)
  PROVE  ScreensInv'
<1> USE DEF ScreensInv
<1>1. /\ l.read > 0 /\ loads' = loads \ {l}
      /\ UNCHANGED <<screen, server, receipts, attempts, patches, attended>>
  BY DEF LoadArrives
<1>2. /\ list.shown \in Nat /\ list.seen \in Nat /\ list.seen <= server /\ l.read <= server /\ l.read \in Nat
      /\ server \in Nat /\ l \in LoadRows
  <2>1. list \in ListRows /\ l \in LoadRows /\ server \in Nat
    BY DEF ScreensTypeOK
  <2>2. list.shown \in Nat /\ list.seen \in Nat /\ l.read \in Nat
    BY <2>1 DEF ListRows, LoadRows
  <2>3. list.seen <= server /\ l.read <= server
    BY DEF VersionsAreKnown
  <2>4. QED
    BY <2>1, <2>2, <2>3
<1>3. /\ desk' \in DeskRows /\ desk'.form = desk.form /\ desk'.kept = desk.kept /\ desk'.prepared = desk.prepared
      /\ \/ desk' = desk
         \/ l.current /\ ~desk'.blind
  <2> DEFINE u == Settled(desk.ui, l.awaited, TRUE)
             no == FALSE
  <2>1. desk \in DeskRows /\ u \in Buttons /\ no \in BOOLEAN /\ ~no
    <3>1. desk \in DeskRows /\ desk.ui \in Buttons
      BY DeskFields DEF ScreensTypeOK
    <3>2. QED
      BY <3>1, SettledButtons
  <2>2. desk' = desk \/ (l.current /\ desk' = [desk EXCEPT !.ui = u, !.blind = no])
    BY DEF LoadArrives
  <2> HIDE DEF u, no
  <2>3. QED
    BY <2>1, <2>2 DEF DeskRows
<1>4. AttemptsAreSound' /\ OneIsCurrent' /\ OneKeyEach' /\ KeysAreKept' /\ BlindIsBlocked'
  BY <1>1, <1>3 DEF AttemptsAreSound, AttemptIsSound, IsUsed, OneIsCurrent, OneKeyEach, KeysAreKept,
     BlindIsBlocked, Verifies
<1>5. CASE ~l.current
  <2>1. UNCHANGED list
    BY <1>5 DEF LoadArrives
  <2>2. (\E r \in loads' : r.current) <=> \E r \in loads : r.current
    BY <1>1, <1>5
  <2>3. ScreensTypeOK' /\ VersionsAreKnown' /\ LoadsAreNewest'
    BY <1>1, <1>3, <2>1 DEF ScreensTypeOK, VersionsAreKnown, LoadsAreNewest, IsPutRight, Shares
  <2>4. SharedIsFresh' /\ RegressesOnlyWhileReloading'
    BY <1>1, <2>1, <2>2 DEF SharedIsFresh, IsFresh, AnswerIsNewest, IsUsed, Shares, IsPutRight,
       RegressesOnlyWhileReloading
  <2>5. QED
    BY <1>4, <2>3, <2>4
<1>6. CASE l.current
  <2> DEFINE v == Higher(list.seen, l.read)
             no == FALSE
  <2>1. v \in Nat /\ v <= server /\ l.read <= v
    BY <1>2 DEF Higher
  <2>2. IsPutRight => v = l.read
    BY <1>1, <1>2, <1>6 DEF LoadsAreNewest, Higher
  <2>3. \A r \in loads' : ~r.current
    BY <1>1, <1>6 DEF LoadsAreNewest
  <2>4. list' = [list EXCEPT !.shown = l.read, !.seen = v, !.failed = no] /\ no \in BOOLEAN
    BY <1>6 DEF LoadArrives
  <2> HIDE DEF no, v
  <2>5. list' \in ListRows /\ list'.shown = l.read /\ list'.seen = v
    BY <1>2, <2>1, <2>4 DEF ScreensTypeOK, ListRows
  <2>6. ScreensTypeOK'
    BY <1>1, <1>3, <2>5 DEF ScreensTypeOK
  <2>7. VersionsAreKnown'
    BY <1>1, <2>1, <2>5 DEF VersionsAreKnown
  <2>8. LoadsAreNewest'
    BY <2>3 DEF LoadsAreNewest
  <2>9. SharedIsFresh'
    <3> SUFFICES ASSUME IsFresh
                 PROVE  /\ ~((\E n \in Submissions : attempts'[n].current) /\ \E r \in loads' : r.current)
                        /\ list'.shown = list'.seen
                        /\ \A n \in Submissions : AnswerIsNewest(n)'
      BY <1>1 DEF SharedIsFresh, IsFresh, Shares
    <3>1. IsPutRight /\ \A n \in Submissions : ~attempts[n].current
      BY <1>6 DEF SharedIsFresh, IsFresh, IsPutRight
    <3>2. \A n \in Submissions : AnswerIsNewest(n)'
      BY <1>1, <3>1 DEF SharedIsFresh, AnswerIsNewest, IsUsed
    <3>3. QED
      BY <2>2, <2>3, <2>5, <3>1, <3>2
  <2>10. RegressesOnlyWhileReloading'
    <3>1. IsPutRight => ~(list'.shown < list'.seen)
      BY <1>2, <2>2, <2>5
    <3>2. QED
      BY <1>1, <3>1 DEF RegressesOnlyWhileReloading, IsPutRight, Shares
  <2>11. QED
    BY <1>4, <2>6, <2>7, <2>8, <2>9, <2>10
<1>7. QED
  BY <1>5, <1>6

LEMMA LoadFailsKeeps ==
  ASSUME ScreensInv, NEW l \in loads, LoadFails(l)
  PROVE  ScreensInv'
<1> USE DEF ScreensInv
<1> DEFINE yes == TRUE
           no == FALSE
           u == Settled(desk.ui, l.awaited, no)
<1>1. /\ loads' = loads \ {l} /\ list' = [list EXCEPT !.failed = yes] /\ desk' = [desk EXCEPT !.ui = u]
      /\ UNCHANGED <<screen, server, receipts, attempts, patches, attended>>
  BY DEF LoadFails
<1>2. yes \in BOOLEAN /\ yes /\ u \in Buttons /\ u \in {desk.ui, "blocked"}
  <2>1. desk.ui \in Buttons
    BY DeskFields DEF ScreensTypeOK
  <2>2. QED
    BY <2>1, SettledButtons
<1> HIDE DEF yes, u
<1>3. list' \in ListRows /\ list'.shown = list.shown /\ list'.seen = list.seen /\ list'.failed
  <2>1. list \in ListRows
    BY DEF ScreensTypeOK
  <2>2. QED
    BY <1>1, <1>2, <2>1 DEF ListRows
<1>4. /\ desk' \in DeskRows /\ desk'.ui = u /\ desk'.form = desk.form /\ desk'.kept = desk.kept
      /\ desk'.prepared = desk.prepared /\ desk'.blind = desk.blind
  BY <1>1, <1>2, DeskFields DEF ScreensTypeOK
<1>5. AttemptsAreSound' /\ OneIsCurrent' /\ OneKeyEach' /\ KeysAreKept'
  BY <1>1, <1>4 DEF AttemptsAreSound, AttemptIsSound, IsUsed, OneIsCurrent, OneKeyEach, KeysAreKept
<1>6. ScreensTypeOK'
  BY <1>1, <1>3, <1>4 DEF ScreensTypeOK
<1>7. BlindIsBlocked'
  BY <1>1, <1>2, <1>4 DEF BlindIsBlocked, Verifies
<1>8. VersionsAreKnown' /\ LoadsAreNewest'
  BY <1>1, <1>3 DEF VersionsAreKnown, LoadsAreNewest, IsPutRight, Shares
<1>9. SharedIsFresh' /\ RegressesOnlyWhileReloading'
  BY <1>1, <1>3 DEF SharedIsFresh, IsFresh, AnswerIsNewest, IsUsed, Shares, RegressesOnlyWhileReloading
<1>10. QED
  BY <1>5, <1>6, <1>7, <1>8, <1>9

(* An answer put in the list. *)
LEMMA ShownList ==
  ASSUME ScreensInv, NEW v \in Nat, v <= server
  PROVE  /\ Shown(v) \in ListRows /\ Shown(v).shown = v /\ Shown(v).seen <= server
         /\ list.seen <= v => Shown(v).seen = v
         /\ \A f \in BOOLEAN : LET q == [Shown(v) EXCEPT !.failed = f] IN
              q \in ListRows /\ q.shown = v /\ q.seen = Shown(v).seen /\ q.failed = f
<1> DEFINE h == Higher(list.seen, v)
<1>1. list \in ListRows /\ list.seen \in Nat /\ list.seen <= server /\ server \in Nat
  BY ListFields DEF ScreensInv, ScreensTypeOK, VersionsAreKnown
<1>2. h \in Nat /\ h <= server /\ (list.seen <= v => h = v)
  BY <1>1 DEF Higher
<1>3. Shown(v) = [list EXCEPT !.shown = v, !.seen = h]
  BY DEF Shown
<1> HIDE DEF h
<1>4. Shown(v) \in ListRows /\ Shown(v).shown = v /\ Shown(v).seen = h
  BY <1>1, <1>2, <1>3 DEF ListRows
<1> HIDE DEF Shown
<1>5. QED
  BY <1>2, <1>4 DEF ListRows

LEMMA AnswerKeeps ==
  ASSUME ScreensInv, NEW n \in Submissions, AnswerArrives(n)
  PROVE  ScreensInv'
<1> USE DEF ScreensInv
<1> DEFINE v == attempts[n].version
<1>1. /\ attempts[n].phase = "answered" /\ IsUsed(n)
      /\ UNCHANGED <<screen, server, receipts, patches, attended>>
  BY DEF AnswerArrives, IsUsed
<1>2. /\ attempts' \in [Submissions -> AttemptRows]
      /\ \A m \in Submissions \ {n} : attempts'[m] = attempts[m]
      /\ attempts'[n] = [phase |-> "over", form |-> attempts[n].form, key |-> attempts[n].key,
           version |-> v, current |-> FALSE]
  <2>1. ASSUME NEW p \in Phases, attempts' = [attempts EXCEPT ![n].phase = p, ![n].current = FALSE]
        PROVE  /\ attempts' \in [Submissions -> AttemptRows]
               /\ \A m \in Submissions \ {n} : attempts'[m] = attempts[m]
               /\ attempts'[n] = [phase |-> p, form |-> attempts[n].form, key |-> attempts[n].key,
                    version |-> v, current |-> FALSE]
    BY <2>1, RowGoesOn, 0 \in Nat
  <2>2. attempts' = [attempts EXCEPT ![n].phase = "over", ![n].current = FALSE] /\ "over" \in Phases
    BY DEF AnswerArrives, Phases
  <2>3. QED
    BY <2>1, <2>2
<1>3. /\ GoesOn(n) /\ attempts'[n].phase = "over" /\ ~attempts'[n].current /\ attempts'[n].version = v
      /\ attempts'[n].key = attempts[n].key
  BY <1>1, <1>2 DEF GoesOn, IsUsed
<1>4. \A m \in Submissions : attempts'[m].version = attempts[m].version
                             /\ (attempts'[m].current => attempts[m].current)
  BY <1>2, <1>3
<1>5. CASE ~attempts[n].current
  <2>1. UNCHANGED <<list, desk, loads>>
    BY <1>5 DEF AnswerArrives
  <2>2. /\ AttemptsAreSound' /\ OneIsCurrent' /\ OneKeyEach'
        /\ \A m \in Submissions : IsUsed(m)' <=> IsUsed(m)
    BY <1>1, <1>3, <2>1, FormStays, GoingOnKeeps
  <2>3. ScreensTypeOK'
    BY <1>1, <1>2, <2>1 DEF ScreensTypeOK
  <2>4. BlindIsBlocked' /\ VersionsAreKnown' /\ LoadsAreNewest' /\ RegressesOnlyWhileReloading'
    BY <1>1, <1>4, <2>1 DEF BlindIsBlocked, Verifies, VersionsAreKnown, LoadsAreNewest, IsPutRight, Shares,
       RegressesOnlyWhileReloading
  <2>5. SharedIsFresh'
    <3>1. IsFresh => AnswerIsNewest(n)'
      BY <1>1, <1>3, <2>2 DEF SharedIsFresh, AnswerIsNewest
    <3>2. IsFresh => \A m \in Submissions \ {n} : AnswerIsNewest(m)'
      BY <1>1, <1>2, <2>1 DEF SharedIsFresh, AnswerIsNewest, IsUsed
    <3>3. QED
      BY <1>1, <1>4, <2>1, <3>1, <3>2 DEF SharedIsFresh, IsFresh, Shares
  <2>6. KeysAreKept'
    BY <1>1, <1>3, <2>1, <2>2 DEF KeysAreKept, GoesOn
  <2>7. QED
    BY <2>2, <2>3, <2>4, <2>5, <2>6
<1>6. CASE attempts[n].current
  <2> DEFINE base == IF screen.command.commits THEN Shown(v) ELSE list
             f == base.failed /\ ~screen.command.reloads
             done == IsDoneWith(attempts[n].form)
             u == IF screen.command.reloads THEN Settled("ready", Awaiting, OvertakenWillDo) ELSE "ready"
             form == IF done THEN desk.form + 1 ELSE desk.form
             kept == IF done THEN 0 ELSE desk.kept
  <2>1. /\ list' = [base EXCEPT !.failed = f]
        /\ desk' = [desk EXCEPT !.ui = u, !.form = form, !.kept = kept]
        /\ loads' = IF screen.command.reloads THEN Reload("none") ELSE loads
    BY <1>6, <1>1 DEF AnswerArrives, Shown
  <2>2. /\ list \in ListRows /\ v \in Nat /\ v <= server /\ list.shown \in Nat /\ list.seen \in Nat
        /\ list.seen <= server /\ server \in Nat
    BY <1>1, ListFields, AttemptFields DEF ScreensTypeOK, VersionsAreKnown
  <2>3. IsFresh => list.shown = list.seen /\ list.seen <= v
    BY <1>1, <1>6 DEF SharedIsFresh, AnswerIsNewest
  <2>4. /\ base \in ListRows /\ base.seen <= server
        /\ (IsFresh => base.shown = base.seen)
        /\ (~screen.command.commits => base = list)
    BY <2>2, <2>3, ShownList
  <2> HIDE DEF v, base
  <2>5. /\ list' \in ListRows /\ list'.seen <= server /\ (IsFresh => list'.shown = list'.seen)
        /\ (~screen.command.commits /\ ~screen.command.reloads) =>
             list'.shown = list.shown /\ list'.seen = list.seen /\ list'.failed = list.failed
    <3>1. base.failed \in BOOLEAN /\ f \in BOOLEAN /\ (~screen.command.reloads => f = base.failed)
      BY <2>4 DEF ListRows
    <3> HIDE DEF f
    <3>2. QED
      BY <2>1, <2>4, <3>1 DEF ListRows
  <2>6. /\ desk' \in DeskRows /\ desk'.blind = desk.blind /\ desk'.prepared = desk.prepared
        /\ desk'.form = form /\ desk'.kept = kept
        /\ form \in Nat /\ form # 0 /\ desk.form \in Nat /\ desk.form <= form
    <3>1. desk \in DeskRows /\ desk.form \in Nat /\ desk.kept \in Keys /\ desk.form # 0
      BY DeskFields DEF ScreensTypeOK
    <3>2. 0 \in Keys /\ "ready" \in Buttons
      BY BoundsAreNaturals DEF Keys, Buttons
    <3>3. u \in Buttons
      BY <3>2, SettledButtons
    <3>4. form \in Nat /\ form # 0 /\ kept \in Keys /\ desk.form <= form
      BY <3>1, <3>2
    <3> HIDE DEF u, form, kept
    <3>5. QED
      BY <2>1, <3>1, <3>3, <3>4 DEF DeskRows
  <2>7. /\ AttemptsAreSound' /\ OneIsCurrent' /\ OneKeyEach'
        /\ \A m \in Submissions : IsUsed(m)' <=> IsUsed(m)
    BY <1>1, <1>3, <2>6, GoingOnKeeps
  <2>8. /\ loads' \subseteq LoadRows
        /\ \A l \in loads' : l.read = 0 \/ \E r \in loads : l.read = r.read
        /\ \A l, r \in loads' : l.current /\ r.current => l = r
        /\ screen.command.reloads =>
             (\E l \in loads' : l.current) /\ \A l \in loads' : l.current => l.read = 0
        /\ ~screen.command.reloads => loads' = loads
    <3>1. CASE screen.command.reloads
      BY <2>1, <3>1, ReloadedLoads
    <3>2. CASE ~screen.command.reloads
      BY <2>1, <3>2 DEF ScreensTypeOK, LoadsAreNewest
    <3>3. QED
      BY <3>1, <3>2
  <2>9. screen.command.fence # "none" => \A m \in Submissions : ~attempts'[m].current
    BY <1>2, <1>3, <1>4, <1>6 DEF OneIsCurrent
  <2>10. ScreensTypeOK'
    BY <1>1, <1>2, <2>5, <2>6, <2>8 DEF ScreensTypeOK
  <2>11. BlindIsBlocked'
    BY <1>1, <1>6, <2>6 DEF BlindIsBlocked, Verifies
  <2>12. VersionsAreKnown'
    BY <1>1, <1>4, <2>2, <2>5, <2>8 DEF VersionsAreKnown
  <2>13. LoadsAreNewest'
    <3>1. IsFresh => \A l \in loads : ~l.current
      BY <1>6 DEF SharedIsFresh
    <3>2. ~screen.command.reloads /\ IsPutRight => IsFresh \/ ~screen.command.commits
      BY DEF IsPutRight, IsFresh
    <3>3. QED
      BY <1>1, <2>5, <2>8, <3>1, <3>2 DEF LoadsAreNewest, IsPutRight, Shares
  <2>14. SharedIsFresh'
    <3>1. IsFresh => screen.command.fence # "none"
      BY DEF Shares, IsFresh
    <3>2. IsFresh => AnswerIsNewest(n)'
      BY <1>1, <1>3, <2>7 DEF SharedIsFresh, AnswerIsNewest
    <3>3. IsFresh => \A m \in Submissions \ {n} : AnswerIsNewest(m)'
      BY <1>1, <1>2, <2>9, <3>1 DEF SharedIsFresh, AnswerIsNewest, IsUsed
    <3>4. QED
      BY <1>1, <2>5, <2>9, <3>1, <3>2, <3>3 DEF SharedIsFresh, IsFresh, Shares
  <2>15. KeysAreKept'
    <3>1. CASE done
      <4>1. \A m \in Submissions : IsUsed(m)' => attempts'[m].form # desk'.form
        BY <1>2, <1>3, <2>6, <2>7, <3>1 DEF AttemptsAreSound, AttemptIsSound, GoesOn
      <4>2. QED
        BY <4>1 DEF KeysAreKept
    <3>2. CASE ~done
      BY <1>1, <1>3, <2>6, <2>7, <3>2 DEF KeysAreKept, GoesOn
    <3>3. QED
      BY <3>1, <3>2
  <2>16. RegressesOnlyWhileReloading'
    <3>1. list'.shown \in Nat /\ list'.seen \in Nat
      BY <2>5 DEF ListRows
    <3>2. IsFresh => ~(list'.shown < list'.seen)
      BY <2>5, <3>1
    <3>3. ~screen.command.reloads /\ IsPutRight => IsFresh \/ ~screen.command.commits
      BY DEF IsPutRight, IsFresh
    <3>4. QED
      BY <1>1, <2>5, <2>8, <3>2, <3>3 DEF RegressesOnlyWhileReloading, IsPutRight, Shares
  <2>17. QED
    BY <2>7, <2>10, <2>11, <2>12, <2>13, <2>14, <2>15, <2>16
<1>7. QED
  BY <1>5, <1>6

LEMMA PatchKeeps ==
  ASSUME ScreensInv, NEW version \in patches, PatchArrives(version)
  PROVE  ScreensInv'
<1> USE DEF ScreensInv
<1>1. /\ version \in Nat /\ version <= server /\ ~IsFresh
      /\ patches' \subseteq patches /\ UNCHANGED <<screen, server, receipts, attended>>
  BY DEF PatchArrives, ScreensTypeOK, VersionsAreKnown, IsFresh
<1>2. list' \in ListRows /\ list'.seen <= server
  <2>1. list' = [Shown(version) EXCEPT !.failed = FALSE] /\ FALSE \in BOOLEAN
    BY DEF PatchArrives
  <2>2. QED
    BY <1>1, <2>1, ShownList
<1>3. CASE BeginLoad("none")
  BY <1>1, <1>2, <1>3, LoadBegins
<1>4. CASE screen.list.patched = "bare" /\ UNCHANGED <<loads, attempts, desk>>
  <2>1. ~IsPutRight
    BY <1>4 DEF IsPutRight
  <2>2. ScreensTypeOK'
    BY <1>1, <1>2, <1>4 DEF ScreensTypeOK
  <2>3. AttemptsAreSound' /\ OneIsCurrent' /\ OneKeyEach' /\ KeysAreKept' /\ BlindIsBlocked'
    BY <1>1, <1>4 DEF AttemptsAreSound, AttemptIsSound, IsUsed, OneIsCurrent, OneKeyEach, KeysAreKept,
       BlindIsBlocked, Verifies
  <2>4. VersionsAreKnown' /\ LoadsAreNewest' /\ SharedIsFresh' /\ RegressesOnlyWhileReloading'
    BY <1>1, <1>2, <1>4, <2>1 DEF VersionsAreKnown, LoadsAreNewest, SharedIsFresh, IsFresh, IsPutRight, Shares,
       RegressesOnlyWhileReloading
  <2>5. QED
    BY <2>2, <2>3, <2>4
<1>5. QED
  BY <1>3, <1>4 DEF PatchArrives

LEMMA FailureKeeps ==
  ASSUME ScreensInv, NEW n \in Submissions, FailureArrives(n)
  PROVE  ScreensInv'
<1> USE DEF ScreensInv
<1> DEFINE p == IF attempts[n].phase = "sent" THEN "sent" ELSE "over"
<1>1. /\ attempts[n].phase \in {"sent", "answered", "refused"} /\ attempts[n].current /\ IsUsed(n)
      /\ UNCHANGED <<screen, server, receipts, patches, attended>>
  BY DEF FailureArrives, IsUsed
<1>2. /\ attempts' \in [Submissions -> AttemptRows]
      /\ \A m \in Submissions \ {n} : attempts'[m] = attempts[m]
      /\ attempts'[n] = [phase |-> p, form |-> attempts[n].form, key |-> attempts[n].key,
           version |-> attempts[n].version, current |-> FALSE]
  <2>1. ASSUME NEW q \in Phases, attempts' = [attempts EXCEPT ![n].phase = q, ![n].current = FALSE]
        PROVE  /\ attempts' \in [Submissions -> AttemptRows]
               /\ \A m \in Submissions \ {n} : attempts'[m] = attempts[m]
               /\ attempts'[n] = [phase |-> q, form |-> attempts[n].form, key |-> attempts[n].key,
                    version |-> attempts[n].version, current |-> FALSE]
    BY <2>1, RowGoesOn, 0 \in Nat
  <2>2. attempts' = [attempts EXCEPT ![n].phase = p, ![n].current = FALSE] /\ p \in Phases
    BY DEF FailureArrives, Phases
  <2>3. QED
    BY <2>1, <2>2
<1>3. /\ GoesOn(n) /\ attempts'[n].phase = p /\ ~attempts'[n].current
      /\ attempts'[n].version = attempts[n].version /\ attempts'[n].key = attempts[n].key
  BY <1>1, <1>2 DEF GoesOn, IsUsed
<1>4. \A m \in Submissions : attempts'[m].version = attempts[m].version
                             /\ (attempts'[m].current => attempts[m].current)
  BY <1>2, <1>3
<1>5. screen.command.fence # "none" => \A m \in Submissions : ~attempts'[m].current
  BY <1>1, <1>2, <1>3, <1>4 DEF OneIsCurrent
<1>6. /\ desk' \in DeskRows /\ desk'.form = desk.form /\ desk'.kept = desk.kept /\ desk'.prepared = desk.prepared
      /\ desk'.ui \in {"reconciling", "blocked"} \/ desk'.blind = desk.blind \/ ~Verifies
  <2>1. desk \in DeskRows /\ desk.blind \in BOOLEAN /\ "reconciling" \in Buttons /\ "ready" \in Buttons
    BY DeskFields DEF ScreensTypeOK, Buttons
  <2> DEFINE u == Settled("reconciling", Awaiting, OvertakenWillDo)
             b == desk.blind \/ attempts[n].phase # "refused"
  <2>2. OvertakenWillDo \in BOOLEAN /\ (Verifies => OvertakenWillDo = FALSE)
    BY <2>1, SettledButtons
  <2>3. u \in Buttons /\ b \in BOOLEAN
    BY <2>1, <2>2, SettledButtons
  <2>4. Verifies => u \in {"reconciling", "blocked"}
    <3>1. Settled("reconciling", Awaiting, FALSE) \in {"reconciling", "blocked"}
      BY <2>1, SettledButtons
    <3>2. QED
      BY <2>2, <3>1
  <2>5. desk' = [desk EXCEPT !.ui = u, !.blind = b] \/ desk' = [desk EXCEPT !.ui = "ready"]
    BY DEF FailureArrives
  <2> HIDE DEF u, b
  <2>6. QED
    BY <2>1, <2>3, <2>4, <2>5 DEF DeskRows
<1>7. desk'.form \in Nat /\ desk.form <= desk'.form
  BY <1>6, DeskFields
<1>8. /\ AttemptsAreSound' /\ OneIsCurrent' /\ OneKeyEach'
      /\ \A m \in Submissions : IsUsed(m)' <=> IsUsed(m)
  BY <1>1, <1>3, <1>7, GoingOnKeeps
<1>9. /\ list' \in ListRows /\ list'.shown = list.shown /\ list'.seen = list.seen
      /\ loads' \subseteq LoadRows
      /\ \A l \in loads' : l.read = 0 \/ \E r \in loads : l.read = r.read
      /\ \A l, r \in loads' : l.current /\ r.current => l = r
      /\ \/ (\E l \in loads' : l.current) /\ \A l \in loads' : l.current => l.read = 0
         \/ UNCHANGED <<loads, list>>
  <2>1. ASSUME NEW awaited \in {"none", "verify"}, loads' = Reload(awaited), list' = [list EXCEPT !.failed = FALSE]
        PROVE  /\ list' \in ListRows /\ list'.shown = list.shown /\ list'.seen = list.seen
               /\ loads' \subseteq LoadRows
               /\ \A l \in loads' : l.read = 0 \/ \E r \in loads : l.read = r.read
               /\ \A l, r \in loads' : l.current /\ r.current => l = r
               /\ (\E l \in loads' : l.current) /\ \A l \in loads' : l.current => l.read = 0
    <3>1. list' \in ListRows /\ list'.shown = list.shown /\ list'.seen = list.seen
      BY <2>1, ListFields DEF ScreensTypeOK
    <3>2. QED
      BY <2>1, <3>1, ReloadedLoads
  <2>2. CASE UNCHANGED <<loads, list>>
    BY <2>2 DEF ScreensTypeOK, LoadsAreNewest
  <2>3. \/ \E awaited \in {"none", "verify"} : loads' = Reload(awaited) /\ list' = [list EXCEPT !.failed = FALSE]
        \/ UNCHANGED <<loads, list>>
    BY DEF FailureArrives
  <2>4. QED
    BY <2>1, <2>2, <2>3
<1>10. ScreensTypeOK'
  BY <1>1, <1>2, <1>6, <1>9 DEF ScreensTypeOK
<1>11. BlindIsBlocked'
  <2>1. Verifies => screen.command.fence # "none" /\ ~desk.blind
    BY <1>1, ScreenFields DEF Verifies, ScreensTypeOK, BlindIsBlocked
  <2>2. QED
    BY <1>1, <1>5, <1>6, <2>1 DEF BlindIsBlocked, Verifies
<1>12. VersionsAreKnown'
  BY <1>1, <1>4, <1>9 DEF VersionsAreKnown, ScreensTypeOK
<1>13. LoadsAreNewest'
  BY <1>1, <1>9 DEF LoadsAreNewest, IsPutRight, Shares
<1>14. SharedIsFresh'
  <2>1. IsFresh => screen.command.fence # "none"
    BY DEF IsFresh, Shares
  <2>2. IsFresh => AnswerIsNewest(n)'
    BY <1>1, <1>3, <1>8 DEF SharedIsFresh, AnswerIsNewest
  <2>3. IsFresh => \A m \in Submissions \ {n} : AnswerIsNewest(m)'
    BY <1>1, <1>2, <1>5, <2>1 DEF SharedIsFresh, AnswerIsNewest, IsUsed
  <2>4. QED
    BY <1>1, <1>5, <1>9, <2>1, <2>2, <2>3 DEF SharedIsFresh, IsFresh, Shares
<1>15. KeysAreKept'
  BY <1>1, <1>3, <1>6, <1>8 DEF KeysAreKept, GoesOn
<1>16. RegressesOnlyWhileReloading'
  BY <1>1, <1>9 DEF RegressesOnlyWhileReloading, IsPutRight, Shares
<1>17. QED
  BY <1>8, <1>10, <1>11, <1>12, <1>13, <1>14, <1>15, <1>16

-----------------------------------------------------------------------------
LEMMA ScreensStart == ASSUME Init PROVE ScreensInv
<1>1. /\ screen \in Screens /\ server = 1 /\ receipts = [k \in Submissions |-> 0] /\ loads = {} /\ patches = {}
      /\ attempts = [n \in Submissions |-> NoAttempt] /\ list = EmptyList /\ desk = IdleDesk
      /\ attended = FALSE
  BY DEF Init
<1>2. EmptyList \in ListRows /\ EmptyList.shown = 0 /\ EmptyList.seen = 0
  BY DEF EmptyList, ListRows
<1>3. IdleDesk \in DeskRows /\ ~IdleDesk.blind /\ ~IdleDesk.prepared /\ IdleDesk.form # 0
  <2>1. 0 \in Keys
    BY BoundsAreNaturals DEF Keys
  <2>2. QED
    BY <2>1 DEF IdleDesk, DeskRows, Buttons
<1>4. /\ NoAttempt \in AttemptRows /\ NoAttempt.phase = "unused" /\ NoAttempt.form = 0
      /\ NoAttempt.version = 0 /\ ~NoAttempt.current
  BY BoundsAreNaturals DEF NoAttempt, AttemptRows, Phases, Keys
<1>5. \A n \in Submissions : ~IsUsed(n) /\ attempts[n] = NoAttempt /\ receipts[n] = 0
  BY <1>1, <1>4 DEF IsUsed
<1>6. ScreensTypeOK
  BY <1>1, <1>2, <1>3, <1>4 DEF ScreensTypeOK
<1>7. AttemptsAreSound /\ OneIsCurrent /\ OneKeyEach /\ KeysAreKept /\ BlindIsBlocked
  BY <1>1, <1>3, <1>4, <1>5 DEF AttemptsAreSound, AttemptIsSound, OneIsCurrent, OneKeyEach, KeysAreKept,
     BlindIsBlocked
<1>8. VersionsAreKnown /\ LoadsAreNewest /\ RegressesOnlyWhileReloading
  BY <1>1, <1>2, <1>4, <1>5 DEF VersionsAreKnown, LoadsAreNewest, RegressesOnlyWhileReloading
<1>9. SharedIsFresh
  BY <1>1, <1>2, <1>4, <1>5 DEF SharedIsFresh, AnswerIsNewest
<1>10. QED
  BY <1>6, <1>7, <1>8, <1>9 DEF ScreensInv

LEMMA ScreensStepKeeps == ASSUME ScreensInv, [Next]_vars PROVE ScreensInv'
<1>1. CASE Enter \/ Leave \/ AskAgain \/ RefreshForRetry \/ \E version \in 1 .. MaxVersion : EventArrives(version)
  BY <1>1, EnterKeeps, LeaveKeeps, AsksKeep
<1>2. CASE Edit \/ Submit \/ Prepare \/ SendPrepared
  BY <1>2, EditKeeps, SubmitKeeps
<1>3. CASE OthersChange
  <2>1. /\ server' = server + 1 /\ server \in Nat
        /\ UNCHANGED patches \/ (screen.list.patched # "never" /\ patches' = patches \cup {server'})
        /\ UNCHANGED <<screen, receipts, attempts, loads, list, desk, attended>>
    BY <1>3 DEF OthersChange, Changes, ScreensInv, ScreensTypeOK
  <2>2. server' \in Nat /\ server <= server'
    BY <2>1
  <2>3. QED
    BY <2>1, <2>2, ServerMoves
<1>4. CASE \E n \in Submissions : ServerApplies(n) \/ ServerRefuses(n) \/ AnswerArrives(n) \/ FailureArrives(n)
  BY <1>4, AppliesKeeps, RefusesKeeps, AnswerKeeps, FailureKeeps
<1>5. CASE Loading \/ LoadEnds \/ \E version \in patches : PatchArrives(version)
  BY <1>5, ReadsKeep, ArrivesKeeps, LoadFailsKeeps, PatchKeeps DEF Loading, LoadEnds
<1>6. CASE Connection \/ UNCHANGED vars
  <2>1. UNCHANGED <<screen, server, receipts, attempts, loads, patches, list, desk, attended>>
    BY <1>6 DEF Connection, vars
  <2>2. server \in Nat
    BY DEF ScreensInv, ScreensTypeOK
  <2>3. server' \in Nat /\ server <= server'
    BY <2>1, <2>2
  <2>4. QED
    BY <2>1, <2>3, ServerMoves
<1>7. QED
  BY <1>1, <1>2, <1>3, <1>4, <1>5, <1>6 DEF Next

-----------------------------------------------------------------------------
(* What is shown goes back to an older version only while a load that will put it
   right is under way, or under a notice that loading failed: whatever answers of
   commands, of other screens' commands and of loads overlap, on every screen but
   those that leave an answer in the list and load nothing, as the rooms. *)
THEOREM ListsRegressOnlyWhileReloading == Spec => []RegressesOnlyWhileReloading
<1>1. Init => ScreensInv
  BY ScreensStart
<1>2. ScreensInv /\ [Next]_vars => ScreensInv'
  BY ScreensStepKeeps
<1>3. ScreensInv => RegressesOnlyWhileReloading
  BY DEF ScreensInv
<1>4. QED
  BY <1>1, <1>2, <1>3, PTL DEF Spec

(* Where what was lost is verified, the result is looked at and nothing is prepared
   between the question and the sending, as where reservations are created, no command
   is taken until the list was loaded anew: the screen waits for a load or is blocked,
   and neither an answer of another command nor a load that was overtaken lifts that. *)
THEOREM NoRetryIsBlind == Spec => []NoBlindRetry
<1>1. Init => ScreensInv
  BY ScreensStart
<1>2. ScreensInv /\ [Next]_vars => ScreensInv'
  BY ScreensStepKeeps
<1>3. ScreensInv => NoBlindRetry
  BY DEF ScreensInv, BlindIsBlocked, Verifies, NoBlindRetry, AcceptsSubmit
<1>4. QED
  BY <1>1, <1>2, <1>3, PTL DEF Spec

(* A form that keeps its key, sent again as it is, acts once, however often it is sent
   and whatever answers were lost: all its commands carried one key.  Once what it says
   is changed it is another form. *)
THEOREM FormsActOnce == Spec => []ActedOnce
<1>1. Init => ScreensInv
  BY ScreensStart
<1>2. ScreensInv /\ [Next]_vars => ScreensInv'
  BY ScreensStepKeeps
<1>3. ScreensInv => ActedOnce
  BY DEF ScreensInv, AttemptsAreSound, AttemptIsSound, OneKeyEach, ActedOnce
<1>4. QED
  BY <1>1, <1>2, <1>3, PTL DEF Spec
=============================================================================
