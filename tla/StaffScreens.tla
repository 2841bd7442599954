---------------------------- MODULE StaffScreens ----------------------------
(***************************************************************************)
(* A screen of the staff front end: a list loaded from the server, and     *)
(* commands that change what it lists.  The hooks under src/Fronted/src    *)
(* differ in how they fence answers that come late, what they do when an   *)
(* answer is lost, whether they keep a key for a retry and whether events  *)
(* reload them; each is a pair of records below, and the actions are those *)
(* that all of them share.  The server is a version that grows with every  *)
(* change of what the screen lists, and the receipts of the keys it has    *)
(* applied.  A generation is whether a request is still the current one.   *)
(***************************************************************************)
EXTENDS Naturals, FiniteSets

CONSTANTS Screens,      \* the screens, of which one is taken
          MaxVersion,   \* bound on the changes the server makes
          MaxSubmits,   \* bound on the commands that are sent
          MaxActs       \* bound on what the operator does on each

ASSUME BoundsAreNaturals == MaxVersion \in Nat /\ MaxSubmits \in Nat /\ MaxActs \in [Screens -> Nat]

ASSUME ScreensAreKnown ==
    Screens \subseteq
        [command : [fence : {"own", "shared", "none"}, keeps : BOOLEAN, commits : BOOLEAN, reloads : BOOLEAN,
                    onFailure : {"verifies", "reloads", "asAdvised", "nothing"}, checks : {"no", "own", "any"},
                    lock : {"screen", "form", "none"}, prepares : BOOLEAN, rescues : BOOLEAN],
         list : [live : BOOLEAN, overtaken : {"throws", "null"}, patched : {"never", "reloaded", "bare"}]]

(* Who verifies has a generation of its own, and no key is kept where commands and loads share one. *)
ASSUME ScreensAreFenced ==
    \A s \in Screens : /\ s.command.onFailure = "verifies" => s.command.fence = "own"
                       /\ s.command.keeps => s.command.fence # "shared"
(***************************************************************************)
(* Commands.  fence: late answers are told by a generation of the          *)
(* command's "own", by one "shared" with the loads, or by "none".  keeps:  *)
(* the key a form was sent with lives until the form succeeds or is        *)
(* changed.  commits: the answer is put in the list; reloads: the list is  *)
(* loaded again after it.  onFailure "verifies": no command until the list *)
(* has been loaded again; "reloads": it is loaded again in any case;       *)
(* "asAdvised": if the error advises it.  checks: whether a load that was  *)
(* overtaken counts as failed: "no", or for a command no other was sent    *)
(* after ("own"), or for "any".  lock: one command at a time of a "screen" *)
(* or of a "form".  prepares: between what is asked before a command and   *)
(* its sending a document is drawn up or photos are stored.  rescues: a    *)
(* button loads the list and lifts the block.                              *)
(***************************************************************************)
StayCommand == [fence |-> "own", keeps |-> FALSE, commits |-> TRUE, reloads |-> TRUE, onFailure |-> "verifies",
                checks |-> "any", lock |-> "none", prepares |-> TRUE, rescues |-> FALSE]

CleaningCommand == [StayCommand EXCEPT !.checks = "no", !.rescues = TRUE]

MaintenanceCommand == CleaningCommand

ReservationCreate == [StayCommand EXCEPT !.checks = "own", !.lock = "screen", !.prepares = FALSE, !.rescues = TRUE]

ReservationLifecycle == [StayCommand EXCEPT !.commits = FALSE, !.onFailure = "asAdvised", !.prepares = FALSE]

RoomCommand == [ReservationLifecycle EXCEPT !.fence = "shared", !.commits = TRUE, !.reloads = FALSE]

CategoryCommand == [RoomCommand EXCEPT !.fence = "none"]

GuestCommand == RoomCommand

ParkingCommand == RoomCommand

PetCommand == RoomCommand

(* No case of the reducer takes what commands of the drawer and incidents put in the list. *)
CashCommand == [ReservationLifecycle EXCEPT !.fence = "none"]

KitchenCommand == [CashCommand EXCEPT !.commits = TRUE, !.onFailure = "reloads"]

InventoryCommand == [KitchenCommand EXCEPT !.onFailure = "nothing"]

MenuCommand == InventoryCommand

IncidentCommand == [InventoryCommand EXCEPT !.commits = FALSE, !.reloads = FALSE]

OrderForm == [KitchenCommand EXCEPT !.keeps = TRUE, !.lock = "form"]

FolioForm == [InventoryCommand EXCEPT !.commits = FALSE, !.keeps = TRUE, !.lock = "screen"]

(***************************************************************************)
(* Lists.  live: events of the socket load the list again.  overtaken:     *)
(* what whoever awaits a load is given when another load replaced it.      *)
(* patched: the answers of other screens' commands are put in the list,    *)
(* which those commands then load again, or some of them do not ("bare").  *)
(***************************************************************************)
StayList == [live |-> FALSE, overtaken |-> "throws", patched |-> "never"]

ReservationList == [live |-> FALSE, overtaken |-> "null", patched |-> "reloaded"]

CleaningList == [ReservationList EXCEPT !.patched = "never"]

MaintenanceList == CleaningList

IncidentList == ReservationList

RoomList == [ReservationList EXCEPT !.live = TRUE, !.patched = "bare"]

GuestList == CleaningList

ParkingList == CleaningList

PetList == CleaningList

CashList == CleaningList

OrderList == [ReservationList EXCEPT !.live = TRUE]

MenuList == CleaningList

FolioList == CleaningList

-----------------------------------------------------------------------------
VARIABLES screen,     \* the records of the screen
          server,     \* the version the server is at
          receipts,   \* for each key the version its command made, or 0
          attempts,   \* the commands sent, in order
          loads,      \* the loads of the list in flight
          patches,    \* the answers to other screens' commands in flight
          list,       \* what is shown, the highest shown, the highest told, whether the last load failed
          desk,       \* the state of the command buttons, the form and its key, commands in preparation, doubt
          attended,   \* the screen is open
          socket,     \* whether it is connected, and events under way
          acts        \* what the operator has done, a bound

vars == <<screen, server, receipts, attempts, loads, patches, list, desk, attended, socket, acts>>

Submissions == 1 .. MaxSubmits

NoAttempt == [phase |-> "unused", form |-> 0, key |-> 0, version |-> 0, current |-> FALSE]

EmptyList == [shown |-> 0, seen |-> 0, told |-> 0, failed |-> FALSE]

IdleDesk == [ui |-> "ready", form |-> 1, kept |-> 0, prepared |-> FALSE, blind |-> FALSE]

Init ==
    /\ screen \in Screens
    /\ server = 1
    /\ receipts = [k \in Submissions |-> 0]
    /\ attempts = [n \in Submissions |-> NoAttempt]
    /\ loads = {}
    /\ patches = {}
    /\ list = EmptyList
    /\ desk = IdleDesk
    /\ attended = FALSE
    /\ socket = [connected |-> FALSE, events |-> {}]
    /\ acts = 0

Higher(a, b) == IF a > b THEN a ELSE b

Shares == screen.command.fence = "shared"

Act == acts < MaxActs[screen] /\ acts' = acts + 1

(* A bug to catch: the loads under way stay the current ones. *)
NotOvertaken(requests) == requests

(* What loads that were overtaken leave: answers that will be dropped. *)
Overtaken(requests) == {[l EXCEPT !.current = FALSE, !.awaited = "none"] : l \in {r \in requests : r.read > 0}}

Superseded(commands) == [n \in Submissions |-> [commands[n] EXCEPT !.current = FALSE]]

(***************************************************************************)
(* Who awaits a load: nobody, a failed command that it verifies, such a    *)
(* command after which another was sent ("late"), or the button that lifts *)
(* the block.                                                              *)
(***************************************************************************)
Reload(awaited) == Overtaken(loads) \cup {[read |-> 0, current |-> TRUE, awaited |-> awaited]}

Awaiting == IF \E l \in loads : l.current THEN (CHOOSE l \in loads : l.current).awaited ELSE "none"

(* A bug to catch: an overtaken load counts as done. *)
CountsAsDone == TRUE

(* Whether a load that was overtaken is as good as one that arrived. *)
OvertakenWillDo == screen.command.checks = "no" /\ screen.list.overtaken = "null"

(* The buttons after whoever awaited a load went on: content, or not. *)
Settled(ui, awaited, content) ==
    CASE awaited = "verify" -> IF content THEN "ready" ELSE "blocked"
      [] awaited = "late" /\ ~content /\ screen.command.checks = "any" -> "blocked"
      [] awaited = "button" /\ content -> "ready"
      [] OTHER -> ui

(* A load that begins overtakes the one before and, where the generation is shared, the command under way. *)
BeginLoad(awaited) ==
    /\ loads' = Reload(awaited)
    /\ attempts' = IF Shares THEN Superseded(attempts) ELSE attempts
    /\ desk' = [desk EXCEPT !.ui = IF Shares THEN "ready" ELSE Settled(@, Awaiting, OvertakenWillDo)]

-----------------------------------------------------------------------------
(* The operator. *)

Enter ==
    /\ ~attended /\ Act
    /\ attended' = TRUE
    /\ loads' = Reload("none")
    /\ socket' = [connected |-> screen.list.live, events |-> {}]
    /\ UNCHANGED <<screen, server, receipts, attempts, patches, list, desk>>

(* The session ends, or the panel of the folio is closed: what is under way falls on nobody. *)
Leave ==
    /\ attended /\ Act
    /\ attended' = FALSE
    /\ loads' = {}
    /\ patches' = {}
    /\ attempts' = Superseded(attempts)
    /\ list' = EmptyList
    /\ desk' = [IdleDesk EXCEPT !.form = desk.form + 1]
    /\ socket' = [connected |-> FALSE, events |-> {}]
    /\ UNCHANGED <<screen, server, receipts>>

(* The list is asked for again: by its button, by a view that opens, or by the command of another screen. *)
AskAgain ==
    /\ attended /\ Act
    /\ BeginLoad("none")
    /\ list' = [list EXCEPT !.failed = FALSE]
    /\ UNCHANGED <<screen, server, receipts, patches, attended, socket>>

RefreshForRetry ==
    /\ attended /\ Act
    /\ screen.command.rescues /\ desk.ui \in {"blocked", "reconciling"}
    /\ BeginLoad("button")
    /\ list' = [list EXCEPT !.failed = FALSE]
    /\ UNCHANGED <<screen, server, receipts, patches, attended, socket>>

(* What a form says is changed, or another one is opened, maybe while a command is under way. *)
Edit ==
    /\ attended /\ Act
    /\ screen.command.keeps
    /\ desk' = [desk EXCEPT !.form = @ + 1, !.kept = 0]
    /\ UNCHANGED <<screen, server, receipts, attempts, loads, patches, list, attended, socket>>

AcceptsSubmit ==
    /\ desk.ui \notin {"blocked", "reconciling"}
    /\ screen.command.lock = "screen" => desk.ui = "ready"
    /\ screen.command.lock = "form" => \A n \in Submissions : attempts[n].current => attempts[n].form # desk.form

(* A bug to catch: a key for each command. *)
KeyForEach(n) == n

(* The key a command is sent with. *)
KeyFor(n) == IF screen.command.keeps /\ desk.kept # 0 THEN desk.kept ELSE n

(* Nothing is asked when a command is sent: it supersedes the command before, and its verification. *)
Send(prepared) ==
    /\ \E n \in Submissions :
          /\ attempts[n].phase = "unused" /\ \A m \in 1 .. n - 1 : attempts[m].phase # "unused"
          /\ attempts' = [(IF screen.command.fence = "none" THEN attempts ELSE Superseded(attempts)) EXCEPT
                            ![n] = [phase |-> "sent", form |-> desk.form, key |-> KeyFor(n), version |-> 0,
                                    current |-> TRUE]]
          /\ desk' = [desk EXCEPT !.ui = "saving", !.kept = IF screen.command.keeps THEN KeyFor(n) ELSE 0,
                                  !.prepared = prepared]
    /\ loads' = IF Shares THEN Overtaken(loads)
                ELSE {[l EXCEPT !.awaited = IF @ = "verify" THEN "late" ELSE @] : l \in loads}
    /\ UNCHANGED <<screen, server, receipts, patches, list, attended, socket>>

Submit ==
    /\ attended /\ Act
    /\ AcceptsSubmit
    /\ Send(desk.prepared)

(* The contract of a check-in, the photos of a task: stored first, and the command is sent afterwards. *)
Prepare ==
    /\ attended /\ Act
    /\ screen.command.prepares /\ AcceptsSubmit
    /\ desk' = [desk EXCEPT !.prepared = TRUE]
    /\ UNCHANGED <<screen, server, receipts, attempts, loads, patches, list, attended, socket>>

(* The last command in preparation, or not. *)
SendPrepared ==
    /\ attended /\ desk.prepared
    /\ \E more \in BOOLEAN : Send(more)
    /\ UNCHANGED acts

-----------------------------------------------------------------------------
(* The server. *)

Announce(version) ==
    IF socket.connected THEN [socket EXCEPT !.events = @ \cup {version}] ELSE socket

Changes ==
    /\ server < MaxVersion
    /\ server' = server + 1
    /\ socket' = Announce(server + 1)

(* Somebody else changes what is listed, or the operator does on another screen. *)
OthersChange ==
    /\ Changes
    /\ \/ UNCHANGED patches
       \/ attended /\ screen.list.patched # "never" /\ patches' = patches \cup {server + 1}
    /\ UNCHANGED <<screen, receipts, attempts, loads, list, desk, attended, acts>>

(* A command is applied, or its receipt is read again. *)
ServerApplies(n) ==
    /\ attempts[n].phase = "sent"
    /\ LET key == attempts[n].key
       IN  \/ /\ receipts[key] = 0
              /\ Changes
              /\ receipts' = [receipts EXCEPT ![key] = server + 1]
              /\ attempts' = [attempts EXCEPT ![n].phase = "answered", ![n].version = server + 1]
           \/ /\ receipts[key] > 0
              /\ attempts' = [attempts EXCEPT ![n].phase = "answered", ![n].version = receipts[key]]
              /\ UNCHANGED <<server, receipts, socket>>
    /\ UNCHANGED <<screen, loads, patches, list, desk, attended, acts>>

ServerRefuses(n) ==
    /\ attempts[n].phase = "sent" /\ receipts[attempts[n].key] = 0
    /\ attempts' = [attempts EXCEPT ![n].phase = "refused"]
    /\ UNCHANGED <<screen, server, receipts, loads, patches, list, desk, attended, socket, acts>>

ServerReads(l) ==
    /\ l \in loads /\ l.read = 0
    /\ loads' = (loads \ {l}) \cup {[l EXCEPT !.read = server]}
    /\ UNCHANGED <<screen, server, receipts, attempts, patches, list, desk, attended, socket, acts>>

-----------------------------------------------------------------------------
(* What comes back. *)

(* The list as read is shown; what waited for it goes on.  A load that was overtaken is dropped. *)
LoadArrives(l) ==
    /\ l \in loads /\ l.read > 0
    /\ loads' = loads \ {l}
    /\ IF l.current
          THEN /\ list' = [list EXCEPT !.shown = l.read, !.seen = Higher(@, l.read), !.failed = FALSE]
               /\ desk' = [desk EXCEPT !.ui = Settled(@, l.awaited, TRUE), !.blind = FALSE]
          ELSE UNCHANGED <<list, desk>>
    /\ UNCHANGED <<screen, server, receipts, attempts, patches, attended, socket, acts>>

(* A load is asked for a second time by the client; when both failed the list says so. *)
LoadFails(l) ==
    /\ l \in loads /\ l.current
    /\ loads' = loads \ {l}
    /\ list' = [list EXCEPT !.failed = TRUE]
    /\ desk' = [desk EXCEPT !.ui = Settled(@, l.awaited, FALSE)]
    /\ UNCHANGED <<screen, server, receipts, attempts, patches, attended, socket, acts>>

Shown(version) == [list EXCEPT !.shown = version, !.seen = Higher(@, version)]

(* A form that succeeded is done with; an order closes whatever order is open. *)
IsDoneWith(form) == screen.command.keeps /\ (form = desk.form \/ screen.command.commits)

(* The answer of a command is put in the list, which is then loaded again. *)
AnswerArrives(n) ==
    /\ attempts[n].phase = "answered"
    /\ attempts' = [attempts EXCEPT ![n].phase = "over", ![n].current = FALSE]
    /\ IF attempts[n].current
          THEN LET done    == IsDoneWith(attempts[n].form)
                   reloads == screen.command.reloads
               IN  /\ list' = [(IF screen.command.commits THEN Shown(attempts[n].version) ELSE list) EXCEPT
                                 !.failed = @ /\ ~reloads]
                   /\ desk' = [desk EXCEPT !.ui = IF reloads THEN Settled("ready", Awaiting, OvertakenWillDo)
                                                  ELSE "ready",
                                           !.form = IF done THEN @ + 1 ELSE @, !.kept = IF done THEN 0 ELSE @]
                   /\ loads' = IF reloads THEN Reload("none") ELSE loads
          ELSE UNCHANGED <<list, desk, loads>>
    /\ UNCHANGED <<screen, server, receipts, patches, attended, socket, acts>>

(* The answer to the command of another screen is put in this list, which that command loads again, or does not. *)
PatchArrives(version) ==
    /\ version \in patches
    /\ patches' = patches \ {version}
    /\ list' = [Shown(version) EXCEPT !.failed = FALSE]
    /\ \/ BeginLoad("none")
       \/ screen.list.patched = "bare" /\ UNCHANGED <<loads, attempts, desk>>
    /\ UNCHANGED <<screen, server, receipts, attended, socket, acts>>

(* A command fails for the screen: it was refused, or nothing is known of it and it may still be applied. *)
FailureArrives(n) ==
    /\ attempts[n].phase \in {"sent", "answered", "refused"} /\ attempts[n].current
    /\ attempts' = [attempts EXCEPT ![n].phase = IF @ = "sent" THEN @ ELSE "over", ![n].current = FALSE]
    /\ \/ /\ screen.command.onFailure = "verifies"
          /\ desk' = [desk EXCEPT !.ui = Settled("reconciling", Awaiting, OvertakenWillDo),
                                  !.blind = @ \/ attempts[n].phase # "refused"]
          /\ loads' = Reload("verify")
          /\ list' = [list EXCEPT !.failed = FALSE]
       \/ /\ screen.command.onFailure \in {"reloads", "asAdvised"}
          /\ desk' = [desk EXCEPT !.ui = "ready"]
          /\ loads' = Reload("none")
          /\ list' = [list EXCEPT !.failed = FALSE]
       \/ /\ screen.command.onFailure \in
                {"nothing", "asAdvised"} \cup (IF attempts[n].phase = "refused" THEN {"verifies"} ELSE {})
          /\ desk' = [desk EXCEPT !.ui = "ready"]
          /\ UNCHANGED <<loads, list>>
    /\ UNCHANGED <<screen, server, receipts, patches, attended, socket, acts>>

-----------------------------------------------------------------------------
(* The socket. *)

Connection ==
    /\ attended /\ screen.list.live
    /\ socket' = [connected |-> ~socket.connected, events |-> {}]
    /\ UNCHANGED <<screen, server, receipts, attempts, loads, patches, list, desk, attended, acts>>

(* A bug to catch: an event that comes while the list is being loaded is not acted on. *)
ReloadUnlessLoading ==
    IF \E l \in loads : l.current THEN UNCHANGED <<loads, attempts, desk>> ELSE BeginLoad("none")

ReloadOnEvent == BeginLoad("none")

EventArrives(version) ==
    /\ version \in socket.events
    /\ socket' = [socket EXCEPT !.events = @ \ {version}]
    /\ list' = [list EXCEPT !.told = Higher(@, version), !.failed = FALSE]
    /\ ReloadOnEvent
    /\ UNCHANGED <<screen, server, receipts, patches, attended, acts>>

-----------------------------------------------------------------------------
Loading == \E l \in loads : ServerReads(l)

LoadEnds == \E l \in loads : LoadArrives(l) \/ LoadFails(l)

Next ==
    \/ Enter \/ Leave \/ AskAgain \/ RefreshForRetry
    \/ Edit \/ Submit \/ Prepare \/ SendPrepared
    \/ OthersChange
    \/ \E n \in Submissions : ServerApplies(n) \/ ServerRefuses(n) \/ AnswerArrives(n) \/ FailureArrives(n)
    \/ \E version \in patches : PatchArrives(version)
    \/ Loading \/ LoadEnds
    \/ Connection
    \/ \E version \in 1 .. MaxVersion : EventArrives(version)

(* The server reads and the network answers or gives up; nothing else is promised. *)
Spec == Init /\ [][Next]_vars /\ WF_vars(Loading) /\ WF_vars(LoadEnds)

-----------------------------------------------------------------------------
(* Once the creation of a reservation was lost, no other is taken before the list has been loaded anew, whatever *)
(* loads overtake the one that verifies and whenever the button to refresh is used.  Not so of stays, cleaning    *)
(* and maintenance: what their forms ask before a document or photos are stored is not asked again afterwards.    *)
NoBlindRetry ==
    (/\ screen.command.onFailure = "verifies"
     /\ screen.command.checks # "no" /\ ~screen.command.prepares
     /\ AcceptsSubmit) => ~desk.blind

(* Whether all that is put in a list out of turn is put right by a load, or can not be out of turn: no screen   *)
(* puts answers in the list and leaves it at that, and where commands and loads share a generation nothing but  *)
(* these touches the list.  Not so of rooms, in which the answer to a change of their category is put bare.     *)
IsPutRight ==
    \/ ~Shares /\ (screen.command.commits => screen.command.reloads) /\ screen.list.patched # "bare"
    \/ Shares /\ screen.list.patched = "never"

(* Answers of commands, of other screens' commands and of loads overlap, and a list may for a moment show an older *)
(* state than it did; but only while a load is under way that will put it right, or under a notice that loading    *)
(* failed.                                                                                                         *)
RegressesOnlyWhileReloading ==
    IsPutRight /\ list.shown < list.seen => list.failed \/ \E l \in loads : l.current

(* However often a form is sent again as it is, after whatever answers were lost, refused or late, and whatever   *)
(* forms were sent before it: what it asks for is done at most once.                                              *)
ActedOnce ==
    \A m, n \in Submissions :
        /\ screen.command.keeps
        /\ attempts[m].form = attempts[n].form /\ attempts[m].form > 0
        /\ receipts[attempts[m].key] > 0 /\ receipts[attempts[n].key] > 0
        => attempts[m].key = attempts[n].key

(* A change of the orders that an event told of ends up in the list, or the list says it could not be loaded,     *)
(* whatever loads, commands and answers overlap.  Not so of rooms, whose commands drop the load.  No event tells  *)
(* of version 1, the first one.                                                                                   *)
CatchesUp ==
    \A version \in 2 .. MaxVersion :
        (~Shares /\ screen.list.patched # "bare" /\ attended /\ list.told = version /\ list.shown < version)
            ~> (list.shown >= version \/ list.failed \/ ~attended)
=============================================================================
