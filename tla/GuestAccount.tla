----------------------------- MODULE GuestAccount -----------------------------
(***************************************************************************)
(* What the ledger of a hotel promises of a stay's account, whatever the   *)
(* entries that make it up: it is open while the guest is in the house,    *)
(* freezes at check-out if nothing is owed, and otherwise is a debt that   *)
(* goes down by collections, and up again only from nothing owed and never *)
(* over what it was.                                                       *)
(***************************************************************************)
EXTENDS Integers

CONSTANT Stays

VARIABLES
  account,  \* [Stays -> {"open", "settled", "receivable"}]
  owed,     \* [Stays -> Int], negative when the hotel owes the guest
  debt      \* [Stays -> Nat], what was owed at check-out

accountVars == <<account, owed, debt>>

Owe(s, n) == owed' = [owed EXCEPT ![s] = n]

Live(s) ==
  /\ account[s] = "open"
  /\ \A t \in Stays \ {s} : owed'[t] = owed[t]
  /\ UNCHANGED <<account, debt>>

LeavePaid(s) ==
  /\ account[s] = "open" /\ owed[s] <= 0
  /\ account' = [account EXCEPT ![s] = "settled"]
  /\ UNCHANGED <<owed, debt>>

LeaveOwing(s) ==
  /\ account[s] = "open" /\ owed[s] > 0
  /\ account' = [account EXCEPT ![s] = "receivable"]
  /\ debt' = [debt EXCEPT ![s] = owed[s]]
  /\ UNCHANGED owed

Repay(s) ==
  /\ account[s] = "receivable"
  /\ \E n \in 0 .. owed[s] - 1 : Owe(s, n)
  /\ UNCHANGED <<account, debt>>

Reclaim(s) ==
  /\ account[s] = "receivable" /\ owed[s] = 0
  /\ \E n \in 1 .. debt[s] : Owe(s, n)
  /\ UNCHANGED <<account, debt>>

AccountInit ==
  /\ account = [s \in Stays |-> "open"]
  /\ owed = [s \in Stays |-> 0]
  /\ debt = [s \in Stays |-> 0]

AccountNext ==
  \E s \in Stays : Live(s) \/ LeavePaid(s) \/ LeaveOwing(s) \/ Repay(s) \/ Reclaim(s)

AccountSpec == AccountInit /\ [][AccountNext]_accountVars
=============================================================================
