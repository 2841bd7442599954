---------------------------- MODULE OutboxPromise ----------------------------
(***************************************************************************)
(* What the outbox promises to the rest of the backend, without replicas,  *)
(* leases or retries: an event accepted with a business transaction is     *)
(* owed; it may be delivered any number of times, even after it has been   *)
(* settled; it is settled only once it has been delivered; otherwise it is *)
(* parked for an operator, who alone may reopen it; and it does not stay   *)
(* owed for ever.  OutboxDispatch implements this specification.           *)
(***************************************************************************)
EXTENDS Integers

CONSTANT Events

VARIABLES promise,    \* [Events -> {"absent", "owed", "settled", "parked"}]
          deliveries  \* [Events -> Nat], how often each event was published

promiseVars == <<promise, deliveries>>

PromiseInit ==
  /\ promise = [e \in Events |-> "absent"]
  /\ deliveries = [e \in Events |-> 0]

Accept(e) ==
  /\ promise[e] = "absent"
  /\ promise' = [promise EXCEPT ![e] = "owed"]
  /\ UNCHANGED deliveries

Deliver(e) ==
  /\ promise[e] # "absent"
  /\ deliveries' = [deliveries EXCEPT ![e] = @ + 1]
  /\ UNCHANGED promise

Settle(e) ==
  /\ promise[e] = "owed"
  /\ deliveries[e] > 0
  /\ promise' = [promise EXCEPT ![e] = "settled"]
  /\ UNCHANGED deliveries

(* One dispatch cycle may park several exhausted events together. *)
Park(S) ==
  /\ S # {}
  /\ \A e \in S : promise[e] = "owed"
  /\ promise' = [e \in Events |-> IF e \in S THEN "parked" ELSE promise[e]]
  /\ UNCHANGED deliveries

Reopen(e) ==
  /\ promise[e] = "parked"
  /\ promise' = [promise EXCEPT ![e] = "owed"]
  /\ UNCHANGED deliveries

PromiseNext ==
  \/ \E e \in Events : Accept(e) \/ Deliver(e) \/ Settle(e) \/ Reopen(e)
  \/ \E S \in SUBSET Events : Park(S)

PromiseSafety == PromiseInit /\ [][PromiseNext]_promiseVars

(* An event that is owed is, in the end, settled or parked. *)
NothingOwedForever == \A e \in Events : promise[e] = "owed" ~> promise[e] # "owed"
=============================================================================
