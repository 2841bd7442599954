--------------------------- MODULE MCOutboxDispatch ---------------------------
(* A small instance of OutboxDispatch for TLC. *)
EXTENDS OutboxDispatch

TwoEvents == 1..2

(* Symmetry by hand, as a run with a liveness property may not use SYMMETRY: *)
(* tokens are only compared for equality, so that of all fresh ones a claim  *)
(* may as well take a certain one.                                           *)
TokensInTurn ==
  \A e \in Events :
    (status'[e] = "processing" /\ lockToken'[e] # lockToken[e]) =>
      lockToken'[e] = CHOOSE token \in Tokens : token \notin LiveTokens

(* A bound: two events are dispatched together, or one is requeued. *)
RequeuedAlone ==
  (\E e \in Events : requeues'[e] > 0) => \E e \in Events : status'[e] = "absent"
=============================================================================
