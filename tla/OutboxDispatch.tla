---------------------------- MODULE OutboxDispatch ----------------------------
(***************************************************************************)
(* OutboxService of Backend/src/audit/outbox.service.ts: the table         *)
(* outbox_events, and the API replicas that publish its rows to the        *)
(* realtime gateway.  A replica opens a claim transaction that locks the   *)
(* oldest eligible rows (FOR UPDATE SKIP LOCKED), commits a lease on them, *)
(* and then, outside any transaction, publishes row by row and settles     *)
(* each row with an UPDATE fenced by the lease token.  Any step may be the *)
(* last one before a crash, and any UPDATE may fail, applied or not.       *)
(*                                                                         *)
(* Time is abstracted to what the code compares it with: `due` says that   *)
(* availableAt <= now, `expired` that lockedAt <= now - lockTimeout.       *)
(* Events are numbered in the order of their createdAt.                    *)
(***************************************************************************)
EXTENDS Integers, FiniteSets

CONSTANTS
  Replicas,           \* API replicas, each with its own timer and flag
  Events,             \* ids of outbox rows, numbered by createdAt
  Tokens,             \* lock tokens (random UUIDs)
  None,               \* NULL
  DispatchLimit,      \* OUTBOX_DISPATCH_LIMIT
  ColumnMaxAttempts,  \* the max_attempts of a row, the column's default
  MaxRequeues         \* bound of the model: requeues of one event

ASSUME EventsAreNumbers == Events \subseteq Nat
ASSUME LimitsArePositive ==
  /\ DispatchLimit \in Nat \ {0}
  /\ ColumnMaxAttempts \in Nat \ {0}
  /\ MaxRequeues \in Nat
ASSUME NoneIsNoValue == None \notin Replicas /\ None \notin Tokens

VARIABLES
  status,     \* [Events -> Statuses]
  attempts,   \* [Events -> Nat]
  lockToken,  \* [Events -> Tokens \cup {None}]
  due,        \* [Events -> BOOLEAN], availableAt <= now
  expired,    \* [Events -> BOOLEAN], lockedAt <= now - lockTimeout
  rowLock,    \* [Events -> Replicas \cup {None}], locks of open claim transactions
  phase,      \* [Replicas -> Phases], where dispatchPending stands
  batch,      \* [Replicas -> SUBSET Claims], claimed rows not yet finished
  emitted,    \* [Events -> Nat], history: how often the row was published
  requeues    \* [Events -> Nat], history: how often the row was requeued

rowVars == <<status, attempts, lockToken, due, expired>>
vars == <<status, attempts, lockToken, due, expired, rowLock, phase, batch,
          emitted, requeues>>

Statuses == {"absent", "pending", "processing", "sent", "dead_letter"}
Phases == {"idle", "claiming", "publishing", "published", "transient", "fatal"}
FailureKinds == {"transient", "fatal"}
Claims == [event : Events, attempts : Nat, token : Tokens]

Init ==
  /\ status = [e \in Events |-> "absent"]
  /\ attempts = [e \in Events |-> 0]
  /\ lockToken = [e \in Events |-> None]
  /\ due = [e \in Events |-> FALSE]
  /\ expired = [e \in Events |-> FALSE]
  /\ rowLock = [e \in Events |-> None]
  /\ phase = [r \in Replicas |-> "idle"]
  /\ batch = [r \in Replicas |-> {}]
  /\ emitted = [e \in Events |-> 0]
  /\ requeues = [e \in Events |-> 0]

(* row.maxAttempts ?? this.maxAttempts(): max_attempts is NOT NULL, so the *)
(* right-hand side, OUTBOX_MAX_ATTEMPTS, is never used.                    *)
MaxAttempts == ColumnMaxAttempts

-----------------------------------------------------------------------------
(* A business transaction commits the row it enqueued. *)
Enqueue(e) ==
  /\ status[e] = "absent"
  /\ status' = [status EXCEPT ![e] = "pending"]
  /\ due' = [due EXCEPT ![e] = TRUE]
  /\ UNCHANGED <<attempts, lockToken, expired, rowLock, phase, batch, emitted, requeues>>

(* The clock passes availableAt, or the end of a lease. *)
BackoffElapses(e) ==
  /\ status[e] = "pending" /\ ~due[e]
  /\ due' = [due EXCEPT ![e] = TRUE]
  /\ UNCHANGED <<status, attempts, lockToken, expired, rowLock, phase, batch, emitted, requeues>>

LeaseExpires(e) ==
  /\ status[e] = "processing" /\ ~expired[e]
  /\ expired' = [expired EXCEPT ![e] = TRUE]
  /\ UNCHANGED <<status, attempts, lockToken, due, rowLock, phase, batch, emitted, requeues>>

-----------------------------------------------------------------------------
(* The claim transaction. *)
(* A bug to catch: abandoned leases are not recovered. *)
EligiblePendingOnly == {e \in Events : rowLock[e] = None /\ status[e] = "pending" /\ due[e]}

Eligible ==
  {e \in Events : /\ rowLock[e] = None
                  /\ \/ status[e] = "pending" /\ due[e]
                     \/ status[e] = "processing" /\ expired[e]}

OldestOf(S) == {e \in S : Cardinality({f \in S : f < e}) < DispatchLimit}

SelectForUpdate(r) ==
  /\ phase[r] = "idle"
  /\ Eligible # {}
  /\ LET selected == OldestOf(Eligible)
     IN rowLock' = [e \in Events |-> IF e \in selected THEN r ELSE rowLock[e]]
  /\ phase' = [phase EXCEPT ![r] = "claiming"]
  /\ UNCHANGED <<rowVars, batch, emitted, requeues>>

LockedBy(r) == {e \in Events : rowLock[e] = r}
(* Bugs to catch: an off-by-one in the limit, and no limit at all. *)
ExhaustedOneLate(r) == {e \in LockedBy(r) : attempts[e] > MaxAttempts}
ExhaustedNever(r) == LockedBy(r) \ LockedBy(r)
Exhausted(r) == {e \in LockedBy(r) : attempts[e] >= MaxAttempts}
Claimed(r) == LockedBy(r) \ Exhausted(r)

LiveTokens ==
  {lockToken[e] : e \in Events} \cup UNION {{c.token : c \in batch[r]} : r \in Replicas}

(* One fresh token stands for the UUIDs of all rows of a claim: a token is *)
(* only ever compared together with the id of its row.                     *)
CommitClaim(r) ==
  /\ phase[r] = "claiming"
  /\ \E token \in Tokens \ LiveTokens :
       /\ lockToken' = [e \in Events |->
                          IF e \in Claimed(r) THEN token
                          ELSE IF e \in Exhausted(r) THEN None ELSE lockToken[e]]
       /\ batch' = [batch EXCEPT ![r] =
            {[event |-> e, attempts |-> attempts[e] + 1, token |-> token] : e \in Claimed(r)}]
  /\ status' = [e \in Events |->
                  IF e \in Claimed(r) THEN "processing"
                  ELSE IF e \in Exhausted(r) THEN "dead_letter" ELSE status[e]]
  /\ attempts' = [e \in Events |-> IF e \in Claimed(r) THEN attempts[e] + 1 ELSE attempts[e]]
  /\ expired' = [e \in Events |-> IF e \in LockedBy(r) THEN FALSE ELSE expired[e]]
  /\ rowLock' = [e \in Events |-> IF e \in LockedBy(r) THEN None ELSE rowLock[e]]
  /\ phase' = [phase EXCEPT ![r] = IF Claimed(r) = {} THEN "idle" ELSE "publishing"]
  /\ UNCHANGED <<due, emitted, requeues>>

-----------------------------------------------------------------------------
(* The publishing loop, for (const row of claimed): c is the loop's row. *)
IsCurrent(r, c) == c \in batch[r] /\ \A d \in batch[r] : c.event <= d.event

(* A bug to catch: the UPDATE is not fenced by the token. *)
HoldsLeaseOfAnyone(c) == status[c.event] = "processing"

(* WHERE id = row.id AND status = 'processing' AND lock_token = row.lockToken *)
HoldsLease(c) == status[c.event] = "processing" /\ lockToken[c.event] = c.token

(* An UPDATE of the row waits for a claim transaction that has locked it. *)
CanUpdate(c) == rowLock[c.event] = None

Settle(c, newStatus) ==
  IF HoldsLease(c)
  THEN /\ status' = [status EXCEPT ![c.event] = newStatus]
       /\ lockToken' = [lockToken EXCEPT ![c.event] = None]
       /\ due' = [due EXCEPT ![c.event] = FALSE]
       /\ expired' = [expired EXCEPT ![c.event] = FALSE]
       /\ UNCHANGED attempts
  ELSE UNCHANGED rowVars

NextRow(r, c) ==
  /\ batch' = [batch EXCEPT ![r] = @ \ {c}]
  /\ phase' = [phase EXCEPT ![r] = IF batch[r] = {c} THEN "idle" ELSE "publishing"]

Publish(r) ==
  /\ phase[r] = "publishing"
  /\ \E c \in batch[r] :
       /\ IsCurrent(r, c)
       /\ emitted' = [emitted EXCEPT ![c.event] = @ + 1]
  /\ phase' = [phase EXCEPT ![r] = "published"]
  /\ UNCHANGED <<rowVars, rowLock, batch, requeues>>

(* A bug to catch: the failure of the emission is swallowed. *)
PublishFailureSwallowed(r, kind) ==
  /\ phase[r] = "publishing"
  /\ phase' = [phase EXCEPT ![r] = IF kind = "fatal" THEN "published" ELSE kind]
  /\ UNCHANGED <<rowVars, rowLock, batch, emitted, requeues>>

PublishFails(r, kind) ==
  /\ phase[r] = "publishing"
  /\ phase' = [phase EXCEPT ![r] = kind]
  /\ UNCHANGED <<rowVars, rowLock, batch, emitted, requeues>>

MarkSent(r) ==
  /\ phase[r] = "published"
  /\ \E c \in batch[r] :
       /\ IsCurrent(r, c) /\ CanUpdate(c)
       /\ Settle(c, "sent")
       /\ NextRow(r, c)
  /\ UNCHANGED <<rowLock, emitted, requeues>>

(* The UPDATE sits in the same try block as the emission: its failure is   *)
(* classified like a failure to publish.  A lost connection does not tell  *)
(* whether the UPDATE was applied.                                         *)
MarkSentFails(r, kind) ==
  /\ phase[r] = "published"
  /\ \E c \in batch[r] :
       /\ IsCurrent(r, c)
       /\ \/ UNCHANGED rowVars
          \/ CanUpdate(c) /\ Settle(c, "sent")
  /\ phase' = [phase EXCEPT ![r] = kind]
  /\ UNCHANGED <<rowLock, batch, emitted, requeues>>

(* The catch block: back to pending with a delay, or to the dead letters. *)
FailureStatus(r, c) ==
  IF phase[r] = "transient" /\ c.attempts < MaxAttempts THEN "pending" ELSE "dead_letter"

SettleFailure(r) ==
  /\ phase[r] \in FailureKinds
  /\ \E c \in batch[r] :
       /\ IsCurrent(r, c) /\ CanUpdate(c)
       /\ Settle(c, FailureStatus(r, c))
       /\ NextRow(r, c)
  /\ UNCHANGED <<rowLock, emitted, requeues>>

(* The UPDATE of the catch block throws: the cycle ends, and the rest of   *)
(* the batch stays 'processing' until its lease expires.                   *)
AbandonBatch(r) ==
  /\ phase[r] \in FailureKinds
  /\ \E c \in batch[r] :
       /\ IsCurrent(r, c)
       /\ \/ UNCHANGED rowVars
          \/ CanUpdate(c) /\ Settle(c, FailureStatus(r, c))
  /\ batch' = [batch EXCEPT ![r] = {}]
  /\ phase' = [phase EXCEPT ![r] = "idle"]
  /\ UNCHANGED <<rowLock, emitted, requeues>>

(* The process dies and restarts; PostgreSQL rolls its transaction back. *)
Crash(r) ==
  /\ phase[r] # "idle"
  /\ phase' = [phase EXCEPT ![r] = "idle"]
  /\ batch' = [batch EXCEPT ![r] = {}]
  /\ rowLock' = [e \in Events |-> IF rowLock[e] = r THEN None ELSE rowLock[e]]
  /\ UNCHANGED <<rowVars, emitted, requeues>>

-----------------------------------------------------------------------------
(* POST audit/outbox/:id/requeue. *)
RequeueDeadLetter(e) ==
  /\ status[e] = "dead_letter"
  /\ requeues[e] < MaxRequeues
  /\ status' = [status EXCEPT ![e] = "pending"]
  /\ attempts' = [attempts EXCEPT ![e] = 0]
  /\ lockToken' = [lockToken EXCEPT ![e] = None]
  /\ due' = [due EXCEPT ![e] = TRUE]
  /\ expired' = [expired EXCEPT ![e] = FALSE]
  /\ requeues' = [requeues EXCEPT ![e] = @ + 1]
  /\ UNCHANGED <<rowLock, phase, batch, emitted>>

Next ==
  \/ \E e \in Events : Enqueue(e) \/ BackoffElapses(e) \/ LeaseExpires(e) \/ RequeueDeadLetter(e)
  \/ \E r \in Replicas :
       \/ SelectForUpdate(r) \/ CommitClaim(r)
       \/ Publish(r) \/ MarkSent(r) \/ SettleFailure(r) \/ AbandonBatch(r) \/ Crash(r)
       \/ \E kind \in FailureKinds : PublishFails(r, kind) \/ MarkSentFails(r, kind)

Spec == Init /\ [][Next]_vars

(* The timer of a live replica keeps firing and an await resolves, one way *)
(* or the other; clocks advance.  Strong fairness of CommitClaim: replicas *)
(* may crash for ever, but not inside every claim transaction.             *)
Fairness ==
  /\ \A e \in Events : WF_vars(BackoffElapses(e)) /\ WF_vars(LeaseExpires(e))
  /\ \A r \in Replicas :
       /\ WF_vars(SelectForUpdate(r))
       /\ SF_vars(CommitClaim(r))
       /\ WF_vars(Publish(r) \/ PublishFails(r, "transient") \/ PublishFails(r, "fatal"))
       /\ WF_vars(MarkSent(r) \/ MarkSentFails(r, "transient") \/ MarkSentFails(r, "fatal"))
       /\ WF_vars(SettleFailure(r) \/ AbandonBatch(r))

FairSpec == Spec /\ Fairness

-----------------------------------------------------------------------------
(* Every variable holds a value of its column or field, and no row is      *)
(* claimed more often than its max_attempts allows (the CHECK constraint   *)
(* outbox_events_attempts_check, which a claim must not run into).         *)
TypeOK ==
  /\ status \in [Events -> Statuses]
  /\ attempts \in [Events -> 0..MaxAttempts]
  /\ lockToken \in [Events -> Tokens \cup {None}]
  /\ due \in [Events -> BOOLEAN]
  /\ expired \in [Events -> BOOLEAN]
  /\ rowLock \in [Events -> Replicas \cup {None}]
  /\ phase \in [Replicas -> Phases]
  /\ batch \in [Replicas -> SUBSET Claims]
  /\ emitted \in [Events -> Nat]
  /\ requeues \in [Events -> Nat]

(* A row is marked 'sent' only after it was published at least once, by    *)
(* whichever replica: crashes, lost answers and expired leases never turn  *)
(* an unpublished event into a sent one.                                   *)
SentWasPublished == \A e \in Events : status[e] = "sent" => emitted[e] > 0

(* At-least-once is not at-will: however many replicas race for a row, it  *)
(* is published at most max_attempts times per requeue.                    *)
DuplicatesAreBounded ==
  \A e \in Events : emitted[e] <= MaxAttempts * (1 + requeues[e])

(* 'sent' is final: no late worker, recovered lease or requeue brings a    *)
(* sent row back.                                                          *)
SentIsFinal == [][\A e \in Events : status[e] = "sent" => status'[e] = "sent"]_vars

(* A leased row changes hands only when its lease has expired, and leaves  *)
(* 'processing' otherwise only by the replica that holds the lease; a row  *)
(* becomes 'sent' only in the hands of a replica that has published it     *)
(* itself, under that lease.                                               *)
LeaseIsRespected ==
  [][\A e \in Events :
       (status[e] = "processing" /\ lockToken'[e] # lockToken[e]) =>
         \/ expired[e] /\ status'[e] \in {"processing", "dead_letter"}
         \/ \E r \in Replicas : \E c \in batch[r] :
              /\ c.event = e /\ c.token = lockToken[e]
              /\ status'[e] = "sent" => phase[r] = "published"]_vars

(* The refinement of OutboxPromise: what the caller of enqueue relies on. *)
PromiseOf(s) ==
  IF s = "absent" THEN "absent"
  ELSE IF s = "sent" THEN "settled"
  ELSE IF s = "dead_letter" THEN "parked" ELSE "owed"

promiseOf == [e \in Events |-> PromiseOf(status[e])]

Promise == INSTANCE OutboxPromise WITH promise <- promiseOf, deliveries <- emitted

(* Every step of the replicas is a step of the promise, or none. *)
ImplementsPromise == Promise!PromiseSafety

(* No event stays pending or processing for ever, whatever crashes. *)
EveryEventSettles == Promise!NothingOwedForever
=============================================================================
