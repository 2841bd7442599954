----------------------------- MODULE OutboxProofs -----------------------------
(***************************************************************************)
(* For any number of replicas and events, any dispatch limit and any       *)
(* number of attempts: the types of OutboxDispatch, its inductive          *)
(* invariant, that it implements OutboxPromise, that it publishes an event *)
(* no more often than it may be attempted, and that late workers respect   *)
(* the lease of another.                                                   *)
(***************************************************************************)
EXTENDS OutboxDispatch, FiniteSetTheorems, TLAPS

(* A row is locked only by an open claim transaction, and only while it is *)
(* eligible: a claim never meets a row that was settled in between.        *)
LockDiscipline ==
  \A e \in Events, r \in Replicas :
    rowLock[e] = r => phase[r] = "claiming" /\ status[e] \in {"pending", "processing"}

(* A replica about to mark its current row has published it. *)
CurrentWasPublished ==
  \A r \in Replicas : phase[r] = "published" =>
    \A c \in batch[r] : IsCurrent(r, c) => emitted[c.event] > 0

(* A claim is always a claim of a row that exists. *)
ClaimsAreRows ==
  \A r \in Replicas : \A c \in batch[r] : status[c.event] # "absent"

OutboxInv ==
  /\ TypeOK
  /\ LockDiscipline
  /\ CurrentWasPublished
  /\ SentWasPublished
  /\ ClaimsAreRows

-----------------------------------------------------------------------------
(* The outbox starts in its invariant. *)
LEMMA InitInv == Init => OutboxInv
  BY NoneIsNoValue, LimitsArePositive
     DEF Init, OutboxInv, TypeOK, LockDiscipline, CurrentWasPublished,
         SentWasPublished, ClaimsAreRows, Statuses, Phases, MaxAttempts

(* What a fenced UPDATE may do to the rows: at most one leased row, the one *)
(* of the claim, moves to the new status.                                   *)
LEMMA SettleRows ==
  ASSUME TypeOK, NEW c \in Claims, NEW newStatus \in Statuses, Settle(c, newStatus)
  PROVE  /\ status' \in [Events -> Statuses]
         /\ attempts' = attempts
         /\ lockToken' \in [Events -> Tokens \cup {None}]
         /\ due' \in [Events -> BOOLEAN]
         /\ expired' \in [Events -> BOOLEAN]
         /\ \A e \in Events : status'[e] # status[e] =>
              e = c.event /\ status[e] = "processing" /\ status'[e] = newStatus
  <1>0. c.event \in Events
    BY DEF Claims
  <1>1. CASE HoldsLease(c)
    BY <1>0, <1>1 DEF Settle, HoldsLease, TypeOK
  <1>2. CASE ~HoldsLease(c)
    BY <1>2 DEF Settle, TypeOK, rowVars
  <1>3. QED
    BY <1>1, <1>2

(* Each step preserves the types of the table and of the replicas. *)
LEMMA TypeStep == ASSUME TypeOK, [Next]_vars PROVE TypeOK'
  <1> USE DEF TypeOK
  <1>1. ASSUME NEW e \in Events,
               Enqueue(e) \/ BackoffElapses(e) \/ LeaseExpires(e) \/ RequeueDeadLetter(e)
        PROVE  TypeOK'
    <2>1. CASE Enqueue(e)
      BY <2>1 DEF Enqueue, Statuses
    <2>2. CASE BackoffElapses(e) \/ LeaseExpires(e)
      BY <2>2 DEF BackoffElapses, LeaseExpires
    <2>3. CASE RequeueDeadLetter(e)
      <3>1. 0 \in 0..MaxAttempts
        BY LimitsArePositive DEF MaxAttempts
      <3>2. QED
        BY <2>3, <3>1 DEF RequeueDeadLetter, Statuses
    <2>4. QED
      BY <1>1, <2>1, <2>2, <2>3
  <1>2. ASSUME NEW r \in Replicas, SelectForUpdate(r) PROVE TypeOK'
    BY <1>2 DEF SelectForUpdate, OldestOf, Eligible, Phases, rowVars
  <1>3. ASSUME NEW r \in Replicas, CommitClaim(r) PROVE TypeOK'
    <2> PICK token \in Tokens \ LiveTokens :
          /\ lockToken' = [e \in Events |->
                             IF e \in Claimed(r) THEN token
                             ELSE IF e \in Exhausted(r) THEN None ELSE lockToken[e]]
          /\ batch' = [batch EXCEPT ![r] =
               {[event |-> e, attempts |-> attempts[e] + 1, token |-> token] : e \in Claimed(r)}]
      BY <1>3 DEF CommitClaim
    <2>1. Claimed(r) \subseteq {e \in Events : attempts[e] < MaxAttempts}
      BY LimitsArePositive DEF Claimed, Exhausted, LockedBy, MaxAttempts
    <2>2. attempts' \in [Events -> 0..MaxAttempts]
      BY <1>3, <2>1, LimitsArePositive DEF CommitClaim, MaxAttempts
    <2>3. batch' \in [Replicas -> SUBSET Claims]
      BY <2>1, LimitsArePositive DEF Claims, MaxAttempts
    <2>4. QED
      BY <1>3, <2>2, <2>3 DEF CommitClaim, Statuses, Phases
  <1>4. ASSUME NEW r \in Replicas,
               Publish(r) \/ Crash(r) \/ \E kind \in FailureKinds : PublishFails(r, kind)
        PROVE  TypeOK'
    BY <1>4 DEF Publish, Crash, PublishFails, FailureKinds, Phases, Claims, rowVars
  <1>5. ASSUME NEW r \in Replicas,
               \/ MarkSent(r) \/ SettleFailure(r) \/ AbandonBatch(r)
               \/ \E kind \in FailureKinds : MarkSentFails(r, kind)
        PROVE  TypeOK'
    <2>1. PICK c \in batch[r], s \in Statuses : Settle(c, s) \/ UNCHANGED rowVars
      BY <1>5 DEF MarkSent, SettleFailure, AbandonBatch, MarkSentFails, FailureStatus, Statuses
    <2>2. c \in Claims
      OBVIOUS
    <2>3. /\ status' \in [Events -> Statuses]
          /\ attempts' = attempts
          /\ lockToken' \in [Events -> Tokens \cup {None}]
          /\ due' \in [Events -> BOOLEAN]
          /\ expired' \in [Events -> BOOLEAN]
      BY <2>1, <2>2, SettleRows DEF rowVars
    <2>4. batch' \in [Replicas -> SUBSET Claims] /\ phase' \in [Replicas -> Phases]
      BY <1>5 DEF MarkSent, SettleFailure, AbandonBatch, MarkSentFails, NextRow, Phases, FailureKinds
    <2>5. QED
      BY <1>5, <2>3, <2>4 DEF MarkSent, SettleFailure, AbandonBatch, MarkSentFails
  <1>6. CASE UNCHANGED vars
    BY <1>6 DEF vars
  <1>7. QED
    BY <1>1, <1>2, <1>3, <1>4, <1>5, <1>6 DEF Next

(* The inductive step, action by action. *)
LEMMA InvStep == ASSUME OutboxInv, [Next]_vars PROVE OutboxInv'
  <1>1. TypeOK /\ TypeOK'
    BY TypeStep DEF OutboxInv
  <1> USE <1>1 DEF OutboxInv, LockDiscipline, CurrentWasPublished, SentWasPublished, ClaimsAreRows
  <1>2. ASSUME NEW e \in Events,
               Enqueue(e) \/ BackoffElapses(e) \/ LeaseExpires(e) \/ RequeueDeadLetter(e)
        PROVE  OutboxInv'
    <2>1. UNCHANGED <<rowLock, phase, batch, emitted>>
      BY <1>2 DEF Enqueue, BackoffElapses, LeaseExpires, RequeueDeadLetter
    <2>2. \A f \in Events : status'[f] # status[f] =>
            status[f] \in {"absent", "dead_letter"} /\ status'[f] = "pending"
      BY <1>2 DEF Enqueue, BackoffElapses, LeaseExpires, RequeueDeadLetter, TypeOK
    <2>3. LockDiscipline'
      BY <2>1, <2>2
    <2>4. CurrentWasPublished'
      BY <2>1 DEF IsCurrent
    <2>5. SentWasPublished'
      BY <2>1, <2>2
    <2>6. ClaimsAreRows'
      <3>1. \A q \in Replicas : \A d \in batch[q] : d.event \in Events
        BY DEF TypeOK, Claims
      <3>2. QED
        BY <2>1, <2>2, <3>1
    <2>7. QED
      BY <2>3, <2>4, <2>5, <2>6
  <1>3. ASSUME NEW r \in Replicas, SelectForUpdate(r) PROVE OutboxInv'
    <2>1. LockDiscipline'
      BY <1>3, NoneIsNoValue DEF SelectForUpdate, OldestOf, Eligible, TypeOK, rowVars
    <2>2. CurrentWasPublished'
      BY <1>3 DEF SelectForUpdate, IsCurrent, TypeOK
    <2>3. SentWasPublished'
      BY <1>3 DEF SelectForUpdate, rowVars
    <2>4. ClaimsAreRows'
      BY <1>3 DEF SelectForUpdate, rowVars
    <2>5. QED
      BY <2>1, <2>2, <2>3, <2>4
  <1>4. ASSUME NEW r \in Replicas, CommitClaim(r) PROVE OutboxInv'
    <2>1. LockDiscipline'
      BY <1>4, NoneIsNoValue DEF CommitClaim, Claimed, Exhausted, LockedBy, TypeOK
    <2>2. CurrentWasPublished'
      BY <1>4 DEF CommitClaim, IsCurrent, TypeOK
    <2>3. SentWasPublished'
      BY <1>4 DEF CommitClaim, TypeOK
    <2>4. ClaimsAreRows'
      <3>1. \A e \in Events : status[e] # "absent" => status'[e] # "absent"
        BY <1>4 DEF CommitClaim, TypeOK
      <3>2. \A c \in batch'[r] : c.event \in Events /\ status'[c.event] # "absent"
        BY <1>4 DEF CommitClaim, Claimed, LockedBy, TypeOK
      <3>3. \A q \in Replicas : q # r => batch'[q] = batch[q]
        BY <1>4 DEF CommitClaim, TypeOK
      <3>4. \A q \in Replicas : \A c \in batch[q] : c.event \in Events
        BY DEF TypeOK, Claims
      <3>5. QED
        BY <3>1, <3>2, <3>3, <3>4
    <2>5. QED
      BY <2>1, <2>2, <2>3, <2>4
  <1>5. ASSUME NEW r \in Replicas, Publish(r) PROVE OutboxInv'
    <2> PICK c \in batch[r] : IsCurrent(r, c) /\ emitted' = [emitted EXCEPT ![c.event] = @ + 1]
      BY <1>5 DEF Publish
    <2>0. c \in Claims /\ c.event \in Events
      BY DEF TypeOK, Claims
    <2>1. \A e \in Events : emitted'[e] >= emitted[e] /\ emitted'[c.event] > 0
      BY <2>0 DEF TypeOK
    <2>2. \A d \in batch[r] : IsCurrent(r, d) => d.event = c.event
      <3> SUFFICES ASSUME NEW d \in batch[r], IsCurrent(r, d) PROVE d.event = c.event
        OBVIOUS
      <3>1. c.event \in Nat /\ d.event \in Nat
        <4>1. d \in Claims
          BY DEF TypeOK
        <4>2. QED
          BY <2>0, <4>1, EventsAreNumbers DEF Claims
      <3>2. c.event <= d.event /\ d.event <= c.event
        BY DEF IsCurrent
      <3>3. QED
        BY <3>1, <3>2
    <2>3. CurrentWasPublished'
      <3> SUFFICES ASSUME NEW s \in Replicas, phase'[s] = "published",
                          NEW d \in batch'[s], IsCurrent(s, d)'
                   PROVE  emitted'[d.event] > 0
        OBVIOUS
      <3>0. d \in batch[s] /\ IsCurrent(s, d) /\ d.event \in Events
        BY <1>5 DEF Publish, IsCurrent, TypeOK, Claims
      <3>1. CASE s = r
        BY <2>1, <2>2, <3>0, <3>1
      <3>2. CASE s # r
        <4>1. phase[s] = "published"
          BY <1>5, <3>2 DEF Publish, TypeOK
        <4>2. emitted[d.event] > 0
          BY <3>0, <4>1
        <4>3. QED
          BY <2>1, <3>0, <4>2 DEF TypeOK
      <3>3. QED
        BY <3>1, <3>2
    <2>4. LockDiscipline'
      BY <1>5 DEF Publish, rowVars, TypeOK
    <2>5. SentWasPublished'
      BY <1>5, <2>1 DEF Publish, rowVars, TypeOK
    <2>6. ClaimsAreRows'
      BY <1>5 DEF Publish, rowVars
    <2>7. QED
      BY <2>3, <2>4, <2>5, <2>6
  <1>6. ASSUME NEW r \in Replicas,
               Crash(r) \/ \E kind \in FailureKinds : PublishFails(r, kind)
        PROVE  OutboxInv'
    BY <1>6, NoneIsNoValue DEF Crash, PublishFails, FailureKinds, IsCurrent, TypeOK, rowVars
  <1>7. ASSUME NEW r \in Replicas,
               \/ MarkSent(r) \/ SettleFailure(r) \/ AbandonBatch(r)
               \/ \E kind \in FailureKinds : MarkSentFails(r, kind)
        PROVE  OutboxInv'
    <2>1. PICK c \in batch[r], s \in Statuses \ {"absent"} :
            /\ s = "sent" => emitted[c.event] > 0
            /\ (Settle(c, s) /\ CanUpdate(c)) \/ UNCHANGED rowVars
      BY <1>7 DEF MarkSent, SettleFailure, AbandonBatch, MarkSentFails, FailureStatus, Statuses
    <2>2. \A e \in Events : status'[e] # status[e] =>
            e = c.event /\ status'[e] = s /\ rowLock[e] = None
      BY <2>1, SettleRows DEF CanUpdate, rowVars, TypeOK
    <2>3. rowLock' = rowLock /\ emitted' = emitted
      BY <1>7 DEF MarkSent, SettleFailure, AbandonBatch, MarkSentFails
    <2>4. \A q \in Replicas : q # r => phase'[q] = phase[q] /\ batch'[q] = batch[q]
      BY <1>7 DEF MarkSent, SettleFailure, AbandonBatch, MarkSentFails, NextRow, TypeOK
    <2>5. phase'[r] # "published" /\ phase[r] # "claiming"
      BY <1>7 DEF MarkSent, SettleFailure, AbandonBatch, MarkSentFails, NextRow, TypeOK, FailureKinds
    <2>6. LockDiscipline'
      BY <2>2, <2>3, <2>4, <2>5, NoneIsNoValue
    <2>7. CurrentWasPublished'
      BY <2>3, <2>4, <2>5 DEF IsCurrent
    <2>8. SentWasPublished'
      BY <2>1, <2>2, <2>3
    <2>9. ClaimsAreRows'
      <3>1. \A e \in Events : status[e] # "absent" => status'[e] # "absent"
        <4>1. s # "absent" \/ UNCHANGED rowVars
          BY <2>1
        <4>2. QED
          BY <2>2, <4>1 DEF rowVars
      <3>2. \A q \in Replicas : batch'[q] \subseteq batch[q]
        BY <1>7, <2>4 DEF MarkSent, SettleFailure, AbandonBatch, MarkSentFails, NextRow, TypeOK
      <3>3. \A q \in Replicas : \A d \in batch[q] : d.event \in Events
        BY DEF TypeOK, Claims
      <3>4. QED
        BY <3>1, <3>2, <3>3
    <2>10. QED
      BY <2>6, <2>7, <2>8, <2>9
  <1>8. CASE UNCHANGED vars
    BY <1>8 DEF vars, IsCurrent
  <1>9. QED
    BY <1>2, <1>3, <1>4, <1>5, <1>6, <1>7, <1>8 DEF Next

-----------------------------------------------------------------------------
(* The table and the replicas keep their types, and a claim never raises   *)
(* attempts beyond max_attempts, which a CHECK constraint would refuse.    *)
THEOREM TypeCorrect == Spec => []TypeOK
  <1>1. Init => TypeOK
    BY InitInv DEF OutboxInv
  <1>2. TypeOK /\ [Next]_vars => TypeOK'
    BY TypeStep
  <1>3. QED
    BY <1>1, <1>2, PTL DEF Spec

(* The inductive invariant of the dispatch. *)
THEOREM Invariance == Spec => []OutboxInv
  <1>1. OutboxInv /\ [Next]_vars => OutboxInv'
    BY InvStep
  <1>2. QED
    BY <1>1, InitInv, PTL DEF Spec

(* No unpublished event is ever marked 'sent'. *)
THEOREM NoUnpublishedEventSent == Spec => []SentWasPublished
  <1>1. OutboxInv => SentWasPublished
    BY DEF OutboxInv
  <1>2. QED
    BY <1>1, Invariance, PTL

(* No step of any replica, late or not, takes an event out of 'sent'. *)
THEOREM SentStaysSent == Spec => SentIsFinal
  <1>1. ASSUME OutboxInv, [Next]_vars, NEW e \in Events, status[e] = "sent"
        PROVE  status'[e] = "sent"
    <2>1. CASE \E r \in Replicas : CommitClaim(r)
      BY <1>1, <2>1
         DEF OutboxInv, TypeOK, LockDiscipline, CommitClaim, Claimed, Exhausted, LockedBy
    <2>2. CASE \E r \in Replicas :
                 \/ MarkSent(r) \/ SettleFailure(r) \/ AbandonBatch(r)
                 \/ \E kind \in FailureKinds : MarkSentFails(r, kind)
      <3>1. PICK r \in Replicas : \E c \in batch[r], s \in Statuses :
              Settle(c, s) \/ UNCHANGED rowVars
        BY <2>2 DEF MarkSent, SettleFailure, AbandonBatch, MarkSentFails, FailureStatus, Statuses
      <3>2. batch[r] \subseteq Claims
        BY <1>1 DEF OutboxInv, TypeOK
      <3>3. QED
        BY <1>1, <3>1, <3>2, SettleRows DEF OutboxInv, rowVars
    <2>3. CASE \E f \in Events :
                 Enqueue(f) \/ BackoffElapses(f) \/ LeaseExpires(f) \/ RequeueDeadLetter(f)
      BY <1>1, <2>3
         DEF OutboxInv, TypeOK, Enqueue, BackoffElapses, LeaseExpires, RequeueDeadLetter
    <2>4. CASE \E r \in Replicas :
                 \/ SelectForUpdate(r) \/ Publish(r) \/ Crash(r)
                 \/ \E kind \in FailureKinds : PublishFails(r, kind)
      BY <1>1, <2>4 DEF SelectForUpdate, Publish, Crash, PublishFails, rowVars
    <2>5. CASE UNCHANGED vars
      BY <1>1, <2>5 DEF vars
    <2>6. QED
      BY <1>1, <2>1, <2>2, <2>3, <2>4, <2>5 DEF Next
  <1>2. OutboxInv /\ [Next]_vars
          => [\A e \in Events : status[e] = "sent" => status'[e] = "sent"]_vars
    BY <1>1
  <1>3. QED
    BY <1>2, Invariance, PTL DEF Spec, SentIsFinal

-----------------------------------------------------------------------------
(* OutboxDispatch implements the safety of OutboxPromise: leases, retries, *)
(* crashes and lost answers are invisible to the caller of enqueue, except *)
(* as repeated deliveries.                                                 *)
THEOREM DispatchImplementsPromise == Spec => ImplementsPromise
  <1> USE DEF Promise!promiseVars, promiseOf, PromiseOf
  <1>1. Init => Promise!PromiseInit
    BY DEF Init, Promise!PromiseInit
  <1>2. OutboxInv /\ [Next]_vars => [Promise!PromiseNext]_(Promise!promiseVars)
    <2> SUFFICES ASSUME OutboxInv, [Next]_vars
                 PROVE  Promise!PromiseNext \/ UNCHANGED Promise!promiseVars
      OBVIOUS
    <2>0. TypeOK
      BY DEF OutboxInv
    <2>1. ASSUME NEW e \in Events, Enqueue(e)
          PROVE  Promise!Accept(e)
      BY <2>0, <2>1 DEF Enqueue, TypeOK, Promise!Accept
    <2>2. ASSUME NEW e \in Events, BackoffElapses(e) \/ LeaseExpires(e)
          PROVE  UNCHANGED Promise!promiseVars
      BY <2>2 DEF BackoffElapses, LeaseExpires
    <2>3. ASSUME NEW e \in Events, RequeueDeadLetter(e)
          PROVE  Promise!Reopen(e)
      BY <2>0, <2>3 DEF RequeueDeadLetter, TypeOK, Promise!Reopen
    <2>4. ASSUME NEW r \in Replicas,
                 \/ SelectForUpdate(r) \/ Crash(r)
                 \/ \E kind \in FailureKinds : PublishFails(r, kind)
          PROVE  UNCHANGED Promise!promiseVars
      BY <2>4 DEF SelectForUpdate, Crash, PublishFails, rowVars
    <2>5. ASSUME NEW r \in Replicas, CommitClaim(r)
          PROVE  Promise!PromiseNext \/ UNCHANGED Promise!promiseVars
      <3>1. /\ Exhausted(r) \subseteq Events
            /\ \A e \in Exhausted(r) : promiseOf[e] = "owed"
            /\ promiseOf' = [e \in Events |-> IF e \in Exhausted(r) THEN "parked" ELSE promiseOf[e]]
            /\ emitted' = emitted
        BY <2>5
           DEF OutboxInv, TypeOK, LockDiscipline, CommitClaim, Claimed, Exhausted, LockedBy
      <3>2. CASE Exhausted(r) = {}
        BY <3>1, <3>2
      <3>3. CASE Exhausted(r) # {}
        BY <3>1, <3>3 DEF Promise!Park, Promise!PromiseNext
      <3>4. QED
        BY <3>2, <3>3
    <2>6. ASSUME NEW r \in Replicas, Publish(r)
          PROVE  Promise!PromiseNext
      <3>1. PICK c \in batch[r] : emitted' = [emitted EXCEPT ![c.event] = @ + 1]
        BY <2>6 DEF Publish
      <3>2. c.event \in Events
        BY <2>0 DEF TypeOK, Claims
      <3>3. UNCHANGED promiseOf /\ promiseOf[c.event] # "absent"
        BY <2>6, <3>2 DEF Publish, rowVars, OutboxInv, ClaimsAreRows
      <3>4. QED
        BY <3>1, <3>2, <3>3 DEF Promise!Deliver, Promise!PromiseNext
    <2>7. ASSUME NEW r \in Replicas,
                 \/ MarkSent(r) \/ SettleFailure(r) \/ AbandonBatch(r)
                 \/ \E kind \in FailureKinds : MarkSentFails(r, kind)
          PROVE  Promise!PromiseNext \/ UNCHANGED Promise!promiseVars
      <3>1. PICK c \in batch[r], s \in {"pending", "sent", "dead_letter"} :
              /\ s = "sent" => emitted[c.event] > 0
              /\ Settle(c, s) \/ UNCHANGED rowVars
        BY <2>7 DEF MarkSent, SettleFailure, AbandonBatch, MarkSentFails, FailureStatus,
                    OutboxInv, CurrentWasPublished
      <3>2. c.event \in Events /\ UNCHANGED emitted
        BY <2>0, <2>7 DEF MarkSent, SettleFailure, AbandonBatch, MarkSentFails, TypeOK, Claims
      <3>3. CASE ~HoldsLease(c) \/ UNCHANGED rowVars
        BY <3>1, <3>2, <3>3 DEF Settle, rowVars
      <3>4. CASE HoldsLease(c) /\ status' = [status EXCEPT ![c.event] = s]
        <4>1. promiseOf[c.event] = "owed"
          BY <3>2, <3>4 DEF HoldsLease
        <4>2. promiseOf' = [promiseOf EXCEPT ![c.event] = PromiseOf(s)]
          BY <2>0, <3>2, <3>4 DEF TypeOK
        <4>3. CASE s = "pending"
          BY <3>2, <4>1, <4>2, <4>3
        <4>4. CASE s = "sent"
          <5>1. Promise!Settle(c.event)
            BY <3>1, <3>2, <4>1, <4>2, <4>4 DEF Promise!Settle
          <5>2. QED
            BY <3>2, <5>1 DEF Promise!PromiseNext
        <4>5. CASE s = "dead_letter"
          <5>1. Promise!Park({c.event})
            BY <3>2, <4>1, <4>2, <4>5 DEF Promise!Park
          <5>2. QED
            BY <3>2, <5>1 DEF Promise!PromiseNext
        <4>6. QED
          BY <4>3, <4>4, <4>5
      <3>5. QED
        BY <3>1, <3>3, <3>4 DEF Settle
    <2>8. CASE UNCHANGED vars
      BY <2>8 DEF vars
    <2>9. QED
      BY <2>1, <2>2, <2>3, <2>4, <2>5, <2>6, <2>7, <2>8 DEF Next, Promise!PromiseNext
  <1>3. QED
    BY <1>1, <1>2, Invariance, PTL DEF Spec, ImplementsPromise, Promise!PromiseSafety

-----------------------------------------------------------------------------
(* Publications are paid for when the row is claimed: those made, and those *)
(* that replicas may still make under claims of their batches, the late     *)
(* ones included, are at most the attempts of this life of the row and a    *)
(* full count of attempts for every earlier one.                            *)
MayPublish(r, e) ==
  \E c \in batch[r] :
    c.event = e /\ (phase[r] = "publishing" \/ \E d \in batch[r] : d.event < e)

Owing(e) == {r \in Replicas : MayPublish(r, e)}

OneClaimOfARow ==
  \A r \in Replicas : \A c, d \in batch[r] : c.event = d.event => c = d

PublicationsArePaidFor ==
  \A e \in Events :
    /\ IsFiniteSet(Owing(e))
    /\ emitted[e] + Cardinality(Owing(e)) <= MaxAttempts * requeues[e] + attempts[e]

CountsInv == TypeOK /\ OneClaimOfARow /\ PublicationsArePaidFor

(* The numbers the count is made of. *)
LEMMA CountTypes ==
  ASSUME CountsInv, NEW e \in Events
  PROVE  /\ emitted[e] \in Nat /\ requeues[e] \in Nat /\ attempts[e] \in Nat /\ attempts[e] <= MaxAttempts
         /\ MaxAttempts \in Nat /\ MaxAttempts * requeues[e] \in Nat
         /\ IsFiniteSet(Owing(e)) /\ Cardinality(Owing(e)) \in Nat
  <1>1. emitted[e] \in Nat /\ requeues[e] \in Nat /\ attempts[e] \in 0 .. MaxAttempts /\ MaxAttempts \in Nat
    BY LimitsArePositive DEF CountsInv, TypeOK, MaxAttempts
  <1>2. \A m, q \in Nat : m * q \in Nat
    OBVIOUS
  <1>3. IsFiniteSet(Owing(e)) /\ Cardinality(Owing(e)) \in Nat
    BY FS_CardinalityType DEF CountsInv, PublicationsArePaidFor
  <1>4. QED
    BY <1>1, <1>2, <1>3

(* A row that no replica may publish in addition is still paid for. *)
LEMMA FewerOwe ==
  ASSUME CountsInv, NEW e \in Events, Owing(e)' \subseteq Owing(e),
         emitted'[e] = emitted[e], requeues'[e] = requeues[e], attempts'[e] = attempts[e]
  PROVE  /\ IsFiniteSet(Owing(e))'
         /\ emitted'[e] + Cardinality(Owing(e))' <= MaxAttempts * requeues'[e] + attempts'[e]
  <1> DEFINE S == Owing(e)
             T == Owing(e)'
             m == MaxAttempts * requeues[e]
  <1>1. /\ IsFiniteSet(S) /\ Cardinality(S) \in Nat /\ emitted[e] \in Nat /\ attempts[e] \in Nat /\ m \in Nat
        /\ emitted[e] + Cardinality(S) <= m + attempts[e] /\ T \subseteq S
    BY CountTypes DEF CountsInv, PublicationsArePaidFor
  <1> HIDE DEF S, T
  <1>2. IsFiniteSet(T) /\ Cardinality(T) \in Nat /\ Cardinality(T) <= Cardinality(S)
    <2>1. IsFiniteSet(T) /\ Cardinality(T) <= Cardinality(S)
      BY <1>1, FS_Subset
    <2>2. QED
      BY <2>1, FS_CardinalityType
  <1> HIDE DEF m
  <1>3. emitted[e] + Cardinality(T) <= m + attempts[e]
    BY <1>1, <1>2
  <1>4. QED
    BY <1>2, <1>3 DEF T, m

LEMMA CountsStart == Init => CountsInv
  <1> SUFFICES ASSUME Init PROVE CountsInv
    OBVIOUS
  <1>1. TypeOK /\ \A r \in Replicas : batch[r] = {}
    BY InitInv DEF OutboxInv, Init
  <1>2. OneClaimOfARow /\ \A e \in Events : Owing(e) = {}
    BY <1>1 DEF OneClaimOfARow, Owing, MayPublish
  <1>3. \A e \in Events : emitted[e] = 0 /\ requeues[e] = 0 /\ attempts[e] = 0
    BY DEF Init
  <1>4. MaxAttempts \in Nat /\ 0 + 0 <= MaxAttempts * 0 + 0
    BY LimitsArePositive DEF MaxAttempts
  <1>5. PublicationsArePaidFor
    BY <1>2, <1>3, <1>4, FS_EmptySet DEF PublicationsArePaidFor
  <1>6. QED
    BY <1>1, <1>2, <1>5 DEF CountsInv

LEMMA CountsStep == ASSUME CountsInv, [Next]_vars PROVE CountsInv'
  <1>1. TypeOK /\ TypeOK'
    BY TypeStep DEF CountsInv
  <1>2. \A r \in Replicas : \A c \in batch[r] : c.event \in Events /\ c.event \in Nat
    <2>1. \A r \in Replicas : batch[r] \subseteq Claims
      BY <1>1 DEF TypeOK
    <2>2. \A c \in Claims : c.event \in Events
      BY DEF Claims
    <2>3. QED
      BY <2>1, <2>2, EventsAreNumbers
  <1>3. ASSUME NEW e \in Events, Enqueue(e) \/ BackoffElapses(e) \/ LeaseExpires(e)
        PROVE  CountsInv'
    <2>1. UNCHANGED <<attempts, phase, batch, emitted, requeues>>
      BY <1>3 DEF Enqueue, BackoffElapses, LeaseExpires
    <2>2. OneClaimOfARow' /\ \A f \in Events : Owing(f)' \subseteq Owing(f)
      BY <2>1 DEF CountsInv, OneClaimOfARow, Owing, MayPublish
    <2>3. QED
      BY <1>1, <2>1, <2>2, FewerOwe DEF CountsInv, PublicationsArePaidFor
  <1>4. ASSUME NEW e \in Events, RequeueDeadLetter(e)
        PROVE  CountsInv'
    <2>1. /\ UNCHANGED <<phase, batch, emitted>>
          /\ attempts' = [attempts EXCEPT ![e] = 0] /\ requeues' = [requeues EXCEPT ![e] = @ + 1]
      BY <1>4 DEF RequeueDeadLetter
    <2>2. OneClaimOfARow' /\ \A f \in Events : Owing(f)' = Owing(f)
      BY <2>1 DEF CountsInv, OneClaimOfARow, Owing, MayPublish
    <2>3. /\ attempts'[e] = 0 /\ requeues'[e] = requeues[e] + 1
          /\ \A f \in Events \ {e} : attempts'[f] = attempts[f] /\ requeues'[f] = requeues[f]
      BY <1>1, <2>1 DEF TypeOK
    <2>4. emitted[e] + Cardinality(Owing(e)) <= MaxAttempts * (requeues[e] + 1) + 0
      <3> DEFINE m == MaxAttempts * requeues[e]
      <3>1. MaxAttempts * (requeues[e] + 1) = m + MaxAttempts
        BY CountTypes
      <3>2. /\ emitted[e] + Cardinality(Owing(e)) <= m + attempts[e] /\ attempts[e] <= MaxAttempts
            /\ emitted[e] \in Nat /\ Cardinality(Owing(e)) \in Nat /\ attempts[e] \in Nat
            /\ m \in Nat /\ MaxAttempts \in Nat
        BY CountTypes DEF CountsInv, PublicationsArePaidFor
      <3> HIDE DEF m
      <3>3. QED
        BY <3>1, <3>2
    <2>5. \A f \in Events \ {e} : Owing(f)' \subseteq Owing(f) /\ emitted'[f] = emitted[f]
      BY <2>1, <2>2
    <2>6. IsFiniteSet(Owing(e))'
      BY <2>2, CountTypes
    <2>7. emitted'[e] + Cardinality(Owing(e))' <= MaxAttempts * requeues'[e] + attempts'[e]
      BY <2>1, <2>2, <2>3, <2>4
    <2>8. PublicationsArePaidFor'
      BY <2>3, <2>5, <2>6, <2>7, FewerOwe DEF PublicationsArePaidFor
    <2>9. QED
      BY <1>1, <2>2, <2>8 DEF CountsInv
  <1>5. ASSUME NEW r \in Replicas, CommitClaim(r)
        PROVE  CountsInv'
    <2>1. PICK token \in Tokens \ LiveTokens : batch' = [batch EXCEPT ![r] =
            {[event |-> e, attempts |-> attempts[e] + 1, token |-> token] : e \in Claimed(r)}]
      BY <1>5 DEF CommitClaim
    <2>2. /\ \A q \in Replicas \ {r} : batch'[q] = batch[q] /\ phase'[q] = phase[q]
          /\ \A c \in batch'[r] : c.event \in Claimed(r)
          /\ \A c, d \in batch'[r] : c.event = d.event => c = d
          /\ UNCHANGED <<emitted, requeues>>
      BY <1>1, <1>5, <2>1 DEF CommitClaim, TypeOK
    <2>3. \A e \in Events : attempts'[e] = IF e \in Claimed(r) THEN attempts[e] + 1 ELSE attempts[e]
      BY <1>5 DEF CommitClaim
    <2>4. OneClaimOfARow'
      BY <2>2 DEF CountsInv, OneClaimOfARow
    <2>5. ASSUME NEW e \in Events, e \notin Claimed(r)
          PROVE  /\ IsFiniteSet(Owing(e))'
                 /\ emitted'[e] + Cardinality(Owing(e))' <= MaxAttempts * requeues'[e] + attempts'[e]
      <3>1. Owing(e)' \subseteq Owing(e)
        BY <2>2, <2>5 DEF Owing, MayPublish
      <3>2. QED
        BY <2>2, <2>3, <2>5, <3>1, FewerOwe
    <2>6. ASSUME NEW e \in Claimed(r), e \in Events
          PROVE  /\ IsFiniteSet(Owing(e))'
                 /\ emitted'[e] + Cardinality(Owing(e))' <= MaxAttempts * requeues'[e] + attempts'[e]
      <3> DEFINE S == Owing(e)
                 T == Owing(e)'
                 m == MaxAttempts * requeues[e]
      <3>1. /\ IsFiniteSet(S) /\ Cardinality(S) \in Nat /\ emitted[e] \in Nat /\ attempts[e] \in Nat /\ m \in Nat
            /\ emitted[e] + Cardinality(S) <= m + attempts[e]
        BY <2>6, CountTypes DEF CountsInv, PublicationsArePaidFor
      <3>2. T \subseteq S \cup {r}
        BY <2>2 DEF Owing, MayPublish
      <3> HIDE DEF S, T
      <3>3. IsFiniteSet(S \cup {r}) /\ Cardinality(S \cup {r}) <= Cardinality(S) + 1
        BY <3>1, FS_AddElement
      <3>4. IsFiniteSet(T) /\ Cardinality(T) \in Nat /\ Cardinality(T) <= Cardinality(S) + 1
        <4>1. IsFiniteSet(T) /\ Cardinality(T) <= Cardinality(S \cup {r})
          BY <3>2, <3>3, FS_Subset
        <4>2. Cardinality(T) \in Nat /\ Cardinality(S \cup {r}) \in Nat
          BY <3>3, <4>1, FS_CardinalityType
        <4>3. QED
          BY <3>1, <3>3, <4>1, <4>2
      <3> HIDE DEF m
      <3>5. emitted[e] + Cardinality(T) <= m + (attempts[e] + 1)
        BY <3>1, <3>4
      <3>6. emitted'[e] = emitted[e] /\ requeues'[e] = requeues[e] /\ attempts'[e] = attempts[e] + 1
        BY <2>2, <2>3, <2>6
      <3>7. QED
        BY <3>4, <3>5, <3>6 DEF T, m
    <2>7. QED
      BY <1>1, <2>4, <2>5, <2>6 DEF CountsInv, PublicationsArePaidFor
  <1>6. ASSUME NEW r \in Replicas, Publish(r)
        PROVE  CountsInv'
    <2>1. PICK c \in batch[r] : IsCurrent(r, c) /\ emitted' = [emitted EXCEPT ![c.event] = @ + 1]
      BY <1>6 DEF Publish
    <2>2. /\ c.event \in Events /\ phase[r] = "publishing" /\ phase' = [phase EXCEPT ![r] = "published"]
          /\ UNCHANGED <<attempts, batch, requeues>>
      BY <1>2, <1>6 DEF Publish, rowVars
    <2>3. OneClaimOfARow'
      BY <2>2 DEF CountsInv, OneClaimOfARow
    <2>4. phase'[r] = "published" /\ \A q \in Replicas \ {r} : phase'[q] = phase[q]
      BY <1>1, <2>2 DEF TypeOK
    <2>5. \A e \in Events : Owing(e)' \subseteq Owing(e)
      BY <2>2, <2>4 DEF Owing, MayPublish
    <2>6. ASSUME NEW e \in Events \ {c.event}
          PROVE  /\ IsFiniteSet(Owing(e))'
                 /\ emitted'[e] + Cardinality(Owing(e))' <= MaxAttempts * requeues'[e] + attempts'[e]
      <3>1. emitted'[e] = emitted[e]
        BY <1>1, <2>1, <2>6 DEF TypeOK
      <3>2. QED
        BY <2>2, <2>5, <3>1, FewerOwe
    <2>7. /\ IsFiniteSet(Owing(c.event))'
          /\ emitted'[c.event] + Cardinality(Owing(c.event))'
                <= MaxAttempts * requeues'[c.event] + attempts'[c.event]
      <3> DEFINE e == c.event
                 S == Owing(e)
                 T == Owing(e)'
                 m == MaxAttempts * requeues[e]
      <3>1. /\ IsFiniteSet(S) /\ Cardinality(S) \in Nat /\ emitted[e] \in Nat /\ attempts[e] \in Nat /\ m \in Nat
            /\ emitted[e] + Cardinality(S) <= m + attempts[e]
        BY <2>2, CountTypes DEF CountsInv, PublicationsArePaidFor
      <3>2. r \in S /\ r \notin T
        <4>1. r \in S
          BY <2>2 DEF Owing, MayPublish
        <4>2. \A d \in batch[r] : ~(d.event < e)
          BY <1>2, <2>1 DEF IsCurrent
        <4>3. QED
          BY <2>2, <2>4, <4>1, <4>2 DEF Owing, MayPublish
      <3>3. T \subseteq S \ {r}
        BY <2>2, <2>5, <3>2
      <3> HIDE DEF S, T
      <3>4. IsFiniteSet(S \ {r}) /\ Cardinality(S \ {r}) = Cardinality(S) - 1
        BY <3>1, <3>2, FS_RemoveElement
      <3>5. IsFiniteSet(T) /\ Cardinality(T) \in Nat /\ Cardinality(T) + 1 <= Cardinality(S)
        <4>1. IsFiniteSet(T) /\ Cardinality(T) <= Cardinality(S \ {r})
          BY <3>3, <3>4, FS_Subset
        <4>2. Cardinality(T) \in Nat /\ Cardinality(S \ {r}) \in Nat
          BY <3>4, <4>1, FS_CardinalityType
        <4>3. QED
          BY <3>1, <3>4, <4>1, <4>2
      <3>6. emitted'[e] = emitted[e] + 1 /\ requeues'[e] = requeues[e] /\ attempts'[e] = attempts[e]
        BY <1>1, <2>1, <2>2 DEF TypeOK
      <3> HIDE DEF m, e
      <3>7. (emitted[e] + 1) + Cardinality(T) <= m + attempts[e]
        BY <3>1, <3>5
      <3>8. QED
        BY <3>5, <3>6, <3>7 DEF T, m, e
    <2>8. QED
      BY <1>1, <2>3, <2>6, <2>7 DEF CountsInv, PublicationsArePaidFor
  <1>7. ASSUME NEW r \in Replicas,
               \/ SelectForUpdate(r) \/ Crash(r)
               \/ \E kind \in FailureKinds : PublishFails(r, kind)
        PROVE  CountsInv'
    <2>1. /\ UNCHANGED <<attempts, emitted, requeues>> /\ phase'[r] # "publishing"
          /\ \A q \in Replicas \ {r} : phase'[q] = phase[q] /\ batch'[q] = batch[q]
          /\ batch'[r] = batch[r] \/ batch'[r] = {}
      BY <1>1, <1>7 DEF SelectForUpdate, Crash, PublishFails, FailureKinds, rowVars, TypeOK
    <2>2. OneClaimOfARow' /\ \A e \in Events : Owing(e)' \subseteq Owing(e)
      BY <2>1 DEF CountsInv, OneClaimOfARow, Owing, MayPublish
    <2>3. QED
      BY <1>1, <2>1, <2>2, FewerOwe DEF CountsInv, PublicationsArePaidFor
  <1>8. ASSUME NEW r \in Replicas,
               \/ MarkSent(r) \/ SettleFailure(r) \/ AbandonBatch(r)
               \/ \E kind \in FailureKinds : MarkSentFails(r, kind)
        PROVE  CountsInv'
    <2>1. PICK c \in batch[r], s \in Statuses :
            IsCurrent(r, c) /\ (Settle(c, s) \/ UNCHANGED rowVars)
            /\ (NextRow(r, c) \/ batch'[r] = {} \/ (batch'[r] = batch[r] /\ phase'[r] # "publishing"))
      BY <1>1, <1>8 DEF MarkSent, SettleFailure, AbandonBatch, MarkSentFails, FailureStatus, Statuses,
                        FailureKinds, TypeOK
    <2>2. UNCHANGED <<attempts, emitted, requeues>>
      <3>1. attempts' = attempts
        BY <1>1, <2>1, SettleRows DEF rowVars, TypeOK
      <3>2. QED
        BY <1>8, <3>1 DEF MarkSent, SettleFailure, AbandonBatch, MarkSentFails
    <2>3. \A q \in Replicas \ {r} : phase'[q] = phase[q] /\ batch'[q] = batch[q]
      BY <1>1, <1>8 DEF MarkSent, SettleFailure, AbandonBatch, MarkSentFails, NextRow, TypeOK
    <2>4. /\ batch'[r] \subseteq batch[r]
          /\ \A d \in batch'[r] : phase'[r] = "publishing" => c.event < d.event
      <3>1. CASE NextRow(r, c)
        <4>1. batch'[r] = batch[r] \ {c}
          BY <1>1, <3>1 DEF NextRow, TypeOK
        <4>2. ASSUME NEW d \in batch[r] \ {c}
              PROVE  c.event < d.event
          BY <1>2, <2>1 DEF CountsInv, OneClaimOfARow, IsCurrent
        <4>3. QED
          BY <4>1, <4>2
      <3>2. CASE batch'[r] = {}
        BY <3>2
      <3>3. CASE batch'[r] = batch[r] /\ phase'[r] # "publishing"
        BY <3>3
      <3>4. QED
        BY <2>1, <3>1, <3>2, <3>3
    <2>5. OneClaimOfARow'
      BY <2>3, <2>4 DEF CountsInv, OneClaimOfARow
    <2>6. \A e \in Events : MayPublish(r, e)' => MayPublish(r, e)
      BY <2>1, <2>4 DEF MayPublish
    <2>7. \A e \in Events : Owing(e)' \subseteq Owing(e)
      BY <2>3, <2>6 DEF Owing, MayPublish
    <2>8. QED
      BY <1>1, <2>2, <2>5, <2>7, FewerOwe DEF CountsInv, PublicationsArePaidFor
  <1>9. CASE UNCHANGED vars
    <2>1. OneClaimOfARow' /\ UNCHANGED <<emitted, requeues, attempts>>
          /\ \A f \in Events : Owing(f)' \subseteq Owing(f)
      BY <1>9 DEF vars, CountsInv, OneClaimOfARow, Owing, MayPublish
    <2>2. QED
      BY <1>1, <2>1, FewerOwe DEF CountsInv, PublicationsArePaidFor
  <1>10. QED
    BY <1>3, <1>4, <1>5, <1>6, <1>7, <1>8, <1>9 DEF Next

(* However many replicas race for a row, whose leases expire and who come   *)
(* late, it is published at most max_attempts times per requeue.            *)
THEOREM PublicationsAreBounded == Spec => []DuplicatesAreBounded
  <1>1. CountsInv /\ [Next]_vars => CountsInv'
    BY CountsStep
  <1>2. CountsInv => DuplicatesAreBounded
    <2> SUFFICES ASSUME CountsInv, NEW e \in Events
                 PROVE  emitted[e] <= MaxAttempts * (1 + requeues[e])
      BY DEF DuplicatesAreBounded
    <2> DEFINE m == MaxAttempts * requeues[e]
    <2>1. MaxAttempts * (1 + requeues[e]) = m + MaxAttempts
      BY CountTypes
    <2>2. /\ emitted[e] + Cardinality(Owing(e)) <= m + attempts[e] /\ attempts[e] <= MaxAttempts
          /\ emitted[e] \in Nat /\ Cardinality(Owing(e)) \in Nat /\ attempts[e] \in Nat
          /\ m \in Nat /\ MaxAttempts \in Nat
      BY CountTypes DEF CountsInv, PublicationsArePaidFor
    <2> HIDE DEF m
    <2>3. QED
      BY <2>1, <2>2
  <1>3. QED
    BY <1>1, <1>2, CountsStart, PTL DEF Spec

-----------------------------------------------------------------------------
(* A leased row that a claim transaction has locked had outlived its lease, *)
(* and stays so until the claim is committed: nobody else writes the row.   *)
LockedIsExpired ==
  \A e \in Events : rowLock[e] # None /\ status[e] = "processing" => expired[e]

LeaseInv == OutboxInv /\ LockedIsExpired

LEMMA LeaseStart == Init => LeaseInv
  BY InitInv DEF LeaseInv, LockedIsExpired, Init

LEMMA LeaseStep == ASSUME LeaseInv, [Next]_vars PROVE LeaseInv'
  <1>1. TypeOK /\ OutboxInv'
    BY InvStep DEF LeaseInv, OutboxInv
  <1>2. ASSUME NEW e \in Events,
               Enqueue(e) \/ BackoffElapses(e) \/ LeaseExpires(e) \/ RequeueDeadLetter(e)
        PROVE  LockedIsExpired'
    BY <1>1, <1>2 DEF Enqueue, BackoffElapses, LeaseExpires, RequeueDeadLetter, LeaseInv, LockedIsExpired, TypeOK
  <1>3. ASSUME NEW r \in Replicas, SelectForUpdate(r) PROVE LockedIsExpired'
    BY <1>3 DEF SelectForUpdate, OldestOf, Eligible, rowVars, LeaseInv, LockedIsExpired
  <1>4. ASSUME NEW r \in Replicas, CommitClaim(r) PROVE LockedIsExpired'
    <2>1. \A e \in Events : rowLock'[e] # None =>
            /\ e \notin LockedBy(r) /\ rowLock'[e] = rowLock[e] /\ expired'[e] = expired[e]
      BY <1>4 DEF CommitClaim
    <2>2. \A e \in Events : e \notin LockedBy(r) => status'[e] = status[e]
      BY <1>4 DEF CommitClaim, Claimed, Exhausted
    <2>3. QED
      BY <2>1, <2>2 DEF LeaseInv, LockedIsExpired
  <1>5. ASSUME NEW r \in Replicas,
               Publish(r) \/ Crash(r) \/ \E kind \in FailureKinds : PublishFails(r, kind)
        PROVE  LockedIsExpired'
    <2>1. UNCHANGED rowVars /\ \A e \in Events : rowLock'[e] # None => rowLock'[e] = rowLock[e]
      BY <1>5 DEF Publish, Crash, PublishFails
    <2>2. QED
      BY <2>1 DEF rowVars, LeaseInv, LockedIsExpired
  <1>6. ASSUME NEW r \in Replicas,
               \/ MarkSent(r) \/ SettleFailure(r) \/ AbandonBatch(r)
               \/ \E kind \in FailureKinds : MarkSentFails(r, kind)
        PROVE  LockedIsExpired'
    <2>1. PICK c \in batch[r] : UNCHANGED rowVars \/ \E s \in Statuses : Settle(c, s) /\ rowLock[c.event] = None
      BY <1>6 DEF MarkSent, SettleFailure, AbandonBatch, MarkSentFails, FailureStatus, Statuses, CanUpdate
    <2>2. UNCHANGED rowLock
      BY <1>6 DEF MarkSent, SettleFailure, AbandonBatch, MarkSentFails
    <2>3. \A e \in Events : rowLock[e] # None => status'[e] = status[e] /\ expired'[e] = expired[e]
      BY <1>1, <2>1 DEF Settle, rowVars, TypeOK
    <2>4. QED
      BY <2>2, <2>3 DEF LeaseInv, LockedIsExpired
  <1>7. ASSUME UNCHANGED vars PROVE LockedIsExpired'
    BY <1>7 DEF vars, LeaseInv, LockedIsExpired
  <1>8. LockedIsExpired'
    BY <1>2, <1>3, <1>4, <1>5, <1>6, <1>7 DEF Next
  <1>9. QED
    BY <1>1, <1>8 DEF LeaseInv

(* A row changes hands only when its lease has expired, and is settled only *)
(* by the replica that holds the lease, as sent only after it published.    *)
THEOREM LeasesAreRespected == Spec => LeaseIsRespected
  <1> DEFINE Rightful(e) ==
               \/ expired[e] /\ status'[e] \in {"processing", "dead_letter"}
               \/ \E r \in Replicas : \E c \in batch[r] :
                    /\ c.event = e /\ c.token = lockToken[e]
                    /\ status'[e] = "sent" => phase[r] = "published"
  <1>1. ASSUME LeaseInv, [Next]_vars, NEW e \in Events, status[e] = "processing", lockToken'[e] # lockToken[e]
        PROVE  Rightful(e)
    <2>0. TypeOK
      BY <1>1 DEF LeaseInv, OutboxInv
    <2>1. ASSUME NEW r \in Replicas, CommitClaim(r) PROVE Rightful(e)
      <3>1. e \in LockedBy(r)
        BY <1>1, <2>1 DEF CommitClaim, Claimed, Exhausted
      <3>2. expired[e]
        BY <1>1, <3>1, NoneIsNoValue DEF LeaseInv, LockedIsExpired, LockedBy
      <3>3. status'[e] \in {"processing", "dead_letter"}
        BY <2>1, <3>1 DEF CommitClaim, Claimed
      <3>4. QED
        BY <3>2, <3>3
    <2>2. ASSUME NEW r \in Replicas,
                 \/ MarkSent(r) \/ SettleFailure(r) \/ AbandonBatch(r)
                 \/ \E kind \in FailureKinds : MarkSentFails(r, kind)
          PROVE  Rightful(e)
      <3>1. PICK c \in batch[r], s \in Statuses :
              (Settle(c, s) \/ UNCHANGED rowVars) /\ (s = "sent" => phase[r] = "published")
        BY <2>2 DEF MarkSent, SettleFailure, AbandonBatch, MarkSentFails, FailureStatus, Statuses
      <3>2. HoldsLease(c) /\ status' = [status EXCEPT ![c.event] = s]
            /\ lockToken' = [lockToken EXCEPT ![c.event] = None]
        BY <1>1, <3>1 DEF Settle, rowVars
      <3>3. e = c.event
        BY <1>1, <2>0, <3>2 DEF TypeOK
      <3>4. c.token = lockToken[e] /\ status'[e] = s
        BY <2>0, <3>2, <3>3 DEF HoldsLease, TypeOK
      <3>5. QED
        BY <3>1, <3>3, <3>4
    <2>3. CASE \E f \in Events :
                 Enqueue(f) \/ BackoffElapses(f) \/ LeaseExpires(f) \/ RequeueDeadLetter(f)
      BY <1>1, <2>0, <2>3 DEF TypeOK, Enqueue, BackoffElapses, LeaseExpires, RequeueDeadLetter
    <2>4. CASE \E r \in Replicas :
                 \/ SelectForUpdate(r) \/ Publish(r) \/ Crash(r)
                 \/ \E kind \in FailureKinds : PublishFails(r, kind)
      BY <1>1, <2>4 DEF SelectForUpdate, Publish, Crash, PublishFails, rowVars
    <2>5. CASE UNCHANGED vars
      BY <1>1, <2>5 DEF vars
    <2>6. QED
      BY <1>1, <2>1, <2>2, <2>3, <2>4, <2>5 DEF Next
  <1>2. LeaseInv /\ [Next]_vars => LeaseInv'
    BY LeaseStep
  <1>3. LeaseInv /\ [Next]_vars
          => [\A e \in Events : (status[e] = "processing" /\ lockToken'[e] # lockToken[e]) => Rightful(e)]_vars
    BY <1>1
  <1>4. QED
    BY <1>2, <1>3, LeaseStart, PTL DEF Spec, LeaseIsRespected
=============================================================================
