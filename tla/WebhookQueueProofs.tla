------------------------- MODULE WebhookQueueProofs -------------------------
(* Proofs about WebhookQueue: the inductive invariant, and with it the type,
   the meaning of a completed and of a failed row, and the bound on
   duplicates, for any number of workers, updates and attempts.             *)
EXTENDS WebhookQueue, FiniteSetTheorems, TLAPS

(* The bound on duplicates survives every step that makes no content, takes no
   attempt back and puts an update into the hands of no worker.             *)
LEMMA NobodyNew ==
  ASSUME TypeOK, TypeOK', ContentIsPaidFor, QueueAssumption,
         NEW u \in Updates,
         content'[u] = content[u],
         event'[u].attempts >= event[u].attempts,
         Pending(u)' \subseteq Pending(u)
  PROVE  content'[u] + Cardinality(Pending(u)') <= event'[u].attempts
<1>1. IsFiniteSet(Pending(u))
  BY FS_Subset DEF Pending, QueueAssumption
<1>2. IsFiniteSet(Pending(u)') /\ Cardinality(Pending(u)') <= Cardinality(Pending(u))
  BY <1>1, FS_Subset
<1>3. Cardinality(Pending(u)) \in Nat /\ Cardinality(Pending(u)') \in Nat
  BY <1>1, <1>2, FS_CardinalityType
<1>4. /\ content[u] \in Nat /\ content'[u] \in Nat
      /\ event[u].attempts \in Nat /\ event'[u].attempts \in Nat
  BY DEF TypeOK, Event
<1>5. content[u] + Cardinality(Pending(u)) <= event[u].attempts
  BY DEF ContentIsPaidFor
<1> QED
  BY <1>2, <1>3, <1>4, <1>5

(* A row in the database was claimed at most as often as it may be, and the
   batch that a claim takes consists of such rows.                          *)
LEMMA EligibleRows ==
  ASSUME NEW B \in Batches(Eligible), NEW u \in B
  PROVE  /\ u \in Updates
         /\ event[u].status \in {"pending", "retry", "processing"}
         /\ event[u].attempts < MaxAttempts
BY DEF Batches, Eligible

(* Storing an update gives it a row of the right shape. *)
LEMMA NewRow ==
  ASSUME QueueAssumption
  PROVE  [NoEvent EXCEPT !.status = "pending", !.available = TRUE,
                         !.created_at = Cardinality(Stored) + 1] \in Event
<1>1. IsFiniteSet(Stored)
  BY FS_Subset DEF Stored, QueueAssumption
<1>2. Cardinality(Stored) + 1 \in Nat
  BY <1>1, FS_CardinalityType
<1> QED
  BY <1>2 DEF NoEvent, Event

(* A claim keeps the shape of the row and counts itself. *)
LEMMA ClaimedRow ==
  ASSUME NEW w \in Workers, NEW r \in Event
  PROVE  /\ Claimed(r, w) \in Event
         /\ Claimed(r, w).attempts = r.attempts + 1
<1>1. r.attempts + 1 \in Nat
  BY DEF Event
<1>2. [r EXCEPT !.status = "processing", !.lease_owner = w, !.lease = "valid"]
        \in Event
  BY DEF Event
<1>3. Claimed(r, w) =
        [[r EXCEPT !.status = "processing", !.lease_owner = w, !.lease = "valid"]
          EXCEPT !.attempts = r.attempts + 1]
  BY DEF Claimed
<1> QED
  BY <1>1, <1>2, <1>3 DEF Event

(* Every step keeps every variable's type and the limit of the counter. *)
LEMMA TypePreserved ==
  ASSUME QueueAssumption, QueueInv, [Next]_vars
  PROVE  TypeOK'
<1> USE DEF TypeOK, Labels, tables, workers
<1> TypeOK
  BY DEF QueueInv
<1>1. ASSUME NEW w \in Workers, ClaimBatch(w) PROVE TypeOK'
  <2>1. PICK B \in Batches(Eligible) :
           /\ event' = [u \in Updates |->
                          IF u \in B THEN Claimed(event[u], w) ELSE event[u]]
           /\ todo' = [todo EXCEPT ![w] = B]
    BY <1>1 DEF ClaimBatch
  <2>2. B \subseteq Updates
    BY EligibleRows
  <2>3. ASSUME NEW u \in Updates
        PROVE  event'[u] \in Event /\ event'[u].attempts <= MaxAttempts
    <3>1. CASE u \in B
      <4>1. event'[u] = Claimed(event[u], w) /\ event[u].attempts < MaxAttempts
        BY <2>1, <3>1, EligibleRows
      <4>2. event[u] \in Event
        OBVIOUS
      <4> QED
        BY <4>1, <4>2, ClaimedRow, event[u].attempts \in Nat DEF Event, QueueAssumption
    <3>2. CASE u \notin B
      BY <2>1, <3>2
    <3> QED BY <3>1, <3>2
  <2>4. event' \in [Updates -> Event]
    BY <2>1, <2>3
  <2> QED
    BY <1>1, <2>1, <2>2, <2>3, <2>4 DEF ClaimBatch
<1>2. ASSUME NEW w \in Workers, Handle(w) \/ Raise(w) PROVE TypeOK'
  <2>1. CASE TakeUp(w)
    BY <2>1 DEF TakeUp, Goto
  <2>2. CASE BatchDone(w) \/ NothingToMake(w) \/ FindDuplicate(w)
             \/ FindProcessed(w) \/ Raise(w)
    BY <2>2 DEF BatchDone, NothingToMake, FindDuplicate, FindProcessed, Raise, Goto
  <2>3. CASE CreateContent(w)
    <3>1. cur[w] \in Updates
      BY <2>3 DEF CreateContent, QueueInv, WorkerInv
    <3>2. content[cur[w]] + 1 \in Nat
      BY <3>1
    <3> QED
      BY <2>3, <3>2 DEF CreateContent, Goto
  <2>4. CASE InsertProcessed(w)
    <3>1. cur[w] \in Updates
      BY <2>4 DEF InsertProcessed, QueueInv, WorkerInv
    <3> QED
      BY <2>4, <3>1 DEF InsertProcessed, Goto
  <2>5. CASE CompleteRead(w)
    BY <2>5 DEF CompleteRead, Goto
  <2>6. CASE CompleteWrite(w)
    <3>1. ASSUME NEW r \in Event
          PROVE  /\ Released(r, "completed") \in Event
                 /\ Released(r, "completed").attempts = r.attempts
      BY DEF Released, Event, Finished
    <3> QED
      BY <2>6, <3>1 DEF CompleteWrite, Goto
  <2>7. CASE FailRead(w)
    <3>1. cur[w] \in Updates
      BY <2>7 DEF FailRead, QueueInv, WorkerInv
    <3>2. event[cur[w]].attempts \in Nat
      BY <3>1 DEF Event
    <3> QED
      BY <2>7, <3>2 DEF FailRead, Goto
  <2>8. CASE FailWrite(w)
    <3> DEFINE Row(r) == [Released(r, StatusAfterFailure(seen[w])) EXCEPT
                            !.available = FALSE]
    <3>1. ASSUME NEW r \in Event
          PROVE  Row(r) \in Event /\ Row(r).attempts = r.attempts
      BY DEF Released, Event, Finished, StatusAfterFailure
    <3>2. event' = [event EXCEPT ![cur[w]] = Row(@)]
      BY <2>8 DEF FailWrite
    <3>3. /\ event' \in [Updates -> Event]
          /\ \A u \in Updates : event'[u].attempts = event[u].attempts
      BY <3>1, <3>2
    <3> QED
      BY <2>8, <3>3 DEF FailWrite, Goto
  <2> QED
    BY <1>2, <2>1, <2>2, <2>3, <2>4, <2>5, <2>6, <2>7, <2>8 DEF Handle
<1>3. ASSUME NEW w \in Workers, Crash(w) PROVE TypeOK'
  <2>1. ASSUME NEW r \in Event
        PROVE  /\ [r EXCEPT !.lease_owner = Gone] \in Event
               /\ [r EXCEPT !.lease_owner = Gone].attempts = r.attempts
    BY DEF Event
  <2> QED
    BY <1>3, <2>1 DEF Crash
<1>4. ASSUME NEW u \in Updates, Enqueue(u) PROVE TypeOK'
  <2>1. 0 <= MaxAttempts
    BY DEF QueueAssumption
  <2>2. event' \in [Updates -> Event]
    BY <1>4, NewRow DEF Enqueue
  <2>3. \A v \in Updates : event'[v].attempts <= MaxAttempts
    BY <1>4, <2>1 DEF Enqueue, NoEvent
  <2> QED
    BY <1>4, <2>2, <2>3 DEF Enqueue
<1>5. ASSUME NEW u \in Updates, ExpireLease(u) \/ BackoffElapses(u) PROVE TypeOK'
  <2>1. ASSUME NEW r \in Event
        PROVE  /\ [r EXCEPT !.lease = "expired"] \in Event
               /\ [r EXCEPT !.available = TRUE] \in Event
               /\ [r EXCEPT !.lease = "expired"].attempts = r.attempts
               /\ [r EXCEPT !.available = TRUE].attempts = r.attempts
    BY DEF Event
  <2>2. /\ event' \in [Updates -> Event]
        /\ \A v \in Updates : event'[v].attempts = event[v].attempts
    <3>1. CASE ExpireLease(u)
      <4>1. event' = [event EXCEPT ![u] = [event[u] EXCEPT !.lease = "expired"]]
        BY <3>1 DEF ExpireLease
      <4> QED
        BY <4>1, <2>1
    <3>2. CASE BackoffElapses(u)
      <4>1. event' = [event EXCEPT ![u] = [event[u] EXCEPT !.available = TRUE]]
        BY <3>2 DEF BackoffElapses
      <4> QED
        BY <4>1, <2>1
    <3> QED
      BY <1>5, <3>1, <3>2
  <2> QED
    BY <1>5, <2>2 DEF ExpireLease, BackoffElapses
<1>6. CASE UNCHANGED vars
  BY <1>6 DEF vars
<1> QED
  BY <1>1, <1>2, <1>3, <1>4, <1>5, <1>6 DEF Next

(* Every step either leaves status and attempts of a row alone, or claims it,
   marks it completed or failed, or stores it.  This is all the row invariants
   need to know of a step.                                                  *)
LEMMA RowSteps ==
  ASSUME QueueAssumption, QueueInv, [Next]_vars, NEW u \in Updates
  PROVE
    \/ /\ event'[u].status = event[u].status
       /\ event'[u].attempts = event[u].attempts
       /\ event[u] = NoEvent => event'[u] = NoEvent
    \/ /\ event'[u].status = "processing"
       /\ event'[u].attempts = event[u].attempts + 1
    \/ /\ event'[u].status = "completed" /\ u \in processed
       /\ event'[u].attempts = event[u].attempts
    \/ /\ event'[u].status = "retry"
       /\ event'[u].attempts = event[u].attempts
    \/ /\ event'[u].status = "failed" /\ event[u].attempts = MaxAttempts
       /\ event'[u].attempts = event[u].attempts
    \/ /\ event'[u].status = "pending"
       /\ event'[u].attempts = event[u].attempts
<1> TypeOK /\ event[u] \in Event
  BY DEF QueueInv, TypeOK
<1>1. ASSUME NEW w \in Workers, ClaimBatch(w)
      PROVE  \/ event'[u] = event[u]
             \/ event'[u] = Claimed(event[u], w)
  BY <1>1 DEF ClaimBatch
<1>2. ASSUME NEW w \in Workers, Handle(w) \/ Raise(w),
             ~CompleteWrite(w), ~FailWrite(w)
      PROVE  event' = event
  BY <1>2 DEF Handle, Raise, TakeUp, BatchDone, NothingToMake, FindDuplicate,
     CreateContent, FindProcessed, InsertProcessed, CompleteRead, FailRead, tables
<1>3. ASSUME NEW w \in Workers, CompleteWrite(w), cur[w] = u
      PROVE  /\ event'[u].status = "completed" /\ u \in processed
             /\ event'[u].attempts = event[u].attempts
  <2>1. u \in processed
    BY <1>3 DEF CompleteWrite, QueueInv, WorkerInv
  <2>2. event'[u] = Released(event[u], "completed")
    BY <1>3 DEF CompleteWrite, TypeOK
  <2> QED
    BY <2>1, <2>2 DEF Released, Event
<1>4. ASSUME NEW w \in Workers, FailWrite(w), cur[w] = u
      PROVE  /\ event'[u].attempts = event[u].attempts
             /\ \/ event'[u].status = "retry"
                \/ event'[u].status = "failed" /\ event[u].attempts = MaxAttempts
  <2>1. /\ seen[w] <= event[u].attempts
        /\ event[u].attempts <= MaxAttempts
        /\ seen[w] \in Nat
    BY <1>4 DEF FailWrite, QueueInv, WorkerInv, TypeOK
  <2>2. event'[u] = [Released(event[u], StatusAfterFailure(seen[w])) EXCEPT
                       !.available = FALSE]
    BY <1>4 DEF FailWrite, TypeOK
  <2>3. /\ event'[u].attempts = event[u].attempts
        /\ event'[u].status = StatusAfterFailure(seen[w])
    BY <2>2 DEF Released, Event
  <2>4. event[u].attempts \in Nat /\ MaxAttempts \in Nat
    BY DEF Event, QueueAssumption
  <2> QED
    BY <2>1, <2>3, <2>4 DEF StatusAfterFailure
<1>5. ASSUME NEW w \in Workers, (CompleteWrite(w) \/ FailWrite(w)), cur[w] # u
      PROVE  event'[u] = event[u]
  BY <1>5 DEF CompleteWrite, FailWrite, TypeOK
<1>6. ASSUME NEW w \in Workers, Crash(w)
      PROVE  /\ event'[u].status = event[u].status
             /\ event'[u].attempts = event[u].attempts
             /\ event[u] = NoEvent => event'[u] = NoEvent
  <2>1. NoEvent.lease_owner = None
    BY DEF NoEvent
  <2>2. None # w
    BY DEF QueueAssumption
  <2> QED
    BY <1>6, <2>1, <2>2 DEF Crash, Event
<1>7. ASSUME NEW v \in Updates, Enqueue(v)
      PROVE  \/ event'[u] = event[u]
             \/ /\ event'[u].status = "pending" /\ event'[u].attempts = 0
                /\ event[u].attempts = 0
  <2>1. CASE u = v /\ u \notin Stored
    <3>1. event[u] = NoEvent
      BY <2>1 DEF Stored, QueueInv, RowInv
    <3> QED
      BY <1>7, <2>1, <3>1 DEF Enqueue, NoEvent, TypeOK
  <2>2. CASE u # v \/ u \in Stored
    BY <1>7, <2>2 DEF Enqueue, TypeOK
  <2> QED
    BY <2>1, <2>2
<1>8. ASSUME NEW v \in Updates, ExpireLease(v) \/ BackoffElapses(v)
      PROVE  /\ event'[u].status = event[u].status
             /\ event'[u].attempts = event[u].attempts
             /\ event[u] = NoEvent => event'[u] = NoEvent
  <2>1. CASE u = v
    <3>1. NoEvent.lease # "valid" /\ NoEvent.status # "retry"
      BY DEF NoEvent
    <3>2. event[u] # NoEvent
      BY <1>8, <2>1, <3>1 DEF ExpireLease, BackoffElapses
    <3>3. \/ event'[u] = [event[u] EXCEPT !.lease = "expired"]
          \/ event'[u] = [event[u] EXCEPT !.available = TRUE]
      BY <1>8, <2>1 DEF ExpireLease, BackoffElapses, TypeOK
    <3> QED
      BY <3>2, <3>3 DEF Event
  <2>2. CASE u # v
    BY <1>8, <2>2 DEF ExpireLease, BackoffElapses, TypeOK
  <2> QED
    BY <2>1, <2>2
<1>9. CASE UNCHANGED vars
  BY <1>9 DEF vars, tables
<1>10. ASSUME NEW w \in Workers, event'[u] = Claimed(event[u], w)
       PROVE  /\ event'[u].status = "processing"
              /\ event'[u].attempts = event[u].attempts + 1
  BY <1>10 DEF Claimed, Event
<1>11. CASE \E w \in Workers : ClaimBatch(w) \/ Handle(w) \/ Raise(w) \/ Crash(w)
  BY <1>1, <1>2, <1>3, <1>4, <1>5, <1>6, <1>10, <1>11
<1>12. CASE \E v \in Updates : Enqueue(v) \/ ExpireLease(v) \/ BackoffElapses(v)
  BY <1>7, <1>8, <1>12
<1> QED
  BY <1>9, <1>11, <1>12 DEF Next

(* Attempts are counted and never taken back. *)
LEMMA AttemptsGrow ==
  ASSUME QueueAssumption, QueueInv, [Next]_vars, NEW u \in Updates
  PROVE  /\ event[u].attempts \in Nat
         /\ event'[u].attempts \in Nat
         /\ event'[u].attempts >= event[u].attempts
<1>1. event[u].attempts \in Nat
  BY DEF QueueInv, TypeOK, Event
<1> QED
  BY <1>1, RowSteps

(* No update loses its record of having been handled. *)
LEMMA ProcessedGrows ==
  ASSUME [Next]_vars
  PROVE  processed \subseteq processed'
BY DEF Next, vars, tables, ClaimBatch, Handle, Raise, Crash, Enqueue, ExpireLease,
   BackoffElapses, TakeUp, BatchDone, NothingToMake, FindDuplicate, CreateContent,
   FindProcessed, InsertProcessed, CompleteRead, CompleteWrite, FailRead, FailWrite

(* The three invariants that speak of the rows. *)
LEMMA RowsPreserved ==
  ASSUME QueueAssumption, QueueInv, [Next]_vars
  PROVE  /\ CompletedIsProcessed'
         /\ FailedIsExhausted'
         /\ \A u \in Updates : RowInv(u)'
<1> SUFFICES ASSUME NEW u \in Updates
             PROVE  /\ event'[u].status = "completed" => u \in processed'
                    /\ event'[u].status = "failed" => event'[u].attempts = MaxAttempts
                    /\ event'[u].status = "absent" => event'[u] = NoEvent
  BY DEF CompletedIsProcessed, FailedIsExhausted, RowInv
<1>1. /\ event[u].status = "completed" => u \in processed
      /\ event[u].status = "failed" => event[u].attempts = MaxAttempts
      /\ event[u].status = "absent" => event[u] = NoEvent
  BY DEF QueueInv, CompletedIsProcessed, FailedIsExhausted, RowInv
<1>2. processed \subseteq processed'
  BY ProcessedGrows
<1> QED
  BY <1>1, <1>2, RowSteps

(* What a worker has in its hands stays true: its own steps establish it, and
   those of the others neither take attempts nor records back.              *)
LEMMA WorkersPreserved ==
  ASSUME QueueAssumption, QueueInv, [Next]_vars
  PROVE  \A w \in Workers : WorkerInv(w)'
<1> SUFFICES ASSUME NEW w \in Workers PROVE WorkerInv(w)'
  OBVIOUS
<1> TypeOK /\ TypeOK' /\ WorkerInv(w) /\ None \notin Updates
  BY TypePreserved DEF QueueInv, QueueAssumption
<1>1. /\ processed \subseteq processed'
      /\ \A u \in Updates : /\ event[u].attempts \in Nat
                            /\ event'[u].attempts \in Nat
                            /\ event'[u].attempts >= event[u].attempts
  BY ProcessedGrows, AttemptsGrow
<1>2. seen[w] \in Nat /\ cur[w] \in Updates \cup {None} /\ todo[w] \subseteq Updates
  BY DEF TypeOK
<1>3. CASE /\ pc'[w] = pc[w] /\ todo'[w] = todo[w]
           /\ cur'[w] = cur[w] /\ seen'[w] = seen[w]
  BY <1>1, <1>2, <1>3 DEF WorkerInv
<1>4. CASE ClaimBatch(w)
  <2>1. PICK B \in Batches(Eligible) :
           /\ event' = [u \in Updates |->
                          IF u \in B THEN Claimed(event[u], w) ELSE event[u]]
           /\ todo' = [todo EXCEPT ![w] = B]
    BY <1>4 DEF ClaimBatch
  <2>2. \A u \in B : u \in Updates /\ event'[u].attempts >= 1
    <3> SUFFICES ASSUME NEW u \in B PROVE u \in Updates /\ event'[u].attempts >= 1
      OBVIOUS
    <3>1. u \in Updates
      BY EligibleRows
    <3>2. event[u] \in Event /\ event'[u] = Claimed(event[u], w)
      BY <2>1, <3>1 DEF TypeOK
    <3> QED
      BY <1>1, <3>1, <3>2, ClaimedRow
  <2>3. pc'[w] = "next" /\ todo'[w] = B /\ cur'[w] = cur[w] /\ seen'[w] = seen[w]
    BY <1>4, <2>1 DEF ClaimBatch, TypeOK
  <2>4. cur[w] = None
    BY <1>4 DEF ClaimBatch, WorkerInv
  <2> QED
    BY <2>2, <2>3, <2>4 DEF WorkerInv
<1>5. CASE TakeUp(w)
  <2>1. PICK u \in todo[w] :
           /\ todo' = [todo EXCEPT ![w] = @ \ {u}]
           /\ cur' = [cur EXCEPT ![w] = u]
           /\ pc' = [pc EXCEPT ![w] = IF u \in processed THEN "complete" ELSE "handle"]
           /\ processed' = processed /\ event' = event
    BY <1>5 DEF TakeUp, Goto, tables
  <2>2. /\ todo'[w] = todo[w] \ {u} /\ cur'[w] = u
        /\ pc'[w] = IF u \in processed THEN "complete" ELSE "handle"
    BY <2>1 DEF TypeOK
  <2> QED
    BY <1>2, <2>1, <2>2 DEF WorkerInv
<1>6. CASE BatchDone(w)
  BY <1>6 DEF BatchDone, Goto, WorkerInv, TypeOK, tables
<1>7. CASE \/ NothingToMake(w) \/ FindDuplicate(w) \/ FindProcessed(w) \/ Raise(w)
           \/ CreateContent(w) \/ InsertProcessed(w)
  <2>1. /\ cur' = cur /\ todo' = todo /\ event' = event
        /\ pc[w] \notin {"poll", "next"} /\ pc'[w] \notin {"poll", "next", "fail_write"}
        /\ pc'[w] \in {"complete", "completing"} => cur[w] \in processed'
    BY <1>7 DEF NothingToMake, FindDuplicate, FindProcessed, Raise, CreateContent,
       InsertProcessed, Goto, TypeOK, tables
  <2> QED
    BY <2>1 DEF WorkerInv
<1>8. CASE CompleteRead(w) \/ CompleteWrite(w)
  <2>1. /\ todo' = todo /\ processed' = processed /\ pc[w] \in {"complete", "completing"}
        /\ \/ pc'[w] = "completing" /\ cur'[w] = cur[w]
           \/ pc'[w] = "next" /\ cur'[w] = None
    BY <1>8 DEF CompleteRead, CompleteWrite, Goto, TypeOK, tables
  <2> QED
    BY <1>1, <1>2, <2>1 DEF WorkerInv
<1>9. CASE FailRead(w) \/ FailWrite(w)
  <2>1. /\ todo' = todo /\ pc[w] \in {"failing", "fail_write"}
        /\ \/ /\ pc'[w] = "fail_write" /\ cur'[w] = cur[w] /\ event' = event
              /\ seen'[w] = event[cur[w]].attempts
           \/ pc'[w] = "next" /\ cur'[w] = None
    BY <1>9 DEF FailRead, FailWrite, Goto, TypeOK, tables
  <2>2. cur[w] \in Updates
    BY <1>2, <2>1 DEF WorkerInv
  <2> QED
    BY <1>1, <1>2, <2>1, <2>2 DEF WorkerInv
<1>10. CASE Crash(w)
  BY <1>10 DEF Crash, WorkerInv, TypeOK
<1>11. ASSUME NEW v \in Workers, v # w,
              ClaimBatch(v) \/ Handle(v) \/ Raise(v) \/ Crash(v)
       PROVE  /\ pc'[w] = pc[w] /\ todo'[w] = todo[w]
              /\ cur'[w] = cur[w] /\ seen'[w] = seen[w]
  BY <1>11 DEF TypeOK, Handle, ClaimBatch, Raise, Crash, TakeUp, BatchDone,
     NothingToMake, FindDuplicate, CreateContent, FindProcessed, InsertProcessed,
     CompleteRead, CompleteWrite, FailRead, FailWrite, Goto
<1>12. CASE \E u \in Updates : Enqueue(u) \/ ExpireLease(u) \/ BackoffElapses(u)
  BY <1>12, <1>3 DEF Enqueue, ExpireLease, BackoffElapses, workers
<1>13. CASE UNCHANGED vars
  BY <1>13, <1>3 DEF vars, workers
<1>14. CASE \E v \in Workers : ClaimBatch(v) \/ Handle(v) \/ Raise(v) \/ Crash(v)
  BY <1>3, <1>4, <1>5, <1>6, <1>7, <1>8, <1>9, <1>10, <1>11, <1>14 DEF Handle
<1> QED
  BY <1>12, <1>13, <1>14 DEF Next

(* Each claim pays for at most one content item, also when the lease of the
   claim has run out and other workers hold the same update.                *)
LEMMA PaidForPreserved ==
  ASSUME QueueAssumption, QueueInv, [Next]_vars
  PROVE  ContentIsPaidFor'
<1> SUFFICES ASSUME NEW u \in Updates
             PROVE  content'[u] + Cardinality(Pending(u)') <= event'[u].attempts
  BY DEF ContentIsPaidFor
<1> /\ TypeOK /\ TypeOK' /\ ContentIsPaidFor /\ None \notin Updates
    /\ \A w \in Workers : WorkerInv(w)
  BY TypePreserved DEF QueueInv, QueueAssumption
<1>1. event'[u].attempts >= event[u].attempts
  BY AttemptsGrow
<1>2. CASE content'[u] = content[u] /\ Pending(u)' \subseteq Pending(u)
  BY <1>1, <1>2, NobodyNew
<1>3. /\ IsFiniteSet(Pending(u)) /\ Cardinality(Pending(u)) \in Nat
      /\ content[u] \in Nat /\ event[u].attempts \in Nat
      /\ content[u] + Cardinality(Pending(u)) <= event[u].attempts
  <2>1. IsFiniteSet(Pending(u))
    BY FS_Subset DEF Pending, QueueAssumption
  <2> QED
    BY <2>1, FS_CardinalityType DEF TypeOK, Event, ContentIsPaidFor
<1>4. ASSUME NEW w \in Workers, ClaimBatch(w)
      PROVE  content'[u] + Cardinality(Pending(u)') <= event'[u].attempts
  <2>1. PICK B \in Batches(Eligible) :
           /\ event' = [v \in Updates |->
                          IF v \in B THEN Claimed(event[v], w) ELSE event[v]]
           /\ todo' = [todo EXCEPT ![w] = B]
    BY <1>4 DEF ClaimBatch
  <2>2. /\ content' = content /\ cur' = cur /\ pc[w] = "poll"
        /\ pc' = [pc EXCEPT ![w] = "next"]
    BY <1>4 DEF ClaimBatch
  <2>3. todo[w] = {} /\ cur[w] = None
    BY <2>2 DEF WorkerInv
  <2>4. CASE u \in B
    <3>1. Pending(u)' = Pending(u) \cup {w} /\ w \notin Pending(u)
      BY <2>1, <2>2, <2>3, <2>4 DEF Pending, TypeOK
    <3>2. Cardinality(Pending(u)') = Cardinality(Pending(u)) + 1
      BY <1>3, <3>1, FS_AddElement
    <3>3. event[u] \in Event /\ event'[u] = Claimed(event[u], w)
      BY <2>1, <2>4 DEF TypeOK
    <3>4. event'[u].attempts = event[u].attempts + 1
      BY <3>3, ClaimedRow
    <3> QED
      BY <1>3, <2>2, <3>2, <3>4
  <2>5. CASE u \notin B
    <3>1. Pending(u)' \subseteq Pending(u)
      BY <2>1, <2>2, <2>3, <2>5 DEF Pending, TypeOK
    <3> QED
      BY <1>2, <2>2, <3>1
  <2> QED
    BY <2>4, <2>5
<1>5. ASSUME NEW w \in Workers, CreateContent(w)
      PROVE  content'[u] + Cardinality(Pending(u)') <= event'[u].attempts
  <2>1. /\ event' = event /\ todo' = todo /\ cur' = cur
        /\ pc[w] = "create" /\ pc' = [pc EXCEPT ![w] = "succeed"]
        /\ content' = [content EXCEPT ![cur[w]] = @ + 1]
    BY <1>5 DEF CreateContent, Goto
  <2>2. CASE cur[w] = u
    <3>1. u \notin todo[w]
      BY <2>2 DEF WorkerInv
    <3>2. w \in Pending(u) /\ Pending(u)' = Pending(u) \ {w}
      BY <2>1, <2>2, <3>1 DEF Pending, TypeOK
    <3>3. Cardinality(Pending(u)') = Cardinality(Pending(u)) - 1
      BY <1>3, <3>2, FS_RemoveElement, ZenonT(60)
    <3>4. content'[u] = content[u] + 1
      BY <2>1, <2>2 DEF TypeOK
    <3> QED
      BY <1>3, <2>1, <3>3, <3>4
  <2>3. CASE cur[w] # u
    <3>1. content'[u] = content[u] /\ Pending(u)' \subseteq Pending(u)
      BY <2>1, <2>3 DEF Pending, TypeOK
    <3> QED
      BY <1>2, <3>1
  <2> QED
    BY <2>2, <2>3
<1>6. ASSUME NEW w \in Workers, TakeUp(w)
      PROVE  content' = content /\ Pending(u)' \subseteq Pending(u)
  <2>1. PICK v \in todo[w] :
           /\ todo' = [todo EXCEPT ![w] = @ \ {v}]
           /\ cur' = [cur EXCEPT ![w] = v]
           /\ pc' = [pc EXCEPT ![w] = IF v \in processed THEN "complete" ELSE "handle"]
           /\ content' = content
    BY <1>6 DEF TakeUp, Goto, tables
  <2> QED
    BY <2>1 DEF Pending, TypeOK
<1>7. ASSUME NEW w \in Workers, Handle(w) \/ Raise(w), ~TakeUp(w), ~CreateContent(w)
      PROVE  content' = content /\ Pending(u)' \subseteq Pending(u)
  <2>1. /\ content' = content /\ todo' = todo
        /\ \A v \in Workers : v # w => cur'[v] = cur[v] /\ pc'[v] = pc[v]
        /\ \/ cur'[w] = None
           \/ /\ cur'[w] = cur[w]
              /\ pc'[w] \in {"handle", "create"} => pc[w] \in {"handle", "create"}
    BY <1>7 DEF TypeOK, Handle, Raise, BatchDone, NothingToMake, FindDuplicate,
       FindProcessed, InsertProcessed, CompleteRead, CompleteWrite, FailRead,
       FailWrite, Goto, tables
  <2> QED
    BY <2>1 DEF Pending
<1>8. ASSUME NEW w \in Workers, Crash(w)
      PROVE  content' = content /\ Pending(u)' \subseteq Pending(u)
  BY <1>8 DEF Crash, Pending, TypeOK
<1>9. CASE \E v \in Updates : Enqueue(v) \/ ExpireLease(v) \/ BackoffElapses(v)
  <2>1. content' = content /\ Pending(u)' = Pending(u)
    BY <1>9 DEF Enqueue, ExpireLease, BackoffElapses, workers, Pending
  <2> QED
    BY <1>2, <2>1
<1>10. CASE UNCHANGED vars
  <2>1. content' = content /\ Pending(u)' = Pending(u)
    BY <1>10 DEF vars, tables, workers, Pending
  <2> QED
    BY <1>2, <2>1
<1>11. CASE \E w \in Workers : ClaimBatch(w) \/ Handle(w) \/ Raise(w) \/ Crash(w)
  BY <1>2, <1>4, <1>5, <1>6, <1>7, <1>8, <1>11
<1> QED
  BY <1>9, <1>10, <1>11 DEF Next

(* Before anything is stored the invariant holds. *)
LEMMA QueueInit ==
  ASSUME QueueAssumption, Init
  PROVE  QueueInv
<1>1. 0 \in Nat /\ MaxAttempts \in Nat /\ 0 <= MaxAttempts
  BY DEF QueueAssumption
<1>2. TypeOK
  <2>1. NoEvent \in Event
    BY DEF NoEvent, Event
  <2>2. event \in [Updates -> Event] /\ \A u \in Updates : event[u].attempts = 0
    BY <2>1 DEF Init, NoEvent
  <2> QED
    BY <1>1, <2>2 DEF Init, TypeOK, Labels
<1>3. CompletedIsProcessed /\ FailedIsExhausted /\ \A u \in Updates : RowInv(u)
  BY DEF Init, NoEvent, CompletedIsProcessed, FailedIsExhausted, RowInv
<1>4. ContentIsPaidFor
  <2> SUFFICES ASSUME NEW u \in Updates
               PROVE  content[u] + Cardinality(Pending(u)) <= event[u].attempts
    BY DEF ContentIsPaidFor
  <2>1. Pending(u) = {}
    BY DEF Init, Pending
  <2>2. content[u] = 0 /\ event[u].attempts = 0
    BY DEF Init, NoEvent
  <2> QED
    BY <2>1, <2>2, FS_EmptySet
<1>5. \A w \in Workers : WorkerInv(w)
  BY DEF Init, WorkerInv
<1> QED
  BY <1>2, <1>3, <1>4, <1>5 DEF QueueInv

(* The invariant holds in every reachable state, for any number of updates,
   workers and attempts and any batch size.                                 *)
THEOREM QueueInductive == Spec => []QueueInv
<1>1. Init => QueueInv
  BY QueueAssumption, QueueInit
<1>2. QueueInv /\ [Next]_vars => QueueInv'
  <2> SUFFICES ASSUME QueueInv, [Next]_vars PROVE QueueInv'
    OBVIOUS
  <2> QED
    BY QueueAssumption, TypePreserved, RowsPreserved, WorkersPreserved,
       PaidForPreserved DEF QueueInv
<1> QED
  BY <1>1, <1>2, PTL DEF Spec

(* Every variable keeps its type and the attempt counter its limit. *)
THEOREM QueueTypeCorrect == Spec => []TypeOK
<1>1. QueueInv => TypeOK
  BY DEF QueueInv
<1> QED
  BY <1>1, QueueInductive, PTL

(* A row is completed only of an update that was handled to the end. *)
THEOREM CompletedMeansProcessed == Spec => []CompletedIsProcessed
<1>1. QueueInv => CompletedIsProcessed
  BY DEF QueueInv
<1> QED
  BY <1>1, QueueInductive, PTL

(* An update is given up only after MAX_ATTEMPTS claims. *)
THEOREM FailedMeansExhausted == Spec => []FailedIsExhausted
<1>1. QueueInv => FailedIsExhausted
  BY DEF QueueInv
<1> QED
  BY <1>1, QueueInductive, PTL

(* One message never becomes more content items than it was claimed times. *)
THEOREM DuplicatesBounded == Spec => []ContentIsPaidFor
<1>1. QueueInv => ContentIsPaidFor
  BY DEF QueueInv
<1> QED
  BY <1>1, QueueInductive, PTL

(* With a single worker process, which may die and be started again at any
   point, a message becomes at most one content item: between the search for a
   duplicate and the insertion nobody else can insert.                      *)
THEOREM OneContentOneWorker ==
  ASSUME NEW w, Workers = {w}
  PROVE  Spec => []OneContent
<1> DEFINE Searched == pc[w] = "create" => content[cur[w]] = 0
<1>1. Init => OneContent /\ Searched
  BY DEF Init, OneContent
<1>2. QueueInv /\ OneContent /\ Searched /\ [Next]_vars => (OneContent /\ Searched)'
  <2> SUFFICES ASSUME QueueInv, OneContent, Searched, [Next]_vars
               PROVE  OneContent' /\ Searched'
    OBVIOUS
  <2> TypeOK /\ WorkerInv(w)
    BY DEF QueueInv
  <2>1. CASE FindDuplicate(w)
    <3>1. cur[w] \in Updates
      BY <2>1 DEF FindDuplicate, WorkerInv, TypeOK
    <3>2. content[cur[w]] \in Nat
      BY <3>1 DEF TypeOK
    <3> QED
      BY <2>1, <3>2 DEF FindDuplicate, Goto, OneContent, TypeOK, tables
  <2>2. CASE CreateContent(w)
    <3>1. content[cur[w]] = 0 /\ pc'[w] # "create"
      BY <2>2 DEF CreateContent, Goto, TypeOK
    <3> QED
      BY <2>2, <3>1 DEF CreateContent, OneContent, TypeOK
  <2>3. CASE \/ ClaimBatch(w) \/ Raise(w) \/ Crash(w) \/ TakeUp(w) \/ BatchDone(w)
             \/ NothingToMake(w) \/ FindProcessed(w) \/ InsertProcessed(w)
             \/ CompleteRead(w) \/ CompleteWrite(w) \/ FailRead(w) \/ FailWrite(w)
    <3>1. content' = content /\ pc'[w] # "create"
      BY <2>3 DEF ClaimBatch, Raise, Crash, TakeUp, BatchDone, NothingToMake,
         FindProcessed, InsertProcessed, CompleteRead, CompleteWrite, FailRead,
         FailWrite, Goto, TypeOK, tables
    <3> QED
      BY <3>1 DEF OneContent
  <2>4. CASE \E u \in Updates : Enqueue(u) \/ ExpireLease(u) \/ BackoffElapses(u)
    BY <2>4 DEF Enqueue, ExpireLease, BackoffElapses, workers, OneContent
  <2>5. CASE UNCHANGED vars
    BY <2>5 DEF vars, tables, workers, OneContent
  <2> QED
    BY <2>1, <2>2, <2>3, <2>4, <2>5 DEF Next, Handle
<1> QED
  BY <1>1, <1>2, QueueInductive, PTL DEF Spec

(* What makes a finished row final under a single worker w: a row that names w
   is being processed, a finished row names nobody and has no lease, and w
   still processes the row it is about to write.                            *)
Settled(w) ==
  /\ \A u \in Updates :
       /\ event[u].lease_owner = w => event[u].status = "processing"
       /\ event[u].status \in Finished =>
            event[u].lease_owner = None /\ event[u].lease = "null"
  /\ pc[w] \in {"completing", "fail_write"} => event[cur[w]].status = "processing"

(* How a step under a single worker may change a row. *)
LEMMA RowsUnderOneWorker ==
  ASSUME QueueAssumption, QueueInv, [Next]_vars, NEW w, Workers = {w}, Settled(w),
         NEW u \in Updates
  PROVE  \/ event'[u] = event[u]
         \/ /\ event[u].status \notin Finished
            /\ \/ event'[u].status = "processing"
               \/ /\ event'[u].status = event[u].status
                  /\ event'[u].lease_owner \in {event[u].lease_owner, Gone}
               \/ event'[u].lease_owner = None /\ event'[u].lease = "null"
<1> /\ TypeOK /\ event[u] \in Event /\ WorkerInv(w)
    /\ Gone # w /\ None # w /\ Gone # None /\ None \notin Updates
  BY DEF QueueInv, TypeOK, QueueAssumption
<1>1. CASE ClaimBatch(w)
  <2>1. PICK B \in Batches(Eligible) :
           event' = [v \in Updates |-> IF v \in B THEN Claimed(event[v], w) ELSE event[v]]
    BY <1>1 DEF ClaimBatch
  <2>2. CASE u \in B
    <3>1. event'[u] = Claimed(event[u], w) /\ event[u].status \notin Finished
      BY <2>1, <2>2, EligibleRows DEF Finished
    <3> QED
      BY <3>1 DEF Claimed, Event
  <2> QED
    BY <2>1, <2>2
<1>2. CASE CompleteWrite(w) \/ FailWrite(w)
  <2>1. pc[w] \in {"completing", "fail_write"} /\ (u # cur[w] => event'[u] = event[u])
    BY <1>2 DEF CompleteWrite, FailWrite, TypeOK
  <2>2. CASE u = cur[w]
    <3>1. event[u].status \notin Finished
      BY <2>1, <2>2 DEF Settled, Finished
    <3>2. \/ event'[u] = Released(event[u], "completed")
          \/ event'[u] = [Released(event[u], StatusAfterFailure(seen[w])) EXCEPT
                            !.available = FALSE]
      BY <1>2, <2>2 DEF CompleteWrite, FailWrite, TypeOK
    <3>3. ASSUME NEW s
          PROVE  /\ Released(event[u], s).lease_owner = None
                 /\ Released(event[u], s).lease = "null"
                 /\ [Released(event[u], s) EXCEPT !.available = FALSE].lease_owner = None
                 /\ [Released(event[u], s) EXCEPT !.available = FALSE].lease = "null"
      BY DEF Released, Event
    <3>4. event'[u].lease_owner = None /\ event'[u].lease = "null"
      BY <3>2, <3>3
    <3> QED
      BY <3>1, <3>4
  <2> QED
    BY <2>1, <2>2
<1>3. CASE Crash(w)
  <2>1. event'[u] = IF event[u].lease_owner = w
                    THEN [event[u] EXCEPT !.lease_owner = Gone] ELSE event[u]
    BY <1>3 DEF Crash
  <2>2. event[u].lease_owner = w => event[u].status \notin Finished
    BY DEF Settled, Finished
  <2> QED
    BY <2>1, <2>2 DEF Event
<1>4. CASE \/ Raise(w) \/ TakeUp(w) \/ BatchDone(w) \/ NothingToMake(w)
           \/ FindDuplicate(w) \/ CreateContent(w) \/ FindProcessed(w)
           \/ InsertProcessed(w) \/ CompleteRead(w) \/ FailRead(w)
  BY <1>4 DEF Raise, TakeUp, BatchDone, NothingToMake, FindDuplicate, CreateContent,
     FindProcessed, InsertProcessed, CompleteRead, FailRead, tables
<1>5. ASSUME NEW v \in Updates, Enqueue(v)
      PROVE  \/ event'[u] = event[u]
             \/ /\ event[u].status \notin Finished
                /\ event'[u].lease_owner = None /\ event'[u].lease = "null"
  <2>1. CASE u = v /\ u \notin Stored
    <3>1. event[u].status \notin Finished
      BY <2>1 DEF Stored, Finished
    <3>2. event'[u].lease_owner = None /\ event'[u].lease = "null"
      BY <1>5, <2>1 DEF Enqueue, NoEvent, TypeOK
    <3> QED
      BY <3>1, <3>2
  <2> QED
    BY <1>5, <2>1 DEF Enqueue, TypeOK
<1>6. ASSUME NEW v \in Updates, ExpireLease(v) \/ BackoffElapses(v)
      PROVE  \/ event'[u] = event[u]
             \/ /\ event[u].status \notin Finished
                /\ event'[u].status = event[u].status
                /\ event'[u].lease_owner = event[u].lease_owner
  <2>1. CASE u = v
    <3>1. event[u].status \notin Finished
      BY <1>6, <2>1 DEF ExpireLease, BackoffElapses, Settled, Finished
    <3>2. \/ event'[u] = [event[u] EXCEPT !.lease = "expired"]
          \/ event'[u] = [event[u] EXCEPT !.available = TRUE]
      BY <1>6, <2>1 DEF ExpireLease, BackoffElapses, TypeOK
    <3> QED
      BY <3>1, <3>2 DEF Event
  <2> QED
    BY <1>6, <2>1 DEF ExpireLease, BackoffElapses, TypeOK
<1>7. CASE UNCHANGED vars
  BY <1>7 DEF vars, tables
<1> QED
  BY <1>1, <1>2, <1>3, <1>4, <1>5, <1>6, <1>7 DEF Next, Handle

(* A single worker keeps what makes finished rows final. *)
LEMMA SettledPreserved ==
  ASSUME QueueAssumption, QueueInv, [Next]_vars, NEW w, Workers = {w}, Settled(w)
  PROVE  Settled(w)'
<1> /\ TypeOK /\ TypeOK' /\ WorkerInv(w) /\ WorkerInv(w)' /\ w \in Workers
    /\ Gone # w /\ None # w /\ None \notin Updates
  BY TypePreserved, WorkersPreserved DEF QueueInv, QueueAssumption
<1>1. ASSUME NEW u \in Updates
      PROVE  /\ event'[u].lease_owner = w => event'[u].status = "processing"
             /\ event'[u].status \in Finished =>
                  event'[u].lease_owner = None /\ event'[u].lease = "null"
  BY RowsUnderOneWorker DEF Settled, Finished
<1>2. ASSUME pc'[w] \in {"completing", "fail_write"}
      PROVE  event'[cur'[w]].status = "processing"
  <2>1. CASE CompleteRead(w) \/ FailRead(w)
    <3>1. /\ event' = event /\ cur'[w] = cur[w] /\ event[cur[w]].lease_owner = w
      BY <1>2, <2>1 DEF CompleteRead, FailRead, Goto, TypeOK, tables
    <3>2. cur[w] \in Updates
      BY <2>1 DEF CompleteRead, FailRead, WorkerInv, TypeOK
    <3> QED
      BY <3>1, <3>2 DEF Settled
  <2>2. CASE \/ ClaimBatch(w) \/ Raise(w) \/ Crash(w) \/ TakeUp(w) \/ BatchDone(w)
             \/ NothingToMake(w) \/ FindDuplicate(w) \/ CreateContent(w)
             \/ FindProcessed(w) \/ InsertProcessed(w)
             \/ CompleteWrite(w) \/ FailWrite(w)
    BY <1>2, <2>2 DEF ClaimBatch, Raise, Crash, TakeUp, BatchDone, NothingToMake,
       FindDuplicate, CreateContent, FindProcessed, InsertProcessed, CompleteWrite,
       FailWrite, Goto, TypeOK
  <2>3. CASE UNCHANGED workers /\ event'[cur[w]].status = event[cur[w]].status
    BY <1>2, <2>3 DEF workers, Settled
  <2>4. CASE \E v \in Updates : Enqueue(v) \/ ExpireLease(v) \/ BackoffElapses(v)
    <3>1. UNCHANGED workers /\ cur[w] \in Updates
      BY <1>2, <2>4 DEF Enqueue, ExpireLease, BackoffElapses, workers, WorkerInv, TypeOK
    <3>2. event[cur[w]].status = "processing" /\ cur[w] \in Stored
      BY <1>2, <3>1 DEF workers, Settled, Stored
    <3>3. event'[cur[w]].status = event[cur[w]].status
      BY <2>4, <3>1, <3>2 DEF Enqueue, ExpireLease, BackoffElapses, TypeOK, Event
    <3> QED
      BY <2>3, <3>1, <3>3
  <2>5. CASE UNCHANGED vars
    BY <2>3, <2>5 DEF vars, tables
  <2> QED
    BY <2>1, <2>2, <2>4, <2>5 DEF Next, Handle
<1> QED
  BY <1>1, <1>2 DEF Settled

(* With a single worker process, which may die and be started again at any
   point, a completed or failed row is never written again: the worker writes
   only a row it still processes, and nothing else takes a finished row up.  *)
THEOREM FinishedForGood ==
  ASSUME NEW w, Workers = {w}
  PROVE  Spec => FinishedIsFinal
<1>1. Init => Settled(w)
  BY QueueAssumption DEF Init, NoEvent, Settled, Finished, QueueAssumption
<1>2. QueueInv /\ Settled(w) /\ [Next]_vars => Settled(w)'
  BY QueueAssumption, SettledPreserved
<1>3. QueueInv /\ Settled(w) /\ [Next]_vars =>
        [\A u \in Updates : event[u].status \in Finished => event'[u] = event[u]]_vars
  BY QueueAssumption, RowsUnderOneWorker
<1> QED
  BY <1>1, <1>2, <1>3, QueueInductive, PTL DEF Spec, FinishedIsFinal
=============================================================================
