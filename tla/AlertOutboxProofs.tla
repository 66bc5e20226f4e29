-------------------------- MODULE AlertOutboxProofs --------------------------
(* Proofs about AlertOutbox for any number of deliveries, workers and
   operators: the types, the lease of a row that is being sent, what
   "delivered" means, and the account of duplicates.                        *)
EXTENDS AlertOutbox, FiniteSetTheorems, TLAPS

-----------------------------------------------------------------------------
(* Types *)

(* The shapes that the steps give to rows and to what is read of them. *)
LEMMA Shapes ==
  ASSUME OutboxAssumption
  PROVE  /\ NoRow \in Row
         /\ \A r \in Row : Read(r) \in Seen
         /\ Idle \in Job /\ Idle.at = "idle" /\ Idle.d = None
         /\ Rest \in Request
         /\ \A r \in Row, status \in {"delivered"} \cup Open \cup Closed :
              /\ Released(r, status) \in Row
              /\ \A seen \in Seen : Disowned(r, seen, status) \in Row
<1>1. NoRow \in Row
  BY DEF NoRow, Row, OutboxAssumption
<1>2. \A r \in Row : Read(r) \in Seen
  BY DEF Read, Row, Seen
<1>3. Read(NoRow) \in Seen
  BY <1>1, <1>2
<1>4. Idle \in Job /\ Idle.at = "idle" /\ Idle.d = None
  BY <1>3 DEF Idle, Job
<1>5. Rest \in Request
  BY <1>3 DEF Rest, Request
<1>6. ASSUME NEW r \in Row, NEW status \in {"delivered"} \cup Open \cup Closed
      PROVE  /\ Released(r, status) \in Row
             /\ [r EXCEPT !.status = status] \in Row
  BY DEF Released, Row
<1> QED
  BY <1>1, <1>2, <1>4, <1>5, <1>6 DEF Disowned

(* What the worker's outcome makes of a row. *)
LEMMA SettledShape ==
  ASSUME NEW r \in Row, NEW j,
         Outcome(j) \in {"delivered"} \cup Open \cup Closed, j.seen.attempt \in Nat
  PROVE  /\ Settled(r, j) \in Row
         /\ Settled(r, j).owner = None
         /\ Settled(r, j).status = IF Outcome(j) = j.seen.status
                                   THEN r.status ELSE Outcome(j)
<1> DEFINE status == IF Outcome(j) = j.seen.status THEN r.status ELSE Outcome(j)
           attempt == IF j.at = "defer" /\ j.seen.attempt > 0
                      THEN j.seen.attempt - 1 ELSE r.attempt
<1>0. /\ status \in {"absent", "delivered"} \cup Open \cup Closed
      /\ r.attempt \in Nat
  BY DEF Row
<1>01. attempt \in Nat
  BY <1>0
<1> HIDE DEF status, attempt
<1>1. [r EXCEPT !.status = status, !.owner = None, !.expired = FALSE] \in Row
  BY <1>0 DEF Row
<1>2. Settled(r, j) = [[r EXCEPT !.status = status, !.owner = None, !.expired = FALSE]
                        EXCEPT !.attempt = attempt]
  BY DEF Settled, Released, status, attempt
<1>3. Settled(r, j).owner = None /\ Settled(r, j).status = status
  BY <1>1, <1>2 DEF Row
<1> QED
  BY <1>01, <1>1, <1>2, <1>3 DEF Row, status

(* Every step keeps every variable's type. *)
LEMMA TypePreserved ==
  ASSUME OutboxAssumption, TypeOK, [Next]_vars
  PROVE  TypeOK'
<1> USE DEF TypeOK
<1>1. ASSUME NEW d \in Deliveries, Enqueue(d) PROVE TypeOK'
  <2>1. [row[d] EXCEPT !.status = "pending"] \in Row
    BY DEF Row, Open
  <2> QED
    BY <1>1, <2>1 DEF Enqueue, tenant, process, bounds
<1>2. ASSUME NEW d \in Deliveries, Expire(d) PROVE TypeOK'
  <2>1. row[d] \in Row
    OBVIOUS
  <2>2. [row[d] EXCEPT !.expired = TRUE] \in Row
    BY <2>1 DEF Row
  <2>3. row' \in [Deliveries -> Row]
    BY <1>2, <2>2 DEF Expire
  <2> QED
    BY <1>2, <2>3 DEF Expire, Trouble, tenant, process
<1>3. ASSUME NEW w \in Workers, NEW ds \in SUBSET Deliveries, Claim(w, ds)
      PROVE  TypeOK'
  <2>1. ASSUME NEW d \in Deliveries
        PROVE  [row[d] EXCEPT !.status = "sending", !.owner = w,
                              !.expired = FALSE, !.attempt = @ + 1] \in Row
    <3>1. row[d] \in Row
      OBVIOUS
    <3>2. row[d].attempt + 1 \in Nat
      BY <3>1 DEF Row
    <3> QED
      BY <3>1, <3>2 DEF Row, Open
  <2>2. row' \in [Deliveries -> Row]
    <3>1. row' = [d \in Deliveries |->
                    IF d \in ds
                    THEN [row[d] EXCEPT !.status = "sending", !.owner = w,
                                        !.expired = FALSE, !.attempt = @ + 1]
                    ELSE row[d]]
      BY <1>3 DEF Claim
    <3> QED
      BY <2>1, <3>1
  <2>3. doubt' \in [Deliveries -> Nat]
    <3>1. ASSUME NEW d \in Deliveries PROVE doubt'[d] \in {doubt[d], doubt[d] + 1}
      BY <1>3 DEF Claim
    <3>2. doubt' = [d \in Deliveries |-> doubt'[d]]
      BY <1>3 DEF Claim
    <3> QED
      BY <3>1, <3>2
  <2> QED
    BY <1>3, <2>2, <2>3 DEF Claim, tenant, bounds
<1>4. ASSUME NEW w \in Workers, NEW d \in Deliveries, Load(w, d) PROVE TypeOK'
  <2>1. [at |-> "loaded", d |-> d, seen |-> Read(row[d])] \in Job
    BY Shapes DEF Job
  <2>2. d # None
    BY DEF OutboxAssumption
  <2>3. job' \in [Workers -> Job]
    BY <1>4, <2>1 DEF Load
  <2>4. \A v \in Workers : job'[v].at = "idle" <=> job'[v].d = None
    BY <1>4, <2>2 DEF Load
  <2> QED
    BY <1>4, <2>3, <2>4 DEF Load, tenant, bounds
<1>5. ASSUME NEW w \in Workers, Gate(w) PROVE TypeOK'
  <2>1. ASSUME NEW at \in {"cancel", "defer", "send"}
        PROVE  [job[w] EXCEPT !.at = at] \in Job
    BY DEF Job
  <2>2. PICK at \in {"cancel", "defer", "send"} : job' = [job EXCEPT ![w].at = at]
    BY <1>5 DEF Gate
  <2>3. job[w].d # None
    BY <1>5 DEF Gate
  <2>4. job' \in [Workers -> Job]
    BY <2>1, <2>2
  <2>5. \A v \in Workers : job'[v].at = "idle" <=> job'[v].d = None
    BY <2>2, <2>3
  <2> QED
    BY <1>5, <2>4, <2>5 DEF Gate, tenant, bounds
<1>6. ASSUME NEW w \in Workers, NEW answer \in Answers, Send(w, answer)
      PROVE  TypeOK'
  <2>1. [job[w] EXCEPT !.at = answer] \in Job
    BY DEF Job
  <2>2. job[w].d # None /\ job[w].d \in Deliveries /\ answer # "idle"
    BY <1>6 DEF Send, Job, OutboxAssumption
  <2>3. job' \in [Workers -> Job]
    BY <1>6, <2>1 DEF Send
  <2>4. \A v \in Workers : job'[v].at = "idle" <=> job'[v].d = None
    BY <1>6, <2>2 DEF Send
  <2>5. shown' \in [Deliveries -> Nat] /\ doubt' \in [Deliveries -> Nat]
    BY <1>6, <2>2 DEF Send
  <2> QED
    BY <1>6, <2>3, <2>4, <2>5 DEF Send, tenant, bounds
<1>7. ASSUME NEW w \in Workers, Settle(w) PROVE TypeOK'
  <2>1. job[w] \in Job /\ job[w].at # "idle"
    BY <1>7 DEF Settle, OutboxAssumption
  <2>2. job[w].d \in Deliveries
    BY <2>1 DEF Job
  <2>3. Outcome(job[w]) \in {"delivered"} \cup Open \cup Closed
    BY DEF Outcome, Open, Closed
  <2>4. job[w].seen \in Seen
    BY <2>1 DEF Job
  <2>5. job[w].seen.attempt \in Nat
    BY <2>4 DEF Seen
  <2>6. ASSUME NEW r \in Row PROVE Settled(r, job[w]) \in Row
    BY <2>3, <2>5, SettledShape
  <2>7. row' \in [Deliveries -> Row]
    BY <1>7, <2>2, <2>6 DEF Settle
  <2>8. job' = [job EXCEPT ![w] = Idle]
    BY <1>7 DEF Settle
  <2>9. job' \in [Workers -> Job]
        /\ \A v \in Workers : job'[v].at = "idle" <=> job'[v].d = None
    BY <2>8, Shapes
  <2> QED
    BY <1>7, <2>7, <2>9 DEF Settle, tenant, bounds
<1>8. ASSUME NEW w \in Workers, Raise(w) \/ Crash(w) PROVE TypeOK'
  <2>1. job' = [job EXCEPT ![w] = Idle]
    BY <1>8 DEF Raise, Crash
  <2>2. job' \in [Workers -> Job]
        /\ \A v \in Workers : job'[v].at = "idle" <=> job'[v].d = None
    BY <2>1, Shapes
  <2>3. doubt' \in [Deliveries -> Nat]
    BY <1>8 DEF Raise, Crash, Forgotten
  <2>4. troubles' \in Nat
    BY <1>8 DEF Raise, Crash, Trouble
  <2>5. batch' \in [Workers -> SUBSET Deliveries]
    BY <1>8 DEF Raise, Crash
  <2> QED
    BY <1>8, <2>2, <2>3, <2>4, <2>5 DEF Raise, Crash, tenant
<1>9. ASSUME NEW o \in Operators, NEW act \in {"cancel", "retry"},
             NEW d \in Deliveries, Ask(o, act, d)
      PROVE  TypeOK'
  <2>1. [act |-> act, d |-> d, seen |-> Read(row[d])] \in Request
    BY Shapes DEF Request
  <2> QED
    BY <1>9, <2>1 DEF Ask, tenant, process
<1>10. ASSUME NEW o \in Operators, Cancel(o) \/ Retry(o) PROVE TypeOK'
  <2>1. request[o] \in Request
    OBVIOUS
  <2>2. request[o].seen \in Seen
    BY <2>1 DEF Request
  <2>3. doubt' \in [Deliveries -> Nat]
    BY <1>10 DEF Cancel, Retry, Hidden
  <2>4. request' \in [Operators -> Request]
    BY <1>10, Shapes DEF Cancel, Retry
  <2>5. ASSUME NEW r \in Row
        PROVE  /\ Disowned(r, request[o].seen, "cancelled") \in Row
               /\ Disowned(r, request[o].seen, "pending") \in Row
    BY <2>2, Shapes DEF Open, Closed
  <2>6. CASE Cancel(o)
    <3>1. row' \in [Deliveries -> Row]
      BY <2>5, <2>6 DEF Cancel
    <3> QED
      BY <2>3, <2>4, <2>6, <3>1 DEF Cancel, tenant, process, bounds
  <2>7. CASE Retry(o)
    <3>1. ASSUME NEW r \in Row PROVE Reopened(r, request[o].seen) \in Row
      <4>1. request[o].seen.attempt + 1 \in Nat /\ r.max \in Nat
        BY <2>2 DEF Seen, Row
      <4> QED
        BY <2>5, <4>1, ZenonT(60) DEF Row, Reopened
    <3>2. row' = [row EXCEPT ![request[o].d] = Reopened(@, request[o].seen)]
      BY <2>7 DEF Retry
    <3>3. row' \in [Deliveries -> Row]
      BY <3>1, <3>2
    <3> QED
      BY <2>3, <2>4, <2>7, <3>3 DEF Retry, tenant, process, bounds
  <2> QED
    BY <1>10, <2>6, <2>7
<1>11. CASE SetAllowed \/ QuietBegins \/ QuietEnds
  <2>1. troubles' \in Nat
    BY <1>11 DEF SetAllowed, QuietBegins, QuietEnds, Trouble, bounds
  <2>3. allowed' \in BOOLEAN /\ quiet' \in BOOLEAN
    BY <1>11, Zenon DEF SetAllowed, QuietBegins, QuietEnds
  <2>2. UNCHANGED <<row, batch, job, request, shown, doubt, requests>>
    BY <1>11 DEF SetAllowed, QuietBegins, QuietEnds, process, bounds
  <2> QED
    BY <2>1, <2>2, <2>3
<1>12. CASE UNCHANGED vars
  BY <1>12 DEF vars, tenant, process, bounds
<1> QED
  BY <1>1, <1>2, <1>3, <1>4, <1>5, <1>6, <1>7, <1>8, <1>9, <1>10, <1>11, <1>12, ZenonT(60)
     DEF Next, Work, Operate

LEMMA InitialTypes ==
  ASSUME Init
  PROVE  TypeOK
<1>1. \A w \in Workers : job[w] = Idle
  BY DEF Init
<1>2. \A w \in Workers : job[w].at = "idle" <=> job[w].d = None
  BY <1>1, Shapes, OutboxAssumption
<1> QED
  BY <1>2, OutboxAssumption, Shapes DEF Init, TypeOK

(* Every variable keeps its type. *)
THEOREM TypeCorrect == Spec => []TypeOK
<1>1. Init => TypeOK
  BY InitialTypes
<1>2. TypeOK /\ [Next]_vars => TypeOK'
  BY OutboxAssumption, TypePreserved
<1> QED
  BY <1>1, <1>2, PTL DEF Spec

-----------------------------------------------------------------------------
(* Rows and workers *)

(* A worker that is at a row has taken it out of its batch. *)
OffTheBatch == \A w \in Workers : job[w].d \notin batch[w]

(* A delivered row has no owner. *)
DeliveredIsFree ==
  \A d \in Deliveries : row[d].status = "delivered" => row[d].owner = None

(* A worker that has Telegram's answer has had the message shown. *)
AnsweredIsShown ==
  \A w \in Workers : job[w].at = "ok" => shown[job[w].d] > 0

(* What a worker has read of the row it is at was not delivered. *)
SeenUndelivered ==
  \A w \in Workers : job[w].d # None => job[w].seen.status # "delivered"

(* Without a request a row has an owner exactly when it is being sent, and
   that is how every worker has read it.                                    *)
Undisturbed ==
  requests = 0 =>
    /\ \A o \in Operators : request[o] = Rest
    /\ \A d \in Deliveries : row[d].status = "sending" <=> row[d].owner # None
    /\ \A w \in Workers : job[w].d # None => job[w].seen.status = "sending"

RowInv ==
  /\ TypeOK
  /\ SeenUndelivered
  /\ OffTheBatch
  /\ DeliveredIsFree
  /\ AnsweredIsShown
  /\ DeliveredIsShown

(* What a step may do to a row without breaking what is said of rows. *)
RowStep(r, s, n) ==
  \/ s = r
  \/ s.status = "sending"
  \/ s.status = r.status /\ s.owner \in {r.owner, None}
  \/ s.status \notin {"sending", "delivered"}
  \/ s.status = "delivered" /\ s.owner = None /\ n > 0

(* Rows stay free and shown when every row takes such a step and no
   message is taken back.                                                   *)
LEMMA RowsStay ==
  ASSUME TypeOK, TypeOK', DeliveredIsFree, DeliveredIsShown,
         \A d \in Deliveries : RowStep(row[d], row'[d], shown'[d]),
         \A d \in Deliveries : shown'[d] >= shown[d]
  PROVE  DeliveredIsFree' /\ DeliveredIsShown'
<1>1. \A d \in Deliveries : shown[d] \in Nat /\ shown'[d] \in Nat
  BY DEF TypeOK
<1> QED
  BY <1>1 DEF DeliveredIsFree, DeliveredIsShown, RowStep

(* Workers stay where they belong when no batch grows, no worker comes to a
   row and no worker gets an answer.                                        *)
LEMMA WorkersStay ==
  ASSUME OutboxAssumption, TypeOK, TypeOK', OffTheBatch, AnsweredIsShown,
         SeenUndelivered,
         \A w \in Workers : batch'[w] \subseteq batch[w],
         \A w \in Workers : \/ job'[w].d = job[w].d /\ job'[w].seen = job[w].seen
                            \/ job'[w] = Idle,
         \A w \in Workers : job'[w].at = "ok" => job[w].at = "ok",
         \A d \in Deliveries : shown'[d] >= shown[d]
  PROVE  OffTheBatch' /\ AnsweredIsShown' /\ SeenUndelivered'
<1>1. \A d \in Deliveries : shown[d] \in Nat /\ shown'[d] \in Nat
  BY DEF TypeOK
<1>2. \A w \in Workers : None \notin batch'[w]
  BY DEF TypeOK, OutboxAssumption
<1>3. OffTheBatch'
  BY <1>2, Shapes DEF OffTheBatch
<1>4. ASSUME NEW w \in Workers, job'[w].at = "ok" PROVE shown'[job'[w].d] > 0
  <2>1. job[w].at = "ok" /\ job'[w].d = job[w].d
    BY <1>4, Shapes
  <2>2. job[w] \in Job /\ job[w].d # None
    BY <2>1 DEF TypeOK
  <2>3. job[w].d \in Deliveries
    BY <2>2 DEF Job
  <2>4. shown[job[w].d] > 0
    BY <2>1 DEF AnsweredIsShown
  <2> QED
    BY <1>1, <2>1, <2>3, <2>4
<1>5. SeenUndelivered'
  BY Shapes DEF SeenUndelivered
<1> QED
  BY <1>3, <1>4, <1>5 DEF AnsweredIsShown

LEMMA RowPreserved ==
  ASSUME OutboxAssumption, RowInv, [Next]_vars
  PROVE  RowInv'
<1> USE DEF RowInv
<1> TypeOK'
  BY TypePreserved
<1>0. \A d \in Deliveries : shown[d] \in Nat
  BY DEF TypeOK
<1>1. ASSUME NEW d \in Deliveries, Enqueue(d) \/ Expire(d) PROVE RowInv'
  <2>1. ASSUME NEW e \in Deliveries PROVE RowStep(row[e], row'[e], shown'[e])
    <3>1. row[e] \in Row
      BY DEF TypeOK
    <3>2. CASE e # d
      BY <1>1, <3>2 DEF Enqueue, Expire, RowStep, TypeOK
    <3>3. CASE e = d /\ Enqueue(d)
      <4>1. row'[e].status = "pending"
        BY <3>1, <3>3 DEF Enqueue, TypeOK, Row
      <4> QED
        BY <4>1 DEF RowStep
    <3>4. CASE e = d /\ Expire(d)
      <4>1. row'[e].status = row[e].status /\ row'[e].owner = row[e].owner
        BY <3>1, <3>4 DEF Expire, TypeOK, Row
      <4> QED
        BY <4>1 DEF RowStep
    <3> QED BY <1>1, <3>2, <3>3, <3>4
  <2>2. UNCHANGED <<batch, job, shown>>
    BY <1>1 DEF Enqueue, Expire, process
  <2> QED
    BY <1>0, <2>1, <2>2, RowsStay, WorkersStay
<1>2. ASSUME NEW w \in Workers, NEW ds \in SUBSET Deliveries, Claim(w, ds)
      PROVE  RowInv'
  <2>1. ASSUME NEW d \in Deliveries PROVE RowStep(row[d], row'[d], shown'[d])
    <3>1. CASE d \in ds
      <4>1. row[d] \in Row /\ w # None
        BY DEF TypeOK, OutboxAssumption
      <4>2. row'[d].status = "sending" /\ row'[d].owner = w
        BY <1>2, <3>1, <4>1 DEF Claim, Row
      <4> QED
        BY <4>1, <4>2 DEF RowStep
    <3>2. CASE d \notin ds
      BY <1>2, <3>2 DEF Claim, RowStep
    <3> QED BY <3>1, <3>2
  <2>2. UNCHANGED <<job, shown>>
    BY <1>2 DEF Claim
  <2>3. DeliveredIsFree' /\ DeliveredIsShown'
    BY <1>0, <2>1, <2>2, RowsStay
  <2>4. OffTheBatch'
    <3>1. job[w].d = None /\ None \notin ds
      BY <1>2, Shapes DEF Claim, OutboxAssumption
    <3>2. batch' = [batch EXCEPT ![w] = ds]
      BY <1>2 DEF Claim
    <3> QED
      BY <2>2, <3>1, <3>2 DEF OffTheBatch, TypeOK
  <2>5. AnsweredIsShown' /\ SeenUndelivered'
    BY <2>2 DEF AnsweredIsShown, SeenUndelivered
  <2> QED
    BY <2>3, <2>4, <2>5
<1>3. ASSUME NEW w \in Workers, NEW d \in Deliveries, Load(w, d) PROVE RowInv'
  <2>1. UNCHANGED <<row, shown>>
    BY <1>3 DEF Load
  <2>2. DeliveredIsFree' /\ DeliveredIsShown'
    BY <2>1 DEF DeliveredIsFree, DeliveredIsShown
  <2>3. batch' = [batch EXCEPT ![w] = @ \ {d}]
    BY <1>3 DEF Load
  <2>4. \/ job' = job
        \/ job' = [job EXCEPT ![w] = [at |-> "loaded", d |-> d, seen |-> Read(row[d])]]
    BY <1>3 DEF Load
  <2>5. OffTheBatch'
    BY <2>3, <2>4 DEF OffTheBatch, TypeOK
  <2>6. AnsweredIsShown'
    BY <2>1, <2>4 DEF AnsweredIsShown, TypeOK
  <2>7. SeenUndelivered'
    <3>1. CASE row[d].owner = w
      <4>1. row[d].status # "delivered"
        BY <3>1 DEF DeliveredIsFree, OutboxAssumption
      <4>2. job' = [job EXCEPT ![w] = [at |-> "loaded", d |-> d, seen |-> Read(row[d])]]
        BY <1>3, <3>1 DEF Load
      <4> QED
        BY <4>1, <4>2 DEF SeenUndelivered, Read, TypeOK
    <3>2. CASE row[d].owner # w
      BY <1>3, <3>2 DEF Load, SeenUndelivered
    <3> QED BY <3>1, <3>2
  <2> QED
    BY <2>2, <2>5, <2>6, <2>7
<1>4. ASSUME NEW w \in Workers, Gate(w) PROVE RowInv'
  <2>1. UNCHANGED <<row, batch, shown>>
    BY <1>4 DEF Gate
  <2>2. PICK at \in {"cancel", "defer", "send"} : job' = [job EXCEPT ![w].at = at]
    BY <1>4 DEF Gate
  <2>3. \A v \in Workers : /\ job'[v].d = job[v].d /\ job'[v].seen = job[v].seen
                           /\ job'[v].at = "ok" => job[v].at = "ok"
    BY <2>2 DEF TypeOK, Job
  <2> QED
    BY <1>0, <2>1, <2>3, RowsStay, WorkersStay DEF RowStep
<1>5. ASSUME NEW w \in Workers, NEW answer \in Answers, Send(w, answer)
      PROVE  RowInv'
  <2>1. UNCHANGED <<row, batch>> /\ job' = [job EXCEPT ![w].at = answer]
    BY <1>5 DEF Send
  <2>2. job[w] \in Job /\ job[w].d \in Deliveries
    BY <1>5 DEF Send, TypeOK, Job
  <2>3. \A d \in Deliveries :
          shown'[d] \in Nat /\ shown'[d] >= shown[d]
    BY <1>0, <1>5, <2>2 DEF Send, TypeOK
  <2>4. DeliveredIsFree' /\ DeliveredIsShown'
    BY <2>1, <2>3, RowsStay DEF RowStep
  <2>5. \A v \in Workers : job'[v].d = job[v].d /\ job'[v].seen = job[v].seen
    BY <2>1 DEF TypeOK, Job
  <2>6. OffTheBatch' /\ SeenUndelivered'
    BY <2>1, <2>5 DEF OffTheBatch, SeenUndelivered
  <2>7. ASSUME NEW v \in Workers, job'[v].at = "ok" PROVE shown'[job'[v].d] > 0
    <3>1. CASE v = w
      <4>1. answer = "ok"
        BY <2>1, <2>7, <3>1 DEF TypeOK, Job
      <4>2. shown'[job[w].d] = shown[job[w].d] + 1
        BY <1>5, <2>2, <4>1 DEF Send, TypeOK
      <4> QED
        BY <1>0, <2>2, <2>5, <3>1, <4>2
    <3>2. CASE v # w
      <4>1. job'[v] = job[v] /\ job[v] \in Job /\ job[v].d # None
        BY <2>1, <2>7, <3>2 DEF TypeOK
      <4>2. job[v].d \in Deliveries /\ shown[job[v].d] > 0
        BY <2>7, <4>1 DEF AnsweredIsShown, Job
      <4> QED
        BY <1>0, <2>3, <4>1, <4>2
    <3> QED BY <3>1, <3>2
  <2> QED
    BY <2>4, <2>6, <2>7 DEF AnsweredIsShown
<1>6. ASSUME NEW w \in Workers, Settle(w) PROVE RowInv'
  <2>1. job[w] \in Job /\ job[w].d # None
    BY <1>6 DEF Settle, TypeOK, OutboxAssumption
  <2>2. job[w].d \in Deliveries
    BY <2>1 DEF Job
  <2>3. UNCHANGED <<batch, shown>> /\ job' = [job EXCEPT ![w] = Idle]
    BY <1>6 DEF Settle
  <2>4. ASSUME NEW d \in Deliveries PROVE RowStep(row[d], row'[d], shown'[d])
    <3>1. CASE d # job[w].d
      BY <1>6, <3>1 DEF Settle, RowStep, TypeOK
    <3>2. CASE d = job[w].d
      <4>1. row'[d] = Settled(row[d], job[w]) /\ row[d] \in Row
        BY <1>6, <3>2 DEF Settle, TypeOK
      <4>2. Outcome(job[w]) \in {"delivered"} \cup Open \cup Closed
            /\ Outcome(job[w]) # "sending"
            /\ (Outcome(job[w]) = "delivered" => job[w].at = "ok")
        BY DEF Outcome, Open, Closed
      <4>3. job[w].seen.attempt \in Nat
        BY <2>1 DEF Job, Seen
      <4>4. /\ row'[d].owner = None
            /\ row'[d].status \in {row[d].status, Outcome(job[w])}
        BY <4>1, <4>2, <4>3, SettledShape
      <4>5. job[w].at = "ok" => shown'[d] > 0
        BY <2>3, <3>2 DEF AnsweredIsShown
      <4> QED
        BY <4>2, <4>4, <4>5 DEF RowStep
    <3> QED BY <3>1, <3>2
  <2>5. \A v \in Workers : /\ \/ job'[v].d = job[v].d /\ job'[v].seen = job[v].seen
                              \/ job'[v] = Idle
                           /\ job'[v].at = "ok" => job[v].at = "ok"
    BY <2>3, Shapes DEF TypeOK
  <2> QED
    BY <1>0, <2>3, <2>4, <2>5, RowsStay, WorkersStay
<1>7. ASSUME NEW w \in Workers, Raise(w) \/ Crash(w) PROVE RowInv'
  <2>1. UNCHANGED <<row, shown>> /\ job' = [job EXCEPT ![w] = Idle]
    BY <1>7 DEF Raise, Crash
  <2>2. \A v \in Workers : batch'[v] \subseteq batch[v]
    BY <1>7 DEF Raise, Crash, TypeOK
  <2>3. \A v \in Workers : /\ \/ job'[v].d = job[v].d /\ job'[v].seen = job[v].seen
                              \/ job'[v] = Idle
                           /\ job'[v].at = "ok" => job[v].at = "ok"
    BY <2>1, Shapes DEF TypeOK
  <2> QED
    BY <1>0, <2>1, <2>2, <2>3, RowsStay, WorkersStay DEF RowStep
<1>8. ASSUME NEW o \in Operators, Cancel(o) \/ Retry(o) PROVE RowInv'
  <2>1. UNCHANGED <<batch, job, shown>>
    BY <1>8 DEF Cancel, Retry, process
  <2>2. ASSUME NEW d \in Deliveries PROVE RowStep(row[d], row'[d], shown'[d])
    <3>0. row[d] \in Row
      BY DEF TypeOK
    <3>1. CASE d # request[o].d
      BY <1>8, <3>1 DEF Cancel, Retry, RowStep, TypeOK
    <3>2. CASE d = request[o].d /\ Cancel(o)
      <4>1. row'[d] = Disowned(row[d], request[o].seen, "cancelled")
        BY <3>2 DEF Cancel, TypeOK
      <4>2. row'[d].status = "cancelled"
        BY <3>0, <4>1 DEF Disowned, Released, Row
      <4> QED
        BY <4>2 DEF RowStep
    <3>3. CASE d = request[o].d /\ Retry(o)
      <4>1. row'[d] = Reopened(row[d], request[o].seen)
        BY <3>3 DEF Retry, TypeOK
      <4>2. row'[d].status = "pending"
        BY <3>0, <4>1 DEF Reopened, Disowned, Released, Row
      <4> QED
        BY <4>2 DEF RowStep
    <3> QED BY <1>8, <3>1, <3>2, <3>3
  <2> QED
    BY <1>0, <2>1, <2>2, RowsStay, WorkersStay
<1>9. CASE \/ SetAllowed \/ QuietBegins \/ QuietEnds \/ UNCHANGED vars
           \/ \E o \in Operators, act \in {"cancel", "retry"}, d \in Deliveries :
                Ask(o, act, d)
  <2>1. UNCHANGED <<row, batch, job, shown>>
    BY <1>9 DEF SetAllowed, QuietBegins, QuietEnds, Ask, vars, process
  <2> QED
    BY <1>0, <2>1, RowsStay, WorkersStay DEF RowStep
<1> QED
  BY <1>1, <1>2, <1>3, <1>4, <1>5, <1>6, <1>7, <1>8, <1>9 DEF Next, Work, Operate

LEMMA RowCorrect == Spec => []RowInv
<1>1. ASSUME Init PROVE RowInv
  <2>1. TypeOK
    BY <1>1, InitialTypes
  <2>2. \A w \in Workers : job[w] = Idle /\ batch[w] = {}
    BY <1>1 DEF Init
  <2>3. \A d \in Deliveries : row[d].status = "absent"
    BY <1>1 DEF Init, NoRow
  <2> QED
    BY <2>1, <2>2, <2>3, Shapes, OutboxAssumption
       DEF RowInv, SeenUndelivered, OffTheBatch, DeliveredIsFree,
           AnsweredIsShown, DeliveredIsShown
<1>2. RowInv /\ [Next]_vars => RowInv'
  BY OutboxAssumption, RowPreserved
<1> QED
  BY <1>1, <1>2, PTL DEF Spec

(* Nothing disturbs rows before the first request. *)
LEMMA UndisturbedStays ==
  ASSUME OutboxAssumption, RowInv, Undisturbed, [Next]_vars
  PROVE  Undisturbed'
<1> USE DEF RowInv
<1>0. TypeOK' /\ requests \in Nat
  BY TypePreserved DEF TypeOK
<1>1. requests' = 0 => requests = 0
  <2>1. ASSUME NEW o \in Operators, Operate(o) PROVE requests' \in {requests, requests + 1}
    BY <2>1 DEF Operate, Ask, Cancel, Retry, bounds
  <2>2. ASSUME NEW w \in Workers, Work(w) \/ Crash(w) \/ Raise(w)
        PROVE  requests' = requests
    BY <2>2 DEF Work, Claim, Load, Gate, Send, Settle, Crash, Raise, bounds
  <2>3. ASSUME NEW d \in Deliveries, Enqueue(d) \/ Expire(d) PROVE requests' = requests
    BY <2>3 DEF Enqueue, Expire, bounds
  <2>4. CASE SetAllowed \/ QuietBegins \/ QuietEnds \/ UNCHANGED vars
    BY <2>4 DEF SetAllowed, QuietBegins, QuietEnds, bounds, vars
  <2> QED
    BY <1>0, <2>1, <2>2, <2>3, <2>4 DEF Next
<1> SUFFICES ASSUME requests = 0, requests' = 0 PROVE Undisturbed'
  BY <1>1 DEF Undisturbed
<1> DEFINE Clean(r, j) == /\ \A d \in Deliveries : r[d].status = "sending" <=> r[d].owner # None
                          /\ \A w \in Workers : j[w].d # None => j[w].seen.status = "sending"
<1>2. Clean(row, job) /\ \A o \in Operators : request[o] = Rest
  BY DEF Undisturbed
<1>3. ASSUME Clean(row', job'), request' = request PROVE Undisturbed'
  BY <1>2, <1>3 DEF Undisturbed
<1>4. ASSUME NEW d \in Deliveries, Enqueue(d) \/ Expire(d) PROVE Undisturbed'
  <2>1. \A e \in Deliveries : row[e] \in Row
    BY DEF TypeOK
  <2>2. ASSUME NEW e \in Deliveries
        PROVE  row'[e].status = "sending" <=> row'[e].owner # None
    <3>1. CASE e # d
      BY <1>2, <1>4, <3>1 DEF Enqueue, Expire, TypeOK
    <3>2. CASE e = d /\ Enqueue(d)
      BY <1>2, <2>1, <3>2 DEF Enqueue, TypeOK, Row
    <3>3. CASE e = d /\ Expire(d)
      BY <1>2, <2>1, <3>3 DEF Expire, TypeOK, Row
    <3> QED BY <1>4, <3>1, <3>2, <3>3
  <2>3. UNCHANGED <<job, request>>
    BY <1>4 DEF Enqueue, Expire, process
  <2> QED
    BY <1>2, <1>3, <2>2, <2>3
<1>5. ASSUME NEW w \in Workers, NEW ds \in SUBSET Deliveries, Claim(w, ds)
      PROVE  Undisturbed'
  <2>1. ASSUME NEW e \in Deliveries
        PROVE  row'[e].status = "sending" <=> row'[e].owner # None
    <3>1. row[e] \in Row /\ w # None
      BY DEF TypeOK, OutboxAssumption
    <3>2. CASE e \in ds
      BY <1>5, <3>1, <3>2 DEF Claim, Row
    <3>3. CASE e \notin ds
      BY <1>2, <1>5, <3>3 DEF Claim
    <3> QED BY <3>2, <3>3
  <2>2. UNCHANGED <<job, request>>
    BY <1>5 DEF Claim
  <2> QED
    BY <1>2, <1>3, <2>1, <2>2
<1>6. ASSUME NEW w \in Workers, NEW d \in Deliveries, Load(w, d) PROVE Undisturbed'
  <2>1. UNCHANGED <<row, request>>
    BY <1>6 DEF Load
  <2>2. ASSUME NEW v \in Workers, job'[v].d # None PROVE job'[v].seen.status = "sending"
    <3>1. CASE row[d].owner = w
      <4>1. job' = [job EXCEPT ![w] = [at |-> "loaded", d |-> d, seen |-> Read(row[d])]]
        BY <1>6, <3>1 DEF Load
      <4>2. row[d].status = "sending"
        BY <1>2, <3>1 DEF OutboxAssumption
      <4> QED
        BY <1>2, <2>2, <4>1, <4>2 DEF Read, TypeOK
    <3>2. CASE row[d].owner # w
      BY <1>2, <1>6, <2>2, <3>2 DEF Load
    <3> QED BY <3>1, <3>2
  <2> QED
    BY <1>2, <1>3, <2>1, <2>2
<1>7. ASSUME NEW w \in Workers, NEW at,
             UNCHANGED <<row, request>>, job' = [job EXCEPT ![w].at = at]
      PROVE  Undisturbed'
  <2>1. \A v \in Workers : job'[v].d = job[v].d /\ job'[v].seen = job[v].seen
    BY <1>7 DEF TypeOK, Job
  <2> QED
    BY <1>2, <1>3, <1>7, <2>1
<1>8. ASSUME NEW w \in Workers, Gate(w) PROVE Undisturbed'
  <2>1. PICK at : job' = [job EXCEPT ![w].at = at]
    BY <1>8 DEF Gate
  <2> QED
    BY <1>7, <1>8, <2>1 DEF Gate
<1>9. ASSUME NEW w \in Workers, NEW answer \in Answers, Send(w, answer)
      PROVE  Undisturbed'
  BY <1>7, <1>9 DEF Send
<1>10. ASSUME NEW w \in Workers, Settle(w) PROVE Undisturbed'
  <2>1. job[w] \in Job /\ job[w].d # None
    BY <1>10 DEF Settle, TypeOK, OutboxAssumption
  <2>2. job[w].seen.attempt \in Nat /\ job[w].seen.status = "sending"
    BY <1>2, <2>1 DEF Job, Seen
  <2>3. Outcome(job[w]) \in {"delivered"} \cup Open \cup Closed
        /\ Outcome(job[w]) # "sending"
    BY DEF Outcome, Open, Closed
  <2>4. ASSUME NEW e \in Deliveries
        PROVE  row'[e].status = "sending" <=> row'[e].owner # None
    <3>1. CASE e = job[w].d
      <4>1. row'[e] = Settled(row[e], job[w]) /\ row[e] \in Row
        BY <1>10, <3>1 DEF Settle, TypeOK
      <4>2. row'[e].owner = None /\ row'[e].status = Outcome(job[w])
        BY <2>2, <2>3, <4>1, SettledShape
      <4> QED
        BY <2>3, <4>2
    <3>2. CASE e # job[w].d
      BY <1>2, <1>10, <3>2 DEF Settle, TypeOK
    <3> QED BY <3>1, <3>2
  <2>5. job' = [job EXCEPT ![w] = Idle] /\ request' = request
    BY <1>10 DEF Settle
  <2>6. \A v \in Workers : job'[v].d # None => job'[v] = job[v]
    BY <2>5, Shapes DEF TypeOK
  <2> QED
    BY <1>2, <1>3, <2>4, <2>5, <2>6
<1>11. ASSUME NEW w \in Workers, Raise(w) \/ Crash(w) PROVE Undisturbed'
  <2>1. job' = [job EXCEPT ![w] = Idle] /\ UNCHANGED <<row, request>>
    BY <1>11 DEF Raise, Crash
  <2>2. \A v \in Workers : job'[v].d # None => job'[v] = job[v]
    BY <2>1, Shapes DEF TypeOK
  <2> QED
    BY <1>2, <1>3, <2>1, <2>2
<1>12. ASSUME NEW o \in Operators, Operate(o) PROVE Undisturbed'
  <2>1. request[o].act = "none"
    BY <1>2 DEF Rest
  <2>2. ~(Cancel(o) \/ Retry(o))
    BY <2>1 DEF Cancel, Retry
  <2>3. \A act \in {"cancel", "retry"}, d \in Deliveries : ~Ask(o, act, d)
    BY DEF Ask
  <2> QED
    BY <1>12, <2>2, <2>3 DEF Operate
<1>13. CASE SetAllowed \/ QuietBegins \/ QuietEnds \/ UNCHANGED vars
  <2>1. UNCHANGED <<row, job, request>>
    BY <1>13 DEF SetAllowed, QuietBegins, QuietEnds, vars, process
  <2> QED
    BY <1>2, <1>3, <2>1
<1> QED
  BY <1>4, <1>5, <1>6, <1>8, <1>9, <1>10, <1>11, <1>12, <1>13 DEF Next, Work

(* Crashes, exceptions and leases outrun strand no row. *)
THEOREM StrandedByRequest == Spec => []OnlyRequestsStrand
<1>1. ASSUME Init PROVE Undisturbed
  BY <1>1, Shapes, OutboxAssumption DEF Init, Undisturbed, NoRow
<1>2. RowInv /\ Undisturbed /\ [Next]_vars => Undisturbed'
  BY OutboxAssumption, UndisturbedStays
<1>3. Undisturbed => OnlyRequestsStrand
  BY DEF Undisturbed, OnlyRequestsStrand, Stranded
<1> QED
  BY <1>1, <1>2, <1>3, RowCorrect, PTL DEF Spec

(* A delivery that is called delivered was shown. *)
THEOREM DeliveredShown == Spec => []DeliveredIsShown
<1>1. RowInv => DeliveredIsShown
  BY DEF RowInv
<1> QED
  BY <1>1, RowCorrect, PTL

-----------------------------------------------------------------------------
(* The account of duplicates.  A message may still come from a worker that
   is at the row and from the row itself, which a worker may yet take.      *)

(* The workers that may still have the message shown. *)
Senders(d) == {w \in Workers : Working(w, d) /\ job[w].at # "ok"}

(* What the row may still give rise to: nothing when it is delivered or
   stranded, or its owner is at it; two sends when it is claimable again while a worker has
   it in its batch, which takes whatever still names it as owner.           *)
RowTokens(d) ==
  IF row[d].status = "delivered" THEN 0
  ELSE IF row[d].status = "sending"
       THEN IF row[d].owner = None \/ Working(row[d].owner, d) THEN 0 ELSE 1
  ELSE IF row[d].owner # None /\ d \in batch[row[d].owner] THEN 2 ELSE 1

Accounted(d) == shown[d] + RowTokens(d) + Cardinality(Senders(d)) <= 1 + doubt[d]

Account == \A d \in Deliveries : Accounted(d)

LEMMA Counts ==
  ASSUME OutboxAssumption, TypeOK, NEW d \in Deliveries
  PROVE  /\ shown[d] \in Nat /\ doubt[d] \in Nat /\ RowTokens(d) \in {0, 1, 2}
         /\ IsFiniteSet(Senders(d)) /\ Cardinality(Senders(d)) \in Nat
<1>1. Senders(d) \subseteq Workers /\ IsFiniteSet(Workers)
  BY DEF Senders, OutboxAssumption
<1>2. IsFiniteSet(Senders(d))
  BY <1>1, FS_Subset
<1>3. Cardinality(Senders(d)) \in Nat
  BY <1>2, FS_CardinalityType
<1>4. shown[d] \in Nat /\ doubt[d] \in Nat
  BY DEF TypeOK
<1> QED
  BY <1>2, <1>3, <1>4 DEF RowTokens

LEMMA CountsNext ==
  ASSUME OutboxAssumption, TypeOK', NEW d \in Deliveries
  PROVE  /\ shown'[d] \in Nat /\ doubt'[d] \in Nat /\ RowTokens(d)' \in {0, 1, 2}
         /\ Cardinality(Senders(d)') \in Nat
<1>1. Senders(d)' \subseteq Workers /\ IsFiniteSet(Workers)
  BY DEF Senders, OutboxAssumption
<1>2. Cardinality(Senders(d)') \in Nat
  BY <1>1, FS_Subset, FS_CardinalityType
<1>3. shown'[d] \in Nat /\ doubt'[d] \in Nat
  BY DEF TypeOK
<1> QED
  BY <1>2, <1>3 DEF RowTokens

(* A step that brings no new sender, and no token without a cause. *)
LEMMA Keep ==
  ASSUME OutboxAssumption, TypeOK, TypeOK', NEW d \in Deliveries, Accounted(d),
         Senders(d)' \subseteq Senders(d),
         shown'[d] + RowTokens(d)' + doubt[d] <= shown[d] + RowTokens(d) + doubt'[d]
  PROVE  Accounted(d)'
<1>1. /\ shown[d] \in Nat /\ doubt[d] \in Nat /\ RowTokens(d) \in Nat
      /\ IsFiniteSet(Senders(d)) /\ Cardinality(Senders(d)) \in Nat
  BY Counts
<1>2. /\ shown'[d] \in Nat /\ doubt'[d] \in Nat /\ RowTokens(d)' \in Nat
      /\ Cardinality(Senders(d)') \in Nat
  BY CountsNext
<1>3. Cardinality(Senders(d)') <= Cardinality(Senders(d))
  BY <1>1, FS_Subset
<1>4. Accounted(d)' <=> shown'[d] + RowTokens(d)' + Cardinality(Senders(d)') <= 1 + doubt'[d]
  BY DEF Accounted
<1>5. shown[d] + RowTokens(d) + Cardinality(Senders(d)) <= 1 + doubt[d]
  BY DEF Accounted
<1> HIDE DEF Accounted, RowTokens, Senders
<1> QED
  BY <1>1, <1>2, <1>3, <1>4, <1>5

(* A worker that stops being a sender gives its token back. *)
LEMMA Drop ==
  ASSUME OutboxAssumption, TypeOK, TypeOK', NEW d \in Deliveries, Accounted(d),
         NEW w \in Senders(d), Senders(d)' \subseteq Senders(d) \ {w},
         shown'[d] + RowTokens(d)' + doubt[d] <= shown[d] + RowTokens(d) + doubt'[d] + 1
  PROVE  Accounted(d)'
<1>1. /\ shown[d] \in Nat /\ doubt[d] \in Nat /\ RowTokens(d) \in Nat
      /\ IsFiniteSet(Senders(d)) /\ Cardinality(Senders(d)) \in Nat
  BY Counts
<1>2. /\ shown'[d] \in Nat /\ doubt'[d] \in Nat /\ RowTokens(d)' \in Nat
      /\ Cardinality(Senders(d)') \in Nat
  BY CountsNext
<1>3. /\ IsFiniteSet(Senders(d) \ {w})
      /\ Cardinality(Senders(d) \ {w}) = Cardinality(Senders(d)) - 1
  BY <1>1, FS_RemoveElement
<1>4. Cardinality(Senders(d)') <= Cardinality(Senders(d)) - 1
  BY <1>3, FS_Subset
<1>5. Accounted(d)' <=> shown'[d] + RowTokens(d)' + Cardinality(Senders(d)') <= 1 + doubt'[d]
  BY DEF Accounted
<1>6. shown[d] + RowTokens(d) + Cardinality(Senders(d)) <= 1 + doubt[d]
  BY DEF Accounted
<1> HIDE DEF Accounted, RowTokens, Senders
<1> QED
  BY <1>1, <1>2, <1>4, <1>5, <1>6

(* A worker that becomes a sender takes a token of the row. *)
LEMMA Gain ==
  ASSUME OutboxAssumption, TypeOK, TypeOK', NEW d \in Deliveries, Accounted(d),
         NEW w \in Workers, Senders(d)' \subseteq Senders(d) \cup {w},
         shown'[d] + RowTokens(d)' + doubt[d] + 1 <= shown[d] + RowTokens(d) + doubt'[d]
  PROVE  Accounted(d)'
<1>1. /\ shown[d] \in Nat /\ doubt[d] \in Nat /\ RowTokens(d) \in Nat
      /\ IsFiniteSet(Senders(d)) /\ Cardinality(Senders(d)) \in Nat
  BY Counts
<1>2. /\ shown'[d] \in Nat /\ doubt'[d] \in Nat /\ RowTokens(d)' \in Nat
      /\ Cardinality(Senders(d)') \in Nat
  BY CountsNext
<1>3. /\ IsFiniteSet(Senders(d) \cup {w})
      /\ \/ Cardinality(Senders(d) \cup {w}) = Cardinality(Senders(d))
         \/ Cardinality(Senders(d) \cup {w}) = Cardinality(Senders(d)) + 1
  BY <1>1, FS_AddElement
<1>4. /\ Cardinality(Senders(d)') <= Cardinality(Senders(d) \cup {w})
      /\ Cardinality(Senders(d) \cup {w}) \in Nat
  BY <1>3, FS_Subset, FS_CardinalityType
<1>5. Cardinality(Senders(d)') <= Cardinality(Senders(d)) + 1
  BY <1>1, <1>2, <1>3, <1>4
<1>6. Accounted(d)' <=> shown'[d] + RowTokens(d)' + Cardinality(Senders(d)') <= 1 + doubt'[d]
  BY DEF Accounted
<1>7. shown[d] + RowTokens(d) + Cardinality(Senders(d)) <= 1 + doubt[d]
  BY DEF Accounted
<1> HIDE DEF Accounted, RowTokens, Senders
<1> QED
  BY <1>1, <1>2, <1>5, <1>6, <1>7

(* Each step's account of one delivery. *)
LEMMA AccountPreserved ==
  ASSUME OutboxAssumption, RowInv, RowInv', Account, [Next]_vars
  PROVE  Account'
<1> USE DEF RowInv, Account
<1> SUFFICES ASSUME NEW d \in Deliveries PROVE Accounted(d)'
  OBVIOUS
<1>0. /\ row[d] \in Row /\ shown[d] \in Nat /\ doubt[d] \in Nat
      /\ RowTokens(d) \in {0, 1, 2} /\ d # None /\ None \notin Workers
  BY Counts DEF TypeOK, OutboxAssumption
<1>01. row[d].owner \in Workers \cup {None}
  BY <1>0 DEF Row
<1>1. ASSUME NEW e \in Deliveries, Enqueue(e) \/ Expire(e) PROVE Accounted(d)'
  <2>1. UNCHANGED <<batch, job, shown, doubt>>
    BY <1>1 DEF Enqueue, Expire, process
  <2>2. /\ row'[d].owner = row[d].owner
        /\ \/ row'[d].status = row[d].status
           \/ row[d].status = "absent" /\ row'[d].status = "pending"
    <3>1. CASE d # e
      BY <1>1, <3>1 DEF Enqueue, Expire, TypeOK
    <3>2. CASE d = e
      BY <1>0, <1>1, <3>2 DEF Enqueue, Expire, TypeOK, Row
    <3> QED BY <3>1, <3>2
  <2>3. RowTokens(d)' = RowTokens(d)
    BY <2>1, <2>2 DEF RowTokens, Working
  <2>4. Senders(d)' \subseteq Senders(d)
    BY <2>1 DEF Senders, Working
  <2> QED
    BY <1>0, <2>1, <2>3, <2>4, Keep
<1>2. ASSUME NEW w \in Workers, NEW ds \in SUBSET Deliveries, Claim(w, ds)
      PROVE  Accounted(d)'
  <2>1. UNCHANGED <<job, shown>> /\ job[w].d = None
        /\ batch' = [batch EXCEPT ![w] = ds] /\ batch[w] = {}
    BY <1>2, Shapes DEF Claim
  <2>2. Senders(d)' \subseteq Senders(d)
    BY <2>1 DEF Senders, Working
  <2>3. RowTokens(d)' + doubt[d] <= RowTokens(d) + doubt'[d]
    <3>1. CASE d \in ds
      <4>1. row'[d].status = "sending" /\ row'[d].owner = w
        BY <1>0, <1>2, <3>1 DEF Claim, Row
      <4>2. RowTokens(d)' = 1
        BY <1>0, <2>1, <4>1 DEF RowTokens, Working
      <4>3. CASE Lapsed(d) /\ Working(row[d].owner, d)
        <5>1. doubt'[d] = doubt[d] + 1
          BY <1>2, <3>1, <4>3 DEF Claim
        <5> QED
          BY <1>0, <4>2, <5>1
      <4>4. CASE ~(Lapsed(d) /\ Working(row[d].owner, d))
        <5>1. doubt'[d] = doubt[d]
          BY <1>2, <3>1, <4>4 DEF Claim
        <5>2. Claimable(d)
          BY <1>2, <3>1 DEF Claim
        <5>3. RowTokens(d) >= 1
          BY <4>4, <5>2 DEF RowTokens, Claimable, Lapsed
        <5> QED
          BY <1>0, <4>2, <5>1, <5>3
      <4> QED BY <4>3, <4>4
    <3>2. CASE d \notin ds
      <4>1. row'[d] = row[d] /\ doubt'[d] = doubt[d]
        BY <1>2, <3>2 DEF Claim
      <4>2. ASSUME row[d].owner # None
            PROVE  d \in batch'[row[d].owner] <=> d \in batch[row[d].owner]
        BY <1>01, <2>1, <3>2, <4>2 DEF TypeOK
      <4>3. RowTokens(d)' = RowTokens(d)
        BY <2>1, <4>1, <4>2 DEF RowTokens, Working
      <4> QED
        BY <1>0, <4>1, <4>3
    <3> QED BY <3>1, <3>2
  <2>4. doubt'[d] \in Nat /\ RowTokens(d)' \in {0, 1, 2}
    BY CountsNext
  <2>5. shown'[d] + RowTokens(d)' + doubt[d] <= shown[d] + RowTokens(d) + doubt'[d]
    BY <1>0, <2>1, <2>3, <2>4
  <2> QED
    BY <2>2, <2>5, Keep
<1>3. ASSUME NEW w \in Workers, NEW e \in Deliveries, Load(w, e) PROVE Accounted(d)'
  <2>1. UNCHANGED <<row, shown, doubt>> /\ batch' = [batch EXCEPT ![w] = @ \ {e}]
    BY <1>3 DEF Load
  <2>2. e \in batch[w] /\ job[w].d = None
    BY <1>3, Shapes DEF Load
  <2>3. CASE e = d /\ row[d].owner = w
    <3>1. job' = [job EXCEPT ![w] = [at |-> "loaded", d |-> d, seen |-> Read(row[d])]]
      BY <1>3, <2>3 DEF Load
    <3>2. Senders(d)' \subseteq Senders(d) \cup {w}
      BY <3>1 DEF Senders, Working, TypeOK
    <3>3. job'[w].d = d /\ d \notin batch'[w]
      BY <2>1, <2>3, <3>1 DEF TypeOK
    <3>4. row[d].status # "delivered"
      BY <1>0, <2>3 DEF DeliveredIsFree
    <3>5. RowTokens(d)' + 1 = RowTokens(d)
      BY <1>0, <2>1, <2>2, <2>3, <3>3, <3>4 DEF RowTokens, Working
    <3>6. shown'[d] + RowTokens(d)' + doubt[d] + 1 <= shown[d] + RowTokens(d) + doubt'[d]
      <4>1. RowTokens(d)' \in {0, 1, 2}
        BY CountsNext
      <4> QED
        BY <1>0, <2>1, <3>5, <4>1
    <3> QED
      BY <3>2, <3>6, Gain
  <2>4. CASE ~(e = d /\ row[d].owner = w)
    <3>1. \A v \in Workers : job'[v].d = d => job'[v] = job[v]
      BY <1>3, <2>4 DEF Load, TypeOK
    <3>2. Senders(d)' \subseteq Senders(d)
      BY <2>4, <3>1 DEF Senders, Working
    <3>3. ASSUME NEW v \in Workers PROVE job'[v].d = d <=> job[v].d = d
      BY <1>0, <1>3, <2>2, <2>4 DEF Load, TypeOK
    <3>4. ASSUME row[d].owner # None
          PROVE  d \in batch'[row[d].owner] <=> d \in batch[row[d].owner]
      BY <1>01, <2>1, <2>4, <3>4 DEF TypeOK
    <3>6. RowTokens(d)' = RowTokens(d)
      BY <2>1, <3>3, <3>4, <1>01 DEF RowTokens, Working
    <3> QED
      BY <1>0, <2>1, <3>2, <3>6, Keep
  <2> QED BY <2>3, <2>4
<1>4. ASSUME NEW w \in Workers, Gate(w) PROVE Accounted(d)'
  <2>1. UNCHANGED <<row, batch, shown, doubt>> /\ job[w].at = "loaded"
    BY <1>4 DEF Gate
  <2>2. PICK at \in {"cancel", "defer", "send"} : job' = [job EXCEPT ![w].at = at]
    BY <1>4 DEF Gate
  <2>3. \A v \in Workers : job'[v].d = job[v].d /\ (job[v].at = "ok" => job'[v].at = "ok")
    BY <2>1, <2>2 DEF TypeOK, Job
  <2>4. Senders(d)' \subseteq Senders(d)
    BY <2>3 DEF Senders, Working
  <2>6. RowTokens(d)' = RowTokens(d)
    BY <2>1, <2>3, <1>01 DEF RowTokens, Working
  <2> QED
    BY <1>0, <2>1, <2>4, <2>6, Keep
<1>5. ASSUME NEW w \in Workers, NEW answer \in Answers, Send(w, answer)
      PROVE  Accounted(d)'
  <2>1. UNCHANGED <<row, batch>> /\ job[w].at = "send"
        /\ job' = [job EXCEPT ![w].at = answer]
    BY <1>5 DEF Send
  <2>2. \A v \in Workers : job'[v].d = job[v].d /\ (v # w => job'[v] = job[v])
    BY <2>1 DEF TypeOK, Job
  <2>4. RowTokens(d)' = RowTokens(d)
    BY <2>1, <2>2, <1>01 DEF RowTokens, Working
  <2>5. Senders(d)' \subseteq Senders(d)
    BY <2>1, <2>2 DEF Senders, Working
  <2>6. CASE job[w].d # d
    <3>1. shown'[d] = shown[d] /\ doubt'[d] = doubt[d]
      BY <1>5, <2>6 DEF Send, TypeOK
    <3> QED
      BY <1>0, <2>4, <2>5, <3>1, Keep
  <2>7. CASE job[w].d = d /\ answer = "ok"
    <3>1. shown'[d] = shown[d] + 1 /\ doubt'[d] = doubt[d]
      BY <1>5, <2>7 DEF Send, TypeOK
    <3>2. job'[w].at = "ok"
      BY <2>1, <2>7 DEF TypeOK, Job
    <3>3. w \in Senders(d) /\ Senders(d)' \subseteq Senders(d) \ {w}
      BY <2>1, <2>5, <2>7, <3>2 DEF Senders, Working
    <3> QED
      BY <1>0, <2>4, <3>1, <3>3, Drop
  <2>8. CASE job[w].d = d /\ answer = "lost"
    <3>1. shown'[d] = shown[d] + 1 /\ doubt'[d] = doubt[d] + 1
      BY <1>5, <2>8 DEF Send, TypeOK
    <3> QED
      BY <1>0, <2>4, <2>5, <3>1, Keep
  <2>9. CASE job[w].d = d /\ answer \notin {"ok", "lost"}
    <3>1. shown'[d] = shown[d] /\ doubt'[d] = doubt[d]
      BY <1>5, <2>9 DEF Send, TypeOK
    <3> QED
      BY <1>0, <2>4, <2>5, <3>1, Keep
  <2> QED BY <2>6, <2>7, <2>8, <2>9
<1>6. ASSUME NEW w \in Workers, Settle(w) PROVE Accounted(d)'
  <2>0. /\ Outcome(job[w]) \in {"delivered"} \cup Open \cup Closed
        /\ job[w].seen.attempt \in Nat
        /\ job[w].d = d => row'[d] = Settled(row[d], job[w])
    <3>1. job[w] \in Job
      BY DEF TypeOK
    <3>2. job[w].seen.attempt \in Nat
      BY <3>1 DEF Job, Seen
    <3> QED
      BY <1>6, <3>2 DEF Settle, TypeOK, Outcome, Open, Closed
  <2>1. UNCHANGED <<batch, shown, doubt>> /\ job' = [job EXCEPT ![w] = Idle]
    BY <1>6 DEF Settle
  <2>2. job'[w].d = None /\ \A v \in Workers : v # w => job'[v] = job[v]
    BY <2>1, Shapes DEF TypeOK
  <2>3. CASE job[w].d # d
    <3>1. row'[d] = row[d]
      BY <1>6, <2>3 DEF Settle, TypeOK
    <3>2. \A v \in Workers : job'[v].d = d <=> job[v].d = d
      BY <1>0, <2>2, <2>3
    <3>4. RowTokens(d)' = RowTokens(d)
      BY <2>1, <3>1, <3>2, <1>01 DEF RowTokens, Working
    <3>5. Senders(d)' \subseteq Senders(d)
      BY <1>0, <2>2 DEF Senders, Working
    <3> QED
      BY <1>0, <2>1, <3>4, <3>5, Keep
  <2>4. CASE job[w].d = d /\ job[w].at = "ok"
    <3>1. row'[d].status = "delivered"
      <4>1. Outcome(job[w]) = "delivered"
        BY <2>4 DEF Outcome
      <4>2. job[w].seen.status # "delivered"
        BY <1>0, <2>4 DEF SeenUndelivered
      <4> QED
        BY <1>0, <2>0, <2>4, <4>1, <4>2, SettledShape
    <3>2. RowTokens(d)' = 0
      BY <3>1 DEF RowTokens
    <3>3. Senders(d)' \subseteq Senders(d)
      BY <1>0, <2>2 DEF Senders, Working
    <3> QED
      BY <1>0, <2>1, <3>2, <3>3, Keep
  <2>5. CASE job[w].d = d /\ job[w].at # "ok"
    <3>1. row'[d].owner = None
      BY <1>0, <2>0, <2>5, SettledShape
    <3>2. RowTokens(d)' \in {0, 1}
      BY <3>1 DEF RowTokens
    <3>3. w \in Senders(d) /\ Senders(d)' \subseteq Senders(d) \ {w}
      BY <1>0, <2>2, <2>5 DEF Senders, Working
    <3> QED
      BY <1>0, <2>1, <3>2, <3>3, Drop
  <2> QED BY <2>3, <2>4, <2>5
<1>7. ASSUME NEW w \in Workers, Raise(w) \/ Crash(w) PROVE Accounted(d)'
  <2>1. UNCHANGED <<row, shown>> /\ job' = [job EXCEPT ![w] = Idle] /\ doubt' = Forgotten(w)
    BY <1>7 DEF Raise, Crash
  <2>2. job'[w].d = None /\ \A v \in Workers : v # w => job'[v] = job[v]
    BY <2>1, Shapes DEF TypeOK
  <2>3. \A v \in Workers : batch'[v] \subseteq batch[v]
    BY <1>7 DEF Raise, Crash, TypeOK
  <2>4. Senders(d)' \subseteq Senders(d)
    BY <1>0, <2>2 DEF Senders, Working
  <2>6. CASE job[w].d # d
    <3>1. \A v \in Workers : job'[v].d = d <=> job[v].d = d
      BY <1>0, <2>2, <2>6
    <3>2. RowTokens(d)' <= RowTokens(d)
      BY <1>01, <2>1, <2>3, <3>1 DEF RowTokens, Working
    <3>3. doubt'[d] = doubt[d]
      BY <2>1, <2>6 DEF Forgotten, Working
    <3>4. RowTokens(d)' \in {0, 1, 2}
      BY CountsNext
    <3> QED
      BY <1>0, <2>1, <2>4, <3>2, <3>3, <3>4, Keep
  <2>7. CASE job[w].d = d
    <3>1. RowTokens(d)' <= RowTokens(d) + 1
      BY <1>0, <1>01, <2>1, <2>3 DEF RowTokens
    <3>2. RowTokens(d)' \in {0, 1, 2}
      BY CountsNext
    <3>3. CASE job[w].at = "ok"
      <4>1. doubt'[d] = doubt[d] + 1
        BY <2>1, <2>7, <3>3 DEF Forgotten, Working
      <4> QED
        BY <1>0, <2>1, <2>4, <3>1, <3>2, <4>1, Keep
    <3>4. CASE job[w].at # "ok"
      <4>1. doubt'[d] = doubt[d]
        BY <2>1, <3>4 DEF Forgotten
      <4>2. w \in Senders(d) /\ Senders(d)' \subseteq Senders(d) \ {w}
        BY <1>0, <2>2, <2>7, <3>4 DEF Senders, Working
      <4> QED
        BY <1>0, <2>1, <3>1, <3>2, <4>1, <4>2, Drop
    <3> QED BY <3>3, <3>4
  <2> QED BY <2>6, <2>7
<1>8. ASSUME NEW o \in Operators, Cancel(o) \/ Retry(o) PROVE Accounted(d)'
  <2>1. UNCHANGED <<batch, job, shown>> /\ doubt' = Hidden(request[o].d)
    BY <1>8 DEF Cancel, Retry, process
  <2>2. Senders(d)' \subseteq Senders(d)
    BY <2>1 DEF Senders, Working
  <2>3. CASE d # request[o].d
    <3>1. row'[d] = row[d] /\ doubt'[d] = doubt[d]
      BY <1>8, <2>1, <2>3 DEF Cancel, Retry, Hidden, TypeOK
    <3>2. RowTokens(d)' = RowTokens(d)
      BY <2>1, <3>1 DEF RowTokens, Working
    <3> QED
      BY <1>0, <2>1, <2>2, <3>1, <3>2, Keep
  <2>4. CASE d = request[o].d
    <3>1. row'[d].status \in {"cancelled", "pending"}
          /\ row'[d].owner \in {row[d].owner, None}
      <4>1. CASE Cancel(o)
        <5>1. row'[d] = Disowned(row[d], request[o].seen, "cancelled")
          BY <2>4, <4>1 DEF Cancel, TypeOK
        <5> QED
          BY <1>0, <5>1 DEF Disowned, Released, Row
      <4>2. CASE Retry(o)
        <5>1. row'[d] = Reopened(row[d], request[o].seen)
          BY <2>4, <4>2 DEF Retry, TypeOK
        <5> QED
          BY <1>0, <5>1 DEF Reopened, Disowned, Released, Row
      <4> QED BY <1>8, <4>1, <4>2
    <3>2. RowTokens(d)' \in {1, 2}
          /\ (RowTokens(d)' = 2 => row[d].owner # None /\ d \in batch[row[d].owner])
      BY <2>1, <3>1 DEF RowTokens
    <3>3. CASE row[d].status \in {"sending", "delivered"}
      <4>1. doubt'[d] = doubt[d] + 1
        BY <1>0, <2>1, <2>4, <3>3 DEF Hidden, TypeOK
      <4>2. RowTokens(d)' = 2 => RowTokens(d) = 1
        BY <1>01, <3>2, <3>3 DEF RowTokens, Working, DeliveredIsFree, OffTheBatch
      <4> QED
        BY <1>0, <2>1, <2>2, <3>2, <4>1, <4>2, Keep
    <3>4. CASE row[d].status \notin {"sending", "delivered"}
      <4>1. doubt'[d] = doubt[d]
        BY <2>1, <2>4, <3>4 DEF Hidden
      <4>2. RowTokens(d)' <= RowTokens(d)
        BY <3>2, <3>4 DEF RowTokens
      <4> QED
        BY <1>0, <2>1, <2>2, <3>2, <4>1, <4>2, Keep
    <3> QED BY <3>3, <3>4
  <2> QED BY <2>3, <2>4
<1>9. CASE \/ SetAllowed \/ QuietBegins \/ QuietEnds \/ UNCHANGED vars
           \/ \E o \in Operators, act \in {"cancel", "retry"}, e \in Deliveries :
                Ask(o, act, e)
  <2>1. UNCHANGED <<row, batch, job, shown, doubt>>
    BY <1>9 DEF SetAllowed, QuietBegins, QuietEnds, Ask, vars, process
  <2>2. RowTokens(d)' = RowTokens(d) /\ Senders(d)' = Senders(d)
    BY <2>1 DEF RowTokens, Senders, Working
  <2> QED
    BY <1>0, <2>1, <2>2, Keep
<1> QED
  BY <1>1, <1>2, <1>3, <1>4, <1>5, <1>6, <1>7, <1>8, <1>9 DEF Next, Work, Operate

(* A recipient sees an alert once, and once more for each cause that the
   account names.                                                           *)
THEOREM DuplicatesAccounted == Spec => []DuplicatesExplained
<1>1. ASSUME Init PROVE Account
  <2> SUFFICES ASSUME NEW d \in Deliveries PROVE Accounted(d)
    BY DEF Account
  <2>1. shown[d] = 0 /\ doubt[d] = 0
    BY <1>1 DEF Init
  <2>2. Senders(d) = {}
    BY <1>1, Shapes, OutboxAssumption DEF Init, Senders, Working
  <2>3. RowTokens(d) = 1
    BY <1>1 DEF Init, RowTokens, NoRow
  <2>4. Cardinality(Senders(d)) = 0
    BY <2>2, FS_EmptySet
  <2> QED
    BY <2>1, <2>3, <2>4 DEF Accounted
<1>2. RowInv /\ RowInv' /\ Account /\ [Next]_vars => Account'
  BY OutboxAssumption, AccountPreserved
<1>3. ASSUME RowInv, Account PROVE DuplicatesExplained
  <2> SUFFICES ASSUME NEW d \in Deliveries PROVE shown[d] <= 1 + doubt[d]
    BY DEF DuplicatesExplained
  <2>1. /\ shown[d] \in Nat /\ doubt[d] \in Nat /\ RowTokens(d) \in Nat
        /\ Cardinality(Senders(d)) \in Nat
    BY <1>3, OutboxAssumption, Counts DEF RowInv
  <2>2. shown[d] + RowTokens(d) + Cardinality(Senders(d)) <= 1 + doubt[d]
    BY <1>3 DEF Account, Accounted
  <2> QED
    BY <2>1, <2>2
<1> QED
  BY <1>1, <1>2, <1>3, RowCorrect, PTL DEF Spec
=============================================================================
