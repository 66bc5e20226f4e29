----------------------------- MODULE AlertOutbox -----------------------------
(***************************************************************************)
(* The Telegram outbox of publish operator alerts: deliveries enqueued by  *)
(* the publish path, the workers that claim and send them, and the         *)
(* operators who cancel and retry them.                                    *)
(*                                                                         *)
(* Only the claim locks rows.  A worker and an operator read a row, decide *)
(* on what they have read, and later write it by primary key; the write    *)
(* names the columns whose value differs from the one read, so a column    *)
(* that was already NULL is not written.                                   *)
(*                                                                         *)
(* Telegram is external: it shows a message or not, and the worker may     *)
(* lose the answer of a message that is shown.                             *)
(***************************************************************************)
EXTENDS Naturals, FiniteSets

CONSTANTS
  Deliveries,   (* rows of the outbox: one per alert, recipient and kind   *)
  Workers,      (* processes of the delivery worker                        *)
  Operators,    (* sessions of the admin API                               *)
  Answers,      (* what a send may come back with                          *)
  MaxAttempts,  (* settings.PUBLISH_ALERT_TELEGRAM_MAX_ATTEMPTS            *)
  BatchSize,    (* settings.PUBLISH_ALERT_TELEGRAM_WORKER_BATCH_SIZE       *)
  Troubles,     (* bound: crashes, exceptions, leases outrun, settings put *)
  Requests,     (* bound: cancel and retry requests                        *)
  None

ASSUME OutboxAssumption ==
  /\ IsFiniteSet(Workers)
  /\ Answers \subseteq {"ok", "lost", "transient", "terminal"}
  /\ MaxAttempts \in Nat \ {0}
  /\ BatchSize \in Nat \ {0}
  /\ Troubles \in Nat
  /\ Requests \in Nat
  /\ None \notin Deliveries \cup Workers

VARIABLES
  row,       (* the rows of publish_alert_telegram_deliveries              *)
  allowed,   (* the tenant has an enabled, authorized recipient            *)
  quiet,     (* the tenant's quiet hours                                   *)
  batch,     (* rows a worker has claimed and not come to yet              *)
  job,       (* the row a worker is at, and what it has read of it         *)
  request,   (* the request an operator's session is serving               *)
  shown,     (* messages Telegram has shown for a delivery                 *)
  doubt,     (* times a shown or coming message was lost sight of          *)
  troubles,
  requests

process == <<batch, job>>
tenant  == <<allowed, quiet>>
bounds  == <<troubles, requests>>
vars    == <<row, tenant, process, request, shown, doubt, bounds>>

-----------------------------------------------------------------------------
(* Rows *)

Open    == {"pending", "retrying", "sending"}
Closed  == {"failed", "exhausted", "cancelled"}

Row == [status : {"absent", "delivered"} \cup Open \cup Closed,
        owner : Workers \cup {None}, expired : BOOLEAN,
        attempt : Nat, max : Nat]

NoRow == [status |-> "absent", owner |-> None, expired |-> FALSE,
          attempt |-> 0, max |-> MaxAttempts]

(* The columns of a row, as it was read, that a later write depends on. *)
Read(r) == [status |-> r.status, owned |-> r.owner # None,
            attempt |-> r.attempt, max |-> r.max]

Seen == [status : {"absent", "delivered"} \cup Open \cup Closed,
         owned : BOOLEAN, attempt : Nat, max : Nat]

Idle == [at |-> "idle", d |-> None, seen |-> Read(NoRow)]

Job == [at : {"idle", "loaded", "cancel", "defer", "send"} \cup Answers,
        d : Deliveries \cup {None}, seen : Seen]

Rest == [act |-> "none", d |-> None, seen |-> Read(NoRow)]

Request == [act : {"none", "cancel", "retry"}, d : Deliveries \cup {None}, seen : Seen]

TypeOK ==
  /\ row \in [Deliveries -> Row]
  /\ allowed \in BOOLEAN
  /\ quiet \in BOOLEAN
  /\ batch \in [Workers -> SUBSET Deliveries]
  /\ job \in [Workers -> Job]
  /\ \A w \in Workers : job[w].at = "idle" <=> job[w].d = None
  /\ request \in [Operators -> Request]
  /\ shown \in [Deliveries -> Nat]
  /\ doubt \in [Deliveries -> Nat]
  /\ troubles \in Nat
  /\ requests \in Nat

Init ==
  /\ row = [d \in Deliveries |-> NoRow]
  /\ allowed = TRUE
  /\ quiet = FALSE
  /\ batch = [w \in Workers |-> {}]
  /\ job = [w \in Workers |-> Idle]
  /\ request = [o \in Operators |-> Rest]
  /\ shown = [d \in Deliveries |-> 0]
  /\ doubt = [d \in Deliveries |-> 0]
  /\ troubles = 0
  /\ requests = 0

Trouble == troubles < Troubles /\ troubles' = troubles + 1

Released(r, status) == [r EXCEPT !.status = status, !.owner = None, !.expired = FALSE]

Working(w, d) == job[w].d = d

-----------------------------------------------------------------------------
(* Enqueue and claim *)

(* enqueue_for_alert: inserts with ON CONFLICT DO NOTHING on the key.
   Quiet hours only put the first attempt off.                              *)
Enqueue(d) ==
  /\ row[d].status = "absent"
  /\ allowed
  /\ row' = [row EXCEPT ![d].status = "pending"]
  /\ UNCHANGED <<tenant, process, request, shown, doubt, bounds>>

(* The lease of a row that is being sent has run out. *)
Lapsed(d) == row[d].status = "sending" /\ row[d].owner # None /\ row[d].expired

(* Fault: a row that was left behind is not claimed again. *)
ClaimableOnce(d) == row[d].status \in {"pending", "retrying"}

(* Left as being sent, with no lease to run out. *)
Stranded(d) == row[d].status = "sending" /\ row[d].owner = None

Claimable(d) == row[d].status \in {"pending", "retrying"} \/ Lapsed(d)

(* claim_batch: any rows that are due, up to the batch size.  A row whose
   lease has run out may be taken from a worker that is still at it.        *)
Claim(w, ds) ==
  /\ job[w] = Idle
  /\ batch[w] = {}
  /\ ds # {}
  /\ Cardinality(ds) <= BatchSize
  /\ \A d \in ds : Claimable(d)
  /\ row' = [d \in Deliveries |->
               IF d \in ds
               THEN [row[d] EXCEPT !.status = "sending", !.owner = w,
                                   !.expired = FALSE, !.attempt = @ + 1]
               ELSE row[d]]
  /\ batch' = [batch EXCEPT ![w] = ds]
  /\ doubt' = [d \in Deliveries |->
                 IF d \in ds /\ Lapsed(d) /\ Working(row[d].owner, d)
                 THEN doubt[d] + 1 ELSE doubt[d]]
  /\ UNCHANGED <<tenant, job, request, shown, bounds>>

-----------------------------------------------------------------------------
(* process_delivery *)

(* Fault: the worker does not ask whether the row is still its own. *)
LoadAnyway(w, d) ==
  /\ job[w] = Idle
  /\ d \in batch[w]
  /\ batch' = [batch EXCEPT ![w] = @ \ {d}]
  /\ job' = [job EXCEPT ![w] = [at |-> "loaded", d |-> d, seen |-> Read(row[d])]]
  /\ UNCHANGED <<row, tenant, request, shown, doubt, bounds>>

(* The worker comes to a row of its batch and reads it; it goes on only if
   the row still names it as the owner.  Neither the status nor the expiry
   of the lease is looked at.                                               *)
Load(w, d) ==
  /\ job[w] = Idle
  /\ d \in batch[w]
  /\ batch' = [batch EXCEPT ![w] = @ \ {d}]
  /\ job' = IF row[d].owner = w
            THEN [job EXCEPT ![w] = [at |-> "loaded", d |-> d, seen |-> Read(row[d])]]
            ELSE job
  /\ UNCHANGED <<row, tenant, request, shown, doubt, bounds>>

(* It reads the tenant's settings and looks at the clock. *)
Gate(w) ==
  /\ job[w].at = "loaded"
  /\ job' = [job EXCEPT ![w].at = IF ~allowed THEN "cancel"
                                  ELSE IF quiet THEN "defer" ELSE "send"]
  /\ UNCHANGED <<row, tenant, batch, request, shown, doubt, bounds>>

(* Fault: a network error is taken for an answer. *)
SendTrusting(w, answer) ==
  /\ job[w].at = "send"
  /\ job' = [job EXCEPT ![w].at = IF answer = "transient" THEN "ok" ELSE answer]
  /\ shown' = IF answer \in {"ok", "lost"}
              THEN [shown EXCEPT ![job[w].d] = @ + 1] ELSE shown
  /\ doubt' = IF answer = "lost"
              THEN [doubt EXCEPT ![job[w].d] = @ + 1] ELSE doubt
  /\ UNCHANGED <<row, tenant, batch, request, bounds>>

(* send_telegram_html_message.  "lost" is a message that is shown although
   the call fails or times out.                                             *)
Send(w, answer) ==
  /\ job[w].at = "send"
  /\ job' = [job EXCEPT ![w].at = answer]
  /\ shown' = IF answer \in {"ok", "lost"}
              THEN [shown EXCEPT ![job[w].d] = @ + 1] ELSE shown
  /\ doubt' = IF answer = "lost"
              THEN [doubt EXCEPT ![job[w].d] = @ + 1] ELSE doubt
  /\ UNCHANGED <<row, tenant, batch, request, bounds>>

(* What the row becomes, from what the worker read of it. *)
Outcome(j) ==
  CASE j.at = "ok"       -> "delivered"
    [] j.at = "terminal" -> "failed"
    [] j.at = "cancel"   -> "cancelled"
    [] j.at = "defer"    -> "pending"
    [] OTHER -> IF j.seen.attempt >= j.seen.max THEN "exhausted" ELSE "retrying"

(* Fault: a deferred row loses its lease and keeps its status. *)
SettleDeferredSending(w) ==
  LET j == job[w] IN
  /\ j.at \in {"cancel", "defer"} \cup Answers
  /\ row' = [row EXCEPT ![j.d] =
               Released(@, IF j.at = "defer" THEN "sending" ELSE Outcome(j))]
  /\ job' = [job EXCEPT ![w] = Idle]
  /\ UNCHANGED <<tenant, batch, request, shown, doubt, bounds>>

(* The row with the worker's outcome.  The row had an owner when it was
   read, so that the owner is cleared; a status that equals the one read is
   not written.                                                             *)
Settled(r, j) ==
  [Released(r, IF Outcome(j) = j.seen.status THEN r.status ELSE Outcome(j)) EXCEPT
     !.attempt = IF j.at = "defer" /\ j.seen.attempt > 0
                 THEN j.seen.attempt - 1 ELSE r.attempt]

(* The worker writes the outcome, whatever the row has become. *)
Settle(w) ==
  LET j == job[w] IN
  /\ j.at \in {"cancel", "defer"} \cup Answers
  /\ row' = [row EXCEPT ![j.d] = Settled(@, j)]
  /\ job' = [job EXCEPT ![w] = Idle]
  /\ UNCHANGED <<tenant, batch, request, shown, doubt, bounds>>

-----------------------------------------------------------------------------
(* What goes wrong *)

(* A message is forgotten when it was shown and its row is not written. *)
Forgotten(w) == [d \in Deliveries |->
                   IF Working(w, d) /\ job[w].at = "ok" THEN doubt[d] + 1 ELSE doubt[d]]

(* Fault: the row stays at hand after the exception. *)
RaiseHalfway(w) ==
  /\ job[w] # Idle
  /\ Trouble
  /\ job' = [job EXCEPT ![w].at = "idle"]
  /\ doubt' = Forgotten(w)
  /\ UNCHANGED <<row, tenant, batch, request, shown, requests>>

(* process_delivery or its commit raises: the row is left as claimed and
   run_once goes on with the next one.                                      *)
Raise(w) ==
  /\ job[w] # Idle
  /\ Trouble
  /\ job' = [job EXCEPT ![w] = Idle]
  /\ doubt' = Forgotten(w)
  /\ UNCHANGED <<row, tenant, batch, request, shown, requests>>

(* The process dies, or is stopped, and another is started in its place. *)
Crash(w) ==
  /\ job[w] # Idle \/ batch[w] # {}
  /\ Trouble
  /\ job' = [job EXCEPT ![w] = Idle]
  /\ batch' = [batch EXCEPT ![w] = {}]
  /\ doubt' = Forgotten(w)
  /\ UNCHANGED <<row, tenant, request, shown, requests>>

Held(d) == \E w \in Workers : row[d].owner = w /\ (d \in batch[w] \/ Working(w, d))

(* The lease runs out: always, when nobody is at the row; and it may
   outrun a worker that is.                                                 *)
Expire(d) ==
  /\ row[d].status = "sending"
  /\ ~row[d].expired
  /\ IF Held(d) THEN Trouble ELSE UNCHANGED troubles
  /\ row' = [row EXCEPT ![d].expired = TRUE]
  /\ UNCHANGED <<tenant, process, request, shown, doubt, requests>>

(* update_settings, and the confirmation or removal of a recipient. *)
SetAllowed ==
  /\ Trouble
  /\ allowed' = ~allowed
  /\ UNCHANGED <<row, quiet, process, request, shown, doubt, requests>>

QuietBegins ==
  /\ ~quiet
  /\ Trouble
  /\ quiet' = TRUE
  /\ UNCHANGED <<row, allowed, process, request, shown, doubt, requests>>

QuietEnds ==
  /\ quiet
  /\ quiet' = FALSE
  /\ UNCHANGED <<row, allowed, process, request, shown, doubt, bounds>>

-----------------------------------------------------------------------------
(* Operators *)

(* cancel_delivery and manual_retry read the row and check its status ... *)
Ask(o, act, d) ==
  /\ request[o] = Rest
  /\ requests < Requests
  /\ \/ act = "cancel" /\ row[d].status \in Open
     \/ act = "retry" /\ row[d].status \in Closed
  /\ request' = [request EXCEPT ![o] = [act |-> act, d |-> d, seen |-> Read(row[d])]]
  /\ requests' = requests + 1
  /\ UNCHANGED <<row, tenant, process, shown, doubt, troubles>>

(* ... and then write it.  The owner is cleared if it was set when read. *)
Disowned(r, seen, status) ==
  IF seen.owned THEN Released(r, status) ELSE [r EXCEPT !.status = status]

(* The write hides a message that is being sent or has been delivered. *)
Hidden(d) == IF row[d].status \in {"sending", "delivered"}
             THEN [doubt EXCEPT ![d] = @ + 1] ELSE doubt

Cancel(o) ==
  LET q == request[o] IN
  /\ q.act = "cancel"
  /\ row' = [row EXCEPT ![q.d] = Disowned(@, q.seen, "cancelled")]
  /\ doubt' = Hidden(q.d)
  /\ request' = [request EXCEPT ![o] = Rest]
  /\ UNCHANGED <<tenant, process, shown, bounds>>

(* A retried row has room for one more attempt. *)
Reopened(r, seen) ==
  [Disowned(r, seen, "pending") EXCEPT
     !.max = IF seen.attempt >= seen.max THEN seen.attempt + 1 ELSE r.max]

Retry(o) ==
  LET q == request[o] IN
  /\ q.act = "retry"
  /\ row' = [row EXCEPT ![q.d] = Reopened(@, q.seen)]
  /\ doubt' = Hidden(q.d)
  /\ request' = [request EXCEPT ![o] = Rest]
  /\ UNCHANGED <<tenant, process, shown, bounds>>

-----------------------------------------------------------------------------
(* The system *)

Work(w) ==
  \/ \E ds \in SUBSET Deliveries : Claim(w, ds)
  \/ \E d \in Deliveries : Load(w, d)
  \/ Gate(w)
  \/ \E answer \in Answers : Send(w, answer)
  \/ Settle(w)

Operate(o) ==
  \/ \E act \in {"cancel", "retry"}, d \in Deliveries : Ask(o, act, d)
  \/ Cancel(o)
  \/ Retry(o)

Next ==
  \/ \E d \in Deliveries : Enqueue(d) \/ Expire(d)
  \/ \E w \in Workers : Work(w) \/ Crash(w) \/ Raise(w)
  \/ \E o \in Operators : Operate(o)
  \/ SetAllowed \/ QuietBegins \/ QuietEnds

Spec == Init /\ [][Next]_vars

(* The worker polls for ever, a call of Telegram has a time limit, a lease
   runs out, quiet hours end, and a request is served to its end.  Of the
   rows that are due the worker takes the oldest, and the older ones settle,
   so that each gets its turn.                                              *)
Fairness ==
  /\ \A w \in Workers :
       /\ WF_vars(Gate(w) \/ (\E answer \in Answers : Send(w, answer)) \/ Settle(w))
       /\ \A d \in Deliveries :
            /\ WF_vars(Load(w, d))
            /\ WF_vars(\E ds \in SUBSET Deliveries : d \in ds /\ Claim(w, ds))
  /\ \A d \in Deliveries : WF_vars(Expire(d))
  /\ \A o \in Operators : WF_vars(Cancel(o) \/ Retry(o))
  /\ WF_vars(QuietEnds)

FairSpec == Spec /\ Fairness

-----------------------------------------------------------------------------
(* Properties *)

(* claim_batch takes a row that is being sent only when it has a lease, so
   that a row left without one is never sent again.  Crashes, exceptions and
   leases outrun leave no such row; it takes an operator's request, decided
   on a row that a worker claimed before the request wrote it.              *)
OnlyRequestsStrand ==
  requests = 0 => \A d \in Deliveries : ~Stranded(d)

(* A delivery that is called delivered was shown to the recipient, whoever
   wrote the row last.                                                      *)
DeliveredIsShown ==
  \A d \in Deliveries : row[d].status = "delivered" => shown[d] > 0

(* A recipient sees an alert a second time only for a cause that can be
   named: an answer that was lost, a message shown by a worker that died or
   failed before it wrote the row, a lease that outran the worker at the
   row, an operator who wrote over a row that was being or had been sent.
   Every such cause accounts for one message at most.                       *)
DuplicatesExplained ==
  \A d \in Deliveries : shown[d] <= 1 + doubt[d]

(* A delivery that is enqueued or retried comes to an end, unless it is
   stranded.                                                                *)
DeliveriesEnd ==
  \A d \in Deliveries :
    row[d].status \in Open ~> row[d].status \notin Open \/ Stranded(d)
=============================================================================
