---------------------------- MODULE WebhookQueue ----------------------------
(***************************************************************************)
(* The durable Telegram inbox.  The webhook stores an update as a row of   *)
(* telegram_webhook_events and answers at once.  Workers claim batches of  *)
(* rows under a lease, hand each update to process_update, and mark the    *)
(* row completed or failed.  process_update keeps a second table of its    *)
(* own, telegram_processed_updates, and looks for content that was already *)
(* made from the message before it makes some.                             *)
(*                                                                         *)
(* Handling one update is several transactions, so a crash may fall        *)
(* between any two; every "find, then write" reads a row it has not        *)
(* locked, so it is two steps.  The claim transaction locks what it reads  *)
(* and is one step.  The handlers of process_update are represented by     *)
(* the one that makes a content item of a message, which may also find     *)
(* that there is nothing to make.                                          *)
(***************************************************************************)
EXTENDS Naturals, FiniteSets

CONSTANTS
  Updates,       (* Telegram update ids                                   *)
  Workers,       (* worker processes running at the same time             *)
  MaxAttempts,   (* TelegramWebhookQueueService.MAX_ATTEMPTS              *)
  BatchSize,     (* rows one claim transaction may take                   *)
  None,
  Gone           (* the worker_id of a process that is no more            *)

ASSUME QueueAssumption ==
  /\ IsFiniteSet(Workers)
  /\ IsFiniteSet(Updates)
  /\ MaxAttempts \in Nat \ {0}
  /\ BatchSize \in Nat \ {0}
  /\ None \notin Workers \cup Updates
  /\ Gone \notin Workers \cup {None}

VARIABLES
  event,         (* telegram_webhook_events rows                          *)
  processed,     (* telegram_processed_updates                            *)
  content,       (* content items made from the message of the update     *)
  pc,            (* control point of each worker                          *)
  todo,          (* claimed rows the worker has not yet taken up          *)
  cur,           (* the update the worker is handling                     *)
  seen           (* attempts, as mark_failed read them                    *)

tables  == <<event, processed, content>>
workers == <<pc, todo, cur, seen>>
vars    == <<tables, workers>>

-----------------------------------------------------------------------------
(* Rows *)

Finished == {"completed", "failed"}

(* available_at and lease_expires_at are kept as their position relative to
   the clock; processed_at and last_error only report.                      *)
Event ==
  [status : {"absent", "pending", "processing", "retry"} \cup Finished,
   attempts : Nat, available : BOOLEAN,
   lease_owner : Workers \cup {None, Gone},
   lease : {"null", "valid", "expired"}, created_at : Nat]

NoEvent ==
  [status |-> "absent", attempts |-> 0, available |-> FALSE,
   lease_owner |-> None, lease |-> "null", created_at |-> 0]

Stored == {u \in Updates : event[u].status # "absent"}

(* Fault: rows are selected by available_at alone, whatever their status. *)
EligibleWhenAvailable ==
  {u \in Updates :
     /\ event[u].available \/ event[u].lease = "expired"
     /\ event[u].attempts < MaxAttempts}

(* Fault: an expired lease does not make a row eligible. *)
EligibleIfWaiting ==
  {u \in Updates :
     /\ event[u].status \in {"pending", "retry"} /\ event[u].available
     /\ event[u].attempts < MaxAttempts}

(* Fault: nobody looks at the attempt counter. *)
EligibleForEver ==
  {u \in Updates :
     \/ event[u].status \in {"pending", "retry"} /\ event[u].available
     \/ event[u].status = "processing" /\ event[u].lease = "expired"}

Eligible ==
  {u \in Updates :
     /\ \/ event[u].status \in {"pending", "retry"} /\ event[u].available
        \/ event[u].status = "processing" /\ event[u].lease = "expired"
     /\ event[u].attempts < MaxAttempts}

(* Rows that one SELECT ... ORDER BY created_at LIMIT may return. *)
Batches(S) ==
  {B \in SUBSET S :
     /\ B # {}
     /\ Cardinality(B) <= BatchSize
     /\ Cardinality(B) = BatchSize \/ B = S
     /\ \A u \in B, v \in S \ B : event[u].created_at <= event[v].created_at}

Init ==
  /\ event = [u \in Updates |-> NoEvent]
  /\ processed = {}
  /\ content = [u \in Updates |-> 0]
  /\ pc = [w \in Workers |-> "poll"]
  /\ todo = [w \in Workers |-> {}]
  /\ cur = [w \in Workers |-> None]
  /\ seen = [w \in Workers |-> 0]

-----------------------------------------------------------------------------
(* Webhook *)

(* INSERT ... ON CONFLICT (update_id) DO NOTHING: Telegram may deliver an
   update again at any time.                                                *)
Enqueue(u) ==
  /\ event' =
       IF u \in Stored THEN event
       ELSE [event EXCEPT ![u] =
              [NoEvent EXCEPT !.status = "pending", !.available = TRUE,
                              !.created_at = Cardinality(Stored) + 1]]
  /\ UNCHANGED <<processed, content, workers>>

-----------------------------------------------------------------------------
(* Claim *)

(* Fault: only the first claim of a row counts as an attempt. *)
ClaimedUncounted(row, w) ==
  [row EXCEPT !.status = "processing", !.lease_owner = w, !.lease = "valid",
              !.attempts = IF row.attempts = 0 THEN 1 ELSE row.attempts]

Claimed(row, w) ==
  [row EXCEPT !.status = "processing", !.lease_owner = w, !.lease = "valid",
              !.attempts = row.attempts + 1]

ClaimBatch(w) ==
  /\ pc[w] = "poll"
  /\ \E B \in Batches(Eligible) :
       /\ event' = [u \in Updates |->
                      IF u \in B THEN Claimed(event[u], w) ELSE event[u]]
       /\ todo' = [todo EXCEPT ![w] = B]
  /\ pc' = [pc EXCEPT ![w] = "next"]
  /\ UNCHANGED <<processed, content, cur, seen>>

-----------------------------------------------------------------------------
(* process_update and what run_once does after it *)

Goto(w, l) == pc' = [pc EXCEPT ![w] = l]

(* The next row of the batch; claim_update looks whether its update was
   handled before.                                                          *)
TakeUp(w) ==
  /\ pc[w] = "next"
  /\ \E u \in todo[w] :
       /\ \A v \in todo[w] : event[u].created_at <= event[v].created_at
       /\ todo' = [todo EXCEPT ![w] = @ \ {u}]
       /\ cur' = [cur EXCEPT ![w] = u]
       /\ Goto(w, IF u \in processed THEN "complete" ELSE "handle")
  /\ UNCHANGED <<tables, seen>>

BatchDone(w) ==
  /\ pc[w] = "next"
  /\ todo[w] = {}
  /\ Goto(w, "poll")
  /\ UNCHANGED <<tables, todo, cur, seen>>

(* The update asks for no content: a command, a stranger, an empty message. *)
NothingToMake(w) ==
  /\ pc[w] = "handle"
  /\ Goto(w, "succeed")
  /\ UNCHANGED <<tables, todo, cur, seen>>

(* Fault: the content item is made without looking for an earlier one. *)
FindNoDuplicate(w) ==
  /\ pc[w] = "handle"
  /\ Goto(w, "create")
  /\ UNCHANGED <<tables, todo, cur, seen>>

(* find_duplicate_content by the id of the message. *)
FindDuplicate(w) ==
  /\ pc[w] = "handle"
  /\ Goto(w, IF content[cur[w]] > 0 THEN "succeed" ELSE "create")
  /\ UNCHANGED <<tables, todo, cur, seen>>

(* The content item is inserted and committed; no unique index guards it. *)
CreateContent(w) ==
  /\ pc[w] = "create"
  /\ content' = [content EXCEPT ![cur[w]] = @ + 1]
  /\ Goto(w, "succeed")
  /\ UNCHANGED <<event, processed, todo, cur, seen>>

(* mark_update_processed looks for the row ... *)
FindProcessed(w) ==
  /\ pc[w] = "succeed"
  /\ Goto(w, IF cur[w] \in processed THEN "complete" ELSE "mark")
  /\ UNCHANGED <<tables, todo, cur, seen>>

(* ... and inserts it.  The primary key refuses a second one, and the
   exception is handled like every other.                                   *)
InsertProcessed(w) ==
  /\ pc[w] = "mark"
  /\ processed' = processed \cup {cur[w]}
  /\ Goto(w, IF cur[w] \in processed THEN "failing" ELSE "complete")
  /\ UNCHANGED <<event, content, todo, cur, seen>>

(* Fault: the exception is logged and the row completed all the same. *)
RaiseIsSwallowed(w) ==
  /\ pc[w] \in {"handle", "create", "succeed", "mark", "complete", "completing"}
  /\ Goto(w, "complete")
  /\ UNCHANGED <<tables, todo, cur, seen>>

(* Whatever is raised by process_update, mark_completed or the commit. *)
Raise(w) ==
  /\ pc[w] \in {"handle", "create", "succeed", "mark", "complete", "completing"}
  /\ Goto(w, "failing")
  /\ UNCHANGED <<tables, todo, cur, seen>>

(* mark_completed reads the row ... *)
CompleteRead(w) ==
  /\ pc[w] = "complete"
  /\ IF event[cur[w]].lease_owner = w
     THEN Goto(w, "completing") /\ cur' = cur
     ELSE Goto(w, "next") /\ cur' = [cur EXCEPT ![w] = None]
  /\ UNCHANGED <<tables, todo, seen>>

Released(row, status) ==
  [row EXCEPT !.status = status, !.lease_owner = None, !.lease = "null"]

(* ... and updates it by its primary key, whoever owns it by then. *)
CompleteWrite(w) ==
  /\ pc[w] = "completing"
  /\ event' = [event EXCEPT ![cur[w]] = Released(@, "completed")]
  /\ Goto(w, "next")
  /\ cur' = [cur EXCEPT ![w] = None]
  /\ UNCHANGED <<processed, content, todo, seen>>

(* mark_failed reads the row ... *)
FailRead(w) ==
  /\ pc[w] = "failing"
  /\ IF event[cur[w]].lease_owner = w
     THEN /\ seen' = [seen EXCEPT ![w] = event[cur[w]].attempts]
          /\ Goto(w, "fail_write") /\ cur' = cur
     ELSE Goto(w, "next") /\ cur' = [cur EXCEPT ![w] = None] /\ seen' = seen
  /\ UNCHANGED <<tables, todo>>

(* Fault: the last attempt is given up before it is made. *)
StatusOneAttemptEarly(attempts) ==
  IF attempts + 1 >= MaxAttempts THEN "failed" ELSE "retry"

StatusAfterFailure(attempts) ==
  IF attempts >= MaxAttempts THEN "failed" ELSE "retry"

(* ... and decides by the attempts it read.  attempts itself is not written. *)
FailWrite(w) ==
  /\ pc[w] = "fail_write"
  /\ event' = [event EXCEPT ![cur[w]] =
                 [Released(@, StatusAfterFailure(seen[w])) EXCEPT
                    !.available = FALSE]]
  /\ Goto(w, "next")
  /\ cur' = [cur EXCEPT ![w] = None]
  /\ seen' = [seen EXCEPT ![w] = 0]
  /\ UNCHANGED <<processed, content, todo>>

Handle(w) ==
  \/ TakeUp(w) \/ BatchDone(w)
  \/ NothingToMake(w) \/ FindDuplicate(w) \/ CreateContent(w)
  \/ FindProcessed(w) \/ InsertProcessed(w)
  \/ CompleteRead(w) \/ CompleteWrite(w)
  \/ FailRead(w) \/ FailWrite(w)

-----------------------------------------------------------------------------
(* Processes and time *)

(* The process dies, killed or by an exception mark_failed lets through, and is
   started again under a new worker_id; its rows keep the old one.  A stop
   signal takes effect only between batches and changes nothing here.       *)
Crash(w) ==
  /\ pc[w] # "poll"
  /\ event' = [u \in Updates |->
                 IF event[u].lease_owner = w
                 THEN [event[u] EXCEPT !.lease_owner = Gone] ELSE event[u]]
  /\ pc' = [pc EXCEPT ![w] = "poll"]
  /\ todo' = [todo EXCEPT ![w] = {}]
  /\ cur' = [cur EXCEPT ![w] = None]
  /\ seen' = [seen EXCEPT ![w] = 0]
  /\ UNCHANGED <<processed, content>>

(* Nothing renews a lease: it may run out at any moment. *)
ExpireLease(u) ==
  /\ event[u].lease = "valid"
  /\ event' = [event EXCEPT ![u].lease = "expired"]
  /\ UNCHANGED <<processed, content, workers>>

(* The backoff of a failed attempt is over. *)
BackoffElapses(u) ==
  /\ event[u].status = "retry"
  /\ ~event[u].available
  /\ event' = [event EXCEPT ![u].available = TRUE]
  /\ UNCHANGED <<processed, content, workers>>

Next ==
  \/ \E w \in Workers : ClaimBatch(w) \/ Handle(w) \/ Raise(w) \/ Crash(w)
  \/ \E u \in Updates : Enqueue(u) \/ ExpireLease(u) \/ BackoffElapses(u)

Spec == Init /\ [][Next]_vars

-----------------------------------------------------------------------------
(* Safety *)

Labels ==
  {"poll", "next", "handle", "create", "succeed", "mark",
   "complete", "completing", "failing", "fail_write"}

(* Every variable keeps its type, and the counter keeps its limit. *)
TypeOK ==
  /\ event \in [Updates -> Event]
  /\ processed \subseteq Updates
  /\ content \in [Updates -> Nat]
  /\ pc \in [Workers -> Labels]
  /\ todo \in [Workers -> SUBSET Updates]
  /\ cur \in [Workers -> Updates \cup {None}]
  /\ seen \in [Workers -> Nat]
  /\ \A u \in Updates : event[u].attempts <= MaxAttempts

(* The row says completed only of an update that was handled to the end and
   recorded as such; an exception or a lost lease never completes a row.    *)
CompletedIsProcessed ==
  \A u \in Updates : event[u].status = "completed" => u \in processed

(* An update is given up only when every attempt was used, even if the worker
   that gives it up read the counter before others claimed the row.         *)
FailedIsExhausted ==
  \A u \in Updates :
    event[u].status = "failed" => event[u].attempts = MaxAttempts

(* Workers that may still make content of the update if nothing stops them. *)
Pending(u) ==
  {w \in Workers :
     u \in todo[w] \/ (cur[w] = u /\ pc[w] \in {"handle", "create"})}

(* However many workers hold one update after its lease ran out, every content
   item made of it was paid for by a claim of its own, so MAX_ATTEMPTS bounds
   the duplicates.                                                          *)
ContentIsPaidFor ==
  \A u \in Updates :
    content[u] + Cardinality(Pending(u)) <= event[u].attempts

(* A message becomes one content item, whatever crashes and is handled again.
   True while one worker runs at a time, as the deployment has it.          *)
OneContent == \A u \in Updates : content[u] <= 1

(* A finished row is never touched again.  True while one worker runs. *)
FinishedIsFinal ==
  [][\A u \in Updates : event[u].status \in Finished => event'[u] = event[u]]_vars

RowInv(u) == event[u].status = "absent" => event[u] = NoEvent

(* The inductive invariant: a worker completes or fails a row only with the
   evidence in its hands, and a claimed row is in the hands of a worker once. *)
WorkerInv(w) ==
  /\ pc[w] = "poll" => todo[w] = {}
  /\ pc[w] \in {"poll", "next"} <=> cur[w] = None
  /\ cur[w] \notin todo[w]
  /\ \A u \in todo[w] \cup ({cur[w]} \ {None}) : event[u].attempts >= 1
  /\ pc[w] \in {"complete", "completing"} => cur[w] \in processed
  /\ pc[w] = "fail_write" => seen[w] <= event[cur[w]].attempts

QueueInv ==
  /\ TypeOK
  /\ CompletedIsProcessed
  /\ FailedIsExhausted
  /\ ContentIsPaidFor
  /\ \A u \in Updates : RowInv(u)
  /\ \A w \in Workers : WorkerInv(w)

-----------------------------------------------------------------------------
(* Progress *)

(* A running worker goes on with its batch and claims again; handlers return
   or raise; clocks advance.  Telegram, exceptions and crashes owe nothing.  *)
Fairness ==
  /\ \A w \in Workers : WF_vars(ClaimBatch(w)) /\ WF_vars(Handle(w))
  /\ \A u \in Updates : WF_vars(ExpireLease(u)) /\ WF_vars(BackoffElapses(u))

FairSpec == Spec /\ Fairness

Held(u) == \E w \in Workers : u \in todo[w] \/ cur[w] = u

(* A stored update is completed or given up, or else a process died holding
   it on its last attempt: crashes, exceptions and lost leases delay an update
   but never strand it while attempts are left.                             *)
UpdatesSettle ==
  \A u \in Updates :
    event[u].status = "pending" ~>
      \/ event[u].status \in Finished
      \/ event[u].attempts = MaxAttempts /\ ~Held(u)

-----------------------------------------------------------------------------
(* A statement of the repository that the code does not keep.  (OneContent,
   with two workers, is the other.) *)

(* telegram_service.py: "Failures leave the update reclaimable via the webhook
   queue lease."                                                            *)
FailuresAreReclaimable ==
  \A u \in Updates :
    event[u].status = "processing" /\ ~Held(u) => event[u].attempts < MaxAttempts
=============================================================================
