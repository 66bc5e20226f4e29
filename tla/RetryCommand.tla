---------------------------- MODULE RetryCommand ----------------------------
(***************************************************************************)
(* The durable retry-command pipeline.  An operator asks for a retry of a  *)
(* failed publish attempt; the request becomes a row of                    *)
(* publish_retry_commands.  Worker processes claim rows under a lease and  *)
(* drive each one through                                                  *)
(*                                                                         *)
(*   prepare (TX1) -> stop check -> write barrier (TX2)                    *)
(*           -> one provider call (no transaction) -> finalize (TX3)       *)
(*                                                                         *)
(* while leases expire, other workers reclaim, processes are stopped or    *)
(* killed, transactions fail, feature gates are flipped, the normal        *)
(* publish path succeeds on the same destination, and operators resolve    *)
(* stranded rows by hand.                                                  *)
(*                                                                         *)
(* A row that the pipeline selects FOR UPDATE stays locked until its       *)
(* transaction ends.  TX1 and TX2 also read rows they do not lock (live    *)
(* successes), so each is two steps, the checks and the commit, with the   *)
(* command row locked between them.  The other transactions only read rows *)
(* they have locked and are one step.                                      *)
(***************************************************************************)
EXTENDS Naturals, FiniteSets

CONSTANTS
  Commands,      (* ids a creation request would give to a new row        *)
  Workers,       (* worker process instances; each start has a fresh id   *)
  PostIds,       (* ids of posts at the provider                          *)
  Destinations,  (* (tenant, content, platform, account)                  *)
  Keys,          (* idempotency keys: destination, version and original   *)
  Key,           (* the key a request computes                            *)
  Dest,          (* the destination of the request's original attempt     *)
  BatchLimit,    (* rows one claim transaction may take                   *)
  None

ASSUME ConstantsAssumption ==
  /\ IsFiniteSet(Commands)
  /\ Key \in [Commands -> Keys]
  /\ Dest \in [Commands -> Destinations]
  /\ \A c, d \in Commands : Key[c] = Key[d] => Dest[c] = Dest[d]
  /\ BatchLimit \in 1..5
  /\ None \notin Workers \cup PostIds \cup Commands

VARIABLES
  request,       (* progress of each creation request                     *)
  cmd,           (* publish_retry_commands rows                           *)
  att,           (* the publish_attempts row whose retry_command_id is c  *)
  otherSuccess,  (* destinations with a live success of another path      *)
  gates,         (* feature gates that are open                           *)
  pc,            (* control point of each worker process                  *)
  cur,           (* command the worker is orchestrating                   *)
  todo,          (* rows of the last claim batch not yet orchestrated     *)
  stop,          (* stop flag set by SIGTERM                              *)
  result,        (* classified provider outcome held in memory            *)
  writes,        (* history: provider calls made for the command          *)
  effect         (* history: the post the provider really created         *)

rows    == <<request, cmd, att>>
workers == <<pc, cur, todo, stop, result>>
env     == <<otherSuccess, gates>>
history == <<writes, effect>>
vars    == <<rows, workers, env, history>>

-----------------------------------------------------------------------------
(* Rows *)

ActiveStatuses   == {"pending", "claimed", "provider_write_started"}
TerminalStatuses == {"succeeded", "failed", "ambiguous"}
Statuses         == {"absent"} \cup ActiveStatuses \cup TerminalStatuses

(* lease_expires_at is kept as its position relative to the database clock;
   provider_write_started_at and resulting_attempt_id as "is not null".     *)
CommandRow ==
  [status : Statuses, lease_owner : Workers \cup {None},
   lease_expires_at : {"null", "future", "past"},
   provider_write_started_at : BOOLEAN, resulting_attempt_id : BOOLEAN,
   reason_code : {"none", "provider", "operator"}, created_at : Nat]

AttemptRow ==
  [status : {"absent", "operator_review", "success", "failed"},
   failure_code : {"none", "prepared", "write_started",
                   "definitive", "ambiguous"},
   external_post_id : PostIds \cup {None}, finished_at : BOOLEAN]

NoCommand ==
  [status |-> "absent", lease_owner |-> None, lease_expires_at |-> "null",
   provider_write_started_at |-> FALSE, resulting_attempt_id |-> FALSE,
   reason_code |-> "none", created_at |-> 0]

NoAttempt ==
  [status |-> "absent", failure_code |-> "none", external_post_id |-> None,
   finished_at |-> FALSE]

Exists(c)   == cmd[c].status # "absent"
Active(c)   == cmd[c].status \in ActiveStatuses
Terminal(c) == cmd[c].status \in TerminalStatuses

(* The row is held FOR UPDATE by a transaction that has not ended. *)
Locked(c) == \E w \in Workers : pc[w] \in {"preparing", "crossing"} /\ cur[w] = c

(* find_live_success by key, then by destination. *)
LiveSuccess(c) ==
  \/ Dest[c] \in otherSuccess
  \/ \E d \in Commands : att[d].status = "success" /\ Dest[d] = Dest[c]

(* _validate_ownership_and_lease of preparation and of the barrier. *)
Owns(w, c) ==
  /\ cmd[c].status = "claimed"
  /\ cmd[c].lease_owner = w
  /\ cmd[c].lease_expires_at = "future"

-----------------------------------------------------------------------------
Init ==
  /\ request = [c \in Commands |-> "idle"]
  /\ cmd = [c \in Commands |-> NoCommand]
  /\ att = [c \in Commands |-> NoAttempt]
  /\ otherSuccess = {}
  /\ gates = {"claim", "execution"}
  /\ pc = [w \in Workers |-> "off"]
  /\ cur = [w \in Workers |-> None]
  /\ todo = [w \in Workers |-> {}]
  /\ stop = [w \in Workers |-> FALSE]
  /\ result = [w \in Workers |-> [outcome |-> "none", external_post_id |-> None]]
  /\ writes = [c \in Commands |-> 0]
  /\ effect = [c \in Commands |-> None]

-----------------------------------------------------------------------------
(* Creation: create_or_get_command *)

SameKey(c) == {d \in Commands : Exists(d) /\ Key[d] = Key[c]}

(* _find_by_idempotency: an active row of the key, or else any row of it,
   ends the request with a reuse result; otherwise it goes on to insert.   *)
FindCommand(c) ==
  /\ request[c] = "idle"
  /\ request' = [request EXCEPT ![c] = IF SameKey(c) = {} THEN "missed" ELSE "done"]
  /\ UNCHANGED <<cmd, att, workers, env, history>>

(* The insert.  The partial unique index covers active rows only; a conflict
   collapses onto the raced row.                                            *)
InsertCommand(c) ==
  /\ request[c] = "missed"
  /\ request' = [request EXCEPT ![c] = "done"]
  /\ cmd' = IF \E d \in SameKey(c) : Active(d)
              THEN cmd
              ELSE [cmd EXCEPT ![c] =
                     [NoCommand EXCEPT
                        !.status = "pending",
                        !.created_at = 1 + Cardinality({d \in Commands : Exists(d)})]]
  /\ UNCHANGED <<att, workers, env, history>>

-----------------------------------------------------------------------------
(* Claiming: claim_batch *)

(* ORDER BY created_at LIMIT k *)
Oldest(S, k) ==
  {c \in S : Cardinality({d \in S : cmd[d].created_at < cmd[c].created_at}) < k}

(* Fault: a row that already has an attempt is taken for one in progress. *)
StaleWithoutAttempt(c) ==
  /\ cmd[c].status = "claimed"
  /\ cmd[c].lease_expires_at = "past"
  /\ ~cmd[c].resulting_attempt_id

(* Rows _reclaim_stale selects. *)
Stale(c) ==
  /\ cmd[c].status = "claimed"
  /\ cmd[c].lease_expires_at = "past"
  /\ ~cmd[c].provider_write_started_at

(* Fault: SKIP LOCKED without FOR UPDATE semantics, locked rows are taken. *)
LockedToo(S) == S

(* FOR UPDATE SKIP LOCKED *)
Unlocked(S) == {c \in S : ~Locked(c)}

ApplyOwnership(row, w) ==
  [row EXCEPT !.status = "claimed", !.lease_owner = w, !.lease_expires_at = "future"]

(* One transaction: stale rows first, pending rows with what is left. *)
ClaimBatch(w) ==
  /\ pc[w] = "poll" /\ todo[w] = {} /\ ~stop[w]
  /\ "claim" \in gates
  /\ LET reclaimed == Oldest(Unlocked({c \in Commands : Stale(c)}), BatchLimit)
         claimed   == Oldest(Unlocked({c \in Commands : cmd[c].status = "pending"}),
                             BatchLimit - Cardinality(reclaimed))
         taken     == reclaimed \cup claimed
     IN  /\ taken # {}
         /\ cmd' = [c \in Commands |->
                      IF c \in taken THEN ApplyOwnership(cmd[c], w) ELSE cmd[c]]
         /\ todo' = [todo EXCEPT ![w] = taken]
  /\ UNCHANGED <<request, att, pc, cur, stop, result, env, history>>

-----------------------------------------------------------------------------
(* Orchestration of one claimed row *)

Goto(w, label) == pc' = [pc EXCEPT ![w] = label]

BackToPoll(w) ==
  /\ Goto(w, "poll")
  /\ cur' = [cur EXCEPT ![w] = None]
  /\ result' = [result EXCEPT ![w] = [outcome |-> "none", external_post_id |-> None]]

(* The checks of prepare: an attempt that is already linked is reused as it
   is, otherwise a live success of the destination blocks a new one.        *)
BeginPrepare(w, c) ==
  /\ pc[w] = "poll" /\ c \in todo[w] /\ ~stop[w]
  /\ {"claim", "execution"} \subseteq gates
  /\ ~Locked(c)
  /\ Owns(w, c)
  /\ cmd[c].resulting_attempt_id \/ ~LiveSuccess(c)
  /\ Goto(w, "preparing")
  /\ cur' = [cur EXCEPT ![w] = c]
  /\ todo' = [todo EXCEPT ![w] = @ \ {c}]
  /\ UNCHANGED <<rows, stop, result, env, history>>

(* The worker only observes the row (execution off, backend none), or prepare
   refuses it: gate, terminal or post-barrier row, lease, lineage,
   eligibility or live success.  The row keeps its lease.  Eligibility and
   lineage depend on state of other subsystems, so a refusal is always
   possible.                                                                *)
PrepareRefused(w, c) ==
  /\ pc[w] = "poll" /\ c \in todo[w] /\ ~stop[w]
  /\ ~Locked(c)
  /\ todo' = [todo EXCEPT ![w] = @ \ {c}]
  /\ UNCHANGED <<rows, pc, cur, stop, result, env, history>>

PreparedAttempt ==
  [NoAttempt EXCEPT !.status = "operator_review", !.failure_code = "prepared"]

(* TX1 commits.  It may do so after the lease has run out. *)
CommitPrepare(w) ==
  LET c == cur[w] IN
  /\ pc[w] = "preparing"
  /\ cmd' = [cmd EXCEPT ![c].resulting_attempt_id = TRUE]
  /\ att' = IF cmd[c].resulting_attempt_id
              THEN att ELSE [att EXCEPT ![c] = PreparedAttempt]
  /\ Goto(w, "prepared")
  /\ UNCHANGED <<request, cur, todo, stop, result, env, history>>

(* should_stop_before_barrier: the last point at which SIGTERM is honoured. *)
StopBeforeBarrier(w) ==
  /\ pc[w] = "prepared" /\ stop[w]
  /\ BackToPoll(w)
  /\ UNCHANGED <<rows, todo, stop, env, history>>

EnterDrainTerritory(w) ==
  /\ pc[w] = "prepared" /\ ~stop[w]
  /\ Goto(w, "territory")
  /\ UNCHANGED <<rows, cur, todo, stop, result, env, history>>

(* The checks of cross_barrier. *)
BeginBarrier(w) ==
  LET c == cur[w] IN
  /\ pc[w] = "territory"
  /\ {"claim", "execution"} \subseteq gates
  /\ ~Locked(c)
  /\ ~cmd[c].provider_write_started_at
  /\ Owns(w, c)
  /\ cmd[c].resulting_attempt_id
  /\ att[c] = PreparedAttempt
  /\ ~LiveSuccess(c)
  /\ Goto(w, "crossing")
  /\ UNCHANGED <<rows, cur, todo, stop, result, env, history>>

(* already_barriered, terminal, lost lease, ineligible, or newer success. *)
BarrierRefused(w) ==
  /\ pc[w] = "territory"
  /\ ~Locked(cur[w])
  /\ BackToPoll(w)
  /\ UNCHANGED <<rows, todo, stop, env, history>>

(* Fault: the attempt's failure_code does not advance with the command. *)
CommitBarrierCommandOnly(w) ==
  /\ pc[w] = "crossing"
  /\ cmd' = [cmd EXCEPT ![cur[w]].status = "provider_write_started",
                        ![cur[w]].provider_write_started_at = TRUE,
                        ![cur[w]].lease_expires_at = "null"]
  /\ Goto(w, "crossed")
  /\ UNCHANGED <<request, att, cur, todo, stop, result, env, history>>

(* TX2 commits: _apply_barrier_mutation. *)
CommitBarrier(w) ==
  LET c == cur[w] IN
  /\ pc[w] = "crossing"
  /\ cmd' = [cmd EXCEPT ![c].status = "provider_write_started",
                        ![c].provider_write_started_at = TRUE,
                        ![c].lease_expires_at = "null"]
  /\ att' = [att EXCEPT ![c].status = "operator_review",
                        ![c].failure_code = "write_started",
                        ![c].finished_at = FALSE]
  /\ Goto(w, "crossed")
  /\ UNCHANGED <<request, cur, todo, stop, result, env, history>>

(* Fault: the kill switch is read again after the barrier. *)
CallProviderIfOpen(w) ==
  LET c == cur[w] IN
  /\ pc[w] = "crossed" /\ "execution" \in gates
  /\ writes' = [writes EXCEPT ![c] = @ + 1]
  /\ \E p \in PostIds \cup {None} : effect' = [effect EXCEPT ![c] = p]
  /\ Goto(w, "calling")
  /\ UNCHANGED <<rows, cur, todo, stop, result, env>>

(* The one provider call.  No gate and no stop flag is read any more.  The
   provider creates a post or does not, whatever it will answer.            *)
CallProvider(w) ==
  LET c == cur[w] IN
  /\ pc[w] = "crossed"
  /\ writes' = [writes EXCEPT ![c] = @ + 1]
  /\ \E p \in PostIds \cup {None} : effect' = [effect EXCEPT ![c] = p]
  /\ Goto(w, "calling")
  /\ UNCHANGED <<rows, cur, todo, stop, result, env>>

(* What the provider may answer after creating p (None: nothing created).
   A definitive failure asserts that nothing was created.                   *)
Replies(p) ==
  {[kind |-> k, external_post_id |-> None] :
     k \in {"success", "ambiguous", "malformed", "timeout", "exception"}}
  \cup IF p = None
         THEN {[kind |-> "definitive_failure", external_post_id |-> None]}
         ELSE {[kind |-> "success", external_post_id |-> p]}

(* Fault: a timeout is taken for a definitive failure. *)
ClassifyTimeoutAsFailure(raw) ==
  CASE raw.kind = "success" /\ raw.external_post_id # None ->
         [outcome |-> "SUCCESS", external_post_id |-> raw.external_post_id]
    [] raw.kind \in {"definitive_failure", "timeout"} ->
         [outcome |-> "DEFINITIVE_FAILURE", external_post_id |-> None]
    [] OTHER ->
         [outcome |-> "AMBIGUOUS", external_post_id |-> None]

(* Fault: a success without a post id is believed. *)
ClassifyAnySuccess(raw) ==
  CASE raw.kind = "success" ->
         [outcome |-> "SUCCESS", external_post_id |-> raw.external_post_id]
    [] raw.kind = "definitive_failure" ->
         [outcome |-> "DEFINITIVE_FAILURE", external_post_id |-> None]
    [] OTHER ->
         [outcome |-> "AMBIGUOUS", external_post_id |-> None]

(* classify_provider_result and classify_provider_exception *)
Classify(raw) ==
  CASE raw.kind = "success" /\ raw.external_post_id # None ->
         [outcome |-> "SUCCESS", external_post_id |-> raw.external_post_id]
    [] raw.kind = "definitive_failure" ->
         [outcome |-> "DEFINITIVE_FAILURE", external_post_id |-> None]
    [] OTHER ->
         [outcome |-> "AMBIGUOUS", external_post_id |-> None]

ProviderReturns(w) ==
  /\ pc[w] = "calling"
  /\ \E raw \in Replies(effect[cur[w]]) :
       result' = [result EXCEPT ![w] = Classify(raw)]
  /\ Goto(w, "returned")
  /\ UNCHANGED <<rows, cur, todo, stop, env, history>>

-----------------------------------------------------------------------------
(* Finalization: _finalize_locked *)

(* _validate_write_started_markers; the same test guards the operator's
   acknowledgement (_validate_write_started_attempt_lifecycle).             *)
WriteStarted(c) ==
  att[c].status = "operator_review" /\ att[c].failure_code = "write_started"

(* Fault: the terminal short-circuit is dropped. *)
FinalizableAgain(c) ==
  /\ cmd[c].provider_write_started_at
  /\ cmd[c].resulting_attempt_id
  /\ WriteStarted(c)

Finalizable(c) ==
  /\ cmd[c].status = "provider_write_started"
  /\ cmd[c].provider_write_started_at
  /\ cmd[c].resulting_attempt_id
  /\ WriteStarted(c)

FinishedCommand(row, status, reason) ==
  [row EXCEPT !.status = status, !.reason_code = reason]

FinishedAttempt(outcome, post) ==
  CASE outcome = "SUCCESS" ->
         [status |-> "success", failure_code |-> "none",
          external_post_id |-> post, finished_at |-> TRUE]
    [] outcome = "DEFINITIVE_FAILURE" ->
         [status |-> "failed", failure_code |-> "definitive",
          external_post_id |-> None, finished_at |-> TRUE]
    [] OTHER ->
         [status |-> "operator_review", failure_code |-> "ambiguous",
          external_post_id |-> None, finished_at |-> TRUE]

(* Fault: the command gets the classifier's word instead of a status. *)
RawStatusOf(outcome) == outcome

TerminalStatusOf(outcome) ==
  CASE outcome = "SUCCESS" -> "succeeded"
    [] outcome = "DEFINITIVE_FAILURE" -> "failed"
    [] OTHER -> "ambiguous"

(* TX3.  A terminal row is left alone, and so is a row whose attempt does not
   carry the write-started markers (invariant_violation).                    *)
Finalize(w) ==
  LET c == cur[w] IN
  /\ pc[w] = "returned"
  /\ IF Finalizable(c)
       THEN /\ cmd' = [cmd EXCEPT ![c] = FinishedCommand(
                         @, TerminalStatusOf(result[w].outcome), "provider")]
            /\ att' = [att EXCEPT ![c] = FinishedAttempt(
                         result[w].outcome, result[w].external_post_id)]
       ELSE UNCHANGED <<cmd, att>>
  /\ BackToPoll(w)
  /\ UNCHANGED <<request, todo, stop, env, history>>

(* Fault: a failed finalization is retried from before the call. *)
FinalizeFailsReplays(w) ==
  /\ pc[w] = "returned"
  /\ Goto(w, "crossed")
  /\ UNCHANGED <<rows, cur, todo, stop, result, env, history>>

(* TX3 fails: the outcome is lost, nothing is replayed, the worker goes on. *)
FinalizeFails(w) ==
  /\ pc[w] = "returned"
  /\ BackToPoll(w)
  /\ UNCHANGED <<rows, todo, stop, env, history>>

-----------------------------------------------------------------------------
(* Worker processes *)

StartWorker(w) ==
  /\ pc[w] = "off"
  /\ Goto(w, "poll")
  /\ UNCHANGED <<rows, cur, todo, stop, result, env, history>>

RequestStop(w) ==
  /\ pc[w] \notin {"off", "exited"} /\ ~stop[w]
  /\ stop' = [stop EXCEPT ![w] = TRUE]
  /\ UNCHANGED <<rows, pc, cur, todo, result, env, history>>

Leave(w) ==
  /\ Goto(w, "exited")
  /\ cur' = [cur EXCEPT ![w] = None]
  /\ todo' = [todo EXCEPT ![w] = {}]
  /\ result' = [result EXCEPT ![w] = [outcome |-> "none", external_post_id |-> None]]
  /\ UNCHANGED <<rows, stop, env, history>>

(* The loop ends between two rows; claimed rows keep their leases. *)
GracefulExit(w) ==
  /\ pc[w] = "poll" /\ stop[w]
  /\ Leave(w)

(* SIGKILL, os._exit after the drain deadline, or an exception that ends the
   process.  An open transaction rolls back and releases its row lock.      *)
Crash(w) ==
  /\ pc[w] \notin {"off", "exited"}
  /\ Leave(w)

(* The database clock passes lease_expires_at. *)
ExpireLease(c) ==
  /\ cmd[c].lease_expires_at = "future"
  /\ cmd' = [cmd EXCEPT ![c].lease_expires_at = "past"]
  /\ UNCHANGED <<request, att, workers, env, history>>

-----------------------------------------------------------------------------
(* Manual resolution and environment *)

(* Fault: any active command may be resolved by hand. *)
ResolvableAnyActive(c) == Active(c) /\ ~Locked(c)

(* _reject_non_entry_states: only a post-barrier, non-terminal row enters. *)
Resolvable(c) ==
  /\ cmd[c].status = "provider_write_started"
  /\ cmd[c].provider_write_started_at
  /\ cmd[c].resulting_attempt_id
  /\ ~Locked(c)

(* Fault: the attempt is not finished together with the command. *)
MarkAmbiguousCommandOnly(c) ==
  /\ Resolvable(c)
  /\ cmd' = [cmd EXCEPT ![c] = FinishedCommand(@, "ambiguous", "operator")]
  /\ UNCHANGED <<request, att, workers, env, history>>

(* MARK_AMBIGUOUS: one transaction on the command and its attempt, whose
   failure_code stays.                                                      *)
MarkAmbiguous(c) ==
  /\ Resolvable(c)
  /\ cmd' = [cmd EXCEPT ![c] = FinishedCommand(@, "ambiguous", "operator")]
  /\ att' = [att EXCEPT ![c].status = "operator_review", ![c].finished_at = TRUE]
  /\ UNCHANGED <<request, workers, env, history>>

(* ACKNOWLEDGE_EXTERNAL_SUCCESS with the operator's evidence p. *)
AckExternalSuccess(c, p) ==
  /\ Resolvable(c)
  /\ WriteStarted(c)
  /\ att[c].external_post_id \in {None, p}
  /\ cmd' = [cmd EXCEPT ![c] = FinishedCommand(@, "succeeded", "operator")]
  /\ att' = [att EXCEPT ![c] = FinishedAttempt("SUCCESS", p)]
  /\ UNCHANGED <<request, workers, env, history>>

(* The normal publish path records a live success for the destination. *)
OtherPathSucceeds(d) ==
  /\ d \notin otherSuccess
  /\ otherSuccess' = otherSuccess \cup {d}
  /\ UNCHANGED <<rows, workers, gates, history>>

(* Feature gates are flipped: "claim" stands for commands, worker and claim. *)
FlipGate(g) ==
  /\ gates' = IF g \in gates THEN gates \ {g} ELSE gates \cup {g}
  /\ UNCHANGED <<rows, workers, otherSuccess, history>>

-----------------------------------------------------------------------------
Create(c) == FindCommand(c) \/ InsertCommand(c)

Orchestrate(w) ==
  \/ \E c \in Commands : BeginPrepare(w, c) \/ PrepareRefused(w, c)
  \/ CommitPrepare(w)
  \/ StopBeforeBarrier(w)
  \/ EnterDrainTerritory(w)
  \/ BeginBarrier(w)
  \/ BarrierRefused(w)
  \/ CommitBarrier(w)
  \/ CallProvider(w)
  \/ ProviderReturns(w)
  \/ Finalize(w)
  \/ FinalizeFails(w)

Process(w) ==
  StartWorker(w) \/ RequestStop(w) \/ GracefulExit(w) \/ Crash(w)

Resolve(c) ==
  MarkAmbiguous(c) \/ \E p \in PostIds : AckExternalSuccess(c, p)

Environment ==
  \/ \E d \in Destinations : OtherPathSucceeds(d)
  \/ \E g \in {"claim", "execution"} : FlipGate(g)

Next ==
  \/ \E c \in Commands : Create(c) \/ ExpireLease(c) \/ Resolve(c)
  \/ \E w \in Workers : ClaimBatch(w) \/ Orchestrate(w) \/ Process(w)
  \/ Environment

Spec == Init /\ [][Next]_vars

-----------------------------------------------------------------------------
(* Properties *)

Labels == {"off", "poll", "preparing", "prepared", "territory", "crossing",
           "crossed", "calling", "returned", "exited"}

Results == [outcome : {"none", "SUCCESS", "DEFINITIVE_FAILURE", "AMBIGUOUS"},
            external_post_id : PostIds \cup {None}]

(* Every variable keeps the shape the models declare for its row or process. *)
TypeOK ==
  /\ request \in [Commands -> {"idle", "missed", "done"}]
  /\ cmd \in [Commands -> CommandRow]
  /\ att \in [Commands -> AttemptRow]
  /\ otherSuccess \subseteq Destinations
  /\ gates \subseteq {"claim", "execution"}
  /\ pc \in [Workers -> Labels]
  /\ cur \in [Workers -> Commands \cup {None}]
  /\ todo \in [Workers -> SUBSET Commands]
  /\ stop \in [Workers -> BOOLEAN]
  /\ result \in [Workers -> Results]
  /\ writes \in [Commands -> Nat]
  /\ effect \in [Commands -> PostIds \cup {None}]

(* The executor's promise, "at-most-once side effects": however workers crash,
   lose leases, reclaim and restart, one command causes at most one provider
   call, and only after its barrier is durable on both rows.                 *)
AtMostOneWrite ==
  \A c \in Commands :
    /\ writes[c] <= 1
    /\ writes[c] = 1 => /\ cmd[c].provider_write_started_at
                        /\ cmd[c].resulting_attempt_id
                        /\ att[c].failure_code # "prepared"

(* A post that really exists is never attached to a command that says failed,
   nor to one that a worker may still claim and send again.                  *)
EffectAccounted ==
  \A c \in Commands :
    effect[c] # None =>
      cmd[c].status \in {"provider_write_started", "succeeded", "ambiguous"}

(* A success written by the finalizer carries the id of the post the provider
   made for this very command; a failure or an ambiguity carries no id.      *)
SuccessIsAuthentic ==
  \A c \in Commands :
    /\ cmd[c].status = "succeeded" /\ cmd[c].reason_code = "provider" =>
         effect[c] # None /\ att[c].external_post_id = effect[c]
    /\ cmd[c].status \in {"failed", "ambiguous"} => att[c].external_post_id = None

(* The command and its resulting attempt end together and agree, whichever of
   finalizer and operator ends them.                                         *)
RowsAgree ==
  \A c \in Commands :
    /\ cmd[c].status = "succeeded" <=> att[c].status = "success"
    /\ cmd[c].status = "failed"    <=> att[c].status = "failed"
    /\ Terminal(c) <=> att[c].finished_at

(* No row is out of reach of everybody: a claimed row has a lease that can run
   out and an attempt that another worker can take across the barrier, and a
   post-barrier row passes every guard of finalizer and operator.            *)
NeverStuck ==
  \A c \in Commands :
    /\ cmd[c].status = "claimed" =>
         /\ cmd[c].lease_expires_at # "null"
         /\ cmd[c].lease_owner # None
         /\ cmd[c].resulting_attempt_id => att[c] = PreparedAttempt
         /\ ~cmd[c].resulting_attempt_id => att[c] = NoAttempt
    /\ cmd[c].status = "provider_write_started" =>
         /\ Finalizable(c)
         /\ att[c].external_post_id = None

(* First terminal writer wins: neither a late finalizer, nor a second operator,
   nor a reclaiming worker rewrites a terminal command or its attempt.       *)
TerminalIsFinal ==
  [][\A c \in Commands :
       Terminal(c) => cmd'[c] = cmd[c] /\ att'[c] = att[c]]_vars

(* The barrier is crossed only by the worker that owns the row at that moment,
   and the owner that crossed it stays on the row for ever.                  *)
BarrierIsFenced ==
  [][\A c \in Commands :
       /\ cmd'[c].provider_write_started_at /\ ~cmd[c].provider_write_started_at =>
            \E w \in Workers : /\ pc[w] = "crossing" /\ pc'[w] = "crossed"
                               /\ cur[w] = c /\ cmd'[c].lease_owner = w
       /\ cmd[c].provider_write_started_at =>
            /\ cmd'[c].provider_write_started_at
            /\ cmd'[c].lease_owner = cmd[c].lease_owner]_vars

(* While a worker holds the row of a command in a transaction, or is past the
   barrier with it, no other worker is at work past the same point.          *)
OneDriver ==
  \A v, w \in Workers :
    /\ v # w /\ cur[v] = cur[w]
    /\ {pc[v], pc[w]} \subseteq {"crossing", "crossed", "calling", "returned"}
    => cur[v] = None

(* The rows and the provider calls, seen as a promise about each command. *)
StageOf(status) ==
  CASE status = "absent" -> "none"
    [] status \in {"pending", "claimed"} -> "open"
    [] status = "provider_write_started" -> "writing"
    [] OTHER -> status

Stage == [c \in Commands |-> StageOf(cmd[c].status)]

Promise == INSTANCE RetryPromise WITH stage <- Stage, sent <- writes

(* The pipeline with its workers, crashes and operators does nothing to a
   command that the promise of RetryPromise does not allow.                  *)
ImplementsPromise == Promise!Spec

-----------------------------------------------------------------------------
(* The inductive invariant behind the safety properties *)

InPipeline  == {"preparing", "prepared", "territory", "crossing",
                "crossed", "calling", "returned"}
PastBarrier == {"crossed", "calling", "returned"}

(* What the two rows of a command say of each other and of the request. *)
RowInv(c) ==
  /\ request[c] # "done" => ~Exists(c)
  /\ cmd[c].provider_write_started_at
       <=> (cmd[c].status = "provider_write_started" \/ Terminal(c))
  /\ cmd[c].provider_write_started_at =>
       cmd[c].resulting_attempt_id /\ cmd[c].lease_expires_at = "null"
  /\ cmd[c].status \in {"absent", "pending"} => ~cmd[c].resulting_attempt_id
  /\ ~cmd[c].resulting_attempt_id => att[c] = NoAttempt
  /\ cmd[c].resulting_attempt_id /\ ~cmd[c].provider_write_started_at =>
       att[c] = PreparedAttempt
  /\ cmd[c].status = "claimed" =>
       cmd[c].lease_owner \in Workers /\ cmd[c].lease_expires_at # "null"
  /\ cmd[c].status = "provider_write_started" =>
       /\ WriteStarted(c) /\ ~att[c].finished_at
       /\ att[c].external_post_id = None
  /\ cmd[c].status = "succeeded" => att[c].status = "success"
  /\ cmd[c].status = "failed" => att[c].status = "failed"
  /\ cmd[c].status = "ambiguous" => att[c].status = "operator_review"
  /\ cmd[c].status \in {"failed", "ambiguous"} => att[c].external_post_id = None
  /\ Terminal(c) => att[c].finished_at /\ att[c].failure_code # "prepared"

(* What the rows say of the provider calls made. *)
HistoryInv(c) ==
  /\ writes[c] \in 0..1
  /\ writes[c] = 0 => effect[c] = None
  /\ writes[c] = 1 => cmd[c].provider_write_started_at
  /\ cmd[c].status = "failed" => writes[c] = 1 /\ effect[c] = None
  /\ cmd[c].status = "succeeded" /\ cmd[c].reason_code = "provider" =>
       effect[c] # None /\ att[c].external_post_id = effect[c]

(* What a worker may rely on at each control point. *)
WorkerInv(w) ==
  /\ pc[w] \in InPipeline => cur[w] \in Commands
  /\ pc[w] \in {"preparing", "crossing"} =>
       cmd[cur[w]].status = "claimed" /\ cmd[cur[w]].lease_owner = w
  /\ pc[w] = "crossing" => cmd[cur[w]].resulting_attempt_id
  /\ pc[w] \in PastBarrier =>
       cmd[cur[w]].provider_write_started_at /\ cmd[cur[w]].lease_owner = w
  /\ pc[w] = "crossed" => writes[cur[w]] = 0
  /\ pc[w] \in {"calling", "returned"} => writes[cur[w]] = 1
  /\ pc[w] = "returned" =>
       \/ /\ result[w].outcome = "SUCCESS"
          /\ effect[cur[w]] # None
          /\ result[w].external_post_id = effect[cur[w]]
       \/ result[w].outcome = "DEFINITIVE_FAILURE" /\ effect[cur[w]] = None
       \/ result[w].outcome = "AMBIGUOUS"

(* The rows agree, the history agrees with them, and at every control point
   the worker's program counter agrees with both: a row lock or the lease
   owner keeps everybody else away from what the worker has read.            *)
IInv ==
  /\ TypeOK
  /\ \A c \in Commands : RowInv(c) /\ HistoryInv(c)
  /\ \A w \in Workers : WorkerInv(w)

-----------------------------------------------------------------------------
(* Progress *)

(* A running worker keeps executing: a wait for a row lock ends, because the
   transactions that hold one are short (strong fairness), and the provider
   call returns or raises.  The poll loop claims again and again.  Database
   time passes.  Creation, operators, crashes, signals and gates owe nothing. *)
Fairness ==
  /\ \A w \in Workers : SF_vars(Orchestrate(w)) /\ WF_vars(ClaimBatch(w))
  /\ \A c \in Commands : WF_vars(ExpireLease(c))

FairSpec == Spec /\ Fairness

Driven(c) ==
  \E w \in Workers : cur[w] = c /\ pc[w] \in {"crossed", "calling", "returned"}

(* Whatever is flipped or signalled after the barrier, a worker that crossed
   it either settles the command or lets go of it (its finalization failed, or
   it died); it never sits on the row.                                       *)
CrossingSettles ==
  \A c \in Commands : Driven(c) ~> (Terminal(c) \/ ~Driven(c))

Steady(w)    == pc[w] \notin {"off", "exited"} /\ ~stop[w]
Abandoned(c) == /\ cmd[c].status = "claimed"
                /\ pc[cmd[c].lease_owner] = "exited"

(* If some worker keeps running and claiming stays enabled, no request waits
   for ever, and no row stays with a dead worker, whatever point before the
   barrier that worker had reached.                                          *)
AbandonedRowsMove ==
  /\ \E w \in Workers : <>[]Steady(w)
  /\ <>[]("claim" \in gates)
  => \A c \in Commands :
       /\ cmd[c].status = "pending" ~> cmd[c].status # "pending"
       /\ Abandoned(c) ~> ~Abandoned(c)

-----------------------------------------------------------------------------
(* Statements of the repository that the code does not keep *)

(* docs/PHASE_E2_MANUAL_RESOLUTION.md: a command marked ambiguous by an
   operator "remains non-executable forever".                                *)
ResolvedIsNotExecuted ==
  [][\A c \in Commands : writes'[c] # writes[c] => ~Terminal(c)]_vars

=============================================================================
