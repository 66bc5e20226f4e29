---------------------------- MODULE AutomationJobs ----------------------------
(***************************************************************************)
(* Durable retries of a failed automation execution: the jobs of one flow  *)
(* and one root execution, the scheduler workers that claim and process    *)
(* them, and the operators who cancel, requeue, retry and pause.           *)
(*                                                                         *)
(* A worker checks the lease of a job on an unlocked read and then flushes *)
(* "running" by primary key, which takes the row lock.  Most actions write *)
(* to the same session, and the job, the execution and the action commit   *)
(* together.  The action create_crm_lead commits in the middle: the job    *)
(* and the execution are then durable as "running", the row lock is gone,  *)
(* and the result is written later, over whatever the rows have become, or *)
(* never.                                                                  *)
(***************************************************************************)
EXTENDS Naturals, FiniteSets

CONSTANTS
  Limit,          (* max_retry_attempts of the flow                        *)
  Generations,    (* bound: how often a job is requeued                    *)
  Workers,        (* processes of the scheduler worker                     *)
  Operators,      (* sessions of the API                                   *)
  BatchSize,      (* settings.AUTOMATION_SCHEDULER_BATCH_SIZE              *)
  MaxRecoveries,  (* MAX_LEASE_RECOVERIES                                  *)
  Troubles,       (* bound: crashes, leases outrun, errors, flow paused    *)
  Requests,       (* bound: cancellations, requeues and manual retries     *)
  None

ASSUME AutomationAssumption ==
  /\ Limit \in Nat \ {0}
  /\ Generations \in Nat
  /\ BatchSize \in Nat \ {0}
  /\ MaxRecoveries \in Nat
  /\ Troubles \in Nat
  /\ Requests \in Nat
  /\ None \notin Workers
  /\ None \notin (1 .. Limit) \X (0 .. Generations)

VARIABLES
  flow,      (* its status, enabled or paused, and its action              *)
  exec,      (* retry executions of the root, by retry number              *)
  row,       (* jobs, by attempt number and requeue generation             *)
  lock,      (* the worker whose open transaction holds a job's row lock   *)
  batch,     (* jobs a worker has claimed and not come to yet              *)
  work,      (* the job a worker is at, and how far it has got             *)
  request,   (* the job an operator has read as scheduled, to cancel it    *)
  manual,    (* retries an API request has started and not finished        *)
  ran,       (* executions that a job has brought about                    *)
  dropped,   (* history: failures whose follow-up could not be enqueued    *)
  troubles,
  requests

bounds == <<troubles, requests>>
vars   == <<flow, exec, row, lock, batch, work, request, manual, ran, dropped, bounds>>

-----------------------------------------------------------------------------
(* Rows *)

Numbers == 1 .. Limit

Jobs == Numbers \X (0 .. Generations)

Attempt(j) == j[1]

(* "rejected" is a failed execution that is not retryable. *)
Results == {"success", "failed", "rejected"}

(* A job that failed is told apart by why: "failed" with its execution,
   "unfinished" when it adopted an execution that was still running,
   "scheduler_error" when an exception left the attempt.                     *)
Failed == {"failed", "unfinished", "scheduler_error"}

Ended == {"succeeded", "dead_letter", "cancelled"} \cup Failed

Row == [status : {"absent", "scheduled", "leased", "running"} \cup Ended,
        owner : Workers \cup {None}, expired : BOOLEAN,
        recoveries : Nat]

NoRow == [status |-> "absent", owner |-> None, expired |-> FALSE, recoveries |-> 0]

Idle == [at |-> "idle", job |-> None, next |-> 1]

Work == [at : {"idle", "checked", "flushed", "evaluated", "numbered", "started"},
         job : Jobs \cup {None}, next : Nat]

TypeOK ==
  /\ flow \in [status : {"enabled", "paused"}, action : {"create_crm_lead", "other"}]
  /\ exec \in [Numbers -> {"none", "running"} \cup Results]
  /\ row \in [Jobs -> Row]
  /\ lock \in [Jobs -> Workers \cup {None}]
  /\ batch \in [Workers -> SUBSET Jobs]
  /\ work \in [Workers -> Work]
  /\ \A w \in Workers : work[w].at = "idle" <=> work[w].job = None
  /\ request \in [Operators -> Jobs \cup {None}]
  /\ manual \subseteq Numbers
  /\ ran \in [Jobs -> Nat]
  /\ dropped \subseteq Numbers
  /\ troubles \in Nat
  /\ requests \in Nat

(* The root execution has failed and its first retry is enqueued. *)
Init ==
  /\ flow \in {[status |-> "enabled", action |-> a] : a \in {"create_crm_lead", "other"}}
  /\ exec = [n \in Numbers |-> "none"]
  /\ row = [j \in Jobs |-> IF j = <<1, 0>> THEN [NoRow EXCEPT !.status = "scheduled"] ELSE NoRow]
  /\ lock = [j \in Jobs |-> None]
  /\ batch = [w \in Workers |-> {}]
  /\ work = [w \in Workers |-> Idle]
  /\ request = [o \in Operators |-> None]
  /\ manual = {}
  /\ ran = [j \in Jobs |-> 0]
  /\ dropped = {}
  /\ troubles = 0
  /\ requests = 0

Trouble == troubles < Troubles /\ troubles' = troubles + 1

Asked == requests < Requests /\ requests' = requests + 1

Released(r, status) == [r EXCEPT !.status = status, !.owner = None, !.expired = FALSE]

-----------------------------------------------------------------------------
(* claim_batch: recover_expired_leases, then claim_due_jobs *)

(* Fault: only leased rows are recovered. *)
LeasedLapsed(j) ==
  row[j].status = "leased" /\ row[j].owner # None /\ row[j].expired /\ lock[j] = None

(* A lease that ran out, on a row no transaction has locked.  A row without a
   lease is never selected.                                                  *)
Lapsed(j) ==
  /\ row[j].status \in {"leased", "running"}
  /\ row[j].owner # None /\ row[j].expired
  /\ lock[j] = None

Recovered(r) ==
  [Released(r, IF r.recoveries + 1 > MaxRecoveries THEN "dead_letter" ELSE "scheduled")
     EXCEPT !.recoveries = r.recoveries + 1]

Swept == [j \in Jobs |-> IF Lapsed(j) THEN Recovered(row[j]) ELSE row[j]]

(* The worker polls: expired leases are recovered, and jobs that are due are
   leased to it, up to the batch size.                                      *)
ClaimBatch(w, js) ==
  /\ work[w] = Idle
  /\ batch[w] = {}
  /\ js # {} => flow.status = "enabled"
  /\ Cardinality(js) <= BatchSize
  /\ \A j \in js : Swept[j].status = "scheduled" /\ lock[j] = None
  /\ row' = [j \in Jobs |->
               IF j \in js
               THEN [Swept[j] EXCEPT !.status = "leased", !.owner = w, !.expired = FALSE]
               ELSE Swept[j]]
  /\ batch' = [batch EXCEPT ![w] = js]
  /\ UNCHANGED <<flow, exec, lock, work, request, manual, ran, dropped, bounds>>

-----------------------------------------------------------------------------
(* process_job *)

Goto(w, j, at, next) == work' = [work EXCEPT ![w] = [at |-> at, job |-> j, next |-> next]]

(* The worker reads the next job of its batch, without a lock.  If the job is
   not its own any more, process_job raises and run_once is left, with the
   rest of the batch.                                                       *)
Check(w, j) ==
  /\ work[w] = Idle
  /\ j \in batch[w]
  /\ IF row[j].owner = w /\ row[j].status \in {"leased", "running"}
     THEN /\ batch' = [batch EXCEPT ![w] = @ \ {j}]
          /\ Goto(w, j, "checked", 1)
     ELSE /\ batch' = [batch EXCEPT ![w] = {}]
          /\ work' = work
  /\ UNCHANGED <<flow, exec, row, lock, request, manual, ran, dropped, bounds>>

(* It flushes running over whatever the row has become, as soon as no other
   transaction has it locked.                                               *)
Flush(w) ==
  LET j == work[w].job IN
  /\ work[w].at = "checked"
  /\ lock[j] = None
  /\ lock' = [lock EXCEPT ![j] = w]
  /\ Goto(w, j, "flushed", 1)
  /\ UNCHANGED <<flow, exec, row, batch, request, manual, ran, dropped, bounds>>

(* The outcome of the job is written and the transaction commits. *)
Commit(w, status) ==
  LET j == work[w].job IN
  /\ row' = [row EXCEPT ![j] = Released(@, status)]
  /\ lock' = [lock EXCEPT ![j] = None]
  /\ work' = [work EXCEPT ![w] = Idle]

(* Fault: a retry that exists already counts as done. *)
OptimisticStatus(result) == IF result = "rejected" THEN "dead_letter" ELSE "succeeded"

StatusAfter(result) ==
  CASE result = "success"  -> "succeeded"
    [] result = "failed"   -> "failed"
    [] result = "rejected" -> "dead_letter"
    [] result = "running"  -> "unfinished"

(* Fault: the retry of the job's own number is not looked for. *)
DecideBlindly(w) ==
  LET j == work[w].job IN
  /\ work[w].at = "flushed"
  /\ IF flow.status = "paused"
     THEN Commit(w, "scheduled")
     ELSE Goto(w, j, "evaluated", 1) /\ UNCHANGED <<row, lock>>
  /\ UNCHANGED <<flow, exec, batch, request, manual, ran, dropped, bounds>>

(* _execute_automation_retry up to its decision: a paused flow puts the job
   back, and the execution with the job's retry number is adopted if it
   exists, whether or not it has a result.                                  *)
Decide(w) ==
  LET j == work[w].job IN
  /\ work[w].at = "flushed"
  /\ IF flow.status = "paused"
     THEN Commit(w, "scheduled")
     ELSE IF exec[Attempt(j)] # "none"
     THEN Commit(w, StatusAfter(exec[Attempt(j)]))
     ELSE Goto(w, j, "evaluated", 1) /\ UNCHANGED <<row, lock>>
  /\ UNCHANGED <<flow, exec, batch, request, manual, ran, dropped, bounds>>

(* The number of the next retry is the count of retries plus one. *)
NextNumber(e) == Cardinality({n \in Numbers : e[n] # "none"}) + 1

(* retry_execution evaluates the eligibility once more and takes the number
   from it.                                                                 *)
Evaluate(w) ==
  /\ work[w].at = "evaluated"
  /\ IF NextNumber(exec) > Limit
     THEN Commit(w, "dead_letter")
     ELSE Goto(w, work[w].job, "numbered", NextNumber(exec)) /\ UNCHANGED <<row, lock>>
  /\ UNCHANGED <<flow, exec, batch, request, manual, ran, dropped, bounds>>

(* Fault: only the first failure of a root is followed up. *)
FollowedOnce(rows, m, result) == rows

(* enqueue_automatic_retry: a retryable failure enqueues the job of number m,
   the count of retries plus one, within the limit and unless the job with
   that key exists.                                                         *)
FollowedUp(rows, m, result) ==
  IF result = "failed" /\ m <= Limit /\ rows[<<m, 0>>].status = "absent"
  THEN [rows EXCEPT ![<<m, 0>>].status = "scheduled"]
  ELSE rows

(* _execute_flow finds the number used since it was counted: that execution is
   adopted.                                                                 *)
Adopt(w) ==
  /\ work[w].at = "numbered"
  /\ exec[work[w].next] # "none"
  /\ Commit(w, StatusAfter(exec[work[w].next]))
  /\ UNCHANGED <<flow, exec, batch, request, manual, ran, dropped, bounds>>

(* Fault: a number that has been used since it was counted is written over. *)
ExecuteOver(w, result) ==
  LET j == work[w].job
      n == work[w].next
  IN
  /\ work[w].at = "numbered"
  /\ flow.action = "create_crm_lead" => result # "success"
  /\ exec' = [exec EXCEPT ![n] = result]
  /\ ran' = [ran EXCEPT ![j] = @ + 1]
  /\ row' = FollowedUp([row EXCEPT ![j] = Released(@, StatusAfter(result))], n + 1, result)
  /\ lock' = [lock EXCEPT ![j] = None]
  /\ work' = [work EXCEPT ![w] = Idle]
  /\ UNCHANGED <<flow, batch, request, manual, dropped, bounds>>

(* The execution is inserted, acts and gets its result, and all of it commits
   with the job.  create_crm_lead comes this way when it fails before its own
   commit.                                                                   *)
Execute(w, result) ==
  LET j == work[w].job
      n == work[w].next
  IN
  /\ work[w].at = "numbered"
  /\ exec[n] = "none"
  /\ flow.action = "create_crm_lead" => result # "success"
  /\ exec' = [exec EXCEPT ![n] = result]
  /\ ran' = [ran EXCEPT ![j] = @ + 1]
  /\ row' = FollowedUp([row EXCEPT ![j] = Released(@, StatusAfter(result))], n + 1, result)
  /\ lock' = [lock EXCEPT ![j] = None]
  /\ work' = [work EXCEPT ![w] = Idle]
  /\ UNCHANGED <<flow, batch, request, manual, dropped, bounds>>

(* create_lead commits the session: the lead is there, and the execution and
   the job are committed as running, whatever the job has become, with the
   owner and the lease it has by now.  It was leased when it was read: a job
   that is running has an execution to adopt.                                *)
Start(w) ==
  LET j == work[w].job
      n == work[w].next
  IN
  /\ work[w].at = "numbered"
  /\ exec[n] = "none"
  /\ flow.action = "create_crm_lead"
  /\ exec' = [exec EXCEPT ![n] = "running"]
  /\ ran' = [ran EXCEPT ![j] = @ + 1]
  /\ row' = [row EXCEPT ![j].status = "running"]
  /\ lock' = [lock EXCEPT ![j] = None]
  /\ Goto(w, j, "started", n)
  /\ UNCHANGED <<flow, batch, request, manual, dropped, bounds>>

(* The result of a started execution is written by primary key, as is the job
   once no other transaction has it locked.  An error after the commit is a
   crm_error, which is retryable.  The retries were counted at some moment
   since the start.                                                          *)
Finish(w, result) ==
  LET j == work[w].job
      n == work[w].next
  IN
  /\ work[w].at = "started"
  /\ lock[j] = None
  /\ result # "rejected"
  /\ exec' = [exec EXCEPT ![n] = result]
  /\ \E m \in (n + 1) .. NextNumber(exec) :
       row' = FollowedUp([row EXCEPT ![j] = Released(@, StatusAfter(result))], m, result)
  /\ work' = [work EXCEPT ![w] = Idle]
  /\ UNCHANGED <<flow, lock, batch, request, manual, ran, dropped, bounds>>

-----------------------------------------------------------------------------
(* What goes wrong *)

(* Fault: the job in hand is not let go of. *)
CrashHolding(w) ==
  /\ work[w] # Idle \/ batch[w] # {}
  /\ Trouble
  /\ work' = [work EXCEPT ![w].at = "idle"]
  /\ batch' = [batch EXCEPT ![w] = {}]
  /\ lock' = [j \in Jobs |-> IF lock[j] = w THEN None ELSE lock[j]]
  /\ UNCHANGED <<flow, exec, row, request, manual, ran, dropped, requests>>

(* The process dies or is stopped, or an exception leaves run_once, as it does
   when the session is broken: the open transaction is rolled back, the rows
   stay as they were committed, and nothing finishes what was started.       *)
Crash(w) ==
  /\ work[w] # Idle \/ batch[w] # {}
  /\ Trouble
  /\ work' = [work EXCEPT ![w] = Idle]
  /\ batch' = [batch EXCEPT ![w] = {}]
  /\ lock' = [j \in Jobs |-> IF lock[j] = w THEN None ELSE lock[j]]
  /\ UNCHANGED <<flow, exec, row, request, manual, ran, dropped, requests>>

(* Any other exception ends the job: the error branch of process_job. *)
SchedulerError(w) ==
  /\ work[w].at \in {"flushed", "evaluated", "numbered"}
  /\ Trouble
  /\ Commit(w, "scheduler_error")
  /\ UNCHANGED <<flow, exec, batch, request, manual, ran, dropped, requests>>

(* The same when the failure of the execution is already written and its
   follow-up cannot be enqueued.                                            *)
FollowUpError(w) ==
  LET j == work[w].job
      n == work[w].next
  IN
  /\ \/ /\ work[w].at = "numbered" /\ exec[n] = "none"
        /\ ran' = [ran EXCEPT ![j] = @ + 1]
     \/ /\ work[w].at = "started" /\ lock[j] = None
        /\ UNCHANGED ran
  /\ Trouble
  /\ exec' = [exec EXCEPT ![n] = "failed"]
  /\ dropped' = dropped \cup {n}
  /\ Commit(w, "scheduler_error")
  /\ UNCHANGED <<flow, batch, request, manual, requests>>

Held(j) == \E w \in Workers : row[j].owner = w /\ (j \in batch[w] \/ work[w].job = j)

(* A lease runs out; nothing renews it while its worker is busy. *)
Expire(j) ==
  /\ row[j].status \in {"leased", "running"}
  /\ row[j].owner # None
  /\ ~row[j].expired
  /\ IF Held(j) THEN Trouble ELSE UNCHANGED troubles
  /\ row' = [row EXCEPT ![j].expired = TRUE]
  /\ UNCHANGED <<flow, exec, lock, batch, work, request, manual, ran, dropped, requests>>

-----------------------------------------------------------------------------
(* Operators *)

PauseFlow ==
  /\ flow.status = "enabled"
  /\ Trouble
  /\ flow' = [flow EXCEPT !.status = "paused"]
  /\ UNCHANGED <<exec, row, lock, batch, work, request, manual, ran, dropped, requests>>

EnableFlow ==
  /\ flow.status = "paused"
  /\ flow' = [flow EXCEPT !.status = "enabled"]
  /\ UNCHANGED <<exec, row, lock, batch, work, request, manual, ran, dropped, bounds>>

(* cancel_job reads the job as scheduled ... *)
AskCancel(o, j) ==
  /\ request[o] = None
  /\ row[j].status = "scheduled"
  /\ Asked
  /\ request' = [request EXCEPT ![o] = j]
  /\ UNCHANGED <<flow, exec, row, lock, batch, work, manual, ran, dropped, troubles>>

(* ... and writes it by primary key.  The owner was NULL when it was read, so
   that it is not written.                                                  *)
Cancel(o) ==
  LET j == request[o] IN
  /\ j # None
  /\ lock[j] = None
  /\ row' = [row EXCEPT ![j].status = "cancelled"]
  /\ request' = [request EXCEPT ![o] = None]
  /\ UNCHANGED <<flow, exec, lock, batch, work, manual, ran, dropped, bounds>>

(* requeue_job: a new job of the next generation. *)
Requeue(j) ==
  LET child == <<Attempt(j), j[2] + 1>> IN
  /\ row[j].status \in Failed \cup {"dead_letter"}
  /\ flow.status = "enabled"
  /\ j[2] < Generations
  /\ row[child].status = "absent"
  /\ Asked
  /\ row' = [row EXCEPT ![child].status = "scheduled"]
  /\ UNCHANGED <<flow, exec, lock, batch, work, request, manual, ran, dropped, troubles>>

(* The API retries a failed execution, the root or a retry, at once, whatever
   has become of the later ones, and whether or not the flow is paused.     *)
RetryExecution(result) ==
  LET n == NextNumber(exec) IN
  /\ n <= Limit
  /\ flow.action = "create_crm_lead" => result # "success"
  /\ Asked
  /\ exec' = [exec EXCEPT ![n] = result]
  /\ row' = FollowedUp(row, n + 1, result)
  /\ UNCHANGED <<flow, lock, batch, work, request, manual, ran, dropped, troubles>>

(* The same with the commit of create_lead in the middle.  The request may be
   cut off at its time limit, or fail; then the execution stays running.    *)
StartRetry ==
  LET n == NextNumber(exec) IN
  /\ n <= Limit
  /\ flow.action = "create_crm_lead"
  /\ Asked
  /\ exec' = [exec EXCEPT ![n] = "running"]
  /\ manual' = manual \cup {n}
  /\ UNCHANGED <<flow, row, lock, batch, work, request, ran, dropped, troubles>>

FinishRetry(n, result) ==
  /\ n \in manual
  /\ result # "rejected"
  /\ exec' = [exec EXCEPT ![n] = result]
  /\ \E m \in (n + 1) .. NextNumber(exec) : row' = FollowedUp(row, m, result)
  /\ manual' = manual \ {n}
  /\ UNCHANGED <<flow, lock, batch, work, request, ran, dropped, bounds>>

-----------------------------------------------------------------------------
(* The system *)

Process(w) ==
  \/ \E j \in Jobs : Check(w, j)
  \/ Flush(w)
  \/ Decide(w)
  \/ Evaluate(w)
  \/ Adopt(w)
  \/ \E result \in Results : Execute(w, result)
  \/ Start(w)
  \/ \E result \in Results : Finish(w, result)

Next ==
  \/ \E w \in Workers :
       \/ (\E js \in SUBSET Jobs : ClaimBatch(w, js)) \/ Process(w)
       \/ Crash(w) \/ SchedulerError(w) \/ FollowUpError(w)
  \/ \E j \in Jobs : Expire(j) \/ Requeue(j)
  \/ \E o \in Operators : (\E j \in Jobs : AskCancel(o, j)) \/ Cancel(o)
  \/ \E result \in Results :
       RetryExecution(result) \/ \E n \in Numbers : FinishRetry(n, result)
  \/ StartRetry
  \/ PauseFlow \/ EnableFlow

Spec == Init /\ [][Next]_vars

(* The worker polls for ever and a job's delay passes, the database serves
   every statement, and leases run out.  A request of the API that has started
   a retry need not end it.                                                  *)
Fairness ==
  /\ \A w \in Workers :
       /\ WF_vars(Process(w))
       /\ WF_vars(\E js \in SUBSET Jobs : ClaimBatch(w, js))
  /\ \A j \in Jobs : WF_vars(Expire(j))
  /\ \A o \in Operators : WF_vars(Cancel(o))

FairSpec == Spec /\ Fairness

-----------------------------------------------------------------------------
(* Properties *)

(* A job brings about at most one execution, however often it is claimed,
   recovered and processed by workers that have lost its lease.             *)
OneExecutionPerJob == \A j \in Jobs : ran[j] <= 1

(* A job is called succeeded or failed for an execution that exists with that
   result, its own or a later one of the root.  A job that was given up for
   an execution without a result belongs to a flow whose action commits in
   the middle, and that execution was really begun.                         *)
EndedIsExecuted ==
  \A j \in Jobs :
    /\ row[j].status = "succeeded" =>
         \E n \in Numbers : n >= Attempt(j) /\ exec[n] = "success"
    /\ row[j].status = "failed" =>
         \E n \in Numbers : n >= Attempt(j) /\ exec[n] = "failed"
    /\ row[j].status = "unfinished" =>
         /\ flow.action = "create_crm_lead"
         /\ \E n \in Numbers : n >= Attempt(j) /\ exec[n] # "none"

(* Retries are numbered without a gap, and when retries are left, a retryable
   failure has the job of a later one, whoever ran it and however late its
   result came, unless the follow-up itself met an error.                   *)
FailuresAreFollowedUp ==
  \A n \in Numbers :
    /\ exec[n] # "none" /\ n > 1 => exec[n - 1] # "none"
    /\ exec[n] = "failed" /\ n \notin dropped /\ NextNumber(exec) <= Limit =>
         \E m \in (n + 1) .. NextNumber(exec) : row[<<m, 0>>].status # "absent"

(* The retries of a root keep the promise of RetryChain: a result is never
   written over, by a worker whose count or lease has become stale either,
   each job brings about at most one retry and so does each request of the
   API, and a failure is recorded together with the job of a later retry or
   as lost.                                                                  *)
Chain == INSTANCE RetryChain WITH
  result <- exec,
  asked  <- {j \in Jobs : row[j].status # "absent"},
  served <- {j \in Jobs : ran[j] > 0},
  lost   <- dropped

ImplementsChain == Chain!Spec

(* A worker that had lost the lease of a job committed it as running and died:
   the row has no lease, and nothing looks at it any more.                  *)
Stranded(j) ==
  /\ row[j].status = "running" /\ row[j].owner = None
  /\ \A w \in Workers : work[w].job # j

Unfinished ==
  \E j \in Jobs : row[j].status \in {"scheduled", "leased", "running"} /\ ~Stranded(j)

(* When operators leave the flow enabled, there comes a moment when every job
   has ended, but for those that are stranded.                              *)
JobsEnd == <>[](flow.status = "enabled") => (Unfinished ~> ~Unfinished)
=============================================================================
