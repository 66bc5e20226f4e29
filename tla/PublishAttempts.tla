--------------------------- MODULE PublishAttempts ---------------------------
(***************************************************************************)
(* The normal publish path for one content item: publish_content as a user *)
(* calls it, as the scheduler calls it for a due item, and as the          *)
(* scheduler calls it for a due retry; the claims of publish_resilience;   *)
(* the recovery of stale items and attempts; and what is left of a call    *)
(* that is interrupted, cancelled or killed.                               *)
(*                                                                         *)
(* A run is one call of publish_content.  Its session reads committed rows *)
(* and keeps its own writes to itself until it commits, so each run has a  *)
(* draft of the attempts it has written, and a run that has marked the     *)
(* content "publishing" holds the lock of the content row.  Everything     *)
(* that is read without a lock and acted upon later is two steps.          *)
(* Rows that recovery and failure paths add without an idempotency key are *)
(* left out: the publish path never reads them.                            *)
(***************************************************************************)
EXTENDS Naturals, FiniteSets

CONSTANTS
  Runs,          (* calls of publish_content for this content              *)
  Platforms,     (* the platforms the content is to be published on        *)
  Meta,          (* META_PUBLISH_PLATFORMS                                 *)
  Selections,    (* the sets of platforms a user may publish on at a time  *)
  Coordination,  (* settings.PUBLISH_WRITE_COORDINATION_ENABLED            *)
  MaxAttempts,   (* settings.PUBLISH_MAX_ATTEMPTS                          *)
  Sweeper,       (* the session of the scheduler's recovery                *)
  None

ASSUME PublishAssumption ==
  /\ IsFiniteSet(Runs)
  /\ Platforms # {}
  /\ Meta \subseteq Platforms
  /\ Selections \subseteq (SUBSET Platforms) \ {{}}
  /\ Coordination \in BOOLEAN
  /\ MaxAttempts \in Nat \ {0}
  /\ Sweeper \notin Runs
  /\ None \notin Runs \cup Platforms

VARIABLES
  content,       (* the content item                                       *)
  att,           (* att[r][p]: the attempt run r has committed for p       *)
  draft,         (* draft[r][p]: what r has written and not yet committed  *)
  lock,          (* the run that holds the lock of the content row         *)
  advisory,      (* the run that holds the destination lock of a platform  *)
  kind,          (* who called publish_content                             *)
  targets,       (* target_platforms of the run                            *)
  pc,            (* control point of each run and of the sweeper           *)
  cur,           (* the platform a run is at                               *)
  version,       (* publish_version of the run                             *)
  results,       (* what the run has for each platform                     *)
  answer,        (* what the adapter has returned                          *)
  stale,         (* in-progress rows a session has read and will overwrite *)
  posts,         (* posts the providers have made, as <<run, platform>>    *)
  hidden         (* history: posts whose adapter answered with an error    *)

rows   == <<content, att>>
locks  == <<draft, lock, advisory>>
call   == <<kind, targets>>
local  == <<cur, version, results, answer>>
vars   == <<rows, locks, call, local, pc, stale, posts, hidden>>

-----------------------------------------------------------------------------
(* Rows *)

Publishable == {"approved", "scheduled", "failed", "partial_failed"}

ContentItem ==
  [status : Publishable \cup {"publishing", "published"},
   published_at : BOOLEAN, updated_at : Nat, old : BOOLEAN]

AttemptStatuses ==
  {"absent", "in_progress", "success", "operator_review", "retrying",
   "exhausted", "failed"}

(* version stands for the idempotency key, which is made of it and of the
   platform; expired says that the lease or the stale timeout has run out.  *)
Attempt ==
  [status : AttemptStatuses, version : Nat, number : Nat, expired : BOOLEAN]

NoAttempt == [status |-> "absent", version |-> 0, number |-> 0, expired |-> FALSE]

NothingStale == [attempts |-> {}, content |-> FALSE]

Sessions == Runs \cup {Sweeper}

(* Fault: the version is that of the caption alone, so it never changes. *)
TouchedWithoutStamp(status) ==
  [content EXCEPT !.status = status, !.old = FALSE]

(* A write to the content row: updated_at is set on every one of them. *)
Touched(status) ==
  [content EXCEPT !.status = status, !.updated_at = @ + 1, !.old = FALSE]

Is(p, status) == {r \in Runs : att[r][p].status = status}

SameKey(r, p) ==
  {q \in Runs : att[q][p].status # "absent" /\ att[q][p].version = version[r]}

Init ==
  /\ content \in {[status |-> s, published_at |-> FALSE,
                   updated_at |-> 0, old |-> FALSE] : s \in {"approved", "scheduled"}}
  /\ att = [r \in Runs |-> [p \in Platforms |-> NoAttempt]]
  /\ draft = [r \in Runs |-> [p \in Platforms |-> NoAttempt]]
  /\ lock = None
  /\ advisory = [p \in Platforms |-> None]
  /\ kind = [r \in Runs |-> "none"]
  /\ targets = [r \in Runs |-> {}]
  /\ pc = [s \in Sessions |-> "idle"]
  /\ cur = [r \in Runs |-> None]
  /\ version = [r \in Runs |-> 0]
  /\ results = [r \in Runs |-> [p \in Platforms |-> "none"]]
  /\ answer = [r \in Runs |-> "none"]
  /\ stale = [s \in Sessions |-> NothingStale]
  /\ posts = {}
  /\ hidden = {}

-----------------------------------------------------------------------------
(* Transactions *)

Written(r) == {p \in Platforms : draft[r][p].status # "absent"}

AfterCommit(r) ==
  [p \in Platforms |-> IF p \in Written(r) THEN draft[r][p] ELSE att[r][p]]

NoDraft == [p \in Platforms |-> NoAttempt]

Unlock(r) ==
  /\ lock' = IF lock = r THEN None ELSE lock
  /\ advisory' = [p \in Platforms |-> IF advisory[p] = r THEN None ELSE advisory[p]]

Rollback(r) ==
  /\ draft' = [draft EXCEPT ![r] = NoDraft]
  /\ Unlock(r)
  /\ UNCHANGED rows

Goto(s, label) == pc' = [pc EXCEPT ![s] = label]

-----------------------------------------------------------------------------
(* Recovery of what is stale: read first, write later, by primary key. *)

(* Fault: only content items are looked through. *)
StaleContentOnly ==
  [attempts |-> {}, content |-> content.status = "publishing" /\ content.old]

Stale ==
  [attempts |-> {x \in Runs \X Platforms :
                   /\ att[x[1]][x[2]].status = "in_progress"
                   /\ att[x[1]][x[2]].expired},
   content |-> content.status = "publishing" /\ content.old]

(* Another attempt with the same key already has a post. *)
AlreadyPublished(r, p) ==
  \E q \in Runs \ {r} :
     att[q][p].status = "success" /\ att[q][p].version = att[r][p].version

Recovered(r, p) ==
  [att[r][p] EXCEPT
     !.status = IF AlreadyPublished(r, p) THEN "failed"
                ELSE IF p \in Meta THEN "operator_review" ELSE "retrying",
     !.expired = FALSE]

(* The rows x[1], x[2] of S are locked by no other session. *)
Writable(S, s) ==
  \A x \in S : x[1] = s \/ draft[x[1]][x[2]].status = "absent"

RecoverRows(s) ==
  /\ Writable(stale[s].attempts, s)
  /\ stale[s].content => lock = None
  /\ att' = [r \in Runs |-> [p \in Platforms |->
               IF <<r, p>> \in stale[s].attempts THEN Recovered(r, p) ELSE att[r][p]]]
  /\ content' = IF stale[s].content THEN Touched("failed") ELSE content

(* recover_stale_publishing at the head of publish_content.  The session
   keeps the item it has recovered, as it left it.                          *)
Recover(r) ==
  /\ pc[r] = "recover"
  /\ RecoverRows(r)
  /\ stale' = [stale EXCEPT ![r] = [NothingStale EXCEPT !.content = stale[r].content]]
  /\ Goto(r, "validate")
  /\ UNCHANGED <<locks, call, local, posts, hidden>>

(* The same from the scheduler's tick. *)
SweepRead ==
  /\ pc[Sweeper] = "idle"
  /\ Stale # NothingStale
  /\ stale' = [stale EXCEPT ![Sweeper] = Stale]
  /\ Goto(Sweeper, "recover")
  /\ UNCHANGED <<rows, locks, call, local, posts, hidden>>

SweepWrite ==
  /\ pc[Sweeper] = "recover"
  /\ RecoverRows(Sweeper)
  /\ stale' = [stale EXCEPT ![Sweeper] = NothingStale]
  /\ Goto(Sweeper, "idle")
  /\ UNCHANGED <<locks, call, local, posts, hidden>>

-----------------------------------------------------------------------------
(* The callers of publish_content *)

Begin(r, k, T) ==
  /\ pc[r] = "idle"
  /\ kind' = [kind EXCEPT ![r] = k]
  /\ targets' = [targets EXCEPT ![r] = T]
  /\ stale' = [stale EXCEPT ![r] = Stale]
  /\ Goto(r, "recover")
  /\ UNCHANGED <<att, locks, cur, results, answer, posts, hidden>>

(* A user publishes on some of the platforms. *)
BeginManual(r) ==
  /\ \E T \in Selections : Begin(r, "manual", T)
  /\ UNCHANGED <<content, version>>

(* _process_due_retries: some attempt is due for a retry; the run is for
   all platforms of the content.                                           *)
BeginRetry(r) ==
  /\ \E p \in Platforms : Is(p, "retrying") # {}
  /\ content.status \in Publishable
  /\ Begin(r, "retry", Platforms)
  /\ UNCHANGED <<content, version>>

(* _try_claim: one UPDATE, committed at once; the session keeps the row it
   loads right after it.                                                   *)
BeginScheduled(r) ==
  /\ content.status = "scheduled"
  /\ lock = None
  /\ content' = Touched("publishing")
  /\ version' = [version EXCEPT ![r] = content.updated_at + 1]
  /\ Begin(r, "scheduled", Platforms)

(* _validate_publishable and the safety check, which may refuse.  A session
   of the scheduler still has the content row it loaded before, and a safety
   check that refuses makes it "scheduled" again without a look at it.      *)
Validate(r) ==
  /\ pc[r] = "validate"
  /\ kind[r] = "manual" => content.status \in Publishable \/ stale[r].content
  /\ stale' = [stale EXCEPT ![r] = NothingStale]
  /\ Goto(r, IF kind[r] = "scheduled" THEN "next" ELSE "mark")
  /\ UNCHANGED <<rows, locks, call, local, posts, hidden>>

Refuse(r) ==
  /\ pc[r] = "validate"
  /\ \/ UNCHANGED content
     \/ kind[r] = "scheduled" /\ lock = None /\ content' = Touched("scheduled")
  /\ stale' = [stale EXCEPT ![r] = NothingStale]
  /\ Goto(r, IF kind[r] = "scheduled" THEN "release" ELSE "done")
  /\ UNCHANGED <<att, locks, call, local, posts, hidden>>

(* status = "publishing", flushed: the row is locked until the session
   commits, and the version is made of the new updated_at.                 *)
MarkPublishing(r) ==
  /\ pc[r] = "mark"
  /\ lock = None
  /\ lock' = r
  /\ version' = [version EXCEPT ![r] = content.updated_at + 1]
  /\ Goto(r, "next")
  /\ UNCHANGED <<rows, draft, advisory, call, cur, results, answer, stale, posts, hidden>>

-----------------------------------------------------------------------------
(* One platform *)

(* Fault: a run tries a platform again that has just failed. *)
PendingUntilOk(r) == {p \in targets[r] : results[r][p] # "ok"}

Pending(r) == {p \in targets[r] : results[r][p] = "none"}

(* A result for p; the run is back at its loop. *)
Conclude(r, p, res) ==
  /\ results' = [results EXCEPT ![r][p] = res]
  /\ cur' = [cur EXCEPT ![r] = None]
  /\ Goto(r, "next")

(* No account: a failure, without a claim. *)
NoAccount(r) ==
  /\ pc[r] = "next"
  /\ \E p \in Pending(r) : Conclude(r, p, "fail")
  /\ UNCHANGED <<rows, locks, call, version, answer, stale, posts, hidden>>

(* _prior_live_success_for_destination, before any lock. *)
CheckPrior(r) ==
  /\ pc[r] = "next"
  /\ \E p \in Pending(r) :
       IF Is(p, "success") # {}
       THEN Conclude(r, p, "ok")
       ELSE /\ cur' = [cur EXCEPT ![r] = p]
            /\ Goto(r, "lock")
            /\ UNCHANGED results
  /\ UNCHANGED <<rows, locks, call, version, answer, stale, posts, hidden>>

(* Fault: begin_attempt takes no lock of the destination. *)
BeginAttemptUnlocked(r) ==
  LET p == cur[r] IN
  /\ pc[r] = "lock"
  /\ IF Is(p, "success") # {}
     THEN Conclude(r, p, "ok")
     ELSE UNCHANGED <<results, cur>> /\ Goto(r, "look")
  /\ UNCHANGED <<rows, locks, call, version, answer, stale, posts, hidden>>

(* begin_attempt, up to its look for a success: with coordination, under the
   lock of the destination, which the run keeps until it commits.          *)
BeginAttempt(r) ==
  LET p == cur[r] IN
  /\ pc[r] = "lock"
  /\ Coordination => advisory[p] \in {None, r}
  /\ advisory' = IF Coordination THEN [advisory EXCEPT ![p] = r] ELSE advisory
  /\ IF Is(p, "success") # {}
     THEN Conclude(r, p, "ok")
     ELSE UNCHANGED <<results, cur>> /\ Goto(r, "look")
  /\ UNCHANGED <<rows, draft, lock, call, version, answer, stale, posts, hidden>>

(* With coordination: a retry command has an unresolved write to it. *)
UnresolvedWrite(r) ==
  /\ pc[r] = "lock"
  /\ Coordination
  /\ advisory[cur[r]] \in {None, r}
  /\ advisory' = [advisory EXCEPT ![cur[r]] = r]
  /\ Conclude(r, cur[r], "fail")
  /\ UNCHANGED <<rows, draft, lock, call, version, answer, stale, posts, hidden>>

(* An open claim with the same key (which the unique index refuses too), or
   with coordination of any version.                                        *)
Claimed(r, p) ==
  \/ \E q \in SameKey(r, p) : att[q][p].status = "in_progress"
  \/ Coordination /\ Is(p, "in_progress") # {}

NewClaim(r, p) ==
  [status |-> "in_progress", version |-> version[r],
   number |-> Cardinality(SameKey(r, p)) + 1, expired |-> FALSE]

(* Fault: only coordination makes the claim durable before the call. *)
CommitsClaimIfCoordinated(p) == Coordination

(* must_commit_claim *)
CommitsClaim(p) == p \in Meta \/ Coordination

(* Its look for an open claim and at the number of attempts. *)
LookForClaim(r) ==
  LET p == cur[r] IN
  /\ pc[r] = "look"
  /\ IF Claimed(r, p) \/ Cardinality(SameKey(r, p)) >= MaxAttempts
     THEN Conclude(r, p, "fail")
     ELSE Goto(r, "insert") /\ UNCHANGED <<results, cur>>
  /\ UNCHANGED <<rows, locks, call, version, answer, stale, posts, hidden>>

(* The claim, which the unique index refuses when its key is in progress.
   No row with the run's own key is there to be superseded: see
   KeysNeverRepeat.                                                        *)
InsertClaim(r) ==
  LET p == cur[r] IN
  /\ pc[r] = "insert"
  /\ IF \E q \in SameKey(r, p) : att[q][p].status = "in_progress"
     THEN Conclude(r, p, "fail") /\ UNCHANGED <<rows, locks>>
     ELSE /\ IF CommitsClaim(p)
             THEN /\ att' = [att EXCEPT ![r] =
                                [AfterCommit(r) EXCEPT ![p] = NewClaim(r, p)]]
                  /\ content' = IF lock = r THEN Touched("publishing") ELSE content
                  /\ draft' = [draft EXCEPT ![r] = NoDraft]
                  /\ Unlock(r)
             ELSE /\ draft' = [draft EXCEPT ![r][p] = NewClaim(r, p)]
                  /\ UNCHANGED <<rows, lock, advisory>>
          /\ Goto(r, "call")
          /\ UNCHANGED <<results, cur>>
  /\ UNCHANGED <<call, version, answer, stale, posts, hidden>>

(* The adapter acts and answers: a post, a refusal, a transient failure, or
   an answer that is lost.  Only "ok" tells whether there is a post: the
   adapter of Instagram publishes and then asks for the permalink, and an
   error of the second call is an ordinary refusal or transient failure.    *)
CallProvider(r) ==
  /\ pc[r] = "call"
  /\ \E a \in {"ok", "rejected", "transient", "lost"} :
       /\ answer' = [answer EXCEPT ![r] = a]
       /\ \/ a # "ok" /\ UNCHANGED <<posts, hidden>>
          \/ /\ posts' = posts \cup {<<r, cur[r]>>}
             /\ hidden' = IF a \in {"rejected", "transient"}
                          THEN hidden \cup {<<r, cur[r]>>} ELSE hidden
  /\ Goto(r, "answer")
  /\ UNCHANGED <<rows, locks, call, cur, version, results, stale>>

(* The status finalize_attempt gives.  A Meta answer is ambiguous when it is
   a timeout or a connection error; any other error counts as no post.      *)
Outcome(a, p, number) ==
  IF a = "ok" THEN "success"
  ELSE IF a = "rejected" THEN "failed"
  ELSE IF a = "lost" /\ p \in Meta THEN "operator_review"
  ELSE IF number < MaxAttempts THEN "retrying" ELSE "exhausted"

(* finalize_attempt writes the whole outcome whatever the row says by now. *)
FinalizeAttempt(r) ==
  LET p == cur[r]
      row == AfterCommit(r)[p]
  IN
  /\ pc[r] = "answer"
  /\ draft' = [draft EXCEPT ![r][p] =
                [row EXCEPT !.status = Outcome(answer[r], p, row.number),
                            !.expired = FALSE]]
  /\ Conclude(r, p, IF answer[r] = "ok" THEN "ok" ELSE "fail")
  /\ answer' = [answer EXCEPT ![r] = "none"]
  /\ UNCHANGED <<rows, lock, advisory, call, version, stale, posts, hidden>>

-----------------------------------------------------------------------------
(* The end of a run *)

(* The local variables of a run that has left the loop are no longer read. *)
Forget(r) ==
  /\ cur' = [cur EXCEPT ![r] = None]
  /\ version' = [version EXCEPT ![r] = 0]
  /\ results' = [results EXCEPT ![r] = [p \in Platforms |-> "none"]]
  /\ answer' = [answer EXCEPT ![r] = "none"]

Has(r, res) == \E p \in targets[r] : results[r][p] = res

(* Fault: one platform that succeeded is enough. *)
FinalStatusOptimistic(r) == IF Has(r, "ok") THEN "published" ELSE "failed"

FinalStatus(r) ==
  IF ~Has(r, "fail") THEN "published"
  ELSE IF Has(r, "ok") THEN "partial_failed" ELSE "failed"

Finish(r) ==
  /\ pc[r] = "next"
  /\ Pending(r) = {}
  /\ lock \in {None, r}
  /\ content' = [Touched(FinalStatus(r)) EXCEPT
                   !.published_at = @ \/ FinalStatus(r) # "failed"]
  /\ att' = [att EXCEPT ![r] = AfterCommit(r)]
  /\ draft' = [draft EXCEPT ![r] = NoDraft]
  /\ Unlock(r)
  /\ Forget(r)
  /\ Goto(r, "done")
  /\ UNCHANGED <<call, stale, posts, hidden>>

InTry == {"mark", "next", "lock", "look", "insert", "call", "answer"}

(* The Meta claims of the content that the session sees open. *)
OpenMeta(view) ==
  {x \in Runs \X Meta : view[x[1]][x[2]].status = "in_progress"}

(* An exception: the session rolls back, then reads the open Meta claims of
   the content, its own and those of other runs.                           *)
Interrupted(r) ==
  /\ pc[r] \in InTry
  /\ Rollback(r)
  /\ stale' = [stale EXCEPT ![r] = [attempts |-> OpenMeta(att), content |-> FALSE]]
  /\ Forget(r)
  /\ Goto(r, "abort")
  /\ UNCHANGED <<call, posts, hidden>>

(* CancelledError at the adapter's await: nothing is rolled back. *)
Cancelled(r) ==
  /\ pc[r] \in {"call", "answer"}
  /\ stale' = [stale EXCEPT ![r] =
       [attempts |-> OpenMeta([att EXCEPT ![r] = AfterCommit(r)]), content |-> FALSE]]
  /\ Forget(r)
  /\ Goto(r, "cancelled")
  /\ UNCHANGED <<rows, locks, call, posts, hidden>>

ClosedAsAmbiguous(r, x) ==
  [(IF x[1] = r THEN AfterCommit(r)[x[2]] ELSE att[x[1]][x[2]]) EXCEPT
     !.status = "operator_review", !.expired = FALSE]

(* The finally clause: the open Meta claims become ambiguous, and the item
   failed; but only an item that is still "publishing" makes it commit.  For
   a session that has not rolled back it always is.                         *)
ForceTerminal(r) ==
  /\ pc[r] \in {"abort", "cancelled"}
  /\ Writable(stale[r].attempts, r)
  /\ IF pc[r] = "cancelled" \/ content.status = "publishing"
     THEN /\ lock \in {None, r}
          /\ content' = Touched("failed")
          /\ att' = [q \in Runs |-> [p \in Platforms |->
                       IF <<q, p>> \in stale[r].attempts
                       THEN ClosedAsAmbiguous(r, <<q, p>>)
                       ELSE IF q = r THEN AfterCommit(r)[p] ELSE att[q][p]]]
     ELSE UNCHANGED rows
  /\ draft' = [draft EXCEPT ![r] = NoDraft]
  /\ Unlock(r)
  /\ stale' = [stale EXCEPT ![r] = NothingStale]
  /\ Goto(r, IF pc[r] = "abort" /\ kind[r] = "scheduled" THEN "release" ELSE "done")
  /\ UNCHANGED <<call, local, posts, hidden>>

(* _release_to_scheduled reads the item, and writes it by primary key. *)
ReadForRelease(r) ==
  /\ pc[r] = "release"
  /\ Goto(r, IF content.status = "publishing" /\ ~content.published_at
             THEN "revert" ELSE "done")
  /\ UNCHANGED <<rows, locks, call, local, stale, posts, hidden>>

Release(r) ==
  /\ pc[r] = "revert"
  /\ lock = None
  /\ content' = Touched("scheduled")
  /\ Goto(r, "done")
  /\ UNCHANGED <<att, locks, call, local, stale, posts, hidden>>

(* The process dies; the database drops the session. *)
Crash(r) ==
  /\ pc[r] \notin {"idle", "done"}
  /\ Rollback(r)
  /\ stale' = [stale EXCEPT ![r] = NothingStale]
  /\ Forget(r)
  /\ Goto(r, "done")
  /\ UNCHANGED <<call, posts, hidden>>

-----------------------------------------------------------------------------
(* Time *)

Expire ==
  /\ \E r \in Runs, p \in Platforms :
       /\ att[r][p].status = "in_progress" /\ ~att[r][p].expired
       /\ att' = [att EXCEPT ![r][p].expired = TRUE]
  /\ UNCHANGED <<content, locks, call, local, pc, stale, posts, hidden>>

GrowOld ==
  /\ content.status = "publishing" /\ ~content.old
  /\ content' = [content EXCEPT !.old = TRUE]
  /\ UNCHANGED <<att, locks, call, local, pc, stale, posts, hidden>>

-----------------------------------------------------------------------------
(* Specification *)

Step(r) ==
  \/ Recover(r) \/ Validate(r) \/ MarkPublishing(r)
  \/ CheckPrior(r) \/ BeginAttempt(r) \/ LookForClaim(r) \/ InsertClaim(r)
  \/ CallProvider(r) \/ FinalizeAttempt(r) \/ Finish(r)
  \/ ForceTerminal(r) \/ ReadForRelease(r) \/ Release(r)

Trouble(r) ==
  \/ Refuse(r) \/ NoAccount(r) \/ UnresolvedWrite(r)
  \/ Interrupted(r) \/ Cancelled(r) \/ Crash(r)

Next ==
  \/ \E r \in Runs :
       \/ BeginManual(r) \/ BeginRetry(r) \/ BeginScheduled(r)
       \/ Step(r) \/ Trouble(r)
  \/ SweepRead \/ SweepWrite
  \/ Expire \/ GrowOld

Spec == Init /\ [][Next]_vars

(* The runs whose locks r waits for. *)
WaitsFor(r) ==
  CASE pc[r] = "mark" -> {lock} \ {None}
    [] pc[r] = "next" /\ Pending(r) = {} -> {lock} \ {None, r}
    [] pc[r] = "lock" /\ Coordination -> {advisory[cur[r]]} \ {None, r}
    [] pc[r] = "cancelled" ->
         ({lock} \cup {x[1] : x \in {y \in stale[r].attempts :
                                       draft[y[1]][y[2]].status # "absent"}}) \ {None, r}
    [] OTHER -> {}

Deadlocked(r) == \E D \in SUBSET Runs : r \in D /\ \A q \in D : WaitsFor(q) \cap D # {}

(* PostgreSQL ends one of the sessions of a cycle with an error; one that is
   in its finally clause rolls back, and that is all.                       *)
BreakDeadlock(r) ==
  /\ Deadlocked(r)
  /\ Interrupted(r) \/ (pc[r] = "cancelled" /\ Crash(r))

(* A live run goes on, the scheduler ticks, and time passes. *)
FairSpec ==
  /\ Spec
  /\ \A r \in Runs :
       /\ WF_vars(Step(r)) /\ WF_vars(pc[r] = "validate" /\ Refuse(r))
       /\ WF_vars(BreakDeadlock(r))
  /\ WF_vars(SweepRead) /\ WF_vars(SweepWrite)
  /\ WF_vars(Expire) /\ WF_vars(GrowOld)

-----------------------------------------------------------------------------
(* Properties *)

Labels ==
  {"idle", "recover", "validate", "mark", "next", "lock", "look", "insert",
   "call", "answer", "abort", "cancelled", "release", "revert", "done"}

(* The types of the tables, the locks and the local state. *)
TypeOK ==
  /\ content \in ContentItem
  /\ att \in [Runs -> [Platforms -> Attempt]]
  /\ draft \in [Runs -> [Platforms -> Attempt]]
  /\ lock \in Runs \cup {None}
  /\ advisory \in [Platforms -> Runs \cup {None}]
  /\ kind \in [Runs -> {"none", "manual", "retry", "scheduled"}]
  /\ targets \in [Runs -> SUBSET Platforms]
  /\ pc \in [Sessions -> Labels]
  /\ cur \in [Runs -> Platforms \cup {None}]
  /\ version \in [Runs -> Nat]
  /\ results \in [Runs -> [Platforms -> {"none", "ok", "fail"}]]
  /\ answer \in [Runs -> {"none", "ok", "rejected", "transient", "lost"}]
  /\ stale \in [Sessions -> [attempts : SUBSET (Runs \X Platforms), content : BOOLEAN]]
  /\ posts \subseteq Runs \X Platforms
  /\ hidden \subseteq posts

(* A post on Facebook or Instagram is not forgotten, whatever crashed, was
   interrupted or recovered: the attempt that made it is still claimed, is a
   success, or waits for an operator.  Only the provider's own answer can
   lose it, an error after the post that is no timeout; then the attempt
   says retrying, exhausted or failed.                                      *)
MetaEffectAccounted ==
  \A x \in posts : x[2] \in Meta =>
    \/ att[x[1]][x[2]].status \in {"in_progress", "success", "operator_review"}
    \/ /\ x \in hidden
       /\ att[x[1]][x[2]].status \in {"retrying", "exhausted", "failed"}

(* With coordination at most one attempt of a destination is in progress,
   whatever the versions of the attempts.                                   *)
CoordinatedClaims ==
  Coordination => \A p \in Platforms : \A q, r \in Is(p, "in_progress") : q = r

(* No two attempts share an idempotency key: each run computes its version
   of an updated_at that no other run has used.                             *)
KeysNeverRepeat ==
  \A q, r \in Runs, p \in Platforms :
     /\ q # r
     /\ att[q][p].status # "absent" /\ att[r][p].status # "absent"
     => att[q][p].version # att[r][p].version

(* An item is only "published" when for every platform some run was asked
   for there is a post, its own or an earlier one it found.                  *)
PublishedIsReal ==
  content.status = "published" =>
    \E r \in Runs :
      /\ targets[r] # {}
      /\ \A p \in targets[r] : \E q \in Runs : <<q, p>> \in posts

(* The Meta attempts and their posts, seen as the ledger of PublishLedger. *)
EntryOf(status) ==
  CASE status = "absent" -> "none"
    [] status = "in_progress" -> "open"
    [] status = "operator_review" -> "review"
    [] status = "success" -> "success"
    [] OTHER -> "closed"

Ledger ==
  INSTANCE PublishLedger WITH
    Attempts <- Runs \X Meta,
    entry <- [a \in Runs \X Meta |-> EntryOf(att[a[1]][a[2]].status)],
    posted <- posts \cap (Runs \X Meta),
    concealed <- hidden \cap (Runs \X Meta)

(* Sessions that crash, are cancelled, overwrite each other from old readings
   and recover what is not dead do nothing to a Meta attempt that the ledger
   does not allow: the claim is durable before the post, an attempt posts at
   most once, and one that is written off never gets a post afterwards and
   has none, unless the provider answered its own run with an error.         *)
ImplementsLedger == Ledger!Spec

(* The item is "publishing", or an attempt is in progress. *)
Unsettled ==
  \/ content.status = "publishing"
  \/ \E p \in Platforms : Is(p, "in_progress") # {}

(* However its runs end, the content item does not stay "publishing" and none
   of its attempts stays in progress: there comes a moment when both are over. *)
PublishingSettles == Unsettled ~> ~Unsettled

Starts(r) == pc[r] = "insert" /\ pc'[r] = "call"

(* What the documentation says, and the code does not do. *)

(* Ambiguous Meta attempts "go to operator_review and are not auto-retried". *)
ReviewNotRetried ==
  [][\A r \in Runs :
       Starts(r) /\ kind[r] = "retry" /\ cur[r] \in Meta
       => Is(cur[r], "operator_review") = {}]_vars

=============================================================================
