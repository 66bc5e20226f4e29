------------------------ MODULE PublishAttemptsProofs ------------------------
(* Proofs about PublishAttempts, for any number of runs and platforms, with
   and without coordination.                                                *)
EXTENDS PublishAttempts, FiniteSetTheorems, TLAPS

ItemStatuses == Publishable \cup {"publishing", "published"}

InBody == {"lock", "look", "insert", "call", "answer"}

(* A run that is at a platform is there for the first time. *)
InLoop ==
  \A r \in Runs : pc[r] \in InBody =>
    cur[r] \in targets[r] /\ results[r][cur[r]] = "none"

-----------------------------------------------------------------------------
(* Shapes *)

(* A write to the content item keeps its shape and moves its stamp by one. *)
LEMMA TouchedItem ==
  ASSUME content \in ContentItem, NEW s \in ItemStatuses
  PROVE  /\ Touched(s) \in ContentItem
         /\ Touched(s).status = s
         /\ Touched(s).updated_at = content.updated_at + 1
         /\ Touched(s).published_at = content.published_at
<1> DEFINE n == content.updated_at + 1
<1>1. content.updated_at \in Nat /\ n \in Nat
  BY DEF ContentItem
<1>2. [content EXCEPT !.status = s, !.old = FALSE] \in ContentItem
  BY DEF ContentItem, ItemStatuses
<1>3. Touched(s) = [[content EXCEPT !.status = s, !.old = FALSE] EXCEPT !.updated_at = n]
  BY DEF Touched, ContentItem
<1> HIDE DEF n
<1>4. /\ Touched(s) \in ContentItem
      /\ Touched(s).status = s
      /\ Touched(s).updated_at = n
      /\ Touched(s).published_at = content.published_at
  BY <1>1, <1>2, <1>3 DEF ContentItem
<1> QED
  BY <1>4 DEF n

LEMMA NoAttemptType == NoAttempt \in Attempt /\ NoAttempt.status = "absent" /\ NoAttempt.version = 0
BY DEF NoAttempt, Attempt, AttemptStatuses

(* What a commit makes visible has the shape of attempts. *)
LEMMA AfterCommitType ==
  ASSUME TypeOK, NEW r \in Runs
  PROVE  /\ AfterCommit(r) \in [Platforms -> Attempt]
         /\ \A p \in Platforms :
              \/ draft[r][p].status = "absent" /\ AfterCommit(r)[p] = att[r][p]
              \/ draft[r][p].status # "absent" /\ AfterCommit(r)[p] = draft[r][p]
BY DEF TypeOK, AfterCommit, Written

LEMMA NewClaimType ==
  ASSUME PublishAssumption, TypeOK, NEW r \in Runs, NEW p \in Platforms
  PROVE  /\ NewClaim(r, p) \in Attempt
         /\ NewClaim(r, p).status = "in_progress"
         /\ NewClaim(r, p).version = version[r]
<1>1. SameKey(r, p) \subseteq Runs
  BY DEF SameKey
<1>2. Cardinality(SameKey(r, p)) + 1 \in Nat
  BY <1>1, FS_Subset, FS_CardinalityType DEF PublishAssumption
<1>3. version[r] \in Nat
  BY DEF TypeOK
<1> QED
  BY <1>2, <1>3 DEF NewClaim, Attempt, AttemptStatuses

(* Recovery and the interrupted call give a row a new status, no more. *)
LEMMA RecoveredType ==
  ASSUME TypeOK, NEW r \in Runs, NEW p \in Platforms
  PROVE  /\ Recovered(r, p) \in Attempt
         /\ Recovered(r, p).version = att[r][p].version
         /\ Recovered(r, p).status \in {"failed", "operator_review", "retrying"}
         /\ p \in Meta /\ ~AlreadyPublished(r, p)
              => Recovered(r, p).status = "operator_review"
<1>1. att[r][p] \in Attempt
  BY DEF TypeOK
<1>2. /\ "failed" \in AttemptStatuses /\ "operator_review" \in AttemptStatuses
      /\ "retrying" \in AttemptStatuses
  BY DEF AttemptStatuses
<1>3. CASE AlreadyPublished(r, p)
  <2>1. Recovered(r, p) = [att[r][p] EXCEPT !.status = "failed", !.expired = FALSE]
    BY <1>3 DEF Recovered
  <2> QED
    BY <1>1, <1>2, <1>3, <2>1 DEF Attempt
<1>4. CASE ~AlreadyPublished(r, p) /\ p \in Meta
  <2>1. Recovered(r, p) = [att[r][p] EXCEPT !.status = "operator_review", !.expired = FALSE]
    BY <1>4 DEF Recovered
  <2> QED
    BY <1>1, <1>2, <1>4, <2>1 DEF Attempt
<1>5. CASE ~AlreadyPublished(r, p) /\ p \notin Meta
  <2>1. Recovered(r, p) = [att[r][p] EXCEPT !.status = "retrying", !.expired = FALSE]
    BY <1>5 DEF Recovered
  <2> QED
    BY <1>1, <1>2, <1>5, <2>1 DEF Attempt
<1> QED
  BY <1>3, <1>4, <1>5

LEMMA ClosedType ==
  ASSUME TypeOK, NEW r \in Runs, NEW q \in Runs, NEW p \in Platforms
  PROVE  /\ ClosedAsAmbiguous(r, <<q, p>>) \in Attempt
         /\ ClosedAsAmbiguous(r, <<q, p>>).status = "operator_review"
         /\ ClosedAsAmbiguous(r, <<q, p>>).version =
              IF q = r THEN AfterCommit(r)[p].version ELSE att[q][p].version
<1>1. att[q][p] \in Attempt /\ AfterCommit(r)[p] \in Attempt
  BY AfterCommitType DEF TypeOK
<1>2. "operator_review" \in AttemptStatuses
  BY DEF AttemptStatuses
<1>3. CASE q = r
  <2>1. ClosedAsAmbiguous(r, <<q, p>>) =
          [AfterCommit(r)[p] EXCEPT !.status = "operator_review", !.expired = FALSE]
    BY <1>3 DEF ClosedAsAmbiguous
  <2> QED
    BY <1>1, <1>2, <1>3, <2>1 DEF Attempt
<1>4. CASE q # r
  <2>1. ClosedAsAmbiguous(r, <<q, p>>) =
          [att[q][p] EXCEPT !.status = "operator_review", !.expired = FALSE]
    BY <1>4 DEF ClosedAsAmbiguous
  <2> QED
    BY <1>1, <1>2, <1>4, <2>1 DEF Attempt
<1> QED
  BY <1>3, <1>4

LEMMA OutcomeType ==
  ASSUME NEW a, NEW p, NEW n
  PROVE  /\ Outcome(a, p, n) \in
              {"success", "failed", "operator_review", "retrying", "exhausted"}
         /\ Outcome(a, p, n) = "success" <=> a = "ok"
         /\ p \in Meta /\ a = "lost" => Outcome(a, p, n) = "operator_review"
BY DEF Outcome

-----------------------------------------------------------------------------
(* Types *)

LEMMA StaleType ==
  ASSUME TypeOK
  PROVE  Stale \in [attempts : SUBSET (Runs \X Platforms), content : BOOLEAN]
BY DEF Stale, TypeOK, ContentItem

LEMMA TypeInit == ASSUME PublishAssumption, Init PROVE TypeOK
<1>1. content \in ContentItem
  <2>1. PICK st \in {"approved", "scheduled"} :
          content = [status |-> st, published_at |-> FALSE,
                     updated_at |-> 0, old |-> FALSE]
    BY DEF Init
  <2> QED
    BY <2>1 DEF ContentItem, Publishable
<1>2. NoDraft \in [Platforms -> Attempt]
  BY NoAttemptType DEF NoDraft
<1> QED
  BY <1>1, <1>2 DEF Init, TypeOK, NoDraft, NothingStale, Labels, PublishAssumption

(* A run that is back at its loop, one that has left it, one that has
   given up its locks.                                                      *)
LEMMA ConcludeType ==
  ASSUME TypeOK, NEW r \in Runs, NEW p \in Platforms, NEW res \in {"ok", "fail"},
         Conclude(r, p, res)
  PROVE  /\ results' \in [Runs -> [Platforms -> {"none", "ok", "fail"}]]
         /\ cur' \in [Runs -> Platforms \cup {None}]
         /\ pc' \in [Sessions -> Labels]
BY DEF TypeOK, Conclude, Goto, Labels, Sessions

LEMMA ForgetType ==
  ASSUME TypeOK, NEW r \in Runs, Forget(r)
  PROVE  /\ cur' \in [Runs -> Platforms \cup {None}]
         /\ version' \in [Runs -> Nat]
         /\ results' \in [Runs -> [Platforms -> {"none", "ok", "fail"}]]
         /\ answer' \in [Runs -> {"none", "ok", "rejected", "transient", "lost"}]
BY DEF TypeOK, Forget

LEMMA UnlockType ==
  ASSUME TypeOK, NEW r \in Runs, Unlock(r)
  PROVE  /\ lock' \in Runs \cup {None}
         /\ advisory' \in [Platforms -> Runs \cup {None}]
BY DEF TypeOK, Unlock

LEMMA NoDraftType ==
  ASSUME TypeOK, NEW r \in Runs, draft' = [draft EXCEPT ![r] = NoDraft]
  PROVE  draft' \in [Runs -> [Platforms -> Attempt]]
BY NoAttemptType DEF TypeOK, NoDraft

LEMMA GotoType ==
  ASSUME TypeOK, NEW s \in Sessions, NEW label \in Labels, Goto(s, label)
  PROVE  pc' \in [Sessions -> Labels]
BY DEF TypeOK, Goto

(* Recovery keeps the shape of the tables. *)
LEMMA RecoverRowsType ==
  ASSUME TypeOK, NEW s \in Sessions, RecoverRows(s)
  PROVE  /\ att' \in [Runs -> [Platforms -> Attempt]]
         /\ content' \in ContentItem
<1>1. att' \in [Runs -> [Platforms -> Attempt]]
  BY RecoveredType DEF RecoverRows, TypeOK
<1>2. Touched("failed") \in ContentItem
  BY TouchedItem DEF ItemStatuses, Publishable, TypeOK
<1> QED
  BY <1>1, <1>2 DEF RecoverRows, TypeOK

(* Every step keeps every variable's type. *)
LEMMA TypePreserved ==
  ASSUME PublishAssumption, TypeOK, InLoop, [Next]_vars
  PROVE  TypeOK'
<1> USE DEF rows, locks, call, local
<1>0. /\ Runs \subseteq Sessions /\ Sweeper \in Sessions
      /\ {"recover", "validate", "mark", "next", "lock", "look", "insert", "call",
          "answer", "abort", "cancelled", "release", "revert", "done", "idle"}
           \subseteq Labels
  BY DEF Sessions, Labels
<1>a. /\ Touched("publishing") \in ContentItem
      /\ Touched("failed") \in ContentItem
      /\ Touched("scheduled") \in ContentItem
  BY TouchedItem DEF ItemStatuses, Publishable, TypeOK
<1>b. content.updated_at + 1 \in Nat
  BY DEF TypeOK, ContentItem
<1>c. \A r \in Runs : pc[r] \in InBody => cur[r] \in Platforms
  BY DEF InLoop, TypeOK
<1>1. ASSUME NEW r \in Runs, NEW k \in {"manual", "retry", "scheduled"},
             NEW T \in SUBSET Platforms, Begin(r, k, T),
             content' \in ContentItem, version' \in [Runs -> Nat]
      PROVE  TypeOK'
  BY <1>0, <1>1, StaleType DEF Begin, Goto, TypeOK
<1>2. ASSUME NEW r \in Runs, BeginManual(r) PROVE TypeOK'
  <2>1. PICK T \in Selections : Begin(r, "manual", T)
    BY <1>2 DEF BeginManual
  <2> QED
    BY <1>1, <1>2, <2>1 DEF BeginManual, TypeOK, PublishAssumption
<1>3. ASSUME NEW r \in Runs, BeginRetry(r) PROVE TypeOK'
  BY <1>1, <1>3 DEF BeginRetry, TypeOK
<1>4. ASSUME NEW r \in Runs, BeginScheduled(r) PROVE TypeOK'
  <2>1. content' \in ContentItem /\ version' \in [Runs -> Nat]
    BY <1>4, <1>a, <1>b DEF BeginScheduled, TypeOK
  <2> QED
    BY <1>1, <1>4, <2>1 DEF BeginScheduled
<1>5. ASSUME NEW r \in Runs, Recover(r) PROVE TypeOK'
  <2>1. pc' \in [Sessions -> Labels]
    BY <1>0, <1>5, GotoType DEF Recover
  <2>2. att' \in [Runs -> [Platforms -> Attempt]] /\ content' \in ContentItem
    BY <1>0, <1>5, RecoverRowsType DEF Recover
  <2> QED
    BY <1>0, <1>5, <2>1, <2>2 DEF Recover, TypeOK, NothingStale
<1>6. ASSUME SweepRead PROVE TypeOK'
  <2>1. pc' \in [Sessions -> Labels]
    BY <1>0, <1>6, GotoType DEF SweepRead
  <2> QED
    BY <1>0, <1>6, <2>1, StaleType DEF SweepRead, TypeOK
<1>7. ASSUME SweepWrite PROVE TypeOK'
  <2>1. pc' \in [Sessions -> Labels]
    BY <1>0, <1>7, GotoType DEF SweepWrite
  <2>2. att' \in [Runs -> [Platforms -> Attempt]] /\ content' \in ContentItem
    BY <1>0, <1>7, RecoverRowsType DEF SweepWrite
  <2> QED
    BY <1>0, <1>7, <2>1, <2>2 DEF SweepWrite, TypeOK, NothingStale
<1>8. ASSUME NEW r \in Runs, Validate(r) \/ Refuse(r) PROVE TypeOK'
  <2>1. pc' \in [Sessions -> Labels]
    BY <1>0, <1>8, GotoType DEF Validate, Refuse
  <2>a. stale' = [stale EXCEPT ![r] = NothingStale]
    BY <1>8 DEF Validate, Refuse
  <2>b. NothingStale \in [attempts : SUBSET (Runs \X Platforms), content : BOOLEAN]
    BY DEF NothingStale
  <2>2. stale' \in [Sessions -> [attempts : SUBSET (Runs \X Platforms), content : BOOLEAN]]
    BY <1>0, <2>a, <2>b DEF TypeOK
  <2>3. content' \in ContentItem
    BY <1>a, <1>8 DEF Validate, Refuse, TypeOK
  <2> QED
    BY <1>8, <2>1, <2>2, <2>3 DEF Validate, Refuse, TypeOK
<1>9. ASSUME NEW r \in Runs, MarkPublishing(r) PROVE TypeOK'
  BY <1>0, <1>9, <1>b DEF MarkPublishing, Goto, TypeOK
<1>10. ASSUME NEW r \in Runs, NoAccount(r) PROVE TypeOK'
  <2>1. PICK p \in Pending(r) : Conclude(r, p, "fail")
    BY <1>10 DEF NoAccount
  <2>2. p \in Platforms
    BY <2>1 DEF Pending, TypeOK
  <2> QED
    BY <1>10, <2>1, <2>2, ConcludeType DEF NoAccount, TypeOK
<1>11. ASSUME NEW r \in Runs, CheckPrior(r) PROVE TypeOK'
  <2>1. PICK p \in Pending(r) :
          \/ Conclude(r, p, "ok")
          \/ /\ cur' = [cur EXCEPT ![r] = p]
             /\ Goto(r, "lock")
             /\ UNCHANGED results
    BY <1>11 DEF CheckPrior
  <2>2. p \in Platforms
    BY <2>1 DEF Pending, TypeOK
  <2>3. CASE Conclude(r, p, "ok")
    BY <1>11, <2>2, <2>3, ConcludeType DEF CheckPrior, TypeOK
  <2>4. CASE cur' = [cur EXCEPT ![r] = p] /\ Goto(r, "lock") /\ UNCHANGED results
    BY <1>0, <1>11, <2>2, <2>4 DEF CheckPrior, Goto, TypeOK
  <2> QED
    BY <2>1, <2>3, <2>4
<1>12. ASSUME NEW r \in Runs, BeginAttempt(r) PROVE TypeOK'
  <2>1. pc[r] = "lock" /\ cur[r] \in Platforms
    BY <1>12, <1>c DEF BeginAttempt, InBody
  <2>2. advisory' \in [Platforms -> Runs \cup {None}]
    BY <1>12, <2>1 DEF BeginAttempt, TypeOK
  <2>3. CASE Conclude(r, cur[r], "ok")
    BY <1>12, <2>1, <2>2, <2>3, ConcludeType DEF BeginAttempt, TypeOK
  <2>4. CASE UNCHANGED <<results, cur>> /\ Goto(r, "look")
    <3>1. pc' \in [Sessions -> Labels]
      BY <1>0, <2>4, GotoType
    <3> QED
      BY <1>12, <2>2, <2>4, <3>1 DEF BeginAttempt, TypeOK
  <2> QED
    BY <1>12, <2>3, <2>4 DEF BeginAttempt
<1>13. ASSUME NEW r \in Runs, UnresolvedWrite(r) PROVE TypeOK'
  <2>1. pc[r] = "lock" /\ cur[r] \in Platforms
    BY <1>13, <1>c DEF UnresolvedWrite, InBody
  <2>2. advisory' \in [Platforms -> Runs \cup {None}]
    BY <1>13, <2>1 DEF UnresolvedWrite, TypeOK
  <2> QED
    BY <1>13, <2>1, <2>2, ConcludeType DEF UnresolvedWrite, TypeOK
<1>14. ASSUME NEW r \in Runs, LookForClaim(r) PROVE TypeOK'
  <2>1. pc[r] = "look" /\ cur[r] \in Platforms
    BY <1>14, <1>c DEF LookForClaim, InBody
  <2>3. CASE Conclude(r, cur[r], "fail")
    BY <1>14, <2>1, <2>3, ConcludeType DEF LookForClaim, TypeOK
  <2>4. CASE UNCHANGED <<results, cur>> /\ Goto(r, "insert")
    <3>1. pc' \in [Sessions -> Labels]
      BY <1>0, <2>4, GotoType
    <3> QED
      BY <1>14, <2>4, <3>1 DEF LookForClaim, TypeOK
  <2> QED
    BY <1>14, <2>3, <2>4 DEF LookForClaim
<1>15. ASSUME NEW r \in Runs, InsertClaim(r) PROVE TypeOK'
  <2> DEFINE p == cur[r]
  <2>1. pc[r] = "insert" /\ p \in Platforms
    BY <1>15, <1>c DEF InsertClaim, InBody
  <2>2. NewClaim(r, p) \in Attempt
    BY <2>1, NewClaimType
  <2>3. CASE Conclude(r, p, "fail") /\ UNCHANGED <<rows, locks>>
    BY <1>15, <2>1, <2>3, ConcludeType DEF InsertClaim, TypeOK
  <2>4. CASE /\ att' = [att EXCEPT ![r] = [AfterCommit(r) EXCEPT ![p] = NewClaim(r, p)]]
             /\ content' = IF lock = r THEN Touched("publishing") ELSE content
             /\ draft' = [draft EXCEPT ![r] = NoDraft]
             /\ Unlock(r)
             /\ Goto(r, "call")
             /\ UNCHANGED <<results, cur>>
    <3>1. pc' \in [Sessions -> Labels]
      BY <1>0, <2>4, GotoType
    <3>2. content' \in ContentItem
      BY <1>a, <2>4 DEF TypeOK
    <3>3. [AfterCommit(r) EXCEPT ![p] = NewClaim(r, p)] \in [Platforms -> Attempt]
      BY <2>1, <2>2, AfterCommitType
    <3>4. att' \in [Runs -> [Platforms -> Attempt]]
      BY <2>4, <3>3 DEF TypeOK
    <3> QED
      BY <1>15, <2>4, <3>1, <3>2, <3>4, NoDraftType, UnlockType DEF InsertClaim, TypeOK
  <2>5. CASE /\ draft' = [draft EXCEPT ![r][p] = NewClaim(r, p)]
             /\ UNCHANGED <<rows, lock, advisory>>
             /\ Goto(r, "call")
             /\ UNCHANGED <<results, cur>>
    <3>1. pc' \in [Sessions -> Labels]
      BY <1>0, <2>5, GotoType
    <3>2. draft' \in [Runs -> [Platforms -> Attempt]]
      BY <2>1, <2>2, <2>5 DEF TypeOK
    <3> QED
      BY <1>15, <2>5, <3>1, <3>2 DEF InsertClaim, TypeOK
  <2> QED
    BY <1>15, <2>3, <2>4, <2>5 DEF InsertClaim
<1>16. ASSUME NEW r \in Runs, CallProvider(r) PROVE TypeOK'
  <2>1. pc[r] = "call" /\ cur[r] \in Platforms
    BY <1>16, <1>c DEF CallProvider, InBody
  <2>2. pc' \in [Sessions -> Labels]
    BY <1>0, <1>16, GotoType DEF CallProvider
  <2>3. posts' \subseteq Runs \X Platforms
    BY <1>16, <2>1 DEF CallProvider, TypeOK
  <2>4. answer' \in [Runs -> {"none", "ok", "rejected", "transient", "lost"}]
    BY <1>16 DEF CallProvider, TypeOK
  <2> QED
    BY <1>16, <2>2, <2>3, <2>4 DEF CallProvider, TypeOK
<1>17. ASSUME NEW r \in Runs, FinalizeAttempt(r) PROVE TypeOK'
  <2> DEFINE p == cur[r]
             new == [AfterCommit(r)[p] EXCEPT
                       !.status = Outcome(answer[r], p, AfterCommit(r)[p].number),
                       !.expired = FALSE]
  <2>1. pc[r] = "answer" /\ p \in Platforms
    BY <1>17, <1>c DEF FinalizeAttempt, InBody
  <2>2. new \in Attempt
    <3>1. AfterCommit(r)[p] \in Attempt
      BY <2>1, AfterCommitType
    <3>2. Outcome(answer[r], p, AfterCommit(r)[p].number) \in AttemptStatuses
      BY OutcomeType DEF AttemptStatuses
    <3> QED
      BY <3>1, <3>2 DEF Attempt
  <2>3. draft' = [draft EXCEPT ![r][p] = new]
    BY <1>17 DEF FinalizeAttempt
  <2> HIDE DEF new
  <2>4. draft' \in [Runs -> [Platforms -> Attempt]]
    BY <2>1, <2>2, <2>3 DEF TypeOK
  <2>5. answer' \in [Runs -> {"none", "ok", "rejected", "transient", "lost"}]
    BY <1>17 DEF FinalizeAttempt, TypeOK
  <2>6. Conclude(r, p, "ok") \/ Conclude(r, p, "fail")
    BY <1>17 DEF FinalizeAttempt
  <2> QED
    BY <1>17, <2>1, <2>4, <2>5, <2>6, ConcludeType DEF FinalizeAttempt, TypeOK
<1>18. ASSUME NEW r \in Runs, Finish(r) PROVE TypeOK'
  <2>1. pc' \in [Sessions -> Labels]
    BY <1>0, <1>18, GotoType DEF Finish
  <2>2. FinalStatus(r) \in ItemStatuses
    BY DEF FinalStatus, ItemStatuses, Publishable
  <2>3. Touched(FinalStatus(r)) \in ContentItem
    BY <2>2, TouchedItem DEF TypeOK
  <2>4. content' \in ContentItem
    BY <1>18, <2>3 DEF Finish, ContentItem
  <2>5. att' \in [Runs -> [Platforms -> Attempt]]
    BY <1>18, AfterCommitType DEF Finish, TypeOK
  <2> QED
    BY <1>18, <2>1, <2>4, <2>5, NoDraftType, UnlockType, ForgetType DEF Finish, TypeOK
<1>19. ASSUME NEW r \in Runs, Interrupted(r) PROVE TypeOK'
  <2>1. pc' \in [Sessions -> Labels]
    BY <1>0, <1>19, GotoType DEF Interrupted
  <2>2. OpenMeta(att) \subseteq Runs \X Platforms
    BY DEF OpenMeta, PublishAssumption
  <2>3. stale' \in [Sessions -> [attempts : SUBSET (Runs \X Platforms), content : BOOLEAN]]
    BY <1>0, <1>19, <2>2 DEF Interrupted, TypeOK
  <2> QED
    BY <1>19, <2>1, <2>3, NoDraftType, UnlockType, ForgetType
      DEF Interrupted, Rollback, TypeOK
<1>20. ASSUME NEW r \in Runs, Cancelled(r) PROVE TypeOK'
  <2>1. pc' \in [Sessions -> Labels]
    BY <1>0, <1>20, GotoType DEF Cancelled
  <2>2. OpenMeta([att EXCEPT ![r] = AfterCommit(r)]) \subseteq Runs \X Platforms
    BY DEF OpenMeta, PublishAssumption
  <2>3. stale' \in [Sessions -> [attempts : SUBSET (Runs \X Platforms), content : BOOLEAN]]
    BY <1>0, <1>20, <2>2 DEF Cancelled, TypeOK
  <2> QED
    BY <1>20, <2>1, <2>3, ForgetType DEF Cancelled, TypeOK
<1>21. ASSUME NEW r \in Runs, ForceTerminal(r) PROVE TypeOK'
  <2>1. pc' \in [Sessions -> Labels]
    BY <1>0, <1>21, GotoType DEF ForceTerminal
  <2>2. content' \in ContentItem
    BY <1>a, <1>21 DEF ForceTerminal, TypeOK
  <2>3. att' \in [Runs -> [Platforms -> Attempt]]
    <3>1. CASE UNCHANGED rows
      BY <3>1 DEF TypeOK
    <3>2. CASE att' = [q \in Runs |-> [p \in Platforms |->
                         IF <<q, p>> \in stale[r].attempts
                         THEN ClosedAsAmbiguous(r, <<q, p>>)
                         ELSE IF q = r THEN AfterCommit(r)[p] ELSE att[q][p]]]
      <4>1. \A q \in Runs, p \in Platforms :
              /\ ClosedAsAmbiguous(r, <<q, p>>) \in Attempt
              /\ AfterCommit(r)[p] \in Attempt
              /\ att[q][p] \in Attempt
        <5> TAKE q \in Runs, p \in Platforms
        <5>1. ClosedAsAmbiguous(r, <<q, p>>) \in Attempt
          BY ClosedType
        <5>2. AfterCommit(r)[p] \in Attempt
          BY AfterCommitType
        <5>3. att[q][p] \in Attempt
          BY DEF TypeOK
        <5> QED
          BY <5>1, <5>2, <5>3
      <4> QED
        BY <3>2, <4>1
    <3> QED
      BY <1>21, <3>1, <3>2 DEF ForceTerminal
  <2>4. stale' \in [Sessions -> [attempts : SUBSET (Runs \X Platforms), content : BOOLEAN]]
    BY <1>0, <1>21 DEF ForceTerminal, TypeOK, NothingStale
  <2> QED
    BY <1>21, <2>1, <2>2, <2>3, <2>4, NoDraftType, UnlockType DEF ForceTerminal, TypeOK
<1>22. ASSUME NEW r \in Runs, ReadForRelease(r) PROVE TypeOK'
  <2>1. pc' \in [Sessions -> Labels]
    BY <1>0, <1>22, GotoType DEF ReadForRelease
  <2> QED
    BY <1>22, <2>1 DEF ReadForRelease, TypeOK
<1>23. ASSUME NEW r \in Runs, Release(r) PROVE TypeOK'
  <2>1. pc' \in [Sessions -> Labels]
    BY <1>0, <1>23, GotoType DEF Release
  <2> QED
    BY <1>a, <1>23, <2>1 DEF Release, TypeOK
<1>24. ASSUME NEW r \in Runs, Crash(r) PROVE TypeOK'
  <2>1. pc' \in [Sessions -> Labels]
    BY <1>0, <1>24, GotoType DEF Crash
  <2>2. stale' \in [Sessions -> [attempts : SUBSET (Runs \X Platforms), content : BOOLEAN]]
    BY <1>0, <1>24 DEF Crash, TypeOK, NothingStale
  <2> QED
    BY <1>24, <2>1, <2>2, NoDraftType, UnlockType, ForgetType DEF Crash, Rollback, TypeOK
<1>25. ASSUME Expire PROVE TypeOK'
  <2>1. PICK r \in Runs, p \in Platforms :
          att' = [att EXCEPT ![r][p].expired = TRUE]
    BY <1>25 DEF Expire
  <2>2. [att[r][p] EXCEPT !.expired = TRUE] \in Attempt
    <3>1. att[r][p] \in Attempt
      BY DEF TypeOK
    <3> QED
      BY <3>1 DEF Attempt
  <2>3. att' = [att EXCEPT ![r] = [@ EXCEPT ![p] = [att[r][p] EXCEPT !.expired = TRUE]]]
    BY <2>1 DEF TypeOK
  <2>4. att' \in [Runs -> [Platforms -> Attempt]]
    BY <2>2, <2>3 DEF TypeOK
  <2> QED
    BY <1>25, <2>4 DEF Expire, TypeOK
<1>26. ASSUME GrowOld PROVE TypeOK'
  BY <1>26 DEF GrowOld, TypeOK, ContentItem
<1>27. CASE UNCHANGED vars
  BY <1>27 DEF vars, TypeOK
<1> QED
  BY <1>2, <1>3, <1>4, <1>5, <1>6, <1>7, <1>8, <1>9, <1>10, <1>11, <1>12, <1>13,
     <1>14, <1>15, <1>16, <1>17, <1>18, <1>19, <1>20, <1>21, <1>22, <1>23, <1>24,
     <1>25, <1>26, <1>27
  DEF Next, Step, Trouble

-----------------------------------------------------------------------------
(* What a step does to a row *)

(* The rows a session has read, to write them later, are there. *)
StaleRows ==
  \A s \in Sessions : \A x \in stale[s].attempts :
    \/ att[x[1]][x[2]].status # "absent"
    \/ /\ x[1] = s /\ pc[s] = "cancelled"
       /\ draft[x[1]][x[2]].status # "absent"

(* The ways in which a committed attempt changes. *)
RowMove(r, p) ==
  \/ /\ att'[r][p].status = att[r][p].status
     /\ att'[r][p].version = att[r][p].version
  \/ /\ draft[r][p].status # "absent" /\ att'[r][p] = draft[r][p]
     /\ lock' # r /\ draft'[r] = NoDraft
  \/ /\ pc[r] = "insert" /\ cur[r] = p /\ CommitsClaim(p)
     /\ att'[r][p].status = "in_progress"
     /\ att'[r][p].version = version[r]
     /\ lock' # r /\ pc'[r] = "call"
  \/ /\ att[r][p].status # "absent"
     /\ att'[r][p].version = att[r][p].version
     /\ att'[r][p].status \in {"failed", "operator_review", "retrying"}
     /\ p \in Meta /\ ~AlreadyPublished(r, p)
          => att'[r][p].status = "operator_review"
  \/ /\ att[r][p].status # "absent" \/ draft[r][p].status # "absent"
     /\ att'[r][p].status = "operator_review"
     /\ att'[r][p].version =
          IF draft[r][p].status = "absent" THEN att[r][p].version
          ELSE draft[r][p].version
     /\ draft[r][p].status # "absent" => lock' # r /\ draft'[r] = NoDraft

(* The ways in which an uncommitted attempt changes. *)
DraftMove(r, p) ==
  \/ draft'[r][p] = draft[r][p]
  \/ draft'[r][p] = NoAttempt /\ pc'[r] # pc[r]
  \/ /\ pc[r] = "insert" /\ cur[r] = p /\ ~CommitsClaim(p)
     /\ draft'[r][p].status = "in_progress"
     /\ draft'[r][p].version = version[r]
     /\ pc'[r] = "call"
  \/ /\ pc[r] = "answer" /\ cur[r] = p /\ pc'[r] = "next"
     /\ draft'[r][p].version = AfterCommit(r)[p].version
     /\ \E n \in Nat : draft'[r][p].status = Outcome(answer[r], p, n)

LEMMA RecoverMoves ==
  ASSUME TypeOK, StaleRows, NEW s \in Sessions, pc[s] = "recover", RecoverRows(s),
         NEW r \in Runs, NEW p \in Platforms
  PROVE  RowMove(r, p)
<1>1. CASE <<r, p>> \in stale[s].attempts
  <2>1. att'[r][p] = Recovered(r, p)
    BY <1>1 DEF RecoverRows
  <2>2. att[r][p].status # "absent"
    BY <1>1 DEF StaleRows
  <2> QED
    BY <2>1, <2>2, RecoveredType DEF RowMove
<1>2. CASE <<r, p>> \notin stale[s].attempts
  BY <1>2 DEF RecoverRows, RowMove
<1> QED
  BY <1>1, <1>2

LEMMA RowMoves ==
  ASSUME PublishAssumption, TypeOK, InLoop, StaleRows, [Next]_vars,
         NEW r \in Runs, NEW p \in Platforms
  PROVE  RowMove(r, p)
<1> USE DEF rows, locks, call, local
<1>1. CASE UNCHANGED att
  BY <1>1 DEF RowMove
<1>2. ASSUME NEW q \in Runs, Recover(q) PROVE RowMove(r, p)
  BY <1>2, RecoverMoves DEF Recover, Sessions
<1>3. CASE SweepWrite
  BY <1>3, RecoverMoves DEF SweepWrite, Sessions
<1>4. ASSUME NEW q \in Runs, InsertClaim(q), ~UNCHANGED att PROVE RowMove(r, p)
  <2>1. /\ pc[q] = "insert" /\ cur[q] \in Platforms /\ CommitsClaim(cur[q])
        /\ att' = [att EXCEPT ![q] =
                     [AfterCommit(q) EXCEPT ![cur[q]] = NewClaim(q, cur[q])]]
        /\ lock' # q /\ draft'[q] = NoDraft /\ pc'[q] = "call"
    BY <1>4
    DEF InsertClaim, InLoop, InBody, TypeOK, Unlock, PublishAssumption, Goto, Sessions
  <2>2. CASE q = r /\ p = cur[q]
    <3>1. att'[r][p] = NewClaim(r, p)
      BY <2>1, <2>2, AfterCommitType DEF TypeOK
    <3> QED
      BY <2>1, <2>2, <3>1, NewClaimType DEF RowMove
  <2>3. CASE q = r /\ p # cur[q]
    <3>1. att'[r][p] = AfterCommit(r)[p]
      BY <2>1, <2>3, AfterCommitType DEF TypeOK
    <3> QED
      BY <2>1, <2>3, <3>1, AfterCommitType DEF RowMove
  <2>4. CASE q # r
    BY <2>1, <2>4 DEF RowMove, TypeOK
  <2> QED
    BY <2>2, <2>3, <2>4
<1>5. ASSUME NEW q \in Runs, Finish(q) PROVE RowMove(r, p)
  <2>1. CASE q = r
    <3>1. att'[r][p] = AfterCommit(r)[p] /\ lock' # r /\ draft'[r] = NoDraft
      BY <1>5, <2>1 DEF Finish, TypeOK, Unlock, PublishAssumption
    <3> QED
      BY <3>1, AfterCommitType DEF RowMove
  <2>2. CASE q # r
    BY <1>5, <2>2 DEF Finish, RowMove, TypeOK
  <2> QED
    BY <2>1, <2>2
<1>6. ASSUME NEW q \in Runs, ForceTerminal(q), ~UNCHANGED att PROVE RowMove(r, p)
  <2>1. /\ att' = [x \in Runs |-> [y \in Platforms |->
                     IF <<x, y>> \in stale[q].attempts
                     THEN ClosedAsAmbiguous(q, <<x, y>>)
                     ELSE IF x = q THEN AfterCommit(q)[y] ELSE att[x][y]]]
        /\ Writable(stale[q].attempts, q)
        /\ lock' # q /\ draft'[q] = NoDraft
    BY <1>6 DEF ForceTerminal, Unlock, TypeOK, PublishAssumption
  <2>2. CASE <<r, p>> \in stale[q].attempts
    <3>1. att'[r][p] = ClosedAsAmbiguous(q, <<r, p>>)
      BY <2>1, <2>2
    <3>2. r = q \/ draft[r][p].status = "absent"
      BY <2>1, <2>2 DEF Writable
    <3>4. att[r][p].status # "absent" \/ draft[r][p].status # "absent"
      BY <2>2 DEF StaleRows, Sessions
    <3>3. r = q => AfterCommit(q)[p].version =
                     IF draft[r][p].status = "absent" THEN att[r][p].version
                     ELSE draft[r][p].version
      BY AfterCommitType
    <3> QED
      BY <2>1, <3>1, <3>2, <3>3, <3>4, ClosedType DEF RowMove
  <2>3. CASE <<r, p>> \notin stale[q].attempts /\ r = q
    <3>1. att'[r][p] = AfterCommit(r)[p]
      BY <2>1, <2>3
    <3> QED
      BY <2>1, <2>3, <3>1, AfterCommitType DEF RowMove
  <2>4. CASE <<r, p>> \notin stale[q].attempts /\ r # q
    <3>1. att'[r][p] = att[r][p]
      BY <2>1, <2>4
    <3> QED
      BY <3>1 DEF RowMove
  <2> QED
    BY <2>2, <2>3, <2>4
<1>7. CASE Expire
  <2>1. PICK x \in Runs, y \in Platforms :
          att' = [att EXCEPT ![x][y].expired = TRUE]
    BY <1>7 DEF Expire
  <2>2. att[r][p] \in Attempt
    BY DEF TypeOK
  <2> DEFINE e == [att[x][y] EXCEPT !.expired = TRUE]
  <2>3. att' = [att EXCEPT ![x] = [att[x] EXCEPT ![y] = e]]
    BY <2>1
  <2>4. CASE x = r /\ y = p
    <3>1. e.status = att[r][p].status /\ e.version = att[r][p].version
      BY <2>2, <2>4 DEF Attempt
    <3> HIDE DEF e
    <3>2. att'[r][p] = e
      BY <2>3, <2>4 DEF TypeOK
    <3> QED
      BY <3>1, <3>2 DEF RowMove
  <2>5. CASE x # r \/ y # p
    BY <2>3, <2>5 DEF RowMove, TypeOK
  <2> QED
    BY <2>4, <2>5
<1>8. CASE UNCHANGED vars
  BY <1>1, <1>8 DEF vars
<1> QED
  BY <1>1, <1>2, <1>3, <1>4, <1>5, <1>6, <1>7, <1>8, ZenonT(60)
  DEF Next, Step, Trouble, Begin, BeginManual, BeginRetry, BeginScheduled,
      SweepRead, Validate, Refuse, MarkPublishing, NoAccount, CheckPrior,
      BeginAttempt, UnresolvedWrite, LookForClaim, CallProvider, FinalizeAttempt,
      Interrupted, Cancelled, Rollback, ReadForRelease, Release, Crash, GrowOld

LEMMA DraftMoves ==
  ASSUME PublishAssumption, TypeOK, InLoop, [Next]_vars,
         NEW r \in Runs, NEW p \in Platforms
  PROVE  DraftMove(r, p)
<1> USE DEF rows, locks, call, local
<1>1. CASE UNCHANGED draft
  BY <1>1 DEF DraftMove
<1>2. ASSUME NEW q \in Runs, draft' = [draft EXCEPT ![q] = NoDraft], pc'[q] # pc[q]
      PROVE  DraftMove(r, p)
  BY <1>2 DEF DraftMove, NoDraft, TypeOK
<1>3. ASSUME NEW q \in Runs, InsertClaim(q) PROVE DraftMove(r, p)
  <2>1. cur[q] \in Platforms
    BY <1>3 DEF InsertClaim, InLoop, InBody, TypeOK
  <2>2. CASE draft' = [draft EXCEPT ![q][cur[q]] = NewClaim(q, cur[q])] /\ ~CommitsClaim(cur[q])
    <3>1. CASE q = r /\ cur[q] = p
      <4>1. draft'[r][p] = NewClaim(r, p)
        BY <2>1, <2>2, <3>1 DEF TypeOK
      <4>2. \/ UNCHANGED draft
            \/ pc'[r] = "call"
        BY <1>3, <3>1 DEF InsertClaim, Goto, TypeOK, Sessions
      <4> QED
        BY <1>3, <2>2, <3>1, <4>1, <4>2, NewClaimType DEF DraftMove, InsertClaim
    <3>2. CASE q # r \/ cur[q] # p
      BY <2>1, <2>2, <3>2 DEF DraftMove, TypeOK
    <3> QED
      BY <3>1, <3>2
  <2> QED
    BY <1>1, <1>2, <1>3, <2>2, ZenonT(60) DEF InsertClaim, Goto, TypeOK, Sessions
<1>4. ASSUME NEW q \in Runs, FinalizeAttempt(q) PROVE DraftMove(r, p)
  <2> DEFINE n == AfterCommit(q)[cur[q]].number
             o == Outcome(answer[q], cur[q], n)
             new == [AfterCommit(q)[cur[q]] EXCEPT !.status = o, !.expired = FALSE]
  <2>1. cur[q] \in Platforms /\ pc[q] = "answer"
    BY <1>4 DEF FinalizeAttempt, InLoop, InBody, TypeOK
  <2>2. AfterCommit(q)[cur[q]] \in Attempt
    BY <2>1, AfterCommitType
  <2>3. new.status = o /\ new.version = AfterCommit(q)[cur[q]].version /\ n \in Nat
    BY <2>2 DEF Attempt
  <2>4. draft' = [draft EXCEPT ![q][cur[q]] = new]
    BY <1>4 DEF FinalizeAttempt
  <2> HIDE DEF new, n
  <2>5. CASE q = r /\ cur[q] = p
    <3>1. draft'[r][p] = new
      BY <2>1, <2>4, <2>5 DEF TypeOK
    <3> QED
      BY <1>4, <2>1, <2>3, <2>5, <3>1 DEF DraftMove, FinalizeAttempt, Conclude, Goto, TypeOK, Sessions
  <2>6. CASE q # r \/ cur[q] # p
    BY <2>1, <2>4, <2>6 DEF DraftMove, TypeOK
  <2> QED
    BY <2>5, <2>6
<1>5. ASSUME NEW q \in Runs,
             Finish(q) \/ Interrupted(q) \/ ForceTerminal(q) \/ Crash(q)
      PROVE  DraftMove(r, p)
  <2>1. pc'[q] # pc[q]
    BY <1>5
    DEF Finish, Interrupted, InTry, ForceTerminal, Crash, Goto, TypeOK, Sessions
  <2> QED
    BY <1>2, <1>5, <2>1 DEF Finish, Interrupted, ForceTerminal, Crash, Rollback
<1>6. CASE UNCHANGED vars
  BY <1>1, <1>6 DEF vars
<1> QED
  BY <1>1, <1>3, <1>4, <1>5, <1>6, ZenonT(60)
  DEF Next, Step, Trouble, Begin, BeginManual, BeginRetry, BeginScheduled,
      SweepRead, SweepWrite, Recover, Validate, Refuse, MarkPublishing, NoAccount,
      CheckPrior, BeginAttempt, UnresolvedWrite, LookForClaim, CallProvider,
      Cancelled, ReadForRelease, Release, Expire, GrowOld

(* What a step of another session leaves alone. *)
Rests(r) ==
  /\ pc'[r] = pc[r] /\ cur'[r] = cur[r] /\ version'[r] = version[r]
  /\ results'[r] = results[r] /\ answer'[r] = answer[r]
  /\ kind'[r] = kind[r] /\ targets'[r] = targets[r]
  /\ \A p \in Platforms : <<r, p>> \in posts' <=> <<r, p>> \in posts
  /\ \A p \in Platforms : <<r, p>> \in hidden' <=> <<r, p>> \in hidden

Moves(r) ==
  \/ BeginManual(r) \/ BeginRetry(r) \/ BeginScheduled(r) \/ Step(r) \/ Trouble(r)

LEMMA ItsOwnStep ==
  ASSUME PublishAssumption, TypeOK, [Next]_vars, NEW r \in Runs
  PROVE  Rests(r) \/ Moves(r)
<1> USE DEF rows, locks, call, local
<1>1. r # Sweeper /\ r \in Sessions
  BY DEF PublishAssumption, Sessions
<1>2. CASE SweepRead \/ SweepWrite \/ Expire \/ GrowOld \/ UNCHANGED vars
  BY <1>1, <1>2 DEF SweepRead, SweepWrite, Expire, GrowOld, Goto, Rests, vars, TypeOK
<1>3. ASSUME NEW q \in Runs, q # r,
             BeginManual(q) \/ BeginRetry(q) \/ BeginScheduled(q)
      PROVE  Rests(r)
  BY <1>1, <1>3 DEF BeginManual, BeginRetry, BeginScheduled, Begin, Goto, Rests, TypeOK
<1>4. ASSUME NEW q \in Runs, q # r, Step(q) PROVE Rests(r)
  <2>1. CASE Recover(q) \/ Validate(q) \/ MarkPublishing(q) \/ ForceTerminal(q)
             \/ ReadForRelease(q) \/ Release(q)
    BY <1>1, <1>4, <2>1
    DEF Recover, Validate, MarkPublishing, ForceTerminal, ReadForRelease, Release,
        Goto, Rests, TypeOK
  <2>2. CASE CheckPrior(q) \/ BeginAttempt(q) \/ LookForClaim(q) \/ InsertClaim(q)
    BY <1>1, <1>4, <2>2
    DEF CheckPrior, BeginAttempt, LookForClaim, InsertClaim, Conclude, Goto, Rests, TypeOK
  <2>3. CASE CallProvider(q)
    BY <1>1, <1>4, <2>3 DEF CallProvider, Goto, Rests, TypeOK
  <2>4. CASE FinalizeAttempt(q) \/ Finish(q)
    BY <1>1, <1>4, <2>4 DEF FinalizeAttempt, Finish, Conclude, Forget, Goto, Rests, TypeOK
  <2> QED
    BY <1>4, <2>1, <2>2, <2>3, <2>4 DEF Step
<1>5. ASSUME NEW q \in Runs, q # r, Trouble(q) PROVE Rests(r)
  BY <1>1, <1>5
  DEF Trouble, Refuse, NoAccount, UnresolvedWrite, Interrupted, Cancelled, Crash,
      Rollback, Forget, Conclude, Goto, Rests, TypeOK
<1> QED
  BY <1>2, <1>3, <1>4, <1>5 DEF Next, Moves

=============================================================================
