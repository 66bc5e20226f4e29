------------------------- MODULE PublishLedgerProofs -------------------------
(* The publish path implements PublishLedger, for any number of runs and
   platforms, with and without coordination.                                *)
EXTENDS PublishAttemptsSafety

Contested == {"in_progress", "operator_review"}

AtProvider(r, p) == pc[r] \in {"call", "answer"} /\ cur[r] = p

(* A Meta platform the run has not come to has no attempt of the run; one it
   is calling, or has an answer of that is not committed, is open or was put
   under review by somebody else; and claims are never left uncommitted.     *)
FirstTime ==
  \A r \in Runs : \A p \in Meta :
    /\ draft[r][p].status # "in_progress"
    /\ draft[r][p].status # "absent" \/ AtProvider(r, p)
         => att[r][p].status \in Contested
    /\ pc[r] \in Waiting /\ results[r][p] = "none" /\ ~AtProvider(r, p)
         => att[r][p].status = "absent" /\ draft[r][p].status = "absent"

(* What a run does to what FirstTime says of it. *)
LEMMA FirstTimeStays ==
  ASSUME PublishAssumption, TypeOK, InLoop, StaleRows, Stamped, OwnStamps, MetaSafe,
         FirstTime, [Next]_vars
  PROVE  FirstTime'
<1> USE DEF rows, locks, call, local
<1> SUFFICES ASSUME NEW r \in Runs, NEW p \in Meta
             PROVE
    /\ draft'[r][p].status # "in_progress"
    /\ draft'[r][p].status # "absent" \/ AtProvider(r, p)'
         => att'[r][p].status \in Contested
    /\ pc'[r] \in Waiting /\ results'[r][p] = "none" /\ ~AtProvider(r, p)'
         => att'[r][p].status = "absent" /\ draft'[r][p].status = "absent"
  BY DEF FirstTime
<1>0. p \in Platforms /\ r \in Sessions /\ CommitsClaim(p)
  BY DEF PublishAssumption, Sessions, CommitsClaim
<1>1. RowMove(r, p) /\ DraftMove(r, p)
  BY <1>0, RowMoves, DraftMoves
<1>2. /\ draft[r][p].status # "in_progress"
      /\ draft[r][p].status # "absent" \/ AtProvider(r, p)
           => att[r][p].status \in Contested
      /\ pc[r] \in Waiting /\ results[r][p] = "none" /\ ~AtProvider(r, p)
           => att[r][p].status = "absent" /\ draft[r][p].status = "absent"
      /\ AtProvider(r, p) => draft[r][p].status = "absent"
  BY DEF FirstTime, MetaSafe, AtProvider
<1>3. att[r][p].status # "absent" => ~AlreadyPublished(r, p)
  BY <1>0, KeysDiffer DEF KeysNeverRepeat, AlreadyPublished
<1>4. draft'[r][p].status # "in_progress"
  BY <1>0, <1>1, <1>2, OutcomeType, NoAttemptType DEF DraftMove
<1>5. NoDraft[p].status = "absent"
  BY <1>0, NoAttemptType DEF NoDraft
<1>6. ASSUME att[r][p].status \in Contested
      PROVE  att'[r][p].status \in Contested \/ draft'[r][p].status = "absent"
  BY <1>0, <1>1, <1>3, <1>5, <1>6 DEF RowMove, Contested
<1>7. ASSUME draft'[r][p].status # "absent"
      PROVE  att'[r][p].status \in Contested
  <2>1. draft[r][p].status # "absent" \/ AtProvider(r, p)
    BY <1>0, <1>1, <1>7, NoAttemptType DEF DraftMove, AtProvider
  <2> QED
    BY <1>2, <1>6, <1>7, <2>1
<1>8. ASSUME att[r][p].status = "absent", draft[r][p].status = "absent",
             ~(pc[r] = "insert" /\ pc'[r] = "call" /\ cur[r] = p)
      PROVE  att'[r][p].status = "absent"
  BY <1>0, <1>1, <1>8 DEF RowMove
<1>9. ASSUME draft[r][p].status = "absent", ~AtProvider(r, p)
      PROVE  draft'[r][p].status = "absent"
  BY <1>0, <1>1, <1>9, NoAttemptType DEF DraftMove, AtProvider
<1>10. ASSUME draft[r][p].status = "absent", att[r][p].status \in Contested,
              ~(pc[r] = "insert" /\ pc'[r] = "call" /\ cur[r] = p)
       PROVE  att'[r][p].status \in Contested
  BY <1>0, <1>1, <1>3, <1>10 DEF RowMove, Contested
<1>11. CASE Rests(r)
  <2>1. AtProvider(r, p)' <=> AtProvider(r, p)
    BY <1>11 DEF Rests, AtProvider
  <2>2. AtProvider(r, p) => att'[r][p].status \in Contested
    BY <1>2, <1>10 DEF AtProvider
  <2>3. ~AtProvider(r, p) /\ pc[r] \in Waiting /\ results[r][p] = "none"
          => att'[r][p].status = "absent" /\ draft'[r][p].status = "absent"
    BY <1>2, <1>8, <1>9, <1>11 DEF Rests
  <2> QED
    BY <1>4, <1>7, <1>11, <2>1, <2>2, <2>3 DEF Rests
<1>12. CASE InsertClaim(r)
  <2>1. pc[r] = "insert" /\ cur[r] \in Platforms /\ pc'[r] \in {"call", "next"}
    BY <1>0, <1>12 DEF InsertClaim, Conclude, Goto, InLoop, InBody, TypeOK
  <2>2. cur[r] # p => results'[r][p] = results[r][p]
    BY <1>0, <1>12, <2>1 DEF InsertClaim, Conclude, TypeOK
  <2>3. CASE pc'[r] = "call"
    <3>1. UNCHANGED <<results, cur>>
      BY <1>0, <1>12, <2>3 DEF InsertClaim, Conclude, Goto, TypeOK
    <3>2. ASSUME cur[r] = p PROVE att'[r][p].status = "in_progress"
      <4>1. att' = [att EXCEPT ![r] = [AfterCommit(r) EXCEPT ![p] = NewClaim(r, p)]]
        BY <1>0, <1>12, <2>3, <3>2 DEF InsertClaim, Conclude, Goto, TypeOK
      <4>2. att'[r][p] = NewClaim(r, p)
        BY <1>0, <4>1, AfterCommitType DEF TypeOK
      <4> QED
        BY <1>0, <4>2, NewClaimType
    <3>3. ASSUME cur[r] # p, results[r][p] = "none"
          PROVE  att'[r][p].status = "absent" /\ draft'[r][p].status = "absent"
      <4>1. ~AtProvider(r, p) /\ pc[r] \in Waiting
        BY <2>1, <3>3 DEF AtProvider, Waiting, Marked, InBody
      <4> QED
        BY <1>2, <1>8, <1>9, <3>3, <4>1
    <3> QED
      BY <1>4, <1>7, <2>3, <3>1, <3>2, <3>3 DEF AtProvider, Contested
  <2>4. CASE pc'[r] = "next"
    <3>1. results'[r][p] = "none" => cur[r] # p
      BY <1>0, <1>12, <2>1, <2>4 DEF InsertClaim, Conclude, Goto, TypeOK
    <3>2. ~AtProvider(r, p) /\ ~AtProvider(r, p)' /\ pc[r] \in Waiting
      BY <2>1, <2>4 DEF AtProvider, Waiting, Marked, InBody
    <3> QED
      BY <1>2, <1>4, <1>7, <1>8, <1>9, <2>2, <2>4, <3>1, <3>2
  <2> QED
    BY <2>1, <2>3, <2>4
<1>13. CASE CallProvider(r)
  <2>1. /\ pc[r] = "call" /\ pc'[r] = "answer"
        /\ UNCHANGED <<att, draft, cur, results>>
    BY <1>0, <1>13 DEF CallProvider, Goto, TypeOK
  <2> QED
    BY <1>2, <2>1 DEF AtProvider, Waiting, Marked, InBody
<1>14. CASE FinalizeAttempt(r)
  <2>1. /\ pc[r] = "answer" /\ pc'[r] = "next"
        /\ cur[r] = p => results'[r][p] # "none"
        /\ cur[r] # p => results'[r][p] = results[r][p]
    BY <1>0, <1>14 DEF FinalizeAttempt, Conclude, Goto, TypeOK
  <2> QED
    BY <1>2, <1>4, <1>7, <1>8, <1>9, <2>1 DEF AtProvider, Waiting, Marked, InBody
<1>15. CASE CheckPrior(r) \/ BeginAttempt(r) \/ LookForClaim(r) \/ UnresolvedWrite(r)
            \/ NoAccount(r) \/ BeginManual(r) \/ BeginRetry(r) \/ BeginScheduled(r)
            \/ Recover(r) \/ Validate(r) \/ MarkPublishing(r)
  <2>1. /\ pc[r] \in {"idle", "recover", "validate", "mark", "next", "lock", "look"}
        /\ pc'[r] \notin {"call", "answer"}
    BY <1>0, <1>15
    DEF CheckPrior, BeginAttempt, LookForClaim, UnresolvedWrite, NoAccount, BeginManual,
        BeginRetry, BeginScheduled, Begin, Recover, Validate, MarkPublishing, Conclude,
        Goto, TypeOK
  <2>2. results'[r][p] = "none" => results[r][p] = "none"
    BY <1>0, <1>15
    DEF CheckPrior, BeginAttempt, LookForClaim, UnresolvedWrite, NoAccount, BeginManual,
        BeginRetry, BeginScheduled, Begin, Recover, Validate, MarkPublishing, Conclude,
        Pending, TypeOK
  <2> QED
    BY <1>2, <1>4, <1>7, <1>8, <1>9, <2>1, <2>2 DEF AtProvider, Waiting, Marked, InBody
<1>16. CASE Finish(r) \/ Interrupted(r) \/ Cancelled(r) \/ ForceTerminal(r)
            \/ ReadForRelease(r) \/ Release(r) \/ Refuse(r) \/ Crash(r)
  <2>1. pc'[r] \in {"done", "abort", "cancelled", "release", "revert"}
    BY <1>0, <1>16
    DEF Finish, Interrupted, Cancelled, ForceTerminal, ReadForRelease, Release, Refuse,
        Crash, Goto, TypeOK
  <2> QED
    BY <1>4, <1>7, <2>1 DEF AtProvider, Waiting, Marked, InBody
<1> QED
  BY <1>11, <1>12, <1>13, <1>14, <1>15, <1>16, ItsOwnStep DEF Moves, Step, Trouble

-----------------------------------------------------------------------------
(* Refinement *)

(* What a step does to one entry of the ledger. *)
LEMMA EntryMoves ==
  ASSUME PublishAssumption, Inv, FirstTime, [Next]_vars, NEW a \in Runs \X Meta
  PROVE  \/ Ledger!Stays(a) \/ Ledger!Claim(a) \/ Ledger!Post(a)
         \/ Ledger!Report(a) \/ Ledger!Review(a)
<1> PICK r \in Runs, p \in Meta : a = <<r, p>>
  OBVIOUS
<1> DEFINE s == att[r][p].status
           t == att'[r][p].status
<1>0. p \in Platforms /\ r \in Sessions /\ TypeOK
  BY DEF PublishAssumption, Sessions, Inv
<1>1. RowMove(r, p)
  BY <1>0, RowMoves DEF Inv
<1>2. /\ draft[r][p].status # "in_progress"
      /\ draft[r][p].status # "absent" \/ AtProvider(r, p) => s \in Contested
      /\ pc[r] = "insert" /\ cur[r] = p => s = "absent"
  <2>1. pc[r] = "insert" /\ cur[r] = p
          => pc[r] \in Waiting /\ results[r][p] = "none" /\ ~AtProvider(r, p)
    BY DEF Inv, InLoop, InBody, Waiting, Marked, AtProvider
  <2> QED
    BY <2>1 DEF FirstTime
<1>3. s # "absent" => ~AlreadyPublished(r, p)
  BY <1>0, KeysDiffer DEF KeysNeverRepeat, AlreadyPublished, Inv
<1>4. /\ s \in AttemptStatuses /\ t \in AttemptStatuses
      /\ draft[r][p].status \in AttemptStatuses
  <2>1. TypeOK'
    BY <1>0, TypePreserved DEF Inv
  <2>2. att[r][p] \in Attempt /\ att'[r][p] \in Attempt /\ draft[r][p] \in Attempt
    BY <1>0, <2>1 DEF TypeOK
  <2> QED
    BY <2>2 DEF Attempt
<1>5. CASE /\ <<r, p>> \in posts' <=> <<r, p>> \in posts
           /\ <<r, p>> \in hidden' <=> <<r, p>> \in hidden
  <2>1. Ledger!PostStays(a)
    BY <1>5 DEF Ledger!PostStays
  <2>2. CASE s = t
    BY <2>1, <2>2 DEF Ledger!Stays
  <2>3. CASE s = "absent" /\ t = "in_progress"
    BY <2>1, <2>3 DEF Ledger!Claim, EntryOf
  <2>4. CASE s # "absent" /\ t = "operator_review"
    BY <1>4, <2>1, <2>4 DEF Ledger!Review, EntryOf, AttemptStatuses
  <2>5. CASE s \in Contested /\ t = draft[r][p].status /\ t # "absent"
    <3>1. t = "success" => <<r, p>> \in posts \ hidden
      BY <1>0, <2>5 DEF Inv, RealPosts, MetaSafe
    <3>2. <<r, p>> \in posts \ hidden => t \in {"success", "operator_review"}
      BY <2>5 DEF Inv, MetaSafe
    <3>3. CASE t = "operator_review"
      BY <2>4, <2>5, <3>3 DEF Contested
    <3>4. CASE t # "operator_review"
      <4>1. EntryOf(s) \in {"open", "review"}
        BY <2>5 DEF Contested, EntryOf
      <4>2. EntryOf(t) = IF <<r, p>> \in posts \ hidden THEN "success" ELSE "closed"
        BY <1>2, <1>4, <2>5, <3>1, <3>2, <3>4 DEF EntryOf, AttemptStatuses
      <4> QED
        BY <2>1, <4>1, <4>2 DEF Ledger!Report
    <3> QED
      BY <3>3, <3>4
  <2>6. \/ s = t
        \/ s = "absent" /\ t = "in_progress"
        \/ s # "absent" /\ t = "operator_review"
        \/ s \in Contested /\ t = draft[r][p].status /\ t # "absent"
    BY <1>1, <1>2, <1>3 DEF RowMove, Contested
  <2> QED
    BY <2>2, <2>3, <2>4, <2>5, <2>6
<1>6. CASE \/ ~(<<r, p>> \in posts' <=> <<r, p>> \in posts)
           \/ ~(<<r, p>> \in hidden' <=> <<r, p>> \in hidden)
  <2>1. ~Rests(r)
    BY <1>0, <1>6 DEF Rests
  <2>2. CallProvider(r)
    <3>1. Moves(r) => CallProvider(r) \/ UNCHANGED <<posts, hidden>>
      BY DEF Moves, BeginManual, BeginRetry, BeginScheduled, Begin, Step, Trouble, Recover,
        Validate, MarkPublishing, CheckPrior, BeginAttempt, LookForClaim, InsertClaim,
        FinalizeAttempt, Finish, ForceTerminal, ReadForRelease, Release, Refuse,
        NoAccount, UnresolvedWrite, Interrupted, Cancelled, Crash
    <3> QED
      BY <1>0, <1>6, <2>1, <3>1, ItsOwnStep
  <2>3. pc[r] = "call" /\ cur[r] = p => <<r, p>> \notin posts
    BY DEF Inv, MetaSafe, InLoop, InBody, Waiting, Marked
  <2>4. /\ pc[r] = "call" /\ cur[r] = p /\ UNCHANGED att
        /\ <<r, p>> \in posts' /\ <<r, p>> \notin posts
    BY <1>6, <2>2, <2>3 DEF CallProvider, rows
  <2>5. EntryOf(s) \in {"open", "review"}
    BY <1>2, <2>4 DEF AtProvider, Contested, EntryOf
  <2> QED
    BY <2>4, <2>5 DEF Ledger!Post
<1> QED
  BY <1>5, <1>6

LEMMA LedgerStep ==
  ASSUME PublishAssumption, Inv, FirstTime, [Next]_vars
  PROVE  [Ledger!Next]_(Ledger!vars)
<1>1. \A s : EntryOf(s) \in Ledger!Entries
  BY DEF EntryOf, Ledger!Entries
<1>2. TypeOK'
  BY TypePreserved DEF Inv
<1>3. hidden' \subseteq posts'
  BY <1>2 DEF TypeOK
<1> QED
  BY <1>1, <1>3, EntryMoves DEF Ledger!Next

(* The publish path implements the ledger for Meta attempts: whatever crashes,
   is interrupted, cancelled, recovered or overwritten from an old reading, a
   claim is durable before its post, one post at most comes of an attempt, and
   an attempt that is written off never gets one, and has one only if the
   provider answered its own run with an error after it.                     *)
THEOREM PublishImplementsLedger ==
  ASSUME PublishAssumption PROVE Spec => ImplementsLedger
<1>1. Init => FirstTime /\ Ledger!Init
  <2> SUFFICES ASSUME Init PROVE FirstTime /\ Ledger!Init
    OBVIOUS
  <2>1. \A r \in Runs, p \in Meta :
          att[r][p] = NoAttempt /\ draft[r][p] = NoAttempt /\ pc[r] = "idle"
    BY DEF Init, Sessions, PublishAssumption
  <2>2. FirstTime
    BY <2>1, NoAttemptType DEF FirstTime, AtProvider
  <2>3. Ledger!Init
    BY <2>1, NoAttemptType DEF Init, Ledger!Init, EntryOf
  <2> QED
    BY <2>2, <2>3
<1>2. Inv /\ FirstTime /\ [Next]_vars => FirstTime'
  BY FirstTimeStays DEF Inv
<1>3. Inv /\ FirstTime /\ [Next]_vars => [Ledger!Next]_(Ledger!vars)
  BY LedgerStep
<1> QED
  BY <1>1, <1>2, <1>3, InvAlways, PTL DEF Spec, ImplementsLedger, Ledger!Spec

=============================================================================
