------------------------ MODULE PublishAttemptsSafety ------------------------
(* The safety of the normal publish path, for any number of runs and
   platforms, with and without coordination.  The invariant has one part per
   idea; each is kept by a step on its own, with the help of those before it. *)
EXTENDS PublishAttemptsProofs

Marked == {"next"} \cup InBody

Waiting == {"idle", "recover", "validate", "mark"} \cup Marked

(* What is called a success is one. *)
RealPosts ==
  /\ \A r \in Runs, p \in Platforms :
       /\ att[r][p].status = "success" => <<r, p>> \in posts
       /\ draft[r][p].status = "success" => <<r, p>> \in posts
       /\ results[r][p] = "ok" => \E q \in Runs : <<q, p>> \in posts
  /\ \A r \in Runs :
       /\ pc[r] = "answer" /\ answer[r] = "ok" => <<r, cur[r]>> \in posts
       /\ pc[r] # "idle" => targets[r] # {}

Posted(r) ==
  /\ pc[r] # "idle"
  /\ targets[r] # {}
  /\ \A p \in targets[r] : \E q \in Runs : <<q, p>> \in posts

(* A run whose session has rolled back holds no lock of the content row. *)
LetGo == \A r \in Runs : pc[r] = "abort" => lock # r

Published == content.status = "published" => \E r \in Runs : Posted(r)

(* A version is a stamp of the content item; only the run that has the item
   locked may be one ahead of what is committed.                            *)
Own(r, v) == v <= content.updated_at \/ (v = content.updated_at + 1 /\ lock = r)

Stamped ==
  /\ \A r \in Runs, p \in Platforms :
       /\ att[r][p].version <= content.updated_at
       /\ Own(r, draft[r][p].version)
       /\ att[r][p].status # "absent" => att[r][p].version # 0
       /\ draft[r][p].status # "absent" => draft[r][p].version # 0
  /\ \A r \in Runs :
       /\ Own(r, version[r])
       /\ pc[r] \in Marked => version[r] # 0
       /\ pc[r] \in {"recover", "validate"} /\ kind[r] = "scheduled" => version[r] # 0
       /\ pc[r] \in {"call", "answer"} =>
            \/ att[r][cur[r]].status # "absent"
            \/ draft[r][cur[r]].status # "absent"

Uses(r, v) ==
  \/ v = version[r]
  \/ \E p \in Platforms : v = att[r][p].version \/ v = draft[r][p].version

(* No two runs have a version in common. *)
OwnStamps ==
  \A q, r \in Runs : q # r => \A v \in Nat \ {0} : ~(Uses(q, v) /\ Uses(r, v))

Accounted == {"in_progress", "success", "operator_review"}

(* A post that no error hides keeps its attempt accounted for; and only an
   answer that is an error hides one.                                      *)
MetaSafe ==
  \A r \in Runs : \A p \in Meta :
    /\ <<r, p>> \in posts =>
         /\ att[r][p].status # "absent"
         /\ pc[r] \in Waiting /\ ~(pc[r] = "answer" /\ cur[r] = p)
              => results[r][p] # "none"
    /\ <<r, p>> \in posts \ hidden =>
         /\ att[r][p].status \in Accounted
         /\ draft[r][p].status \in {"absent", "success", "operator_review"}
    /\ <<r, p>> \in hidden => draft[r][p].status # "success"
    /\ pc[r] \in {"call", "answer"} /\ cur[r] = p =>
         /\ att[r][p].status \in Accounted
         /\ draft[r][p].status = "absent"
    /\ pc[r] = "answer" /\ cur[r] = p /\ <<r, p>> \in posts
         => (<<r, p>> \in hidden <=> answer[r] \notin {"ok", "lost"})

OneClaim ==
  Coordination =>
    /\ \A r \in Runs : pc[r] \in {"look", "insert"} => advisory[cur[r]] = r
    /\ \A r \in Runs : pc[r] = "insert" => Is(cur[r], "in_progress") = {}
    /\ \A r \in Runs, p \in Platforms : draft[r][p].status # "in_progress"

-----------------------------------------------------------------------------
(* The loop over the platforms *)

LEMMA LoopStays ==
  ASSUME PublishAssumption, TypeOK, InLoop, [Next]_vars
  PROVE  InLoop'
<1> SUFFICES ASSUME NEW r \in Runs, pc'[r] \in InBody
             PROVE  cur'[r] \in targets'[r] /\ results'[r][cur'[r]] = "none"
  BY DEF InLoop
<1> USE DEF rows, locks, call, local, InBody
<1>0. r \in Sessions
  BY DEF Sessions
<1>1. CASE Rests(r)
  BY <1>1 DEF Rests, InLoop
<1>2. CASE BeginManual(r) \/ BeginRetry(r) \/ BeginScheduled(r) \/ Trouble(r)
  BY <1>0, <1>2
  DEF BeginManual, BeginRetry, BeginScheduled, Begin, Trouble, Refuse, NoAccount,
      UnresolvedWrite, Interrupted, Cancelled, Crash, Conclude, Goto, TypeOK
<1>3. CASE Step(r)
  <2>1. CASE Recover(r) \/ Validate(r) \/ MarkPublishing(r) \/ ForceTerminal(r)
             \/ ReadForRelease(r) \/ Release(r) \/ FinalizeAttempt(r) \/ Finish(r)
    BY <1>0, <2>1
    DEF Recover, Validate, MarkPublishing, ForceTerminal, ReadForRelease, Release,
        FinalizeAttempt, Finish, Conclude, Goto, TypeOK
  <2>2. CASE CheckPrior(r)
    <3>1. PICK p \in Pending(r) :
            \/ Conclude(r, p, "ok")
            \/ /\ cur' = [cur EXCEPT ![r] = p]
               /\ UNCHANGED results
      BY <2>2 DEF CheckPrior
    <3>2. p \in targets[r] /\ results[r][p] = "none"
      BY DEF Pending
    <3>3. cur' = [cur EXCEPT ![r] = p] /\ UNCHANGED <<results, targets>>
      BY <1>0, <2>2, <3>1 DEF CheckPrior, Conclude, Goto, TypeOK
    <3> QED
      BY <3>2, <3>3 DEF TypeOK
  <2>3. CASE BeginAttempt(r) \/ LookForClaim(r) \/ InsertClaim(r) \/ CallProvider(r)
    BY <1>0, <2>3
    DEF BeginAttempt, LookForClaim, InsertClaim, CallProvider, Conclude, Goto, TypeOK,
        InLoop
  <2> QED
    BY <1>3, <2>1, <2>2, <2>3 DEF Step
<1> QED
  BY <1>1, <1>2, <1>3, ItsOwnStep DEF Moves

-----------------------------------------------------------------------------
(* Rows read to be written later *)

LEMMA StaleStays ==
  ASSUME PublishAssumption, TypeOK, InLoop, StaleRows, [Next]_vars
  PROVE  StaleRows'
<1> SUFFICES ASSUME NEW s \in Sessions, NEW r \in Runs, NEW p \in Platforms,
                    <<r, p>> \in stale'[s].attempts
             PROVE  \/ att'[r][p].status # "absent"
                    \/ r = s /\ pc'[s] = "cancelled" /\ draft'[r][p].status # "absent"
  <2>1. TypeOK'
    BY TypePreserved
  <2>2. \A s \in Sessions : stale'[s].attempts \subseteq Runs \X Platforms
    BY <2>1 DEF TypeOK
  <2> QED
    BY <2>2 DEF StaleRows
<1> USE DEF rows, locks, call, local
<1>1. att[r][p].status # "absent" => att'[r][p].status # "absent"
  BY RowMoves DEF RowMove
<1>2. CASE <<r, p>> \in stale[s].attempts
  <2>1. CASE att[r][p].status # "absent"
    BY <1>1, <2>1
  <2>2. CASE r = s /\ pc[s] = "cancelled" /\ draft[r][p].status # "absent"
    <3>1. DraftMove(r, p)
      BY DraftMoves
    <3>2. CASE Rests(r)
      BY <2>2, <3>1, <3>2 DEF DraftMove, Rests
    <3>3. CASE Moves(r)
      <4>1. stale'[r] = NothingStale
        BY <2>2, <3>3
        DEF Moves, BeginManual, BeginRetry, BeginScheduled, Begin, Step, Trouble, Recover,
            Validate, MarkPublishing, CheckPrior, BeginAttempt, LookForClaim, InsertClaim,
            CallProvider, FinalizeAttempt, Finish, ForceTerminal, ReadForRelease, Release,
            Refuse, NoAccount, UnresolvedWrite, Interrupted, InTry, Cancelled, Crash,
            TypeOK, Sessions
      <4> QED
        BY <2>2, <4>1 DEF NothingStale
    <3> QED
      BY <3>2, <3>3, ItsOwnStep
  <2> QED
    BY <1>2, <2>1, <2>2 DEF StaleRows
<1>3. CASE <<r, p>> \notin stale[s].attempts
  <2>1. CASE stale'[s].attempts \subseteq Stale.attempts
    BY <1>1, <2>1 DEF Stale
  <2>2. CASE stale'[s].attempts \subseteq OpenMeta(att)
    BY <1>1, <2>2 DEF OpenMeta
  <2>3. CASE s \in Runs /\ Cancelled(s)
    <3>1. stale'[s].attempts = OpenMeta([att EXCEPT ![s] = AfterCommit(s)])
      BY <2>3 DEF Cancelled, TypeOK
    <3>2. [att EXCEPT ![s] = AfterCommit(s)][r][p].status = "in_progress"
      BY <3>1 DEF OpenMeta
    <3>3. CASE r # s
      BY <1>1, <3>2, <3>3 DEF TypeOK
    <3>4. CASE r = s
      <4>1. AfterCommit(r)[p].status = "in_progress"
        BY <3>2, <3>4 DEF TypeOK
      <4>2. pc'[s] = "cancelled" /\ draft' = draft
        BY <2>3 DEF Cancelled, Goto, TypeOK
      <4> QED
        BY <1>1, <3>4, <4>1, <4>2, AfterCommitType
    <3> QED
      BY <3>3, <3>4
  <2>4. CASE stale'[s].attempts \subseteq stale[s].attempts \/ stale'[s] = NothingStale
    BY <1>3, <2>4 DEF NothingStale
  <2> DEFINE Kept == stale'[s].attempts \subseteq stale[s].attempts
  <2>5. ASSUME NEW q \in Runs, BeginManual(q) \/ BeginRetry(q) \/ BeginScheduled(q)
        PROVE  Kept \/ stale'[s].attempts \subseteq Stale.attempts
    <3>1. stale' = [stale EXCEPT ![q] = Stale]
      BY <2>5 DEF BeginManual, BeginRetry, BeginScheduled, Begin
    <3>2. stale'[s] = stale[s] \/ stale'[s] = Stale
      BY <3>1 DEF TypeOK
    <3> QED
      BY <3>2
  <2>6. ASSUME NEW q \in Runs, Step(q)
        PROVE  Kept
    <3>1. CASE Recover(q) \/ Validate(q) \/ ForceTerminal(q)
      <4>1. PICK e : /\ e.attempts = {}
                     /\ stale' = [stale EXCEPT ![q] = e]
        <5>1. [NothingStale EXCEPT !.content = stale[q].content].attempts = {}
          BY DEF NothingStale
        <5> QED
          BY <3>1, <5>1 DEF Recover, Validate, ForceTerminal, NothingStale
      <4>2. CASE s = q
        BY <4>1, <4>2 DEF TypeOK
      <4>3. CASE s # q
        BY <4>1, <4>3 DEF TypeOK
      <4> QED
        BY <4>2, <4>3
    <3> QED
      BY <2>6, <3>1
      DEF Step, MarkPublishing, CheckPrior, BeginAttempt, LookForClaim, InsertClaim,
          CallProvider, FinalizeAttempt, Finish, ReadForRelease, Release
  <2>7. ASSUME NEW q \in Runs, Trouble(q)
        PROVE  \/ Kept
               \/ stale'[s] = NothingStale
               \/ stale'[s].attempts \subseteq OpenMeta(att)
               \/ s \in Runs /\ Cancelled(s)
    <3>0. CASE Refuse(q)
      BY <3>0 DEF Refuse, TypeOK
    <3>1. CASE NoAccount(q) \/ UnresolvedWrite(q)
      BY <3>1 DEF NoAccount, UnresolvedWrite
    <3>2. CASE Interrupted(q)
      BY <3>2 DEF Interrupted, TypeOK
    <3>3. CASE Cancelled(q)
      <4>1. q # s => stale'[s] = stale[s]
        BY <3>3 DEF Cancelled, TypeOK
      <4> QED
        BY <3>3, <4>1
    <3>4. CASE Crash(q)
      BY <3>4 DEF Crash, TypeOK
    <3> QED
      BY <2>7, <3>0, <3>1, <3>2, <3>3, <3>4 DEF Trouble
  <2>8. CASE SweepRead
    BY <2>1, <2>4, <2>8 DEF SweepRead, TypeOK
  <2>9. CASE SweepWrite \/ Expire \/ GrowOld \/ UNCHANGED vars
    BY <2>4, <2>9, ZenonT(60) DEF SweepWrite, Expire, GrowOld, vars, TypeOK
  <2> QED
    BY <2>1, <2>2, <2>3, <2>4, <2>5, <2>6, <2>7, <2>8, <2>9 DEF Next
<1> QED
  BY <1>2, <1>3


-----------------------------------------------------------------------------
(* Posts *)

LEMMA PostsGrow ==
  ASSUME PublishAssumption, TypeOK, InLoop, [Next]_vars
  PROVE  posts \subseteq posts'
BY ZenonT(60) DEF Next, Step, Trouble, BeginManual, BeginRetry, BeginScheduled, Begin, SweepRead,
       SweepWrite, Recover, Validate, Refuse, MarkPublishing, NoAccount, CheckPrior,
       BeginAttempt, UnresolvedWrite, LookForClaim, InsertClaim, CallProvider,
       FinalizeAttempt, Finish, Interrupted, Cancelled, ForceTerminal, ReadForRelease,
       Release, Crash, Expire, GrowOld, vars

LEMMA RealStays ==
  ASSUME PublishAssumption, TypeOK, InLoop, StaleRows, RealPosts, [Next]_vars
  PROVE  RealPosts'
<1> USE DEF rows, locks, call, local
<1>0. posts \subseteq posts'
  BY PostsGrow
<1>1. ASSUME NEW r \in Runs, NEW p \in Platforms
      PROVE  /\ att'[r][p].status = "success" => <<r, p>> \in posts'
             /\ draft'[r][p].status = "success" => <<r, p>> \in posts'
  <2>1. RowMove(r, p) /\ DraftMove(r, p)
    BY RowMoves, DraftMoves
  <2>2. /\ att[r][p].status = "success" => <<r, p>> \in posts
        /\ draft[r][p].status = "success" => <<r, p>> \in posts
        /\ pc[r] = "answer" /\ answer[r] = "ok" => <<r, cur[r]>> \in posts
    BY DEF RealPosts
  <2>3. att'[r][p].status = "success" => <<r, p>> \in posts
    BY <2>1, <2>2 DEF RowMove
  <2>4. draft'[r][p].status = "success" => <<r, p>> \in posts
    BY <2>1, <2>2, OutcomeType, NoAttemptType DEF DraftMove
  <2> QED
    BY <1>0, <2>3, <2>4
<1>2. ASSUME NEW r \in Runs, NEW p \in Platforms, results'[r][p] = "ok"
      PROVE  \E q \in Runs : <<q, p>> \in posts'
  <2>0. r \in Sessions
    BY DEF Sessions
  <2>1. CASE results[r][p] = "ok"
    BY <1>0, <2>1 DEF RealPosts
  <2>2. CASE results[r][p] # "ok"
    <3>1. ~Rests(r)
      BY <1>2, <2>2 DEF Rests
    <3>2. CASE CheckPrior(r) \/ BeginAttempt(r)
      <4>1. Is(p, "success") # {}
        BY <1>2, <2>0, <2>2, <3>2 DEF CheckPrior, BeginAttempt, Conclude, TypeOK
      <4> QED
        BY <1>0, <4>1 DEF Is, RealPosts
    <3>3. CASE FinalizeAttempt(r)
      <4>1. cur[r] = p /\ answer[r] = "ok" /\ pc[r] = "answer"
        BY <1>2, <2>2, <3>3 DEF FinalizeAttempt, Conclude, TypeOK
      <4> QED
        BY <1>0, <4>1 DEF RealPosts
    <3>4. Moves(r) => CheckPrior(r) \/ BeginAttempt(r) \/ FinalizeAttempt(r)
      BY <1>2, <2>2
      DEF Moves, BeginManual, BeginRetry, BeginScheduled, Begin, Step, Trouble, Recover,
          Validate, MarkPublishing, LookForClaim, InsertClaim, CallProvider, Finish,
          ForceTerminal, ReadForRelease, Release, Refuse, NoAccount, UnresolvedWrite,
          Interrupted, Cancelled, Crash, Forget, Conclude, TypeOK
    <3> QED
      BY <3>1, <3>2, <3>3, <3>4, ItsOwnStep
  <2> QED
    BY <2>1, <2>2
<1>3. ASSUME NEW r \in Runs, pc'[r] = "answer", answer'[r] = "ok"
      PROVE  <<r, cur'[r]>> \in posts'
  <2>0. r \in Sessions
    BY DEF Sessions
  <2>1. CASE Rests(r)
    BY <1>0, <1>3, <2>1 DEF Rests, RealPosts
  <2>2. CASE CallProvider(r)
    BY <1>3, <2>2 DEF CallProvider, TypeOK
  <2>3. Moves(r) => CallProvider(r)
    BY <1>3, <2>0
    DEF Moves, BeginManual, BeginRetry, BeginScheduled, Begin, Step, Trouble, Recover,
        Validate, MarkPublishing, CheckPrior, BeginAttempt, LookForClaim, InsertClaim,
        FinalizeAttempt, Finish, ForceTerminal, ReadForRelease, Release, Refuse,
        NoAccount, UnresolvedWrite, Interrupted, Cancelled, Crash, Conclude, Goto, TypeOK
  <2> QED
    BY <2>1, <2>2, <2>3, ItsOwnStep
<1>4. ASSUME NEW r \in Runs, pc'[r] # "idle"
      PROVE  targets'[r] # {}
  <2>0. r \in Sessions
    BY DEF Sessions
  <2>1. CASE Rests(r)
    BY <1>4, <2>1 DEF Rests, RealPosts
  <2>2. CASE BeginManual(r) \/ BeginRetry(r) \/ BeginScheduled(r)
    <3>1. PICK T \in Selections \cup {Platforms} : targets' = [targets EXCEPT ![r] = T]
      BY <2>2 DEF BeginManual, BeginRetry, BeginScheduled, Begin
    <3>2. T # {}
      BY <3>1 DEF PublishAssumption
    <3> QED
      BY <3>1, <3>2 DEF TypeOK
  <2>3. CASE Step(r) \/ Trouble(r)
    <3>1. UNCHANGED targets
      BY <2>3
      DEF Step, Trouble, Recover, Validate, MarkPublishing, CheckPrior, BeginAttempt,
          LookForClaim, InsertClaim, CallProvider, FinalizeAttempt, Finish,
          ForceTerminal, ReadForRelease, Release, Refuse, NoAccount, UnresolvedWrite,
          Interrupted, Cancelled, Crash
    <3>2. pc[r] # "idle"
      BY <2>3
      DEF Step, Trouble, Recover, Validate, MarkPublishing, CheckPrior, BeginAttempt,
          LookForClaim, InsertClaim, CallProvider, FinalizeAttempt, Finish,
          ForceTerminal, ReadForRelease, Release, Refuse, NoAccount, UnresolvedWrite,
          Interrupted, InTry, Cancelled, Crash
    <3> QED
      BY <3>1, <3>2 DEF RealPosts
  <2> QED
    BY <2>1, <2>2, <2>3, ItsOwnStep DEF Moves
<1> QED
  BY <1>1, <1>2, <1>3, <1>4 DEF RealPosts

LEMMA PublishedStays ==
  ASSUME PublishAssumption, TypeOK, InLoop, RealPosts, Published, [Next]_vars
  PROVE  Published'
<1> USE DEF rows, locks, call, local
<1>1. ASSUME NEW r \in Runs, Posted(r) PROVE Posted(r)'
  <2>0. r \in Sessions
    BY DEF Sessions
  <2>1. CASE Rests(r)
    BY <1>1, <2>1, PostsGrow DEF Rests, Posted
  <2>2. CASE Step(r) \/ Trouble(r)
    <3>1. UNCHANGED targets
      BY <2>2
      DEF Step, Trouble, Recover, Validate, MarkPublishing, CheckPrior, BeginAttempt,
          LookForClaim, InsertClaim, CallProvider, FinalizeAttempt, Finish,
          ForceTerminal, ReadForRelease, Release, Refuse, NoAccount, UnresolvedWrite,
          Interrupted, Cancelled, Crash
    <3>2. pc'[r] # "idle"
      BY <2>0, <2>2
      DEF Step, Trouble, Recover, Validate, MarkPublishing, CheckPrior, BeginAttempt,
          LookForClaim, InsertClaim, CallProvider, FinalizeAttempt, Finish,
          ForceTerminal, ReadForRelease, Release, Refuse, NoAccount, UnresolvedWrite,
          Interrupted, Cancelled, Crash, Conclude, Goto, TypeOK
    <3> QED
      BY <1>1, <3>1, <3>2, PostsGrow DEF Posted
  <2>3. ~(BeginManual(r) \/ BeginRetry(r) \/ BeginScheduled(r))
    BY <1>1 DEF Posted, BeginManual, BeginRetry, BeginScheduled, Begin
  <2> QED
    BY <2>1, <2>2, <2>3, ItsOwnStep DEF Moves
<1>2. CASE content'.status = "published" /\ content.status = "published"
  BY <1>1, <1>2 DEF Published
<1>3. ASSUME NEW r \in Runs, Finish(r), content'.status = "published" PROVE Posted(r)'
  <2>0. r \in Sessions
    BY DEF Sessions
  <2>1. content'.status = FinalStatus(r)
    BY <1>3, TouchedItem DEF Finish, TypeOK, ContentItem, FinalStatus, ItemStatuses, Publishable
  <2>2. ~Has(r, "fail") /\ Pending(r) = {}
    BY <1>3, <2>1 DEF FinalStatus, Finish
  <2>3. \A p \in targets[r] : p \in Platforms /\ results[r][p] = "ok"
    BY <2>2 DEF Has, Pending, TypeOK
  <2>4. targets'[r] = targets[r] /\ posts' = posts /\ pc'[r] = "done" /\ pc[r] = "next"
    BY <1>3, <2>0 DEF Finish, Goto, TypeOK
  <2> QED
    BY <2>3, <2>4 DEF Posted, RealPosts
<1>4. CASE content'.status = "published" /\ content.status # "published"
  <2>1. \E r \in Runs : Finish(r)
    <3> DEFINE W(s) == Touched(s).status
    <3>1. \A s \in {"failed", "publishing", "scheduled"} : Touched(s).status # "published"
      BY TouchedItem DEF TypeOK, ItemStatuses, Publishable
    <3>2. CASE GrowOld
      BY <1>4, <3>2 DEF GrowOld, TypeOK, ContentItem
    <3>3. ASSUME NEW s \in Sessions, RecoverRows(s) PROVE FALSE
      BY <1>4, <3>1, <3>3 DEF RecoverRows
    <3>4. ASSUME NEW r \in Runs,
                 \/ BeginScheduled(r) \/ InsertClaim(r) \/ ForceTerminal(r)
                 \/ Release(r) \/ Refuse(r)
          PROVE  FALSE
      BY <1>4, <3>1, <3>4 DEF BeginScheduled, InsertClaim, ForceTerminal, Release, Refuse
    <3> QED
      BY <1>4, <3>2, <3>3, <3>4, ZenonT(60)
      DEF Next, Step, Trouble, BeginManual, BeginRetry, Begin, SweepRead,
          SweepWrite, Recover, Validate, MarkPublishing, NoAccount, CheckPrior,
          BeginAttempt, UnresolvedWrite, LookForClaim, CallProvider, Sessions,
          FinalizeAttempt, Interrupted, Cancelled, Rollback, ReadForRelease,
          Crash, Expire, vars
  <2> QED
    BY <1>3, <1>4, <2>1, SMTT(30) DEF Published
<1> QED
  BY <1>2, <1>4 DEF Published


-----------------------------------------------------------------------------
(* Versions *)

LEMMA LetGoStays ==
  ASSUME PublishAssumption, TypeOK, LetGo, [Next]_vars
  PROVE  LetGo'
<1> SUFFICES ASSUME NEW r \in Runs, pc'[r] = "abort"
             PROVE  lock' # r
  BY DEF LetGo
<1> USE DEF rows, locks, call, local
<1>0. r \in Sessions /\ r # None
  BY DEF Sessions, PublishAssumption
<1>1. CASE Rests(r)
  <2>1. lock # r
    BY <1>1 DEF Rests, LetGo
  <2>2. lock' = lock \/ lock' = None \/ \E q \in Runs : MarkPublishing(q) /\ lock' = q
    BY ZenonT(60) DEF Next, Step, Trouble, BeginManual, BeginRetry, BeginScheduled, Begin, SweepRead,
        SweepWrite, Recover, Validate, Refuse, MarkPublishing, NoAccount, CheckPrior,
        BeginAttempt, UnresolvedWrite, LookForClaim, InsertClaim, CallProvider,
        FinalizeAttempt, Finish, Interrupted, Cancelled, ForceTerminal, ReadForRelease,
        Release, Crash, Rollback, Unlock, Expire, GrowOld, vars
  <2>3. ASSUME MarkPublishing(r) PROVE FALSE
    BY <1>0, <1>1, <2>3 DEF MarkPublishing, Goto, Rests, TypeOK
  <2> QED
    BY <1>0, <2>1, <2>2, <2>3
<1>2. CASE Interrupted(r)
  BY <1>0, <1>2 DEF Interrupted, Rollback, Unlock
<1>3. CASE Moves(r) /\ ~Interrupted(r)
  BY <1>0, <1>3
  DEF Moves, BeginManual, BeginRetry, BeginScheduled, Begin, Step, Trouble, Recover,
      Validate, Refuse, MarkPublishing, NoAccount, CheckPrior, BeginAttempt,
      UnresolvedWrite, LookForClaim, InsertClaim, CallProvider, FinalizeAttempt, Finish,
      Cancelled, ForceTerminal, ReadForRelease, Release, Crash, Conclude, Goto, TypeOK
<1> QED
  BY <1>1, <1>2, <1>3, ItsOwnStep

(* What a step does to the stamp of the content item and to its lock. *)
LEMMA LockMoves ==
  ASSUME PublishAssumption, TypeOK, LetGo, [Next]_vars, NEW r \in Runs
  PROVE  /\ content'.updated_at \in {content.updated_at, content.updated_at + 1}
         /\ lock = r =>
              \/ lock' = r /\ content'.updated_at = content.updated_at
              \/ content'.updated_at = content.updated_at + 1
              \/ att' = att /\ draft'[r] = NoDraft /\ version'[r] = 0
<1> USE DEF rows, locks, call, local
<1>0. content \in ContentItem /\ r # None /\ content.updated_at \in Nat
  BY DEF TypeOK, PublishAssumption, ContentItem
<1>a. \A s \in ItemStatuses : Touched(s).updated_at = content.updated_at + 1
  BY <1>0, TouchedItem
<1>b. {"publishing", "failed", "scheduled"} \subseteq ItemStatuses
  BY DEF ItemStatuses, Publishable
<1>1. CASE content' = content /\ lock' = lock
  BY <1>1
<1>2. ASSUME NEW s \in Sessions, RecoverRows(s) PROVE
        \/ content' = content
        \/ lock = None /\ content'.updated_at = content.updated_at + 1
  BY <1>2, <1>a, <1>b DEF RecoverRows
<1>3. ASSUME NEW q \in Runs,
             MarkPublishing(q) \/ BeginScheduled(q) \/ Release(q) \/ Refuse(q)
      PROVE  \/ content' = content /\ (lock' = lock \/ lock = None)
             \/ lock = None /\ content'.updated_at = content.updated_at + 1
  BY <1>3, <1>a, <1>b DEF MarkPublishing, BeginScheduled, Release, Refuse
<1>4. ASSUME NEW q \in Runs, Finish(q)
      PROVE  content'.updated_at = content.updated_at + 1
  BY <1>4, <1>a, TouchedItem DEF Finish, FinalStatus, ContentItem, TypeOK, ItemStatuses, Publishable
<1>5. ASSUME NEW q \in Runs, InsertClaim(q) \/ ForceTerminal(q)
      PROVE  \/ content'.updated_at = content.updated_at + 1
             \/ content' = content /\ lock' = lock
  <2>1. CASE InsertClaim(q)
    BY <1>a, <1>b, <2>1 DEF InsertClaim, Unlock
  <2>2. CASE ForceTerminal(q)
    <3>1. CASE pc[q] = "cancelled" \/ content.status = "publishing"
      BY <1>a, <1>b, <2>2, <3>1 DEF ForceTerminal
    <3>2. CASE ~(pc[q] = "cancelled" \/ content.status = "publishing")
      <4>1. content' = content /\ lock # q
        BY <2>2, <3>2 DEF ForceTerminal, LetGo
      <4> QED
        BY <2>2, <4>1 DEF ForceTerminal, Unlock
    <3> QED
      BY <3>1, <3>2
  <2> QED
    BY <1>5, <2>1, <2>2
<1>6. ASSUME NEW q \in Runs, Interrupted(q) \/ Crash(q)
      PROVE  /\ content' = content
             /\ lock = r =>
                  \/ lock' = r
                  \/ att' = att /\ draft'[r] = NoDraft /\ version'[r] = 0
  <2>1. /\ draft' = [draft EXCEPT ![q] = NoDraft] /\ version' = [version EXCEPT ![q] = 0]
        /\ UNCHANGED <<content, att>>
        /\ lock' = IF lock = q THEN None ELSE lock
    BY <1>6 DEF Interrupted, Crash, Rollback, Unlock, Forget
  <2>2. CASE q = r
    BY <2>1, <2>2 DEF TypeOK
  <2>3. CASE q # r
    <3>1. lock = r => lock' = r
      BY <2>1, <2>3
    <3> QED
      BY <2>1, <3>1
  <2> QED
    BY <2>2, <2>3
<1>7. CASE GrowOld
  BY <1>7 DEF GrowOld, TypeOK, ContentItem
<1>8. CASE UNCHANGED vars
  BY <1>1, <1>8 DEF vars
<1> QED
  BY <1>0, <1>1, <1>2, <1>3, <1>4, <1>5, <1>6, <1>7, <1>8, ZenonT(60)
  DEF Next, Step, Trouble, BeginManual, BeginRetry, Begin, SweepRead, SweepWrite,
      Recover, Validate, NoAccount, CheckPrior, BeginAttempt, UnresolvedWrite,
      LookForClaim, CallProvider, FinalizeAttempt, Cancelled, ReadForRelease, Expire,
      Sessions

(* A run gets its version from the stamp its write to the item will have. *)
LEMMA VersionMoves ==
  ASSUME PublishAssumption, TypeOK, [Next]_vars, NEW r \in Runs
  PROVE  \/ version'[r] \in {version[r], 0}
         \/ /\ lock = None
            /\ version' = [version EXCEPT ![r] = content.updated_at + 1]
            /\ lock' = r \/ content'.updated_at = content.updated_at + 1
<1> USE DEF rows, locks, call, local
<1>1. CASE Rests(r)
  BY <1>1 DEF Rests
<1>2. CASE BeginScheduled(r)
  BY <1>2, TouchedItem DEF BeginScheduled, TypeOK, ItemStatuses
<1>3. CASE MarkPublishing(r)
  BY <1>3 DEF MarkPublishing
<1>4. CASE Finish(r) \/ Interrupted(r) \/ Cancelled(r) \/ Crash(r)
  BY <1>4 DEF Finish, Interrupted, Cancelled, Crash, Forget, TypeOK
<1> QED
  BY <1>1, <1>2, <1>3, <1>4, ItsOwnStep
  DEF Moves, Step, Trouble, BeginManual, BeginRetry, Recover, Validate, Refuse,
      NoAccount, CheckPrior, BeginAttempt, UnresolvedWrite, LookForClaim, InsertClaim,
      CallProvider, FinalizeAttempt, ForceTerminal, ReadForRelease, Release


LEMMA OwnStays ==
  ASSUME PublishAssumption, TypeOK, LetGo, [Next]_vars, NEW r \in Runs, NEW v \in Nat, Own(r, v)
  PROVE  Own(r, v)' \/ (att' = att /\ draft'[r] = NoDraft /\ version'[r] = 0)
<1>1. content.updated_at \in Nat
  BY DEF TypeOK, ContentItem
<1> QED
  BY <1>1, LockMoves DEF Own

LEMMA StampedStays ==
  ASSUME PublishAssumption, TypeOK, LetGo, InLoop, StaleRows, Stamped, [Next]_vars
  PROVE  Stamped'
<1> USE DEF rows, locks, call, local
<1>0. content.updated_at \in Nat /\ content'.updated_at \in Nat
  BY TypePreserved DEF TypeOK, ContentItem
<1>1. \A r \in Runs : Own(r, 0)'
  BY <1>0 DEF Own
<1>2. ASSUME NEW r \in Runs, NEW p \in Platforms
      PROVE  /\ att'[r][p].version <= content'.updated_at
             /\ att'[r][p].status # "absent" => att'[r][p].version # 0
  <2>1. RowMove(r, p)
    BY RowMoves
  <2>2. /\ att[r][p].version \in Nat /\ draft[r][p].version \in Nat
        /\ version[r] \in Nat
    <3>1. att[r][p] \in Attempt /\ draft[r][p] \in Attempt
      BY DEF TypeOK
    <3> QED
      BY <3>1 DEF TypeOK, Attempt
  <2>3. /\ att[r][p].version <= content.updated_at
        /\ Own(r, draft[r][p].version) /\ Own(r, version[r])
        /\ att[r][p].status # "absent" => att[r][p].version # 0
        /\ draft[r][p].status # "absent" => draft[r][p].version # 0
        /\ pc[r] = "insert" => version[r] # 0
    BY DEF Stamped, Marked, InBody
  <2>4. att'[r][p].status # "absent" => att'[r][p].version # 0
    BY <2>1, <2>3 DEF RowMove
  <2>5. content'.updated_at >= content.updated_at
    BY <1>0, LockMoves
  <2>6. CASE att'[r][p].version = att[r][p].version
    BY <1>0, <2>2, <2>3, <2>4, <2>5, <2>6
  <2>7. CASE /\ att'[r][p].version \in {draft[r][p].version, version[r]}
             /\ lock' # r
    <3>1. Own(r, att'[r][p].version) /\ att'[r][p].version \in Nat
      BY <2>2, <2>3, <2>7
    <3>2. CASE lock # r
      BY <1>0, <2>4, <2>5, <3>1, <3>2 DEF Own
    <3>3. CASE lock = r
      <4>1. content'.updated_at = content.updated_at + 1 \/ att' = att
        BY <2>7, <3>3, LockMoves
      <4> QED
        BY <1>0, <2>4, <2>6, <3>1, <3>3, <4>1 DEF Own
    <3> QED
      BY <3>2, <3>3
  <2>8. \/ att'[r][p].version = att[r][p].version
        \/ att'[r][p].version \in {draft[r][p].version, version[r]} /\ lock' # r
    BY <2>1 DEF RowMove
  <2> QED
    BY <2>4, <2>6, <2>7, <2>8
<1>3. ASSUME NEW r \in Runs, NEW p \in Platforms
      PROVE  /\ Own(r, draft[r][p].version)'
             /\ draft'[r][p].status # "absent" => draft'[r][p].version # 0
  <2>1. DraftMove(r, p)
    BY DraftMoves
  <2>2. /\ att[r][p].version \in Nat /\ draft[r][p].version \in Nat
        /\ version[r] \in Nat
    <3>1. att[r][p] \in Attempt /\ draft[r][p] \in Attempt
      BY DEF TypeOK
    <3> QED
      BY <3>1 DEF TypeOK, Attempt
  <2>3. /\ Own(r, att[r][p].version)
        /\ Own(r, draft[r][p].version) /\ Own(r, version[r])
        /\ att[r][p].status # "absent" => att[r][p].version # 0
        /\ draft[r][p].status # "absent" => draft[r][p].version # 0
        /\ pc[r] = "insert" => version[r] # 0
        /\ pc[r] = "answer" /\ cur[r] = p =>
             att[r][p].status # "absent" \/ draft[r][p].status # "absent"
    BY DEF Stamped, Marked, InBody, Own
  <2>4. AfterCommit(r)[p].version \in {att[r][p].version, draft[r][p].version}
    BY AfterCommitType
  <2>5. draft'[r][p].status # "absent" => draft'[r][p].version # 0
    <3>1. pc[r] = "answer" /\ cur[r] = p => AfterCommit(r)[p].version # 0
      BY <2>3, AfterCommitType
    <3> QED
      BY <2>1, <2>3, <3>1, NoAttemptType DEF DraftMove
  <2>6. draft'[r][p].version \in
          {0, att[r][p].version, draft[r][p].version, version[r]}
    BY <2>1, <2>4, NoAttemptType DEF DraftMove
  <2>7. Own(r, draft'[r][p].version) /\ draft'[r][p].version \in Nat
    BY <1>0, <2>2, <2>3, <2>6 DEF Own
  <2>8. CASE draft'[r] = NoDraft
    <3>1. draft'[r][p].version = 0
      BY <2>8, NoAttemptType DEF NoDraft
    <3> QED
      BY <1>0, <2>5, <3>1 DEF Own
  <2>9. CASE draft'[r] # NoDraft
    <3>1. content.updated_at \in Nat /\ content'.updated_at \in Nat
      BY <1>0
    <3>2. \/ lock # r
          \/ lock' = r
          \/ content'.updated_at = content.updated_at + 1
      BY <2>9, LockMoves
    <3>3. content'.updated_at \in {content.updated_at, content.updated_at + 1}
      BY LockMoves
    <3> QED
      BY <2>5, <2>7, <3>1, <3>2, <3>3 DEF Own
  <2> QED
    BY <2>8, <2>9
<1>4. ASSUME NEW r \in Runs
      PROVE  Own(r, version[r])'
  <2>1. version[r] \in Nat /\ Own(r, version[r])
    BY DEF TypeOK, Stamped
  <2>2. CASE version'[r] = 0
    BY <1>0, <2>2 DEF Own
  <2>3. CASE version'[r] = version[r] /\ version'[r] # 0
    BY <1>0, <2>1, <2>3, LockMoves DEF Own
  <2>4. CASE /\ version' = [version EXCEPT ![r] = content.updated_at + 1]
             /\ lock' = r \/ content'.updated_at = content.updated_at + 1
    <3>1. version'[r] = content.updated_at + 1
      BY <2>4 DEF TypeOK
    <3> QED
      BY <1>0, <2>4, <3>1, LockMoves DEF Own
  <2> QED
    BY <2>2, <2>3, <2>4, VersionMoves
<1>5. ASSUME NEW r \in Runs
      PROVE  /\ pc'[r] \in Marked => version'[r] # 0
             /\ pc'[r] \in {"recover", "validate"} /\ kind'[r] = "scheduled"
                  => version'[r] # 0
             /\ pc'[r] \in {"call", "answer"} =>
                  \/ att'[r][cur'[r]].status # "absent"
                  \/ draft'[r][cur'[r]].status # "absent"
  <2>0. r \in Sessions
    BY DEF Sessions
  <2>1. /\ pc[r] \in Marked => version[r] # 0
        /\ pc[r] \in {"recover", "validate"} /\ kind[r] = "scheduled" => version[r] # 0
    BY DEF Stamped
  <2>2. pc'[r] \in {"recover", "validate"} /\ kind'[r] = "scheduled" => version'[r] # 0
    <3>1. CASE Rests(r)
      BY <2>1, <3>1 DEF Rests
    <3>2. CASE BeginScheduled(r)
      BY <1>0, <3>2 DEF BeginScheduled, TypeOK
    <3>3. CASE BeginManual(r) \/ BeginRetry(r)
      BY <3>3 DEF BeginManual, BeginRetry, Begin, TypeOK
    <3>4. CASE Recover(r)
      BY <2>0, <2>1, <3>4 DEF Recover, Goto, TypeOK
    <3>5. Step(r) \/ Trouble(r) => Recover(r) \/ pc'[r] \notin {"recover", "validate"}
      BY <2>0
      DEF Step, Trouble, Validate, MarkPublishing, CheckPrior, BeginAttempt,
          LookForClaim, InsertClaim, CallProvider, FinalizeAttempt, Finish,
          ForceTerminal, ReadForRelease, Release, Refuse, NoAccount, UnresolvedWrite,
          Interrupted, Cancelled, Crash, Conclude, Goto, TypeOK
    <3> QED
      BY <3>1, <3>2, <3>3, <3>4, <3>5, ItsOwnStep DEF Moves
  <2>3. pc'[r] \in Marked => version'[r] # 0
    <3>1. CASE Rests(r)
      BY <2>1, <3>1 DEF Rests
    <3>2. CASE MarkPublishing(r)
      BY <1>0, <3>2 DEF MarkPublishing, TypeOK
    <3>3. CASE Validate(r)
      BY <2>0, <2>1, <3>3 DEF Validate, Goto, TypeOK, Marked, InBody
    <3>4. CASE CheckPrior(r) \/ BeginAttempt(r) \/ LookForClaim(r) \/ InsertClaim(r)
               \/ CallProvider(r) \/ FinalizeAttempt(r) \/ NoAccount(r)
               \/ UnresolvedWrite(r)
      BY <2>1, <3>4
      DEF CheckPrior, BeginAttempt, LookForClaim, InsertClaim, CallProvider,
          FinalizeAttempt, NoAccount, UnresolvedWrite, Marked, InBody
    <3>5. CASE BeginManual(r) \/ BeginRetry(r) \/ BeginScheduled(r) \/ Recover(r)
               \/ Finish(r) \/ ForceTerminal(r) \/ ReadForRelease(r) \/ Release(r)
               \/ Refuse(r) \/ Interrupted(r) \/ Cancelled(r) \/ Crash(r)
      BY <2>0, <3>5
      DEF BeginManual, BeginRetry, BeginScheduled, Begin, Recover, Finish,
          ForceTerminal, ReadForRelease, Release, Refuse, Interrupted, Cancelled,
          Crash, Goto, TypeOK, Marked, InBody
    <3> QED
      BY <3>1, <3>2, <3>3, <3>4, <3>5, ItsOwnStep DEF Moves, Step, Trouble
  <2>4. ASSUME pc'[r] \in {"call", "answer"}
        PROVE  \/ att'[r][cur'[r]].status # "absent"
               \/ draft'[r][cur'[r]].status # "absent"
    <3>1. CASE Rests(r)
      <4>1. cur[r] \in Platforms /\ cur'[r] = cur[r] /\ pc'[r] = pc[r]
        BY <2>4, <3>1 DEF Rests, InLoop, InBody, TypeOK
      <4>2. att[r][cur[r]].status # "absent" \/ draft[r][cur[r]].status # "absent"
        BY <2>4, <4>1 DEF Stamped
      <4>3. RowMove(r, cur[r]) /\ DraftMove(r, cur[r])
        BY <4>1, RowMoves, DraftMoves
      <4> QED
        BY <4>1, <4>2, <4>3 DEF RowMove, DraftMove
    <3>2. CASE CallProvider(r)
      BY <3>2 DEF CallProvider, Stamped
    <3>3. CASE InsertClaim(r)
      <4>1. cur[r] \in Platforms
        BY <3>3 DEF InsertClaim, InLoop, InBody, TypeOK
      <4>2. UNCHANGED cur
        BY <2>0, <2>4, <3>3 DEF InsertClaim, Conclude, Goto, TypeOK
      <4>3. CASE att' = [att EXCEPT ![r] = [AfterCommit(r) EXCEPT ![cur[r]] = NewClaim(r, cur[r])]]
        <5>1. att'[r][cur[r]] = NewClaim(r, cur[r])
          BY <4>1, <4>3, AfterCommitType DEF TypeOK
        <5> QED
          BY <4>1, <4>2, <5>1, NewClaimType
      <4>4. CASE draft' = [draft EXCEPT ![r][cur[r]] = NewClaim(r, cur[r])]
        <5>1. draft'[r][cur[r]] = NewClaim(r, cur[r])
          BY <4>1, <4>4 DEF TypeOK
        <5> QED
          BY <4>1, <4>2, <5>1, NewClaimType
      <4> QED
        BY <2>0, <2>4, <3>3, <4>3, <4>4 DEF InsertClaim, Conclude, Goto, TypeOK
    <3>4. Moves(r) => CallProvider(r) \/ InsertClaim(r)
      BY <2>0, <2>4
      DEF Moves, BeginManual, BeginRetry, BeginScheduled, Begin, Step, Trouble, Recover,
          Validate, MarkPublishing, CheckPrior, BeginAttempt, LookForClaim,
          FinalizeAttempt, Finish, ForceTerminal, ReadForRelease, Release, Refuse,
          NoAccount, UnresolvedWrite, Interrupted, Cancelled, Crash, Conclude, Goto, TypeOK
    <3> QED
      BY <3>1, <3>2, <3>3, <3>4, ItsOwnStep
  <2> QED
    BY <2>2, <2>3, <2>4
<1> QED
  BY <1>2, <1>3, <1>4, <1>5 DEF Stamped


LEMMA OwnStampsStay ==
  ASSUME PublishAssumption, TypeOK, LetGo, InLoop, StaleRows, Stamped, OwnStamps, [Next]_vars
  PROVE  OwnStamps'
<1> SUFFICES ASSUME NEW q \in Runs, NEW r \in Runs, q # r, NEW v \in Nat \ {0},
                    Uses(q, v)', Uses(r, v)'
             PROVE  FALSE
  BY DEF OwnStamps
<1>0. content.updated_at \in Nat
  BY DEF TypeOK, ContentItem
<1>1. ASSUME NEW x \in Runs, Uses(x, v)'
      PROVE  Uses(x, v) \/ v = version'[x]
  <2>1. CASE v = version'[x]
    BY <2>1
  <2>2. ASSUME NEW p \in Platforms, v = att'[x][p].version
        PROVE  Uses(x, v)
    BY <2>2, RowMoves DEF RowMove, Uses
  <2>3. ASSUME NEW p \in Platforms, v = draft'[x][p].version
        PROVE  Uses(x, v)
    <3>1. AfterCommit(x)[p].version \in {att[x][p].version, draft[x][p].version}
      BY AfterCommitType
    <3>2. DraftMove(x, p)
      BY DraftMoves
    <3> QED
      BY <2>3, <3>1, <3>2, NoAttemptType DEF DraftMove, Uses
  <2> QED
    BY <1>1, <2>1, <2>2, <2>3 DEF Uses
<1>2. ASSUME NEW x \in Runs, NEW y \in Runs, x # y, Uses(x, v)', Uses(y, v)', ~Uses(x, v)
      PROVE  FALSE
  <2>1. v = version'[x] /\ version'[x] # version[x]
    BY <1>1, <1>2 DEF Uses
  <2>2. lock = None /\ version' = [version EXCEPT ![x] = content.updated_at + 1]
    BY <2>1, VersionMoves
  <2>3. v = content.updated_at + 1 /\ version'[y] = version[y]
    BY <1>2, <2>1, <2>2 DEF TypeOK
  <2>4. Uses(y, v)
    BY <1>1, <1>2, <2>3 DEF Uses
  <2>5. \A w \in Nat : Own(y, w) => w <= content.updated_at
    BY <2>2 DEF Own, PublishAssumption
  <2>6. \A p \in Platforms :
          /\ att[y][p].version <= content.updated_at
          /\ Own(y, draft[y][p].version) /\ Own(y, version[y])
    BY DEF Stamped
  <2> QED
    BY <1>0, <2>3, <2>4, <2>5, <2>6 DEF Uses, Stamped
<1>3. Uses(q, v) /\ Uses(r, v)
  BY <1>2
<1> QED
  BY <1>3 DEF OwnStamps

(* Different runs never share an idempotency key. *)
LEMMA KeysDiffer ==
  ASSUME TypeOK, Stamped, OwnStamps
  PROVE  KeysNeverRepeat
<1> SUFFICES ASSUME NEW q \in Runs, NEW r \in Runs, NEW p \in Platforms, q # r,
                    att[q][p].status # "absent", att[q][p].version = att[r][p].version
             PROVE  FALSE
  BY DEF KeysNeverRepeat
<1> DEFINE v == att[q][p].version
<1>1. v \in Nat \ {0}
  <2>1. att[q][p] \in Attempt
    BY DEF TypeOK
  <2> QED
    BY <2>1 DEF Stamped, Attempt
<1>2. Uses(q, v) /\ Uses(r, v)
  BY DEF Uses
<1> QED
  BY <1>1, <1>2 DEF OwnStamps


-----------------------------------------------------------------------------
(* Posts on Facebook and Instagram *)

LEMMA MetaStays ==
  ASSUME PublishAssumption, TypeOK, InLoop, StaleRows, Stamped, OwnStamps, MetaSafe,
         [Next]_vars
  PROVE  MetaSafe'
<1> USE DEF rows, locks, call, local
<1> SUFFICES ASSUME NEW r \in Runs, NEW p \in Meta
             PROVE
    /\ <<r, p>> \in posts' =>
         /\ att'[r][p].status # "absent"
         /\ pc'[r] \in Waiting /\ ~(pc'[r] = "answer" /\ cur'[r] = p)
              => results'[r][p] # "none"
    /\ <<r, p>> \in posts' \ hidden' =>
         /\ att'[r][p].status \in Accounted
         /\ draft'[r][p].status \in {"absent", "success", "operator_review"}
    /\ <<r, p>> \in hidden' => draft'[r][p].status # "success"
    /\ pc'[r] \in {"call", "answer"} /\ cur'[r] = p =>
         /\ att'[r][p].status \in Accounted
         /\ draft'[r][p].status = "absent"
    /\ pc'[r] = "answer" /\ cur'[r] = p /\ <<r, p>> \in posts'
         => (<<r, p>> \in hidden' <=> answer'[r] \notin {"ok", "lost"})
  BY DEF MetaSafe
<1>0. p \in Platforms /\ r \in Sessions /\ CommitsClaim(p)
  BY DEF PublishAssumption, Sessions, CommitsClaim
<1>1. RowMove(r, p) /\ DraftMove(r, p)
  BY <1>0, RowMoves, DraftMoves
<1>2. /\ <<r, p>> \in posts =>
           /\ att[r][p].status # "absent"
           /\ pc[r] \in Waiting /\ ~(pc[r] = "answer" /\ cur[r] = p)
                => results[r][p] # "none"
      /\ <<r, p>> \in posts \ hidden =>
           /\ att[r][p].status \in Accounted
           /\ draft[r][p].status \in {"absent", "success", "operator_review"}
      /\ <<r, p>> \in hidden => draft[r][p].status # "success"
      /\ pc[r] \in {"call", "answer"} /\ cur[r] = p =>
           /\ att[r][p].status \in Accounted
           /\ draft[r][p].status = "absent"
      /\ pc[r] = "answer" /\ cur[r] = p /\ <<r, p>> \in posts
           => (<<r, p>> \in hidden <=> answer[r] \notin {"ok", "lost"})
  BY DEF MetaSafe
<1>3. att[r][p].status \in Accounted => ~AlreadyPublished(r, p)
  BY <1>0, KeysDiffer DEF KeysNeverRepeat, AlreadyPublished, Accounted
<1>4. ASSUME att[r][p].status \in Accounted,
             draft[r][p].status \in {"absent", "success", "operator_review"}
      PROVE  att'[r][p].status \in Accounted
  BY <1>1, <1>3, <1>4 DEF RowMove, Accounted
<1>5. ASSUME draft[r][p].status \in {"absent", "success", "operator_review"},
             pc[r] = "answer" /\ cur[r] = p => answer[r] \in {"ok", "lost"}
      PROVE  draft'[r][p].status \in {"absent", "success", "operator_review"}
  BY <1>0, <1>1, <1>5, OutcomeType, NoAttemptType DEF DraftMove, Outcome
<1>5a. att[r][p].status # "absent" => att'[r][p].status # "absent"
  BY <1>1 DEF RowMove
<1>5b. ASSUME draft[r][p].status # "success",
              pc[r] = "answer" /\ cur[r] = p => answer[r] # "ok"
       PROVE  draft'[r][p].status # "success"
  BY <1>0, <1>1, <1>5b, OutcomeType, NoAttemptType DEF DraftMove, Outcome
<1>5c. <<r, p>> \in hidden => <<r, p>> \in posts
  BY DEF TypeOK
<1>6. CASE Rests(r)
  <2>1. ASSUME pc[r] \in {"call", "answer"}, cur[r] = p
        PROVE  draft'[r][p].status = "absent"
    BY <1>0, <1>1, <1>2, <1>6, <2>1 DEF DraftMove, Rests
  <2> QED
    BY <1>0, <1>2, <1>4, <1>5, <1>5a, <1>5b, <1>5c, <1>6, <2>1 DEF Rests
<1>7. CASE InsertClaim(r)
  <2>1. pc[r] = "insert" /\ cur[r] \in Platforms /\ UNCHANGED <<posts, hidden>>
        /\ pc'[r] \in {"call", "next"}
    BY <1>0, <1>7 DEF InsertClaim, Conclude, Goto, InLoop, InBody, TypeOK
  <2>2. cur[r] = p => results[r][p] = "none"
    BY <2>1 DEF InLoop, InBody
  <2>3. cur[r] = p => <<r, p>> \notin posts
    BY <1>2, <2>1, <2>2 DEF Waiting, Marked, InBody
  <2>4. cur[r] # p => results'[r][p] = results[r][p]
    BY <1>0, <1>7, <2>1 DEF InsertClaim, Conclude, TypeOK
  <2>5. ASSUME pc'[r] = "call", cur'[r] = p
        PROVE  att'[r][p].status \in Accounted /\ draft'[r][p].status = "absent"
    <3>1. /\ cur[r] = p
          /\ att' = [att EXCEPT ![r] = [AfterCommit(r) EXCEPT ![p] = NewClaim(r, p)]]
          /\ draft' = [draft EXCEPT ![r] = NoDraft]
      BY <1>0, <1>7, <2>5 DEF InsertClaim, Conclude, Goto, TypeOK
    <3>2. att'[r][p] = NewClaim(r, p)
      BY <1>0, <3>1, AfterCommitType DEF TypeOK
    <3>3. draft'[r][p] = NoAttempt
      BY <1>0, <3>1 DEF TypeOK, NoDraft
    <3> QED
      BY <1>0, <3>2, <3>3, NewClaimType, NoAttemptType DEF Accounted
  <2> QED
    BY <1>2, <1>4, <1>5, <1>5a, <1>5b, <1>5c, <2>1, <2>3, <2>4, <2>5 DEF Waiting, Marked, InBody
<1>8. CASE CallProvider(r)
  <2>1. /\ pc[r] = "call" /\ pc'[r] = "answer" /\ UNCHANGED <<att, draft, cur, results>>
        /\ cur[r] \in Platforms /\ results[r][cur[r]] = "none"
    BY <1>0, <1>8 DEF CallProvider, Goto, TypeOK, InLoop, InBody
  <2>2. cur[r] = p => <<r, p>> \notin posts
    BY <1>2, <2>1 DEF Waiting, Marked, InBody
  <2>3. <<r, p>> \in posts' /\ <<r, p>> \notin posts =>
          cur[r] = p /\ (<<r, p>> \in hidden' <=> answer'[r] \notin {"ok", "lost"})
    BY <1>8, <1>5c DEF CallProvider, TypeOK
  <2>4. <<r, p>> \in posts \/ cur[r] # p => (<<r, p>> \in hidden' <=> <<r, p>> \in hidden)
    BY <1>8, <2>2 DEF CallProvider, TypeOK
  <2>5. hidden' \subseteq posts'
    BY <1>8 DEF CallProvider, TypeOK
  <2>6. CASE cur[r] = p
    <3>1. att'[r][p].status \in Accounted /\ draft'[r][p].status = "absent" /\ cur'[r] = p
      BY <1>2, <2>1, <2>6
    <3> QED
      BY <2>1, <2>2, <2>3, <2>5, <2>6, <3>1 DEF Accounted
  <2>7. CASE cur[r] # p
    <3>1. <<r, p>> \in posts' => <<r, p>> \in posts
      BY <2>3, <2>7
    <3>2. <<r, p>> \in hidden' <=> <<r, p>> \in hidden
      BY <2>4, <2>7
    <3> QED
      BY <1>2, <2>1, <2>7, <3>1, <3>2 DEF Waiting, Marked, InBody
  <2> QED
    BY <2>6, <2>7
<1>9. CASE FinalizeAttempt(r)
  <2>1. /\ pc[r] = "answer" /\ pc'[r] = "next" /\ UNCHANGED <<posts, hidden>>
        /\ cur[r] = p => results'[r][p] # "none"
        /\ cur[r] # p => results'[r][p] = results[r][p]
    BY <1>0, <1>9 DEF FinalizeAttempt, Conclude, Goto, TypeOK, InLoop, InBody
  <2> QED
    BY <1>2, <1>4, <1>5, <1>5a, <1>5b, <1>5c, <2>1 DEF Waiting, Marked, InBody
<1>10. CASE CheckPrior(r) \/ BeginAttempt(r) \/ LookForClaim(r) \/ UnresolvedWrite(r)
            \/ NoAccount(r)
  <2>1. /\ pc[r] \in {"next", "lock", "look"} /\ pc'[r] \in {"next", "lock", "look", "insert"}
        /\ UNCHANGED <<posts, hidden>>
    BY <1>0, <1>10
    DEF CheckPrior, BeginAttempt, LookForClaim, UnresolvedWrite, NoAccount, Conclude,
        Goto, TypeOK
  <2>2. results'[r][p] # results[r][p] => results'[r][p] # "none"
    BY <1>0, <1>10
    DEF CheckPrior, BeginAttempt, LookForClaim, UnresolvedWrite, NoAccount, Conclude,
        Pending, TypeOK
  <2> QED
    BY <1>2, <1>4, <1>5, <1>5a, <1>5b, <1>5c, <2>1, <2>2 DEF Waiting, Marked, InBody
<1>11. CASE BeginManual(r) \/ BeginRetry(r) \/ BeginScheduled(r) \/ Recover(r)
            \/ Validate(r) \/ MarkPublishing(r)
  <2>1. /\ pc[r] \in {"idle", "recover", "validate", "mark"}
        /\ pc'[r] \in {"recover", "validate", "mark", "next", "release"}
        /\ UNCHANGED <<posts, hidden>> /\ UNCHANGED results
    BY <1>0, <1>11
    DEF BeginManual, BeginRetry, BeginScheduled, Begin, Recover, Validate,
        MarkPublishing, Goto, TypeOK
  <2> QED
    BY <1>2, <1>4, <1>5, <1>5a, <1>5b, <1>5c, <2>1 DEF Waiting, Marked, InBody
<1>12. CASE Finish(r) \/ Interrupted(r) \/ Cancelled(r) \/ ForceTerminal(r)
            \/ ReadForRelease(r) \/ Release(r) \/ Refuse(r) \/ Crash(r)
  <2>1. /\ pc'[r] \in {"done", "abort", "cancelled", "release", "revert"}
        /\ UNCHANGED <<posts, hidden>>
    BY <1>0, <1>12
    DEF Finish, Interrupted, Cancelled, ForceTerminal, ReadForRelease, Release, Refuse,
        Crash, Goto, TypeOK
  <2> QED
    BY <1>2, <1>4, <1>5, <1>5a, <1>5b, <1>5c, <2>1 DEF Waiting, Marked, InBody
<1> QED
  BY <1>6, <1>7, <1>8, <1>9, <1>10, <1>11, <1>12, ItsOwnStep DEF Moves, Step, Trouble

LEMMA MetaAccounted == ASSUME PublishAssumption, MetaSafe, TypeOK PROVE MetaEffectAccounted
<1> SUFFICES ASSUME NEW r \in Runs, NEW p \in Meta, <<r, p>> \in posts
             PROVE  \/ att[r][p].status \in Accounted
                    \/ /\ <<r, p>> \in hidden
                       /\ att[r][p].status \in {"retrying", "exhausted", "failed"}
  BY DEF MetaEffectAccounted, Accounted, TypeOK
<1>1. att[r][p].status \in AttemptStatuses
  BY DEF TypeOK, Attempt, PublishAssumption
<1> QED
  BY <1>1 DEF MetaSafe, Accounted, AttemptStatuses


-----------------------------------------------------------------------------
(* Coordinated claims *)

LEMMA AdvisoryMoves ==
  ASSUME PublishAssumption, TypeOK, InLoop, [Next]_vars, NEW r \in Runs, NEW p \in Platforms,
         advisory[p] = r
  PROVE  advisory'[p] = r \/ pc'[r] \in {"call", "done", "abort", "release"}
<1> USE DEF rows, locks, call, local
<1>0. r \in Sessions /\ r # None
  BY DEF Sessions, PublishAssumption
<1>1. CASE UNCHANGED advisory
  BY <1>1
<1>2. ASSUME NEW q \in Runs, Unlock(q) PROVE q = r \/ advisory'[p] = r
  BY <1>2 DEF Unlock
<1>3. ASSUME NEW q \in Runs, BeginAttempt(q) \/ UnresolvedWrite(q) PROVE advisory'[p] = r
  BY <1>0, <1>3 DEF BeginAttempt, UnresolvedWrite, TypeOK, InLoop, InBody
<1>4. ASSUME NEW q \in Runs,
             Finish(q) \/ Interrupted(q) \/ Crash(q) \/ ForceTerminal(q) \/ InsertClaim(q)
      PROVE  UNCHANGED advisory \/ (Unlock(q) /\ pc'[q] \in {"call", "done", "abort", "release"})
  BY <1>4
  DEF Finish, Interrupted, Crash, Rollback, ForceTerminal, InsertClaim, Goto, TypeOK, Sessions
<1>5. ASSUME NEW q \in Runs,
             Finish(q) \/ Interrupted(q) \/ Crash(q) \/ ForceTerminal(q) \/ InsertClaim(q)
      PROVE  advisory'[p] = r \/ pc'[r] \in {"call", "done", "abort", "release"}
  <2>1. CASE UNCHANGED advisory
    BY <2>1
  <2>2. CASE Unlock(q) /\ pc'[q] \in {"call", "done", "abort", "release"}
    BY <1>2, <2>2
  <2> QED
    BY <1>4, <1>5, <2>1, <2>2
<1>6. ASSUME NEW q \in Runs, Step(q)
      PROVE  \/ UNCHANGED advisory
             \/ BeginAttempt(q) \/ Finish(q) \/ ForceTerminal(q) \/ InsertClaim(q)
  BY <1>6
  DEF Step, Recover, Validate, MarkPublishing, CheckPrior, LookForClaim, CallProvider,
      FinalizeAttempt, ReadForRelease, Release
<1>7. ASSUME NEW q \in Runs, Trouble(q)
      PROVE  UNCHANGED advisory \/ UnresolvedWrite(q) \/ Interrupted(q) \/ Crash(q)
  BY <1>7 DEF Trouble, Refuse, NoAccount, Cancelled
<1>8. ASSUME NEW q \in Runs, BeginManual(q) \/ BeginRetry(q) \/ BeginScheduled(q)
      PROVE  UNCHANGED advisory
  BY <1>8 DEF BeginManual, BeginRetry, BeginScheduled, Begin
<1>9. CASE SweepRead \/ SweepWrite \/ Expire \/ GrowOld \/ UNCHANGED vars
  BY <1>9 DEF SweepRead, SweepWrite, Expire, GrowOld, vars
<1> QED
  BY <1>1, <1>3, <1>5, <1>6, <1>7, <1>8, <1>9 DEF Next

LEMMA OneClaimStays ==
  ASSUME PublishAssumption, TypeOK, InLoop, StaleRows, OneClaim, CoordinatedClaims,
         [Next]_vars
  PROVE  OneClaim' /\ CoordinatedClaims'
<1> USE DEF rows, locks, call, local
<1> SUFFICES ASSUME Coordination PROVE OneClaim' /\ CoordinatedClaims'
  BY DEF OneClaim, CoordinatedClaims
<1>1. /\ \A r \in Runs : pc[r] \in {"look", "insert"} => advisory[cur[r]] = r
      /\ \A r \in Runs : pc[r] = "insert" => Is(cur[r], "in_progress") = {}
      /\ \A r \in Runs, p \in Platforms : draft[r][p].status # "in_progress"
      /\ \A p \in Platforms : \A q, r \in Is(p, "in_progress") : q = r
  BY DEF OneClaim, CoordinatedClaims
<1>2. ASSUME NEW r \in Runs, NEW p \in Platforms, att'[r][p].status = "in_progress"
      PROVE  \/ r \in Is(p, "in_progress")
             \/ pc[r] = "insert" /\ cur[r] = p /\ pc'[r] = "call"
  BY <1>1, <1>2, RowMoves DEF RowMove, Is
<1>3. ASSUME NEW r \in Runs, pc'[r] \in {"look", "insert"}
      PROVE  /\ advisory'[cur'[r]] = r
             /\ pc'[r] = "insert" =>
                  \A q \in Runs : att'[q][cur'[r]].status # "in_progress"
  <2>0. r \in Sessions
    BY DEF Sessions
  <2>1. CASE Rests(r)
    <3>1. /\ pc[r] = pc'[r] /\ cur'[r] = cur[r] /\ cur[r] \in Platforms
          /\ advisory[cur[r]] = r
      BY <1>1, <1>3, <2>1 DEF Rests, InLoop, InBody, TypeOK
    <3>2. advisory'[cur[r]] = r
      BY <1>3, <3>1, AdvisoryMoves
    <3>3. ASSUME pc[r] = "insert", NEW q \in Runs, att'[q][cur[r]].status = "in_progress"
          PROVE  FALSE
      <4>1. pc[q] = "insert" /\ cur[q] = cur[r] /\ pc'[q] = "call"
        BY <1>1, <1>2, <3>1, <3>3
      <4>2. q = r
        BY <1>1, <3>1, <4>1
      <4> QED
        BY <3>1, <3>3, <4>1, <4>2
    <3> QED
      BY <3>1, <3>2, <3>3
  <2>2. CASE BeginAttempt(r)
    <3>1. cur[r] \in Platforms /\ pc'[r] = "look" /\ cur' = cur
      BY <1>3, <2>0, <2>2 DEF BeginAttempt, InLoop, InBody, Conclude, Goto, TypeOK
    <3> QED
      BY <2>2, <3>1 DEF BeginAttempt, TypeOK
  <2>3. CASE LookForClaim(r)
    <3>1. /\ pc[r] = "look" /\ cur' = cur /\ advisory' = advisory /\ att' = att
          /\ \A q \in Runs : att[q][cur[r]].status # "in_progress"
      BY <1>3, <2>0, <2>3 DEF LookForClaim, Claimed, Is, Conclude, Goto, TypeOK
    <3>2. advisory[cur[r]] = r
      BY <1>1, <3>1
    <3> QED
      BY <3>1, <3>2
  <2>4. Moves(r) => BeginAttempt(r) \/ LookForClaim(r)
    BY <1>3, <2>0
    DEF Moves, BeginManual, BeginRetry, BeginScheduled, Begin, Step, Trouble, Recover,
        Validate, MarkPublishing, CheckPrior, InsertClaim, CallProvider, FinalizeAttempt,
        Finish, ForceTerminal, ReadForRelease, Release, Refuse, NoAccount,
        UnresolvedWrite, Interrupted, Cancelled, Crash, Conclude, Goto, TypeOK
  <2> QED
    BY <2>1, <2>2, <2>3, <2>4, ItsOwnStep
<1>4. ASSUME NEW r \in Runs, NEW p \in Platforms
      PROVE  draft'[r][p].status # "in_progress"
  BY <1>1, DraftMoves, OutcomeType, NoAttemptType DEF DraftMove, CommitsClaim
<1>5. ASSUME NEW p \in Platforms, NEW q \in Runs, NEW r \in Runs,
             att'[q][p].status = "in_progress", att'[r][p].status = "in_progress"
      PROVE  q = r
  <2>1. \A x \in {q, r} :
          \/ x \in Is(p, "in_progress")
          \/ /\ pc[x] = "insert" /\ cur[x] = p
             /\ advisory[p] = x /\ Is(p, "in_progress") = {}
    BY <1>1, <1>2, <1>5, SMTT(30)
  <2> QED
    BY <1>1, <2>1
<1> QED
  <2>1. OneClaim'
    BY <1>3, <1>4 DEF OneClaim, Is
  <2>2. CoordinatedClaims'
    BY <1>5 DEF CoordinatedClaims, Is
  <2> QED
    BY <2>1, <2>2

-----------------------------------------------------------------------------
(* The invariant and the theorems *)

Inv ==
  /\ TypeOK /\ InLoop /\ LetGo /\ StaleRows
  /\ RealPosts /\ Published
  /\ Stamped /\ OwnStamps
  /\ MetaSafe
  /\ OneClaim /\ CoordinatedClaims

LEMMA InvInit == ASSUME PublishAssumption, Init PROVE Inv
<1>1. TypeOK
  BY TypeInit
<1>2. /\ \A s \in Sessions : pc[s] = "idle" /\ stale[s] = NothingStale
      /\ \A r \in Runs : r \in Sessions /\ pc[r] = "idle" /\ version[r] = 0
      /\ \A r \in Runs, p \in Platforms :
           /\ att[r][p] = NoAttempt /\ draft[r][p] = NoAttempt
           /\ results[r][p] = "none"
      /\ posts = {} /\ hidden = {} /\ content.status # "published" /\ content.updated_at = 0
  BY DEF Init, Sessions
<1>3. InLoop /\ LetGo /\ StaleRows /\ Published
  BY <1>2 DEF InLoop, LetGo, InBody, StaleRows, NothingStale, Published
<1>4. RealPosts
  BY <1>2, NoAttemptType DEF RealPosts
<1>5. Stamped
  BY <1>2, NoAttemptType DEF Stamped, Own, Marked, InBody
<1>6. OwnStamps
  BY <1>2, NoAttemptType DEF OwnStamps, Uses
<1>7. MetaSafe
  BY <1>2 DEF MetaSafe
<1>8. OneClaim /\ CoordinatedClaims
  BY <1>2, NoAttemptType DEF OneClaim, CoordinatedClaims, Is
<1> QED
  BY <1>1, <1>3, <1>4, <1>5, <1>6, <1>7, <1>8 DEF Inv

LEMMA InvNext == ASSUME PublishAssumption, Inv, [Next]_vars PROVE Inv'
<1> USE DEF Inv
<1>1. TypeOK' /\ InLoop' /\ LetGo' /\ StaleRows'
  BY TypePreserved, LoopStays, LetGoStays, StaleStays
<1>2. RealPosts' /\ Published'
  BY RealStays, PublishedStays
<1>3. Stamped' /\ OwnStamps'
  BY StampedStays, OwnStampsStay
<1>4. MetaSafe'
  BY MetaStays
<1>5. OneClaim' /\ CoordinatedClaims'
  BY OneClaimStays
<1> QED
  BY <1>1, <1>2, <1>3, <1>4, <1>5

LEMMA InvAlways == ASSUME PublishAssumption PROVE Spec => []Inv
<1>1. Init => Inv
  BY InvInit
<1>2. Inv /\ [Next]_vars => Inv'
  BY InvNext
<1> QED
  BY <1>1, <1>2, PTL DEF Spec

(* The tables, the locks and the local state keep their types. *)
THEOREM TypeCorrect == ASSUME PublishAssumption PROVE Spec => []TypeOK
<1>1. Inv => TypeOK
  BY DEF Inv
<1> QED
  BY <1>1, InvAlways, PTL

(* No two runs of a content item ever share an idempotency key, so recovery
   never takes one attempt for a repetition of another, and the unique index
   never refuses a claim.                                                   *)
THEOREM KeysAreFresh == ASSUME PublishAssumption PROVE Spec => []KeysNeverRepeat
<1>1. Inv => KeysNeverRepeat
  BY KeysDiffer DEF Inv
<1> QED
  BY <1>1, InvAlways, PTL

(* The attempt of a post on Facebook or Instagram stays claimed, a success or
   under review, whatever is interrupted, cancelled, killed, recovered or run
   at the same time; an error that the provider itself answers with after the
   post is the only thing that closes it otherwise.                          *)
THEOREM MetaPostsAccounted == ASSUME PublishAssumption PROVE Spec => []MetaEffectAccounted
<1>1. Inv => MetaEffectAccounted
  BY MetaAccounted DEF Inv
<1> QED
  BY <1>1, InvAlways, PTL

(* A content item is only "published" when there is a post on each platform
   of some run.                                                             *)
THEOREM PublishedHasPosts == ASSUME PublishAssumption PROVE Spec => []PublishedIsReal
<1>1. Inv => PublishedIsReal
  BY DEF Inv, Published, Posted, PublishedIsReal
<1> QED
  BY <1>1, InvAlways, PTL

(* With coordination one attempt at most of a destination is in progress. *)
THEOREM ClaimsExclude == ASSUME PublishAssumption PROVE Spec => []CoordinatedClaims
<1>1. Inv => CoordinatedClaims
  BY DEF Inv
<1> QED
  BY <1>1, InvAlways, PTL

=============================================================================
