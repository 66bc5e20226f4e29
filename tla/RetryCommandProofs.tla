------------------------- MODULE RetryCommandProofs -------------------------
(***************************************************************************)
(* Theorems about RetryCommand for any number of commands, workers, posts  *)
(* and destinations.  IInv (in RetryCommand) is inductive: its type part,  *)
(* its row part, its history part and its worker part are preserved by     *)
(* every action, each in a lemma of its own.  The safety properties the    *)
(* runs check follow from it, and so does the step simulation of           *)
(* RetryPromise.                                                           *)
(***************************************************************************)
EXTENDS RetryCommand, FiniteSetTheorems, TLAPS

-----------------------------------------------------------------------------
(* The rows an action writes are rows *)

(* The steps that write a command row write a row of the table. *)
LEMMA CommandRowUpdates ==
  /\ \A n \in Nat :
       [NoCommand EXCEPT !.status = "pending", !.created_at = n] \in CommandRow
  /\ \A r \in CommandRow, w \in Workers : ApplyOwnership(r, w) \in CommandRow
  /\ \A r \in CommandRow :
       /\ [r EXCEPT !.resulting_attempt_id = TRUE] \in CommandRow
       /\ [r EXCEPT !.status = "provider_write_started",
                    !.provider_write_started_at = TRUE,
                    !.lease_expires_at = "null"] \in CommandRow
       /\ [r EXCEPT !.lease_expires_at = "past"] \in CommandRow
  /\ \A r \in CommandRow, s \in TerminalStatuses, k \in {"provider", "operator"} :
       FinishedCommand(r, s, k) \in CommandRow
  BY ZenonT(60) DEF CommandRow, NoCommand, ApplyOwnership, FinishedCommand, Statuses,
         ActiveStatuses

(* The steps that write an attempt row write a row of the table. *)
LEMMA AttemptRowUpdates ==
  /\ PreparedAttempt \in AttemptRow
  /\ \A r \in AttemptRow :
       /\ [r EXCEPT !.status = "operator_review", !.finished_at = TRUE]
            \in AttemptRow
       /\ [r EXCEPT !.status = "operator_review",
                    !.failure_code = "write_started",
                    !.finished_at = FALSE] \in AttemptRow
  /\ \A o, p : p \in PostIds \cup {None} => FinishedAttempt(o, p) \in AttemptRow
  BY DEF AttemptRow, PreparedAttempt, NoAttempt, FinishedAttempt

(* A classified outcome is a result, whatever the provider answered. *)
LEMMA ClassifyResult ==
  ASSUME NEW p \in PostIds \cup {None}, NEW raw \in Replies(p)
  PROVE  /\ Classify(raw) \in Results
         /\ \/ /\ Classify(raw).outcome = "SUCCESS"
               /\ p # None /\ Classify(raw).external_post_id = p
            \/ Classify(raw).outcome = "DEFINITIVE_FAILURE" /\ p = None
            \/ Classify(raw).outcome = "AMBIGUOUS"
  BY DEF Replies, Classify, Results

-----------------------------------------------------------------------------
(* Type correctness *)

(* Every step keeps every variable in its type.  The worker part of IInv is
   needed because a worker indexes the rows by cur[w].                       *)
LEMMA TypeStep ==
  ASSUME IInv, [Next]_vars
  PROVE  TypeOK'
<1> USE ConstantsAssumption
<1>0. TypeOK /\ \A w \in Workers : WorkerInv(w)
  BY DEF IInv
<1>1. ASSUME NEW c \in Commands, FindCommand(c) PROVE TypeOK'
  BY <1>0, <1>1 DEF TypeOK, FindCommand, workers, env, history
<1>2. ASSUME NEW c \in Commands, InsertCommand(c) PROVE TypeOK'
  <2>1. 1 + Cardinality({d \in Commands : Exists(d)}) \in Nat
    BY FS_Subset, FS_CardinalityType
  <2>2. cmd' \in [Commands -> CommandRow]
    BY <1>0, <1>2, <2>1, CommandRowUpdates DEF TypeOK, InsertCommand
  <2> QED
    BY <1>0, <1>2, <2>2 DEF TypeOK, InsertCommand, workers, env, history
<1>3. ASSUME NEW c \in Commands, ExpireLease(c) PROVE TypeOK'
  BY <1>0, <1>3, CommandRowUpdates
     DEF TypeOK, ExpireLease, workers, env, history
<1>4. ASSUME NEW c \in Commands, MarkAmbiguous(c) PROVE TypeOK'
  <2>1. /\ FinishedCommand(cmd[c], "ambiguous", "operator") \in CommandRow
        /\ [att[c] EXCEPT !.status = "operator_review", !.finished_at = TRUE]
             \in AttemptRow
    BY <1>0, CommandRowUpdates, AttemptRowUpdates DEF TypeOK, TerminalStatuses
  <2> QED
    BY <1>0, <1>4, <2>1, SMTT(30) DEF TypeOK, MarkAmbiguous, workers, env, history
<1>5. ASSUME NEW c \in Commands, NEW p \in PostIds, AckExternalSuccess(c, p)
      PROVE  TypeOK'
  <2>1. /\ FinishedCommand(cmd[c], "succeeded", "operator") \in CommandRow
        /\ FinishedAttempt("SUCCESS", p) \in AttemptRow
    BY <1>0, CommandRowUpdates, AttemptRowUpdates DEF TypeOK, TerminalStatuses
  <2> QED
    BY <1>0, <1>5, <2>1, SMTT(30) DEF TypeOK, AckExternalSuccess, workers, env, history
<1>6. ASSUME NEW w \in Workers, ClaimBatch(w) PROVE TypeOK'
  <2>1. PICK taken \in SUBSET Commands :
          /\ cmd' = [c \in Commands |->
                       IF c \in taken THEN ApplyOwnership(cmd[c], w) ELSE cmd[c]]
          /\ todo' = [todo EXCEPT ![w] = taken]
    BY <1>6 DEF ClaimBatch, Oldest, Unlocked
  <2>2. cmd' \in [Commands -> CommandRow]
    BY <1>0, <2>1, CommandRowUpdates DEF TypeOK
  <2> QED
    BY <1>0, <1>6, <2>1, <2>2 DEF TypeOK, ClaimBatch, env, history
<1>7. ASSUME NEW w \in Workers, NEW c \in Commands, BeginPrepare(w, c)
      PROVE  TypeOK'
  BY <1>0, <1>7 DEF TypeOK, BeginPrepare, Goto, Labels, rows, env, history
<1>8. ASSUME NEW w \in Workers, NEW c \in Commands, PrepareRefused(w, c)
      PROVE  TypeOK'
  BY <1>0, <1>8 DEF TypeOK, PrepareRefused, rows, env, history
<1>9. ASSUME NEW w \in Workers, CommitPrepare(w) PROVE TypeOK'
  <2>1. cmd' \in [Commands -> CommandRow] /\ att' \in [Commands -> AttemptRow]
    BY <1>0, <1>9, CommandRowUpdates, AttemptRowUpdates DEF TypeOK, CommitPrepare
  <2> QED
    BY <1>0, <1>9, <2>1, SMTT(30) DEF TypeOK, CommitPrepare, Goto, Labels, env, history
<1>10. ASSUME NEW w \in Workers, StopBeforeBarrier(w) PROVE TypeOK'
  BY <1>0, <1>10
     DEF TypeOK, StopBeforeBarrier, BackToPoll, Goto, Labels, Results, rows, env,
         history
<1>11. ASSUME NEW w \in Workers, EnterDrainTerritory(w) PROVE TypeOK'
  BY <1>0, <1>11 DEF TypeOK, EnterDrainTerritory, Goto, Labels, rows, env, history
<1>12. ASSUME NEW w \in Workers, BeginBarrier(w) PROVE TypeOK'
  BY <1>0, <1>12 DEF TypeOK, BeginBarrier, Goto, Labels, rows, env, history
<1>13. ASSUME NEW w \in Workers, BarrierRefused(w) PROVE TypeOK'
  BY <1>0, <1>13
     DEF TypeOK, BarrierRefused, BackToPoll, Goto, Labels, Results, rows, env,
         history
<1>14. ASSUME NEW w \in Workers, CommitBarrier(w) PROVE TypeOK'
  <2>1. cmd' \in [Commands -> CommandRow] /\ att' \in [Commands -> AttemptRow]
    BY <1>0, <1>14, CommandRowUpdates, AttemptRowUpdates, ZenonT(60) DEF TypeOK, CommitBarrier
  <2> QED
    BY <1>0, <1>14, <2>1, SMTT(30) DEF TypeOK, CommitBarrier, Goto, Labels, env, history
<1>15. ASSUME NEW w \in Workers, CallProvider(w) PROVE TypeOK'
  <2>1. cur[w] \in Commands
    BY <1>0, <1>15 DEF CallProvider, WorkerInv, InPipeline
  <2>2. writes' \in [Commands -> Nat] /\ effect' \in [Commands -> PostIds \cup {None}]
    BY <1>0, <1>15, <2>1 DEF TypeOK, CallProvider
  <2> QED
    BY <1>0, <1>15, <2>2 DEF TypeOK, CallProvider, Goto, Labels, rows, env
<1>16. ASSUME NEW w \in Workers, ProviderReturns(w) PROVE TypeOK'
  <2>1. effect[cur[w]] \in PostIds \cup {None}
    BY <1>0, <1>16 DEF TypeOK, ProviderReturns, WorkerInv, InPipeline
  <2>2. PICK raw \in Replies(effect[cur[w]]) :
          result' = [result EXCEPT ![w] = Classify(raw)]
    BY <1>16 DEF ProviderReturns
  <2>3. Classify(raw) \in Results
    BY <2>1, ClassifyResult
  <2> QED
    BY <1>0, <1>16, <2>2, <2>3
       DEF TypeOK, ProviderReturns, Goto, Labels, rows, env, history
<1>17. ASSUME NEW w \in Workers, Finalize(w) PROVE TypeOK'
  <2>0. cur[w] \in Commands
    BY <1>0, <1>17 DEF Finalize, WorkerInv, InPipeline
  <2>1. TerminalStatusOf(result[w].outcome) \in TerminalStatuses
    BY DEF TerminalStatusOf, TerminalStatuses
  <2>2. result[w].external_post_id \in PostIds \cup {None}
    BY <1>0 DEF TypeOK, Results
  <2>3. cmd' \in [Commands -> CommandRow]
    <3>1. FinishedCommand(cmd[cur[w]], TerminalStatusOf(result[w].outcome), "provider")
            \in CommandRow
      BY <1>0, <2>0, <2>1, CommandRowUpdates DEF TypeOK
    <3> QED
      BY <1>0, <1>17, <3>1 DEF TypeOK, Finalize
  <2>4. att' \in [Commands -> AttemptRow]
    <3>1. FinishedAttempt(result[w].outcome, result[w].external_post_id) \in AttemptRow
      BY <2>2, AttemptRowUpdates
    <3> QED
      BY <1>0, <1>17, <3>1, SMTT(30) DEF TypeOK, Finalize
  <2> QED
    BY <1>0, <1>17, <2>3, <2>4
       DEF TypeOK, Finalize, BackToPoll, Goto, Labels, Results, env, history
<1>18. ASSUME NEW w \in Workers, FinalizeFails(w) PROVE TypeOK'
  BY <1>0, <1>18
     DEF TypeOK, FinalizeFails, BackToPoll, Goto, Labels, Results, rows, env,
         history
<1>19. ASSUME NEW w \in Workers, Process(w) PROVE TypeOK'
  <2>1. CASE StartWorker(w)
    BY <1>0, <2>1 DEF TypeOK, StartWorker, Goto, Labels, rows, env, history
  <2>2. CASE RequestStop(w)
    BY <1>0, <2>2 DEF TypeOK, RequestStop, rows, env, history
  <2>3. CASE GracefulExit(w) \/ Crash(w)
    <3>1. Leave(w)
      BY <2>3 DEF GracefulExit, Crash
    <3> QED
      BY <1>0, <3>1 DEF TypeOK, Leave, Goto, Labels, Results, rows, env, history
  <2> QED
    BY <1>19, <2>1, <2>2, <2>3 DEF Process
<1>20. ASSUME Environment PROVE TypeOK'
  BY <1>0, <1>20
     DEF TypeOK, Environment, OtherPathSucceeds, FlipGate, rows, workers, history
<1>21. CASE UNCHANGED vars
  BY <1>0, <1>21 DEF TypeOK, vars, rows, workers, env, history
<1> QED
  BY <1>1, <1>2, <1>3, <1>4, <1>5, <1>6, <1>7, <1>8, <1>9, <1>10, <1>11, <1>12,
     <1>13, <1>14, <1>15, <1>16, <1>17, <1>18, <1>19, <1>20, <1>21
     DEF Next, Create, Resolve, Orchestrate

-----------------------------------------------------------------------------
(* The rows agree *)

(* RowInv speaks of the rows only. *)
LEMMA RowInvUnchanged ==
  ASSUME NEW c \in Commands, RowInv(c),
         request'[c] = request[c], cmd'[c] = cmd[c], att'[c] = att[c]
  PROVE  RowInv(c)'
  BY DEF RowInv, Exists, Terminal, WriteStarted

(* Every step keeps the two rows of every command in agreement.  A worker
   that changes a row owns it, by the worker part of IInv.                   *)
LEMMA RowStep ==
  ASSUME IInv, TypeOK', [Next]_vars, NEW e \in Commands
  PROVE  RowInv(e)'
<1>0. /\ TypeOK
      /\ \A c \in Commands : RowInv(c)
      /\ \A w \in Workers : WorkerInv(w)
  BY DEF IInv
<1>1. CASE UNCHANGED rows
  BY <1>0, <1>1, RowInvUnchanged DEF rows
<1>2. ASSUME NEW c \in Commands, FindCommand(c) PROVE RowInv(e)'
  BY <1>0, <1>2 DEF TypeOK, FindCommand, RowInv, Exists, Terminal, WriteStarted
<1>3. ASSUME NEW c \in Commands, InsertCommand(c) PROVE RowInv(e)'
  BY <1>0, <1>3
     DEF TypeOK, InsertCommand, NoCommand, RowInv, Exists, Terminal,
         TerminalStatuses, WriteStarted
<1>4. ASSUME NEW c \in Commands, ExpireLease(c) PROVE RowInv(e)'
  BY <1>0, <1>4
     DEF TypeOK, CommandRow, ExpireLease, RowInv, Exists, Terminal, WriteStarted
<1>5. ASSUME NEW c \in Commands, MarkAmbiguous(c) PROVE RowInv(e)'
  BY <1>0, <1>5
     DEF TypeOK, CommandRow, AttemptRow, MarkAmbiguous, Resolvable,
         FinishedCommand, RowInv, Exists, Terminal, TerminalStatuses, WriteStarted
<1>6. ASSUME NEW c \in Commands, NEW p \in PostIds, AckExternalSuccess(c, p)
      PROVE  RowInv(e)'
  <2>1. CASE e = c
    BY <1>0, <1>6, <2>1
       DEF TypeOK, CommandRow, AckExternalSuccess, Resolvable, FinishedCommand,
           FinishedAttempt, RowInv, Exists, Terminal, TerminalStatuses, WriteStarted
  <2>2. CASE e # c
    BY <1>0, <1>6, <2>2, RowInvUnchanged DEF TypeOK, AckExternalSuccess
  <2> QED
    BY <2>1, <2>2
<1>7. ASSUME NEW w \in Workers, ClaimBatch(w) PROVE RowInv(e)'
  <2>1. /\ request' = request /\ att' = att
        /\ \/ cmd'[e] = cmd[e]
           \/ /\ cmd[e].status = "pending" \/ Stale(e)
              /\ cmd'[e] = ApplyOwnership(cmd[e], w)
    BY <1>7 DEF ClaimBatch, Oldest, Unlocked
  <2>2. CASE cmd'[e] = cmd[e]
    BY <1>0, <2>1, <2>2, RowInvUnchanged
  <2>3. CASE /\ cmd[e].status = "pending" \/ Stale(e)
             /\ cmd'[e] = ApplyOwnership(cmd[e], w)
    BY <1>0, <2>1, <2>3
       DEF TypeOK, CommandRow, ApplyOwnership, Stale, RowInv, Exists, Terminal,
           TerminalStatuses, WriteStarted
  <2> QED
    BY <2>1, <2>2, <2>3
<1>8. ASSUME NEW w \in Workers, CommitPrepare(w) PROVE RowInv(e)'
  BY <1>0, <1>8
     DEF TypeOK, CommandRow, CommitPrepare, PreparedAttempt, WorkerInv, RowInv,
         Exists, Terminal, TerminalStatuses, WriteStarted
<1>9. ASSUME NEW w \in Workers, CommitBarrier(w) PROVE RowInv(e)'
  <2>1. CASE e = cur[w]
    <3>1. /\ cmd[e].status = "claimed" /\ cmd[e].resulting_attempt_id
          /\ RowInv(e) /\ cmd[e] \in CommandRow
      BY <1>0, <1>9, <2>1 DEF TypeOK, CommitBarrier, WorkerInv
    <3>2. att[e] = PreparedAttempt
      BY <3>1 DEF RowInv, Terminal, TerminalStatuses
    <3>3. /\ request'[e] = request[e]
          /\ cmd'[e] = [cmd[e] EXCEPT !.status = "provider_write_started",
                                      !.provider_write_started_at = TRUE,
                                      !.lease_expires_at = "null"]
          /\ att'[e] = [att[e] EXCEPT !.status = "operator_review",
                                      !.failure_code = "write_started",
                                      !.finished_at = FALSE]
      BY <1>0, <1>9, <2>1 DEF TypeOK, CommitBarrier
    <3> QED
      BY <3>1, <3>2, <3>3
         DEF CommandRow, PreparedAttempt, NoAttempt, RowInv, Exists, Terminal,
             TerminalStatuses, WriteStarted
  <2>2. CASE e # cur[w]
    BY <1>0, <1>9, <2>2, RowInvUnchanged DEF TypeOK, CommitBarrier
  <2> QED
    BY <2>1, <2>2
<1>10. ASSUME NEW w \in Workers, Finalize(w) PROVE RowInv(e)'
  <2>1. CASE e = cur[w] /\ Finalizable(e)
    <3>1. /\ cmd'[e] = FinishedCommand(cmd[e], TerminalStatusOf(result[w].outcome),
                                       "provider")
          /\ att'[e] = FinishedAttempt(result[w].outcome,
                                       result[w].external_post_id)
          /\ request'[e] = request[e]
      BY <1>0, <1>10, <2>1 DEF TypeOK, Finalize
    <3>2. cmd[e].status = "provider_write_started" /\ RowInv(e)
      BY <1>0, <2>1 DEF Finalizable
    <3> QED
      BY <1>0, <3>1, <3>2
         DEF TypeOK, CommandRow, FinishedCommand, FinishedAttempt,
             TerminalStatusOf, RowInv, Exists, Terminal, TerminalStatuses,
             WriteStarted
  <2>2. CASE ~(e = cur[w] /\ Finalizable(e))
    BY <1>0, <1>10, <2>2, RowInvUnchanged DEF TypeOK, Finalize
  <2> QED
    BY <2>1, <2>2
<1> QED
  BY <1>1, <1>2, <1>3, <1>4, <1>5, <1>6, <1>7, <1>8, <1>9, <1>10
     DEF Next, Create, Resolve, Orchestrate, Process, Environment, BeginPrepare,
         PrepareRefused, StopBeforeBarrier, EnterDrainTerritory, BeginBarrier,
         BarrierRefused, CallProvider, ProviderReturns, FinalizeFails,
         StartWorker, RequestStop, GracefulExit, Crash, Leave,
         OtherPathSucceeds, FlipGate, vars

-----------------------------------------------------------------------------
(* The history agrees with the rows *)

(* HistoryInv speaks of the rows and of the two history variables. *)
LEMMA HistoryInvUnchanged ==
  ASSUME NEW c \in Commands, HistoryInv(c),
         cmd'[c] = cmd[c], att'[c] = att[c],
         writes'[c] = writes[c], effect'[c] = effect[c]
  PROVE  HistoryInv(c)'
  BY DEF HistoryInv

(* Every step keeps the provider calls made for a command in agreement with
   its rows.                                                                 *)
LEMMA HistoryStep ==
  ASSUME IInv, TypeOK', [Next]_vars, NEW e \in Commands
  PROVE  HistoryInv(e)'
<1>0. /\ TypeOK
      /\ \A c \in Commands : RowInv(c) /\ HistoryInv(c)
      /\ \A w \in Workers : WorkerInv(w)
  BY DEF IInv
<1>1. CASE UNCHANGED <<cmd, att, history>>
  BY <1>0, <1>1, HistoryInvUnchanged DEF history
<1>2. ASSUME NEW c \in Commands, InsertCommand(c) PROVE HistoryInv(e)'
  <2>1. cmd'[e] = cmd[e] \/ (~Exists(e) /\ cmd'[e].status = "pending")
    BY <1>0, <1>2 DEF TypeOK, InsertCommand, NoCommand, RowInv
  <2>2. CASE cmd'[e] = cmd[e]
    BY <1>0, <1>2, <2>2, HistoryInvUnchanged DEF InsertCommand, history
  <2>3. CASE ~Exists(e) /\ cmd'[e].status = "pending"
    BY <1>0, <1>2, <2>3
       DEF InsertCommand, HistoryInv, RowInv, Exists, Terminal, TerminalStatuses,
           history
  <2> QED
    BY <2>1, <2>2, <2>3
<1>3. ASSUME NEW c \in Commands, ExpireLease(c) PROVE HistoryInv(e)'
  BY <1>0, <1>3 DEF TypeOK, CommandRow, ExpireLease, HistoryInv, history
<1>4. ASSUME NEW c \in Commands, MarkAmbiguous(c) PROVE HistoryInv(e)'
  BY <1>0, <1>4
     DEF TypeOK, CommandRow, MarkAmbiguous, Resolvable, FinishedCommand,
         HistoryInv, history
<1>5. ASSUME NEW c \in Commands, NEW p \in PostIds, AckExternalSuccess(c, p)
      PROVE  HistoryInv(e)'
  BY <1>0, <1>5
     DEF TypeOK, CommandRow, AckExternalSuccess, Resolvable, FinishedCommand,
         HistoryInv, history
<1>6. ASSUME NEW w \in Workers, ClaimBatch(w) PROVE HistoryInv(e)'
  <2>1. /\ att' = att /\ UNCHANGED history
        /\ cmd'[e] = cmd[e] \/ cmd'[e] = ApplyOwnership(cmd[e], w)
    BY <1>6 DEF ClaimBatch
  <2>2. /\ cmd'[e].provider_write_started_at = cmd[e].provider_write_started_at
        /\ cmd'[e].status = "claimed" \/ cmd'[e] = cmd[e]
    <3>1. cmd[e] \in CommandRow
      BY <1>0 DEF TypeOK
    <3> QED
      BY <2>1, <3>1 DEF CommandRow, ApplyOwnership
  <2> QED
    BY <1>0, <2>1, <2>2 DEF HistoryInv, history
<1>7. ASSUME NEW w \in Workers, CommitPrepare(w) PROVE HistoryInv(e)'
  BY <1>0, <1>7
     DEF TypeOK, CommandRow, CommitPrepare, WorkerInv, HistoryInv, history
<1>8. ASSUME NEW w \in Workers, CommitBarrier(w) PROVE HistoryInv(e)'
  BY <1>0, <1>8
     DEF TypeOK, CommandRow, CommitBarrier, WorkerInv, HistoryInv, history
<1>9. ASSUME NEW w \in Workers, CallProvider(w) PROVE HistoryInv(e)'
  <2>1. CASE e = cur[w]
    <3>1. /\ writes[e] = 0 /\ writes'[e] = 1
          /\ cmd'[e] = cmd[e] /\ cmd[e].provider_write_started_at
      BY <1>0, <1>9, <2>1
         DEF TypeOK, CallProvider, WorkerInv, PastBarrier, rows
    <3>2. cmd[e].status # "failed"
      BY <1>0, <3>1 DEF HistoryInv
    <3>3. ~(cmd[e].status = "succeeded" /\ cmd[e].reason_code = "provider")
      BY <1>0, <3>1 DEF HistoryInv
    <3> QED
      BY <3>1, <3>2, <3>3 DEF HistoryInv
  <2>2. CASE e # cur[w]
    BY <1>0, <1>9, <2>2, HistoryInvUnchanged DEF TypeOK, CallProvider, rows
  <2> QED
    BY <2>1, <2>2
<1>10. ASSUME NEW w \in Workers, Finalize(w) PROVE HistoryInv(e)'
  <2>0. UNCHANGED history
    BY <1>10 DEF Finalize
  <2>1. CASE e = cur[w] /\ Finalizable(e)
    <3>1. /\ cmd'[e] = FinishedCommand(cmd[e], TerminalStatusOf(result[w].outcome),
                                       "provider")
          /\ att'[e] = FinishedAttempt(result[w].outcome,
                                       result[w].external_post_id)
      BY <1>0, <1>10, <2>1 DEF TypeOK, Finalize
    <3>2. /\ writes[e] = 1
          /\ \/ /\ result[w].outcome = "SUCCESS" /\ effect[e] # None
                /\ result[w].external_post_id = effect[e]
             \/ result[w].outcome = "DEFINITIVE_FAILURE" /\ effect[e] = None
             \/ result[w].outcome = "AMBIGUOUS"
      BY <1>0, <1>10, <2>1 DEF Finalize, WorkerInv
    <3>3. /\ HistoryInv(e) /\ cmd[e] \in CommandRow
      BY <1>0 DEF TypeOK
    <3> QED
      BY <2>0, <3>1, <3>2, <3>3
         DEF CommandRow, FinishedCommand, FinishedAttempt, TerminalStatusOf,
             HistoryInv, history
  <2>2. CASE ~(e = cur[w] /\ Finalizable(e))
    BY <1>0, <1>10, <2>0, <2>2, HistoryInvUnchanged DEF TypeOK, Finalize, history
  <2> QED
    BY <2>1, <2>2
<1> QED
  BY <1>1, <1>2, <1>3, <1>4, <1>5, <1>6, <1>7, <1>8, <1>9, <1>10
     DEF Next, Create, Resolve, Orchestrate, Process, Environment, FindCommand,
         BeginPrepare, PrepareRefused, StopBeforeBarrier, EnterDrainTerritory,
         BeginBarrier, BarrierRefused, ProviderReturns, FinalizeFails,
         StartWorker, RequestStop, GracefulExit, Crash, Leave,
         OtherPathSucceeds, FlipGate, vars, rows

-----------------------------------------------------------------------------
(* The workers agree with the rows *)

(* WorkerInv(v) speaks of v and of four columns of the row v works on. *)
LEMMA WorkerInvUnchanged ==
  ASSUME NEW v \in Workers, WorkerInv(v),
         pc'[v] = pc[v], cur'[v] = cur[v], result'[v] = result[v],
         cmd' = cmd, UNCHANGED history
  PROVE  WorkerInv(v)'
  BY DEF WorkerInv, history

(* Every step keeps every worker's program counter in agreement with the rows:
   its own steps establish what the next control point relies on, and a step
   of anybody else leaves the row alone, because it is locked or because its
   lease owner is this worker.                                               *)
LEMMA WorkerStep ==
  ASSUME IInv, TypeOK', [Next]_vars, NEW v \in Workers
  PROVE  WorkerInv(v)'
<1>0. /\ TypeOK
      /\ \A c \in Commands : RowInv(c) /\ HistoryInv(c)
      /\ \A w \in Workers : WorkerInv(w)
  BY DEF IInv
<1>1. CASE UNCHANGED <<pc, cur, result, cmd, history>>
  BY <1>0, <1>1, WorkerInvUnchanged
<1>2. ASSUME NEW c \in Commands, InsertCommand(c) PROVE WorkerInv(v)'
  BY <1>0, <1>2
     DEF TypeOK, InsertCommand, NoCommand, RowInv, Exists, Terminal,
         TerminalStatuses, WorkerInv, InPipeline, PastBarrier, workers, history
<1>3. ASSUME NEW c \in Commands, ExpireLease(c) PROVE WorkerInv(v)'
  BY <1>0, <1>3
     DEF TypeOK, CommandRow, ExpireLease, WorkerInv, InPipeline, PastBarrier,
         workers, history
<1>4. ASSUME NEW c \in Commands, MarkAmbiguous(c) PROVE WorkerInv(v)'
  BY <1>0, <1>4
     DEF TypeOK, CommandRow, MarkAmbiguous, Resolvable, FinishedCommand,
         WorkerInv, InPipeline, PastBarrier, workers, history
<1>5. ASSUME NEW c \in Commands, NEW p \in PostIds, AckExternalSuccess(c, p)
      PROVE  WorkerInv(v)'
  BY <1>0, <1>5
     DEF TypeOK, CommandRow, AckExternalSuccess, Resolvable, FinishedCommand,
         WorkerInv, InPipeline, PastBarrier, workers, history
<1>6. ASSUME NEW w \in Workers, ClaimBatch(w) PROVE WorkerInv(v)'
  <2>1. ASSUME NEW c \in Commands, cmd'[c] # cmd[c]
        PROVE  /\ ~Locked(c)
               /\ cmd'[c] = ApplyOwnership(cmd[c], w)
               /\ cmd[c].status = "pending" \/ Stale(c)
    BY <1>6, <2>1 DEF ClaimBatch, Oldest, Unlocked
  <2>2. UNCHANGED <<pc, cur, result, history>>
    BY <1>6 DEF ClaimBatch
  <2>3. CASE pc[v] \notin InPipeline
    BY <2>2, <2>3 DEF WorkerInv, InPipeline, PastBarrier
  <2>4. CASE pc[v] \in InPipeline /\ cmd'[cur[v]] # cmd[cur[v]]
    <3>1. cur[v] \in Commands /\ RowInv(cur[v])
      BY <1>0, <2>4 DEF WorkerInv
    <3>2. pc[v] \notin {"preparing", "crossing"}
      BY <2>1, <2>4, <3>1 DEF Locked
    <3>3. pc[v] \notin PastBarrier
      BY <1>0, <2>1, <2>4, <3>1
         DEF WorkerInv, RowInv, Stale, Terminal, TerminalStatuses
    <3> QED
      BY <2>2, <3>1, <3>2, <3>3 DEF WorkerInv, PastBarrier
  <2>5. CASE pc[v] \in InPipeline /\ cmd'[cur[v]] = cmd[cur[v]]
    BY <1>0, <2>2, <2>5 DEF WorkerInv, history
  <2> QED
    BY <2>3, <2>4, <2>5
<1>7. ASSUME NEW w \in Workers, NEW c \in Commands, BeginPrepare(w, c)
      PROVE  WorkerInv(v)'
  BY <1>0, <1>7
     DEF TypeOK, BeginPrepare, Goto, Owns, WorkerInv, InPipeline, PastBarrier,
         rows, history
<1>8. ASSUME NEW w \in Workers, CommitPrepare(w) PROVE WorkerInv(v)'
  BY <1>0, <1>8
     DEF TypeOK, CommandRow, CommitPrepare, Goto, WorkerInv, InPipeline,
         PastBarrier, history
<1>9. ASSUME NEW w \in Workers,
             \/ StopBeforeBarrier(w) \/ BarrierRefused(w) \/ FinalizeFails(w)
      PROVE  WorkerInv(v)'
  BY <1>0, <1>9
     DEF TypeOK, StopBeforeBarrier, BarrierRefused, FinalizeFails, BackToPoll,
         Goto, WorkerInv, InPipeline, PastBarrier, rows, history
<1>10. ASSUME NEW w \in Workers, EnterDrainTerritory(w) PROVE WorkerInv(v)'
  BY <1>0, <1>10
     DEF TypeOK, EnterDrainTerritory, Goto, WorkerInv, InPipeline, PastBarrier,
         rows, history
<1>11. ASSUME NEW w \in Workers, BeginBarrier(w) PROVE WorkerInv(v)'
  BY <1>0, <1>11
     DEF TypeOK, BeginBarrier, Goto, Owns, WorkerInv, InPipeline, PastBarrier,
         rows, history
<1>12. ASSUME NEW w \in Workers, CommitBarrier(w) PROVE WorkerInv(v)'
  <2>1. /\ pc[w] = "crossing" /\ cur[w] \in Commands /\ RowInv(cur[w])
        /\ HistoryInv(cur[w])
        /\ cmd[cur[w]].status = "claimed" /\ cmd[cur[w]].lease_owner = w
    BY <1>0, <1>12 DEF CommitBarrier, WorkerInv, InPipeline
  <2>2. writes[cur[w]] = 0
    BY <2>1 DEF HistoryInv, RowInv, Terminal, TerminalStatuses
  <2>3. /\ cmd'[cur[w]].provider_write_started_at
        /\ cmd'[cur[w]].lease_owner = w
    BY <1>0, <1>12, <2>1 DEF TypeOK, CommandRow, CommitBarrier
  <2>4. CASE v = w
    BY <1>0, <1>12, <2>1, <2>2, <2>3, <2>4
       DEF TypeOK, CommitBarrier, Goto, WorkerInv, InPipeline, PastBarrier, history
  <2>5. CASE v # w /\ cur[v] = cur[w]
    <3>1. pc[v] \notin PastBarrier \cup {"preparing", "crossing"}
      BY <1>0, <2>1, <2>5 DEF WorkerInv
    <3> QED
      BY <1>0, <1>12, <2>5, <3>1
         DEF TypeOK, CommitBarrier, Goto, WorkerInv, PastBarrier
  <2>6. CASE v # w /\ cur[v] # cur[w]
    <3>1. UNCHANGED <<cur, result, history>> /\ pc'[v] = pc[v]
      BY <1>0, <1>12, <2>6 DEF TypeOK, CommitBarrier, Goto
    <3>2. cur[v] \in Commands => cmd'[cur[v]] = cmd[cur[v]]
      BY <1>0, <1>12, <2>6 DEF TypeOK, CommitBarrier
    <3> QED
      BY <1>0, <3>1, <3>2 DEF WorkerInv, InPipeline, PastBarrier, history
  <2> QED
    BY <2>4, <2>5, <2>6
<1>13. ASSUME NEW w \in Workers, CallProvider(w) PROVE WorkerInv(v)'
  BY <1>0, <1>13
     DEF TypeOK, CallProvider, Goto, WorkerInv, InPipeline, PastBarrier, rows
<1>14. ASSUME NEW w \in Workers, ProviderReturns(w) PROVE WorkerInv(v)'
  <2>1. /\ pc[w] = "calling" /\ cur[w] \in Commands
        /\ effect[cur[w]] \in PostIds \cup {None}
    BY <1>0, <1>14 DEF TypeOK, ProviderReturns, WorkerInv, InPipeline
  <2>2. PICK raw \in Replies(effect[cur[w]]) :
          result' = [result EXCEPT ![w] = Classify(raw)]
    BY <1>14 DEF ProviderReturns
  <2>3. /\ UNCHANGED <<cur, cmd, history>>
        /\ pc' = [pc EXCEPT ![w] = "returned"]
    BY <1>14 DEF ProviderReturns, Goto, rows
  <2>4. CASE v = w
    <3>1. result'[v] = Classify(raw) /\ pc'[v] = "returned"
      BY <1>0, <2>2, <2>3, <2>4 DEF TypeOK
    <3> QED
      BY <1>0, <2>1, <2>3, <2>4, <3>1, ClassifyResult
         DEF WorkerInv, InPipeline, PastBarrier, history
  <2>5. CASE v # w
    BY <1>0, <2>2, <2>3, <2>5, WorkerInvUnchanged DEF TypeOK
  <2> QED
    BY <2>4, <2>5
<1>15. ASSUME NEW w \in Workers, Finalize(w) PROVE WorkerInv(v)'
  <2>1. /\ UNCHANGED history
        /\ pc' = [pc EXCEPT ![w] = "poll"]
        /\ cur' = [cur EXCEPT ![w] = None]
        /\ v # w => result'[v] = result[v]
    BY <1>0, <1>15 DEF TypeOK, Finalize, BackToPoll, Goto
  <2>2. CASE v = w
    BY <1>0, <2>1, <2>2 DEF TypeOK, WorkerInv, InPipeline, PastBarrier
  <2>3. CASE v # w
    <3>1. pc'[v] = pc[v] /\ cur'[v] = cur[v]
      BY <1>0, <2>1, <2>3 DEF TypeOK
    <3>2. ASSUME cur[v] \in Commands, cmd'[cur[v]] # cmd[cur[v]]
          PROVE  pc[v] \notin PastBarrier \cup {"preparing", "crossing"}
      <4>1. cur[v] = cur[w] /\ Finalizable(cur[v])
        BY <1>0, <1>15, <3>2 DEF TypeOK, Finalize
      <4>2. cmd[cur[v]].lease_owner = w
        BY <1>0, <1>15, <4>1 DEF Finalize, WorkerInv, PastBarrier
      <4> QED
        BY <1>0, <2>3, <4>2 DEF WorkerInv
    <3> QED
      BY <1>0, <2>1, <2>3, <3>1, <3>2
         DEF WorkerInv, InPipeline, PastBarrier, history
  <2> QED
    BY <2>2, <2>3
<1>16. ASSUME NEW w \in Workers, StartWorker(w) PROVE WorkerInv(v)'
  BY <1>0, <1>16
     DEF TypeOK, StartWorker, Goto, WorkerInv, InPipeline, PastBarrier, rows,
         history
<1>17. ASSUME NEW w \in Workers, Leave(w) PROVE WorkerInv(v)'
  BY <1>0, <1>17
     DEF TypeOK, Leave, Goto, WorkerInv, InPipeline, PastBarrier, rows, history
<1> QED
  BY <1>1, <1>2, <1>3, <1>4, <1>5, <1>6, <1>7, <1>8, <1>9, <1>10, <1>11, <1>12,
     <1>13, <1>14, <1>15, <1>16, <1>17
     DEF Next, Create, Resolve, Orchestrate, Process, Environment, FindCommand,
         PrepareRefused, RequestStop, GracefulExit, Crash, OtherPathSucceeds,
         FlipGate, vars, rows, workers, history

-----------------------------------------------------------------------------
(* The invariant and what follows from it *)

(* The tables are empty and every worker is off at the start. *)
LEMMA InitInv == Init => IInv
  BY ConstantsAssumption
     DEF Init, IInv, TypeOK, CommandRow, AttemptRow, NoCommand, NoAttempt,
         Statuses, ActiveStatuses, Labels, Results, RowInv, HistoryInv,
         WorkerInv, Exists, Terminal, TerminalStatuses, WriteStarted, InPipeline,
         PastBarrier

(* IInv holds in every reachable state. *)
THEOREM Inductive == Spec => []IInv
<1>1. IInv /\ [Next]_vars => IInv'
  <2> SUFFICES ASSUME IInv, [Next]_vars PROVE IInv'
    OBVIOUS
  <2>1. TypeOK'
    BY TypeStep
  <2>2. \A c \in Commands : RowInv(c)' /\ HistoryInv(c)'
    BY <2>1, RowStep, HistoryStep
  <2>3. \A w \in Workers : WorkerInv(w)'
    BY <2>1, WorkerStep
  <2> QED
    BY <2>1, <2>2, <2>3 DEF IInv
<1> QED
  BY InitInv, <1>1, PTL DEF Spec

(* Every variable keeps its type. *)
THEOREM TypeCorrect == Spec => []TypeOK
<1>1. IInv => TypeOK
  BY DEF IInv
<1> QED
  BY Inductive, <1>1, PTL

(* One command causes at most one provider call, for any number of workers,
   crashes, reclaims and operators.                                          *)
THEOREM AtMostOnce == Spec => []AtMostOneWrite
<1>1. IInv => AtMostOneWrite
  BY DEF IInv, TypeOK, CommandRow, AttemptRow, AtMostOneWrite, HistoryInv, RowInv,
         Terminal, TerminalStatuses, WriteStarted
<1> QED
  BY Inductive, <1>1, PTL

(* A post that exists never belongs to a command that says failed or that can
   still be sent.                                                            *)
THEOREM EffectsAccounted == Spec => []EffectAccounted
<1>1. IInv => EffectAccounted
  BY DEF IInv, TypeOK, CommandRow, EffectAccounted, HistoryInv, RowInv, Terminal,
         TerminalStatuses
<1> QED
  BY Inductive, <1>1, PTL

(* A success the finalizer writes carries the id of the post that exists. *)
THEOREM SuccessesAuthentic == Spec => []SuccessIsAuthentic
<1>1. IInv => SuccessIsAuthentic
  BY DEF IInv, SuccessIsAuthentic, HistoryInv, RowInv
<1> QED
  BY Inductive, <1>1, PTL

(* Command and attempt end together and agree. *)
THEOREM RowsAgreeAlways == Spec => []RowsAgree
<1>1. ASSUME IInv, NEW c \in Commands
      PROVE  /\ cmd[c].status = "succeeded" <=> att[c].status = "success"
             /\ cmd[c].status = "failed"    <=> att[c].status = "failed"
             /\ Terminal(c) <=> att[c].finished_at
  <2>1. RowInv(c) /\ cmd[c] \in CommandRow
    BY <1>1 DEF IInv, TypeOK
  <2>2. CASE ~cmd[c].provider_write_started_at
    <3>1. att[c] = NoAttempt \/ att[c] = PreparedAttempt
      BY <2>1, <2>2 DEF RowInv
    <3>2. /\ att[c].status \in {"absent", "operator_review"}
          /\ ~att[c].finished_at
      <4>1. /\ NoAttempt.status = "absent" /\ ~NoAttempt.finished_at
            /\ PreparedAttempt.status = "operator_review"
            /\ ~PreparedAttempt.finished_at
        BY DEF NoAttempt, PreparedAttempt
      <4> QED
        BY <3>1, <4>1
    <3>3. ~Terminal(c)
      BY <2>1, <2>2 DEF RowInv
    <3> QED
      BY <3>2, <3>3 DEF Terminal, TerminalStatuses
  <2>3. CASE cmd[c].provider_write_started_at
    BY <2>1, <2>3 DEF RowInv, Terminal, TerminalStatuses, WriteStarted
  <2> QED
    BY <2>2, <2>3
<1>2. IInv => RowsAgree
  BY <1>1 DEF RowsAgree
<1> QED
  BY Inductive, <1>2, PTL

(* No row gets out of reach of workers, finalizer and operators. *)
THEOREM NeverStuckAlways == Spec => []NeverStuck
<1>1. ASSUME IInv PROVE NeverStuck
  BY <1>1, ConstantsAssumption
     DEF IInv, NeverStuck, RowInv, Finalizable, Terminal, TerminalStatuses
<1> QED
  BY Inductive, <1>1, PTL

(* At most one worker is in or past the barrier of a command. *)
THEOREM OneDriverAlways == Spec => []OneDriver
<1>1. ASSUME IInv, NEW v \in Workers, NEW w \in Workers, v # w, cur[v] = cur[w],
             {pc[v], pc[w]} \subseteq {"crossing", "crossed", "calling", "returned"}
      PROVE  FALSE
  BY <1>1 DEF IInv, WorkerInv, PastBarrier
<1>2. IInv => OneDriver
  BY <1>1 DEF OneDriver
<1> QED
  BY Inductive, <1>2, PTL

-----------------------------------------------------------------------------
(* What a step may never do *)

(* A terminal command and its attempt are never rewritten: whoever writes rows
   finds another status there, in a guard or in the invariant.               *)
LEMMA TerminalStep ==
  ASSUME IInv, [Next]_vars, NEW e \in Commands, Terminal(e)
  PROVE  cmd'[e] = cmd[e] /\ att'[e] = att[e]
<1>0. /\ TypeOK /\ RowInv(e) /\ cmd[e].status \in TerminalStatuses
      /\ \A w \in Workers : WorkerInv(w)
  BY DEF IInv, Terminal
<1>1. CASE UNCHANGED <<cmd, att>>
  BY <1>1
<1>2. ASSUME NEW c \in Commands, InsertCommand(c) PROVE cmd'[e] = cmd[e] /\ att'[e] = att[e]
  BY <1>0, <1>2 DEF TypeOK, InsertCommand, RowInv, Exists, TerminalStatuses
<1>3. ASSUME NEW c \in Commands, ExpireLease(c) PROVE cmd'[e] = cmd[e] /\ att'[e] = att[e]
  BY <1>0, <1>3 DEF TypeOK, ExpireLease, RowInv, Terminal
<1>4. ASSUME NEW c \in Commands, Resolve(c) PROVE cmd'[e] = cmd[e] /\ att'[e] = att[e]
  BY <1>0, <1>4
     DEF TypeOK, Resolve, MarkAmbiguous, AckExternalSuccess, Resolvable,
         TerminalStatuses
<1>5. ASSUME NEW w \in Workers, ClaimBatch(w) PROVE cmd'[e] = cmd[e] /\ att'[e] = att[e]
  BY <1>0, <1>5 DEF ClaimBatch, Oldest, Unlocked, Stale, TerminalStatuses
<1>6. ASSUME NEW w \in Workers, CommitPrepare(w) \/ CommitBarrier(w)
      PROVE  cmd'[e] = cmd[e] /\ att'[e] = att[e]
  <2>1. e # cur[w]
    BY <1>0, <1>6 DEF CommitPrepare, CommitBarrier, WorkerInv, TerminalStatuses
  <2> QED
    BY <1>0, <1>6, <2>1 DEF TypeOK, CommitPrepare, CommitBarrier
<1>7. ASSUME NEW w \in Workers, Finalize(w) PROVE cmd'[e] = cmd[e] /\ att'[e] = att[e]
  BY <1>0, <1>7 DEF TypeOK, Finalize, Finalizable, TerminalStatuses
<1> QED
  BY <1>1, <1>2, <1>3, <1>4, <1>5, <1>6, <1>7
     DEF Next, Create, Orchestrate, Process, Environment, FindCommand,
         BeginPrepare, PrepareRefused, StopBeforeBarrier, EnterDrainTerritory,
         BeginBarrier, BarrierRefused, CallProvider, ProviderReturns,
         FinalizeFails, StartWorker, RequestStop, GracefulExit, Crash, Leave,
         OtherPathSucceeds, FlipGate, vars, rows

(* First terminal writer wins, for any number of workers and operators. *)
THEOREM TerminalForGood == Spec => TerminalIsFinal
<1>1. IInv /\ [Next]_vars =>
        [\A c \in Commands : Terminal(c) => cmd'[c] = cmd[c] /\ att'[c] = att[c]]_vars
  BY TerminalStep
<1> QED
  BY Inductive, <1>1, PTL DEF Spec, TerminalIsFinal

(* Only the worker in the barrier transaction, which owns the row, crosses the
   barrier, and the row keeps that owner.                                    *)
LEMMA FencedStep ==
  ASSUME IInv, [Next]_vars, NEW e \in Commands
  PROVE  /\ cmd'[e].provider_write_started_at /\ ~cmd[e].provider_write_started_at =>
              \E w \in Workers : /\ pc[w] = "crossing" /\ pc'[w] = "crossed"
                                 /\ cur[w] = e /\ cmd'[e].lease_owner = w
         /\ cmd[e].provider_write_started_at =>
              /\ cmd'[e].provider_write_started_at
              /\ cmd'[e].lease_owner = cmd[e].lease_owner
<1> DEFINE Kept == /\ cmd'[e].provider_write_started_at <=> cmd[e].provider_write_started_at
                   /\ cmd[e].provider_write_started_at =>
                        cmd'[e].lease_owner = cmd[e].lease_owner
<1>0. /\ TypeOK /\ RowInv(e) /\ cmd[e] \in CommandRow
      /\ \A w \in Workers : WorkerInv(w)
  BY DEF IInv, TypeOK
<1>1. CASE UNCHANGED cmd
  BY <1>1
<1>2. ASSUME NEW c \in Commands, InsertCommand(c) PROVE Kept
  <2>1. CASE cmd'[e] = cmd[e]
    BY <2>1
  <2>2. CASE cmd'[e] # cmd[e]
    <3>1. e = c /\ ~Exists(c) /\ ~cmd'[e].provider_write_started_at
      BY <1>0, <1>2, <2>2 DEF TypeOK, InsertCommand, NoCommand, RowInv
    <3>2. ~cmd[e].provider_write_started_at
      BY <1>0, <3>1 DEF RowInv, Exists, Terminal, TerminalStatuses
    <3> QED
      BY <1>0, <3>1, <3>2 DEF TypeOK, CommandRow
  <2> QED
    BY <2>1, <2>2
<1>3. ASSUME NEW c \in Commands, ExpireLease(c) PROVE Kept
  BY <1>0, <1>3 DEF TypeOK, CommandRow, ExpireLease
<1>4. ASSUME NEW c \in Commands, Resolve(c) PROVE Kept
  <2>1. cmd'[e] = cmd[e] \/ \E s : cmd'[e] = FinishedCommand(cmd[e], s, "operator")
    BY <1>0, <1>4 DEF TypeOK, Resolve, MarkAmbiguous, AckExternalSuccess
  <2> QED
    BY <1>0, <2>1 DEF CommandRow, FinishedCommand
<1>5. ASSUME NEW w \in Workers, ClaimBatch(w) PROVE Kept
  <2>1. \/ cmd'[e] = cmd[e]
        \/ /\ cmd[e].status = "pending" \/ Stale(e)
           /\ cmd'[e] = ApplyOwnership(cmd[e], w)
    BY <1>5 DEF ClaimBatch, Oldest, Unlocked
  <2> QED
    BY <1>0, <2>1
       DEF CommandRow, ApplyOwnership, Stale, RowInv, Terminal, TerminalStatuses
<1>6. ASSUME NEW w \in Workers, CommitPrepare(w) PROVE Kept
  BY <1>0, <1>6 DEF TypeOK, CommandRow, CommitPrepare
<1>7. ASSUME NEW w \in Workers, CommitBarrier(w), e # cur[w] PROVE Kept
  BY <1>0, <1>7 DEF TypeOK, CommitBarrier
<1>8. ASSUME NEW w \in Workers, CommitBarrier(w), e = cur[w]
      PROVE  /\ ~cmd[e].provider_write_started_at
             /\ pc[w] = "crossing" /\ pc'[w] = "crossed"
             /\ cmd'[e].lease_owner = w
  <2>1. cmd[e].status = "claimed" /\ cmd[e].lease_owner = w
    BY <1>0, <1>8 DEF CommitBarrier, WorkerInv
  <2> QED
    BY <1>0, <1>8, <2>1
       DEF TypeOK, CommandRow, CommitBarrier, Goto, RowInv, Terminal,
           TerminalStatuses
<1>9. ASSUME NEW w \in Workers, Finalize(w) PROVE Kept
  <2>1. cmd'[e] = cmd[e] \/ \E s : cmd'[e] = FinishedCommand(cmd[e], s, "provider")
    BY <1>0, <1>9 DEF TypeOK, Finalize
  <2> QED
    BY <1>0, <2>1 DEF CommandRow, FinishedCommand
<1> QED
  BY <1>1, <1>2, <1>3, <1>4, <1>5, <1>6, <1>7, <1>8, <1>9
     DEF Next, Create, Orchestrate, Process, Environment, FindCommand,
         BeginPrepare, PrepareRefused, StopBeforeBarrier, EnterDrainTerritory,
         BeginBarrier, BarrierRefused, CallProvider, ProviderReturns,
         FinalizeFails, StartWorker, RequestStop, GracefulExit, Crash, Leave,
         OtherPathSucceeds, FlipGate, vars, rows

(* Every crossing of a barrier is fenced by the lease. *)
THEOREM BarrierFenced == Spec => BarrierIsFenced
<1>1. IInv /\ [Next]_vars =>
        [\A c \in Commands :
           /\ cmd'[c].provider_write_started_at /\ ~cmd[c].provider_write_started_at =>
                \E w \in Workers : /\ pc[w] = "crossing" /\ pc'[w] = "crossed"
                                   /\ cur[w] = c /\ cmd'[c].lease_owner = w
           /\ cmd[c].provider_write_started_at =>
                /\ cmd'[c].provider_write_started_at
                /\ cmd'[c].lease_owner = cmd[c].lease_owner]_vars
  BY FencedStep
<1> QED
  BY Inductive, <1>1, PTL DEF Spec, BarrierIsFenced

-----------------------------------------------------------------------------
(* RetryCommand implements RetryPromise *)

(* A command whose row a step leaves alone keeps its abstract stage. *)
LEMMA StageUnchanged ==
  ASSUME \A c \in Commands : StageOf(cmd'[c].status) = StageOf(cmd[c].status)
  PROVE  Stage' = Stage
  BY DEF Stage

(* A step that changes the status of one row changes one abstract stage. *)
LEMMA StageChanges ==
  ASSUME NEW c \in Commands, NEW row, cmd \in [Commands -> CommandRow],
         cmd' = [cmd EXCEPT ![c] = row]
  PROVE  /\ Stage[c] = StageOf(cmd[c].status)
         /\ Stage' = [Stage EXCEPT ![c] = StageOf(row.status)]
  BY DEF Stage

(* A command that reaches a terminal status settles its promise. *)
LEMMA SettleStep ==
  ASSUME NEW c \in Commands, NEW s \in TerminalStatuses, NEW k,
         TypeOK, cmd[c].status = "provider_write_started",
         s = "failed" => writes[c] = 1 /\ effect[c] = None,
         cmd' = [cmd EXCEPT ![c] = FinishedCommand(@, s, k)],
         UNCHANGED history
  PROVE  Promise!Settle(c)
<1> DEFINE row == FinishedCommand(cmd[c], s, k)
<1>1. row.status = s
  BY DEF TypeOK, CommandRow, FinishedCommand
<1>2. cmd' = [cmd EXCEPT ![c] = row] /\ cmd \in [Commands -> CommandRow]
  BY DEF TypeOK
<1> HIDE DEF row
<1>3. StageOf(s) = s /\ StageOf("provider_write_started") = "writing"
  BY DEF StageOf, TerminalStatuses
<1>4. /\ Stage[c] = "writing"
      /\ Stage' = [Stage EXCEPT ![c] = s]
  <2>1. /\ Stage[c] = StageOf(cmd[c].status)
        /\ Stage' = [Stage EXCEPT ![c] = StageOf(row.status)]
    BY <1>2, StageChanges
  <2> QED
    BY <1>1, <1>3, <2>1
<1> QED
  BY <1>4 DEF Promise!Settle, Promise!Settled, TerminalStatuses, history

(* Every step is a step of the promise or leaves what it speaks of alone. *)
LEMMA PromiseStep ==
  ASSUME IInv, [Next]_vars
  PROVE  [Promise!Next]_(Promise!vars)
<1> DEFINE Goal == [Promise!Next]_(Promise!vars)
<1>0. /\ TypeOK
      /\ \A c \in Commands : RowInv(c) /\ HistoryInv(c)
      /\ \A w \in Workers : WorkerInv(w)
  BY DEF IInv
<1>1. CASE UNCHANGED <<cmd, history>>
  BY <1>1, StageUnchanged DEF Promise!vars, history
<1>2. ASSUME NEW c \in Commands, InsertCommand(c) PROVE Goal
  <2>1. CASE UNCHANGED cmd
    BY <1>1, <1>2, <2>1 DEF InsertCommand
  <2>2. CASE ~UNCHANGED cmd
    <3> DEFINE row == [NoCommand EXCEPT
                         !.status = "pending",
                         !.created_at = 1 + Cardinality({d \in Commands : Exists(d)})]
    <3>0. row.status = "pending" /\ cmd' = [cmd EXCEPT ![c] = row]
      BY <1>2, <2>2 DEF InsertCommand, NoCommand
    <3> HIDE DEF row
    <3>2. cmd[c].status = "absent"
      BY <1>0, <1>2 DEF InsertCommand, RowInv, Exists
    <3>3. Promise!Request(c)
      BY <1>0, <1>2, <3>0, <3>2, StageChanges
         DEF TypeOK, InsertCommand, StageOf, Promise!Request, history
    <3> QED
      BY <3>3 DEF Promise!Next
  <2> QED
    BY <2>1, <2>2
<1>3. ASSUME NEW c \in Commands, ExpireLease(c) PROVE Goal
  <2>1. \A d \in Commands : cmd'[d].status = cmd[d].status
    BY <1>0, <1>3 DEF TypeOK, CommandRow, ExpireLease
  <2> QED
    BY <1>3, <2>1, StageUnchanged DEF ExpireLease, Promise!vars, history
<1>4. ASSUME NEW c \in Commands, MarkAmbiguous(c) PROVE Goal
  <2>1. Promise!Settle(c)
    BY <1>0, <1>4, SettleStep DEF MarkAmbiguous, Resolvable, TerminalStatuses
  <2> QED
    BY <2>1 DEF Promise!Next
<1>5. ASSUME NEW c \in Commands, NEW p \in PostIds, AckExternalSuccess(c, p)
      PROVE  Goal
  <2>1. Promise!Settle(c)
    BY <1>0, <1>5, SettleStep DEF AckExternalSuccess, Resolvable, TerminalStatuses
  <2> QED
    BY <2>1 DEF Promise!Next
<1>6. ASSUME NEW w \in Workers, ClaimBatch(w) PROVE Goal
  <2>1. ASSUME NEW c \in Commands
        PROVE  StageOf(cmd'[c].status) = StageOf(cmd[c].status)
    <3>1. \/ cmd'[c] = cmd[c]
          \/ /\ cmd[c].status \in {"pending", "claimed"}
             /\ cmd'[c] = ApplyOwnership(cmd[c], w)
      BY <1>6 DEF ClaimBatch, Oldest, Unlocked, Stale
    <3>2. ApplyOwnership(cmd[c], w).status = "claimed"
      BY <1>0 DEF TypeOK, CommandRow, ApplyOwnership
    <3> QED
      BY <3>1, <3>2 DEF StageOf
  <2> QED
    BY <1>6, <2>1, StageUnchanged DEF ClaimBatch, Promise!vars, history
<1>7. ASSUME NEW w \in Workers, CommitPrepare(w) PROVE Goal
  <2>1. \A d \in Commands : cmd'[d].status = cmd[d].status
    BY <1>0, <1>7 DEF TypeOK, CommandRow, CommitPrepare
  <2> QED
    BY <1>7, <2>1, StageUnchanged DEF CommitPrepare, Promise!vars, history
<1>8. ASSUME NEW w \in Workers, CommitBarrier(w) PROVE Goal
  <2> DEFINE row == [cmd[cur[w]] EXCEPT !.status = "provider_write_started",
                                        !.provider_write_started_at = TRUE,
                                        !.lease_expires_at = "null"]
  <2>1. cur[w] \in Commands /\ cmd[cur[w]].status = "claimed"
    BY <1>0, <1>8 DEF CommitBarrier, WorkerInv, InPipeline
  <2>2. row.status = "provider_write_started"
    BY <1>0, <2>1 DEF TypeOK, CommandRow
  <2>3. cmd' = [cmd EXCEPT ![cur[w]] = row] /\ UNCHANGED history
    BY <1>0, <1>8, <2>1 DEF TypeOK, CommitBarrier
  <2> HIDE DEF row
  <2>4. Promise!Announce(cur[w])
    BY <1>0, <2>1, <2>2, <2>3, StageChanges
       DEF TypeOK, StageOf, Promise!Announce, history
  <2> QED
    BY <2>1, <2>4 DEF Promise!Next
<1>9. ASSUME NEW w \in Workers, CallProvider(w) PROVE Goal
  <2>1. /\ cur[w] \in Commands /\ writes[cur[w]] = 0
        /\ cmd[cur[w]].provider_write_started_at
    BY <1>0, <1>9 DEF CallProvider, WorkerInv, InPipeline, PastBarrier
  <2>2. Stage[cur[w]] \notin {"none", "open", "failed"}
    BY <1>0, <2>1
       DEF Stage, StageOf, RowInv, HistoryInv, Terminal, TerminalStatuses
  <2>3. Stage' = Stage
    BY <1>9 DEF CallProvider, rows, Stage
  <2>4. /\ writes' = [writes EXCEPT ![cur[w]] = 1]
        /\ \E p \in PostIds \cup {None} : effect' = [effect EXCEPT ![cur[w]] = p]
    <3>1. writes' = [writes EXCEPT ![cur[w]] = writes[cur[w]] + 1]
      BY <1>9 DEF CallProvider
    <3>2. \E p \in PostIds \cup {None} : effect' = [effect EXCEPT ![cur[w]] = p]
      BY <1>9 DEF CallProvider
    <3>3. writes' = [writes EXCEPT ![cur[w]] = 1]
      BY <2>1, <3>1
    <3> QED
      BY <3>2, <3>3, Zenon
  <2>5. Promise!Send(cur[w])
    BY <2>1, <2>2, <2>3, <2>4 DEF Promise!Send
  <2> QED
    BY <2>1, <2>5 DEF Promise!Next
<1>10. ASSUME NEW w \in Workers, Finalize(w) PROVE Goal
  <2>1. CASE ~Finalizable(cur[w])
    BY <1>1, <1>10, <2>1 DEF Finalize
  <2>2. CASE Finalizable(cur[w])
    <3>1. /\ cur[w] \in Commands
          /\ cmd[cur[w]].status = "provider_write_started"
          /\ TerminalStatusOf(result[w].outcome) \in TerminalStatuses
          /\ TerminalStatusOf(result[w].outcome) = "failed" =>
               writes[cur[w]] = 1 /\ effect[cur[w]] = None
      BY <1>0, <1>10, <2>2
         DEF Finalize, Finalizable, WorkerInv, InPipeline, TerminalStatusOf,
             TerminalStatuses
    <3>2. /\ cmd' = [cmd EXCEPT ![cur[w]] = FinishedCommand(
                       @, TerminalStatusOf(result[w].outcome), "provider")]
          /\ UNCHANGED history
      BY <1>10, <2>2 DEF Finalize
    <3>3. Promise!Settle(cur[w])
      BY <1>0, <3>1, <3>2, SettleStep
    <3> QED
      BY <3>1, <3>3 DEF Promise!Next
  <2> QED
    BY <2>1, <2>2
<1> QED
  BY <1>1, <1>2, <1>3, <1>4, <1>5, <1>6, <1>7, <1>8, <1>9, <1>10
     DEF Next, Create, Resolve, Orchestrate, Process, Environment, FindCommand,
         BeginPrepare, PrepareRefused, StopBeforeBarrier, EnterDrainTerritory,
         BeginBarrier, BarrierRefused, ProviderReturns, FinalizeFails,
         StartWorker, RequestStop, GracefulExit, Crash, Leave,
         OtherPathSucceeds, FlipGate, vars, rows

(* For any number of workers and commands the pipeline only does what the
   promise of RetryPromise allows.                                           *)
THEOREM Implements == Spec => ImplementsPromise
<1>1. Init => Promise!Init
  BY DEF Init, NoCommand, Stage, StageOf, Promise!Init
<1>2. IInv /\ [Next]_vars => [Promise!Next]_(Promise!vars)
  BY PromiseStep
<1> QED
  BY Inductive, <1>1, <1>2, PTL DEF Spec, ImplementsPromise, Promise!Spec
=============================================================================
