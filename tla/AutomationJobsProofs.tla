------------------------- MODULE AutomationJobsProofs -------------------------
(* Proofs about AutomationJobs for any number of retries, generations,
   workers, operators and recoveries.                                       *)
EXTENDS AutomationJobs, FiniteSetTheorems, TLAPS

-----------------------------------------------------------------------------
(* Shapes *)

LEMMA JobShape ==
  ASSUME AutomationAssumption
  PROVE  /\ \A j \in Jobs : Attempt(j) \in Numbers /\ j[2] \in 0 .. Generations
         /\ \A n \in Numbers, g \in 0 .. Generations :
              <<n, g>> \in Jobs /\ Attempt(<<n, g>>) = n
         /\ \A n \in Nat \ {0} : <<n, 0>> \in Jobs <=> n <= Limit
         /\ None \notin Jobs
         /\ 1 \in Numbers /\ 0 \in 0 .. Generations
BY DEF AutomationAssumption, Jobs, Numbers, Attempt

Statuses == {"absent", "scheduled", "leased", "running"} \cup Ended

LEMMA RowShape ==
  ASSUME AutomationAssumption
  PROVE  /\ NoRow \in Row
         /\ \A r \in Row, status \in Statuses :
              /\ Released(r, status) \in Row
              /\ Released(r, status).status = status
              /\ [r EXCEPT !.status = status] \in Row
              /\ [r EXCEPT !.status = status].status = status
         /\ \A r \in Row : Recovered(r) \in Row /\ Recovered(r).status \in {"scheduled", "dead_letter"}
<1>1. NoRow \in Row
  BY DEF NoRow, Row
<1>2. ASSUME NEW r \in Row, NEW status \in Statuses
      PROVE  /\ Released(r, status) \in Row
             /\ Released(r, status).status = status
             /\ [r EXCEPT !.status = status] \in Row
             /\ [r EXCEPT !.status = status].status = status
  BY DEF Released, Row, Statuses
<1>3. ASSUME NEW r \in Row
      PROVE  Recovered(r) \in Row /\ Recovered(r).status \in {"scheduled", "dead_letter"}
  <2> DEFINE status == IF r.recoveries + 1 > MaxRecoveries THEN "dead_letter" ELSE "scheduled"
  <2>1. status \in {"scheduled", "dead_letter"} /\ status \in Statuses
    BY DEF Ended, Statuses
  <2>2. Released(r, status) \in Row /\ Released(r, status).status = status
    BY <1>2, <2>1
  <2>3. Recovered(r) = [Released(r, status) EXCEPT !.recoveries = r.recoveries + 1]
    BY DEF Recovered
  <2> HIDE DEF status
  <2> QED
    BY <2>1, <2>2, <2>3 DEF Row
<1> QED
  BY <1>1, <1>2, <1>3

(* What a poll makes of a row: leased to the worker, recovered, or as it was. *)
LEMMA ClaimShape ==
  ASSUME AutomationAssumption, TypeOK, NEW w \in Workers, NEW js \in SUBSET Jobs,
         ClaimBatch(w, js), NEW j \in Jobs
  PROVE  /\ row'[j] \in Row
         /\ row'[j] = row[j] \/ row'[j].status \in {"leased", "scheduled", "dead_letter"}
         /\ row[j].status = "absent" => row'[j].status = "absent"
         /\ row[j].status # "absent" => row'[j].status # "absent"
<1>1. row[j] \in Row
  BY DEF TypeOK
<1>2. Swept[j] = IF Lapsed(j) THEN Recovered(row[j]) ELSE row[j]
  BY DEF Swept
<1>3. Swept[j] \in Row /\ (Swept[j] = row[j] \/ Swept[j].status \in {"scheduled", "dead_letter"})
  BY <1>1, <1>2, RowShape
<1>4. row[j].status = "absent" => Swept[j] = row[j]
  BY <1>2 DEF Lapsed
<1>5. row'[j] = IF j \in js
                THEN [Swept[j] EXCEPT !.status = "leased", !.owner = w, !.expired = FALSE]
                ELSE Swept[j]
  BY DEF ClaimBatch
<1>6. j \in js => Swept[j].status = "scheduled"
  BY DEF ClaimBatch
<1>7. [Swept[j] EXCEPT !.status = "leased", !.owner = w, !.expired = FALSE] \in Row
  BY <1>3 DEF Row
<1>8. [Swept[j] EXCEPT !.status = "leased", !.owner = w, !.expired = FALSE].status = "leased"
  BY <1>3 DEF Row
<1> QED
  BY <1>3, <1>4, <1>5, <1>6, <1>7, <1>8

(* The number of the next retry, when the retries are numbered without a gap. *)
Gapless(e) ==
  \E k \in 0 .. Limit : \A n \in Numbers : e[n] # "none" <=> n <= k

LEMMA NextShape ==
  ASSUME AutomationAssumption, NEW e, Gapless(e)
  PROVE  /\ NextNumber(e) \in 1 .. (Limit + 1)
         /\ NextNumber(e) \in Nat \ {0}
         /\ \A n \in Numbers : e[n] # "none" <=> n < NextNumber(e)
<1>1. PICK k \in 0 .. Limit : \A n \in Numbers : e[n] # "none" <=> n <= k
  BY DEF Gapless
<1>2. {n \in Numbers : e[n] # "none"} = 1 .. k
  BY <1>1 DEF Numbers, AutomationAssumption
<1>3. Cardinality(1 .. k) = IF 1 > k THEN 0 ELSE k - 1 + 1
  BY FS_Interval DEF AutomationAssumption
<1>4. Cardinality(1 .. k) = k
  BY <1>3
<1>5. NextNumber(e) = k + 1
  BY <1>2, <1>4 DEF NextNumber
<1> QED
  BY <1>1, <1>5 DEF Numbers, AutomationAssumption

(* A retry that is the next, or is running already, leaves no gap. *)
LEMMA NextRecorded ==
  ASSUME AutomationAssumption, NEW e \in [Numbers -> {"none", "running"} \cup Results],
         Gapless(e), NEW n \in Numbers, NEW r \in {"running"} \cup Results,
         e[n] = "none" => \A m \in Numbers : m < n => e[m] # "none"
  PROVE  LET new == [e EXCEPT ![n] = r] IN
         /\ Gapless(new)
         /\ n + 1 <= NextNumber(new)
         /\ NextNumber(e) <= NextNumber(new)
<1> DEFINE new == [e EXCEPT ![n] = r]
<1>1. new[n] # "none" /\ \A m \in Numbers \ {n} : new[m] = e[m]
  BY DEF Results
<1> HIDE DEF new
<1>2. PICK k \in 0 .. Limit : \A m \in Numbers : e[m] # "none" <=> m <= k
  BY DEF Gapless
<1>3. ASSUME e[n] # "none"
      PROVE  Gapless(new)
  <2>1. \A m \in Numbers : new[m] # "none" <=> m <= k
    BY <1>1, <1>2, <1>3
  <2> QED
    BY <1>2, <2>1 DEF Gapless
<1>4. ASSUME e[n] = "none"
      PROVE  Gapless(new)
  <2>1. n = k + 1 /\ n \in 0 .. Limit
    <3>1. n > k /\ n \in 0 .. Limit
      BY <1>2, <1>4 DEF Numbers, AutomationAssumption
    <3>2. CASE k + 1 < n
      <4>1. k + 1 \in Numbers
        BY <3>1, <3>2 DEF Numbers, AutomationAssumption
      <4>2. e[k + 1] # "none"
        BY <1>4, <3>2, <4>1
      <4> QED
        BY <1>2, <4>1, <4>2 DEF AutomationAssumption
    <3> QED
      BY <3>1, <3>2 DEF AutomationAssumption
  <2>2. \A m \in Numbers : new[m] # "none" <=> m <= n
    BY <1>1, <1>2, <2>1 DEF Numbers, AutomationAssumption
  <2> QED
    BY <2>1, <2>2 DEF Gapless
<1>5. Gapless(new)
  BY <1>3, <1>4
<1>6. /\ NextNumber(new) \in Nat /\ \A m \in Numbers : new[m] # "none" <=> m < NextNumber(new)
      /\ NextNumber(e) \in 1 .. (Limit + 1)
      /\ \A m \in Numbers : e[m] # "none" <=> m < NextNumber(e)
  BY <1>5, NextShape
<1>7. n < NextNumber(new)
  BY <1>1, <1>6
<1>8. NextNumber(e) <= NextNumber(new)
  <2> SUFFICES ASSUME NextNumber(new) < NextNumber(e)
               PROVE  FALSE
    BY <1>6 DEF AutomationAssumption
  <2> DEFINE m == NextNumber(new)
  <2>1. m \in Numbers
    BY <1>6, <1>7 DEF Numbers, AutomationAssumption
  <2>2. e[m] # "none" /\ new[m] = "none"
    BY <1>6, <2>1 DEF Numbers, AutomationAssumption
  <2> HIDE DEF m
  <2> QED
    BY <1>1, <2>1, <2>2
<1>9. n + 1 <= NextNumber(new)
  BY <1>6, <1>7 DEF Numbers, AutomationAssumption
<1> QED
  BY <1>5, <1>8, <1>9 DEF new

(* What a follow-up makes of the rows. *)
LEMMA FollowUpShape ==
  ASSUME AutomationAssumption, NEW rows \in [Jobs -> Row], NEW m \in Nat \ {0}, NEW f
  PROVE  /\ FollowedUp(rows, m, f) \in [Jobs -> Row]
         /\ \A j \in Jobs :
              \/ FollowedUp(rows, m, f)[j] = rows[j]
              \/ /\ f = "failed" /\ j = <<m, 0>>
                 /\ rows[j].status = "absent"
                 /\ FollowedUp(rows, m, f)[j].status = "scheduled"
         /\ \A j \in Jobs : FollowedUp(rows, m, f)[j].status # "absent" <=>
              rows[j].status # "absent" \/ (f = "failed" /\ j = <<m, 0>>)
<1> DEFINE k == <<m, 0>>
           new == [rows EXCEPT ![k].status = "scheduled"]
<1>1. CASE f = "failed" /\ m <= Limit /\ rows[k].status = "absent"
  <2>1. k \in Jobs
    BY <1>1, JobShape
  <2>2. FollowedUp(rows, m, f) = new
    BY <1>1 DEF FollowedUp
  <2>3. new = [rows EXCEPT ![k] = [rows[k] EXCEPT !.status = "scheduled"]]
    OBVIOUS
  <2>4. [rows[k] EXCEPT !.status = "scheduled"] \in Row
        /\ [rows[k] EXCEPT !.status = "scheduled"].status = "scheduled"
    BY <2>1 DEF Row
  <2> HIDE DEF new, k
  <2>5. new \in [Jobs -> Row] /\ new[k].status = "scheduled"
        /\ \A j \in Jobs : j # k => new[j] = rows[j]
    BY <2>1, <2>3, <2>4
  <2> QED
    BY <1>1, <2>2, <2>5 DEF k
<1>2. CASE ~(f = "failed" /\ m <= Limit /\ rows[k].status = "absent")
  <2>1. FollowedUp(rows, m, f) = rows
    BY <1>2 DEF FollowedUp
  <2>2. k \in Jobs => m <= Limit
    BY JobShape
  <2> HIDE DEF k
  <2>3. \A j \in Jobs : f = "failed" /\ j = k => rows[j].status # "absent"
    BY <1>2, <2>2
  <2> QED
    BY <2>1, <2>3 DEF k
<1> QED
  BY <1>1, <1>2

LEMMA WorkShape ==
  ASSUME AutomationAssumption
  PROVE  /\ Idle \in Work /\ Idle.at = "idle" /\ Idle.job = None
         /\ \A j \in Jobs, n \in Nat, at \in {"checked", "flushed", "evaluated", "numbered", "started"} :
              [at |-> at, job |-> j, next |-> n] \in Work /\ j # None
BY JobShape DEF Idle, Work

(* What is in hand while a job is worked at. *)
LEMMA JobInHand ==
  ASSUME AutomationAssumption, TypeOK, NEW w \in Workers, work[w].at # "idle"
  PROVE  /\ work[w].job \in Jobs
         /\ row[work[w].job] \in Row
         /\ work[w].next \in Nat
         /\ work[w] # Idle
BY DEF TypeOK, Work, Idle

LEMMA CommitShape ==
  ASSUME AutomationAssumption, TypeOK, NEW w \in Workers, work[w].at # "idle",
         NEW status \in {"scheduled"} \cup Ended, Commit(w, status)
  PROVE  /\ row' \in [Jobs -> Row]
         /\ lock' \in [Jobs -> Workers \cup {None}]
         /\ row'[work[w].job].status = status
         /\ lock'[work[w].job] = None
         /\ \A j \in Jobs \ {work[w].job} : row'[j] = row[j] /\ lock'[j] = lock[j]
<1> DEFINE j == work[w].job
<1>1. j \in Jobs /\ row[j] \in Row
  BY JobInHand
<1>2. Released(row[j], status) \in Row /\ Released(row[j], status).status = status
  BY <1>1, RowShape DEF Statuses
<1>3. row' = [row EXCEPT ![j] = Released(row[j], status)] /\ lock' = [lock EXCEPT ![j] = None]
  BY DEF Commit
<1> HIDE DEF j
<1>4. row' \in [Jobs -> Row] /\ row'[j].status = status
      /\ \A i \in Jobs \ {j} : row'[i] = row[i]
  BY <1>1, <1>2, <1>3 DEF TypeOK
<1>5. lock' \in [Jobs -> Workers \cup {None}] /\ lock'[j] = None
      /\ \A i \in Jobs \ {j} : lock'[i] = lock[i]
  BY <1>1, <1>3 DEF TypeOK
<1> QED
  BY <1>4, <1>5 DEF j

LEMMA StatusShape ==
  ASSUME NEW result \in {"running"} \cup Results
  PROVE  /\ StatusAfter(result) \in Ended
         /\ StatusAfter(result) = "succeeded" <=> result = "success"
         /\ StatusAfter(result) = "failed" <=> result = "failed"
         /\ StatusAfter(result) = "unfinished" <=> result = "running"
BY DEF Results, StatusAfter, Ended, Failed

-----------------------------------------------------------------------------
(* The inductive invariant *)

Counted == Gapless(exec)

(* A worker that has a number has one of the numbers. *)
Numbered ==
  \A w \in Workers : work[w].at \in {"numbered", "started"} => work[w].next \in Numbers

(* A job stands for a number all of whose predecessors have been run. *)
Reached ==
  \A j \in Jobs : row[j].status # "absent" =>
    \A m \in Numbers : m < Attempt(j) => exec[m] # "none"

(* What is about to be cancelled exists. *)
Asks == \A o \in Operators : request[o] # None => row[request[o]].status # "absent"

(* What a worker relies on.  From its flush to its commit it holds the row
   lock of its job; it decides to run a job only if no run of it was committed,
   and the lock keeps it that way; and a number that was counted has no gap
   below it and is not below the job's.                                      *)
Relies(w) ==
  work[w].at # "idle" =>
    /\ row[work[w].job].status # "absent"
    /\ work[w].at \in {"flushed", "evaluated", "numbered"} => lock[work[w].job] = w
    /\ work[w].at \in {"evaluated", "numbered"} => ran[work[w].job] = 0
    /\ work[w].at \in {"numbered", "started"} =>
         /\ Attempt(work[w].job) <= work[w].next
         /\ \A m \in Numbers : m < work[w].next => exec[m] # "none"

(* An execution that was started is still running, and one worker or one
   request alone will finish it.                                             *)
Started ==
  /\ \A w \in Workers : work[w].at = "started" =>
       /\ exec[work[w].next] = "running"
       /\ work[w].next \notin manual
       /\ \A v \in Workers \ {w} : work[v].at = "started" => work[v].next # work[w].next
  /\ \A n \in manual : exec[n] = "running"

(* Only create_crm_lead commits in the middle. *)
LeadsRun == \A n \in Numbers : exec[n] = "running" => flow.action = "create_crm_lead"

(* A job that has run finds the retry of its own number. *)
RanIsFound == \A j \in Jobs : ran[j] > 0 => exec[Attempt(j)] # "none"

Followed ==
  \A n \in Numbers : exec[n] = "failed" /\ n \notin dropped =>
    \E m \in (n + 1) .. NextNumber(exec) : m <= Limit => row[<<m, 0>>].status # "absent"

Inv ==
  /\ TypeOK /\ Numbered
  /\ Counted
  /\ Reached
  /\ Asks
  /\ \A w \in Workers : Relies(w)
  /\ Started /\ LeadsRun
  /\ RanIsFound
  /\ OneExecutionPerJob
  /\ EndedIsExecuted
  /\ Followed

-----------------------------------------------------------------------------
(* The kinds of steps *)

(* The worker goes on to the next point of its job. *)
Moves(w, j, at, n) ==
  /\ Goto(w, j, at, n)
  /\ \/ at = "checked" /\ work[w] = Idle /\ row[j].status # "absent" /\ lock' = lock
     \/ /\ at = "flushed" /\ work[w].at = "checked" /\ j = work[w].job
        /\ lock[j] = None /\ lock' = [lock EXCEPT ![j] = w]
     \/ /\ at = "evaluated" /\ work[w].at = "flushed" /\ j = work[w].job
        /\ exec[Attempt(j)] = "none" /\ lock' = lock
     \/ /\ at = "numbered" /\ work[w].at = "evaluated" /\ j = work[w].job
        /\ n = NextNumber(exec) /\ n <= Limit /\ lock' = lock
  /\ batch' \in [Workers -> SUBSET Jobs]
  /\ UNCHANGED <<flow, exec, row, request, manual, ran, dropped, bounds>>

(* What a job is called is so. *)
Truly(j, status) ==
  /\ status = "succeeded" => \E n \in Numbers : n >= Attempt(j) /\ exec[n] = "success"
  /\ status = "failed" => \E n \in Numbers : n >= Attempt(j) /\ exec[n] = "failed"
  /\ status = "unfinished" =>
       /\ flow.action = "create_crm_lead"
       /\ \E n \in Numbers : n >= Attempt(j) /\ exec[n] # "none"

(* The worker ends its job, or puts it back, and executes nothing. *)
LetsGo(w, status) ==
  /\ work[w].at \in {"flushed", "evaluated", "numbered"}
  /\ Truly(work[w].job, status)
  /\ Commit(w, status)
  /\ troubles' \in Nat
  /\ UNCHANGED <<flow, exec, batch, request, manual, ran, dropped, requests>>

(* The follow-up f of the retry n, which has become r. *)
Follows(n, r, f) ==
  \/ f = r /\ dropped' = dropped
  \/ r = "failed" /\ f = "lost" /\ dropped' = dropped \cup {n}

(* The worker writes its execution and its job. *)
Writes(w, r, status, m, f) ==
  LET j == work[w].job
      n == work[w].next
  IN
  /\ \/ /\ work[w].at = "numbered" /\ exec[n] = "none" /\ m = n + 1
        /\ ran' = [ran EXCEPT ![j] = @ + 1]
     \/ /\ work[w].at = "started" /\ r # "running" /\ m \in (n + 1) .. NextNumber(exec)
        /\ lock[j] = None /\ ran' = ran
  /\ \/ /\ r = "running" /\ status = "running" /\ flow.action = "create_crm_lead"
        /\ Goto(w, j, "started", n)
     \/ /\ r # "running" /\ status \in {StatusAfter(r), "scheduler_error"}
        /\ work' = [work EXCEPT ![w] = Idle]
  /\ exec' = [exec EXCEPT ![n] = r]
  /\ Follows(n, r, f)
  /\ \E x \in Row : x.status = status /\ row' = FollowedUp([row EXCEPT ![j] = x], m, f)
  /\ lock' = [lock EXCEPT ![j] = None]
  /\ troubles' \in Nat
  /\ UNCHANGED <<flow, batch, request, manual, requests>>

(* The API writes an execution. *)
Retries(n, r, m) ==
  /\ \/ n = NextNumber(exec) /\ n <= Limit /\ m = n + 1
     \/ n \in manual /\ r # "running" /\ m \in (n + 1) .. NextNumber(exec)
  /\ r = "running" => flow.action = "create_crm_lead"
  /\ exec' = [exec EXCEPT ![n] = r]
  /\ row' = FollowedUp(row, m, r)
  /\ manual' = IF r = "running" THEN manual \cup {n} ELSE manual \ {n}
  /\ requests' \in Nat
  /\ UNCHANGED <<flow, lock, batch, work, request, ran, dropped, troubles>>

Kinds ==
  \/ \E w \in Workers, j \in Jobs, n \in Nat, at \in {"checked", "flushed", "evaluated", "numbered"} :
       Moves(w, j, at, n)
  \/ \E w \in Workers : Crash(w)
  \/ \E w \in Workers, status \in {"scheduled"} \cup Ended : LetsGo(w, status)
  \/ \E w \in Workers, r \in {"running"} \cup Results, status \in {"running"} \cup Ended,
        m \in Nat \ {0}, f \in {"running", "lost"} \cup Results : Writes(w, r, status, m, f)
  \/ \E n \in Numbers, r \in {"running"} \cup Results, m \in Nat \ {0} : Retries(n, r, m)
  \/ \E w \in Workers, js \in SUBSET Jobs : ClaimBatch(w, js)
  \/ \E j \in Jobs : Expire(j) \/ Requeue(j)
  \/ \E o \in Operators : (\E j \in Jobs : AskCancel(o, j)) \/ Cancel(o)
  \/ /\ flow'.action = flow.action /\ flow' \in [status : {"enabled", "paused"}, action : {"create_crm_lead", "other"}]
     /\ batch' \in [Workers -> SUBSET Jobs]
     /\ troubles' \in Nat
     /\ UNCHANGED <<exec, row, lock, work, request, manual, ran, dropped, requests>>

LEMMA KindOfWrite ==
  ASSUME AutomationAssumption, Inv, NEW w \in Workers,
         \/ \E result \in Results : Execute(w, result) \/ Finish(w, result)
         \/ Start(w) \/ FollowUpError(w)
  PROVE  Kinds
<1> DEFINE j == work[w].job
           n == work[w].next
<1>0. /\ TypeOK /\ Numbered /\ Counted
      /\ j \in Jobs /\ row[j] \in Row /\ work[w].at \in {"numbered", "started"}
  BY JobInHand DEF Inv, Execute, Finish, Start, FollowUpError
<1>1. n \in Numbers /\ n \in Nat /\ n + 1 \in Nat \ {0} /\ troubles \in Nat
  BY <1>0 DEF Numbered, Numbers, TypeOK
<1>2. ASSUME NEW r \in {"running"} \cup Results, NEW status \in {"running"} \cup Ended,
             NEW m \in Nat \ {0}, NEW f \in {"running", "lost"} \cup Results,
             Writes(w, r, status, m, f)
      PROVE  Kinds
  BY <1>2 DEF Kinds
<1>3. \A status \in {"running"} \cup Ended :
        /\ Released(row[j], status) \in Row /\ Released(row[j], status).status = status
        /\ [row[j] EXCEPT !.status = status] \in Row
        /\ [row[j] EXCEPT !.status = status].status = status
  BY <1>0, RowShape DEF Statuses
<1>4. lock[j] = None => lock = [lock EXCEPT ![j] = None]
  BY <1>0 DEF TypeOK
<1>5. \A rows, m : /\ FollowedUp(rows, m, "running") = rows
                   /\ FollowedUp(rows, m, "lost") = rows
  BY DEF FollowedUp
<1>6. (n + 1) .. NextNumber(exec) \subseteq Nat \ {0} /\ NextNumber(exec) \in Nat
  BY <1>0, <1>1, NextShape DEF Counted
<1>7. ASSUME NEW result \in Results, Execute(w, result)
      PROVE  Kinds
  <2>1. StatusAfter(result) \in Ended
    BY StatusShape
  <2>2. result # "running"
    BY DEF Results
  <2>3. \E x \in Row : x.status = StatusAfter(result) /\ row' = FollowedUp([row EXCEPT ![j] = x], n + 1, result)
    BY <1>3, <1>7, <2>1 DEF Execute
  <2>4. Writes(w, result, StatusAfter(result), n + 1, result)
    BY <1>1, <1>7, <2>2, <2>3 DEF Execute, Writes, Follows, bounds
  <2> QED
    BY <1>1, <1>2, <2>1, <2>4
<1>8. ASSUME Start(w)
      PROVE  Kinds
  <2>1. row' = [row EXCEPT ![j] = [row[j] EXCEPT !.status = "running"]]
    BY <1>8 DEF Start
  <2>2. \E x \in Row : x.status = "running" /\ row' = FollowedUp([row EXCEPT ![j] = x], n + 1, "running")
    BY <1>3, <1>5, <2>1
  <2>3. Writes(w, "running", "running", n + 1, "running")
    BY <1>1, <1>8, <2>2 DEF Start, Writes, Follows, bounds
  <2> QED
    BY <1>1, <1>2, <2>3
<1>9. ASSUME NEW result \in Results, Finish(w, result)
      PROVE  Kinds
  <2>1. StatusAfter(result) \in Ended
    BY StatusShape
  <2>2. result # "running"
    BY DEF Results
  <2>3. PICK m \in (n + 1) .. NextNumber(exec) :
          row' = FollowedUp([row EXCEPT ![j] = Released(row[j], StatusAfter(result))], m, result)
    BY <1>9 DEF Finish
  <2>4. \E x \in Row : x.status = StatusAfter(result) /\ row' = FollowedUp([row EXCEPT ![j] = x], m, result)
    BY <1>3, <2>1, <2>3
  <2>5. Writes(w, result, StatusAfter(result), m, result)
    BY <1>1, <1>4, <1>9, <2>2, <2>4 DEF Finish, Writes, Follows, bounds
  <2> QED
    BY <1>2, <1>6, <2>1, <2>5
<1>10. ASSUME FollowUpError(w)
       PROVE  Kinds
  <2>1. "scheduler_error" \in Ended /\ "failed" \in Results
    BY DEF Ended, Failed, Results
  <2>2. /\ row' = [row EXCEPT ![j] = Released(row[j], "scheduler_error")]
        /\ lock' = [lock EXCEPT ![j] = None]
        /\ work' = [work EXCEPT ![w] = Idle]
    BY <1>10 DEF FollowUpError, Commit
  <2>3. \A m : \E x \in Row : x.status = "scheduler_error" /\ row' = FollowedUp([row EXCEPT ![j] = x], m, "lost")
    BY <1>3, <1>5, <2>1, <2>2
  <2>4. CASE work[w].at = "numbered"
    <3>1. \E x \in Row : x.status = "scheduler_error"
                        /\ row' = FollowedUp([row EXCEPT ![j] = x], n + 1, "lost")
      BY <2>3
    <3>2. /\ exec[n] = "none" /\ exec' = [exec EXCEPT ![n] = "failed"]
          /\ ran' = [ran EXCEPT ![j] = @ + 1] /\ dropped' = dropped \cup {n}
          /\ UNCHANGED <<flow, batch, request, manual, requests>>
      BY <1>10, <2>4 DEF FollowUpError
    <3>3. troubles' \in Nat
      BY <1>1, <1>10 DEF FollowUpError, Trouble
    <3>4. Writes(w, "failed", "scheduler_error", n + 1, "lost")
      BY <2>2, <2>4, <3>1, <3>2, <3>3 DEF Writes, Follows
    <3> QED
      BY <1>1, <1>2, <2>1, <3>4
  <2>5. CASE work[w].at = "started"
    <3>1. exec[n] # "none"
      BY <2>5 DEF Inv, Started
    <3>2. n < NextNumber(exec)
      BY <1>0, <1>1, <3>1, NextShape DEF Counted
    <3> HIDE DEF n
    <3>4. n + 1 \in (n + 1) .. NextNumber(exec)
      BY <1>1, <1>6, <3>2
    <3> USE DEF n
    <3>5. \E x \in Row : x.status = "scheduler_error"
                        /\ row' = FollowedUp([row EXCEPT ![j] = x], n + 1, "lost")
      BY <2>3
    <3>6. /\ lock[j] = None /\ exec' = [exec EXCEPT ![n] = "failed"]
          /\ ran' = ran /\ dropped' = dropped \cup {n}
          /\ UNCHANGED <<flow, batch, request, manual, requests>>
      BY <1>10, <2>5 DEF FollowUpError
    <3>7. troubles' \in Nat
      BY <1>1, <1>10 DEF FollowUpError, Trouble
    <3>3. Writes(w, "failed", "scheduler_error", n + 1, "lost")
      BY <2>2, <2>5, <3>4, <3>5, <3>6, <3>7 DEF Writes, Follows
    <3> QED
      BY <1>1, <1>2, <2>1, <3>3
  <2> QED
    BY <1>0, <2>4, <2>5
<1> QED
  BY <1>7, <1>8, <1>9, <1>10

LEMMA KindOfWork ==
  ASSUME AutomationAssumption, Inv, NEW w \in Workers,
         \/ \E j \in Jobs : Check(w, j)
         \/ Flush(w) \/ Decide(w) \/ Evaluate(w) \/ Adopt(w) \/ SchedulerError(w)
  PROVE  Kinds
<1>0. TypeOK /\ Numbered /\ Counted /\ LeadsRun /\ Relies(w) /\ troubles \in Nat
  BY DEF Inv, TypeOK
<1>1. ASSUME NEW j \in Jobs, NEW n \in Nat, NEW at \in {"checked", "flushed", "evaluated", "numbered"},
             Moves(w, j, at, n)
      PROVE  Kinds
  BY <1>1 DEF Kinds
<1>2. ASSUME NEW status \in {"scheduled"} \cup Ended, LetsGo(w, status)
      PROVE  Kinds
  BY <1>2 DEF Kinds
<1>3. ASSUME NEW j \in Jobs, NEW n \in Numbers, n >= Attempt(j), exec[n] # "none"
      PROVE  StatusAfter(exec[n]) \in Ended /\ Truly(j, StatusAfter(exec[n]))
  <2>1. exec[n] \in {"running"} \cup Results
    BY <1>0, <1>3 DEF TypeOK
  <2>2. /\ StatusAfter(exec[n]) \in Ended
        /\ StatusAfter(exec[n]) = "succeeded" <=> exec[n] = "success"
        /\ StatusAfter(exec[n]) = "failed" <=> exec[n] = "failed"
        /\ StatusAfter(exec[n]) = "unfinished" <=> exec[n] = "running"
    BY <2>1, StatusShape
  <2> QED
    BY <1>0, <1>3, <2>2 DEF Truly, LeadsRun
<1>4. ASSUME NEW j \in Jobs, NEW status \in {"scheduled", "dead_letter", "scheduler_error"}
      PROVE  Truly(j, status) /\ status \in {"scheduled"} \cup Ended
  BY DEF Truly, Ended, Failed
<1>5. ASSUME NEW j \in Jobs, Check(w, j)
      PROVE  Kinds
  <2>1. CASE row[j].owner = w /\ row[j].status \in {"leased", "running"}
    <3>1. Goto(w, j, "checked", 1) /\ batch' = [batch EXCEPT ![w] = @ \ {j}]
      BY <1>5, <2>1 DEF Check
    <3>2. batch' \in [Workers -> SUBSET Jobs]
      BY <1>0, <3>1 DEF TypeOK
    <3>3. Moves(w, j, "checked", 1)
      BY <1>5, <2>1, <3>1, <3>2 DEF Check, Moves
    <3> QED
      BY <1>1, <3>3
  <2>2. CASE ~(row[j].owner = w /\ row[j].status \in {"leased", "running"})
    <3>1. batch' = [batch EXCEPT ![w] = {}] /\ work' = work
      BY <1>5, <2>2 DEF Check
    <3>2. batch' \in [Workers -> SUBSET Jobs]
      BY <1>0, <3>1 DEF TypeOK
    <3>3. flow' = flow /\ troubles' \in Nat
          /\ UNCHANGED <<exec, row, lock, work, request, manual, ran, dropped, requests>>
      BY <1>0, <1>5, <3>1 DEF Check, bounds
    <3> QED
      BY <1>0, <3>2, <3>3 DEF Kinds, TypeOK
  <2> QED
    BY <2>1, <2>2
<1>6. ASSUME Flush(w)
      PROVE  Kinds
  <2>1. work[w].job \in Jobs /\ batch \in [Workers -> SUBSET Jobs]
    BY <1>0, <1>6, JobInHand DEF Flush, TypeOK
  <2>2. Moves(w, work[w].job, "flushed", 1)
    BY <1>6, <2>1 DEF Flush, Moves
  <2> QED
    BY <1>1, <2>1, <2>2
<1>7. ASSUME Decide(w)
      PROVE  Kinds
  <2> DEFINE j == work[w].job
  <2>1. j \in Jobs /\ work[w].at = "flushed" /\ batch \in [Workers -> SUBSET Jobs]
    BY <1>0, <1>7, JobInHand DEF Decide, TypeOK
  <2>2. Attempt(j) \in Numbers /\ Attempt(j) >= Attempt(j)
    BY <2>1, JobShape DEF Numbers, AutomationAssumption
  <2>3. CASE flow.status = "paused"
    <3>1. Commit(w, "scheduled")
      BY <1>7, <2>3 DEF Decide
    <3>2. LetsGo(w, "scheduled")
      BY <1>0, <1>4, <1>7, <2>1, <3>1 DEF Decide, LetsGo, bounds
    <3> QED
      BY <1>2, <3>2
  <2>4. CASE flow.status # "paused" /\ exec[Attempt(j)] # "none"
    <3>1. Commit(w, StatusAfter(exec[Attempt(j)]))
      BY <1>7, <2>4 DEF Decide
    <3>2. StatusAfter(exec[Attempt(j)]) \in Ended /\ Truly(j, StatusAfter(exec[Attempt(j)]))
      BY <1>3, <2>1, <2>2, <2>4
    <3>3. LetsGo(w, StatusAfter(exec[Attempt(j)]))
      BY <1>0, <1>7, <2>1, <3>1, <3>2 DEF Decide, LetsGo, bounds
    <3> QED
      BY <1>2, <3>2, <3>3
  <2>5. CASE flow.status # "paused" /\ exec[Attempt(j)] = "none"
    <3>1. Goto(w, j, "evaluated", 1) /\ UNCHANGED <<row, lock>>
      BY <1>7, <2>5 DEF Decide
    <3>2. Moves(w, j, "evaluated", 1)
      BY <1>7, <2>1, <2>5, <3>1 DEF Decide, Moves
    <3> QED
      BY <1>1, <2>1, <3>2
  <2> QED
    BY <2>3, <2>4, <2>5
<1>8. ASSUME Evaluate(w)
      PROVE  Kinds
  <2> DEFINE j == work[w].job
  <2>1. j \in Jobs /\ work[w].at = "evaluated" /\ batch \in [Workers -> SUBSET Jobs]
    BY <1>0, <1>8, JobInHand DEF Evaluate, TypeOK
  <2>2. NextNumber(exec) \in Nat
    BY <1>0, NextShape DEF Counted
  <2>3. CASE NextNumber(exec) > Limit
    <3>1. Commit(w, "dead_letter")
      BY <1>8, <2>3 DEF Evaluate
    <3>2. LetsGo(w, "dead_letter")
      BY <1>0, <1>4, <1>8, <2>1, <3>1 DEF Evaluate, LetsGo, bounds
    <3> QED
      BY <1>2, <1>4, <2>1, <3>2
  <2>4. CASE ~(NextNumber(exec) > Limit)
    <3>1. Goto(w, j, "numbered", NextNumber(exec)) /\ UNCHANGED <<row, lock>>
      BY <1>8, <2>4 DEF Evaluate
    <3>2. NextNumber(exec) <= Limit
      BY <2>2, <2>4 DEF AutomationAssumption
    <3>3. Moves(w, j, "numbered", NextNumber(exec))
      BY <1>8, <2>1, <3>1, <3>2 DEF Evaluate, Moves
    <3> QED
      BY <1>1, <2>1, <2>2, <3>3
  <2> QED
    BY <2>3, <2>4
<1>9. ASSUME Adopt(w)
      PROVE  Kinds
  <2> DEFINE j == work[w].job
             n == work[w].next
  <2>1. j \in Jobs /\ work[w].at = "numbered" /\ n \in Numbers /\ Attempt(j) <= n
    BY <1>0, <1>9, JobInHand DEF Adopt, Numbered, Relies
  <2>2. n >= Attempt(j)
    BY <2>1, JobShape DEF Numbers, AutomationAssumption
  <2>3. StatusAfter(exec[n]) \in Ended /\ Truly(j, StatusAfter(exec[n]))
    BY <1>3, <1>9, <2>1, <2>2 DEF Adopt
  <2>4. LetsGo(w, StatusAfter(exec[n]))
    BY <1>0, <1>9, <2>1, <2>3 DEF Adopt, LetsGo, bounds
  <2> QED
    BY <1>2, <2>3, <2>4
<1>10. ASSUME SchedulerError(w)
       PROVE  Kinds
  <2>1. work[w].job \in Jobs
    BY <1>0, <1>10, JobInHand DEF SchedulerError
  <2>2. LetsGo(w, "scheduler_error")
    BY <1>0, <1>4, <1>10, <2>1 DEF SchedulerError, Trouble, LetsGo
  <2> QED
    BY <1>2, <1>4, <2>1, <2>2
<1> QED
  BY <1>5, <1>6, <1>7, <1>8, <1>9, <1>10

LEMMA KindOfRetry ==
  ASSUME AutomationAssumption, Inv,
         \/ StartRetry
         \/ \E result \in Results : RetryExecution(result) \/ \E n \in Numbers : FinishRetry(n, result)
  PROVE  Kinds
<1>0. TypeOK /\ Counted /\ requests \in Nat /\ requests + 1 \in Nat
  BY DEF Inv, TypeOK
<1>1. PICK k : k = NextNumber(exec)
  OBVIOUS
<1>2. k \in Nat \ {0} /\ k + 1 \in Nat \ {0} /\ \A n \in Numbers : exec[n] # "none" <=> n < k
  BY <1>0, <1>1, NextShape DEF Counted
<1>3. k <= Limit => k \in Numbers
  BY <1>2 DEF Numbers, AutomationAssumption
<1>4. k \notin manual
  BY <1>0, <1>2 DEF Inv, Started, TypeOK, Numbers, AutomationAssumption
<1>5. \A rows, m : FollowedUp(rows, m, "running") = rows
  BY DEF FollowedUp
<1>6. ASSUME NEW n \in Numbers, NEW r \in {"running"} \cup Results, NEW m \in Nat \ {0}, Retries(n, r, m)
      PROVE  Kinds
  BY <1>6 DEF Kinds
<1>7. ASSUME StartRetry
      PROVE  Kinds
  <2>1. /\ k <= Limit /\ flow.action = "create_crm_lead" /\ requests' \in Nat
        /\ exec' = [exec EXCEPT ![k] = "running"] /\ manual' = manual \cup {k}
        /\ row' = FollowedUp(row, k + 1, "running")
    BY <1>0, <1>1, <1>5, <1>7 DEF StartRetry, Asked
  <2>2. Retries(k, "running", k + 1)
    BY <1>1, <1>7, <2>1 DEF StartRetry, Retries
  <2> QED
    BY <1>2, <1>3, <1>6, <2>1, <2>2
<1>8. ASSUME NEW result \in Results, RetryExecution(result)
      PROVE  Kinds
  <2>1. /\ k <= Limit /\ requests' \in Nat /\ result # "running"
        /\ exec' = [exec EXCEPT ![k] = result] /\ manual' = manual \ {k}
        /\ row' = FollowedUp(row, k + 1, result)
    BY <1>0, <1>1, <1>4, <1>8 DEF RetryExecution, Asked, Results
  <2>2. Retries(k, result, k + 1)
    BY <1>1, <1>8, <2>1 DEF RetryExecution, Retries
  <2> QED
    BY <1>2, <1>3, <1>6, <2>1, <2>2
<1>9. ASSUME NEW result \in Results, NEW n \in Numbers, FinishRetry(n, result)
      PROVE  Kinds
  <2>1. result # "running" /\ requests' \in Nat
    BY <1>0, <1>9 DEF Results, FinishRetry, bounds
  <2>2. PICK m \in (n + 1) .. NextNumber(exec) : row' = FollowedUp(row, m, result)
    BY <1>9 DEF FinishRetry
  <2>3. m \in Nat \ {0}
    BY <2>2, <1>1, <1>2 DEF Numbers, AutomationAssumption
  <2>4. Retries(n, result, m)
    BY <1>9, <2>1, <2>2 DEF FinishRetry, Retries, bounds
  <2> QED
    BY <1>6, <2>3, <2>4
<1> QED
  BY <1>7, <1>8, <1>9

LEMMA KindOfStep ==
  ASSUME AutomationAssumption, Inv, [Next]_vars
  PROVE  Kinds
<1>0. TypeOK
  BY DEF Inv
<1>1. CASE PauseFlow \/ EnableFlow
  <2>1. PICK s \in {"enabled", "paused"} : flow' = [flow EXCEPT !.status = s]
    BY <1>1 DEF PauseFlow, EnableFlow
  <2>2. flow'.action = flow.action
        /\ flow' \in [status : {"enabled", "paused"}, action : {"create_crm_lead", "other"}]
    BY <1>0, <2>1 DEF TypeOK
  <2>3. troubles' \in Nat /\ batch' \in [Workers -> SUBSET Jobs]
    BY <1>0, <1>1 DEF PauseFlow, EnableFlow, Trouble, TypeOK, bounds
  <2> QED
    BY <1>1, <2>2, <2>3 DEF Kinds, PauseFlow, EnableFlow, bounds
<1>2. CASE UNCHANGED vars
  BY <1>0, <1>2 DEF vars, bounds, Kinds, TypeOK
<1>3. ASSUME NEW w \in Workers, Process(w) \/ SchedulerError(w) \/ FollowUpError(w)
      PROVE  Kinds
  BY <1>3, KindOfWork, KindOfWrite DEF Process
<1>4. ASSUME NEW w \in Workers, (\E js \in SUBSET Jobs : ClaimBatch(w, js)) \/ Crash(w)
      PROVE  Kinds
  BY <1>4 DEF Kinds
<1>5. CASE StartRetry \/ \E result \in Results :
             RetryExecution(result) \/ \E n \in Numbers : FinishRetry(n, result)
  BY <1>5, KindOfRetry
<1>6. CASE \/ \E j \in Jobs : Expire(j) \/ Requeue(j)
           \/ \E o \in Operators : (\E j \in Jobs : AskCancel(o, j)) \/ Cancel(o)
  BY <1>6 DEF Kinds
<1> QED
  BY <1>1, <1>2, <1>3, <1>4, <1>5, <1>6 DEF Next

-----------------------------------------------------------------------------
(* What the kinds of steps do *)

(* A worker that goes on is at its new point, with its job. *)
LEMMA GotoType ==
  ASSUME AutomationAssumption, TypeOK, NEW w \in Workers, NEW j \in Jobs, NEW n \in Nat,
         NEW at \in {"checked", "flushed", "evaluated", "numbered", "started"}, Goto(w, j, at, n)
  PROVE  /\ work' \in [Workers -> Work]
         /\ \A v \in Workers : work'[v].at = "idle" <=> work'[v].job = None
         /\ work'[w].at = at /\ work'[w].job = j /\ work'[w].next = n
         /\ \A v \in Workers \ {w} : work'[v] = work[v]
<1> DEFINE new == [at |-> at, job |-> j, next |-> n]
<1>1. new \in Work /\ new.at # "idle" /\ new.job # None
  BY WorkShape
<1>2. work' = [work EXCEPT ![w] = new]
  BY DEF Goto
<1> HIDE DEF new
<1>3. /\ work' \in [Workers -> Work] /\ work'[w] = new
      /\ \A v \in Workers \ {w} : work'[v] = work[v]
  BY <1>1, <1>2 DEF TypeOK
<1> QED
  BY <1>1, <1>3 DEF TypeOK, new

(* A worker that is done has nothing in hand. *)
LEMMA IdleType ==
  ASSUME AutomationAssumption, TypeOK, NEW w \in Workers, work' = [work EXCEPT ![w] = Idle]
  PROVE  /\ work' \in [Workers -> Work]
         /\ \A v \in Workers : work'[v].at = "idle" <=> work'[v].job = None
         /\ work'[w].at = "idle"
         /\ \A v \in Workers \ {w} : work'[v] = work[v]
<1>1. /\ work' \in [Workers -> Work] /\ work'[w] = Idle
      /\ \A v \in Workers \ {w} : work'[v] = work[v]
  BY WorkShape DEF TypeOK
<1> QED
  BY <1>1, WorkShape DEF TypeOK

(* A step that records a retry: the next one is begun, or one that is running
   gets its result; and a failure asks for a later one, or is lost.          *)
Recording(n, r, m, f) ==
  /\ \/ exec[n] = "none" /\ \A k \in Numbers : k < n => exec[k] # "none"
     \/ exec[n] = "running" /\ r # "running"
  /\ exec' = [exec EXCEPT ![n] = r]
  /\ r = "running" => flow.action = "create_crm_lead"
  /\ Follows(n, r, f)
  /\ m \in (n + 1) .. NextNumber(exec')
  /\ \A j \in Jobs : row'[j].status # "absent" <=>
       row[j].status # "absent" \/ (f = "failed" /\ j = <<m, 0>>)

LEMMA WriteShape ==
  ASSUME AutomationAssumption, Inv, NEW w \in Workers, NEW r \in {"running"} \cup Results,
         NEW status \in {"running"} \cup Ended, NEW m \in Nat \ {0},
         NEW f \in {"running", "lost"} \cup Results, Writes(w, r, status, m, f)
  PROVE  LET j == work[w].job
             n == work[w].next
         IN /\ j \in Jobs /\ n \in Numbers /\ row[j].status # "absent"
            /\ Attempt(j) <= n /\ Attempt(j) \in Numbers
            /\ \A k \in Numbers : k < n => exec[k] # "none"
            /\ Recording(n, r, m, f)
            /\ row' \in [Jobs -> Row]
            /\ row'[j].status = status
            /\ \A i \in Jobs \ {j} : row'[i] = row[i] \/ row'[i].status = "scheduled"
            /\ lock' \in [Jobs -> Workers \cup {None}]
            /\ lock[j] \in {w, None} /\ lock'[j] = None
            /\ \A i \in Jobs \ {j} : lock'[i] = lock[i]
            /\ \/ ran' = ran
               \/ exec[n] = "none" /\ lock[j] = w /\ ran[j] = 0 /\ ran' = [ran EXCEPT ![j] = 1]
            /\ work' \in [Workers -> Work]
            /\ \A v \in Workers : work'[v].at = "idle" <=> work'[v].job = None
            /\ \A v \in Workers \ {w} : work'[v] = work[v]
            /\ \/ work'[w].at = "idle"
               \/ work'[w].at = "started" /\ work'[w].job = j /\ work'[w].next = n
                  /\ r = "running" /\ exec[n] = "none"
<1> DEFINE j == work[w].job
           n == work[w].next
<1>0. TypeOK /\ Numbered /\ Counted /\ Relies(w) /\ Started
  BY DEF Inv
<1>1. /\ work[w].at \in {"numbered", "started"} /\ j \in Jobs /\ row[j] \in Row
      /\ n \in Numbers /\ n \in Nat
  BY <1>0, JobInHand DEF Writes, Numbered
<1>2. /\ row[j].status # "absent" /\ Attempt(j) <= n
      /\ \A k \in Numbers : k < n => exec[k] # "none"
      /\ work[w].at = "numbered" => lock[j] = w /\ ran[j] = 0
      /\ work[w].at = "started" => exec[n] = "running"
  BY <1>0, <1>1 DEF Relies, Started
<1>3. Attempt(j) \in Numbers
  BY <1>1, JobShape
<1>4. /\ \/ /\ work[w].at = "numbered" /\ exec[n] = "none" /\ m = n + 1
            /\ ran' = [ran EXCEPT ![j] = @ + 1]
         \/ /\ work[w].at = "started" /\ r # "running" /\ m \in (n + 1) .. NextNumber(exec)
            /\ lock[j] = None /\ ran' = ran
      /\ \/ /\ r = "running" /\ status = "running" /\ flow.action = "create_crm_lead"
            /\ Goto(w, j, "started", n)
         \/ /\ r # "running" /\ work' = [work EXCEPT ![w] = Idle]
      /\ exec' = [exec EXCEPT ![n] = r]
      /\ Follows(n, r, f)
      /\ lock' = [lock EXCEPT ![j] = None]
  BY DEF Writes
<1>5. PICK x \in Row : x.status = status /\ row' = FollowedUp([row EXCEPT ![j] = x], m, f)
  BY DEF Writes
<1> DEFINE rows == [row EXCEPT ![j] = x]
<1> HIDE DEF j, n
<1>6. /\ rows \in [Jobs -> Row] /\ rows[j].status = status
      /\ \A i \in Jobs \ {j} : rows[i] = row[i]
  BY <1>0, <1>1, <1>5 DEF TypeOK
<1>7. status # "absent"
  BY DEF Ended, Failed
<1>8. /\ row' \in [Jobs -> Row]
      /\ \A i \in Jobs :
           \/ row'[i] = rows[i]
           \/ rows[i].status = "absent" /\ row'[i].status = "scheduled"
      /\ \A i \in Jobs : row'[i].status # "absent" <=>
           rows[i].status # "absent" \/ (f = "failed" /\ i = <<m, 0>>)
  <2> HIDE DEF rows
  <2>1. row' = FollowedUp(rows, m, f)
    BY <1>5 DEF rows
  <2> QED
    BY <1>6, <2>1, FollowUpShape
<1>9. row'[j].status = status /\ \A i \in Jobs \ {j} : row'[i] = row[i] \/ row'[i].status = "scheduled"
  BY <1>1, <1>6, <1>7, <1>8
<1>10. \A i \in Jobs : row'[i].status # "absent" <=>
         row[i].status # "absent" \/ (f = "failed" /\ i = <<m, 0>>)
  BY <1>1, <1>2, <1>6, <1>7, <1>8
<1> HIDE DEF rows
<1>11. n + 1 <= NextNumber(exec') /\ NextNumber(exec) <= NextNumber(exec')
       /\ NextNumber(exec') \in Nat /\ NextNumber(exec) \in Nat
  <2>1. exec \in [Numbers -> {"none", "running"} \cup Results]
    BY <1>0 DEF TypeOK
  <2>2. /\ Gapless([exec EXCEPT ![n] = r]) /\ n + 1 <= NextNumber([exec EXCEPT ![n] = r])
        /\ NextNumber(exec) <= NextNumber([exec EXCEPT ![n] = r])
    BY <1>0, <1>1, <1>2, <2>1, NextRecorded DEF Counted
  <2>3. Gapless(exec') /\ n + 1 <= NextNumber(exec') /\ NextNumber(exec) <= NextNumber(exec')
    BY <1>4, <2>2
  <2>4. NextNumber(exec') \in Nat
    BY <2>3, NextShape
  <2>5. NextNumber(exec) \in Nat
    BY <1>0, NextShape DEF Counted
  <2> QED
    BY <2>3, <2>4, <2>5
<1>12. m \in (n + 1) .. NextNumber(exec')
  BY <1>1, <1>4, <1>11
<1>13. Recording(n, r, m, f)
  BY <1>2, <1>4, <1>10, <1>12 DEF Recording
<1>14. /\ lock' \in [Jobs -> Workers \cup {None}] /\ lock'[j] = None
       /\ \A i \in Jobs \ {j} : lock'[i] = lock[i]
  BY <1>0, <1>1, <1>4 DEF TypeOK
<1>15. \/ ran' = ran
       \/ exec[n] = "none" /\ lock[j] = w /\ ran[j] = 0 /\ ran' = [ran EXCEPT ![j] = 1]
  BY <1>2, <1>4
<1>16. /\ work' \in [Workers -> Work]
       /\ \A v \in Workers : work'[v].at = "idle" <=> work'[v].job = None
       /\ \A v \in Workers \ {w} : work'[v] = work[v]
       /\ \/ work'[w].at = "idle"
          \/ work'[w].at = "started" /\ work'[w].job = j /\ work'[w].next = n
             /\ r = "running" /\ exec[n] = "none"
  <2>1. CASE r = "running"
    <3>1. Goto(w, j, "started", n) /\ exec[n] = "none"
      BY <1>4, <2>1
    <3> QED
      BY <1>0, <1>1, <2>1, <3>1, GotoType
  <2>2. CASE r # "running"
    <3>1. work' = [work EXCEPT ![w] = Idle]
      BY <1>4, <2>2
    <3> QED
      BY <1>0, <3>1, IdleType
  <2> QED
    BY <2>1, <2>2
<1>17. lock[j] \in {w, None}
  BY <1>1, <1>2, <1>4
<1> QED
  BY <1>1, <1>2, <1>3, <1>8, <1>9, <1>13, <1>14, <1>15, <1>16, <1>17 DEF j, n

LEMMA RetryShape ==
  ASSUME AutomationAssumption, Inv, NEW n \in Numbers, NEW r \in {"running"} \cup Results,
         NEW m \in Nat \ {0}, Retries(n, r, m)
  PROVE  /\ Recording(n, r, m, r)
         /\ row' \in [Jobs -> Row]
         /\ \A i \in Jobs : row'[i] = row[i] \/ row'[i].status = "scheduled"
         /\ exec[n] = "none" \/ n \in manual
<1>0. TypeOK /\ Counted /\ Started
  BY DEF Inv
<1>1. n \in Nat /\ NextNumber(exec) \in Nat /\ \A k \in Numbers : exec[k] # "none" <=> k < NextNumber(exec)
  BY <1>0, NextShape DEF Counted, Numbers
<1>2. /\ \/ n = NextNumber(exec) /\ m = n + 1
         \/ n \in manual /\ r # "running" /\ m \in (n + 1) .. NextNumber(exec)
      /\ r = "running" => flow.action = "create_crm_lead"
      /\ exec' = [exec EXCEPT ![n] = r]
      /\ row' = FollowedUp(row, m, r)
      /\ dropped' = dropped
  BY DEF Retries
<1>3. \/ exec[n] = "none" /\ \A k \in Numbers : k < n => exec[k] # "none"
      \/ exec[n] = "running" /\ r # "running" /\ n \in manual
  BY <1>0, <1>1, <1>2 DEF Started
<1>4. /\ row' \in [Jobs -> Row]
      /\ \A i \in Jobs : row'[i] = row[i] \/ row'[i].status = "scheduled"
      /\ \A i \in Jobs : row'[i].status # "absent" <=>
           row[i].status # "absent" \/ (r = "failed" /\ i = <<m, 0>>)
  <2>1. row \in [Jobs -> Row]
    BY <1>0 DEF TypeOK
  <2> QED
    BY <1>2, <2>1, FollowUpShape
<1>5. n + 1 <= NextNumber(exec') /\ NextNumber(exec) <= NextNumber(exec') /\ NextNumber(exec') \in Nat
  <2>1. exec \in [Numbers -> {"none", "running"} \cup Results]
    BY <1>0 DEF TypeOK
  <2>2. /\ Gapless([exec EXCEPT ![n] = r]) /\ n + 1 <= NextNumber([exec EXCEPT ![n] = r])
        /\ NextNumber(exec) <= NextNumber([exec EXCEPT ![n] = r])
    BY <1>0, <1>3, <2>1, NextRecorded DEF Counted
  <2>3. Gapless(exec') /\ n + 1 <= NextNumber(exec') /\ NextNumber(exec) <= NextNumber(exec')
    BY <1>2, <2>2
  <2> QED
    BY <2>3, NextShape
<1>6. m \in (n + 1) .. NextNumber(exec')
  BY <1>1, <1>2, <1>5
<1> QED
  BY <1>2, <1>3, <1>4, <1>6 DEF Recording, Follows

(* A step that asks again: the job of the next generation. *)
Asking(j) ==
  /\ row[j].status # "absent" /\ j[2] < Generations
  /\ <<j[1], j[2] + 1>> \in Jobs
  /\ \A i \in Jobs : row'[i].status # "absent" <=>
       row[i].status # "absent" \/ i = <<j[1], j[2] + 1>>

(* A step that records nothing. *)
Still ==
  /\ exec' = exec /\ ran' = ran /\ dropped' = dropped
  /\ \/ \A j \in Jobs : row'[j].status # "absent" <=> row[j].status # "absent"
     \/ \E j \in Jobs : Asking(j)

(* A step that records a retry for a job, or for none. *)
Records ==
  \E n \in Numbers, r \in {"running"} \cup Results, m \in Nat \ {0}, f \in {"running", "lost"} \cup Results :
    /\ Recording(n, r, m, f)
    /\ \/ ran' = ran
       \/ \E j \in Jobs : /\ row[j].status # "absent" /\ ran[j] = 0 /\ Attempt(j) <= n
                          /\ exec[n] = "none" /\ ran' = [ran EXCEPT ![j] = 1]

LEMMA RecordsOrNot ==
  ASSUME AutomationAssumption, Inv, [Next]_vars
  PROVE  Records \/ Still
<1>0. TypeOK /\ Kinds /\ \A v \in Workers : Relies(v)
  BY KindOfStep DEF Inv
<1>1. ASSUME NEW w \in Workers, NEW r \in {"running"} \cup Results, NEW status \in {"running"} \cup Ended,
             NEW m \in Nat \ {0}, NEW f \in {"running", "lost"} \cup Results,
             Writes(w, r, status, m, f)
      PROVE  Records
  <2> DEFINE j == work[w].job
             n == work[w].next
  <2>1. /\ j \in Jobs /\ n \in Numbers /\ row[j].status # "absent" /\ Attempt(j) <= n
        /\ Recording(n, r, m, f)
        /\ \/ ran' = ran
           \/ exec[n] = "none" /\ ran[j] = 0 /\ ran' = [ran EXCEPT ![j] = 1]
    BY <1>1, WriteShape
  <2> HIDE DEF j, n
  <2> QED
    BY <2>1 DEF Records
<1>2. ASSUME NEW n \in Numbers, NEW r \in {"running"} \cup Results, NEW m \in Nat \ {0}, Retries(n, r, m)
      PROVE  Records
  <2>1. Recording(n, r, m, r) /\ ran' = ran
    BY <1>2, RetryShape DEF Retries
  <2> QED
    BY <2>1 DEF Records
<1>3. ASSUME NEW w \in Workers, NEW status \in {"scheduled"} \cup Ended, LetsGo(w, status)
      PROVE  Still
  <2>1. /\ row'[work[w].job].status = status /\ row[work[w].job].status # "absent"
        /\ \A j \in Jobs \ {work[w].job} : row'[j] = row[j]
    BY <1>0, <1>3, CommitShape DEF LetsGo, Relies
  <2>2. status # "absent"
    BY DEF Ended, Failed
  <2> QED
    BY <1>3, <2>1, <2>2 DEF LetsGo, Still
<1>4. ASSUME NEW w \in Workers, NEW js \in SUBSET Jobs, ClaimBatch(w, js)
      PROVE  Still
  <2>1. exec' = exec /\ ran' = ran /\ dropped' = dropped
    BY <1>4 DEF ClaimBatch
  <2>2. \A j \in Jobs : row'[j].status # "absent" <=> row[j].status # "absent"
    BY <1>0, <1>4, ClaimShape
  <2> QED
    BY <2>1, <2>2 DEF Still
<1>5. ASSUME NEW j \in Jobs, Expire(j)
      PROVE  Still
  <2>1. /\ exec' = exec /\ ran' = ran /\ dropped' = dropped
        /\ row' = [row EXCEPT ![j] = [row[j] EXCEPT !.expired = TRUE]]
    BY <1>5 DEF Expire
  <2>2. row[j] \in Row
    BY <1>0 DEF TypeOK
  <2>3. [row[j] EXCEPT !.expired = TRUE].status = row[j].status
    BY <2>2 DEF Row
  <2>4. \A i \in Jobs : row'[i].status = row[i].status
    BY <1>0, <2>1, <2>3 DEF TypeOK
  <2> QED
    BY <2>1, <2>4 DEF Still
<1>6. ASSUME NEW j \in Jobs, Requeue(j)
      PROVE  Still
  <2> DEFINE child == <<j[1], j[2] + 1>>
  <2>1. child \in Jobs
    BY <1>6, JobShape DEF Requeue, AutomationAssumption, Jobs, Attempt
  <2>2. /\ exec' = exec /\ ran' = ran /\ dropped' = dropped
        /\ row[j].status # "absent" /\ j[2] < Generations
        /\ row' = [row EXCEPT ![child] = [row[child] EXCEPT !.status = "scheduled"]]
    BY <1>6 DEF Requeue, Attempt, Failed
  <2>3. row[child] \in Row
    BY <1>0, <2>1 DEF TypeOK
  <2>4. [row[child] EXCEPT !.status = "scheduled"].status # "absent"
    BY <2>3 DEF Row
  <2> HIDE DEF child
  <2>5. \A i \in Jobs : row'[i].status # "absent" <=> row[i].status # "absent" \/ i = child
    BY <1>0, <2>1, <2>2, <2>4 DEF TypeOK
  <2> QED
    BY <2>1, <2>2, <2>5 DEF Still, Asking, child
<1>7. ASSUME NEW o \in Operators, Cancel(o)
      PROVE  Still
  <2> DEFINE j == request[o]
  <2>1. /\ j \in Jobs /\ row[j].status # "absent"
        /\ exec' = exec /\ ran' = ran /\ dropped' = dropped
        /\ row' = [row EXCEPT ![j] = [row[j] EXCEPT !.status = "cancelled"]]
    BY <1>0, <1>7 DEF Cancel, TypeOK, Inv, Asks
  <2>2. row[j] \in Row
    BY <1>0, <2>1 DEF TypeOK
  <2>3. [row[j] EXCEPT !.status = "cancelled"].status # "absent"
    BY <2>2 DEF Row
  <2> HIDE DEF j
  <2>4. \A i \in Jobs : row'[i].status # "absent" <=> row[i].status # "absent"
    BY <1>0, <2>1, <2>3 DEF TypeOK
  <2> QED
    BY <2>1, <2>4 DEF Still
<1>8. ASSUME exec' = exec, ran' = ran, dropped' = dropped, row' = row
      PROVE  Still
  BY <1>8 DEF Still
<1>9. ASSUME NEW w \in Workers, NEW j \in Jobs, NEW n \in Nat, NEW at, Moves(w, j, at, n)
      PROVE  Still
  BY <1>8, <1>9 DEF Moves
<1>10. ASSUME NEW w \in Workers, Crash(w)
       PROVE  Still
  BY <1>8, <1>10 DEF Crash
<1>11. ASSUME NEW o \in Operators, NEW j \in Jobs, AskCancel(o, j)
       PROVE  Still
  BY <1>8, <1>11 DEF AskCancel
<1> QED
  BY <1>0, <1>1, <1>2, <1>3, <1>4, <1>5, <1>6, <1>7, <1>8, <1>9, <1>10, <1>11 DEF Kinds

(* Executions that exist stay, numbers grow, and jobs stay. *)
Onward ==
  /\ exec' \in [Numbers -> {"none", "running"} \cup Results]
  /\ \A n \in Numbers : exec[n] # "none" => exec'[n] # "none"
  /\ \A n \in Numbers : exec[n] \in Results => exec'[n] = exec[n]
  /\ \A j \in Jobs : row[j].status # "absent" => row'[j].status # "absent"
  /\ NextNumber(exec) <= NextNumber(exec')
  /\ NextNumber(exec') \in Nat /\ NextNumber(exec) \in Nat
  /\ Gapless(exec')
  /\ flow'.action = flow.action

LEMMA OnwardStep ==
  ASSUME AutomationAssumption, Inv, [Next]_vars
  PROVE  Onward
<1>0. TypeOK /\ Counted /\ (Records \/ Still) /\ Kinds
  BY RecordsOrNot, KindOfStep DEF Inv
<1>1. flow'.action = flow.action
  <2>1. ASSUME NEW w \in Workers, Crash(w) PROVE flow' = flow
    BY <2>1 DEF Crash
  <2>2. ASSUME NEW w \in Workers, NEW js \in SUBSET Jobs, ClaimBatch(w, js) PROVE flow' = flow
    BY <2>2 DEF ClaimBatch
  <2>3. ASSUME NEW j \in Jobs, Expire(j) \/ Requeue(j) PROVE flow' = flow
    BY <2>3 DEF Expire, Requeue
  <2>4. ASSUME NEW o \in Operators, (\E j \in Jobs : AskCancel(o, j)) \/ Cancel(o) PROVE flow' = flow
    BY <2>4 DEF AskCancel, Cancel
  <2>5. ASSUME NEW w, NEW j, NEW n, NEW at, Moves(w, j, at, n) PROVE flow' = flow
    BY <2>5 DEF Moves
  <2>6. ASSUME NEW w, NEW r, NEW status, NEW m, NEW f, Writes(w, r, status, m, f) PROVE flow' = flow
    BY <2>6 DEF Writes
  <2>7. ASSUME NEW n, NEW r, NEW m, Retries(n, r, m) PROVE flow' = flow
    BY <2>7 DEF Retries
  <2>8. ASSUME NEW w, NEW status, LetsGo(w, status) PROVE flow' = flow
    BY <2>8 DEF LetsGo
  <2> QED
    BY <1>0, <2>1, <2>2, <2>3, <2>4, <2>5, <2>6, <2>7, <2>8 DEF Kinds
<1>2. /\ exec \in [Numbers -> {"none", "running"} \cup Results]
      /\ NextNumber(exec) \in Nat /\ Gapless(exec)
  BY <1>0, NextShape DEF Counted, TypeOK
<1>3. CASE Still
  <2>1. exec' = exec
    BY <1>3 DEF Still
  <2>2. \A j \in Jobs : row[j].status # "absent" => row'[j].status # "absent"
    BY <1>3 DEF Still, Asking
  <2> QED
    BY <1>1, <1>2, <2>1, <2>2 DEF Onward
<1>4. CASE Records
  <2>1. PICK n \in Numbers, r \in {"running"} \cup Results, m \in Nat \ {0},
             f \in {"running", "lost"} \cup Results : Recording(n, r, m, f)
    BY <1>4 DEF Records
  <2>2. /\ exec' = [exec EXCEPT ![n] = r]
        /\ exec[n] = "none" => \A k \in Numbers : k < n => exec[k] # "none"
        /\ exec[n] \in {"none", "running"}
        /\ \A j \in Jobs : row[j].status # "absent" => row'[j].status # "absent"
    BY <2>1 DEF Recording
  <2>3. Gapless(exec') /\ NextNumber(exec) <= NextNumber(exec')
    BY <1>2, <2>2, NextRecorded
  <2>4. NextNumber(exec') \in Nat
    BY <2>3, NextShape
  <2>5. r # "none" /\ "none" \notin Results /\ "running" \notin Results
    BY DEF Results
  <2> QED
    BY <1>1, <1>2, <2>2, <2>3, <2>4, <2>5 DEF Onward
<1> QED
  BY <1>0, <1>3, <1>4

(* Numbers without a gap, their jobs and their follow-ups. *)
LEMMA NumbersStep ==
  ASSUME AutomationAssumption, Inv, [Next]_vars
  PROVE  Gapless(exec') /\ Reached' /\ LeadsRun' /\ Followed'
<1>0. TypeOK /\ Counted /\ Reached /\ LeadsRun /\ Followed /\ Onward /\ (Records \/ Still)
  BY RecordsOrNot, OnwardStep DEF Inv
<1>1. /\ \A n \in Numbers : exec[n] # "none" => exec'[n] # "none"
      /\ \A j \in Jobs : row[j].status # "absent" => row'[j].status # "absent"
      /\ NextNumber(exec) <= NextNumber(exec')
      /\ NextNumber(exec') \in Nat /\ NextNumber(exec) \in Nat
      /\ Gapless(exec') /\ flow'.action = flow.action
  BY <1>0 DEF Onward
<1>2. ASSUME NEW n \in Numbers, exec[n] = "failed", n \notin dropped
      PROVE  \E m \in (n + 1) .. NextNumber(exec') : m <= Limit => row'[<<m, 0>>].status # "absent"
  <2>1. PICK m \in (n + 1) .. NextNumber(exec) : m <= Limit => row[<<m, 0>>].status # "absent"
    BY <1>0, <1>2 DEF Followed
  <2>2. m \in (n + 1) .. NextNumber(exec') /\ m \in Nat \ {0}
    BY <1>1, <2>1 DEF Numbers
  <2>3. m <= Limit => <<m, 0>> \in Jobs
    BY <2>2, JobShape
  <2> QED
    BY <1>1, <2>1, <2>2, <2>3
<1>3. CASE Still
  <2>1. exec' = exec /\ dropped' = dropped
    BY <1>3 DEF Still
  <2>2. ASSUME NEW j \in Jobs, row'[j].status # "absent", row[j].status = "absent",
               NEW m \in Numbers, m < Attempt(j)
        PROVE  exec'[m] # "none"
    <3>1. PICK i \in Jobs : Asking(i)
      BY <1>3, <2>2 DEF Still
    <3>2. row[i].status # "absent" /\ Attempt(j) = Attempt(i)
      BY <2>2, <3>1 DEF Asking, Attempt
    <3> QED
      BY <1>0, <2>1, <2>2, <3>2 DEF Reached
  <2>3. Reached'
    BY <1>0, <2>1, <2>2 DEF Reached
  <2>4. LeadsRun'
    BY <1>0, <1>1, <2>1 DEF LeadsRun
  <2>5. Followed'
    BY <1>2, <2>1 DEF Followed
  <2> QED
    BY <1>1, <2>3, <2>4, <2>5
<1>4. CASE Records
  <2>1. PICK n \in Numbers, r \in {"running"} \cup Results, m \in Nat \ {0},
             f \in {"running", "lost"} \cup Results : Recording(n, r, m, f)
    BY <1>4 DEF Records
  <2>2. /\ exec' = [exec EXCEPT ![n] = r]
        /\ r = "running" => flow.action = "create_crm_lead"
        /\ Follows(n, r, f)
        /\ m \in (n + 1) .. NextNumber(exec')
        /\ \A j \in Jobs : row'[j].status # "absent" <=>
             row[j].status # "absent" \/ (f = "failed" /\ j = <<m, 0>>)
    BY <2>1 DEF Recording
  <2>3. exec'[n] = r /\ \A k \in Numbers \ {n} : exec'[k] = exec[k]
    BY <1>0, <2>2 DEF TypeOK
  <2>4. \A k \in Numbers : k < m => exec'[k] # "none"
    <3>1. \A k \in Numbers : exec'[k] # "none" <=> k < NextNumber(exec')
      BY <1>1, NextShape
    <3>2. PICK p \in Nat : p = NextNumber(exec')
      BY <1>1
    <3>3. m <= p
      BY <2>2, <3>2
    <3> QED
      BY <3>1, <3>2, <3>3 DEF Numbers
  <2>5. Reached'
    <3> SUFFICES ASSUME NEW j \in Jobs, row'[j].status # "absent", NEW k \in Numbers, k < Attempt(j)
                 PROVE  exec'[k] # "none"
      BY DEF Reached
    <3>1. CASE row[j].status # "absent"
      BY <1>0, <1>1, <3>1 DEF Reached
    <3>2. CASE j = <<m, 0>>
      BY <2>4, <3>2 DEF Attempt
    <3> QED
      BY <2>2, <3>1, <3>2
  <2>6. LeadsRun'
    BY <1>0, <1>1, <2>2, <2>3 DEF LeadsRun
  <2>7. Followed'
    <3> SUFFICES ASSUME NEW k \in Numbers, exec'[k] = "failed", k \notin dropped'
                 PROVE  \E i \in (k + 1) .. NextNumber(exec') : i <= Limit => row'[<<i, 0>>].status # "absent"
      BY DEF Followed
    <3>1. CASE k # n
      <4>1. exec[k] = "failed" /\ k \notin dropped
        BY <2>2, <2>3, <3>1 DEF Follows
      <4> QED
        BY <1>2, <4>1
    <3>2. CASE k = n
      <4>1. f = "failed"
        BY <2>2, <2>3, <3>2 DEF Follows
      <4>2. m <= Limit => <<m, 0>> \in Jobs
        BY JobShape
      <4>3. m <= Limit => row'[<<m, 0>>].status # "absent"
        BY <2>2, <4>1, <4>2
      <4> QED
        BY <2>2, <3>2, <4>3
    <3> QED
      BY <3>1, <3>2
  <2> QED
    BY <1>1, <2>5, <2>6, <2>7
<1> QED
  BY <1>0, <1>3, <1>4

(* Runs are counted with the execution they bring about. *)
LEMMA RanStep ==
  ASSUME AutomationAssumption, Inv, [Next]_vars
  PROVE  RanIsFound' /\ OneExecutionPerJob'
<1>0. TypeOK /\ RanIsFound /\ OneExecutionPerJob /\ Onward /\ (Records \/ Still)
  BY RecordsOrNot, OnwardStep DEF Inv
<1>1. \A n \in Numbers : exec[n] # "none" => exec'[n] # "none"
  BY <1>0 DEF Onward
<1>2. ASSUME ran' = ran
      PROVE  RanIsFound' /\ OneExecutionPerJob'
  BY <1>0, <1>1, <1>2, JobShape DEF RanIsFound, OneExecutionPerJob
<1>3. ASSUME NEW n \in Numbers, NEW r \in {"running"} \cup Results, NEW m, NEW f, Recording(n, r, m, f),
             NEW j \in Jobs, Attempt(j) <= n, exec[n] = "none", ran' = [ran EXCEPT ![j] = 1]
      PROVE  RanIsFound' /\ OneExecutionPerJob'
  <2>1. exec' = [exec EXCEPT ![n] = r] /\ \A k \in Numbers : k < n => exec[k] # "none"
    BY <1>3 DEF Recording
  <2>2. Attempt(j) \in Numbers
    BY JobShape
  <2>3. exec'[n] # "none"
    BY <1>0, <2>1 DEF TypeOK, Results
  <2>4. exec'[Attempt(j)] # "none"
    <3>1. Attempt(j) = n \/ Attempt(j) < n
      BY <1>3, <2>2 DEF Numbers, AutomationAssumption
    <3> QED
      BY <1>1, <2>1, <2>2, <2>3, <3>1
  <2>5. ran'[j] = 1 /\ \A i \in Jobs \ {j} : ran'[i] = ran[i]
    BY <1>0, <1>3 DEF TypeOK
  <2>6. RanIsFound'
    BY <1>0, <1>1, <2>4, <2>5, JobShape DEF RanIsFound
  <2>7. OneExecutionPerJob'
    BY <1>0, <2>5 DEF OneExecutionPerJob
  <2> QED
    BY <2>6, <2>7
<1> QED
  BY <1>0, <1>2, <1>3 DEF Records, Still

(* What ended jobs are called stays so. *)
LEMMA EndsStep ==
  ASSUME AutomationAssumption, Inv, [Next]_vars
  PROVE  EndedIsExecuted'
<1>0. TypeOK /\ EndedIsExecuted /\ Onward /\ Kinds /\ \A v \in Workers : Relies(v)
  BY OnwardStep, KindOfStep DEF Inv
<1>1. /\ \A n \in Numbers : exec[n] # "none" => exec'[n] # "none"
      /\ \A n \in Numbers : exec[n] \in Results => exec'[n] = exec[n]
      /\ flow'.action = flow.action
      /\ "success" \in Results /\ "failed" \in Results
  BY <1>0 DEF Onward, Results
<1>2. ASSUME NEW j \in Jobs, NEW status, Truly(j, status)
      PROVE  Truly(j, status)'
  BY <1>1, <1>2 DEF Truly
<1>3. \A j \in Jobs : Truly(j, row[j].status)
  BY <1>0 DEF EndedIsExecuted, Truly
<1>4. ASSUME \A j \in Jobs : row'[j].status = row[j].status
                \/ row'[j].status \notin {"succeeded", "failed", "unfinished"}
                \/ \E n \in Numbers : n >= Attempt(j) /\
                     \/ /\ row'[j].status \in {"succeeded", "failed"}
                        /\ row'[j].status = StatusAfter(exec'[n])
                        /\ exec'[n] \in Results
                     \/ Truly(j, row'[j].status)
      PROVE  EndedIsExecuted'
  <2> SUFFICES ASSUME NEW j \in Jobs
               PROVE  /\ row'[j].status = "succeeded" => \E n \in Numbers : n >= Attempt(j) /\ exec'[n] = "success"
                      /\ row'[j].status = "failed" => \E n \in Numbers : n >= Attempt(j) /\ exec'[n] = "failed"
                      /\ row'[j].status = "unfinished" =>
                           /\ flow'.action = "create_crm_lead"
                           /\ \E n \in Numbers : n >= Attempt(j) /\ exec'[n] # "none"
    BY DEF EndedIsExecuted
  <2>1. PICK status : status = row'[j].status
    OBVIOUS
  <2>2. CASE Truly(j, status)
    <3>1. Truly(j, status)'
      BY <1>2, <2>2
    <3> QED
      BY <2>1, <3>1 DEF Truly
  <2>3. CASE status = row[j].status
    <3>1. Truly(j, status)
      BY <1>3, <2>3
    <3> QED
      BY <2>2, <3>1
  <2>4. ASSUME NEW n \in Numbers, n >= Attempt(j), exec'[n] \in Results, status = StatusAfter(exec'[n]),
               status \in {"succeeded", "failed"}
        PROVE  /\ status = "succeeded" => exec'[n] = "success"
               /\ status = "failed" => exec'[n] = "failed"
    BY <2>4, StatusShape
  <2> QED
    BY <1>4, <2>1, <2>2, <2>3, <2>4
<1>5. ASSUME NEW w \in Workers, NEW r \in {"running"} \cup Results, NEW status \in {"running"} \cup Ended,
             NEW m \in Nat \ {0}, NEW f \in {"running", "lost"} \cup Results,
             Writes(w, r, status, m, f)
      PROVE  EndedIsExecuted'
  <2>1. PICK j \in Jobs, n \in Numbers : j = work[w].job /\ n = work[w].next
    BY <1>5, WriteShape
  <2>2. /\ Attempt(j) <= n /\ Attempt(j) \in Numbers
        /\ row'[j].status = status
        /\ \A i \in Jobs \ {j} : row'[i] = row[i] \/ row'[i].status = "scheduled"
    BY <1>5, <2>1, WriteShape
  <2>3. /\ exec' = [exec EXCEPT ![n] = r]
        /\ \/ r # "running" /\ status \in {StatusAfter(r), "scheduler_error"}
           \/ status = "running"
    BY <1>5, <2>1 DEF Writes
  <2>4. exec'[n] = r /\ n >= Attempt(j)
    BY <1>0, <2>2, <2>3 DEF TypeOK, Numbers, AutomationAssumption
  <2>5. r # "running" => r \in Results /\ StatusAfter(r) # "unfinished"
    BY StatusShape
  <2> QED
    BY <1>4, <2>2, <2>3, <2>4, <2>5
<1>6. ASSUME NEW w \in Workers, NEW status \in {"scheduled"} \cup Ended, LetsGo(w, status)
      PROVE  EndedIsExecuted'
  <2>1. /\ work[w].job \in Jobs /\ row'[work[w].job].status = status
        /\ \A j \in Jobs \ {work[w].job} : row'[j] = row[j]
        /\ Truly(work[w].job, status)
    BY <1>0, <1>6, CommitShape, JobInHand DEF LetsGo
  <2>2. Attempt(work[w].job) \in Numbers /\ Attempt(work[w].job) >= Attempt(work[w].job)
    BY <2>1, JobShape DEF Numbers, AutomationAssumption
  <2> QED
    BY <1>4, <2>1, <2>2
<1>7. ASSUME NEW n \in Numbers, NEW r \in {"running"} \cup Results, NEW m \in Nat \ {0}, Retries(n, r, m)
      PROVE  EndedIsExecuted'
  <2>1. \A i \in Jobs : row'[i] = row[i] \/ row'[i].status = "scheduled"
    BY <1>7, RetryShape
  <2> QED
    BY <1>4, <2>1
<1>8. ASSUME NEW w \in Workers, NEW js \in SUBSET Jobs, ClaimBatch(w, js)
      PROVE  EndedIsExecuted'
  <2>1. \A i \in Jobs : row'[i] = row[i] \/ row'[i].status \in {"leased", "scheduled", "dead_letter"}
    BY <1>0, <1>8, ClaimShape
  <2> QED
    BY <1>4, <2>1
<1>9. ASSUME NEW i \in Jobs, NEW x \in Row, row' = [row EXCEPT ![i] = x],
             x.status \in {row[i].status, "scheduled", "cancelled"}
      PROVE  EndedIsExecuted'
  <2>1. row'[i].status \in {row[i].status, "scheduled", "cancelled"}
        /\ \A k \in Jobs \ {i} : row'[k] = row[k]
    BY <1>0, <1>9 DEF TypeOK
  <2>2. \A k \in Jobs : row'[k].status = row[k].status
                        \/ row'[k].status \notin {"succeeded", "failed", "unfinished"}
    BY <2>1
  <2> QED
    BY <1>4, <2>2
<1>10. ASSUME NEW j \in Jobs, Expire(j)
       PROVE  EndedIsExecuted'
  <2>0. row[j] \in Row
    BY <1>0 DEF TypeOK
  <2>1. [row[j] EXCEPT !.expired = TRUE] \in Row /\ [row[j] EXCEPT !.expired = TRUE].status = row[j].status
    BY <2>0 DEF Row
  <2>2. row' = [row EXCEPT ![j] = [row[j] EXCEPT !.expired = TRUE]]
    BY <1>10 DEF Expire
  <2> QED
    BY <1>9, <2>1, <2>2
<1>11. ASSUME NEW j \in Jobs, Requeue(j)
       PROVE  EndedIsExecuted'
  <2> DEFINE child == <<Attempt(j), j[2] + 1>>
  <2>1. child \in Jobs
    BY <1>11, JobShape DEF Requeue, AutomationAssumption
  <2>2. row' = [row EXCEPT ![child] = [row[child] EXCEPT !.status = "scheduled"]]
    BY <1>11 DEF Requeue
  <2> HIDE DEF child
  <2>3. row[child] \in Row
    BY <1>0, <2>1 DEF TypeOK
  <2>4. [row[child] EXCEPT !.status = "scheduled"] \in Row
        /\ [row[child] EXCEPT !.status = "scheduled"].status = "scheduled"
    BY <2>3, RowShape DEF Statuses
  <2> QED
    BY <1>9, <2>1, <2>2, <2>4
<1>12. ASSUME NEW o \in Operators, Cancel(o)
       PROVE  EndedIsExecuted'
  <2>1. request[o] \in Jobs /\ row' = [row EXCEPT ![request[o]] = [row[request[o]] EXCEPT !.status = "cancelled"]]
    BY <1>0, <1>12 DEF Cancel, TypeOK
  <2>2. row[request[o]] \in Row
    BY <1>0, <2>1 DEF TypeOK
  <2>3. [row[request[o]] EXCEPT !.status = "cancelled"] \in Row
        /\ [row[request[o]] EXCEPT !.status = "cancelled"].status = "cancelled"
    BY <2>2, RowShape DEF Statuses, Ended
  <2> QED
    BY <1>9, <2>1, <2>3
<1>13. ASSUME row' = row
       PROVE  EndedIsExecuted'
  BY <1>4, <1>13
<1>14. ASSUME NEW w \in Workers, NEW j \in Jobs, NEW n \in Nat, NEW at, Moves(w, j, at, n)
       PROVE  row' = row
  BY <1>14 DEF Moves
<1>15. ASSUME NEW w \in Workers, Crash(w)
       PROVE  row' = row
  BY <1>15 DEF Crash
<1>16. ASSUME NEW o \in Operators, NEW j \in Jobs, AskCancel(o, j)
       PROVE  row' = row
  BY <1>16 DEF AskCancel
<1> QED
  BY <1>0, <1>5, <1>6, <1>7, <1>8, <1>10, <1>11, <1>12, <1>13, <1>14, <1>15, <1>16 DEF Kinds

(* A worker whose own work, locked job and runs of it are left alone can go
   on relying on what it did.                                               *)
LEMMA LeftAlone ==
  ASSUME TypeOK, Onward, NEW v \in Workers, Relies(v), work'[v] = work[v],
         \A i \in Jobs : lock[i] = v => lock'[i] = v /\ ran'[i] = ran[i]
  PROVE  Relies(v)'
<1> SUFFICES ASSUME work[v].at # "idle"
             PROVE  Relies(v)'
  BY DEF Relies
<1>1. work[v].job \in Jobs
  BY DEF TypeOK, Work
<1>2. row[work[v].job].status # "absent" => row'[work[v].job].status # "absent"
  BY <1>1 DEF Onward
<1>3. work[v].at \in {"flushed", "evaluated", "numbered"} => lock'[work[v].job] = v
  BY <1>1 DEF Relies
<1>4. work[v].at \in {"evaluated", "numbered"} => ran'[work[v].job] = 0
  BY <1>1 DEF Relies
<1>5. \A m \in Numbers : exec[m] # "none" => exec'[m] # "none"
  BY DEF Onward
<1> QED
  BY <1>2, <1>3, <1>4, <1>5 DEF Relies

(* The step of one worker leaves the others alone. *)
LEMMA OthersRely ==
  ASSUME TypeOK, Onward, NEW w \in Workers,
         \A v \in Workers : Relies(v),
         \A v \in Workers \ {w} : work'[v] = work[v],
         \A i \in Jobs : lock[i] \in Workers \ {w} => lock'[i] = lock[i] /\ ran'[i] = ran[i],
         Relies(w)'
  PROVE  \A v \in Workers : Relies(v)'
<1> SUFFICES ASSUME NEW v \in Workers \ {w}
             PROVE  Relies(v)'
  OBVIOUS
<1> QED
  BY LeftAlone

LEMMA RelyStep ==
  ASSUME AutomationAssumption, Inv, [Next]_vars
  PROVE  \A v \in Workers : Relies(v)'
<1>0. /\ TypeOK /\ Counted /\ RanIsFound /\ Reached /\ Kinds /\ Onward
      /\ \A v \in Workers : Relies(v)
      /\ None \notin Workers
  BY KindOfStep, OnwardStep DEF Inv, AutomationAssumption
<1>1. /\ \A n \in Numbers : exec[n] # "none" => exec'[n] # "none"
      /\ \A j \in Jobs : row[j].status # "absent" => row'[j].status # "absent"
  BY <1>0 DEF Onward
<1>2. ASSUME work' = work, lock' = lock, ran' = ran
      PROVE  \A v \in Workers : Relies(v)'
  BY <1>0, <1>2, LeftAlone
<1>3. ASSUME NEW w \in Workers, work' = [work EXCEPT ![w] = Idle], ran' = ran,
             \A i \in Jobs : lock[i] \in Workers \ {w} => lock'[i] = lock[i]
      PROVE  \A v \in Workers : Relies(v)'
  <2>1. work'[w].at = "idle" /\ \A v \in Workers \ {w} : work'[v] = work[v]
    BY <1>0, <1>3, IdleType
  <2>2. Relies(w)'
    BY <2>1 DEF Relies
  <2> QED
    BY <1>0, <1>3, <2>1, <2>2, OthersRely
<1>4. ASSUME NEW w \in Workers, NEW j \in Jobs, NEW n \in Nat,
             NEW at \in {"checked", "flushed", "evaluated", "numbered"}, Moves(w, j, at, n)
      PROVE  \A v \in Workers : Relies(v)'
  <2>1. /\ work'[w].at = at /\ work'[w].job = j /\ work'[w].next = n
        /\ \A v \in Workers \ {w} : work'[v] = work[v]
    BY <1>0, <1>4, GotoType DEF Moves
  <2>2. exec' = exec /\ row' = row /\ ran' = ran
    BY <1>4 DEF Moves
  <2>3. CASE at = "checked"
    <3>1. row[j].status # "absent" /\ lock' = lock
      BY <1>4, <2>3 DEF Moves
    <3>2. Relies(w)'
      BY <2>1, <2>2, <2>3, <3>1 DEF Relies
    <3> QED
      BY <1>0, <2>1, <2>2, <3>1, <3>2, OthersRely
  <2>4. CASE at = "flushed"
    <3>1. /\ work[w].at = "checked" /\ j = work[w].job
          /\ lock[j] = None /\ lock' = [lock EXCEPT ![j] = w]
      BY <1>4, <2>4 DEF Moves
    <3>2. row[j].status # "absent"
      BY <1>0, <3>1 DEF Relies
    <3>3. lock'[j] = w /\ \A i \in Jobs \ {j} : lock'[i] = lock[i]
      BY <1>0, <3>1 DEF TypeOK
    <3>4. \A i \in Jobs : lock[i] \in Workers \ {w} => lock'[i] = lock[i] /\ ran'[i] = ran[i]
      BY <1>0, <2>2, <3>1, <3>3
    <3>5. Relies(w)'
      BY <2>1, <2>2, <2>4, <3>2, <3>3 DEF Relies
    <3> QED
      BY <1>0, <2>1, <3>4, <3>5, OthersRely
  <2>5. CASE at = "evaluated"
    <3>1. /\ work[w].at = "flushed" /\ j = work[w].job
          /\ exec[Attempt(j)] = "none" /\ lock' = lock
      BY <1>4, <2>5 DEF Moves
    <3>2. ran[j] \in Nat /\ ~(ran[j] > 0)
      BY <1>0, <3>1 DEF RanIsFound, TypeOK
    <3>3. ran[j] = 0
      BY <3>2
    <3>4. row[j].status # "absent" /\ lock[j] = w
      BY <1>0, <3>1 DEF Relies
    <3>5. Relies(w)'
      BY <2>1, <2>2, <2>5, <3>1, <3>3, <3>4 DEF Relies
    <3> QED
      BY <1>0, <2>1, <2>2, <3>1, <3>5, OthersRely
  <2>6. CASE at = "numbered"
    <3>1. /\ work[w].at = "evaluated" /\ j = work[w].job
          /\ n = NextNumber(exec) /\ n <= Limit /\ lock' = lock
      BY <1>4, <2>6 DEF Moves
    <3>2. \A m \in Numbers : exec[m] # "none" <=> m < n
      BY <1>0, <3>1, NextShape DEF Counted
    <3>3. row[j].status # "absent" /\ lock[j] = w /\ ran[j] = 0
      BY <1>0, <3>1 DEF Relies
    <3>4. \A m \in Numbers : m < Attempt(j) => exec[m] # "none"
      BY <1>0, <3>3 DEF Reached
    <3>5. Attempt(j) \in Numbers
      BY JobShape
    <3>6. n \in Numbers
      <4>1. NextNumber(exec) \in Nat \ {0}
        BY <1>0, NextShape DEF Counted
      <4>2. n \in Nat \ {0} /\ n <= Limit
        BY <3>1, <4>1
      <4> QED
        BY <4>2 DEF Numbers, AutomationAssumption
    <3>7. Attempt(j) <= n
      <4>1. ~(n < Attempt(j))
        BY <3>2, <3>4, <3>6 DEF Numbers, AutomationAssumption
      <4> QED
        BY <3>5, <3>6, <4>1 DEF Numbers, AutomationAssumption
    <3>8. Relies(w)'
      BY <2>1, <2>2, <2>6, <3>1, <3>2, <3>3, <3>7 DEF Relies
    <3> QED
      BY <1>0, <2>1, <2>2, <3>1, <3>8, OthersRely
  <2> QED
    BY <2>3, <2>4, <2>5, <2>6
<1>5. ASSUME NEW w \in Workers, NEW r \in {"running"} \cup Results, NEW status \in {"running"} \cup Ended,
             NEW m \in Nat \ {0}, NEW f \in {"running", "lost"} \cup Results,
             Writes(w, r, status, m, f)
      PROVE  \A v \in Workers : Relies(v)'
  <2>0. PICK j \in Jobs, n \in Numbers : j = work[w].job /\ n = work[w].next
    BY <1>5, WriteShape
  <2>1. /\ row[j].status # "absent" /\ Attempt(j) <= n
        /\ \A k \in Numbers : k < n => exec[k] # "none"
        /\ lock[j] \in {w, None}
        /\ \A i \in Jobs \ {j} : lock'[i] = lock[i]
        /\ \/ ran' = ran
           \/ lock[j] = w /\ ran' = [ran EXCEPT ![j] = 1]
        /\ \A v \in Workers \ {w} : work'[v] = work[v]
        /\ \/ work'[w].at = "idle"
           \/ work'[w].at = "started" /\ work'[w].job = j /\ work'[w].next = n
    BY <1>5, <2>0, WriteShape
  <2>2. \A i \in Jobs \ {j} : ran'[i] = ran[i]
    BY <1>0, <2>1 DEF TypeOK
  <2>3. \A i \in Jobs : lock[i] \in Workers \ {w} => lock'[i] = lock[i] /\ ran'[i] = ran[i]
    BY <1>0, <2>1, <2>2
  <2>4. row'[j].status # "absent" /\ \A k \in Numbers : k < n => exec'[k] # "none"
    BY <1>1, <2>1
  <2>5. Relies(w)'
    BY <2>1, <2>4 DEF Relies
  <2> QED
    BY <1>0, <2>1, <2>3, <2>5, OthersRely
<1>6. ASSUME NEW w \in Workers, NEW status \in {"scheduled"} \cup Ended, LetsGo(w, status)
      PROVE  \A v \in Workers : Relies(v)'
  <2>1. lock[work[w].job] = w /\ work' = [work EXCEPT ![w] = Idle] /\ ran' = ran
        /\ \A i \in Jobs \ {work[w].job} : lock'[i] = lock[i]
    BY <1>0, <1>6, CommitShape DEF LetsGo, Relies, Commit
  <2>2. \A i \in Jobs : lock[i] \in Workers \ {w} => lock'[i] = lock[i]
    BY <2>1
  <2> QED
    BY <1>3, <2>1, <2>2
<1>7. ASSUME NEW w \in Workers, Crash(w)
      PROVE  \A v \in Workers : Relies(v)'
  BY <1>3, <1>7 DEF Crash
<1>8. ASSUME NEW n \in Numbers, NEW r, NEW m, Retries(n, r, m)
      PROVE  work' = work /\ lock' = lock /\ ran' = ran
  BY <1>8 DEF Retries
<1>9. ASSUME NEW w \in Workers, NEW js \in SUBSET Jobs, ClaimBatch(w, js)
      PROVE  work' = work /\ lock' = lock /\ ran' = ran
  BY <1>9 DEF ClaimBatch
<1>10. ASSUME NEW j \in Jobs, Expire(j) \/ Requeue(j)
       PROVE  work' = work /\ lock' = lock /\ ran' = ran
  BY <1>10 DEF Expire, Requeue
<1>11. ASSUME NEW o \in Operators, (\E j \in Jobs : AskCancel(o, j)) \/ Cancel(o)
       PROVE  work' = work /\ lock' = lock /\ ran' = ran
  BY <1>11 DEF AskCancel, Cancel
<1> QED
  BY <1>0, <1>2, <1>4, <1>5, <1>6, <1>7, <1>8, <1>9, <1>10, <1>11 DEF Kinds

(* A started execution keeps running until the one that started it ends it. *)
LEMMA StartedStep ==
  ASSUME AutomationAssumption, Inv, [Next]_vars
  PROVE  Started'
<1>0. /\ TypeOK /\ Started /\ Numbered /\ Kinds
      /\ "none" # "running" /\ "running" \notin Results
  BY KindOfStep DEF Inv, Results
<1>1. ASSUME \A v \in Workers : work'[v] = work[v] \/ work'[v].at # "started",
             exec' = exec, manual' = manual
      PROVE  Started'
  BY <1>0, <1>1 DEF Started
<1>2. ASSUME NEW w \in Workers, NEW j \in Jobs, NEW n \in Nat,
             NEW at \in {"checked", "flushed", "evaluated", "numbered"}, Moves(w, j, at, n)
      PROVE  Started'
  <2>1. work'[w].at # "started" /\ \A v \in Workers \ {w} : work'[v] = work[v]
    BY <1>0, <1>2, GotoType DEF Moves
  <2> QED
    BY <1>1, <1>2, <2>1 DEF Moves
<1>3. ASSUME NEW w \in Workers, work' = [work EXCEPT ![w] = Idle], exec' = exec, manual' = manual
      PROVE  Started'
  <2>1. work'[w].at # "started" /\ \A v \in Workers \ {w} : work'[v] = work[v]
    BY <1>0, <1>3, IdleType
  <2> QED
    BY <1>1, <1>3, <2>1
<1>4. ASSUME NEW w \in Workers, NEW r \in {"running"} \cup Results, NEW status \in {"running"} \cup Ended,
             NEW m \in Nat \ {0}, NEW f \in {"running", "lost"} \cup Results,
             Writes(w, r, status, m, f)
      PROVE  Started'
  <2>0. PICK j \in Jobs, n \in Numbers : j = work[w].job /\ n = work[w].next
    BY <1>4, WriteShape
  <2>1. /\ exec[n] = "none" \/ work[w].at = "started"
        /\ exec' = [exec EXCEPT ![n] = r] /\ manual' = manual
    BY <1>4, <2>0 DEF Writes
  <2>2. /\ \A v \in Workers \ {w} : work'[v] = work[v]
        /\ \/ work'[w].at = "idle"
           \/ work'[w].at = "started" /\ work'[w].job = j /\ work'[w].next = n
              /\ r = "running" /\ exec[n] = "none"
    BY <1>4, <2>0, WriteShape
  <2>3. exec'[n] = r /\ \A k \in Numbers \ {n} : exec'[k] = exec[k]
    BY <1>0, <2>1 DEF TypeOK
  <2>4. n \notin manual /\ \A v \in Workers \ {w} : work[v].at = "started" => work[v].next # n
    <3>1. CASE exec[n] = "none"
      BY <1>0, <3>1 DEF Started
    <3>2. CASE work[w].at = "started"
      BY <1>0, <2>0, <3>2 DEF Started
    <3> QED
      BY <2>1, <3>1, <3>2
  <2>5. \A k \in manual' : exec'[k] = "running"
    BY <1>0, <2>1, <2>3, <2>4 DEF Started, TypeOK
  <2>6. ASSUME NEW v \in Workers, work'[v].at = "started"
        PROVE  /\ exec'[work'[v].next] = "running" /\ work'[v].next \notin manual'
               /\ \A u \in Workers \ {v} : work'[u].at = "started" => work'[u].next # work'[v].next
    <3>1. CASE v = w
      <4>1. work'[v].next = n /\ r = "running"
        BY <2>2, <2>6, <3>1
      <4>2. \A u \in Workers \ {v} : work'[u] = work[u]
        BY <2>2, <3>1
      <4> QED
        BY <2>1, <2>3, <2>4, <3>1, <4>1, <4>2
    <3>2. CASE v # w
      <4>1. work'[v] = work[v] /\ work[v].next # n /\ work[v].next \in Numbers
        BY <1>0, <2>2, <2>4, <2>6, <3>2 DEF Numbered
      <4>2. exec[work[v].next] = "running" /\ work[v].next \notin manual
            /\ \A u \in Workers \ {v} : work[u].at = "started" => work[u].next # work[v].next
        BY <1>0, <2>6, <4>1 DEF Started
      <4>3. \A u \in Workers \ {v} : work'[u].at = "started" => work'[u].next # work'[v].next
        BY <2>2, <4>1, <4>2
      <4> QED
        BY <2>1, <2>3, <4>1, <4>2, <4>3
    <3> QED
      BY <3>1, <3>2
  <2> QED
    BY <2>5, <2>6 DEF Started
<1>5. ASSUME NEW n \in Numbers, NEW r \in {"running"} \cup Results, NEW m \in Nat \ {0}, Retries(n, r, m)
      PROVE  Started'
  <2>1. /\ exec' = [exec EXCEPT ![n] = r] /\ work' = work
        /\ manual' = IF r = "running" THEN manual \cup {n} ELSE manual \ {n}
    BY <1>5 DEF Retries
  <2>2. exec[n] = "none" \/ n \in manual
    BY <1>5, RetryShape
  <2>3. exec'[n] = r /\ \A k \in Numbers \ {n} : exec'[k] = exec[k]
    BY <1>0, <2>1 DEF TypeOK
  <2>4. \A v \in Workers : work[v].at = "started" => work[v].next # n /\ work[v].next \in Numbers
    BY <1>0, <2>2 DEF Started, Numbered
  <2>5. \A k \in manual' : exec'[k] = "running"
    BY <1>0, <2>1, <2>3 DEF Started, TypeOK
  <2>6. \A v \in Workers : work'[v].at = "started" =>
          /\ exec'[work'[v].next] = "running" /\ work'[v].next \notin manual'
          /\ \A u \in Workers \ {v} : work'[u].at = "started" => work'[u].next # work'[v].next
    BY <1>0, <2>1, <2>3, <2>4 DEF Started
  <2> QED
    BY <2>5, <2>6 DEF Started
<1>6. ASSUME NEW w \in Workers, NEW status, LetsGo(w, status)
      PROVE  Started'
  BY <1>3, <1>6 DEF LetsGo, Commit
<1>7. ASSUME NEW w \in Workers, Crash(w)
      PROVE  Started'
  BY <1>3, <1>7 DEF Crash
<1>8. ASSUME work' = work, exec' = exec, manual' = manual
      PROVE  Started'
  BY <1>1, <1>8
<1>9. ASSUME NEW w \in Workers, NEW js \in SUBSET Jobs, ClaimBatch(w, js)
      PROVE  Started'
  BY <1>8, <1>9 DEF ClaimBatch
<1>10. ASSUME NEW j \in Jobs, Expire(j) \/ Requeue(j)
       PROVE  Started'
  BY <1>8, <1>10 DEF Expire, Requeue
<1>11. ASSUME NEW o \in Operators, (\E j \in Jobs : AskCancel(o, j)) \/ Cancel(o)
       PROVE  Started'
  BY <1>8, <1>11 DEF AskCancel, Cancel
<1> QED
  BY <1>0, <1>2, <1>4, <1>5, <1>6, <1>7, <1>8, <1>9, <1>10, <1>11 DEF Kinds

(* A job about to be cancelled exists. *)
LEMMA AsksStep ==
  ASSUME AutomationAssumption, Inv, [Next]_vars
  PROVE  Asks'
<1>0. TypeOK /\ Asks /\ Onward /\ Kinds
  BY OnwardStep, KindOfStep DEF Inv
<1>1. \A j \in Jobs : row[j].status # "absent" => row'[j].status # "absent"
  BY <1>0 DEF Onward
<1>2. ASSUME \A o \in Operators : request'[o] \in {request[o], None}
      PROVE  Asks'
  BY <1>0, <1>1, <1>2 DEF Asks, TypeOK
<1>3. ASSUME NEW p \in Operators, NEW j \in Jobs, AskCancel(p, j)
      PROVE  Asks'
  <2>1. request' = [request EXCEPT ![p] = j] /\ row[j].status # "absent" /\ row' = row
    BY <1>3 DEF AskCancel
  <2> QED
    BY <1>0, <1>1, <2>1 DEF TypeOK, Asks
<1>4. ASSUME NEW p \in Operators, Cancel(p)
      PROVE  Asks'
  BY <1>0, <1>2, <1>4 DEF Cancel, TypeOK
<1>5. ASSUME request' = request
      PROVE  Asks'
  BY <1>2, <1>5
<1>6. ASSUME NEW w, NEW j, NEW n, NEW at, Moves(w, j, at, n)
      PROVE  Asks'
  BY <1>5, <1>6 DEF Moves
<1>7. ASSUME NEW w, NEW r, NEW status, NEW m, NEW f, Writes(w, r, status, m, f)
      PROVE  Asks'
  BY <1>5, <1>7 DEF Writes
<1>8. ASSUME NEW n, NEW r, NEW m, Retries(n, r, m)
      PROVE  Asks'
  BY <1>5, <1>8 DEF Retries
<1>9. ASSUME NEW w, NEW status, LetsGo(w, status)
      PROVE  Asks'
  BY <1>5, <1>9 DEF LetsGo
<1>10. ASSUME NEW w \in Workers, Crash(w) \/ (\E js \in SUBSET Jobs : ClaimBatch(w, js))
       PROVE  Asks'
  BY <1>5, <1>10 DEF Crash, ClaimBatch
<1>11. ASSUME NEW j \in Jobs, Expire(j) \/ Requeue(j)
       PROVE  Asks'
  BY <1>5, <1>11 DEF Expire, Requeue
<1> QED
  BY <1>0, <1>3, <1>4, <1>5, <1>6, <1>7, <1>8, <1>9, <1>10, <1>11 DEF Kinds

-----------------------------------------------------------------------------
(* The type invariant *)

LEMMA TypeStep ==
  ASSUME AutomationAssumption, Inv, [Next]_vars
  PROVE  TypeOK' /\ Numbered'
<1>0. /\ TypeOK /\ Numbered /\ Counted /\ Kinds /\ Onward
      /\ None \notin Jobs /\ \A j \in Jobs : row[j] \in Row
  BY KindOfStep, OnwardStep, JobShape DEF Inv, TypeOK
<1>1. exec' \in [Numbers -> {"none", "running"} \cup Results]
  BY <1>0 DEF Onward
<1>2. ASSUME NEW w \in Workers, NEW j \in Jobs, NEW n \in Nat,
             NEW at \in {"checked", "flushed", "evaluated", "numbered"}, Moves(w, j, at, n)
      PROVE  TypeOK' /\ Numbered'
  <2>1. /\ work' \in [Workers -> Work]
        /\ \A v \in Workers : work'[v].at = "idle" <=> work'[v].job = None
        /\ work'[w].at = at /\ work'[w].next = n
        /\ \A v \in Workers \ {w} : work'[v] = work[v]
    BY <1>0, <1>2, GotoType DEF Moves
  <2>2. at = "numbered" => n \in Numbers
    <3>1. NextNumber(exec) \in Nat \ {0}
      BY <1>0, NextShape DEF Counted
    <3>2. at = "numbered" => n \in Nat \ {0} /\ n <= Limit
      BY <1>2, <3>1 DEF Moves
    <3> QED
      BY <3>2 DEF Numbers, AutomationAssumption
  <2>3. Numbered'
    BY <1>0, <2>1, <2>2 DEF Numbered
  <2>4. lock' = lock \/ lock' = [lock EXCEPT ![j] = w]
    BY <1>2 DEF Moves
  <2>5. TypeOK'
    BY <1>0, <1>2, <2>1, <2>4 DEF Moves, TypeOK, bounds
  <2> QED
    BY <2>3, <2>5
<1>3. ASSUME NEW w \in Workers, Crash(w)
      PROVE  TypeOK' /\ Numbered'
  <2>1. /\ work' \in [Workers -> Work]
        /\ \A v \in Workers : work'[v].at = "idle" <=> work'[v].job = None
        /\ work'[w].at = "idle"
        /\ \A v \in Workers \ {w} : work'[v] = work[v]
    BY <1>0, <1>3, IdleType DEF Crash
  <2>2. Numbered'
    BY <1>0, <2>1 DEF Numbered
  <2>3. TypeOK'
    BY <1>0, <1>3, <2>1 DEF Crash, Trouble, TypeOK
  <2> QED
    BY <2>2, <2>3
<1>4. ASSUME NEW w \in Workers, NEW status \in {"scheduled"} \cup Ended, LetsGo(w, status)
      PROVE  TypeOK' /\ Numbered'
  <2>1. /\ work' \in [Workers -> Work]
        /\ \A v \in Workers : work'[v].at = "idle" <=> work'[v].job = None
        /\ work'[w].at = "idle"
        /\ \A v \in Workers \ {w} : work'[v] = work[v]
    BY <1>0, <1>4, IdleType DEF LetsGo, Commit
  <2>2. row' \in [Jobs -> Row] /\ lock' \in [Jobs -> Workers \cup {None}]
    BY <1>0, <1>4, CommitShape DEF LetsGo
  <2>3. Numbered'
    BY <1>0, <2>1 DEF Numbered
  <2>4. TypeOK'
    BY <1>0, <1>4, <2>1, <2>2 DEF LetsGo, TypeOK
  <2> QED
    BY <2>3, <2>4
<1>5. ASSUME NEW w \in Workers, NEW r \in {"running"} \cup Results, NEW status \in {"running"} \cup Ended,
             NEW m \in Nat \ {0}, NEW f \in {"running", "lost"} \cup Results,
             Writes(w, r, status, m, f)
      PROVE  TypeOK' /\ Numbered'
  <2>0. PICK j \in Jobs, n \in Numbers : j = work[w].job /\ n = work[w].next
    BY <1>5, WriteShape
  <2>1. /\ row' \in [Jobs -> Row] /\ lock' \in [Jobs -> Workers \cup {None}]
        /\ ran' = ran \/ ran' = [ran EXCEPT ![j] = 1]
        /\ work' \in [Workers -> Work]
        /\ \A v \in Workers : work'[v].at = "idle" <=> work'[v].job = None
        /\ \A v \in Workers \ {w} : work'[v] = work[v]
        /\ work'[w].at = "idle" \/ work'[w].next = n
        /\ Recording(n, r, m, f)
    BY <1>5, <2>0, WriteShape
  <2>2. ran' \in [Jobs -> Nat]
    BY <1>0, <2>1 DEF TypeOK
  <2>3. dropped' \subseteq Numbers
    BY <1>0, <2>1 DEF Recording, Follows, TypeOK
  <2>4. /\ flow' = flow /\ batch' = batch /\ request' = request /\ manual' = manual
        /\ requests' = requests /\ troubles' \in Nat
    BY <1>5 DEF Writes
  <2>5. TypeOK'
    BY <1>0, <1>1, <2>1, <2>2, <2>3, <2>4 DEF TypeOK
  <2>6. Numbered'
    BY <1>0, <2>1 DEF Numbered
  <2> QED
    BY <2>5, <2>6
<1>6. ASSUME NEW n \in Numbers, NEW r \in {"running"} \cup Results, NEW m \in Nat \ {0}, Retries(n, r, m)
      PROVE  TypeOK' /\ Numbered'
  <2>1. row' \in [Jobs -> Row]
    BY <1>6, RetryShape
  <2>2. /\ manual' = manual \cup {n} \/ manual' = manual \ {n}
        /\ requests' \in Nat /\ work' = work
        /\ UNCHANGED <<flow, lock, batch, request, ran, dropped, troubles>>
    BY <1>6 DEF Retries
  <2>3. manual' \subseteq Numbers
    BY <1>0, <2>2 DEF TypeOK
  <2> QED
    BY <1>0, <1>1, <2>1, <2>2, <2>3 DEF TypeOK, Numbered
<1>7. ASSUME NEW w \in Workers, NEW js \in SUBSET Jobs, ClaimBatch(w, js)
      PROVE  TypeOK' /\ Numbered'
  <2>1. \A j \in Jobs : row'[j] \in Row
    BY <1>0, <1>7, ClaimShape
  <2>2. row' \in [Jobs -> Row]
    BY <1>7, <2>1 DEF ClaimBatch
  <2> QED
    BY <1>0, <1>7, <2>2 DEF ClaimBatch, TypeOK, Numbered, bounds
<1>8. ASSUME NEW j \in Jobs, Expire(j)
      PROVE  TypeOK' /\ Numbered'
  <2>1. [row[j] EXCEPT !.expired = TRUE] \in Row
    BY <1>0 DEF Row
  <2>2. row' = [row EXCEPT ![j] = [row[j] EXCEPT !.expired = TRUE]]
    BY <1>8 DEF Expire
  <2>3. troubles' \in Nat
    BY <1>0, <1>8 DEF Expire, Trouble, TypeOK
  <2> QED
    BY <1>0, <1>8, <2>1, <2>2, <2>3 DEF Expire, TypeOK, Numbered
<1>9. ASSUME NEW j \in Jobs, Requeue(j)
      PROVE  TypeOK' /\ Numbered'
  <2> DEFINE child == <<Attempt(j), j[2] + 1>>
  <2>1. child \in Jobs
    BY <1>9, JobShape DEF Requeue, Jobs, AutomationAssumption
  <2>2. [row[child] EXCEPT !.status = "scheduled"] \in Row
    BY <1>0, <2>1, RowShape DEF Statuses
  <2>3. row' = [row EXCEPT ![child] = [row[child] EXCEPT !.status = "scheduled"]]
    BY <1>9 DEF Requeue
  <2> HIDE DEF child
  <2>4. row' \in [Jobs -> Row]
    BY <1>0, <2>1, <2>2, <2>3 DEF TypeOK
  <2> QED
    BY <1>0, <1>9, <2>4 DEF Requeue, Asked, TypeOK, Numbered
<1>10. ASSUME NEW o \in Operators, NEW j \in Jobs, AskCancel(o, j)
       PROVE  TypeOK' /\ Numbered'
  BY <1>0, <1>10 DEF AskCancel, Asked, TypeOK, Numbered
<1>11. ASSUME NEW o \in Operators, Cancel(o)
       PROVE  TypeOK' /\ Numbered'
  <2>1. request[o] \in Jobs
    BY <1>0, <1>11 DEF Cancel, TypeOK
  <2>2. [row[request[o]] EXCEPT !.status = "cancelled"] \in Row
    BY <1>0, <2>1, RowShape DEF Ended, Statuses
  <2>3. row' = [row EXCEPT ![request[o]] = [row[request[o]] EXCEPT !.status = "cancelled"]]
    BY <1>11 DEF Cancel
  <2> QED
    BY <1>0, <1>11, <2>1, <2>2, <2>3 DEF Cancel, TypeOK, Numbered, bounds
<1>12. ASSUME flow' \in [status : {"enabled", "paused"}, action : {"create_crm_lead", "other"}],
              batch' \in [Workers -> SUBSET Jobs], troubles' \in Nat,
              UNCHANGED <<exec, row, lock, work, request, manual, ran, dropped, requests>>
       PROVE  TypeOK' /\ Numbered'
  BY <1>0, <1>12 DEF TypeOK, Numbered
<1> QED
  BY <1>0, <1>2, <1>3, <1>4, <1>5, <1>6, <1>7, <1>8, <1>9, <1>10, <1>11, <1>12 DEF Kinds

-----------------------------------------------------------------------------
(* The theorems *)

LEMMA InvInit ==
  ASSUME AutomationAssumption, Init
  PROVE  Inv
<1>0. /\ None \notin Jobs /\ <<1, 0>> \in Jobs /\ Attempt(<<1, 0>>) = 1
      /\ NoRow \in Row /\ NoRow.status = "absent"
      /\ [NoRow EXCEPT !.status = "scheduled"] \in Row
      /\ [NoRow EXCEPT !.status = "scheduled"].status = "scheduled"
      /\ Idle \in Work /\ Idle.at = "idle" /\ Idle.job = None
  BY JobShape, WorkShape DEF NoRow, Row
<1>1. flow \in [status : {"enabled", "paused"}, action : {"create_crm_lead", "other"}]
  BY DEF Init
<1>2. TypeOK
  BY <1>0, <1>1 DEF Init, TypeOK
<1>3. \A w \in Workers : work[w].at = "idle"
  BY <1>0 DEF Init
<1>4. Numbered /\ (\A w \in Workers : Relies(w)) /\ Asks
  BY <1>3 DEF Numbered, Relies, Asks, Init
<1>5. Counted /\ Started /\ LeadsRun
  BY <1>3 DEF Init, Counted, Gapless, Started, LeadsRun, Numbers, AutomationAssumption
<1>6. \A j \in Jobs : row[j].status \in {"absent", "scheduled"}
                      /\ (row[j].status # "absent" => j = <<1, 0>>)
  BY <1>0 DEF Init
<1>7. Reached
  BY <1>0, <1>6 DEF Reached, Numbers, AutomationAssumption
<1>8. EndedIsExecuted
  BY <1>6 DEF EndedIsExecuted
<1>9. RanIsFound /\ OneExecutionPerJob /\ Followed
  BY DEF Init, RanIsFound, OneExecutionPerJob, Followed, Numbers, AutomationAssumption
<1> QED
  BY <1>2, <1>4, <1>5, <1>7, <1>8, <1>9 DEF Inv

(* The invariant that the properties follow from: row locks from flush to
   commit, the count behind a number, and one finisher of each execution that
   is committed as running.                                                 *)
THEOREM JobsInductive == Spec => []Inv
<1>1. Init => Inv
  BY InvInit, AutomationAssumption
<1>2. Inv /\ [Next]_vars => Inv'
  <2> SUFFICES ASSUME Inv, [Next]_vars
               PROVE  Inv'
    OBVIOUS
  <2>1. TypeOK' /\ Numbered'
    BY TypeStep, AutomationAssumption
  <2>2. Gapless(exec') /\ Reached' /\ LeadsRun' /\ Followed'
    BY NumbersStep, AutomationAssumption
  <2>3. Counted'
    BY <2>2 DEF Counted
  <2>4. EndedIsExecuted'
    BY EndsStep, AutomationAssumption
  <2>5. \A w \in Workers : Relies(w)'
    BY RelyStep, AutomationAssumption
  <2>6. Started'
    BY StartedStep, AutomationAssumption
  <2>7. Asks'
    BY AsksStep, AutomationAssumption
  <2>8. RanIsFound' /\ OneExecutionPerJob'
    BY RanStep, AutomationAssumption
  <2> QED
    BY <2>1, <2>2, <2>3, <2>4, <2>5, <2>6, <2>7, <2>8 DEF Inv
<1> QED
  BY <1>1, <1>2, PTL DEF Spec

(* Every variable keeps its type; jobs and executions that are committed as
   running are of it.                                                        *)
THEOREM JobsTypeCorrect == Spec => []TypeOK
BY JobsInductive, PTL DEF Inv

(* A job brings about at most one execution, whoever has lost its lease or its
   row lock.                                                                 *)
THEOREM JobsRunOnce == Spec => []OneExecutionPerJob
BY JobsInductive, PTL DEF Inv

(* Jobs end as succeeded or failed for an execution with that result, and are
   given up for one without a result only where the action commits in the
   middle.                                                                   *)
THEOREM JobsEndTruly == Spec => []EndedIsExecuted
BY JobsInductive, PTL DEF Inv

(* Retries have no gaps, and while retries are left no retryable failure whose
   follow-up met no error is without the job of a later one.                 *)
THEOREM JobsFollowed == Spec => []FailuresAreFollowedUp
<1>1. Inv => FailuresAreFollowedUp
  <2> SUFFICES ASSUME Inv, NEW n \in Numbers
               PROVE  /\ exec[n] # "none" /\ n > 1 => exec[n - 1] # "none"
                      /\ exec[n] = "failed" /\ n \notin dropped /\ NextNumber(exec) <= Limit =>
                           \E m \in (n + 1) .. NextNumber(exec) : row[<<m, 0>>].status # "absent"
    BY DEF FailuresAreFollowedUp
  <2>1. PICK k \in 0 .. Limit : \A m \in Numbers : exec[m] # "none" <=> m <= k
    BY DEF Inv, Counted, Gapless
  <2>2. exec[n] # "none" /\ n > 1 => exec[n - 1] # "none"
    BY <2>1, AutomationAssumption DEF Numbers, AutomationAssumption
  <2>3. ASSUME exec[n] = "failed", n \notin dropped, NextNumber(exec) <= Limit
        PROVE  \E m \in (n + 1) .. NextNumber(exec) : row[<<m, 0>>].status # "absent"
    <3>1. PICK m \in (n + 1) .. NextNumber(exec) : m <= Limit => row[<<m, 0>>].status # "absent"
      BY <2>3 DEF Inv, Followed
    <3>2. NextNumber(exec) \in Nat
      BY NextShape, AutomationAssumption DEF Inv, Counted
    <3>3. m <= Limit
      BY <2>3, <3>1, <3>2, AutomationAssumption DEF Numbers, AutomationAssumption
    <3> QED
      BY <3>1, <3>3
  <2> QED
    BY <2>2, <2>3
<1> QED
  BY <1>1, JobsInductive, PTL

-----------------------------------------------------------------------------
(* The jobs implement the chain of retries *)

Existing == {j \in Jobs : row[j].status # "absent"}

HaveRun == {j \in Jobs : ran[j] > 0}

LEMMA ChainStep ==
  ASSUME AutomationAssumption, Inv, [Next]_vars
  PROVE  [Chain!Next]_(Chain!vars)
<1>0. TypeOK /\ Counted /\ Onward /\ (Records \/ Still)
  BY RecordsOrNot, OnwardStep DEF Inv
<1>1. Chain!Numbers = Numbers /\ Chain!Asks = Jobs /\ Chain!Results = Results
  BY DEF Chain!Numbers, Chain!Asks, Chain!Results, Numbers, Jobs, Results
<1>2. CASE Still
  <2>1. exec' = exec /\ dropped' = dropped /\ HaveRun' = HaveRun
    BY <1>2 DEF Still, HaveRun
  <2>2. CASE \A j \in Jobs : row'[j].status # "absent" <=> row[j].status # "absent"
    <3>1. Existing' = Existing
      BY <2>2 DEF Existing
    <3> QED
      BY <2>1, <3>1 DEF Existing, HaveRun, Chain!vars
  <2>3. ASSUME NEW j \in Jobs, Asking(j)
        PROVE  Chain!Next
    <3>1. Existing' = Existing \cup {<<j[1], j[2] + 1>>} /\ j \in Existing /\ j[2] < Generations
      BY <2>3 DEF Asking, Existing
    <3>2. Chain!AskAgain(j)
      BY <2>1, <3>1 DEF Chain!AskAgain, Existing, HaveRun
    <3> QED
      BY <1>1, <3>2 DEF Chain!Next
  <2> QED
    BY <1>2, <2>2, <2>3 DEF Still
<1>3. CASE Records
  <2>1. PICK n \in Numbers, r \in {"running"} \cup Results, m \in Nat \ {0},
             f \in {"running", "lost"} \cup Results :
               /\ Recording(n, r, m, f)
               /\ \/ ran' = ran
                  \/ \E j \in Jobs : /\ row[j].status # "absent" /\ ran[j] = 0 /\ Attempt(j) <= n
                                     /\ exec[n] = "none" /\ ran' = [ran EXCEPT ![j] = 1]
    BY <1>3 DEF Records
  <2>2. /\ \/ exec[n] = "none" /\ \A k \in Numbers : k < n => exec[k] # "none"
           \/ exec[n] = "running" /\ r # "running"
        /\ exec' = [exec EXCEPT ![n] = r]
        /\ Follows(n, r, f)
        /\ m \in (n + 1) .. NextNumber(exec')
        /\ \A j \in Jobs : row'[j].status # "absent" <=>
             row[j].status # "absent" \/ (f = "failed" /\ j = <<m, 0>>)
    BY <2>1 DEF Recording
  <2>3. Chain!Free(n) \/ exec[n] = "running"
    BY <1>1, <2>2 DEF Chain!Free
  <2>4. Existing' = Existing \cup {a \in Jobs : f = "failed" /\ a = <<m, 0>>}
    BY <2>2 DEF Existing
  <2>5. m \in Chain!Later(n)
    <3>1. /\ \A k \in Numbers : exec'[k] # "none" <=> k < NextNumber(exec')
          /\ NextNumber(exec') \in 1 .. (Limit + 1)
      BY <1>0, NextShape DEF Onward
    <3>2. PICK p \in 1 .. (Limit + 1) : p = NextNumber(exec')
      BY <3>1
    <3>3. m <= p /\ m \in (n + 1) .. (Limit + 1)
      BY <2>2, <3>2 DEF AutomationAssumption, Numbers
    <3>4. \A k \in Numbers : k < m => exec'[k] # "none"
      BY <3>1, <3>2, <3>3 DEF Numbers, AutomationAssumption
    <3> QED
      BY <1>1, <3>3, <3>4 DEF Chain!Later
  <2>6. Chain!Begin(n) \/ Chain!Lose(n) \/ \E s \in Results : Chain!Record(n, s)
    <3>1. CASE r = "running"
      <4>1. f = "running" /\ dropped' = dropped /\ Existing' = Existing
        BY <2>2, <2>4, <3>1 DEF Follows
      <4>2. exec[n] = "none" /\ Chain!Free(n)
        BY <2>2, <3>1, <1>1 DEF Chain!Free
      <4>3. Chain!Begin(n)
        BY <2>2, <3>1, <4>1, <4>2 DEF Chain!Begin, Existing
      <4> QED
        BY <4>3
    <3>2. CASE f = "lost"
      <4>1. r = "failed" /\ dropped' = dropped \cup {n} /\ Existing' = Existing
        BY <2>1, <2>2, <2>4, <3>2 DEF Follows, Results
      <4>2. Chain!Lose(n)
        BY <2>2, <2>3, <4>1 DEF Chain!Lose, Existing
      <4> QED
        BY <4>2
    <3>3. CASE r # "running" /\ f # "lost"
      <4>1. f = r /\ dropped' = dropped /\ r \in Results
        BY <2>2, <3>3 DEF Follows
      <4>2. CASE r = "failed"
        <5>1. Existing' = Existing \cup {a \in Jobs : a = <<m, 0>>}
          BY <2>4, <4>1, <4>2
        <5>2. Chain!Record(n, r)
          BY <1>1, <2>2, <2>3, <2>5, <4>1, <4>2, <5>1 DEF Chain!Record, Existing
        <5> QED
          BY <4>1, <5>2
      <4>3. CASE r # "failed"
        <5>1. Existing' = Existing
          BY <2>4, <4>1, <4>3
        <5>2. Chain!Record(n, r)
          BY <2>2, <2>3, <4>1, <4>3, <5>1 DEF Chain!Record, Existing
        <5> QED
          BY <4>1, <5>2
      <4> QED
        BY <4>2, <4>3
    <3> QED
      BY <3>1, <3>2, <3>3
  <2>7. Chain!Serve(n) \/ HaveRun' = HaveRun
    <3>1. CASE ran' = ran
      BY <3>1 DEF HaveRun
    <3>2. ASSUME NEW j \in Jobs, row[j].status # "absent", ran[j] = 0, Attempt(j) <= n,
                 exec[n] = "none", ran' = [ran EXCEPT ![j] = 1]
          PROVE  Chain!Serve(n)
      <4>1. HaveRun' = HaveRun \cup {j}
        BY <1>0, <3>2 DEF HaveRun, TypeOK
      <4>2. j \in Existing \ HaveRun
        BY <3>2 DEF Existing, HaveRun
      <4>3. Chain!Free(n)
        BY <1>1, <2>2, <3>2 DEF Chain!Free
      <4>4. j[1] <= n
        BY <3>2 DEF Attempt
      <4> QED
        BY <4>1, <4>2, <4>3, <4>4 DEF Chain!Serve, Existing, HaveRun
    <3> QED
      BY <2>1, <3>1, <3>2
  <2>8. CASE HaveRun' = HaveRun
    BY <1>1, <2>6, <2>8 DEF Chain!Next, HaveRun
  <2>9. CASE Chain!Serve(n)
    BY <1>1, <2>6, <2>9 DEF Chain!Next
  <2> QED
    BY <2>7, <2>8, <2>9
<1> QED
  BY <1>0, <1>2, <1>3

(* The retries of a root keep the promise of RetryChain, for any number of
   workers, operators, retries and generations: whatever leases run out,
   counts become stale and commits come in the middle of an action, no result
   is written over, no job and no request of the API brings about two retries,
   and no failure is recorded without the job of a later retry unless it is
   known as lost.                                                            *)
THEOREM JobsImplementChain == Spec => ImplementsChain
<1>1. Init => Chain!Init
  <2> SUFFICES ASSUME Init PROVE Chain!Init
    OBVIOUS
  <2>1. /\ <<1, 0>> \in Jobs /\ NoRow.status = "absent"
        /\ [NoRow EXCEPT !.status = "scheduled"].status = "scheduled"
    BY JobShape, AutomationAssumption DEF NoRow
  <2>2. \A j \in Jobs : /\ row[j].status # "absent" <=> j = <<1, 0>>
                       /\ ran[j] = 0
    BY <2>1 DEF Init
  <2>3. Existing = {<<1, 0>>} /\ HaveRun = {}
    BY <2>1, <2>2 DEF Existing, HaveRun
  <2> QED
    BY <2>3 DEF Init, Chain!Init, Chain!Numbers, Numbers, Existing, HaveRun
<1>2. Inv /\ [Next]_vars => [Chain!Next]_(Chain!vars)
  BY ChainStep, AutomationAssumption
<1> QED
  BY <1>1, <1>2, JobsInductive, PTL DEF Spec, ImplementsChain, Chain!Spec
=============================================================================
