-------------------------- MODULE MCPublishAttempts --------------------------
(* Instances of PublishAttempts for TLC. *)
EXTENDS PublishAttempts, TLC

AllPlatforms == {Platforms}

AnySelection == (SUBSET Platforms) \ {{}}

(* Bound: no run is cancelled, and nothing grows old while it runs. *)
Brisk ==
  /\ \A r \in Runs : pc[r] # "cancelled"
  /\ ~content.old

(* Bound: of two runs and the sweeper, two are under way at a time. *)
TwoAtATime == \E s \in Sessions : pc[s] \in {"idle", "done"}

(* Bound: an error hides at most one post, on a Meta platform, and then the
   attempts on other platforms have no post and are not given up.           *)
OneHidden ==
  /\ Cardinality(hidden) <= 1
  /\ hidden # {} => /\ \A x \in posts : x[2] \in Meta
                    /\ \A r \in Runs, p \in Platforms \ Meta :
                         att[r][p].status # "failed" /\ draft[r][p].status # "failed"

(* Bound: no lease runs out. *)
Prompt == \A r \in Runs, p \in Platforms : ~att[r][p].expired

(* View for liveness: no action reads posts, nor who called a run that is over
   and for what, nor does any property of that run.                         *)
WithoutHistory ==
  <<rows, locks, local, pc, stale,
    [r \in Runs |-> IF pc[r] = "done" THEN {} ELSE {<<kind[r], targets[r]>>}]>>

RunSymmetry == Permutations(Runs)

=============================================================================
