--------------------------- MODULE MCRetryCommand ---------------------------
(* RetryCommand for TLC: constants that are functions, and symmetry. *)
EXTENDS RetryCommand, TLC

(* Every command retries a different attempt of the same destination. *)
SameDestination == [c \in Commands |-> CHOOSE d \in Destinations : TRUE]
OwnKey          == [c \in Commands |-> c]

WorkerSymmetry == Permutations(Workers) \cup Permutations(PostIds)
AllSymmetry    == WorkerSymmetry \cup Permutations(Commands)
=============================================================================
