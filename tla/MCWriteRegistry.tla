--------------------------- MODULE MCWriteRegistry ---------------------------
(* WriteRegistry for TLC: two callers go by one name, the others by their own. *)
EXTENDS WriteRegistry, TLC

CONSTANTS c1, c2, c3, o1, o2

SharedName == [c \in Callers |-> IF c = c3 THEN o2 ELSE o1]

Symmetric == Permutations({c1, c2})
=============================================================================
