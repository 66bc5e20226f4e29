------------------------------ MODULE RetryChain ------------------------------
(***************************************************************************)
(* What the automation promises about the retries of a failed execution,   *)
(* with no workers, leases, locks or recoveries: retries are begun in the  *)
(* order of their numbers, each once, and a result stays as it is; a       *)
(* retryable failure asks for a later retry, the first that is free or one *)
(* that was, in the step that records it, unless the ask is lost and known *)
(* as lost; other asks repeat an earlier one; and a retry is begun for an  *)
(* ask of its own number or a smaller one, once per ask, or at once.       *)
(***************************************************************************)
EXTENDS Naturals

CONSTANTS Limit, Generations

VARIABLES
  result,  (* of the retries, by number                             *)
  asked,   (* asks for a retry: its number, and how often repeated  *)
  served,  (* asks a retry was begun for                            *)
  lost     (* failed retries that asked for nothing                 *)

vars == <<result, asked, served, lost>>

Numbers == 1 .. Limit
Asks    == Numbers \X (0 .. Generations)
Results == {"success", "failed", "rejected"}

Init ==
  /\ result = [n \in Numbers |-> "none"]
  /\ asked = {<<1, 0>>}
  /\ served = {}
  /\ lost = {}

Free(n) ==
  /\ result[n] = "none"
  /\ \A m \in Numbers : m < n => result[m] # "none"

(* The numbers that come after n up to the first that is free. *)
Later(n) ==
  {m \in (n + 1) .. (Limit + 1) : \A k \in Numbers : k < m => result'[k] # "none"}

Begin(n) ==
  /\ Free(n)
  /\ result' = [result EXCEPT ![n] = "running"]
  /\ UNCHANGED <<asked, lost>>

Record(n, r) ==
  /\ Free(n) \/ result[n] = "running"
  /\ result' = [result EXCEPT ![n] = r]
  /\ IF r = "failed"
     THEN \E m \in Later(n) : asked' = asked \cup {a \in Asks : a = <<m, 0>>}
     ELSE UNCHANGED asked
  /\ UNCHANGED lost

Lose(n) ==
  /\ Free(n) \/ result[n] = "running"
  /\ result' = [result EXCEPT ![n] = "failed"]
  /\ lost' = lost \cup {n}
  /\ UNCHANGED asked

Serve(n) ==
  /\ Free(n)
  /\ \E a \in asked \ served : a[1] <= n /\ served' = served \cup {a}

AskAgain(a) ==
  /\ a \in asked
  /\ a[2] < Generations
  /\ asked' = asked \cup {<<a[1], a[2] + 1>>}
  /\ UNCHANGED <<result, served, lost>>

Next ==
  \/ \E n \in Numbers :
       /\ Begin(n) \/ Lose(n) \/ \E r \in Results : Record(n, r)
       /\ Serve(n) \/ UNCHANGED served
  \/ \E a \in Asks : AskAgain(a)

Spec == Init /\ [][Next]_vars
=============================================================================
