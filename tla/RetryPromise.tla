---------------------------- MODULE RetryPromise ----------------------------
(***************************************************************************)
(* What the retry pipeline promises about one command, with no workers,    *)
(* leases, rows or transactions: a request is opened, its write is         *)
(* announced, the provider is called at most once and only after the       *)
(* announcement, and the command is settled once.  It may be settled as    *)
(* failed only when the provider was called and created nothing.           *)
(***************************************************************************)
EXTENDS Naturals

CONSTANTS Commands, PostIds, None

VARIABLES
  stage,   (* what the database says of the command *)
  sent,    (* provider calls made for it            *)
  effect   (* the post the provider created         *)

vars == <<stage, sent, effect>>

Settled == {"succeeded", "failed", "ambiguous"}

Init ==
  /\ stage = [c \in Commands |-> "none"]
  /\ sent = [c \in Commands |-> 0]
  /\ effect = [c \in Commands |-> None]

Request(c) ==
  /\ stage[c] = "none"
  /\ stage' = [stage EXCEPT ![c] = "open"]
  /\ UNCHANGED <<sent, effect>>

Announce(c) ==
  /\ stage[c] = "open"
  /\ stage' = [stage EXCEPT ![c] = "writing"]
  /\ UNCHANGED <<sent, effect>>

Send(c) ==
  /\ stage[c] \notin {"none", "open", "failed"}
  /\ sent[c] = 0
  /\ sent' = [sent EXCEPT ![c] = 1]
  /\ \E p \in PostIds \cup {None} : effect' = [effect EXCEPT ![c] = p]
  /\ UNCHANGED stage

Settle(c) ==
  /\ stage[c] = "writing"
  /\ \E s \in Settled :
       /\ s = "failed" => sent[c] = 1 /\ effect[c] = None
       /\ stage' = [stage EXCEPT ![c] = s]
  /\ UNCHANGED <<sent, effect>>

Next == \E c \in Commands : Request(c) \/ Announce(c) \/ Send(c) \/ Settle(c)

Spec == Init /\ [][Next]_vars
=============================================================================
