--------------------------- MODULE WriteAuthority ---------------------------
(***************************************************************************)
(* What the write registry promises about one publication intent, with no  *)
(* rows, leases, owner names, generations or versions: one caller at a     *)
(* time is the writer; only the writer says how its write ended; a write   *)
(* nobody speaks for becomes unknown; and the next write begins only when  *)
(* somebody has judged that the unknown one created nothing.               *)
(***************************************************************************)
CONSTANTS Callers, Intents, None

VARIABLES
  phase,   (* what is known of the writes of the intent           *)
  writer,  (* the caller that began the last of them              *)
  author   (* the caller that said how it ended, if a caller did  *)

vars == <<phase, writer, author>>

Init ==
  /\ phase = [i \in Intents |-> "free"]
  /\ writer = [i \in Intents |-> None]
  /\ author = [i \in Intents |-> None]

Begin(i) ==
  /\ phase[i] = "free"
  /\ phase' = [phase EXCEPT ![i] = "writing"]
  /\ \E c \in Callers : writer' = [writer EXCEPT ![i] = c]
  /\ author' = [author EXCEPT ![i] = None]

(* The writer answers for its write. *)
Report(i) ==
  /\ phase[i] = "writing"
  /\ \E p \in {"done", "unknown"} : phase' = [phase EXCEPT ![i] = p]
  /\ author' = [author EXCEPT ![i] = writer[i]]
  /\ UNCHANGED writer

GiveUp(i) ==
  /\ phase[i] = "writing"
  /\ phase' = [phase EXCEPT ![i] = "unknown"]
  /\ UNCHANGED <<writer, author>>

Judge(i) ==
  /\ phase[i] = "unknown"
  /\ \E p \in {"done", "free"} : phase' = [phase EXCEPT ![i] = p]
  /\ UNCHANGED <<writer, author>>

Withdraw(i) ==
  /\ phase[i] \in {"free", "done"}
  /\ phase' = [phase EXCEPT ![i] = "withdrawn"]
  /\ UNCHANGED <<writer, author>>

Next ==
  \E i \in Intents : Begin(i) \/ Report(i) \/ GiveUp(i) \/ Judge(i) \/ Withdraw(i)

Spec == Init /\ [][Next]_vars
=============================================================================
