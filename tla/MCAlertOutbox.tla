---------------------------- MODULE MCAlertOutbox ----------------------------
(* Instances of AlertOutbox for TLC. *)
EXTENDS AlertOutbox, TLC

AllAnswers == {"ok", "lost", "transient", "terminal"}
==============================================================================
