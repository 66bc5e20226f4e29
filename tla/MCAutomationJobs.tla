--------------------------- MODULE MCAutomationJobs ---------------------------
(* Instances of AutomationJobs for TLC. *)
EXTENDS AutomationJobs, TLC

(* Bound: the more goes wrong, the fewer the requests. *)
Few == troubles + requests <= 3

==============================================================================
