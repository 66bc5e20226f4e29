--------------------------- MODULE MCWebhookQueue ---------------------------
(* WebhookQueue for TLC: interchangeable workers and updates. *)
EXTENDS WebhookQueue, TLC

Symmetry == Permutations(Workers) \cup Permutations(Updates)
=============================================================================
