------------------------------- MODULE MCWebhook ------------------------------
(* Instances of WebhookIntake for TLC. *)
EXTENDS WebhookIntake

CONSTANTS c1, c2, e1, e2, none
=============================================================================
