------------------------------- MODULE MCWebhook -------------------------------
(***************************************************************************)
(* Instances of WebhookProperties for TLC.                                 *)
(***************************************************************************)
EXTENDS WebhookProperties
=============================================================================
