-------------------------- MODULE MCWebhookInstall ---------------------------
(***************************************************************************)
(* WebhookInstall for TLC.  Its constants are given in the cfg files; the   *)
(* versions of the objects in its state are what their bounds limit.        *)
(***************************************************************************)
EXTENDS WebhookInstall
=============================================================================
