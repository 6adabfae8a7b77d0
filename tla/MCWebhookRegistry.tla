-------------------------- MODULE MCWebhookRegistry --------------------------
(***************************************************************************)
(* WebhookRegistry with the webhooks of main.go, one of a type that nobody *)
(* reconciles, and an object that implements both interfaces.              *)
(***************************************************************************)
EXTENDS WebhookRegistry

Object(name) == [name |-> name, defaulter |-> TRUE, validator |-> TRUE]

ObjectWebhook(name) ==
  CSWebhook(name, NewRule, WebhookRegisterFor(Object(name)), {})

Odd == CSWebhook("odd", NewRule, AdmissionWebhookRegister("Other", "/other"), {})

OneObject ==
  { PodWebhook, NsMappingWebhook, Odd, ObjectWebhook("first") }
=============================================================================
