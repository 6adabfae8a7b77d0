--------------------------- MODULE WebhookRegistry ---------------------------
(***************************************************************************)
(* One list, Config.Webhooks, is read twice: SetupServer registers an      *)
(* endpoint for each webhook in it, and Reconcile writes the configuration *)
(* that makes the API server call that endpoint                            *)
(* (pkg/webhooks/operator_webhooks.go).  Here the list is any list of      *)
(* webhooks that the package can express, not only the one of main.go.     *)
(***************************************************************************)
EXTENDS Integers, FiniteSets, WebhookRules

CONSTANTS
  Candidates,   \* webhooks a program may add
  MaxWebhooks   \* bound on the length of the list

\* An object has one of the interfaces, or WebhookRegisterFor refuses it, and
\* a name stands for one configuration of a kind.
ASSUME CandidatesAssumption ==
  /\ MaxWebhooks \in Nat
  /\ \A c \in Candidates :
       IsObject(c.register) =>
         c.register.object.defaulter \/ c.register.object.validator
  /\ \A c, d \in Candidates : c.name = d.name => c.register = d.register

\* The builder is for one object only.
ASSUME OneObjectAssumption ==
  \A c, d \in Candidates :
    IsObject(c.register) /\ IsObject(d.register) =>
      c.register.object = d.register.object

VARIABLES
  program,     \* the webhooks main adds, which never change
  webhooks,    \* Config.Webhooks
  phase,       \* "adding", "registering", "running" or "crashed"
  scheme,      \* whether Config.scheme is set
  builder,     \* the object the WebhookBuilder is for, as a set
  endpoints,   \* the paths the webhook server serves
  next,        \* position in the loop over the list
  inner,       \* position in the loop over the reconcilers of a webhook
  configs,     \* the paths in the configurations, with their kind and name
  reconciled   \* history: Reconcile came to its end in this process

vars == <<program, webhooks, phase, scheme, builder, endpoints, next, inner,
          configs, reconciled>>

Programs == UNION { [1..n -> Candidates] : n \in 1..MaxWebhooks }

Init ==
  /\ program \in Programs
  /\ webhooks = <<>>
  /\ phase = "adding"
  /\ scheme = FALSE
  /\ builder = {}
  /\ endpoints = {}
  /\ next = 1
  /\ inner = 1
  /\ configs = {}
  /\ reconciled = FALSE

AddWebhook ==
  /\ phase = "adding"
  /\ Len(webhooks) < Len(program)
  /\ webhooks' = Append(webhooks, program[Len(webhooks) + 1])
  /\ UNCHANGED <<program, phase, scheme, builder, endpoints, next, inner,
                 configs, reconciled>>

\* SetupServer, up to its loop: the service and the certificates are there.
SetupServer ==
  /\ phase = "adding"
  /\ Len(webhooks) = Len(program)
  /\ phase' = "registering"
  /\ scheme' = TRUE
  /\ UNCHANGED <<program, webhooks, builder, endpoints, next, inner, configs,
                 reconciled>>

\* They are not: main logs the error and starts the manager all the same.
SetupFails ==
  /\ phase = "adding"
  /\ Len(webhooks) = Len(program)
  /\ phase' = "running"
  /\ UNCHANGED <<program, webhooks, scheme, builder, endpoints, next, inner,
                 configs, reconciled>>

\* One turn of the loop.  The server panics at a path it already has.
RegisterNext ==
  /\ phase = "registering"
  /\ next <= Len(webhooks)
  /\ LET register == webhooks[next].register
     IN  IF RegisterToServer(register) \cap endpoints = {}
         THEN /\ builder' = RegisterToBuilder(register, builder)
              /\ endpoints' = endpoints \cup RegisterToServer(register)
              /\ next' = next + 1
              /\ UNCHANGED phase
         ELSE /\ phase' = "crashed"
              /\ UNCHANGED <<builder, endpoints, next>>
  /\ UNCHANGED <<program, webhooks, scheme, inner, configs, reconciled>>

\* bldr.Complete, whose error (there is no object) is dropped.
CompleteBuilder ==
  /\ phase = "registering"
  /\ next > Len(webhooks)
  /\ endpoints' = endpoints \cup Complete(builder)
  /\ phase' = "running"
  /\ next' = 1
  /\ UNCHANGED <<program, webhooks, scheme, builder, inner, configs, reconciled>>

\* Reconcile ends with an error and begins anew.
ReconcileFails ==
  /\ phase = "running"
  /\ next' = 1
  /\ inner' = 1
  /\ UNCHANGED <<program, webhooks, phase, scheme, builder, endpoints, configs,
                 reconciled>>

\* GetReconciler of an object panics as long as SetupServer did not come far
\* enough to set the scheme.
GetReconcilerPanics ==
  /\ phase = "running"
  /\ ~ scheme
  /\ IsObject(webhooks[next].register)
  /\ phase' = "crashed"
  /\ UNCHANGED <<program, webhooks, scheme, builder, endpoints, next, inner,
                 configs, reconciled>>

\* The configuration of one reconciler of one webhook.
ReconcileWebhook ==
  /\ phase = "running"
  /\ LET webhook == webhooks[next]
         reconcilers == GetReconciler(webhook.register)
     IN  /\ Supported(webhook.register)
         /\ IsObject(webhook.register) => scheme
         /\ configs' =
              { c \in configs : <<c.kind, c.name>> #
                                <<reconcilers[inner].kind, webhook.name>> }
              \cup { [kind |-> reconcilers[inner].kind, name |-> webhook.name,
                      path |-> reconcilers[inner].path] }
         /\ inner' = IF inner < Len(reconcilers) THEN inner + 1 ELSE 1
         /\ next' = IF inner < Len(reconcilers) THEN next
                    ELSE IF next < Len(webhooks) THEN next + 1 ELSE 1
         /\ reconciled' = (reconciled \/ (inner' = 1 /\ next' = 1))
  /\ UNCHANGED <<program, webhooks, phase, scheme, builder, endpoints>>

\* The process ends and starts again with the globals as they are declared;
\* the configurations stay.
Restart ==
  /\ phase \in {"running", "crashed"}
  /\ webhooks' = <<>>
  /\ phase' = "adding"
  /\ scheme' = FALSE
  /\ builder' = {}
  /\ endpoints' = {}
  /\ next' = 1
  /\ inner' = 1
  /\ reconciled' = FALSE
  /\ UNCHANGED <<program, configs>>

Next ==
  \/ AddWebhook
  \/ SetupServer
  \/ SetupFails
  \/ RegisterNext
  \/ CompleteBuilder
  \/ ReconcileFails
  \/ GetReconcilerPanics
  \/ ReconcileWebhook
  \/ Restart

Spec == Init /\ [][Next]_vars

-----------------------------------------------------------------------------
Paths == { c.path : c \in configs }

\* "CSWebhook acts as a single source of truth for validating webhooks
\* managed by the operator.  It's data are used both for registering the
\* endpoint to the webhook server and to reconcile the
\* ValidatingWebhookConfiguration that points to the server": a server that
\* was set up serves every path that a configuration names, those of earlier
\* processes too, and once Reconcile came to its end a configuration names
\* every path that is served.  With at most one object in the list.
SingleSourceOfTruth ==
  (phase = "running" /\ scheme) =>
    /\ Paths \subseteq endpoints
    /\ reconciled => endpoints \subseteq Paths
=============================================================================
