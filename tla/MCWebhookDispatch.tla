------------------------- MODULE MCWebhookDispatch -------------------------
(***************************************************************************)
(* WebhookDispatch with two instances in two namespaces, each watching its *)
(* own (OwnNamespace), and with one that watches its own or all of them.   *)
(***************************************************************************)
EXTENDS WebhookDispatch

Env(watched, enabled) ==
  [WATCH_NAMESPACE |-> watched, ENABLE_OPREQ_WEBHOOK |-> enabled]

\* ENABLE_OPREQ_WEBHOOK is not set.
EnvWithout(watched) == [WATCH_NAMESPACE |-> watched]

One == {"operator"}
Home == [o \in One |-> "cs"]
OneNamespaces == {"cs", "paks", "kube-public"}
Paks == {"paks"}

\* The deployments of OwnNamespace and AllNamespaces.
OwnOrAll == [o \in One |-> { Env("cs", "TRUE"), Env("", "TRUE") }]

Two == {"first", "second"}
HomeOfTwo == [o \in Two |-> IF o = "first" THEN "cs" ELSE "paks"]
\* The pods of the first may come with the switch or without it.
OwnSwitched == [o \in Two |-> IF o = "first" THEN { Env("cs", "TRUE"), EnvWithout("cs") }
                                            ELSE { Env("paks", "TRUE") }]
CsAndPaks == {"cs", "paks"}
=============================================================================
