---------------------------- MODULE Installation ----------------------------
(***************************************************************************)
(* What the operator promises of its webhook configurations, without the   *)
(* API calls, caches, conflicts and retries by which it keeps it: Config   *)
(* in pkg/webhooks/operator_webhooks.go is a list, and the configurations  *)
(* follow that list.  WebhookInstall implements it.                        *)
(***************************************************************************)
EXTENDS Integers

CONSTANTS
  Count,    \* the number of webhooks in the list
  Bundles   \* the versions of the CA bundle

VARIABLES
  running,   \* whether the manager runs
  labelled,  \* whether the watch namespace carries the operator's label
  bundles    \* bundles[i] is the i-th configuration's, 0 when there is none

vars == <<running, labelled, bundles>>

Init ==
  /\ running = FALSE
  /\ labelled = FALSE
  /\ bundles = [i \in 1..Count |-> 0]

\* The start comes to an end, or the process does.
StartOrStop ==
  /\ running' = ~ running
  /\ UNCHANGED <<labelled, bundles>>

LabelNamespace ==
  /\ running
  /\ labelled' = TRUE
  /\ UNCHANGED <<running, bundles>>

\* The i-th configuration is created or gets a newer bundle, which the one
\* before it already has.
Configure(i, bundle) ==
  /\ running
  /\ labelled
  /\ bundle > bundles[i]
  /\ i > 1 => bundles[i - 1] = bundle
  /\ bundles' = [bundles EXCEPT ![i] = bundle]
  /\ UNCHANGED <<running, labelled>>

Next ==
  \/ StartOrStop
  \/ LabelNamespace
  \/ \E i \in 1..Count, bundle \in Bundles : Configure(i, bundle)

Spec == Init /\ [][Next]_vars
=============================================================================
