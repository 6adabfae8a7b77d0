---------------------------- MODULE WebhookRules ----------------------------
(***************************************************************************)
(* The values from which the operator's webhooks are made: rules           *)
(* (pkg/webhooks/rules.go), registers (webhook_register.go), reconcilers   *)
(* (reconciler.go), and the list that main.go builds of them.              *)
(***************************************************************************)
EXTENDS Sequences

-----------------------------------------------------------------------------
(***************************************************************************)
(* Rules: which requests a webhook is called for.                          *)
(***************************************************************************)
NewRule == [operations |-> {}, resource |-> "", scope |-> ""]

OneResource(rule, resource) == [rule EXCEPT !.resource = resource]

NamespacedScope(rule) == [rule EXCEPT !.scope = "Namespaced"]

\* ForCreate, ForUpdate, ForDelete and ForAll.
For(operation, rule) == [rule EXCEPT !.operations = @ \cup {operation}]

Covers(rule, request) ==
  /\ rule.operations \cap {request.operation, "*"} # {}
  /\ rule.resource = request.resource

-----------------------------------------------------------------------------
(***************************************************************************)
(* Reconcilers: the configuration a webhook gets, and what the API server  *)
(* does when it cannot call it.                                            *)
(***************************************************************************)

\* Mutant: the mutating webhooks fail closed, too.
MutatingFailsClosed(path) ==
  [kind |-> "Mutating", path |-> path, failurePolicy |-> "Fail"]

MutatingWebhookReconciler(path) ==
  [kind |-> "Mutating", path |-> path, failurePolicy |-> "Ignore"]

ValidatingWebhookReconciler(path) ==
  [kind |-> "Validating", path |-> path, failurePolicy |-> "Fail"]

\* The setters, and the function that Reconcile passes to CreateOrUpdate.
Configuration(webhook, reconciler, namespace) ==
  [rule          |-> webhook.rule,
   selector      |-> webhook.nsSelector,
   path          |-> reconciler.path,
   failurePolicy |-> reconciler.failurePolicy,
   namespace     |-> namespace]

-----------------------------------------------------------------------------
(***************************************************************************)
(* Registers: how a webhook gets an endpoint, and its reconcilers.  Of an  *)
(* object it matters which of the interfaces Defaulter and Validator it    *)
(* implements, and how its group, version and kind read in a path.         *)
(***************************************************************************)
AdmissionWebhookRegister(type, path) ==
  [form |-> "admission", type |-> type, path |-> <<path>>]

\* WebhookRegisterFor refuses an object with neither interface.
WebhookRegisterFor(object) == [form |-> "object", object |-> object]

generatePath(prefix, object) == <<prefix, object.name>>

IsObject(register) == register.form = "object"

\* Whether GetReconciler knows the type.
Supported(register) ==
  ~ IsObject(register) => register.type \in {"Mutating", "Validating"}

\* Mutant: an object gets a configuration for one of its endpoints.
ReconcilersOfOne(object) ==
  IF object.defaulter
  THEN << MutatingWebhookReconciler(generatePath("mutate", object)) >>
  ELSE << ValidatingWebhookReconciler(generatePath("validate", object)) >>

\* getPaths, and a reconciler for each path it found.
ReconcilersOf(object) ==
  (IF object.defaulter
   THEN << MutatingWebhookReconciler(generatePath("mutate", object)) >>
   ELSE <<>>)
  \o
  (IF object.validator
   THEN << ValidatingWebhookReconciler(generatePath("validate", object)) >>
   ELSE <<>>)

\* The reconcilers inside the one that GetReconciler returns.
GetReconciler(register) ==
  IF IsObject(register) THEN ReconcilersOf(register.object)
  ELSE IF register.type = "Mutating"
       THEN << MutatingWebhookReconciler(register.path) >>
       ELSE << ValidatingWebhookReconciler(register.path) >>

RegisterToServer(register) ==
  IF IsObject(register) THEN {} ELSE {register.path}

\* WebhookBuilder.For: a builder is for one object, the last one.
RegisterToBuilder(register, builder) ==
  IF IsObject(register) THEN {register.object} ELSE builder

\* WebhookBuilder.Complete: the endpoints of that object, if there is one.
Complete(builder) ==
  { <<"mutate", object.name>> : object \in { x \in builder : x.defaulter } }
    \cup
  { <<"validate", object.name>> : object \in { x \in builder : x.validator } }

-----------------------------------------------------------------------------
(***************************************************************************)
(* The list of main.go.  A namespace selector is the set of labels that it *)
(* asks for.                                                               *)
(***************************************************************************)
CSWebhook(name, rule, register, nsSelector) ==
  [name |-> name, rule |-> rule, register |-> register,
   nsSelector |-> nsSelector]

CreatesAndUpdates(resource) ==
  NamespacedScope(For("CREATE", For("UPDATE", OneResource(NewRule, resource))))

PodWebhook ==
  CSWebhook("ibm-common-service-webhook-configuration",
            CreatesAndUpdates("pods"),
            AdmissionWebhookRegister("Mutating", "/mutate-ibm-cs-pod"),
            {"managed-by-common-service-webhook"})

OperandRequestWebhook ==
  CSWebhook("ibm-operandrequest-webhook-configuration",
            CreatesAndUpdates("operandrequests"),
            AdmissionWebhookRegister("Mutating", "/mutate-ibm-cp-operandrequest"),
            {})

\* Mutant: the webhook for the maps selects every namespace.
NsMappingEverywhere ==
  CSWebhook("ibm-cs-ns-mapping-webhook-configuration",
            CreatesAndUpdates("configmaps"),
            AdmissionWebhookRegister("Validating", "/validate-ibm-cs-ns-map"),
            {})

NsMappingWebhook ==
  CSWebhook("ibm-cs-ns-mapping-webhook-configuration",
            CreatesAndUpdates("configmaps"),
            AdmissionWebhookRegister("Validating", "/validate-ibm-cs-ns-map"),
            {"kubernetes.io/metadata.name=kube-public"})

SetupWebhooks(enableOpreqWebhook) ==
  IF enableOpreqWebhook
  THEN << PodWebhook, OperandRequestWebhook, NsMappingWebhook >>
  ELSE << PodWebhook >>
=============================================================================
