--------------------------- MODULE WebhookDispatch ---------------------------
(***************************************************************************)
(* Instances of the operator, the webhook configurations they share, and   *)
(* the API server, which calls what a configuration names before it takes  *)
(* a request.  An instance is what its environment makes of it             *)
(* (pkg/utils/getEnv.go): the namespace it watches, where its service and  *)
(* its certificate are, need not be the one its pod runs in.               *)
(*                                                                         *)
(* WebhookInstall has each call of one instance, with caches and versions. *)
(* Here a step is one object written, and a write that fails just fails.   *)
(***************************************************************************)
EXTENDS Integers, FiniteSets, WebhookRules

CONSTANTS
  Operators,
  HomeOf,           \* HomeOf[o] is the namespace the pod of o runs in
  Environments,     \* Environments[o] are the environments o may be given
  Namespaces,       \* among them "kube-public"
  PresetNamespaces, \* where users put a PodPreset
  None,             \* no object
  MaxChanges,       \* bound on the times a PodPreset is created or deleted
  MaxDowns,         \* bound on the times a pod of an operator is lost
  MaxFaults         \* bound on the calls and the starts that fail by themselves

ASSUME DispatchAssumption ==
  /\ HomeOf \in [Operators -> Namespaces]
  /\ "kube-public" \in Namespaces /\ PresetNamespaces \subseteq Namespaces
  /\ { MaxChanges, MaxDowns, MaxFaults } \subseteq Nat

\* WATCH_NAMESPACE, where it is set, names a namespace or all of them.
ASSUME EnvironmentsAssumption ==
  \A o \in Operators :
    /\ Environments[o] # {}
    /\ \A env \in Environments[o] :
         "WATCH_NAMESPACE" \in DOMAIN env =>
           env["WATCH_NAMESPACE"] \in Namespaces \cup {""}

VARIABLES
  labels,     \* labels[n]: the labels of namespace n
  presets,    \* presets[n] counts creations and deletions in n
  services,   \* services[n]: the uids that own the service in n, or None
  configs,    \* configs[name]: the webhook configuration, or None
  operators,  \* operators[o]: [phase, env, server, queue, work]
  downs, faults

vars == <<labels, presets, services, configs, operators, downs, faults>>

ManagedLabel == "managed-by-common-service-webhook"
NameLabel == "kubernetes.io/metadata.name=kube-public"

There(n) == presets[n] % 2 = 1

Uid(n) == <<n, presets[n]>>

-----------------------------------------------------------------------------
(***************************************************************************)
(* The environment of an instance, a function on the variables it sets.    *)
(***************************************************************************)
GetWatchNamespace(o) ==
  LET env == operators[o].env
  IN  IF "WATCH_NAMESPACE" \in DOMAIN env THEN env["WATCH_NAMESPACE"] ELSE ""

GetEnableOpreqWebhook(o) ==
  LET env == operators[o].env
  IN  "ENABLE_OPREQ_WEBHOOK" \in DOMAIN env /\ env["ENABLE_OPREQ_WEBHOOK"] = "TRUE"

Webhooks(o) == SetupWebhooks(GetEnableOpreqWebhook(o))

\* The namespaces whose objects the manager's cache has.
Watches(o, n) == GetWatchNamespace(o) \in {"", n}

-----------------------------------------------------------------------------
(***************************************************************************)
(* Dispatch: what the API server does with a request.                      *)
(***************************************************************************)
Endpoints(o) ==
  UNION { RegisterToServer(Webhooks(o)[i].register) : i \in DOMAIN Webhooks(o) }

\* The headless service leads to the operator's pods in its own namespace.
Answers(o, config) ==
  /\ services[config.namespace] # None
  /\ HomeOf[o] = config.namespace
  /\ operators[o].server
  /\ config.path \in Endpoints(o)

Matches(config, request) ==
  /\ config # None
  /\ Covers(config.rule, request)
  /\ config.selector \subseteq labels[request.namespace]

\* The API server refuses a request that a webhook must see and cannot.
Blocked(request) ==
  \E name \in DOMAIN configs :
    /\ Matches(configs[name], request)
    /\ configs[name].failurePolicy = "Fail"
    /\ \A o \in Operators : ~ Answers(o, configs[name])

Create(resource, n) ==
  [operation |-> "CREATE", resource |-> resource, namespace |-> n]

\* A pod created now in n is answered for by an instance that finds the
\* PodPreset in its cache.
Injected(n) ==
  \E name \in DOMAIN configs :
    /\ Matches(configs[name], Create("pods", n))
    /\ \E o \in Operators : Answers(o, configs[name]) /\ Watches(o, n)

-----------------------------------------------------------------------------
Idle == [pc |-> "idle", key |-> None, next |-> 0]

Down(env) ==
  [phase |-> "down", env |-> env, server |-> FALSE, queue |-> {}, work |-> Idle]

Init ==
  /\ \E named \in SUBSET {NameLabel} :
       labels = [n \in Namespaces |-> IF n = "kube-public" THEN named ELSE {}]
  /\ presets = [n \in PresetNamespaces |-> 0]
  /\ services = [n \in Namespaces |-> None]
  /\ configs = [name \in { SetupWebhooks(TRUE)[i].name : i \in 1..3 } |-> None]
  /\ operators = [o \in Operators |-> Down(CHOOSE env \in Environments[o] : TRUE)]
  /\ downs = 0
  /\ faults = 0

-----------------------------------------------------------------------------
(***************************************************************************)
(* The pod of an operator comes, starts, and goes.                         *)
(***************************************************************************)
UnchangedByPods == UNCHANGED <<labels, presets, configs>>

\* The deployment makes a pod, with the environment it has by now.
CreatePod(o) ==
  /\ operators[o].phase = "down"
  /\ ~ Blocked(Create("pods", HomeOf[o]))
  /\ \E env \in Environments[o] :
       operators' = [operators EXCEPT ![o].phase = "starting", ![o].env = env]
  /\ UNCHANGED <<services, downs, faults>>
  /\ UnchangedByPods

\* main.go starts the manager, with or without a webhook server.
StartManager(o, server) ==
  operators' = [operators EXCEPT
    ![o].phase = "running",
    ![o].server = server,
    ![o].queue = { n \in PresetNamespaces : There(n) /\ Watches(o, n) }]

\* SetupServer: the service without an owner, and its certificate.
StartServes(o) ==
  LET n == GetWatchNamespace(o)
  IN  /\ operators[o].phase = "starting"
      /\ n # ""
      /\ services' = [services EXCEPT ![n] = IF @ = None THEN {} ELSE @]
      /\ StartManager(o, TRUE)
      /\ UNCHANGED <<downs, faults>>
      /\ UnchangedByPods

\* There is no service in no namespace, and a call may fail.
StartFails(o) ==
  /\ operators[o].phase = "starting"
  /\ GetWatchNamespace(o) # "" => faults < MaxFaults
  /\ faults' = IF GetWatchNamespace(o) = "" THEN faults ELSE faults + 1
  /\ StartManager(o, FALSE)
  /\ UNCHANGED <<services, downs>>
  /\ UnchangedByPods

\* Mutant: the queue outlives the process.
LosePodOnly(o) ==
  /\ operators[o].phase # "down"
  /\ downs < MaxDowns
  /\ downs' = downs + 1
  /\ operators' = [operators EXCEPT ![o].phase = "down", ![o].server = FALSE]
  /\ UNCHANGED <<services, faults>>
  /\ UnchangedByPods

LosePod(o) ==
  /\ operators[o].phase # "down"
  /\ downs < MaxDowns
  /\ downs' = downs + 1
  /\ operators' = [operators EXCEPT ![o] = Down(@.env)]
  /\ UNCHANGED <<services, faults>>
  /\ UnchangedByPods

-----------------------------------------------------------------------------
(***************************************************************************)
(* The controller: Reconcile of the PodPreset in one namespace.            *)
(***************************************************************************)
At(o, pc) == operators[o].phase = "running" /\ operators[o].work.pc = pc

Continue(o, work) == operators' = [operators EXCEPT ![o].work = work]

Goto(o, pc) == Continue(o, [operators[o].work EXCEPT !.pc = pc])

Fail(o) ==
  operators' = [operators EXCEPT ![o].queue = @ \cup {operators[o].work.key},
                                 ![o].work = Idle]

UnchangedByWork == UNCHANGED <<presets, downs>>

StartReconcile(o, n) ==
  /\ At(o, "idle")
  /\ n \in operators[o].queue
  /\ operators' = [operators EXCEPT
       ![o].queue = @ \ {n},
       ![o].work = [pc |-> "public", key |-> n, next |-> 1]]
  /\ UNCHANGED <<labels, services, configs, faults>>
  /\ UnchangedByWork

\* AddNameLabeltoNs sets the only label kube-public has.
LabelPublic(o) ==
  /\ At(o, "public")
  /\ labels' = IF GetEnableOpreqWebhook(o) /\ NameLabel \notin labels["kube-public"]
               THEN [labels EXCEPT !["kube-public"] = {NameLabel}] ELSE labels
  /\ Goto(o, "label")
  /\ UNCHANGED <<services, configs, faults>>
  /\ UnchangedByWork

LabelNamespace(o) ==
  /\ At(o, "label")
  /\ labels' = [labels EXCEPT ![operators[o].work.key] = @ \cup {ManagedLabel}]
  /\ Goto(o, "service")
  /\ UNCHANGED <<services, configs, faults>>
  /\ UnchangedByWork

\* The PodPreset is there and becomes an owner of the service.  The configmap
\* for the CA is created after it, unless a webhook stands in the way.
ReconcileService(o) ==
  LET key == operators[o].work.key
      n == GetWatchNamespace(o)
  IN  /\ At(o, "service")
      /\ IF ~ There(key) THEN Continue(o, Idle) /\ UNCHANGED services
         ELSE IF n = "" THEN Fail(o) /\ UNCHANGED services
         ELSE /\ services' = [services EXCEPT ![n] =
                    IF @ = None THEN {Uid(key)} ELSE @ \cup {Uid(key)}]
              /\ IF Blocked(Create("configmaps", n)) THEN Fail(o)
                                                     ELSE Goto(o, "configs")
      /\ UNCHANGED <<labels, configs, faults>>
      /\ UnchangedByWork

\* What Reconcile makes of the next webhook in its list.
NextConfiguration(o) ==
  LET webhook == Webhooks(o)[operators[o].work.next]
  IN  Configuration(webhook, GetReconciler(webhook.register)[1],
                    GetWatchNamespace(o))

NextName(o) == Webhooks(o)[operators[o].work.next].name

Advance(o) ==
  LET work == operators[o].work
  IN  Continue(o, IF work.next < Len(Webhooks(o))
                  THEN [work EXCEPT !.next = @ + 1] ELSE Idle)

\* Mutant: a configuration that is there is left as it is.
ConfigureOnce(o) ==
  /\ At(o, "configs")
  /\ configs' = [configs EXCEPT ![NextName(o)] =
                   IF @ = None THEN NextConfiguration(o) ELSE @]
  /\ Advance(o)
  /\ UNCHANGED <<labels, services, faults>>
  /\ UnchangedByWork

ReconcileWebhook(o) ==
  /\ At(o, "configs")
  /\ configs' = [configs EXCEPT ![NextName(o)] = NextConfiguration(o)]
  /\ Advance(o)
  /\ UNCHANGED <<labels, services, faults>>
  /\ UnchangedByWork

CallFails(o) ==
  /\ operators[o].phase = "running"
  /\ operators[o].work # Idle
  /\ faults < MaxFaults
  /\ faults' = faults + 1
  /\ Fail(o)
  /\ UNCHANGED <<labels, services, configs>>
  /\ UnchangedByWork

-----------------------------------------------------------------------------
(***************************************************************************)
(* The world outside.                                                      *)
(***************************************************************************)

\* Every instance that runs and watches n is told.
Notify(n) ==
  operators' = [o \in Operators |->
    IF operators[o].phase = "running" /\ Watches(o, n)
    THEN [operators[o] EXCEPT !.queue = @ \cup {n}] ELSE operators[o]]

\* Users create a PodPreset, and delete it.
ChangePreset(n) ==
  /\ presets[n] < MaxChanges
  /\ presets' = [presets EXCEPT ![n] = @ + 1]
  /\ Notify(n)
  /\ UNCHANGED <<labels, services, configs, downs, faults>>

\* Every ten hours the informer presents what it has once more.
Resync(o) ==
  /\ At(o, "idle")
  /\ operators[o].queue = {}
  /\ operators' = [operators EXCEPT ![o].queue =
                     { n \in PresetNamespaces : There(n) /\ Watches(o, n) }]
  /\ UNCHANGED <<labels, presets, services, configs, downs, faults>>

Uids == { Uid(n) : n \in { m \in PresetNamespaces : There(m) } }

CollectService(n) ==
  /\ services[n] \notin {None, {}}
  /\ ~ services[n] \subseteq Uids
  /\ services' = [services EXCEPT ![n] = IF @ \cap Uids = {} THEN None
                                                             ELSE @ \cap Uids]
  /\ UNCHANGED <<labels, presets, configs, operators, downs, faults>>

-----------------------------------------------------------------------------
\* What an instance does next when nothing stops it.
Proceed(o) ==
  \/ CreatePod(o) \/ StartServes(o) \/ StartFails(o)
  \/ \E n \in PresetNamespaces : StartReconcile(o, n)
  \/ LabelPublic(o) \/ LabelNamespace(o) \/ ReconcileService(o)
  \/ ReconcileWebhook(o) \/ Resync(o)

Next ==
  \/ \E o \in Operators : CreatePod(o)
  \/ \E o \in Operators : StartServes(o)
  \/ \E o \in Operators : StartFails(o)
  \/ \E o \in Operators : LosePod(o)
  \/ \E o \in Operators, n \in PresetNamespaces : StartReconcile(o, n)
  \/ \E o \in Operators : LabelPublic(o)
  \/ \E o \in Operators : LabelNamespace(o)
  \/ \E o \in Operators : ReconcileService(o)
  \/ \E o \in Operators : ReconcileWebhook(o)
  \/ \E o \in Operators : CallFails(o)
  \/ \E n \in PresetNamespaces : ChangePreset(n)
  \/ \E o \in Operators : Resync(o)
  \/ \E n \in Namespaces : CollectService(n)

Spec == Init /\ [][Next]_vars

\* The deployment replaces a pod that is lost, a process runs, its worker takes
\* what waits, and its informer resyncs.  Nothing is assumed of users, faults or
\* the garbage collector.
Fairness == \A o \in Operators : WF_vars(Proceed(o))

FairSpec == Spec /\ Fairness

-----------------------------------------------------------------------------
\* Type correctness.  A pod that does not run has no work, what waits is what
\* the instance watches, and a configuration names a watched namespace.
TypeOK ==
  /\ labels \in [Namespaces -> SUBSET {ManagedLabel, NameLabel}]
  /\ presets \in [PresetNamespaces -> 0..MaxChanges]
  /\ \A n \in Namespaces :
       services[n] = None \/ services[n] \subseteq PresetNamespaces \X (1..MaxChanges)
  /\ \A name \in DOMAIN configs :
       configs[name] = None \/ configs[name].namespace \in Namespaces
  /\ \A o \in Operators :
       LET operator == operators[o]
       IN  /\ operator.phase \in {"down", "starting", "running"}
           /\ operator.env \in Environments[o]
           /\ operator.phase # "running" =>
                operator.queue = {} /\ operator.work = Idle /\ ~ operator.server
           /\ \A n \in operator.queue : n \in PresetNamespaces /\ Watches(o, n)
           /\ operator.work.next \in 0..Len(Webhooks(o))

\* The requests that the rules of a webhook can tell apart.
Requests ==
  [operation : {"CREATE", "UPDATE", "DELETE"},
   resource  : {"pods", "operandrequests", "configmaps"},
   namespace : Namespaces]

\* Whoever answers, and whatever lost instances and deleted PodPresets leave
\* behind: the only requests refused because a webhook cannot be called are
\* those to write a configmap in kube-public (rules, selectors and failure
\* policies in main.go and reconciler.go, the label in AddNameLabeltoNs).
OnlyMapWritesAreRefused ==
  \A request \in Requests :
    Blocked(request) => /\ request.operation \in {"CREATE", "UPDATE"}
                        /\ request.resource = "configmaps"
                        /\ request.namespace = "kube-public"

\* No webhook of the operator keeps the operator's own pod from coming back
\* (rules, selectors and failure policies in main.go and reconciler.go): the
\* pod is created in a namespace that the operator labelled, while nobody
\* answers for the configurations it left.
OperatorsComeBack ==
  \A o \in Operators :
    operators[o].phase = "down" ~> operators[o].phase # "down"

\* The namespace-mapping webhook fails closed, and its configuration outlives
\* the service (ValidatingWebhookReconciler in reconciler.go).  Where an
\* instance with the switch on serves its own namespace and has a PodPreset,
\* configmaps in kube-public can be written again in the end.
MapWritesResume ==
  \A o \in Operators, n \in PresetNamespaces :
    (/\ operators[o].server /\ GetEnableOpreqWebhook(o)
     /\ GetWatchNamespace(o) = HomeOf[o] /\ Watches(o, n) /\ There(n))
      ~> (~ Blocked(Create("configmaps", "kube-public"))
          \/ ~ operators[o].server \/ ~ There(n))

\* An instance that watches n runs and serves nobody.
Serverless(n) ==
  \E o \in Operators :
    operators[o].phase = "running" /\ Watches(o, n) /\ ~ operators[o].server

\* "Cloud Paks can create the PodPreset is the Cloud Pak namespaces [...]
\* Then all the pods in the `ibm-cloud-paks` namespace will be inserted by
\* the webhook" (docs/ibm-common-service-webhook.md): once a PodPreset is
\* there, pods of its namespace reach an instance that applies it, however
\* often several instances overwrite each other's configurations; except that
\* an instance whose start failed serves nobody for as long as it lives.
PresetsReachPods ==
  \A n \in PresetNamespaces :
    There(n) ~> (Injected(n) \/ ~ There(n) \/ Serverless(n))
=============================================================================
