# Verification of ibm-common-service-webhook

TLA+ models of the operator in `src/`, checked with TLC on small instances, and
theorems about them checked with TLAPS.

## The system

The operator runs in one namespace (`WATCH_NAMESPACE`) and serves admission
webhooks.

| Part | Code | State it keeps | Operations |
|---|---|---|---|
| Pod webhook | `pkg/controller/podpreset/handler.go` | none of its own; reads PodPresets from the manager's informer cache | `Handle`: select, check, merge, annotate |
| Merge functions | same file | maps local to a call | `mergeEnv`, `mergeEnvFrom`, `mergeVolumes`, `mergeVolumeMounts` |
| OperandRequest webhook | `pkg/controller/operandrequest/handler.go` | none; reads configmap `kube-public/common-service-maps` from the API server | redirect references to the default common-service namespace |
| Namespace-mapping validator | `pkg/controller/nsmappingconfigmap/handler.go` | none | judge a write to that configmap; any other configmap passes |
| PodPreset controller | `pkg/controller/podpreset/podpreset_controller.go` | work queue, one worker, informer cache | label namespaces, reconcile service, CA configmap and webhook configurations |
| Webhook set-up | `pkg/webhooks/operator_webhooks.go`, `reconciler.go` | `Config`: the list of webhooks | `SetupServer`, `Config.Reconcile`, `ReconcileService`, the two waits |
| Manager | `cmd/manager/main.go` | the process | build the list of webhooks, start the server, start the manager |
| Registration, rules, environment | `webhook_register.go`, `rules.go`, `getEnv.go` | none | values |

They meet at the API server: the controller creates the configurations that make
the API server call the handlers, and the service through which it reaches them;
OpenShift's service CA operator makes the secret with the certificate and injects
the CA; users write pods, PodPresets, OperandRequests, the map and labels at any
time.

What is hard here: the controller and the pod webhook read a cache that lags;
calls to the webhooks can be lost or late (failure policy `Ignore` lets the object
through, `Fail` refuses it); the pod webhook also sees updates, so what it does
must survive being done again; every step of `Reconcile` can fail and is retried
from the start; two waits end after 30 seconds; the process can restart; the
service is collected when its owners go. `PROJECT.json` lists these hazards with
their lines.

What makes each part correct:

- pod webhook: annotations tell the truth, authors' entries stay, valid pods stay
  valid, a refusal or a blocked update has a cause;
- merge functions: the outcome is a function of the entries, not of the maps or
  of the order of the injected entries;
- validator and mutator: tenants that a validated map separates stay apart;
- controller: no user label is lost, the service stays as long as somebody needs
  it, a configuration exists only when it can work, every preset is installed in
  the end;
- start: it ends (it does not always end with a server), and never with a key of
  one secret and a certificate of another;
- registration: what is served and what the API server is told to call agree;
- all together: pods of a namespace with a preset reach the webhook, and no webhook
  locks out the operator or what users need for good.

## Modules

| Module | Models |
|---|---|
| `PodPresetMerge` | the pure part of the pod webhook as operators, with the types of presets and pods |
| `PodAdmission` (extends `PodPresetMerge`) | pods, presets, the cache, and requests in flight |
| `AtomicAdmission` | what the pod webhook promises, without cache, requests and lost calls |
| `PodAdmissionHistory` (extends `PodAdmission`) | a history variable and the mapping to `AtomicAdmission` |
| `PodPresetMergeLoop` (extends `PodPresetMerge`) | the merge loops as written, map by map, entry by entry |
| `NsMapping` | the map, its validator, OperandRequests and their mutator |
| `WebhookInstall` | the start of the server and the controller of one instance, at the granularity of API calls |
| `Installation` | what the operator promises of its webhook configurations; `WebhookInstall` implements it |
| `WebhookRules` | rules, registers, reconcilers and the list of `main.go`, as operators |
| `WebhookRegistry` (extends `WebhookRules`) | the two readings of the list of webhooks, for any list |
| `WebhookDispatch` (extends `WebhookRules`) | instances of the operator, the configurations they share, and the API server that calls them |
| `LoopFacts`, `PodPresetMergeFacts` | lemmas |
| `PodAdmissionProofs`, `PodPresetMergeLoopProofs`, `NsMappingProofs`, `WebhookInstallProofs`, `WebhookRegistryProofs`, `WebhookDispatchProofs` | theorems about the module they are named for |
| `MC*` | constants for TLC |

### PodPresetMerge and PodAdmission

Operators keep the names of the Go functions. A list of env variables, volumes or
mounts is a sequence of records; an env variable's or a volume's content besides
its name is one opaque value, which is what `reflect.DeepEqual` compares. The maps
of the merge functions are written as "the last entry with that key"
(`LastWith`); `PodPresetMergeLoop` shows that this is the same.
`filterPodPresets` returns the address of its loop variable for every match (the
module is built with go 1.19), so its result here is the *last item of the list*,
once per match. The annotations the webhook writes are the field `presets` of a
pod, the two annotations that exempt a pod are `mirror` and `exclude`.

`PodAdmission` has one action per step of a request: a user submits a create or an
update, `Handle` reads the cache once (in any order: the informer's store is a Go
map) and answers, the API server stores the answer or refuses it. `ListFails` is an
error from the cache, `CallIgnored` a call that is lost or late under failure policy
`Ignore`. `log` numbers the writes to presets, so a resourceVersion is a position
in it; `cache` is an older state of `presets`. Updates change labels and the
exclusion annotation; users do not change the webhook's own annotations.

### AtomicAdmission and PodAdmissionHistory

`AtomicAdmission` has no requests: a stored pod changes in one step, to what its
user wrote or to what a webhook answers that sees *one* of the sets of presets the
API server has held. `PodAdmissionHistory` adds the variable `views` that collects
these sets to `PodAdmission` (it restricts nothing), and maps pods to pods. A user's
submission, the answer of `Handle`, a lost call and a refusal are stutters; the
write of the answer is the admission. That this is a refinement says that however
presets, cache, calls and writes interleave, nothing else is ever stored than what
an admission at one instant could have made.

### PodPresetMergeLoop

`IndexOwn` is an iteration of the loop that fills the maps, `MergeOne` an iteration
of the loop over injected entries, `Return` the end. `keys` is `{"name"}` for env
and volumes, and `{"name", "path"}` for mounts. It is a terminating program, so
deadlock is not checked.

### NsMapping

The two handlers unmarshal different structs: the validator reads the control
namespace and the mappings, the mutator the default namespace and the mappings.
A field that has the wrong type therefore fails in one of them only; that is the
value `Malformed` in a field. The validator's two sets are `CsNsBefore` and
`RequestNsBefore`. `log` holds every content of the configmap with whether it was
validated; `version` of a request is the one the mutator read; `routed` is a
history of the redirections that were stored. `WriteMap` needs the server once the
webhook is configured (failure policy `Fail`), deletes are not validated (the rule
does not name them), and an OperandRequest passes unmodified when the mutator is
not reached.

### WebhookInstall

`api[k]` is an object with its version, `cache[k]` what the controller's client
reads. A step of the controller is one API call together with the cache reads just
before it; this loses nothing, since the cache may be as old as it likes at any
step. The only read that is kept across a call is the copy of the namespace
(`work.ns`), which is what `Reconcile` does. `Update` fails unless its version is
current, `CreateOrUpdate` is `Accepted`/`Upserted`, and `Delete` goes by name. The
start uses a client without a cache and runs before the controller. A PodPreset's
name stands for its UID, so a preset that is deleted does not come back. Of the
service only the cluster IP and the owners matter, of a webhook configuration its
existence and its CA bundle. The service's secret and
the two files made of it are version numbers. `StartReadsSecret` keeps the version it
reads (`fetched`), `StartSavesKey` and `StartServing` save key and certificate of that
version, and `RotateSecret` may renew the secret at any time in between. A failure or a
restart during a write leaves an empty file, in a volume that outlives the container. A write of a configuration that the API server would find unchanged still
counts as an `Update` (`Accepted`), since the objects stored carry defaults.

`Installation` keeps of all this whether the manager runs, whether the watch
namespace is labelled, and the bundle of each configuration: configurations are
written only by a manager that runs, only after the label, in the order of the list,
and never with an older bundle (`KeepsPromise`).

### WebhookRules and WebhookRegistry

`WebhookRules` has the values: `NewRule`, `OneResource` and so on build a rule as the
fluent methods do, `AdmissionWebhookRegister` and `WebhookRegisterFor` (the object
register) are the two registers, `GetReconciler` returns the reconcilers that the one
it returns is composed of, `SetupWebhooks` is the list of `main.go`. Of an object only
the interfaces it implements and its place in the path matter.

`WebhookRegistry` runs the two loops over that list, for *any* list: `RegisterNext` is
a turn of the loop in `SetupServer` (the server panics when a path is registered
twice), `CompleteBuilder` the builder after it, `ReconcileWebhook` one reconciler of
one webhook, `GetReconcilerPanics` what an object does when the start failed before
the scheme was set, and `ReconcileFails` an error, as for a type that nobody
reconciles. Configurations survive a restart, the rest does not.

### WebhookDispatch

An instance is its environment: `WATCH_NAMESPACE` says where its service, secret and
presets are, `ENABLE_OPREQ_WEBHOOK` which webhooks it has, and either may be unset or
changed between two pods. A configuration is answered (`Answers`) when there is a
service in the namespace it names, the pod behind it runs *in that namespace* (a
service's selector sees no other), and the server has the endpoint. `Blocked` is what
the API server refuses, `Injected` a pod that is answered for by an instance whose
cache has the preset. The operator's own pod and the configmap of `ReconcileService`
are requests like any other (`CreatePod`, `ReconcileService`), so that a webhook can
stand in its operator's way. A step writes one object, at once or not at all
(`CallFails`): caches, versions, CA and certificates are left to `WebhookInstall`,
which shows that retries get through. `Resync` is the informers' period of ten hours,
the default of the manager.

## Runs

| Run | Shows | Bounds |
|---|---|---|
| `pod_admission` | seven invariants of pods; `PodAdmission` implements `AtomicAdmission` | one pod, two presets, two writes of six kinds of preset, five kinds of pod |
| `pod_admission_matching` | violated: a preset that does not match is applied | same |
| `merge_loop` | loops and operators agree; when a merge succeeds; order | all lists up to three entries over two names and two paths |
| `ns_mapping` | six invariants of routing | two requests of two tenants, two writes of ten maps |
| `install_pods` | the shared service stays, neither preset is starved | two presets, one collection of the service |
| `install_opreq` | configurations exist only when they can work, `Installation` is implemented, users' labels stay | one preset, three webhooks, two CA bundles, one edit of each namespace, one fault |
| `install_live` | a preset is installed, its service is not deleted by mistake, the start ends, a served pair fits, a server gets trusted | one preset, two CA bundles, one collection of the service, one restart, one fault |
| `install_secret` | violated: the secret comes and nobody serves | one preset |
| `install_public` | violated: labels of kube-public are lost | one preset, one edit of each namespace |
| `registry` | endpoints and configurations agree | all lists of up to three of four webhooks, one of them an object |
| `dispatch` | nothing but writes of configmaps in kube-public is ever refused for want of an answer, the operators' pods come back, map writes resume, the presets of both reach pods | two instances, one of them with two environments, a preset created and deleted in each namespace, one loss, one fault |
| `dispatch_paks` | violated: a preset in another namespace is never applied | one instance, which watches its own namespace or all |

Why the bounds are enough. Two presets and two writes are what a pair of
conflicting presets, a preset replaced or deleted between cache and pod, a list
that mixes two states of the presets, and a list whose order matters need; requests
for different pods share nothing but presets, so one pod suffices, with updates
without bound. Three entries give a key repeated in
the list, among the injected, and in both. Two maps let the map change between any
two steps of a request. In `WebhookInstall` every conflict is between two writers:
two presets, or one and a user, an older run of the operator, or the collector.
`MaxEdited` and `MaxCollected` bound the versions that users and the garbage collector
change; a service made by a fresh start has version 1, and 2 with its first owner, so
3 lets it be collected once, behind a cache of any age; without the bound a preset
deleted behind a stale cache could have the service created and collected forever.
`install_opreq` collects nothing: order of label, CA and configurations, which it
checks, does not involve the owners. `install_live` and `install_opreq` renew secret
and bundle once, before, between and after every other step. A list of three
webhooks has an object before, between and after admission webhooks, and a path
twice. Two instances are as many as it takes to overwrite each other; a third would
do what the second does. In `dispatch` the pods of one instance come with
`ENABLE_OPREQ_WEBHOOK` or without, so that it leaves configurations behind that its
next process does not answer for.

Deadlock is not checked for `merge_loop` (it terminates), for the `install_` runs (an
operator with nothing to do is idle) and for `dispatch` (once the bounds are used up
nothing is left to do but to resync, and a pod that could not be created again would
be the end of the system: that this never happens is what `OperatorsComeBack` says).
`OnlyMapWritesAreRefused` is the safety behind that: rules, selectors and failure
policies together leave one kind of request that a dead webhook can block, in every
state, whatever configurations earlier pods left behind.

Fairness (`FairSpec`): the start, the worker, the informers, the service CA
operator and the 30-second timer of the start make progress (weak), and a key in
the work queue is eventually taken although the worker is busy in between (strong:
the queue is first in, first out, and back-off is finite). Users, faults, restarts,
the collector and the timeout of the wait for the CA are not fair. In `WebhookInstall`
the fairness of the informers and of the service CA operator is what `CallsGetTrusted`
needs as well. In `WebhookDispatch` one weak condition for each instance is enough (`Proceed`): the
deployment replaces a lost pod as soon as the API server lets it, a process goes on,
its worker takes something that waits, an idle instance resyncs.

## What the code does that its texts do not say

- `filterPodPresets` is said to return the presets that match; it returns the last
  preset of the list as often as one matches (`pod_admission_matching`).
- `setupCerts` is said to wait for the secret; after 30 seconds the operator runs
  without a server for good (`install_secret`).
- `AddNameLabeltoNs` replaces the labels of kube-public (`install_public`).
- Presets may be put in Cloud Pak namespaces, the documentation says; an operator
  that watches its own namespace never sees them (`dispatch_paks`).

More observations, met while modelling, that no run states:

- The documentation speaks of injection at creation time; the rule names updates, and
  `Handle` injects into them as well. What follows for stored pods is what
  `BlockedUpdateHasCause` says.
- `Reconcile` is said to set an owner reference on what it reconciles; only the
  service gets one, so the configurations stay when the last preset goes, and with
  them the one that fails closed.
- A `CSWebhook` is said to be the single source of truth; of two objects in the list
  only the last gets endpoints, since a builder is for one object. `main.go` has no
  object in its list; with at most one the claim holds (`registry`).
- The ClusterServiceVersion supports the install modes SingleNamespace and
  AllNamespaces; in the one the service is created where no pod of the operator is, in
  the other in no namespace at all. `WebhookDispatch` has both.
- A pod that comes back with `ENABLE_OPREQ_WEBHOOK` switched off leaves the
  configurations of the last one behind, whose endpoints it does not serve;
  `MapWritesResume` is therefore stated for instances with the switch on.
- An instance whose start failed runs without a server for as long as its process
  lives; `PresetsReachPods` excepts namespaces that such an instance watches
  (`Serverless`).
- `deploy/clusterrole.yaml` and the ClusterServiceVersion grant only
  `mutatingwebhookconfigurations`, whereas the validating reconciler needs
  `validatingwebhookconfigurations`; the models assume that calls are permitted.

## Proofs

Every invariant, action property and refinement that a passing run checks is also a
theorem, for every value of the constants that satisfies the named assumptions. Each
assumption is evaluated by TLC in the runs of its module:

| Assumption | Says |
|---|---|
| `DnsAssumption`, `ConstantsAssumption`, `LoopAssumption`, `MappingAssumption`, `InstallAssumption`, `DispatchAssumption` | the types of the constants; bounds are natural numbers; the value that stands for "nothing" is none of the values; users' labels are not the operator's two |
| `CandidatesAssumption` | an object among the webhooks is a defaulter or a validator (`WebhookRegisterFor` refuses others), and a name in the list stands for one register, as in `main.go` |
| `OneObjectAssumption` | of objects there is at most one, without which `SingleSourceOfTruth` is false (see above) |
| `EnvironmentsAssumption` | an instance has an environment, and `WATCH_NAMESPACE`, where set, is a namespace or empty |

The bounds (`MaxChanges`, `MaxRestarts` and so on) are any natural numbers in the
theorems, so what they exclude in a run they do not exclude here. TLC checked the
inductive invariants below on the instances of the runs before they were proved, but
for `AnswersHaveCause`, which asks for a list of presets that it cannot enumerate.

### `PodAdmissionProofs`

The first part is about single steps of the webhook:

- `TypeCorrect`: `TypeOK` is inductive; it includes that a version in the cache or
  in the store is a write to that very preset.
- `AnnotationsAreTrue`: `AnnotatedPodsCarryPresets`. The argument: a merge that
  succeeds returns a list that holds all injected entries and begins with the own
  list (`MergeEntriesFacts`), lists only grow, and an annotation is renewed in the
  same step that merges the version it names. The invariant is needed for every pod
  on its way (stored, submitted, answered) to be inductive.
- `AuthorsAreRespected`: `AuthorEntriesSurvive`, from the same lemmas.

The second part is about why an answer is what it is:

- The invariant is `AnswersHaveCause`: an answer is the request itself or what
  `mutatePodsFn` makes of it and a list of presets that were all written in the watched
  namespace (`Traced`); a denial comes from a failed list or from a malformed selector
  in such a list. The properties alone are not inductive: they speak of the pod before
  and after, not of the list that explains the difference.
- `ChangesAreRecorded`, `ValidityIsKept`, `BlockingHasCause` and `DenialsHaveCause`
  follow. All pointers that `filterPodPresets` returns are one preset (`ChangedByOne`),
  so a change has one author; a merge keeps names unique (`MergeKeepsUnique`), and a
  preset without `envFrom` that has nothing new leaves the spec alone
  (`NothingNewInPod`).

The third part is the refinement:

- `AdmissionsAreAtomic`: `HistorySpec` implements `AtomicAdmission`. The invariant
  (`HistoryInv`) has two parts besides the types: the content of the cache and of the
  API server is among the views (`ViewsKnown`), and a request that is answered is
  explained by its object and one of the views (`RequestsExplained`), which stays true
  because views are only added. With it the step `Store` is an admission and every
  other step leaves the stored pods alone.

### `PodPresetMergeLoopProofs`

- `LoopTypeCorrect` and `LoopsMerge` (`LoopImplementsMerge`), for lists of every length
  over any entries. The invariant `LoopInv` says what the maps are while the loops run:
  each holds, for a key, the last entry of the list so far with that key (`IndexIs`),
  and the result so far is what `MergeRun` has after as many entries. It needs that to
  append an entry makes it the last one with its keys and changes no other
  (`AppendedIsLast`).
- `MergeSucceedsIfConsistent` (`SucceedsIffConsistent`) and `OrderIsIrrelevant`
  (`OrderDoesNotDecide`): `MergeRunAgrees` relates the flag of the operators to the
  entries themselves, with no map and no order: it is set exactly if two of the entries
  met so far share a key and differ (`ErrorIffDisagree`). A bijection of the injected
  entries keeps that (`AgreeInAnyOrder`).

### `NsMappingProofs`

All seven invariants of `ns_mapping`:

- `MappingTypeCorrect`, then `MappingInv`, which says what the properties leave
  implicit: a content that was checked was allowed (`ValidatedMaps`), an answer is what
  `mutateOpreqFn` makes of the request and the map it read (`RequestsAreHandled`), and
  a redirection that was stored leads to the first match in the map it was made with
  (`RoutedAreRedirected`). It is inductive because the log of maps only grows.
- `TenantsAreApart`, `ControlIsApart` and `RoutingHasOneResult` follow with
  `ValidatedMapsSeparate`: a map the validator lets pass has no target and no requester
  twice. `OnlyDefaultIsRedirected` and `RoutingSettles` follow from `MutatedRefs`, what
  the mutator does to one reference, and `RefusalsHaveCause` from the invariant.

### `WebhookInstallProofs`

All that the three passing `install_` runs check besides liveness, for any set of
presets, with and without `ENABLE_OPREQ_WEBHOOK`. `WorkerSteps` says once what a step
of the worker can do (give up, or one of six writes), `WhoWrites` which steps write
which object; the proofs go along these instead of the 30 actions. None of the
properties is inductive, since all of them relate objects that are written at
different times from a cache of any age. The invariant `IInv` has six parts:

- `CacheIsBehind`: the cache, and the copy of the namespace that `Reconcile` keeps
  across its calls, are never ahead of the API server, and a version they share with it
  is the same object. It turns "the update was accepted" into "nobody wrote since it
  was read", and is what `UserLabelsSurvive` rests on (`LabelsAreTheUsers`).
- `StartIsAlone`: no worker works before the start is over, and while the certificate
  is saved the key on disk is that of the secret that was read (`ServedPairIsOne`).
- `LabelsStay`: the labels of the operator are there from the place in `Reconcile`
  that sets them, because nobody takes them away (`NamespacesAreSelected`).
- `BundlesGrow`: the bundle of the configmap grows, so does the cached one, and one
  `Reconcile` writes one bundle, that is no older than what any configuration has
  (`ServiceIsTrusted`).
- `OwnersWereThere`: nobody owns the service who was not created before; with it an
  owner that is not there is gone for good, and what the garbage collector does to its
  service is right.
- `ServiceStays`: what the cache says of an owner that is there still holds, and a
  service that has a cluster IP in the cache has it at the API server or is gone. From
  it no `Reconcile` deletes a headless service (`HeadlessIsKept`,
  `HeadlessServiceIsKept`), and one that `CreateOrUpdate` found in the cache needs no
  write to stay owned by its preset (`CreatedIsOwned`, `ServiceIsThere`).

`PromiseIsKept` is the refinement of `Installation`: a write of a configuration is a
`Configure` (`ConfiguringIsConfigure`, from `BundlesGrow` and `LabelsStay`), a label
that is new is a `LabelNamespace`, the start and the end of a manager are themselves,
every other step is a stutter.

### `WebhookRegistryProofs`

`OneSourceOfTruth` proves `SingleSourceOfTruth` for lists of any length. `RegistryInv`
follows the two loops: what the server serves is what the list up to `next` has
(`Registering`, `Serving`), the configurations up to the place of `Reconcile` exist
(`Reconciling`), and a configuration, which may be left by an earlier process, is one
of the list (`ConfigsOfTheList`). A write of a configuration replaces any other of its
kind and name; that it never takes away what an earlier turn wrote (`ConfigsGrow`)
needs that kind and name determine the path (`ConfIsUnique`).

### `WebhookDispatchProofs`

`DispatchTypeCorrect`, and `OthersPass` (`OnlyMapWritesAreRefused`), for any number of
instances and environments. `DispatchInv` says that an instance works on what it
watches with the list that its environment gives (`InstancesFit`), that kube-public
alone has its name for a label (`LabelsFit`), and that every configuration in the
cluster is one of `main.go`'s webhooks, made for some namespace (`ConfigsFit`), however
many instances have overwritten it. `ConfigurationFacts` then goes through the list:
one register fails closed, and its rule and its selector leave writes of configmaps in
kube-public.

### Lemmas

`LoopFacts` and `PodPresetMergeFacts` hold lemmas on loops and on the merge. What a
merge does after any number of entries is proved by the least counterexample
(`LeastNat`, `LoopInduction`): natural-number induction for a fixed set, since an
induction rule that takes a predicate as a parameter cannot be instantiated by the
provers used.

### Only model-checked

Liveness: `PresetsGetInstalled`, `CallsGetTrusted`, `StartEnds`, `OperatorsComeBack`,
`MapWritesResume`, `PresetsReachPods`. Fairness and `ENABLED` are beyond the proof
system. The runs that expect a violation are counterexamples and stand for themselves.

## Not modelled

Decoding errors and JSON patches (pure conversions); deep copies and scheme
registration (generated or declarative); permissions; `ForDelete` and `ForAll` (nobody
calls them, and they are `For` with another operation); build files and deployment
manifests, except for the environments they give.

Three simplifications that bound what the properties say:

- An informer that lists anew applies the list item by item; `SyncCache` of
  `PodAdmission` moves the whole cache at once. A webhook that read in the middle of a
  re-list could see a set of presets that the API server never held, and
  `AdmissionIsAtomic` is not claimed for it.
- Users edit labels of their own (`UserLabels`); that somebody removes one of the
  operator's two labels by hand is left out, and `WebhooksSelectNamespaces` would not
  survive it: `Reconcile` would set the label again only at its next turn.
- The garbage collector looks for the owners and deletes in one step
  (`CollectGarbage`). Where a cluster's collector takes two, an owner that is added in
  between could lose the service until its next `Reconcile`; `ServiceOutlivesPresets`
  does not cover that.

## Plan

Modules, runs and the theorems for their safety properties are there. What is left
are safety properties behind the liveness ones: that a worker of `WebhookInstall` which
is at "configs" with a trusted bundle has only writes left, and that an instance of
`WebhookDispatch` that is idle with an empty queue has configurations for what it
watches, unless another instance wrote them since.
