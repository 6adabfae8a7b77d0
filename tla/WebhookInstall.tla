---------------------------- MODULE WebhookInstall ----------------------------
(***************************************************************************)
(* How the operator puts its webhooks to work: the start of the webhook    *)
(* server (SetupServer in pkg/webhooks/operator_webhooks.go, called by     *)
(* cmd/manager/main.go) and the PodPreset controller                       *)
(* (pkg/controller/podpreset/podpreset_controller.go), which labels        *)
(* namespaces and creates the Service, the CA configmap and the webhook    *)
(* configurations (operator_webhooks.go, reconciler.go).                   *)
(*                                                                         *)
(* The start talks to the API server; the controller, once the manager     *)
(* runs, writes to the API server but reads from an informer cache that    *)
(* lags it.  A step here is one call to the API server with the cache      *)
(* reads right before it.                                                  *)
(***************************************************************************)
EXTENDS Integers, Sequences, FiniteSets

CONSTANTS
  PresetUIDs,           \* a PodPreset deleted and created anew is another one
  UserLabels,           \* labels users put on namespaces
  EnableOpreqWebhook,   \* utils.GetEnableOpreqWebhook
  Absent,               \* no object
  MaxEdited,            \* users edit a namespace while its version is below it
  MaxCollected,         \* so the garbage collector with the service
  MaxBundle,            \* bound on the CA bundles
  MaxRestarts,          \* bound on the restarts of the operator
  MaxFaults             \* bound on the API calls that fail by themselves

ASSUME InstallAssumption ==
  /\ EnableOpreqWebhook \in BOOLEAN
  /\ Absent \notin Nat
  /\ Absent \notin [headless : BOOLEAN, owners : SUBSET PresetUIDs]
  /\ UserLabels \cap {"managed", "name"} = {}
  /\ MaxEdited \in Nat
  /\ MaxCollected \in Nat
  /\ MaxBundle \in Nat \ {0}
  /\ MaxRestarts \in Nat
  /\ MaxFaults \in Nat

\* What main.go adds to webhooks.Config, in the order it is reconciled.
Webhooks ==
  IF EnableOpreqWebhook THEN << "podpreset", "operandrequest", "nsmapping" >>
                        ELSE << "podpreset" >>

Configs == { Webhooks[i] : i \in DOMAIN Webhooks }

\* "ns" is the watch namespace, "public" is kube-public.
NamespaceObjects == IF EnableOpreqWebhook THEN {"ns", "public"} ELSE {"ns"}

Objects == NamespaceObjects \cup {"service", "ca"} \cup Configs

VARIABLES
  api,         \* api[k] is [rv, data]: the version and content of object k
  cache,       \* the same, as the controller's client reads it
  presets,     \* presets[p] is "new", "there" or "gone"
  known,       \* the same, as the informer last saw it
  queue,       \* the keys waiting for the controller
  work,        \* the worker: [pc, key, ns, bundle, next]
  server,      \* where the start of the webhook server is
  secret,      \* the version of the service's key and certificate, 0 for none
  fetched,     \* the version that setupCerts read, 0 when it is not at work
  files,       \* the versions in the files tls.key and tls.crt, 0 for none
  reconciled,  \* history: the presets a Reconcile of which succeeded
  restarts, faults

vars == <<api, cache, presets, known, queue, work, server, secret, fetched,
          files, reconciled, restarts, faults>>

There == { p \in PresetUIDs : presets[p] = "there" }

\* No controller runs before main.go is through with the start.
Running == server \in {"serving", "never"}

-----------------------------------------------------------------------------
(***************************************************************************)
(* The API server.  A write that changes nothing makes no new version.     *)
(***************************************************************************)
Put(k, data) ==
  [api EXCEPT ![k] = IF @.data = data THEN @
                                      ELSE [rv |-> @.rv + 1, data |-> data]]

\* An Update sent with version rv of the object, taken or refused.
Current(k, rv) == api[k].data # Absent /\ api[k].rv = rv

\* controllerutil.CreateOrUpdate: Get from the cache, then Create, Update or
\* nothing.  Whether the API server takes it, and what it holds then.  Only of
\* the service can it tell that there is nothing to do: the configurations
\* that the API server stored have defaults which the fresh ones lack.
Accepted(k, data) ==
  \/ k = "service" /\ cache[k].data = data
  \/ cache[k].data = Absent /\ api[k].data = Absent
  \/ cache[k].data # Absent /\ Current(k, cache[k].rv)

Upserted(k, data) == IF cache[k].data = data THEN api ELSE Put(k, data)

-----------------------------------------------------------------------------
Idle == [pc |-> "idle", key |-> Absent, ns |-> Absent, bundle |-> 0, next |-> 0]

Object(data) == [rv |-> 0, data |-> data]

Init ==
  /\ \E labels \in SUBSET UserLabels, named \in SUBSET {"name"},
        old \in { Absent, [headless |-> FALSE, owners |-> {}] } :
       api = [k \in Objects |->
                Object(CASE k = "ns"      -> labels
                         [] k = "public"  -> labels \cup named
                         [] k = "service" -> old
                         [] OTHER         -> Absent)]
  /\ cache = api
  /\ presets = [p \in PresetUIDs |-> "new"]
  /\ known = presets
  /\ queue = {}
  /\ work = Idle
  /\ server = "service"
  /\ secret = 0
  /\ fetched = 0
  /\ files = [key |-> 0, crt |-> 0]
  /\ reconciled = {}
  /\ restarts = 0
  /\ faults = 0

-----------------------------------------------------------------------------
(***************************************************************************)
(* The start: setupWebhooks and SetupServer, with a client of its own that *)
(* reads from the API server.                                              *)
(***************************************************************************)
Headless(owners) == [headless |-> TRUE, owners |-> owners]

HasClusterIP(service) == service # Absent /\ ~ service.headless

Owners(service) == IF service = Absent THEN {} ELSE service.owners

\* main.go goes on to mgr.Start: the informers list what is there, and every
\* PodPreset is enqueued.
StartManager(phase) ==
  /\ server' = phase
  /\ cache' = api
  /\ known' = presets
  /\ queue' = There
  /\ fetched' = 0
  /\ UNCHANGED <<api, presets, work, secret, reconciled, restarts>>

\* ReconcileService without an owner: a service with a cluster IP is deleted.
StartDeletesService ==
  /\ server = "service"
  /\ HasClusterIP(api["service"].data)
  /\ api' = Put("service", Absent)
  /\ server' = "create"
  /\ UNCHANGED <<cache, presets, known, queue, work, secret, fetched, files,
                 reconciled, restarts, faults>>

\* createService without an owner.
StartCreatesService ==
  /\ \/ server = "service" /\ ~ HasClusterIP(api["service"].data)
     \/ server = "create"
  /\ api' = Put("service", Headless(Owners(api["service"].data)))
  /\ server' = "certs"
  /\ UNCHANGED <<cache, presets, known, queue, work, secret, fetched, files,
                 reconciled, restarts, faults>>

\* setupCerts finds the secret ...
StartReadsSecret ==
  /\ server = "certs"
  /\ secret # 0
  /\ fetched' = secret
  /\ server' = "saveKey"
  /\ UNCHANGED <<api, cache, presets, known, queue, work, secret, files,
                 reconciled, restarts, faults>>

\* ... and saves what it read, first the key, in a volume that outlives the
\* container ...
StartSavesKey ==
  /\ server = "saveKey"
  /\ files' = [files EXCEPT !.key = fetched]
  /\ server' = "saveCert"
  /\ UNCHANGED <<api, cache, presets, known, queue, work, secret, fetched,
                 reconciled, restarts, faults>>

\* Mutant: each file is saved from a secret read anew.
ServeCurrentCert ==
  /\ server = "saveCert"
  /\ files' = [files EXCEPT !.crt = secret]
  /\ StartManager("serving")
  /\ UNCHANGED faults

\* ... then the certificate.  SetupServer registers the handlers.
StartServing ==
  /\ server = "saveCert"
  /\ files' = [files EXCEPT !.crt = fetched]
  /\ StartManager("serving")
  /\ UNCHANGED faults

\* Mutant: the wait has no end.
WaitForever ==
  /\ server = "certs"
  /\ secret = 0
  /\ UNCHANGED vars

\* setupCerts gives up after 30 seconds.  main.go logs the error and goes on
\* to start the manager without a webhook server.
CertsTimeOut ==
  /\ server = "certs"
  /\ secret = 0
  /\ StartManager("never")
  /\ UNCHANGED <<files, faults>>

\* Any call of the start fails; main.go treats that error the same way.  A
\* file that was opened and not written is empty.
StartFails ==
  /\ ~ Running
  /\ faults < MaxFaults
  /\ faults' = faults + 1
  /\ \/ UNCHANGED files
     \/ server = "saveKey" /\ files' = [files EXCEPT !.key = 0]
     \/ server = "saveCert" /\ files' = [files EXCEPT !.crt = 0]
  /\ StartManager("never")

\* The operator's process ends and starts again.  A file that was opened and
\* not yet written is empty.
Restart ==
  /\ restarts < MaxRestarts
  /\ restarts' = restarts + 1
  /\ server' = "service"
  /\ queue' = {}
  /\ work' = Idle
  /\ fetched' = 0
  /\ \/ UNCHANGED files
     \/ server = "saveKey" /\ files' = [files EXCEPT !.key = 0]
     \/ server = "saveCert" /\ files' = [files EXCEPT !.crt = 0]
  /\ UNCHANGED <<api, cache, presets, known, secret, reconciled, faults>>

-----------------------------------------------------------------------------
(***************************************************************************)
(* The controller: Reconcile for one key at a time.                        *)
(***************************************************************************)
UnchangedByWork ==
  UNCHANGED <<cache, presets, known, server, secret, fetched, files, restarts>>

At(pc) == Running /\ work.pc = pc

\* Mutant: an error is logged and the key is not put back.
Forget ==
  /\ work' = Idle
  /\ UNCHANGED queue
  /\ UNCHANGED <<api, reconciled>>
  /\ UnchangedByWork

\* Reconcile returned an error: the key is put back into the queue.
Fail ==
  /\ work' = Idle
  /\ queue' = queue \cup {work.key}
  /\ UNCHANGED <<api, reconciled>>
  /\ UnchangedByWork

\* A step that ends in an error unless the API server takes its write.
Try(accepted, written, pc) ==
  IF accepted
  THEN /\ api' = written
       /\ work' = [work EXCEPT !.pc = pc]
       /\ UNCHANGED <<queue, reconciled>>
       /\ UnchangedByWork
  ELSE Fail

\* Mutant: one Reconcile is taken to serve every key that waits.
DrainQueue(p) ==
  /\ At("idle")
  /\ p \in queue
  /\ queue' = {}
  /\ work' = [Idle EXCEPT !.pc = "public", !.key = p, !.ns = cache["ns"]]
  /\ UNCHANGED <<api, reconciled, faults>>
  /\ UnchangedByWork

\* Reconcile begins: it keeps the watch namespace as the cache has it.
StartReconcile(p) ==
  /\ At("idle")
  /\ p \in queue
  /\ queue' = queue \ {p}
  /\ work' = [Idle EXCEPT !.pc = "public", !.key = p, !.ns = cache["ns"]]
  /\ UNCHANGED <<api, reconciled, faults>>
  /\ UnchangedByWork

\* Mutant: a failure to label kube-public does not end Reconcile.
LabelPublicAnyway ==
  /\ At("public")
  /\ Try(TRUE,
         IF Current("public", cache["public"].rv) /\ EnableOpreqWebhook
         THEN Put("public", {"name"}) ELSE api,
         "label")
  /\ UNCHANGED faults

\* AddNameLabeltoNs("kube-public"): the labels it sets are the only ones.
LabelPublic ==
  /\ At("public")
  /\ IF EnableOpreqWebhook /\ "name" \notin cache["public"].data
     THEN Try(Current("public", cache["public"].rv), Put("public", {"name"}), "label")
     ELSE Try(TRUE, api, "label")
  /\ UNCHANGED faults

\* Mutant: a patch without the resourceVersion.
LabelNamespaceBlindly ==
  /\ At("label")
  /\ Try(TRUE, Put("ns", work.ns.data \cup {"managed"}), "service")
  /\ UNCHANGED faults

\* The label is added to the copy read at the beginning.
LabelNamespace ==
  /\ At("label")
  /\ Try(Current("ns", work.ns.rv), Put("ns", work.ns.data \cup {"managed"}), "service")
  /\ UNCHANGED faults

\* Reconcile finds its PodPreset gone and is done.
InstanceGone ==
  /\ At("service")
  /\ known[work.key] # "there"
  /\ work' = Idle
  /\ UNCHANGED <<api, queue, reconciled, faults>>
  /\ UnchangedByWork

\* ReconcileService: the service in the cache has a cluster IP.  Delete goes
\* by name, whatever service has it by now, and fails when there is none.
DeleteService ==
  /\ At("service")
  /\ known[work.key] = "there"
  /\ HasClusterIP(cache["service"].data)
  /\ Try(api["service"].data # Absent, Put("service", Absent), "create")
  /\ UNCHANGED faults

ReadyToCreate ==
  \/ /\ At("service")
     /\ known[work.key] = "there"
     /\ ~ HasClusterIP(cache["service"].data)
  \/ At("create")

\* Mutant: an existing service is left as it is.
CreateServiceOnce ==
  /\ ReadyToCreate
  /\ IF cache["service"].data # Absent
     THEN Try(TRUE, api, "ca")
     ELSE Try(api["service"].data = Absent, Put("service", Headless({work.key})), "ca")
  /\ UNCHANGED faults

\* Mutant: after the delete the service is created without another read.
CreateServiceDirectly ==
  /\ ReadyToCreate
  /\ IF At("create")
     THEN Try(api["service"].data = Absent, Put("service", Headless({work.key})), "ca")
     ELSE LET data == Headless({work.key} \cup Owners(cache["service"].data))
          IN  Try(Accepted("service", data), Upserted("service", data), "ca")
  /\ UNCHANGED faults

\* createService: CreateOrUpdate with the PodPreset as an owner.
CreateService ==
  /\ ReadyToCreate
  /\ LET data == Headless({work.key} \cup Owners(cache["service"].data))
     IN  Try(Accepted("service", data), Upserted("service", data), "ca")
  /\ UNCHANGED faults

\* Create the CA configmap; that it exists already is no error.
CreateCA ==
  /\ At("ca")
  /\ Try(TRUE, IF api["ca"].data = Absent THEN Put("ca", 0) ELSE api, "wait")
  /\ UNCHANGED faults

\* Mutant: a configmap without the CA is good enough.
FoundAnyCA ==
  /\ At("wait")
  /\ cache["ca"].data # Absent
  /\ work' = [work EXCEPT !.pc = "configs", !.bundle = cache["ca"].data, !.next = 1]
  /\ UNCHANGED <<api, queue, reconciled, faults>>
  /\ UnchangedByWork

\* waitForCAInConfigMap polls the cache until the CA is in the configmap ...
FoundCA ==
  /\ At("wait")
  /\ cache["ca"].data \notin {Absent, 0}
  /\ work' = [work EXCEPT !.pc = "configs", !.bundle = cache["ca"].data, !.next = 1]
  /\ UNCHANGED <<api, queue, reconciled, faults>>
  /\ UnchangedByWork

\* ... for 30 seconds, in which the only worker does nothing else.
CATimesOut ==
  /\ At("wait")
  /\ cache["ca"].data \in {Absent, 0}
  /\ Fail
  /\ UNCHANGED faults

\* The step of one webhook configuration, and the end after the last one.
TryConfigure(accepted, written) ==
  /\ At("configs")
  /\ IF accepted
     THEN /\ api' = written
          /\ IF work.next = Len(Webhooks)
             THEN /\ work' = Idle
                  /\ reconciled' = reconciled \cup {work.key}
             ELSE /\ work' = [work EXCEPT !.next = @ + 1]
                  /\ UNCHANGED reconciled
          /\ UNCHANGED queue
          /\ UnchangedByWork
     ELSE Fail
  /\ UNCHANGED faults

\* Mutant: a configuration that is there is left as it is.
ConfigureOnce ==
  LET k == Webhooks[work.next]
  IN  TryConfigure(cache[k].data # Absent \/ api[k].data = Absent,
                   IF cache[k].data # Absent THEN api ELSE Put(k, work.bundle))

\* Mutant: a configuration that cannot be written does not end Reconcile.
ConfigureTheRest ==
  LET k == Webhooks[work.next]
  IN  TryConfigure(TRUE, IF Accepted(k, work.bundle)
                         THEN Upserted(k, work.bundle) ELSE api)

\* Config.Reconcile, for the configuration whose turn it is.
ReconcileWebhook ==
  LET k == Webhooks[work.next]
  IN  TryConfigure(Accepted(k, work.bundle), Upserted(k, work.bundle))

\* A call fails by itself, before it has an effect.
CallFails ==
  /\ Running
  /\ work.pc \notin {"idle", "wait"}
  /\ faults < MaxFaults
  /\ faults' = faults + 1
  /\ Fail

-----------------------------------------------------------------------------
(***************************************************************************)
(* The informers, the cluster and its users.                               *)
(***************************************************************************)
Outside == UNCHANGED <<work, server, fetched, files, reconciled, restarts, faults>>

SyncObject(k) ==
  /\ Running
  /\ cache[k] # api[k]
  /\ cache' = [cache EXCEPT ![k] = api[k]]
  /\ UNCHANGED <<api, presets, known, queue, secret>>
  /\ Outside

\* The events of the PodPresets enqueue their keys.
SyncPresets ==
  /\ Running
  /\ known # presets
  /\ known' = presets
  /\ queue' = queue \cup { p \in PresetUIDs : known[p] # presets[p] }
  /\ UNCHANGED <<api, cache, presets, secret>>
  /\ Outside

\* A PodPreset is updated, or the informer resyncs.
TouchPreset(p) ==
  /\ Running
  /\ presets[p] = "there" /\ known[p] = "there"
  /\ queue' = queue \cup {p}
  /\ UNCHANGED <<api, cache, presets, known, secret>>
  /\ Outside

CreatePreset(p) ==
  /\ presets[p] = "new"
  /\ presets' = [presets EXCEPT ![p] = "there"]
  /\ UNCHANGED <<api, cache, known, queue, secret>>
  /\ Outside

DeletePreset(p) ==
  /\ presets[p] = "there"
  /\ presets' = [presets EXCEPT ![p] = "gone"]
  /\ UNCHANGED <<api, cache, known, queue, secret>>
  /\ Outside

\* A user adds a label to a namespace or removes it.
EditLabel(k, label) ==
  /\ api[k].rv < MaxEdited
  /\ api' = Put(k, IF label \in api[k].data THEN api[k].data \ {label}
                                            ELSE api[k].data \cup {label})
  /\ UNCHANGED <<cache, presets, known, queue, secret>>
  /\ Outside

\* Kubernetes collects the service when its owners are all gone, and drops
\* the references to those that are when some are not.
CollectGarbage ==
  LET service == api["service"].data
  IN  /\ service # Absent
      /\ api["service"].rv < MaxCollected
      /\ ~ service.owners \subseteq There
      /\ api' = Put("service",
                    IF service.owners \cap There = {} THEN Absent
                    ELSE [service EXCEPT !.owners = @ \cap There])
      /\ UNCHANGED <<cache, presets, known, queue, secret>>
      /\ Outside

\* OpenShift makes the certificate for the service and injects the CA.
MakeSecret ==
  /\ secret = 0
  /\ api["service"].data # Absent /\ api["service"].data.headless
  /\ secret' = 1
  /\ UNCHANGED <<api, cache, presets, known, queue>>
  /\ Outside

InjectCA ==
  /\ api["ca"].data = 0
  /\ api' = Put("ca", 1)
  /\ UNCHANGED <<cache, presets, known, queue, secret>>
  /\ Outside

RotateCA ==
  /\ api["ca"].data \in 1..(MaxBundle - 1)
  /\ api' = Put("ca", api["ca"].data + 1)
  /\ UNCHANGED <<cache, presets, known, queue, secret>>
  /\ Outside

\* After the CA, the certificates it signed are renewed.
RotateSecret ==
  /\ secret # 0
  /\ api["ca"].data # Absent /\ secret < api["ca"].data
  /\ secret' = secret + 1
  /\ UNCHANGED <<api, cache, presets, known, queue>>
  /\ Outside

-----------------------------------------------------------------------------
Start ==
  \/ StartDeletesService \/ StartCreatesService
  \/ StartReadsSecret \/ StartSavesKey \/ StartServing

Work ==
  \/ LabelPublic \/ LabelNamespace \/ InstanceGone \/ DeleteService
  \/ CreateService \/ CreateCA \/ FoundCA \/ ReconcileWebhook

Next ==
  \/ StartDeletesService
  \/ StartCreatesService
  \/ StartReadsSecret
  \/ StartSavesKey
  \/ StartServing
  \/ CertsTimeOut
  \/ StartFails
  \/ Restart
  \/ \E p \in PresetUIDs : StartReconcile(p)
  \/ LabelPublic
  \/ LabelNamespace
  \/ InstanceGone
  \/ DeleteService
  \/ CreateService
  \/ CreateCA
  \/ FoundCA
  \/ CATimesOut
  \/ ReconcileWebhook
  \/ CallFails
  \/ \E k \in Objects : SyncObject(k)
  \/ SyncPresets
  \/ \E p \in PresetUIDs : TouchPreset(p)
  \/ \E p \in PresetUIDs : CreatePreset(p)
  \/ \E p \in PresetUIDs : DeletePreset(p)
  \/ \E k \in NamespaceObjects, label \in UserLabels : EditLabel(k, label)
  \/ CollectGarbage
  \/ MakeSecret
  \/ InjectCA
  \/ RotateCA
  \/ RotateSecret

Spec == Init /\ [][Next]_vars

\* The process runs, its informers receive events, and the service CA
\* operator does its work.  The queue is served in order, so a key in it gets
\* its turn although the worker is busy in between.  Nothing is assumed of
\* users, faults, restarts, garbage collection or timeouts.
Fairness ==
  /\ WF_vars(Start)
  /\ WF_vars(CertsTimeOut)
  /\ WF_vars(Work)
  /\ WF_vars(SyncPresets)
  /\ \A k \in Objects : WF_vars(SyncObject(k))
  /\ \A p \in PresetUIDs : SF_vars(StartReconcile(p))
  /\ WF_vars(MakeSecret)
  /\ WF_vars(InjectCA)

FairSpec == Spec /\ Fairness

-----------------------------------------------------------------------------
(***************************************************************************)
(* Type correctness.                                                       *)
(***************************************************************************)
Data(k) ==
  CASE k \in {"ns", "public"} -> SUBSET (UserLabels \cup {"managed", "name"})
    [] k = "service" ->
         [headless : BOOLEAN, owners : SUBSET PresetUIDs] \cup {Absent}
    [] k = "ca" -> 0..MaxBundle \cup {Absent}
    [] OTHER -> 1..MaxBundle \cup {Absent}

IsObject(k, x) == x \in [rv : Nat, data : Data(k)]

IsWork(w) ==
  /\ w.pc \in {"idle", "public", "label", "service", "create", "ca", "wait",
               "configs"}
  /\ w.pc # "idle" => w.key \in PresetUIDs /\ IsObject("ns", w.ns)
  /\ w.pc = "configs" => w.bundle \in 1..MaxBundle /\ w.next \in DOMAIN Webhooks

TypeOK ==
  /\ DOMAIN api = Objects /\ \A k \in Objects : IsObject(k, api[k])
  /\ DOMAIN cache = Objects /\ \A k \in Objects : IsObject(k, cache[k])
  /\ presets \in [PresetUIDs -> {"new", "there", "gone"}]
  /\ known \in [PresetUIDs -> {"new", "there", "gone"}]
  /\ queue \subseteq PresetUIDs
  /\ DOMAIN work = DOMAIN Idle /\ IsWork(work)
  /\ server \in {"service", "create", "certs", "saveKey", "saveCert", "serving",
                 "never"}
  /\ secret \in 0..MaxBundle
  /\ fetched \in 0..MaxBundle
  /\ files \in [key : 0..MaxBundle, crt : 0..MaxBundle]
  /\ reconciled \subseteq PresetUIDs
  /\ restarts \in 0..MaxRestarts
  /\ faults \in 0..MaxFaults

-----------------------------------------------------------------------------
(***************************************************************************)
(* Safety.                                                                 *)
(***************************************************************************)
Configured == { k \in Configs : api[k].data # Absent }

\* By the time a webhook configuration exists its namespace selector finds
\* something: the watch namespace carries the label for the pod webhook and,
\* with the OperandRequest webhooks, kube-public carries its name.  Every way
\* out of a label update that was not taken must end Reconcile.
WebhooksSelectNamespaces ==
  Configured # {} =>
    /\ "managed" \in api["ns"].data
    /\ EnableOpreqWebhook => "name" \in api["public"].data

\* No webhook configuration is written without a CA bundle, which would make
\* every call of the webhook fail, and none gets ahead of the configmap.
ConfigsTrustTheService ==
  \A k \in Configured :
    /\ api["ca"].data # Absent
    /\ api[k].data \in 1..api["ca"].data

\* As long as a PodPreset that was reconciled is there, so is the service in
\* front of the webhook server, without a cluster IP and owned by the preset:
\* neither the garbage collection of other presets' leftovers nor another
\* Reconcile with a stale view takes it away.
ServiceOutlivesPresets ==
  \A p \in reconciled \cap There :
    /\ api["service"].data # Absent
    /\ api["service"].data.headless
    /\ p \in api["service"].data.owners

\* A service the operator made is deleted only when it lost its owners, never
\* by a Reconcile or a start that takes it for the old one: Delete goes by
\* name after a read of the cache.
HeadlessServiceIsKept ==
  [][ LET service == api["service"].data
      IN  (/\ service # Absent /\ service.headless
           /\ api'["service"].data = Absent)
          => service.owners # {} /\ service.owners \cap There = {} ]_vars

\* The server never runs with the key of one secret and the certificate of
\* another, though the files are written one after the other, an attempt may
\* end between them, and the secret is renewed while the files of the last
\* run are still there.
ServedPairFits ==
  server = "serving" => files.key = files.crt /\ files.crt # 0

\* What is promised of the webhook configurations (Installation): they are
\* written in the order of the list, front to back, only by a running manager
\* and into a labelled namespace; none is ever taken back, and none gets an
\* older CA bundle than it had, whatever the cache, the faults and the
\* restarts do.
Promise ==
  INSTANCE Installation
    WITH Count <- Len(Webhooks),
         Bundles <- 1..MaxBundle,
         running <- Running,
         labelled <- "managed" \in api["ns"].data,
         bundles <- [i \in DOMAIN Webhooks |->
                       IF api[Webhooks[i]].data = Absent THEN 0
                                                         ELSE api[Webhooks[i]].data]

KeepsPromise == Promise!Spec

ByUsers(k) == \E label \in UserLabels : EditLabel(k, label)

\* The controller neither removes labels that users put on the watch
\* namespace nor brings back labels that they removed, though it writes back
\* a copy it read before another call.
UserLabelsSurvive ==
  [][ api'["ns"].data \cap UserLabels # api["ns"].data \cap UserLabels
      => ByUsers("ns") ]_vars

-----------------------------------------------------------------------------
(***************************************************************************)
(* Liveness.                                                               *)
(***************************************************************************)

\* Every PodPreset that stays is installed in the end: the watch namespace is
\* labelled, the service is up, and all webhook configurations are there,
\* whatever conflicts, faults, restarts and timeouts came in between.
Installed(p) ==
  /\ "managed" \in api["ns"].data
  /\ api["service"].data # Absent /\ p \in api["service"].data.owners
  /\ Configured = Configs

PresetsGetInstalled ==
  \A p \in PresetUIDs :
    presets[p] = "there" ~> (Installed(p) \/ presets[p] = "gone")

\* The start comes to an end: the controller runs, with or without a webhook
\* server.
StartEnds == ~ Running ~> Running

\* A bundle holds the CA of its version and those before it.
Trusted == \A k \in Configs : api[k].data # Absent /\ api[k].data >= files.crt

\* Where there is a PodPreset, a server that started with a renewed
\* certificate is trusted by the API server in the end: the start leads to a
\* Reconcile, and that renews the CA bundle of every configuration that is
\* already there.
CallsGetTrusted ==
  \A p \in PresetUIDs :
    (server = "serving" /\ presets[p] = "there")
      ~> (Trusted \/ presets[p] = "gone" \/ server # "serving")

-----------------------------------------------------------------------------
(***************************************************************************)
(* What the comments say and the code does not do.                         *)
(***************************************************************************)

\* "setupCerts waits for the secret created for the operator Service to
\* exist, and when it's ready, extracts the certificates": a start that came
\* as far as the wait ends with the server serving.
SecretIsAwaited == server = "certs" ~> server = "serving"

\* AddNameLabeltoNs adds a label: the labels users put on kube-public stay.
PublicLabelsSurvive ==
  [][ api'["public"].data \cap UserLabels # api["public"].data \cap UserLabels
      => ByUsers("public") ]_vars
=============================================================================
