------------------------ MODULE WebhookInstallProofs ------------------------
(***************************************************************************)
(* Theorems about WebhookInstall, for every set of PodPresets and labels,  *)
(* with and without the OperandRequest webhooks, and for every number of   *)
(* faults, restarts and renewed certificates.                              *)
(***************************************************************************)
EXTENDS WebhookInstall, TLAPS

(***************************************************************************)
(* The objects and their contents.                                         *)
(***************************************************************************)
LEMMA WebhookFacts ==
  /\ Len(Webhooks) \in Nat \ {0}
  /\ DOMAIN Webhooks = 1..Len(Webhooks)
  /\ \A i \in DOMAIN Webhooks : Webhooks[i] \in Configs
  /\ \A i, j \in DOMAIN Webhooks : Webhooks[i] = Webhooks[j] => i = j
  /\ Configs \subseteq {"podpreset", "operandrequest", "nsmapping"}
<1>1. CASE EnableOpreqWebhook
  <2>1. Webhooks = << "podpreset", "operandrequest", "nsmapping" >>
    BY <1>1 DEF Webhooks
  <2> QED
    BY <2>1 DEF Configs
<1>2. CASE ~ EnableOpreqWebhook
  <2>1. Webhooks = << "podpreset" >>
    BY <1>2 DEF Webhooks
  <2> QED
    BY <2>1 DEF Configs
<1> QED
  BY <1>1, <1>2

LEMMA ObjectFacts ==
  /\ {"ns", "service", "ca"} \cup Configs \subseteq Objects
  /\ EnableOpreqWebhook => "public" \in Objects
  /\ Objects \subseteq {"ns", "public", "service", "ca"} \cup Configs
  /\ Configs \cap {"ns", "public", "service", "ca"} = {}
  /\ NamespaceObjects \subseteq {"ns", "public"} /\ NamespaceObjects \subseteq Objects
BY WebhookFacts DEF Objects, NamespaceObjects

Service == [headless : BOOLEAN, owners : SUBSET PresetUIDs]

LEMMA DataFacts ==
  /\ Data("ns") = SUBSET (UserLabels \cup {"managed", "name"})
  /\ Data("public") = SUBSET (UserLabels \cup {"managed", "name"})
  /\ Data("service") = Service \cup {Absent}
  /\ Data("ca") = 0..MaxBundle \cup {Absent}
  /\ \A k \in Configs : Data(k) = 1..MaxBundle \cup {Absent}
BY ObjectFacts DEF Data, Service

\* A write leaves the other objects alone, and makes the one that it changes
\* a newer version of what it was.
LEMMA PutFacts ==
  ASSUME TypeOK, NEW k \in Objects, NEW data, api' = Put(k, data)
  PROVE  /\ DOMAIN api' = Objects
         /\ \A j \in Objects \ {k} : api'[j] = api[j]
         /\ api'[k].data = data
         /\ api[k].rv <= api'[k].rv
         /\ api[k].rv = api'[k].rv => api'[k] = api[k]
         /\ data \in Data(k) => IsObject(k, api'[k])
<1>1. DOMAIN api = Objects /\ api[k] \in [rv : Nat, data : Data(k)]
  BY DEF TypeOK, IsObject
<1>2. PICK new : new = IF api[k].data = data THEN api[k]
                       ELSE [rv |-> api[k].rv + 1, data |-> data]
  OBVIOUS
<1>3. api' = [api EXCEPT ![k] = new]
  BY <1>2 DEF Put
<1>4. /\ data \in Data(k) => new \in [rv : Nat, data : Data(k)]
      /\ new.data = data /\ api[k].rv <= new.rv
      /\ api[k].rv = new.rv => new = api[k]
  BY <1>1, <1>2
<1> QED
  BY <1>1, <1>3, <1>4 DEF IsObject

\* The steps by whose they are.
StartStep ==
  \/ StartDeletesService \/ StartCreatesService \/ StartReadsSecret
  \/ StartSavesKey \/ StartServing \/ CertsTimeOut \/ StartFails \/ Restart

WorkerStep ==
  \/ \E p \in PresetUIDs : StartReconcile(p)
  \/ LabelPublic \/ LabelNamespace \/ InstanceGone \/ DeleteService
  \/ CreateService \/ CreateCA \/ FoundCA \/ CATimesOut
  \/ ReconcileWebhook \/ CallFails

OutsideStep ==
  \/ \E k \in Objects : SyncObject(k)
  \/ SyncPresets
  \/ \E p \in PresetUIDs : TouchPreset(p) \/ CreatePreset(p) \/ DeletePreset(p)
  \/ \E k \in NamespaceObjects, label \in UserLabels : EditLabel(k, label)
  \/ CollectGarbage \/ MakeSecret \/ InjectCA \/ RotateCA \/ RotateSecret

LEMMA NextSteps == Next <=> StartStep \/ WorkerStep \/ OutsideStep
BY DEF Next, StartStep, WorkerStep, OutsideStep

-----------------------------------------------------------------------------
(***************************************************************************)
(* Type correctness.                                                       *)
(***************************************************************************)
\* A write of some object, or none.
Writes == api' = api \/ \E k \in Objects : \E data \in Data(k) : api' = Put(k, data)

LEMMA WritesTyped ==
  ASSUME TypeOK, Writes
  PROVE  DOMAIN api' = Objects /\ \A k \in Objects : IsObject(k, api'[k])
<1>1. CASE api' = api
  BY <1>1 DEF TypeOK
<1>2. CASE \E k \in Objects : \E data \in Data(k) : api' = Put(k, data)
  BY <1>2, PutFacts DEF TypeOK
<1> QED
  BY <1>1, <1>2 DEF Writes

LEMMA IdleTyped == IsWork(Idle) /\ Idle.pc = "idle"
BY DEF Idle, IsWork

LEMMA FailTyped ==
  ASSUME TypeOK, work.pc # "idle", Fail, faults' \in 0..MaxFaults
  PROVE  TypeOK'
<1>1. work.key \in PresetUIDs
  BY DEF TypeOK, IsWork
<1>2. work' = Idle /\ queue' = queue \cup {work.key} /\ UNCHANGED <<api, reconciled>>
  BY DEF Fail
<1>3. UNCHANGED <<cache, presets, known, server, secret, fetched, files, restarts>>
  BY DEF Fail, UnchangedByWork
<1> QED
  BY <1>1, <1>2, <1>3, IdleTyped DEF TypeOK

LEMMA TryTyped ==
  ASSUME TypeOK, work.pc # "idle", NEW accepted, NEW written,
         NEW pc \in {"label", "service", "create", "ca", "wait"},
         accepted => (api' = written => Writes),
         Try(accepted, written, pc), UNCHANGED faults
  PROVE  TypeOK'
<1>1. CASE accepted
  <2>1. /\ Writes
        /\ work' = [work EXCEPT !.pc = pc]
        /\ UNCHANGED <<queue, reconciled>>
        /\ UNCHANGED <<cache, presets, known, server, secret, fetched, files, restarts>>
    BY <1>1 DEF Try, UnchangedByWork
  <2>2. DOMAIN api' = Objects /\ \A k \in Objects : IsObject(k, api'[k])
    BY <2>1, WritesTyped
  <2>3. DOMAIN work' = DOMAIN Idle /\ IsWork(work')
    BY <2>1 DEF TypeOK, IsWork, Idle
  <2> QED
    BY <2>1, <2>2, <2>3 DEF TypeOK
<1>2. CASE ~ accepted
  <2>1. Fail /\ faults' \in 0..MaxFaults
    BY <1>2 DEF Try, TypeOK
  <2> QED
    BY <2>1, FailTyped
<1> QED
  BY <1>1, <1>2

\* The steps of the start, of the informers and of everybody else: the worker
\* is where it was, or idle.
LEMMA OthersTyped ==
  ASSUME TypeOK, Writes, UNCHANGED work \/ work' = Idle,
         UNCHANGED cache \/ cache' = api
           \/ \E k \in Objects : cache' = [cache EXCEPT ![k] = api[k]],
         presets' \in [PresetUIDs -> {"new", "there", "gone"}],
         known' \in [PresetUIDs -> {"new", "there", "gone"}],
         queue' \subseteq PresetUIDs,
         server' \in {"service", "create", "certs", "saveKey", "saveCert", "serving",
                      "never"},
         secret' \in 0..MaxBundle,
         fetched' \in 0..MaxBundle,
         files' \in [key : 0..MaxBundle, crt : 0..MaxBundle],
         UNCHANGED reconciled, restarts' \in 0..MaxRestarts, faults' \in 0..MaxFaults
  PROVE  TypeOK'
<1>1. DOMAIN api' = Objects /\ \A k \in Objects : IsObject(k, api'[k])
  BY WritesTyped
<1>2. DOMAIN cache' = Objects /\ \A k \in Objects : IsObject(k, cache'[k])
  BY DEF TypeOK
<1>3. DOMAIN work' = DOMAIN Idle /\ IsWork(work')
  BY IdleTyped DEF TypeOK
<1> QED
  BY <1>1, <1>2, <1>3 DEF TypeOK

LEMMA StartTyped ==
  ASSUME TypeOK, StartStep
  PROVE  TypeOK'
<1>1. /\ api["service"].data \in Service \cup {Absent}
      /\ There \subseteq PresetUIDs /\ 0 \in 0..MaxBundle
  BY ObjectFacts, DataFacts, InstallAssumption DEF TypeOK, IsObject, There
<1>2. ASSUME NEW data \in Service \cup {Absent}, api' = Put("service", data)
      PROVE  Writes
  BY <1>2, ObjectFacts, DataFacts DEF Writes
<1>3. CASE StartDeletesService
  <2>1. Writes
    BY <1>2, <1>3 DEF StartDeletesService
  <2> QED
    BY <1>3, <2>1, OthersTyped DEF StartDeletesService, TypeOK
<1>4. CASE StartCreatesService
  <2>1. Headless(Owners(api["service"].data)) \in Service
    BY <1>1 DEF Headless, Owners, Service
  <2>2. Writes
    BY <1>2, <1>4, <2>1 DEF StartCreatesService
  <2> QED
    BY <1>4, <2>2, OthersTyped DEF StartCreatesService, TypeOK
<1>5. CASE StartSavesKey
  BY <1>5, OthersTyped DEF StartSavesKey, Writes, TypeOK
<1>0. CASE StartReadsSecret
  BY <1>0, OthersTyped DEF StartReadsSecret, Writes, TypeOK
<1>6. CASE StartServing
  BY <1>1, <1>6, OthersTyped DEF StartServing, StartManager, Writes, TypeOK
<1>7. CASE CertsTimeOut
  BY <1>1, <1>7, OthersTyped DEF CertsTimeOut, StartManager, Writes, TypeOK
<1>8. CASE StartFails
  <2>1. files' \in [key : 0..MaxBundle, crt : 0..MaxBundle]
    BY <1>8, InstallAssumption DEF StartFails, TypeOK
  <2>2. faults' \in 0..MaxFaults
    BY <1>8, InstallAssumption DEF StartFails, TypeOK
  <2> QED
    BY <1>1, <1>8, <2>1, <2>2, OthersTyped DEF StartFails, StartManager, Writes, TypeOK
<1>9. CASE Restart
  <2>1. restarts' \in 0..MaxRestarts
    BY <1>9, InstallAssumption DEF Restart, TypeOK
  <2>2. files' \in [key : 0..MaxBundle, crt : 0..MaxBundle] /\ fetched' \in 0..MaxBundle
    BY <1>9, InstallAssumption DEF Restart, TypeOK
  <2> QED
    BY <1>9, <2>1, <2>2, OthersTyped DEF Restart, Writes, TypeOK
<1> QED
  BY <1>0, <1>3, <1>4, <1>5, <1>6, <1>7, <1>8, <1>9 DEF StartStep

LEMMA WorkerTyped ==
  ASSUME TypeOK, WorkerStep
  PROVE  TypeOK'
<1>1. /\ api["service"].data \in Service \cup {Absent}
      /\ cache["service"].data \in Service \cup {Absent}
      /\ cache["ca"].data \in 0..MaxBundle \cup {Absent}
      /\ work.pc # "idle" => work.key \in PresetUIDs
      /\ work.pc # "idle" => work.ns.data \in SUBSET (UserLabels \cup {"managed", "name"})
  BY ObjectFacts, DataFacts DEF TypeOK, IsObject, IsWork
<1>2. ASSUME NEW k \in Objects, NEW data \in Data(k), api' = Put(k, data)
      PROVE  Writes
  BY <1>2 DEF Writes
<1>3. api' = api => Writes
  BY DEF Writes
<1>4. ASSUME NEW p \in PresetUIDs, StartReconcile(p)
      PROVE  TypeOK'
  <2>1. IsObject("ns", cache["ns"])
    BY ObjectFacts DEF TypeOK
  <2>2. DOMAIN work' = DOMAIN Idle /\ IsWork(work')
    BY <1>4, <2>1 DEF StartReconcile, IsWork, Idle
  <2> QED
    BY <1>4, <2>2 DEF StartReconcile, UnchangedByWork, TypeOK
<1>5. CASE LabelPublic
  <2>1. work.pc # "idle" /\ UNCHANGED faults
    BY <1>5 DEF LabelPublic, At
  <2>2. CASE EnableOpreqWebhook /\ "name" \notin cache["public"].data
    <3>1. Try(Current("public", cache["public"].rv), Put("public", {"name"}), "label")
      BY <1>5, <2>2 DEF LabelPublic
    <3>2. api' = Put("public", {"name"}) => Writes
      BY <1>2, <2>2, ObjectFacts, DataFacts
    <3> HIDE DEF Put
    <3> QED
      BY <2>1, <3>1, <3>2, TryTyped
  <2>3. CASE ~ (EnableOpreqWebhook /\ "name" \notin cache["public"].data)
    BY <1>3, <1>5, <2>1, <2>3, TryTyped DEF LabelPublic
  <2> QED
    BY <2>2, <2>3
<1>6. CASE LabelNamespace
  <2>1. work.pc # "idle" /\ UNCHANGED faults
    BY <1>6 DEF LabelNamespace, At
  <2>2. work.ns.data \cup {"managed"} \in Data("ns")
    BY <1>1, <2>1, DataFacts
  <2>3. api' = Put("ns", work.ns.data \cup {"managed"}) => Writes
    BY <1>2, <2>2, ObjectFacts
  <2> QED
    BY <1>6, <2>1, <2>3, TryTyped DEF LabelNamespace
<1>7. CASE InstanceGone
  BY <1>7, IdleTyped DEF InstanceGone, UnchangedByWork, TypeOK
<1>8. CASE DeleteService
  <2>1. work.pc # "idle" /\ UNCHANGED faults
    BY <1>8 DEF DeleteService, At
  <2>2. api' = Put("service", Absent) => Writes
    BY <1>2, ObjectFacts, DataFacts
  <2> QED
    BY <1>8, <2>1, <2>2, TryTyped DEF DeleteService
<1>9. CASE CreateService
  <2> DEFINE data == Headless({work.key} \cup Owners(cache["service"].data))
  <2>1. work.pc # "idle" /\ UNCHANGED faults
    BY <1>9 DEF CreateService, ReadyToCreate, At
  <2>2. data \in Data("service")
    BY <1>1, <2>1, DataFacts DEF Headless, Owners, Service
  <2>3. Try(Accepted("service", data), Upserted("service", data), "ca")
    BY <1>9 DEF CreateService
  <2> HIDE DEF data
  <2>4. api' = Upserted("service", data) => Writes
    BY <1>2, <1>3, <2>2, ObjectFacts DEF Upserted
  <2> QED
    BY <2>1, <2>3, <2>4, TryTyped
<1>10. CASE CreateCA
  <2>1. work.pc # "idle" /\ UNCHANGED faults
    BY <1>10 DEF CreateCA, At
  <2>2. api' = Put("ca", 0) => Writes
    BY <1>2, ObjectFacts, DataFacts, InstallAssumption
  <2>3. api' = (IF api["ca"].data = Absent THEN Put("ca", 0) ELSE api) => Writes
    BY <1>3, <2>2
  <2> QED
    BY <1>10, <2>1, <2>3, TryTyped DEF CreateCA
<1>11. CASE FoundCA
  <2>1. cache["ca"].data \in 1..MaxBundle
    BY <1>1, <1>11, InstallAssumption DEF FoundCA
  <2>2. DOMAIN work' = DOMAIN Idle /\ IsWork(work')
    BY <1>11, <2>1, WebhookFacts DEF FoundCA, At, TypeOK, IsWork, Idle
  <2> QED
    BY <1>11, <2>2 DEF FoundCA, UnchangedByWork, TypeOK
<1>12. CASE CATimesOut
  <2>1. work.pc # "idle" /\ Fail /\ faults' \in 0..MaxFaults
    BY <1>12 DEF CATimesOut, At, TypeOK
  <2> QED
    BY <2>1, FailTyped
<1>13. CASE ReconcileWebhook
  <2>1. PICK k \in Configs : k = Webhooks[work.next]
    BY <1>13, WebhookFacts DEF ReconcileWebhook, TryConfigure, At, TypeOK, IsWork
  <2>2. TryConfigure(Accepted(k, work.bundle), Upserted(k, work.bundle))
    BY <1>13, <2>1 DEF ReconcileWebhook
  <2>3. /\ work.pc = "configs" /\ UNCHANGED faults
        /\ work.bundle \in 1..MaxBundle /\ work.next \in DOMAIN Webhooks
    BY <2>2 DEF TryConfigure, At, TypeOK, IsWork
  <2>4. CASE Accepted(k, work.bundle)
    <3>1. k \in Objects /\ work.bundle \in Data(k)
      BY <2>3, ObjectFacts, DataFacts
    <3>2. Writes
      BY <1>2, <1>3, <2>2, <2>4, <3>1 DEF TryConfigure, Upserted
    <3>3. DOMAIN api' = Objects /\ \A j \in Objects : IsObject(j, api'[j])
      BY <3>2, WritesTyped
    <3>4. DOMAIN work' = DOMAIN Idle /\ IsWork(work') /\ reconciled' \subseteq PresetUIDs
      <4>1. CASE work.next = Len(Webhooks)
        BY <1>1, <2>2, <2>3, <2>4, <4>1, IdleTyped DEF TryConfigure, TypeOK
      <4>2. CASE work.next # Len(Webhooks)
        <5>1. work' = [work EXCEPT !.next = @ + 1] /\ UNCHANGED reconciled
          BY <2>2, <2>4, <4>2 DEF TryConfigure
        <5>2. work.next + 1 \in DOMAIN Webhooks
          BY <2>3, <4>2, WebhookFacts
        <5> QED
          BY <2>3, <5>1, <5>2 DEF TypeOK, IsWork, Idle
      <4> QED
        BY <4>1, <4>2
    <3> QED
      BY <2>2, <2>3, <2>4, <3>3, <3>4 DEF TryConfigure, UnchangedByWork, TypeOK
  <2>5. CASE ~ Accepted(k, work.bundle)
    <3>1. Fail /\ faults' \in 0..MaxFaults
      BY <2>2, <2>3, <2>5 DEF TryConfigure, TypeOK
    <3> QED
      BY <2>3, <3>1, FailTyped
  <2> QED
    BY <2>4, <2>5
<1>14. CASE CallFails
  <2>1. work.pc # "idle" /\ Fail /\ faults' \in 0..MaxFaults
    BY <1>14, InstallAssumption DEF CallFails, TypeOK
  <2> QED
    BY <2>1, FailTyped
<1> QED
  BY <1>4, <1>5, <1>6, <1>7, <1>8, <1>9, <1>10, <1>11, <1>12, <1>13, <1>14
  DEF WorkerStep

LEMMA OutsideTyped ==
  ASSUME TypeOK, OutsideStep
  PROVE  TypeOK'
<1>1. ASSUME NEW k \in Objects, NEW data \in Data(k), api' = Put(k, data)
      PROVE  Writes
  BY <1>1 DEF Writes
<1>2. UNCHANGED api => Writes
  BY DEF Writes
<1>3. Outside => /\ UNCHANGED <<work, server, fetched, files, reconciled, restarts,
                                 faults>>
                 /\ server' \in {"service", "create", "certs", "saveKey", "saveCert",
                                  "serving", "never"}
                 /\ fetched' \in 0..MaxBundle
                 /\ files' \in [key : 0..MaxBundle, crt : 0..MaxBundle]
                 /\ restarts' \in 0..MaxRestarts /\ faults' \in 0..MaxFaults
  BY DEF Outside, TypeOK
<1>4. /\ presets \in [PresetUIDs -> {"new", "there", "gone"}]
      /\ known \in [PresetUIDs -> {"new", "there", "gone"}]
      /\ queue \subseteq PresetUIDs /\ secret \in 0..MaxBundle
      /\ api["ca"].data \in 0..MaxBundle \cup {Absent}
  BY ObjectFacts, DataFacts DEF TypeOK, IsObject
<1>5. ASSUME NEW k \in Objects, SyncObject(k)
      PROVE  TypeOK'
  BY <1>2, <1>3, <1>4, <1>5, OthersTyped DEF SyncObject
<1>6. CASE SyncPresets
  BY <1>2, <1>3, <1>4, <1>6, OthersTyped DEF SyncPresets
<1>7. ASSUME NEW p \in PresetUIDs, TouchPreset(p) \/ CreatePreset(p) \/ DeletePreset(p)
      PROVE  TypeOK'
  BY <1>2, <1>3, <1>4, <1>7, OthersTyped DEF TouchPreset, CreatePreset, DeletePreset
<1>8. ASSUME NEW k \in NamespaceObjects, NEW label \in UserLabels, EditLabel(k, label)
      PROVE  TypeOK'
  <2>1. k \in Objects /\ Data(k) = SUBSET (UserLabels \cup {"managed", "name"})
    BY ObjectFacts, DataFacts
  <2>2. api[k].data \in Data(k)
    BY <2>1 DEF TypeOK, IsObject
  <2>3. Writes
    BY <1>1, <1>8, <2>1, <2>2 DEF EditLabel
  <2> QED
    BY <1>3, <1>4, <1>8, <2>3, OthersTyped DEF EditLabel
<1>9. CASE CollectGarbage
  <2> DEFINE service == api["service"].data
             rest == IF service.owners \cap There = {} THEN Absent
                     ELSE [service EXCEPT !.owners = @ \cap There]
  <2>1. service \in Service
    BY <1>9, ObjectFacts, DataFacts DEF CollectGarbage, TypeOK, IsObject
  <2>2. rest \in Data("service")
    BY <2>1, DataFacts DEF Service
  <2>3. Writes
    BY <1>1, <1>9, <2>2, ObjectFacts DEF CollectGarbage
  <2> QED
    BY <1>3, <1>4, <1>9, <2>3, OthersTyped DEF CollectGarbage
<1>10. CASE MakeSecret
  BY <1>2, <1>3, <1>4, <1>10, OthersTyped, InstallAssumption DEF MakeSecret
<1>11. CASE InjectCA
  <2>1. Writes
    BY <1>1, <1>11, ObjectFacts, DataFacts, InstallAssumption DEF InjectCA
  <2> QED
    BY <1>3, <1>4, <1>11, <2>1, OthersTyped DEF InjectCA
<1>12. CASE RotateCA
  <2>1. api["ca"].data + 1 \in Data("ca")
    BY <1>12, DataFacts, InstallAssumption DEF RotateCA
  <2>2. Writes
    BY <1>1, <1>12, <2>1, ObjectFacts DEF RotateCA
  <2> QED
    BY <1>3, <1>4, <1>12, <2>2, OthersTyped DEF RotateCA
<1>13. CASE RotateSecret
  <2>1. secret + 1 \in 0..MaxBundle
    BY <1>4, <1>13, InstallAssumption DEF RotateSecret
  <2> QED
    BY <1>2, <1>3, <1>4, <1>13, <2>1, OthersTyped DEF RotateSecret
<1> QED
  BY <1>5, <1>6, <1>7, <1>8, <1>9, <1>10, <1>11, <1>12, <1>13 DEF OutsideStep

LEMMA InitTyped == Init => TypeOK
<1> SUFFICES ASSUME Init PROVE TypeOK
  OBVIOUS
<1>1. PICK labels \in SUBSET UserLabels, named \in SUBSET {"name"},
           old \in { Absent, [headless |-> FALSE, owners |-> {}] } :
        api = [k \in Objects |->
                 Object(CASE k = "ns"      -> labels
                          [] k = "public"  -> labels \cup named
                          [] k = "service" -> old
                          [] OTHER         -> Absent)]
  BY DEF Init
<1>2. DOMAIN api = Objects
  BY <1>1
<1>3. ASSUME NEW k \in Objects
      PROVE  IsObject(k, api[k])
  <2>1. CASE k \in {"ns", "public"}
    BY <1>1, <2>1, DataFacts DEF Object, IsObject
  <2>2. CASE k = "service"
    <3>1. old \in Data("service")
      BY DataFacts DEF Service
    <3> QED
      BY <1>1, <2>2, <3>1 DEF Object, IsObject
  <2>3. CASE k \in Configs \cup {"ca"}
    <3>1. api[k] = Object(Absent)
      BY <1>1, <2>3, ObjectFacts
    <3> QED
      BY <2>3, <3>1, DataFacts DEF Object, IsObject
  <2> QED
    BY <2>1, <2>2, <2>3, ObjectFacts
<1> QED
  BY <1>2, <1>3, IdleTyped, InstallAssumption DEF Init, TypeOK

LEMMA NextTyped == TypeOK /\ [Next]_vars => TypeOK'
<1> SUFFICES ASSUME TypeOK, [Next]_vars PROVE TypeOK'
  OBVIOUS
<1>1. CASE Next
  BY <1>1, StartTyped, WorkerTyped, OutsideTyped, NextSteps
<1>2. CASE UNCHANGED vars
  BY <1>2 DEF vars, TypeOK
<1> QED
  BY <1>1, <1>2

\* The state of the start, the controller and the cluster keeps its type.
THEOREM InstallTypeCorrect == Spec => []TypeOK
BY InitTyped, NextTyped, PTL DEF Spec

-----------------------------------------------------------------------------
(***************************************************************************)
(* What the steps of the worker do when they succeed, one form for each    *)
(* place in Reconcile.                                                     *)
(***************************************************************************)
GiveUp ==
  /\ work' = Idle
  /\ UNCHANGED <<api, reconciled>>
  /\ UnchangedByWork

Advance(written, pc) ==
  /\ api' = written
  /\ work' = [work EXCEPT !.pc = pc]
  /\ UNCHANGED reconciled
  /\ UnchangedByWork

PublicIsLabelled ==
  /\ work.pc = "public"
  /\ \/ Advance(api, "label") /\ (EnableOpreqWebhook => "name" \in cache["public"].data)
     \/ Advance(Put("public", {"name"}), "label") /\ EnableOpreqWebhook

NamespaceIsLabelled ==
  /\ work.pc = "label"
  /\ Current("ns", work.ns.rv)
  /\ Advance(Put("ns", work.ns.data \cup {"managed"}), "service")

ServiceIsDeleted ==
  /\ work.pc = "service"
  /\ known[work.key] = "there"
  /\ HasClusterIP(cache["service"].data)
  /\ Advance(Put("service", Absent), "create")

ServiceIsCreated ==
  LET data == Headless({work.key} \cup Owners(cache["service"].data))
  IN  /\ \/ work.pc = "service" /\ known[work.key] = "there"
                                /\ ~ HasClusterIP(cache["service"].data)
         \/ work.pc = "create"
      /\ Accepted("service", data)
      /\ Advance(Upserted("service", data), "ca")

CAIsThere ==
  /\ work.pc = "ca"
  /\ \/ Advance(api, "wait") /\ api["ca"].data # Absent
     \/ Advance(Put("ca", 0), "wait") /\ api["ca"].data = Absent

ConfigIsThere ==
  LET k == Webhooks[work.next]
  IN  /\ work.pc = "configs"
      /\ Accepted(k, work.bundle)
      /\ api' = Upserted(k, work.bundle)
      /\ UnchangedByWork
      /\ \/ /\ work.next = Len(Webhooks)
            /\ work' = Idle
            /\ reconciled' = reconciled \cup {work.key}
         \/ /\ work.next # Len(Webhooks)
            /\ work' = [work EXCEPT !.next = @ + 1]
            /\ UNCHANGED reconciled

LEMMA WorkerSteps ==
  ASSUME WorkerStep
  PROVE  /\ Running /\ Running'
         /\ \/ GiveUp
            \/ \E p \in PresetUIDs : StartReconcile(p)
            \/ PublicIsLabelled \/ NamespaceIsLabelled \/ ServiceIsDeleted
            \/ ServiceIsCreated \/ CAIsThere \/ FoundCA \/ ConfigIsThere
<1>1. Fail => GiveUp
  BY DEF Fail, GiveUp
<1>2. ASSUME NEW accepted, NEW written, NEW pc, Try(accepted, written, pc)
      PROVE  GiveUp \/ (accepted /\ Advance(written, pc))
  BY <1>1, <1>2 DEF Try, Advance
<1>3. CASE LabelPublic
  <2>1. /\ At("public")
        /\ \/ /\ EnableOpreqWebhook
              /\ Try(Current("public", cache["public"].rv), Put("public", {"name"}), "label")
           \/ /\ EnableOpreqWebhook => "name" \in cache["public"].data
              /\ Try(TRUE, api, "label")
    BY <1>3 DEF LabelPublic
  <2>2. \/ GiveUp
        \/ EnableOpreqWebhook /\ Advance(Put("public", {"name"}), "label")
        \/ /\ EnableOpreqWebhook => "name" \in cache["public"].data
           /\ Advance(api, "label")
    BY <1>2, <2>1
  <2> QED
    BY <2>1, <2>2 DEF PublicIsLabelled, At, GiveUp, Advance, UnchangedByWork, Running
<1>4. CASE LabelNamespace
  BY <1>2, <1>4 DEF LabelNamespace, NamespaceIsLabelled, At, GiveUp, Advance,
     UnchangedByWork, Running
<1>5. CASE InstanceGone
  BY <1>5 DEF InstanceGone, GiveUp, At, UnchangedByWork, Running
<1>6. CASE DeleteService
  BY <1>2, <1>6 DEF DeleteService, ServiceIsDeleted, At, GiveUp, Advance,
     UnchangedByWork, Running
<1>7. CASE CreateService
  BY <1>2, <1>7 DEF CreateService, ReadyToCreate, ServiceIsCreated, At, GiveUp,
     Advance, UnchangedByWork, Running
<1>8. CASE CreateCA
  BY <1>2, <1>8 DEF CreateCA, CAIsThere, At, GiveUp, Advance, UnchangedByWork, Running
<1>9. CASE ReconcileWebhook
  BY <1>1, <1>9 DEF ReconcileWebhook, TryConfigure, ConfigIsThere, At, GiveUp,
     UnchangedByWork, Running
<1>10. CASE CATimesOut \/ CallFails
  BY <1>1, <1>10 DEF CATimesOut, CallFails, At, GiveUp, UnchangedByWork, Running
<1>11. CASE FoundCA \/ \E p \in PresetUIDs : StartReconcile(p)
  BY <1>11 DEF FoundCA, StartReconcile, At, UnchangedByWork, Running
<1> QED
  BY <1>3, <1>4, <1>5, <1>6, <1>7, <1>8, <1>9, <1>10, <1>11 DEF WorkerStep

\* Who writes to an object.
LEMMA WhoWrites ==
  ASSUME TypeOK, Next, NEW k \in Objects, api'[k] # api[k]
  PROVE  \/ k \in NamespaceObjects /\ \E label \in UserLabels : EditLabel(k, label)
         \/ k = "ns" /\ NamespaceIsLabelled
         \/ k = "public" /\ PublicIsLabelled /\ api' = Put("public", {"name"})
         \/ k = "service" /\ \/ StartDeletesService \/ StartCreatesService
                             \/ ServiceIsDeleted \/ ServiceIsCreated \/ CollectGarbage
         \/ k = "ca" /\ (CAIsThere \/ InjectCA \/ RotateCA)
         \/ k \in Configs /\ k = Webhooks[work.next] /\ ConfigIsThere
<1>1. ASSUME NEW j \in Objects, NEW data, api' = Put(j, data)
      PROVE  j = k
  BY <1>1, PutFacts
<1>2. CASE StartStep
  BY <1>1, <1>2, ObjectFacts DEF StartStep, StartDeletesService, StartCreatesService,
     StartReadsSecret, StartSavesKey, StartServing, CertsTimeOut, StartFails,
     Restart, StartManager
<1>3. CASE WorkerStep
  <2>1. CASE ConfigIsThere
    <3>1. Webhooks[work.next] \in Configs
      BY <2>1, WebhookFacts DEF ConfigIsThere, TypeOK, IsWork
    <3> QED
      BY <1>1, <2>1, <3>1, ObjectFacts DEF ConfigIsThere, Upserted
  <2> QED
    BY <1>1, <1>3, <2>1, WorkerSteps, ObjectFacts
    DEF GiveUp, StartReconcile, PublicIsLabelled, NamespaceIsLabelled,
        ServiceIsDeleted, ServiceIsCreated, CAIsThere, FoundCA, Advance, Upserted
<1>4. CASE OutsideStep
  <2>1. ASSUME NEW j \in NamespaceObjects, NEW label \in UserLabels, EditLabel(j, label)
        PROVE  j = k
    BY <1>1, <2>1, ObjectFacts DEF EditLabel
  <2> QED
    BY <1>1, <1>4, <2>1, ObjectFacts DEF OutsideStep, SyncObject, SyncPresets,
       TouchPreset, CreatePreset, DeletePreset, CollectGarbage, MakeSecret, InjectCA,
       RotateCA, RotateSecret
<1> QED
  BY <1>2, <1>3, <1>4, NextSteps

-----------------------------------------------------------------------------
(***************************************************************************)
(* The cache: it is behind the API server, and an object of which it has   *)
(* the version is what the API server has.  So is the copy of the watch    *)
(* namespace that Reconcile keeps.  This is what a write that is accepted  *)
(* for its version rests on.                                               *)
(***************************************************************************)
SeenBefore(k, x) == x.rv <= api[k].rv /\ (x.rv = api[k].rv => x = api[k])

CacheIsBehind ==
  /\ \A k \in Objects : SeenBefore(k, cache[k])
  /\ work.pc # "idle" => SeenBefore("ns", work.ns)

\* What a step does to versions.
Newer ==
  \A k \in Objects :
    api[k].rv <= api'[k].rv /\ (api[k].rv = api'[k].rv => api'[k] = api[k])

CacheFollows ==
  \/ UNCHANGED cache
  \/ UNCHANGED api /\ \A k \in Objects : cache'[k] \in {cache[k], api[k]}

CopyIsKept ==
  \/ work'.pc = "idle"
  \/ work.pc # "idle" /\ work'.ns = work.ns
  \/ UNCHANGED <<api, cache>> /\ work'.ns = cache["ns"]

LEMMA StepIsNewer ==
  ASSUME TypeOK, Next
  PROVE  Newer
<1>1. ASSUME NEW k \in Objects, NEW data, api' = Put(k, data)
      PROVE  Newer
  <2>1. \A j \in Objects : api[j].rv \in Nat
    BY DEF TypeOK, IsObject
  <2> QED
    BY <1>1, <2>1, PutFacts DEF Newer
<1>2. CASE UNCHANGED api
  <2>1. \A j \in Objects : api[j].rv \in Nat
    BY DEF TypeOK, IsObject
  <2> QED
    BY <1>2, <2>1 DEF Newer
<1>3. CASE StartStep
  BY <1>1, <1>2, <1>3, ObjectFacts DEF StartStep, StartDeletesService,
     StartCreatesService, StartReadsSecret, StartSavesKey, StartServing,
     CertsTimeOut, StartFails, Restart, StartManager
<1>4. CASE OutsideStep
  BY <1>1, <1>2, <1>4, ObjectFacts DEF OutsideStep, SyncObject, SyncPresets,
     TouchPreset, CreatePreset, DeletePreset, EditLabel, CollectGarbage,
     MakeSecret, InjectCA, RotateCA, RotateSecret
<1>5. CASE WorkerStep
  <2>1. CASE ConfigIsThere
    <3>1. Webhooks[work.next] \in Objects
      BY <2>1, WebhookFacts, ObjectFacts DEF ConfigIsThere, TypeOK, IsWork
    <3> QED
      BY <1>1, <1>2, <2>1, <3>1 DEF ConfigIsThere, Upserted
  <2> QED
    BY <1>1, <1>2, <1>5, <2>1, WorkerSteps, ObjectFacts
    DEF GiveUp, StartReconcile, PublicIsLabelled, NamespaceIsLabelled,
        ServiceIsDeleted, ServiceIsCreated, CAIsThere, FoundCA, Advance, Upserted
<1> QED
  BY <1>3, <1>4, <1>5, NextSteps

LEMMA StepFollows ==
  ASSUME TypeOK, Next
  PROVE  CacheFollows
<1>1. CASE StartStep
  BY <1>1 DEF StartStep, StartDeletesService, StartCreatesService,
     StartReadsSecret, StartSavesKey, StartServing, CertsTimeOut, StartFails,
     Restart, StartManager, CacheFollows
<1>2. CASE WorkerStep
  BY <1>2, WorkerSteps DEF GiveUp, StartReconcile, PublicIsLabelled,
     NamespaceIsLabelled, ServiceIsDeleted, ServiceIsCreated, CAIsThere, FoundCA,
     ConfigIsThere, Advance, UnchangedByWork, CacheFollows
<1>3. CASE OutsideStep
  BY <1>3 DEF OutsideStep, SyncObject, SyncPresets, TouchPreset, CreatePreset,
     DeletePreset, EditLabel, CollectGarbage, MakeSecret, InjectCA, RotateCA,
     RotateSecret, CacheFollows, TypeOK
<1> QED
  BY <1>1, <1>2, <1>3, NextSteps

LEMMA StepKeepsCopy ==
  ASSUME TypeOK, Next
  PROVE  CopyIsKept
<1>1. DOMAIN work = {"pc", "key", "ns", "bundle", "next"}
  BY DEF TypeOK, Idle
<1>2. work.pc # "idle" \/ work'.pc = "idle" \/ ~ UNCHANGED work
  OBVIOUS
<1>3. CASE StartStep
  BY <1>2, <1>3, IdleTyped DEF StartStep, StartDeletesService, StartCreatesService,
     StartReadsSecret, StartSavesKey, StartServing, CertsTimeOut, StartFails,
     Restart, StartManager, CopyIsKept
<1>4. CASE WorkerStep
  BY <1>1, <1>4, WorkerSteps, IdleTyped DEF GiveUp, StartReconcile, PublicIsLabelled,
     NamespaceIsLabelled, ServiceIsDeleted, ServiceIsCreated, CAIsThere, FoundCA, At,
     ConfigIsThere, Advance, UnchangedByWork, CopyIsKept, Idle
<1>5. CASE OutsideStep
  BY <1>2, <1>5 DEF OutsideStep, SyncObject, SyncPresets, TouchPreset, CreatePreset,
     DeletePreset, EditLabel, CollectGarbage, MakeSecret, InjectCA, RotateCA,
     RotateSecret, Outside, CopyIsKept
<1> QED
  BY <1>3, <1>4, <1>5, NextSteps

LEMMA CacheStaysBehind ==
  ASSUME TypeOK, CacheIsBehind, Next
  PROVE  CacheIsBehind'
<1>1. Newer /\ CacheFollows /\ CopyIsKept
  BY StepIsNewer, StepFollows, StepKeepsCopy
<1>2. /\ \A k \in Objects : api[k].rv \in Nat /\ cache[k].rv \in Nat /\ api'[k].rv \in Nat
      /\ work.pc # "idle" => work.ns.rv \in Nat
  BY NextTyped DEF TypeOK, IsObject, IsWork
<1>3. ASSUME NEW k \in Objects, NEW x, x.rv \in Nat, SeenBefore(k, x)
      PROVE  SeenBefore(k, x)'
  BY <1>1, <1>2, <1>3 DEF Newer, SeenBefore
<1>4. ASSUME NEW k \in Objects
      PROVE  SeenBefore(k, cache[k])'
  <2>1. CASE cache'[k] = cache[k]
    BY <1>2, <1>3, <2>1 DEF CacheIsBehind, SeenBefore
  <2>2. CASE UNCHANGED api /\ cache'[k] = api[k]
    BY <1>2, <2>2 DEF SeenBefore
  <2> QED
    BY <1>1, <2>1, <2>2 DEF CacheFollows
<1>5. work'.pc # "idle" => SeenBefore("ns", work.ns)'
  BY <1>1, <1>2, <1>3, ObjectFacts DEF CopyIsKept, CacheIsBehind, SeenBefore
<1> QED
  BY <1>4, <1>5 DEF CacheIsBehind

-----------------------------------------------------------------------------
(***************************************************************************)
(* The start: while it is under way the worker is idle, and when the       *)
(* certificate is saved, the key is the one of the secret that was read,   *)
(* whatever became of the secret and of the files of earlier runs.         *)
(***************************************************************************)
StartIsAlone ==
  /\ ~ Running => work.pc = "idle"
  /\ server \in {"saveKey", "saveCert"} => fetched # 0
  /\ server = "saveCert" => files.key = fetched
  /\ ServedPairFits

LEMMA StartStaysAlone ==
  ASSUME TypeOK, StartIsAlone, Next
  PROVE  StartIsAlone'
<1>1. CASE StartStep
  <2>1. files \in [key : 0..MaxBundle, crt : 0..MaxBundle]
    BY DEF TypeOK
  <2> QED
    BY <1>1, <2>1, IdleTyped DEF StartStep, StartDeletesService, StartCreatesService,
       StartReadsSecret, StartSavesKey, StartServing, CertsTimeOut, StartFails,
       Restart, StartManager, StartIsAlone, ServedPairFits, Running
<1>2. CASE WorkerStep
  <2>1. UNCHANGED <<server, fetched, files>>
    BY <1>2, WorkerSteps DEF GiveUp, StartReconcile, PublicIsLabelled,
       NamespaceIsLabelled, ServiceIsDeleted, ServiceIsCreated, CAIsThere, FoundCA,
       ConfigIsThere, Advance, UnchangedByWork
  <2> QED
    BY <1>2, <2>1, WorkerSteps DEF StartIsAlone, ServedPairFits, Running
<1>3. CASE OutsideStep
  BY <1>3 DEF OutsideStep, SyncObject, SyncPresets, TouchPreset, CreatePreset,
     DeletePreset, EditLabel, CollectGarbage, MakeSecret, InjectCA, RotateCA,
     RotateSecret, Outside, StartIsAlone, ServedPairFits, Running
<1> QED
  BY <1>1, <1>2, <1>3, NextSteps

-----------------------------------------------------------------------------
(***************************************************************************)
(* The labels: nobody removes those of the operator, so that what          *)
(* Reconcile saw or did stays true while it goes on.                       *)
(***************************************************************************)
AfterPublic == {"label", "service", "create", "ca", "wait", "configs"}

AfterLabel == {"service", "create", "ca", "wait", "configs"}

PublicHasName == EnableOpreqWebhook => "name" \in api["public"].data

LabelsStay ==
  /\ EnableOpreqWebhook /\ "name" \in cache["public"].data => PublicHasName
  /\ work.pc \in AfterPublic => PublicHasName
  /\ work.pc \in AfterLabel => "managed" \in api["ns"].data
  /\ WebhooksSelectNamespaces

LEMMA EditFacts ==
  ASSUME TypeOK, NEW k \in NamespaceObjects, NEW label \in UserLabels, EditLabel(k, label)
  PROVE  /\ \A other \in {"managed", "name"} :
              other \in api[k].data <=> other \in api'[k].data
         /\ UNCHANGED <<cache, work, reconciled, presets>>
         /\ \A j \in Objects \ {k} : api'[j] = api[j]
<1>1. PICK data : data = IF label \in api[k].data THEN api[k].data \ {label}
                                                  ELSE api[k].data \cup {label}
  OBVIOUS
<1>2. api' = Put(k, data) /\ k \in Objects
  BY <1>1, ObjectFacts DEF EditLabel
<1>3. api'[k].data = data /\ \A j \in Objects \ {k} : api'[j] = api[j]
  BY <1>2, PutFacts
<1> QED
  BY <1>1, <1>3, InstallAssumption DEF EditLabel, Outside

LEMMA ManagedStays ==
  ASSUME TypeOK, Next
  PROVE  /\ "managed" \in api["ns"].data => "managed" \in api'["ns"].data
         /\ NamespaceIsLabelled => "managed" \in api'["ns"].data
<1>1. NamespaceIsLabelled => "managed" \in api'["ns"].data
  <2> SUFFICES ASSUME NamespaceIsLabelled
               PROVE  "managed" \in api'["ns"].data
    OBVIOUS
  <2>1. api' = Put("ns", work.ns.data \cup {"managed"})
    BY DEF NamespaceIsLabelled, Advance
  <2>2. api'["ns"].data = work.ns.data \cup {"managed"}
    BY <2>1, PutFacts, ObjectFacts
  <2> QED
    BY <2>2
<1>2. api'["ns"] = api["ns"] \/ NamespaceIsLabelled
        \/ \E label \in UserLabels : "ns" \in NamespaceObjects /\ EditLabel("ns", label)
  BY WhoWrites, ObjectFacts
<1> QED
  BY <1>1, <1>2, EditFacts

LEMMA NameStays ==
  ASSUME TypeOK, Next, EnableOpreqWebhook
  PROVE  /\ "name" \in api["public"].data => "name" \in api'["public"].data
         /\ api' = Put("public", {"name"}) => "name" \in api'["public"].data
<1>1. api' = Put("public", {"name"}) => "name" \in api'["public"].data
  BY PutFacts, ObjectFacts
<1>2. api'["public"] = api["public"] \/ api' = Put("public", {"name"})
        \/ \E label \in UserLabels : "public" \in NamespaceObjects /\ EditLabel("public", label)
  BY WhoWrites, ObjectFacts
<1> QED
  BY <1>1, <1>2, EditFacts

\* Where the worker is after a step, and where it was.
LEMMA WorkerMoves ==
  ASSUME TypeOK, Next
  PROVE  /\ work'.pc \in AfterPublic => work.pc \in AfterPublic \/ PublicIsLabelled
         /\ work'.pc \in AfterLabel => work.pc \in AfterLabel \/ NamespaceIsLabelled
<1>1. DOMAIN work = {"pc", "key", "ns", "bundle", "next"}
  BY DEF TypeOK, Idle
<1>2. CASE StartStep
  BY <1>2, IdleTyped DEF StartStep, StartDeletesService, StartCreatesService,
     StartReadsSecret, StartSavesKey, StartServing, CertsTimeOut, StartFails,
     Restart, StartManager, AfterPublic, AfterLabel
<1>3. CASE WorkerStep
  BY <1>1, <1>3, WorkerSteps, IdleTyped DEF GiveUp, StartReconcile, PublicIsLabelled,
     NamespaceIsLabelled, ServiceIsDeleted, ServiceIsCreated, CAIsThere, FoundCA, At,
     ConfigIsThere, Advance, AfterPublic, AfterLabel, Idle
<1>4. CASE OutsideStep
  BY <1>4 DEF OutsideStep, SyncObject, SyncPresets, TouchPreset, CreatePreset,
     DeletePreset, EditLabel, CollectGarbage, MakeSecret, InjectCA, RotateCA,
     RotateSecret, Outside
<1> QED
  BY <1>2, <1>3, <1>4, NextSteps

\* A configuration is new only after all that precedes it in Reconcile.
LEMMA ConfiguredAfterLabels ==
  ASSUME TypeOK, Next, Configured' # {}
  PROVE  Configured # {} \/ work.pc = "configs"
<1>1. PICK k \in Configs : api'[k].data # Absent
  BY DEF Configured
<1>2. api'[k] = api[k] \/ ConfigIsThere
  BY WhoWrites, ObjectFacts
<1> QED
  BY <1>1, <1>2 DEF Configured, ConfigIsThere

LEMMA LabelsKept ==
  ASSUME TypeOK, LabelsStay, Next
  PROVE  LabelsStay'
<1>1. "managed" \in api["ns"].data => "managed" \in api'["ns"].data
  BY ManagedStays
<1>2. PublicHasName => PublicHasName'
  BY NameStays DEF PublicHasName
<1>3. EnableOpreqWebhook /\ "name" \in cache'["public"].data => PublicHasName'
  BY <1>2, StepFollows, ObjectFacts DEF CacheFollows, LabelsStay, PublicHasName
<1>4. work'.pc \in AfterPublic => PublicHasName'
  <2>1. PublicIsLabelled => PublicHasName'
    BY <1>2, NameStays DEF PublicIsLabelled, Advance, PublicHasName, LabelsStay
  <2> QED
    BY <1>2, <2>1, WorkerMoves DEF LabelsStay
<1>5. work'.pc \in AfterLabel => "managed" \in api'["ns"].data
  BY <1>1, ManagedStays, WorkerMoves DEF LabelsStay
<1>6. WebhooksSelectNamespaces'
  BY <1>1, <1>2, ConfiguredAfterLabels
  DEF LabelsStay, WebhooksSelectNamespaces, PublicHasName, AfterPublic, AfterLabel
<1> QED
  BY <1>3, <1>4, <1>5, <1>6 DEF LabelsStay

-----------------------------------------------------------------------------
(***************************************************************************)
(* The CA bundles: they grow in the configmap, hence in the cache, hence   *)
(* from one Reconcile to the next, and a Reconcile writes one of them to   *)
(* the configurations from the first to the last.                          *)
(***************************************************************************)
BundlesGrow ==
  /\ cache["ca"].data # Absent =>
       api["ca"].data # Absent /\ cache["ca"].data <= api["ca"].data
  /\ \A k \in Configured : cache["ca"].data # Absent /\ api[k].data <= cache["ca"].data
  /\ work.pc = "configs" =>
       /\ cache["ca"].data # Absent /\ work.bundle <= cache["ca"].data
       /\ \A k \in Configured : api[k].data <= work.bundle
       /\ \A i \in 1..(work.next - 1) : api[Webhooks[i]].data = work.bundle

LEMMA BundleTypes ==
  ASSUME TypeOK
  PROVE  /\ api["ca"].data \in 0..MaxBundle \cup {Absent}
         /\ cache["ca"].data \in 0..MaxBundle \cup {Absent}
         /\ \A k \in Configs : api[k].data \in 1..MaxBundle \cup {Absent}
         /\ work.pc = "configs" => work.bundle \in 1..MaxBundle /\ work.next \in DOMAIN Webhooks
         /\ MaxBundle \in Nat
         /\ \A b \in 0..MaxBundle : b # Absent
<1>1. MaxBundle \in Nat /\ \A b \in 0..MaxBundle : b # Absent
  BY InstallAssumption
<1>2. work.pc = "configs" => work.bundle \in 1..MaxBundle /\ work.next \in DOMAIN Webhooks
  BY DEF TypeOK, IsWork
<1>3. /\ api["ca"].data \in 0..MaxBundle \cup {Absent}
      /\ cache["ca"].data \in 0..MaxBundle \cup {Absent}
  BY ObjectFacts, DataFacts DEF TypeOK, IsObject
<1>4. \A k \in Configs : api[k].data \in 1..MaxBundle \cup {Absent}
  BY ObjectFacts, DataFacts DEF TypeOK, IsObject
<1> QED
  BY <1>1, <1>2, <1>3, <1>4

LEMMA CAGrows ==
  ASSUME TypeOK, Next, api["ca"].data # Absent
  PROVE  api'["ca"].data # Absent /\ api["ca"].data <= api'["ca"].data
<1>1. api["ca"].data \in 0..MaxBundle /\ MaxBundle \in Nat
  BY BundleTypes
<1>2. CASE api'["ca"] = api["ca"]
  BY <1>1, <1>2
<1>3. CASE CAIsThere
  BY <1>1, <1>3 DEF CAIsThere, Advance
<1>4. CASE InjectCA
  <2>1. api' = Put("ca", 1) /\ api["ca"].data = 0
    BY <1>4 DEF InjectCA
  <2> QED
    BY <1>1, <2>1, PutFacts, ObjectFacts, InstallAssumption
<1>5. CASE RotateCA
  <2>1. PICK next : next = api["ca"].data + 1
    OBVIOUS
  <2>2. api' = Put("ca", next) /\ next \in Nat
    BY <1>1, <1>5, <2>1 DEF RotateCA
  <2> QED
    BY <1>1, <2>1, <2>2, PutFacts, ObjectFacts, InstallAssumption
<1> QED
  BY <1>2, <1>3, <1>4, <1>5, WhoWrites, ObjectFacts

\* A configuration that Reconcile got accepted has its bundle.
LEMMA ConfigFacts ==
  ASSUME TypeOK, CacheIsBehind, ConfigIsThere
  PROVE  LET k == Webhooks[work.next]
         IN  /\ k \in Configs
             /\ api'[k].data = work.bundle
             /\ \A j \in Objects \ {k} : api'[j] = api[j]
             /\ UNCHANGED cache
<1>1. PICK k : k = Webhooks[work.next]
  OBVIOUS
<1>2. /\ k \in Configs /\ work.bundle \in 1..MaxBundle
      /\ Accepted(k, work.bundle) /\ api' = Upserted(k, work.bundle)
      /\ UNCHANGED cache
  BY <1>1, WebhookFacts DEF ConfigIsThere, TypeOK, IsWork, UnchangedByWork
<1>3. CASE cache[k].data = work.bundle
  <2>1. Current(k, cache[k].rv)
    BY <1>2, <1>3, BundleTypes, ObjectFacts DEF Accepted
  <2>2. api[k].data = work.bundle /\ UNCHANGED api
    BY <1>2, <1>3, <2>1, ObjectFacts DEF Current, CacheIsBehind, SeenBefore, Upserted
  <2> QED
    BY <1>1, <1>2, <2>2
<1>4. CASE cache[k].data # work.bundle
  <2>1. api' = Put(k, work.bundle)
    BY <1>2, <1>4 DEF Upserted
  <2>2. api'[k].data = work.bundle /\ \A j \in Objects \ {k} : api'[j] = api[j]
    BY <1>2, <2>1, PutFacts, ObjectFacts
  <2> QED
    BY <1>1, <1>2, <2>2
<1> QED
  BY <1>3, <1>4

LEMMA ConfiguringMoves ==
  ASSUME TypeOK, Next, work'.pc = "configs"
  PROVE  \/ UNCHANGED work
         \/ FoundCA
         \/ /\ ConfigIsThere
            /\ work.next # Len(Webhooks)
            /\ work' = [work EXCEPT !.next = @ + 1]
<1>1. DOMAIN work = {"pc", "key", "ns", "bundle", "next"}
  BY DEF TypeOK, Idle
<1>2. CASE StartStep
  BY <1>2, IdleTyped DEF StartStep, StartDeletesService, StartCreatesService,
     StartReadsSecret, StartSavesKey, StartServing, CertsTimeOut, StartFails,
     Restart, StartManager
<1>3. CASE WorkerStep
  BY <1>1, <1>3, WorkerSteps, IdleTyped DEF GiveUp, StartReconcile, PublicIsLabelled,
     NamespaceIsLabelled, ServiceIsDeleted, ServiceIsCreated, CAIsThere,
     ConfigIsThere, Advance, Idle
<1>4. CASE OutsideStep
  BY <1>4 DEF OutsideStep, SyncObject, SyncPresets, TouchPreset, CreatePreset,
     DeletePreset, EditLabel, CollectGarbage, MakeSecret, InjectCA, RotateCA,
     RotateSecret, Outside
<1> QED
  BY <1>2, <1>3, <1>4, NextSteps

LEMMA BundlesKept ==
  ASSUME TypeOK, CacheIsBehind, BundlesGrow, Next
  PROVE  BundlesGrow'
<1>1. cache["ca"].data # Absent =>
        cache'["ca"].data # Absent /\ cache["ca"].data <= cache'["ca"].data
  BY StepFollows, ObjectFacts, BundleTypes DEF CacheFollows, BundlesGrow
<1>2. cache'["ca"].data # Absent =>
        api'["ca"].data # Absent /\ cache'["ca"].data <= api'["ca"].data
  <2>1. CASE UNCHANGED cache
    <3>1. api'["ca"].data \in 0..MaxBundle \cup {Absent}
      BY NextTyped, ObjectFacts, DataFacts DEF TypeOK, IsObject
    <3> QED
      BY <2>1, <3>1, CAGrows, BundleTypes DEF BundlesGrow
  <2>2. CASE ~ UNCHANGED cache
    BY <2>2, StepFollows, ObjectFacts, BundleTypes DEF CacheFollows, BundlesGrow
  <2> QED
    BY <2>1, <2>2
<1>3. ASSUME ~ ConfigIsThere, NEW k \in Configs
      PROVE  api'[k] = api[k]
  BY <1>3, WhoWrites, ObjectFacts
<1>4. CASE ConfigIsThere
  <2>1. PICK k \in Configs :
          /\ k = Webhooks[work.next]
          /\ api'[k].data = work.bundle
          /\ \A j \in Objects \ {k} : api'[j] = api[j]
          /\ UNCHANGED cache
    BY <1>4, ConfigFacts
  <2>2. work.pc = "configs" /\ work.bundle \in 1..MaxBundle /\ work.next \in DOMAIN Webhooks
    BY <1>4, BundleTypes DEF ConfigIsThere
  <2>3. ASSUME NEW j \in Configured'
        PROVE  j = k \/ (j \in Configured /\ api'[j] = api[j])
    BY <2>1, <2>3, ObjectFacts DEF Configured
  <2>4. \A j \in Configured' : cache'["ca"].data # Absent /\ api'[j].data <= cache'["ca"].data
    BY <2>1, <2>2, <2>3 DEF BundlesGrow
  <2>5. ASSUME work'.pc = "configs"
        PROVE  /\ cache'["ca"].data # Absent /\ work'.bundle <= cache'["ca"].data
               /\ \A j \in Configured' : api'[j].data <= work'.bundle
               /\ \A i \in 1..(work'.next - 1) : api'[Webhooks[i]].data = work'.bundle
    <3>0. \A j \in Configured' : api'[j].data <= work.bundle
      BY <2>1, <2>2, <2>3, BundleTypes DEF BundlesGrow
    <3>1. work' = [work EXCEPT !.next = @ + 1]
      BY <1>4, <2>5, IdleTyped DEF ConfigIsThere
    <3>2. work'.next = work.next + 1 /\ work'.bundle = work.bundle
      BY <3>1 DEF TypeOK, Idle
    <3>3. ASSUME NEW i \in 1..work.next
          PROVE  api'[Webhooks[i]].data = work.bundle
      <4>1. CASE i = work.next
        BY <2>1, <4>1
      <4>2. CASE i # work.next
        <5>1. i \in 1..(work.next - 1) /\ i \in DOMAIN Webhooks /\ Webhooks[i] # k
          BY <2>1, <2>2, <4>2, WebhookFacts
        <5> QED
          BY <2>1, <2>2, <5>1, WebhookFacts, ObjectFacts DEF BundlesGrow
      <4> QED
        BY <4>1, <4>2
    <3>4. work'.next - 1 = work.next
      BY <2>2, <3>2, WebhookFacts
    <3>5. \A i \in 1..(work'.next - 1) : api'[Webhooks[i]].data = work'.bundle
      BY <3>2, <3>3, <3>4
    <3>6. cache'["ca"].data # Absent /\ work'.bundle <= cache'["ca"].data
      BY <2>1, <2>2, <3>2 DEF BundlesGrow
    <3> QED
      BY <3>0, <3>2, <3>5, <3>6
  <2> QED
    BY <1>2, <2>4, <2>5 DEF BundlesGrow
<1>5. CASE ~ ConfigIsThere
  <2>1. \A k \in Configs : api'[k] = api[k]
    BY <1>3, <1>5
  <2>2. Configured' = Configured
    BY <2>1 DEF Configured
  <2>3. cache'["ca"].data \in 0..MaxBundle \cup {Absent}
    BY NextTyped, ObjectFacts, DataFacts DEF TypeOK, IsObject
  <2>4. \A k \in Configured' : cache'["ca"].data # Absent /\ api'[k].data <= cache'["ca"].data
    BY <1>1, <2>1, <2>2, <2>3, BundleTypes DEF BundlesGrow, Configured
  <2>5. ASSUME work'.pc = "configs"
        PROVE  /\ cache'["ca"].data # Absent /\ work'.bundle <= cache'["ca"].data
               /\ \A j \in Configured' : api'[j].data <= work'.bundle
               /\ \A i \in 1..(work'.next - 1) : api'[Webhooks[i]].data = work'.bundle
    <3>1. CASE UNCHANGED work
      <4>1. cache'["ca"].data # Absent /\ work'.bundle <= cache'["ca"].data
        BY <1>1, <2>3, <2>5, <3>1, BundleTypes DEF BundlesGrow
      <4>2. \A i \in 1..(work.next - 1) : Webhooks[i] \in Configs
        BY <2>5, <3>1, BundleTypes, WebhookFacts
      <4> QED
        BY <2>1, <2>2, <2>5, <3>1, <4>1, <4>2 DEF BundlesGrow, Configured
    <3>2. CASE FoundCA
      <4>1. work' = [work EXCEPT !.pc = "configs", !.bundle = cache["ca"].data, !.next = 1]
        BY <3>2 DEF FoundCA
      <4>2. work'.bundle = cache["ca"].data /\ work'.next = 1
        BY <4>1 DEF TypeOK, Idle
      <4>3. UNCHANGED <<api, cache>> /\ cache["ca"].data # Absent
        BY <3>2 DEF FoundCA, UnchangedByWork
      <4> QED
        BY <2>2, <4>2, <4>3, BundleTypes DEF BundlesGrow
    <3> QED
      BY <1>5, <2>5, <3>1, <3>2, ConfiguringMoves
  <2> QED
    BY <1>2, <2>4, <2>5 DEF BundlesGrow
<1> QED
  BY <1>4, <1>5

LEMMA TrustFollows ==
  ASSUME TypeOK, BundlesGrow
  PROVE  ConfigsTrustTheService
BY BundleTypes DEF BundlesGrow, ConfigsTrustTheService, Configured

-----------------------------------------------------------------------------
(***************************************************************************)
(* The service: a headless one stays with the presets that own it.  An     *)
(* owner was there once, so that it is there now unless it is gone, and    *)
(* what the cache says of an owner who is there is still so.               *)
(***************************************************************************)
Born(p) == presets[p] # "new"

OwnersWereThere ==
  /\ \A p \in PresetUIDs : known[p] # "new" => Born(p)
  /\ \A p \in Owners(api["service"].data) : Born(p)
  /\ \A p \in Owners(cache["service"].data) : Born(p)
  /\ \A p \in reconciled : Born(p)
  /\ work.pc \in {"create", "ca", "wait", "configs"} => Born(work.key)

OwnedBy(service, p) == service # Absent /\ service.headless /\ p \in service.owners

ServiceStays ==
  /\ \A p \in There :
       OwnedBy(cache["service"].data, p) => OwnedBy(api["service"].data, p)
  /\ work.pc \in {"ca", "wait", "configs"} /\ work.key \in There
       => OwnedBy(api["service"].data, work.key)
  /\ work.pc = "create" => api["service"].data = Absent
  /\ Running /\ HasClusterIP(cache["service"].data)
       => api["service"].data = Absent \/ HasClusterIP(api["service"].data)
  /\ ServiceOutlivesPresets

LEMMA ServiceTypes ==
  ASSUME TypeOK
  PROVE  /\ api["service"].data \in Service \cup {Absent}
         /\ cache["service"].data \in Service \cup {Absent}
         /\ Absent \notin Service
         /\ work.pc # "idle" => work.key \in PresetUIDs
         /\ "service" \in Objects
BY ObjectFacts, DataFacts, InstallAssumption DEF TypeOK, IsObject, IsWork, Service

LEMMA PresetLife ==
  ASSUME TypeOK, Next
  PROVE  /\ \A p \in PresetUIDs : Born(p) => Born(p)' /\ (p \in There' => p \in There)
         /\ UNCHANGED known \/ (UNCHANGED presets /\ known' = presets)
<1>1. \/ UNCHANGED presets
      \/ \E p \in PresetUIDs : CreatePreset(p) \/ DeletePreset(p)
  <2>1. StartStep => UNCHANGED presets
    BY DEF StartStep, StartDeletesService, StartCreatesService, StartReadsSecret,
       StartSavesKey, StartServing, CertsTimeOut, StartFails, Restart,
       StartManager
  <2>2. WorkerStep => UNCHANGED presets
    BY WorkerSteps DEF GiveUp, StartReconcile, PublicIsLabelled, NamespaceIsLabelled,
       ServiceIsDeleted, ServiceIsCreated, CAIsThere, FoundCA, ConfigIsThere, Advance,
       UnchangedByWork
  <2>3. OutsideStep => \/ UNCHANGED presets
                       \/ \E p \in PresetUIDs : CreatePreset(p) \/ DeletePreset(p)
    BY DEF OutsideStep, SyncObject, SyncPresets, TouchPreset, EditLabel,
       CollectGarbage, MakeSecret, InjectCA, RotateCA, RotateSecret
  <2> QED
    BY <2>1, <2>2, <2>3, NextSteps
<1>2. \A p \in PresetUIDs : Born(p) => Born(p)' /\ (p \in There' => p \in There)
  BY <1>1 DEF Born, There, CreatePreset, DeletePreset, TypeOK
<1>3. UNCHANGED known \/ (UNCHANGED presets /\ known' = presets)
  <2>1. StartStep => UNCHANGED known \/ (UNCHANGED presets /\ known' = presets)
    BY DEF StartStep, StartDeletesService, StartCreatesService, StartReadsSecret,
       StartSavesKey, StartServing, CertsTimeOut, StartFails, Restart,
       StartManager
  <2>2. WorkerStep => UNCHANGED known
    BY WorkerSteps DEF GiveUp, StartReconcile, PublicIsLabelled, NamespaceIsLabelled,
       ServiceIsDeleted, ServiceIsCreated, CAIsThere, FoundCA, ConfigIsThere, Advance,
       UnchangedByWork
  <2>3. OutsideStep => UNCHANGED known \/ (UNCHANGED presets /\ known' = presets)
    BY DEF OutsideStep, SyncObject, SyncPresets, TouchPreset, CreatePreset,
       DeletePreset, EditLabel, CollectGarbage, MakeSecret, InjectCA, RotateCA,
       RotateSecret
  <2> QED
    BY <2>1, <2>2, <2>3, NextSteps
<1> QED
  BY <1>2, <1>3

LEMMA InstallingMoves ==
  ASSUME TypeOK, Next
  PROVE  /\ work'.pc = "create" =>
              /\ work'.key = work.key
              /\ work.pc = "create" \/ ServiceIsDeleted
         /\ work'.pc \in {"ca", "wait", "configs"} =>
              /\ work'.key = work.key
              /\ work.pc \in {"ca", "wait", "configs"} \/ ServiceIsCreated
         /\ \/ reconciled' = reconciled
            \/ work.pc = "configs" /\ reconciled' = reconciled \cup {work.key}
<1>1. DOMAIN work = {"pc", "key", "ns", "bundle", "next"}
  BY DEF TypeOK, Idle
<1>2. CASE StartStep
  BY <1>2, IdleTyped DEF StartStep, StartDeletesService, StartCreatesService,
     StartReadsSecret, StartSavesKey, StartServing, CertsTimeOut, StartFails,
     Restart, StartManager
<1>3. CASE WorkerStep
  BY <1>1, <1>3, WorkerSteps, IdleTyped DEF GiveUp, StartReconcile, PublicIsLabelled,
     NamespaceIsLabelled, ServiceIsDeleted, ServiceIsCreated, CAIsThere, FoundCA, At,
     ConfigIsThere, Advance, Idle
<1>4. CASE OutsideStep
  BY <1>4 DEF OutsideStep, SyncObject, SyncPresets, TouchPreset, CreatePreset,
     DeletePreset, EditLabel, CollectGarbage, MakeSecret, InjectCA, RotateCA,
     RotateSecret, Outside
<1> QED
  BY <1>2, <1>3, <1>4, NextSteps

\* Three ways in which CreateOrUpdate of the service is accepted.
LEMMA CreationFacts ==
  ASSUME TypeOK, CacheIsBehind, ServiceIsCreated
  PROVE  LET data == Headless({work.key} \cup Owners(cache["service"].data))
         IN  /\ UNCHANGED <<cache, presets, known>> /\ work.pc # "idle"
             /\ \/ cache["service"].data = data /\ UNCHANGED api
                \/ /\ api'["service"].data = data
                   /\ cache["service"].data = Absent
                   /\ api["service"].data = Absent
                \/ /\ api'["service"].data = data
                   /\ cache["service"] = api["service"]
                   /\ api["service"].data # Absent
<1> DEFINE data == Headless({work.key} \cup Owners(cache["service"].data))
<1>1. /\ Accepted("service", data) /\ api' = Upserted("service", data)
      /\ UNCHANGED <<cache, presets, known>> /\ work.pc # "idle"
  BY DEF ServiceIsCreated, Advance, UnchangedByWork
<1> HIDE DEF data
<1>2. CASE cache["service"].data = data
  BY <1>1, <1>2 DEF Upserted, data
<1>3. CASE cache["service"].data # data
  <2>1. api' = Put("service", data)
    BY <1>1, <1>3 DEF Upserted
  <2>2. api'["service"].data = data
    BY <2>1, PutFacts, ServiceTypes
  <2> QED
    BY <1>1, <1>3, <2>2, ServiceTypes DEF Accepted, Current, CacheIsBehind, SeenBefore, data
<1> QED
  BY <1>2, <1>3

\* What CollectGarbage leaves.
LEMMA CollectionFacts ==
  ASSUME TypeOK, CollectGarbage
  PROVE  LET service == api["service"].data
         IN  /\ UNCHANGED <<cache, presets, known, work, reconciled, server>>
             /\ service \in Service
             /\ ~ service.owners \subseteq There
             /\ \/ service.owners \cap There = {} /\ api'["service"].data = Absent
                \/ /\ api'["service"].data \in Service
                   /\ api'["service"].data.headless = service.headless
                   /\ api'["service"].data.owners = service.owners \cap There
<1> DEFINE service == api["service"].data
<1>1. PICK rest : rest = IF service.owners \cap There = {} THEN Absent
                         ELSE [service EXCEPT !.owners = @ \cap There]
  OBVIOUS
<1>2. api' = Put("service", rest)
  BY <1>1 DEF CollectGarbage
<1>3. api'["service"].data = rest
  BY <1>2, PutFacts, ServiceTypes
<1>4. service \in Service
  BY ServiceTypes DEF CollectGarbage
<1> QED
  BY <1>1, <1>3, <1>4 DEF CollectGarbage, Outside, Service

\* What the steps of the start do to the service, and what they leave alone.
LEMMA StartFacts ==
  ASSUME TypeOK, StartDeletesService \/ StartCreatesService
  PROVE  /\ UNCHANGED <<cache, presets, known, work, reconciled>>
         /\ ~ Running /\ ~ Running'
         /\ \/ HasClusterIP(api["service"].data) /\ api'["service"].data = Absent
            \/ api'["service"].data = Headless(Owners(api["service"].data))
<1>1. CASE StartDeletesService
  <2>1. api' = Put("service", Absent)
    BY <1>1 DEF StartDeletesService
  <2>2. api'["service"].data = Absent
    BY <2>1, PutFacts, ServiceTypes
  <2> QED
    BY <1>1, <2>2 DEF StartDeletesService, Running
<1>2. CASE StartCreatesService
  <2>1. PICK data : data = Headless(Owners(api["service"].data))
    OBVIOUS
  <2>2. api' = Put("service", data)
    BY <1>2, <2>1 DEF StartCreatesService
  <2>3. api'["service"].data = data
    BY <2>2, PutFacts, ServiceTypes
  <2> QED
    BY <1>2, <2>1, <2>3 DEF StartCreatesService, Running
<1> QED
  BY <1>1, <1>2

LEMMA DeletionFacts ==
  ASSUME TypeOK, ServiceIsDeleted
  PROVE  /\ UNCHANGED <<cache, presets, known, server>>
         /\ work.pc = "service" /\ known[work.key] = "there"
         /\ HasClusterIP(cache["service"].data)
         /\ api'["service"].data = Absent
BY PutFacts, ServiceTypes DEF ServiceIsDeleted, Advance, UnchangedByWork

LEMMA ServiceWrites ==
  ASSUME TypeOK, Next
  PROVE  \/ api'["service"] = api["service"]
         \/ StartDeletesService \/ StartCreatesService
         \/ ServiceIsDeleted \/ ServiceIsCreated \/ CollectGarbage
BY WhoWrites, ObjectFacts, ServiceTypes

LEMMA HeadlessFacts ==
  ASSUME NEW owners
  PROVE  /\ Headless(owners) # Absent => Owners(Headless(owners)) = owners
         /\ Headless(owners).headless /\ Headless(owners).owners = owners
         /\ ~ HasClusterIP(Headless(owners))
BY DEF Headless, Owners, HasClusterIP

LEMMA OwnersKept ==
  ASSUME TypeOK, CacheIsBehind, OwnersWereThere, Next
  PROVE  OwnersWereThere'
<1>1. \A p \in PresetUIDs : Born(p) => Born(p)'
  BY PresetLife
<1>2. /\ Owners(api["service"].data) \subseteq PresetUIDs
      /\ Owners(cache["service"].data) \subseteq PresetUIDs
      /\ reconciled \subseteq PresetUIDs
  BY ServiceTypes DEF Owners, Service, TypeOK
<1>3. work.pc \in {"service", "create", "ca", "wait", "configs"}
        => work.key \in PresetUIDs /\ (known[work.key] = "there" => Born(work.key))
  BY ServiceTypes DEF OwnersWereThere
<1>4. ServiceIsCreated => Born(work.key)
  BY <1>3 DEF ServiceIsCreated, OwnersWereThere
<1>5. \A p \in PresetUIDs : known'[p] # "new" => Born(p)'
  BY <1>1, PresetLife DEF OwnersWereThere, Born
<1>6. \A p \in Owners(api'["service"].data) : Born(p)'
  <2>1. ASSUME \A p \in Owners(api'["service"].data) : Born(p) /\ p \in PresetUIDs
        PROVE  \A p \in Owners(api'["service"].data) : Born(p)'
    BY <1>1, <2>1
  <2>2. CASE api'["service"] = api["service"]
    BY <1>2, <2>1, <2>2 DEF OwnersWereThere
  <2>3. CASE StartDeletesService \/ StartCreatesService
    <3>1. Owners(api'["service"].data) \subseteq Owners(api["service"].data)
      BY <2>3, StartFacts, HeadlessFacts DEF Owners
    <3> QED
      BY <1>2, <2>1, <3>1 DEF OwnersWereThere
  <2>4. CASE ServiceIsDeleted
    BY <2>4, DeletionFacts DEF Owners
  <2>5. CASE ServiceIsCreated
    <3>1. Owners(api'["service"].data) \subseteq
            {work.key} \cup Owners(cache["service"].data) \cup Owners(api["service"].data)
      BY <2>5, CreationFacts, HeadlessFacts DEF Owners
    <3>2. work.key \in PresetUIDs
      BY <2>5, CreationFacts, ServiceTypes
    <3> QED
      BY <1>2, <1>4, <2>1, <2>5, <3>1, <3>2 DEF OwnersWereThere
  <2>6. CASE CollectGarbage
    <3>1. Owners(api'["service"].data) \subseteq Owners(api["service"].data)
      BY <2>6, CollectionFacts, ServiceTypes DEF Owners
    <3> QED
      BY <1>2, <2>1, <3>1 DEF OwnersWereThere
  <2> QED
    BY <2>2, <2>3, <2>4, <2>5, <2>6, ServiceWrites
<1>7. \A p \in Owners(cache'["service"].data) : Born(p)'
  BY <1>1, <1>2, StepFollows, ServiceTypes DEF CacheFollows, OwnersWereThere
<1>8. \A p \in reconciled' : Born(p)'
  BY <1>1, <1>2, <1>3, InstallingMoves DEF OwnersWereThere
<1>9. work'.pc \in {"create", "ca", "wait", "configs"} => Born(work.key)' /\ work'.key = work.key
  <2>1. ServiceIsDeleted => Born(work.key)
    BY <1>3, DeletionFacts
  <2>2. work'.pc \in {"create", "ca", "wait", "configs"} =>
          /\ work'.key = work.key /\ work.key \in PresetUIDs
          /\ Born(work.key)
    BY <1>3, <1>4, <2>1, InstallingMoves, DeletionFacts, CreationFacts, ServiceTypes
    DEF OwnersWereThere
  <2> QED
    BY <1>1, <2>2 DEF Born
<1>10. work'.pc \in {"create", "ca", "wait", "configs"} => presets'[work'.key] # "new"
  BY <1>9 DEF Born
<1> QED
  BY <1>5, <1>6, <1>7, <1>8, <1>10 DEF OwnersWereThere, Born

\* No Reconcile deletes a headless service: one that has a cluster IP in the
\* cache has it, or is gone.
LEMMA DeletedHadClusterIP ==
  ASSUME TypeOK, ServiceStays, ServiceIsDeleted, Running
  PROVE  api["service"].data = Absent \/ ~ api["service"].data.headless
BY DeletionFacts DEF ServiceStays, HasClusterIP

\* An owner that is there stays the owner of a headless service.
LEMMA OwnershipStays ==
  ASSUME TypeOK, CacheIsBehind, StartIsAlone, ServiceStays, Next,
         NEW p \in There, OwnedBy(api["service"].data, p)
  PROVE  OwnedBy(api'["service"].data, p)
<1>1. /\ api["service"].data \in Service /\ api["service"].data.headless
      /\ p \in Owners(api["service"].data)
      /\ p \in api["service"].data.owners
  BY ServiceTypes DEF OwnedBy, Owners
<1>2. ASSUME NEW owners, p \in owners, owners \subseteq PresetUIDs,
             api'["service"].data = Headless(owners)
      PROVE  OwnedBy(api'["service"].data, p)
  <2>1. Headless(owners) \in Service
    BY <1>2 DEF Headless, Service
  <2> QED
    BY <1>2, <2>1, ServiceTypes, HeadlessFacts DEF OwnedBy
<1>3. CASE StartDeletesService \/ StartCreatesService
  <2>1. Owners(api["service"].data) \subseteq PresetUIDs
    BY <1>1 DEF Owners, Service
  <2> QED
    BY <1>1, <1>2, <1>3, <2>1, StartFacts DEF HasClusterIP
<1>4. CASE ServiceIsDeleted
  <2>1. Running
    BY <1>4 DEF StartIsAlone, ServiceIsDeleted
  <2> QED
    BY <1>1, <1>4, <2>1, DeletedHadClusterIP, ServiceTypes
<1>5. CASE ServiceIsCreated
  <2> DEFINE owners == {work.key} \cup Owners(cache["service"].data)
  <2>1. owners \subseteq PresetUIDs
    BY <1>5, CreationFacts, ServiceTypes DEF Owners, Service
  <2>2. CASE UNCHANGED api
    BY <2>2
  <2>3. CASE api'["service"].data = Headless(owners) /\ cache["service"] = api["service"]
    BY <1>1, <1>2, <2>1, <2>3
  <2> QED
    BY <1>1, <1>5, <2>2, <2>3, CreationFacts, ServiceTypes
<1>6. CASE CollectGarbage
  BY <1>1, <1>6, CollectionFacts, ServiceTypes DEF OwnedBy
<1> QED
  BY <1>3, <1>4, <1>5, <1>6, ServiceWrites

\* What Reconcile creates is owned by its preset, also when the cache made it
\* leave the service as it is.
LEMMA CreatedIsOwned ==
  ASSUME TypeOK, CacheIsBehind, ServiceStays, ServiceIsCreated, work.key \in There
  PROVE  OwnedBy(api'["service"].data, work.key)
<1> DEFINE owners == {work.key} \cup Owners(cache["service"].data)
<1>1. Headless(owners) \in Service
  BY CreationFacts, ServiceTypes DEF Owners, Service, Headless
<1>2. OwnedBy(Headless(owners), work.key)
  BY <1>1, ServiceTypes, HeadlessFacts DEF OwnedBy
<1>3. CASE cache["service"].data = Headless(owners) /\ UNCHANGED api
  BY <1>2, <1>3 DEF ServiceStays
<1>4. CASE api'["service"].data = Headless(owners)
  BY <1>2, <1>4
<1> QED
  BY <1>3, <1>4, CreationFacts

LEMMA ServiceKept ==
  ASSUME TypeOK, CacheIsBehind, StartIsAlone, OwnersWereThere, ServiceStays, Next
  PROVE  ServiceStays'
<1>1. /\ \A p \in PresetUIDs : p \in There' /\ Born(p) => p \in There
      /\ There' \subseteq PresetUIDs
  BY PresetLife DEF There
<1>2. ASSUME NEW p \in There', Born(p), OwnedBy(api["service"].data, p)
      PROVE  OwnedBy(api'["service"].data, p)
  BY <1>1, <1>2, OwnershipStays
<1>3. ASSUME NEW p \in There', OwnedBy(cache'["service"].data, p)
      PROVE  OwnedBy(api'["service"].data, p)
  <2>1. CASE cache'["service"] = cache["service"]
    <3>1. Born(p)
      BY <1>3, <2>1 DEF OwnedBy, Owners, OwnersWereThere
    <3>2. p \in There
      BY <1>1, <3>1
    <3> QED
      BY <1>2, <1>3, <2>1, <3>1, <3>2 DEF ServiceStays
  <2>2. CASE UNCHANGED api /\ cache'["service"] = api["service"]
    BY <1>3, <2>2
  <2> QED
    BY <2>1, <2>2, StepFollows, ServiceTypes DEF CacheFollows
<1>4. ASSUME work'.pc \in {"ca", "wait", "configs"}, work'.key \in There'
      PROVE  OwnedBy(api'["service"].data, work'.key)
  <2>1. /\ work'.key = work.key
        /\ work.pc \in {"ca", "wait", "configs"} \/ ServiceIsCreated
    BY <1>4, InstallingMoves
  <2>2. ServiceIsCreated => Born(work.key)
    BY <2>1, ServiceTypes DEF ServiceIsCreated, OwnersWereThere
  <2>3. Born(work.key) /\ work.key \in There
    BY <1>1, <1>4, <2>1, <2>2 DEF OwnersWereThere
  <2> QED
    BY <1>2, <1>4, <2>1, <2>3, CreatedIsOwned DEF ServiceStays
<1>5. ASSUME work'.pc = "create"
      PROVE  api'["service"].data = Absent
  <2>1. CASE ServiceIsDeleted
    BY <2>1, DeletionFacts
  <2>2. CASE work.pc = "create"
    <3>1. Running /\ api["service"].data = Absent
      BY <2>2 DEF StartIsAlone, ServiceStays
    <3>2. ~ ServiceIsCreated
      BY <1>5 DEF ServiceIsCreated, Advance, TypeOK, Idle
    <3>3. ~ CollectGarbage
      BY <3>1 DEF CollectGarbage
    <3> QED
      BY <2>1, <3>1, <3>2, <3>3, ServiceWrites, StartFacts
  <2> QED
    BY <1>5, <2>1, <2>2, InstallingMoves
<1>6. ASSUME Running', HasClusterIP(cache'["service"].data)
      PROVE  api'["service"].data = Absent \/ HasClusterIP(api'["service"].data)
  <2>1. CASE cache'["service"] = cache["service"] /\ Running
    <3>1. api["service"].data = Absent \/ HasClusterIP(api["service"].data)
      BY <1>6, <2>1 DEF ServiceStays
    <3>2. CASE ServiceIsCreated
      <4>1. work.pc = "create"
        BY <1>6, <2>1, <3>2 DEF ServiceIsCreated
      <4>2. api["service"].data = Absent
        BY <4>1 DEF ServiceStays
      <4> QED
        BY <1>6, <2>1, <3>2, <4>2, CreationFacts, HeadlessFacts DEF HasClusterIP
    <3>3. CASE CollectGarbage
      BY <3>1, <3>3, CollectionFacts, ServiceTypes DEF HasClusterIP
    <3> QED
      BY <2>1, <3>1, <3>2, <3>3, ServiceWrites, StartFacts, DeletionFacts
  <2>2. CASE UNCHANGED api /\ cache'["service"] = api["service"]
    BY <1>6, <2>2 DEF HasClusterIP
  <2>3. ~ Running => cache' = api /\ UNCHANGED api
    <3>1. WorkerStep => Running
      BY WorkerSteps
    <3>2. OutsideStep => (Running <=> Running')
      BY DEF OutsideStep, SyncObject, SyncPresets, TouchPreset, CreatePreset,
         DeletePreset, EditLabel, CollectGarbage, MakeSecret, InjectCA, RotateCA,
         RotateSecret, Outside, Running
    <3>3. StartStep => (cache' = api /\ UNCHANGED api) \/ ~ Running'
      BY DEF StartStep, StartDeletesService, StartCreatesService,
         StartReadsSecret, StartSavesKey, StartServing, CertsTimeOut, StartFails,
         Restart, StartManager, Running
    <3> QED
      BY <1>6, <3>1, <3>2, <3>3, NextSteps
  <2> QED
    BY <2>1, <2>2, <2>3, StepFollows, ServiceTypes DEF CacheFollows
<1>7. ServiceOutlivesPresets'
  <2>1. ASSUME NEW p \in reconciled', p \in There'
        PROVE  OwnedBy(api'["service"].data, p)
    <3>1. p \in reconciled \/ (work.pc = "configs" /\ p = work.key)
      BY InstallingMoves
    <3>2. Born(p) /\ p \in There
      BY <1>1, <2>1, <3>1 DEF OwnersWereThere
    <3>3. OwnedBy(api["service"].data, p)
      BY <3>1, <3>2 DEF ServiceStays, ServiceOutlivesPresets, OwnedBy
    <3> QED
      BY <3>2, <3>3, OwnershipStays
  <2> QED
    BY <2>1 DEF ServiceOutlivesPresets, OwnedBy
<1> QED
  BY <1>3, <1>4, <1>5, <1>6, <1>7 DEF ServiceStays

-----------------------------------------------------------------------------
(***************************************************************************)
(* The inductive invariant.                                                *)
(***************************************************************************)
IInv ==
  /\ CacheIsBehind
  /\ StartIsAlone
  /\ LabelsStay
  /\ BundlesGrow
  /\ OwnersWereThere
  /\ ServiceStays

LEMMA InitFacts ==
  ASSUME Init
  PROVE  /\ cache = api /\ work = Idle /\ work.pc = "idle" /\ server = "service"
         /\ api["ns"].data \subseteq UserLabels
         /\ Owners(api["service"].data) = {} /\ There = {} /\ reconciled = {}
         /\ ~ (api["service"].data # Absent /\ api["service"].data.headless)
         /\ \A k \in Configs : api[k].data = Absent
<1>1. PICK labels \in SUBSET UserLabels, named \in SUBSET {"name"},
           old \in { Absent, [headless |-> FALSE, owners |-> {}] } :
        api = [k \in Objects |->
                 Object(CASE k = "ns"      -> labels
                          [] k = "public"  -> labels \cup named
                          [] k = "service" -> old
                          [] OTHER         -> Absent)]
  BY DEF Init
<1>2. api["ns"].data = labels
  BY <1>1, ObjectFacts DEF Object
<1>3. api["service"].data = old
  BY <1>1, ObjectFacts DEF Object
<1>4. ASSUME NEW k \in Configs
      PROVE  api[k].data = Absent
  <2>1. api[k] = Object(Absent)
    BY <1>1, ObjectFacts
  <2> QED
    BY <2>1 DEF Object
<1>5. Owners(old) = {} /\ ~ (old # Absent /\ old.headless)
  BY DEF Owners
<1>6. /\ cache = api /\ work = Idle /\ server = "service" /\ reconciled = {}
      /\ There = {}
      /\ Owners(api["service"].data) = {}
      /\ ~ (api["service"].data # Absent /\ api["service"].data.headless)
  BY <1>3, <1>5 DEF Init, There
<1> QED
  BY <1>2, <1>4, <1>6, IdleTyped

LEMMA InitInv == Init => IInv
<1> SUFFICES ASSUME Init PROVE IInv
  OBVIOUS
<1>1. TypeOK
  BY InitTyped
<1>2. CacheIsBehind
  <2>1. \A k \in Objects : api[k].rv \in Nat
    BY <1>1 DEF TypeOK, IsObject
  <2> QED
    BY <2>1, InitFacts DEF CacheIsBehind, SeenBefore
<1>3. StartIsAlone
  BY InitFacts DEF StartIsAlone, ServedPairFits
<1>4. Configured = {}
  BY InitFacts DEF Configured
<1>5. LabelsStay
  BY <1>4, InitFacts DEF LabelsStay, PublicHasName, AfterPublic, AfterLabel,
     WebhooksSelectNamespaces
<1>6. BundlesGrow
  BY <1>1, <1>4, InitFacts, BundleTypes DEF BundlesGrow
<1>7. OwnersWereThere
  BY InitFacts DEF OwnersWereThere, Born, Init
<1>8. ServiceStays
  BY InitFacts DEF ServiceStays, ServiceOutlivesPresets, Running
<1> QED
  BY <1>2, <1>3, <1>5, <1>6, <1>7, <1>8 DEF IInv

LEMMA NextInv == TypeOK /\ IInv /\ [Next]_vars => IInv'
<1> SUFFICES ASSUME TypeOK, IInv, [Next]_vars PROVE IInv'
  OBVIOUS
<1>1. CASE Next
  BY <1>1, CacheStaysBehind, StartStaysAlone, LabelsKept, BundlesKept, OwnersKept,
     ServiceKept DEF IInv
<1>2. CASE UNCHANGED vars
  <2>1. UNCHANGED <<api, cache, presets, known, work, server, fetched, files,
                  reconciled>>
    BY <1>2 DEF vars
  <2>2. CacheIsBehind' /\ StartIsAlone'
    BY <2>1 DEF IInv, CacheIsBehind, SeenBefore, StartIsAlone, ServedPairFits,
       Running
  <2>3. LabelsStay'
    BY <2>1 DEF IInv, LabelsStay, PublicHasName, WebhooksSelectNamespaces, Configured
  <2>4. BundlesGrow'
    BY <2>1 DEF IInv, BundlesGrow, Configured
  <2>5. OwnersWereThere' /\ ServiceStays'
    BY <2>1 DEF IInv, OwnersWereThere, Born, ServiceStays, ServiceOutlivesPresets,
       There, OwnedBy, Running
  <2> QED
    BY <2>2, <2>3, <2>4, <2>5 DEF IInv
<1> QED
  BY <1>1, <1>2

LEMMA Invariance == Spec => [](TypeOK /\ IInv)
<1>1. Init => TypeOK /\ IInv
  BY InitTyped, InitInv
<1>2. TypeOK /\ IInv /\ [Next]_vars => (TypeOK /\ IInv)'
  BY NextTyped, NextInv
<1> QED
  BY <1>1, <1>2, PTL DEF Spec

\* A configuration exists only in the presence of the labels it selects by:
\* every way out of a refused label update ends Reconcile, and no step takes
\* a label away that an earlier one found.
THEOREM NamespacesAreSelected == Spec => []WebhooksSelectNamespaces
<1>1. IInv => WebhooksSelectNamespaces
  BY DEF IInv, LabelsStay
<1> QED
  BY <1>1, Invariance, PTL

\* Every configuration has a CA bundle that the configmap had.
THEOREM ServiceIsTrusted == Spec => []ConfigsTrustTheService
<1>1. TypeOK /\ IInv => ConfigsTrustTheService
  BY TrustFollows DEF IInv
<1> QED
  BY <1>1, Invariance, PTL

\* As long as a PodPreset that was reconciled is there, so is the headless
\* service it owns, whatever is collected and however stale the cache.
THEOREM ServiceIsThere == Spec => []ServiceOutlivesPresets
<1>1. IInv => ServiceOutlivesPresets
  BY DEF IInv, ServiceStays
<1> QED
  BY <1>1, Invariance, PTL

\* The server runs with the key and the certificate of one secret.
THEOREM ServedPairIsOne == Spec => []ServedPairFits
<1>1. IInv => ServedPairFits
  BY DEF IInv, StartIsAlone
<1> QED
  BY <1>1, Invariance, PTL

LEMMA HeadlessIsCollected ==
  ASSUME TypeOK, IInv, Next,
         api["service"].data # Absent, api["service"].data.headless,
         api'["service"].data = Absent
  PROVE  LET service == api["service"].data
         IN  service.owners # {} /\ service.owners \cap There = {}
<1>1. /\ api["service"].data \in Service
      /\ ~ HasClusterIP(api["service"].data)
  BY ServiceTypes DEF HasClusterIP
<1>2. ASSUME NEW owners, owners \subseteq PresetUIDs
      PROVE  api'["service"].data # Headless(owners)
  <2>1. Headless(owners) \in Service
    BY <1>2 DEF Headless, Service
  <2> QED
    BY <2>1, ServiceTypes
<1>3. ~ (StartDeletesService \/ StartCreatesService)
  <2>1. Owners(api["service"].data) \subseteq PresetUIDs
    BY <1>1 DEF Owners, Service
  <2> QED
    BY <1>1, <1>2, <2>1, StartFacts
<1>4. ~ ServiceIsDeleted
  <2>1. ServiceIsDeleted => Running
    BY DEF ServiceIsDeleted, IInv, StartIsAlone
  <2> QED
    BY <2>1, DeletedHadClusterIP DEF IInv
<1>5. ~ ServiceIsCreated
  <2> DEFINE owners == {work.key} \cup Owners(cache["service"].data)
  <2>1. ServiceIsCreated => owners \subseteq PresetUIDs
    BY CreationFacts, ServiceTypes DEF IInv, Owners, Service
  <2>2. api'["service"] # api["service"]
    BY <1>1, ServiceTypes
  <2> QED
    BY <1>2, <2>1, <2>2, CreationFacts DEF IInv
<1>6. CollectGarbage
  BY <1>1, <1>3, <1>4, <1>5, ServiceWrites, ServiceTypes
<1> QED
  BY <1>6, CollectionFacts, ServiceTypes

\* A headless service is deleted only when all its owners are gone: never by
\* a start or a Reconcile that takes it for the one with a cluster IP.
THEOREM HeadlessIsKept == Spec => HeadlessServiceIsKept
<1>1. TypeOK /\ IInv /\ [Next]_vars =>
        [ LET service == api["service"].data
          IN  (/\ service # Absent /\ service.headless
               /\ api'["service"].data = Absent)
              => service.owners # {} /\ service.owners \cap There = {} ]_vars
  BY HeadlessIsCollected
<1> QED
  BY <1>1, Invariance, PTL DEF Spec, HeadlessServiceIsKept

\* Reconcile writes back the labels of the watch namespace as it read them,
\* but only when nobody wrote in between: labels of users come and go by users.
THEOREM LabelsAreTheUsers == Spec => UserLabelsSurvive
<1>1. ASSUME TypeOK, IInv, Next,
             api'["ns"].data \cap UserLabels # api["ns"].data \cap UserLabels
      PROVE  ByUsers("ns")
  <2>1. CASE NamespaceIsLabelled
    <3>1. PICK data : data = work.ns.data \cup {"managed"}
      OBVIOUS
    <3>2. api' = Put("ns", data) /\ Current("ns", work.ns.rv) /\ work.pc = "label"
      BY <2>1, <3>1 DEF NamespaceIsLabelled, Advance
    <3>3. work.ns = api["ns"]
      BY <1>1, <3>2 DEF Current, IInv, CacheIsBehind, SeenBefore
    <3>4. api'["ns"].data = data
      BY <1>1, <3>2, PutFacts, ObjectFacts
    <3> QED
      BY <1>1, <3>1, <3>3, <3>4, InstallAssumption
  <2>2. CASE \E label \in UserLabels : EditLabel("ns", label)
    BY <2>2 DEF ByUsers
  <2> QED
    BY <1>1, <2>1, <2>2, WhoWrites, ObjectFacts
<1>2. TypeOK /\ IInv /\ [Next]_vars =>
        [ api'["ns"].data \cap UserLabels # api["ns"].data \cap UserLabels
            => ByUsers("ns") ]_vars
  BY <1>1
<1> QED
  BY <1>2, Invariance, PTL DEF Spec, UserLabelsSurvive

(***************************************************************************)
(* The refinement: a write of a configuration is the abstract Configure, a *)
(* label that is new is LabelNamespace, and every other step starts, stops *)
(* or changes nothing that Installation speaks of.                         *)
(***************************************************************************)
Bundle(i) == IF api[Webhooks[i]].data = Absent THEN 0 ELSE api[Webhooks[i]].data

Labelled == "managed" \in api["ns"].data

LEMMA RunningChanges ==
  ASSUME TypeOK, Next
  PROVE  UNCHANGED Running \/ (UNCHANGED api /\ Running' = ~ Running)
<1>1. StartStep => UNCHANGED Running \/ (UNCHANGED api /\ Running' = ~ Running)
  BY DEF StartStep, StartDeletesService, StartCreatesService, StartReadsSecret,
     StartSavesKey, StartServing, CertsTimeOut, StartFails, Restart, StartManager,
     Running
<1>2. WorkerStep => UNCHANGED Running
  BY WorkerSteps DEF GiveUp, StartReconcile, PublicIsLabelled, NamespaceIsLabelled,
     ServiceIsDeleted, ServiceIsCreated, CAIsThere, FoundCA, ConfigIsThere, Advance,
     UnchangedByWork, Running
<1>3. OutsideStep => UNCHANGED Running
  BY DEF OutsideStep, SyncObject, SyncPresets, TouchPreset, CreatePreset,
     DeletePreset, EditLabel, CollectGarbage, MakeSecret, InjectCA, RotateCA,
     RotateSecret, Outside, Running
<1> QED
  BY <1>1, <1>2, <1>3, NextSteps

LEMMA LabelledChanges ==
  ASSUME TypeOK, StartIsAlone, Next
  PROVE  UNCHANGED Labelled \/ (NamespaceIsLabelled /\ Running /\ Labelled')
<1>1. CASE api'["ns"] = api["ns"]
  BY <1>1 DEF Labelled
<1>2. CASE \E label \in UserLabels : "ns" \in NamespaceObjects /\ EditLabel("ns", label)
  BY <1>2, EditFacts DEF Labelled
<1>3. CASE NamespaceIsLabelled
  BY <1>3, ManagedStays DEF Labelled, NamespaceIsLabelled, StartIsAlone
<1> QED
  BY <1>1, <1>2, <1>3, WhoWrites, ObjectFacts

Bundles == [i \in DOMAIN Webhooks |-> Bundle(i)]

LEMMA ConfiguringIsConfigure ==
  ASSUME TypeOK, IInv, ConfigIsThere, Next
  PROVE  \/ UNCHANGED <<Running, Labelled, Bundles>>
         \/ \E i \in 1..Len(Webhooks), bundle \in 1..MaxBundle :
              /\ Running /\ Labelled /\ UNCHANGED <<Running, Labelled>>
              /\ bundle > Bundles[i]
              /\ i > 1 => Bundles[i - 1] = bundle
              /\ Bundles' = [Bundles EXCEPT ![i] = bundle]
<1> DEFINE i == work.next
           bundle == work.bundle
<1>1. /\ work.pc = "configs"
      /\ bundle \in 1..MaxBundle /\ i \in DOMAIN Webhooks
  BY BundleTypes DEF ConfigIsThere
<1>2. Running /\ Labelled
  BY <1>1 DEF IInv, StartIsAlone, LabelsStay, AfterLabel, Labelled
<1>3. /\ Webhooks[i] \in Configs
      /\ api'[Webhooks[i]].data = bundle
      /\ \A j \in Objects \ {Webhooks[i]} : api'[j] = api[j]
  BY ConfigFacts DEF IInv
<1>4. UNCHANGED <<Running, Labelled>>
  <2>1. UNCHANGED server
    BY DEF ConfigIsThere, UnchangedByWork
  <2> QED
    BY <1>3, <2>1, ObjectFacts DEF Running, Labelled
<1>5. ASSUME NEW j \in DOMAIN Webhooks
      PROVE  Bundle(j)' = IF j = i THEN bundle ELSE Bundle(j)
  <2>1. CASE j = i
    <3>1. bundle # Absent
      BY <1>1, BundleTypes
    <3> QED
      BY <1>3, <2>1, <3>1 DEF Bundle
  <2>2. CASE j # i
    <3>1. Webhooks[j] \in Objects \ {Webhooks[i]}
      BY <1>1, <2>2, WebhookFacts, ObjectFacts
    <3> QED
      BY <1>3, <2>2, <3>1 DEF Bundle
  <2> QED
    BY <2>1, <2>2
<1>6. Bundle(i) \in 0..bundle
  <2>1. api[Webhooks[i]].data # Absent => api[Webhooks[i]].data <= bundle
    BY <1>1, <1>3 DEF IInv, BundlesGrow, Configured
  <2>2. api[Webhooks[i]].data \in 1..MaxBundle \cup {Absent}
    BY <1>3, BundleTypes
  <2> QED
    BY <1>1, <2>1, <2>2 DEF Bundle
<1>7. ASSUME i > 1
      PROVE  Bundle(i - 1) = bundle /\ i - 1 \in DOMAIN Webhooks
  <2>1. i - 1 \in 1..(work.next - 1) /\ i - 1 \in DOMAIN Webhooks
    BY <1>1, <1>7, WebhookFacts
  <2>2. api[Webhooks[i - 1]].data = bundle
    BY <1>1, <2>1 DEF IInv, BundlesGrow
  <2>3. bundle # Absent
    BY <1>1, BundleTypes
  <2> QED
    BY <2>1, <2>2, <2>3 DEF Bundle
<1> HIDE DEF i, bundle
<1>8. Bundles' = [Bundles EXCEPT ![i] = bundle]
  BY <1>5 DEF Bundles
<1>9. CASE Bundle(i) = bundle
  <2>1. UNCHANGED Bundles
    BY <1>5, <1>9 DEF Bundles
  <2> QED
    BY <1>4, <2>1
<1>10. CASE Bundle(i) # bundle
  <2>1. bundle > Bundles[i]
    BY <1>1, <1>6, <1>10 DEF Bundles
  <2>2. i > 1 => Bundles[i - 1] = bundle
    BY <1>7 DEF Bundles
  <2>3. i \in 1..Len(Webhooks)
    BY <1>1, WebhookFacts
  <2> QED
    BY <1>1, <1>2, <1>4, <1>8, <2>1, <2>2, <2>3
<1> QED
  BY <1>9, <1>10

LEMMA OthersConfigureNothing ==
  ASSUME TypeOK, Next, ~ ConfigIsThere
  PROVE  UNCHANGED Bundles
<1>1. ASSUME NEW i \in DOMAIN Webhooks
      PROVE  Bundle(i)' = Bundle(i)
  <2>1. api'[Webhooks[i]] = api[Webhooks[i]]
    BY WhoWrites, WebhookFacts, ObjectFacts
  <2> QED
    BY <2>1 DEF Bundle
<1> QED
  BY <1>1 DEF Bundles

LEMMA StepKeepsPromise ==
  ASSUME TypeOK, IInv, Next
  PROVE  Promise!Next \/ UNCHANGED Promise!vars
<1>1. CASE ConfigIsThere
  BY <1>1, ConfiguringIsConfigure
  DEF Promise!Next, Promise!Configure, Promise!vars, Bundles, Bundle, Labelled
<1>2. CASE ~ ConfigIsThere
  <2>1. UNCHANGED Bundles
    BY <1>2, OthersConfigureNothing
  <2>2. \/ UNCHANGED <<Running, Labelled>>
        \/ UNCHANGED Labelled /\ Running' = ~ Running
        \/ UNCHANGED Running /\ Running /\ Labelled'
    <3>1. NamespaceIsLabelled => UNCHANGED Running
      BY DEF NamespaceIsLabelled, Advance, UnchangedByWork, Running
    <3>2. UNCHANGED api => UNCHANGED Labelled
      BY DEF Labelled
    <3> QED
      BY <3>1, <3>2, RunningChanges, LabelledChanges DEF IInv
  <2>3. UNCHANGED <<Running, Labelled>> => UNCHANGED Promise!vars
    BY <2>1 DEF Promise!vars, Bundles, Bundle, Labelled
  <2>4. UNCHANGED Labelled /\ Running' = ~ Running => Promise!StartOrStop
    BY <2>1 DEF Promise!StartOrStop, Bundles, Bundle, Labelled
  <2>5. UNCHANGED Running /\ Running /\ Labelled' => Promise!LabelNamespace
    BY <2>1 DEF Promise!LabelNamespace, Bundles, Bundle, Labelled
  <2> QED
    BY <2>2, <2>3, <2>4, <2>5 DEF Promise!Next
<1> QED
  BY <1>1, <1>2

\* WebhookInstall implements Installation: however the start, the worker, the
\* cache, users, faults and restarts interleave, the configurations are
\* written front to back, by a running manager, into a labelled namespace, and
\* none loses its CA bundle or gets an older one.
THEOREM PromiseIsKept == Spec => KeepsPromise
<1>1. Init => Promise!Init
  <2> SUFFICES ASSUME Init PROVE Promise!Init
    OBVIOUS
  <2>1. ~ Running /\ ~ Labelled
    BY InitFacts, InstallAssumption DEF Running, Labelled
  <2>2. \A i \in DOMAIN Webhooks : Bundle(i) = 0
    BY InitFacts, WebhookFacts DEF Bundle
  <2>3. Bundles = [i \in 1..Len(Webhooks) |-> 0]
    BY <2>2, WebhookFacts DEF Bundles
  <2> QED
    BY <2>1, <2>3 DEF Promise!Init, Bundles, Bundle, Labelled
<1>2. TypeOK /\ IInv /\ [Next]_vars => [Promise!Next]_(Promise!vars)
  <2>1. UNCHANGED vars => UNCHANGED Promise!vars
    BY DEF vars, Promise!vars, Running
  <2> QED
    BY <2>1, StepKeepsPromise
<1> QED
  BY <1>1, <1>2, Invariance, PTL DEF Spec, KeepsPromise, Promise!Spec
=============================================================================
