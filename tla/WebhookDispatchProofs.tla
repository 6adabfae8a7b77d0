------------------------ MODULE WebhookDispatchProofs ------------------------
(***************************************************************************)
(* Safety of WebhookDispatch, for any instances with any environments, and *)
(* however often PodPresets change, pods are lost and calls fail.          *)
(***************************************************************************)
EXTENDS WebhookDispatch, TLAPS

(***************************************************************************)
(* The inductive invariant: what an instance is, what it works on, and     *)
(* where the configurations come from.                                     *)
(***************************************************************************)
\* GetWatchNamespace and GetEnableOpreqWebhook, of an environment.
Watched(env) == IF "WATCH_NAMESPACE" \in DOMAIN env THEN env["WATCH_NAMESPACE"] ELSE ""

Enabled(env) ==
  "ENABLE_OPREQ_WEBHOOK" \in DOMAIN env /\ env["ENABLE_OPREQ_WEBHOOK"] = "TRUE"

Works ==
  [pc   : {"idle", "public", "label", "service", "configs"},
   key  : PresetNamespaces \cup {None},
   next : Nat]

Instances(o) ==
  [phase  : {"down", "starting", "running"},
   env    : Environments[o],
   server : BOOLEAN,
   queue  : SUBSET PresetNamespaces,
   work   : Works]

\* An instance works on a PodPreset it watches, in the list it was started
\* with, and writes configurations for a namespace only.
WorkFits(r) ==
  \/ r.work = Idle
  \/ /\ r.work.pc # "idle"
     /\ r.work.key \in PresetNamespaces /\ Watched(r.env) \in {"", r.work.key}
     /\ r.work.next \in 1..Len(SetupWebhooks(Enabled(r.env)))
     /\ r.work.pc = "configs" => Watched(r.env) # ""

InstanceFits(o, r) ==
  /\ r \in Instances(o)
  /\ r.phase # "running" => r.queue = {} /\ r.work = Idle /\ ~ r.server
  /\ \A n \in r.queue : Watched(r.env) \in {"", n}
  /\ WorkFits(r)

InstancesFit ==
  DOMAIN operators = Operators /\ \A o \in Operators : InstanceFits(o, operators[o])

\* Only kube-public has its name for a label.
LabelsFit ==
  /\ labels \in [Namespaces -> SUBSET {ManagedLabel, NameLabel}]
  /\ \A n \in Namespaces : NameLabel \in labels[n] => n = "kube-public"

PresetsFit == presets \in [PresetNamespaces -> 0..MaxChanges]

ServicesFit ==
  /\ DOMAIN services = Namespaces
  /\ \A n \in Namespaces :
       services[n] = None \/ services[n] \subseteq PresetNamespaces \X (1..MaxChanges)

\* Every configuration is one of main.go's webhooks for some namespace.
ConfigsFit ==
  \A name \in DOMAIN configs :
    \/ configs[name] = None
    \/ \E webhook \in {PodWebhook, OperandRequestWebhook, NsMappingWebhook} :
         \E n \in Namespaces :
           configs[name] =
             Configuration(webhook, GetReconciler(webhook.register)[1], n)

DispatchInv == InstancesFit /\ LabelsFit /\ PresetsFit /\ ServicesFit /\ ConfigsFit

(***************************************************************************)
(* Environments and the lists made of them.                                *)
(***************************************************************************)
LEMMA EnvironmentFacts ==
  ASSUME NEW o \in Operators
  PROVE  /\ GetWatchNamespace(o) = Watched(operators[o].env)
         /\ Webhooks(o) = SetupWebhooks(Enabled(operators[o].env))
         /\ \A n : Watches(o, n) <=> Watched(operators[o].env) \in {"", n}
         /\ GetEnableOpreqWebhook(o) <=> Enabled(operators[o].env)
         /\ \A env \in Environments[o] :
              Watched(env) # "" => Watched(env) \in Namespaces
BY EnvironmentsAssumption DEF GetWatchNamespace, Watched, Webhooks, Enabled, Watches,
   GetEnableOpreqWebhook

LEMMA ListFacts ==
  ASSUME NEW enabled
  PROVE  /\ Len(SetupWebhooks(enabled)) \in {1, 3}
         /\ \A i \in 1..Len(SetupWebhooks(enabled)) : SetupWebhooks(enabled)[i] \in
              {PodWebhook, OperandRequestWebhook, NsMappingWebhook}
<1> DEFINE ws == SetupWebhooks(enabled)
<1>1. CASE enabled
  <2>1. ws = << PodWebhook, OperandRequestWebhook, NsMappingWebhook >>
    BY <1>1 DEF SetupWebhooks
  <2> HIDE DEF ws
  <2>2. Len(ws) = 3 /\ \A i \in 1..3 : i = 1 \/ i = 2 \/ i = 3
    BY <2>1
  <2> QED
    BY <2>1, <2>2 DEF ws
<1>2. CASE ~ enabled
  <2>1. ws = << PodWebhook >>
    BY <1>2 DEF SetupWebhooks
  <2> HIDE DEF ws
  <2>2. Len(ws) = 1 /\ \A i \in 1..1 : i = 1
    BY <2>1
  <2> QED
    BY <2>1, <2>2 DEF ws
<1> QED
  BY <1>1, <1>2

LEMMA IdleFits ==
  /\ Idle \in Works /\ Idle.pc = "idle" /\ Idle.key = None /\ Idle.next = 0
  /\ \A r : r.work = Idle => WorkFits(r)
BY DEF Idle, Works, WorkFits

LEMMA DownFits ==
  ASSUME NEW o \in Operators, NEW env \in Environments[o]
  PROVE  InstanceFits(o, Down(env))
<1>1. /\ Down(env) \in Instances(o) /\ Down(env).phase = "down"
      /\ Down(env).queue = {} /\ Down(env).work = Idle /\ Down(env).server = FALSE
  BY IdleFits DEF Down, Instances
<1> QED
  BY <1>1, IdleFits DEF InstanceFits

\* A step that changes one instance keeps the others as they are.
LEMMA OneInstance ==
  ASSUME InstancesFit, NEW o \in Operators, NEW r, InstanceFits(o, r),
         operators' = [operators EXCEPT ![o] = r]
  PROVE  InstancesFit'
<1>1. DOMAIN operators' = Operators
  BY DEF InstancesFit
<1>2. ASSUME NEW p \in Operators
      PROVE  InstanceFits(p, operators'[p])
  <2>1. operators'[p] = IF p = o THEN r ELSE operators[p]
    BY DEF InstancesFit
  <2> QED
    BY <2>1 DEF InstancesFit
<1> QED
  BY <1>1, <1>2 DEF InstancesFit

LEMMA InitDispatchInv == Init => DispatchInv
<1> SUFFICES ASSUME Init
             PROVE  DispatchInv
  OBVIOUS
<1>1. InstancesFit
  <2>1. ASSUME NEW o \in Operators
        PROVE  InstanceFits(o, operators[o])
    <3>1. (CHOOSE env \in Environments[o] : TRUE) \in Environments[o]
      BY EnvironmentsAssumption
    <3> QED
      BY <3>1, DownFits DEF Init
  <2> QED
    BY <2>1 DEF Init, InstancesFit
<1>2. LabelsFit
  <2>1. PICK named \in SUBSET {NameLabel} :
           labels = [n \in Namespaces |-> IF n = "kube-public" THEN named ELSE {}]
    BY DEF Init
  <2> QED
    BY <2>1 DEF LabelsFit
<1>3. PresetsFit
  BY DispatchAssumption DEF Init, PresetsFit
<1>4. ServicesFit /\ ConfigsFit
  BY DEF Init, ServicesFit, ConfigsFit
<1> QED
  BY <1>1, <1>2, <1>3, <1>4 DEF DispatchInv

(***************************************************************************)
(* The steps of an instance.                                               *)
(***************************************************************************)
\* Another work item for a running instance, and some of what waits.
LEMMA WorkChanges ==
  ASSUME NEW o \in Operators, NEW r, InstanceFits(o, r), r.phase = "running",
         NEW queue \in SUBSET PresetNamespaces,
         \A n \in queue : Watched(r.env) \in {"", n},
         NEW work \in Works,
         \/ work = Idle
         \/ /\ work.pc # "idle"
            /\ work.key \in PresetNamespaces /\ Watched(r.env) \in {"", work.key}
            /\ work.next \in 1..Len(SetupWebhooks(Enabled(r.env)))
            /\ work.pc = "configs" => Watched(r.env) # ""
  PROVE  InstanceFits(o, [r EXCEPT !.queue = queue, !.work = work])
<1> DEFINE s == [r EXCEPT !.queue = queue, !.work = work]
<1>1. r \in Instances(o)
  BY DEF InstanceFits
<1>2. /\ s \in Instances(o) /\ s.phase = "running" /\ s.env = r.env
      /\ s.queue = queue /\ s.work = work
  BY <1>1 DEF Instances
<1> HIDE DEF s
<1>3. WorkFits(s)
  BY <1>2 DEF WorkFits
<1> QED
  BY <1>2, <1>3 DEF InstanceFits, s

LEMMA ContinueKeeps ==
  ASSUME InstancesFit, NEW o \in Operators, operators[o].phase = "running",
         NEW work \in Works, Continue(o, work),
         \/ work = Idle
         \/ /\ work.pc # "idle" /\ work.key \in PresetNamespaces
            /\ Watched(operators[o].env) \in {"", work.key}
            /\ work.next \in 1..Len(SetupWebhooks(Enabled(operators[o].env)))
            /\ work.pc = "configs" => Watched(operators[o].env) # ""
  PROVE  InstancesFit'
<1> DEFINE r == operators[o]
           s == [r EXCEPT !.queue = r.queue, !.work = work]
<1>1. InstanceFits(o, r) /\ r \in Instances(o) /\ r.queue \in SUBSET PresetNamespaces
  BY DEF InstancesFit, InstanceFits, Instances
<1>2. InstanceFits(o, s)
  BY <1>1, WorkChanges DEF InstanceFits
<1>3. s = [r EXCEPT !.work = work]
  BY <1>1 DEF Instances
<1>4. operators' = [operators EXCEPT ![o] = s]
  BY <1>3 DEF Continue, InstancesFit
<1> QED
  BY <1>2, <1>4, OneInstance

\* An instance at work, and its work item.
LEMMA AtWork ==
  ASSUME InstancesFit, NEW o \in Operators, NEW pc, pc # "idle", At(o, pc)
  PROVE  LET r == operators[o]
         IN  /\ r \in Instances(o) /\ r.phase = "running" /\ r.work.pc = pc
             /\ r.work \in Works
             /\ r.work.key \in PresetNamespaces
             /\ Watched(r.env) \in {"", r.work.key}
             /\ r.work.next \in 1..Len(SetupWebhooks(Enabled(r.env)))
             /\ r.work.pc = "configs" => Watched(r.env) # ""
             /\ r.env \in Environments[o]
BY IdleFits DEF At, InstancesFit, InstanceFits, Instances, WorkFits

LEMMA GotoKeeps ==
  ASSUME InstancesFit, NEW o \in Operators,
         NEW pc \in {"public", "label", "service", "configs"}, At(o, pc),
         NEW to \in {"label", "service", "configs"}, Goto(o, to),
         to = "configs" => Watched(operators[o].env) # ""
  PROVE  InstancesFit'
<1> DEFINE work == operators[o].work
           new == [work EXCEPT !.pc = to]
<1>1. /\ work \in Works /\ work.key \in PresetNamespaces
      /\ operators[o].phase = "running"
      /\ Watched(operators[o].env) \in {"", work.key}
      /\ work.next \in 1..Len(SetupWebhooks(Enabled(operators[o].env)))
  BY AtWork
<1>2. new \in Works /\ new.pc = to /\ new.key = work.key /\ new.next = work.next
  BY <1>1 DEF Works
<1>3. Continue(o, new)
  BY DEF Goto
<1> HIDE DEF new, work
<1> QED
  BY <1>1, <1>2, <1>3, ContinueKeeps

LEMMA FailKeeps ==
  ASSUME InstancesFit, NEW o \in Operators, operators[o].phase = "running",
         operators[o].work # Idle, Fail(o)
  PROVE  InstancesFit'
<1> DEFINE r == operators[o]
           queue == r.queue \cup {r.work.key}
           s == [r EXCEPT !.queue = queue, !.work = Idle]
<1>1. /\ InstanceFits(o, r) /\ r \in Instances(o)
      /\ queue \in SUBSET PresetNamespaces
      /\ \A n \in queue : Watched(r.env) \in {"", n}
  BY DEF InstancesFit, InstanceFits, Instances, WorkFits
<1>2. InstanceFits(o, s)
  BY <1>1, IdleFits, WorkChanges
<1>3. operators' = [operators EXCEPT ![o] = s]
  BY DEF Fail, InstancesFit
<1> QED
  BY <1>2, <1>3, OneInstance

LEMMA StartManagerKeeps ==
  ASSUME InstancesFit, NEW o \in Operators, operators[o].phase = "starting",
         NEW server \in BOOLEAN, StartManager(o, server)
  PROVE  InstancesFit'
<1> DEFINE r == operators[o]
           queue == { n \in PresetNamespaces : There(n) /\ Watches(o, n) }
           s == [r EXCEPT !.phase = "running", !.server = server, !.queue = queue]
<1>1. /\ r \in Instances(o) /\ r.work = Idle
      /\ \A n \in queue : Watched(r.env) \in {"", n}
  BY EnvironmentFacts DEF InstancesFit, InstanceFits
<1>2. /\ s \in Instances(o) /\ s.phase = "running" /\ s.queue = queue
      /\ s.env = r.env /\ s.work = Idle
  <2> HIDE DEF queue
  <2>1. queue \in SUBSET PresetNamespaces
    BY DEF queue
  <2> QED
    BY <1>1, <2>1 DEF Instances
<1>3. operators' = [operators EXCEPT ![o] = s]
  BY DEF StartManager, InstancesFit
<1> HIDE DEF s
<1>4. InstanceFits(o, s)
  BY <1>1, <1>2, IdleFits DEF InstanceFits
<1> QED
  BY <1>3, <1>4, OneInstance

LEMMA PodsKeepInstances ==
  ASSUME InstancesFit, NEW o \in Operators,
         CreatePod(o) \/ StartServes(o) \/ StartFails(o) \/ LosePod(o)
  PROVE  InstancesFit'
<1> DEFINE r == operators[o]
<1>0. InstanceFits(o, r) /\ r \in Instances(o)
  BY DEF InstancesFit, InstanceFits
<1>1. CASE CreatePod(o)
  <2>1. PICK env \in Environments[o] :
           operators' = [operators EXCEPT ![o].phase = "starting", ![o].env = env]
    BY <1>1 DEF CreatePod
  <2> DEFINE s == [r EXCEPT !.phase = "starting", !.env = env]
  <2>2. operators' = [operators EXCEPT ![o] = s]
    BY <2>1 DEF InstancesFit
  <2>3. r.phase = "down" /\ r.queue = {} /\ r.work = Idle /\ ~ r.server
    BY <1>0, <1>1 DEF CreatePod, InstanceFits
  <2>4. /\ s \in Instances(o) /\ s.phase = "starting" /\ s.queue = {}
        /\ s.work = Idle /\ ~ s.server
    BY <1>0, <2>3 DEF Instances
  <2> HIDE DEF s
  <2>5. InstanceFits(o, s)
    BY <2>4, IdleFits DEF InstanceFits
  <2> QED
    BY <2>2, <2>5, OneInstance
<1>2. CASE StartServes(o)
  BY <1>2, StartManagerKeeps DEF StartServes
<1>3. CASE StartFails(o)
  BY <1>3, StartManagerKeeps DEF StartFails
<1>4. CASE LosePod(o)
  <2>1. operators' = [operators EXCEPT ![o] = Down(r.env)]
    BY <1>4 DEF LosePod
  <2>2. InstanceFits(o, Down(r.env))
    BY <1>0, DownFits DEF Instances
  <2> QED
    BY <2>1, <2>2, OneInstance
<1> QED
  BY <1>1, <1>2, <1>3, <1>4

LEMMA WorkKeepsInstances ==
  ASSUME InstancesFit, NEW o \in Operators,
         \/ \E n \in PresetNamespaces : StartReconcile(o, n)
         \/ LabelPublic(o) \/ LabelNamespace(o) \/ ReconcileService(o)
         \/ ReconcileWebhook(o) \/ CallFails(o)
  PROVE  InstancesFit'
<1> DEFINE r == operators[o]
<1>0. InstanceFits(o, r) /\ r \in Instances(o)
  BY DEF InstancesFit, InstanceFits
<1>1. ASSUME NEW n \in PresetNamespaces, StartReconcile(o, n)
      PROVE  InstancesFit'
  <2> DEFINE queue == r.queue \ {n}
             work == [pc |-> "public", key |-> n, next |-> 1]
             s == [r EXCEPT !.queue = queue, !.work = work]
  <2>1. /\ n \in r.queue /\ r.phase = "running"
        /\ operators' = [operators EXCEPT ![o] = s]
    BY <1>1 DEF StartReconcile, At, InstancesFit
  <2>2. /\ queue \in SUBSET PresetNamespaces /\ work \in Works
        /\ \A m \in queue : Watched(r.env) \in {"", m}
        /\ Watched(r.env) \in {"", n}
    BY <1>0, <2>1 DEF InstanceFits, Instances, Works
  <2>3. 1 \in 1..Len(SetupWebhooks(Enabled(r.env)))
    BY ListFacts
  <2>4. /\ work.pc = "public" /\ work.key = n /\ work.next = 1
    OBVIOUS
  <2> HIDE DEF work, queue
  <2>5. InstanceFits(o, s)
    BY <1>0, <2>1, <2>2, <2>3, <2>4, WorkChanges
  <2> QED
    BY <2>1, <2>5, OneInstance
<1>2. CASE LabelPublic(o)
  BY <1>2, GotoKeeps DEF LabelPublic
<1>3. CASE LabelNamespace(o)
  BY <1>3, GotoKeeps DEF LabelNamespace
<1>4. CASE ReconcileService(o)
  <2>1. At(o, "service") /\ r.phase = "running" /\ r.work # Idle
    BY <1>4, IdleFits DEF ReconcileService, At
  <2>2. CASE Continue(o, Idle)
    BY <2>1, <2>2, IdleFits, ContinueKeeps
  <2>3. CASE Fail(o)
    BY <2>1, <2>3, FailKeeps
  <2>4. CASE GetWatchNamespace(o) # "" /\ Goto(o, "configs")
    BY <2>1, <2>4, EnvironmentFacts, GotoKeeps
  <2> QED
    BY <1>4, <2>2, <2>3, <2>4 DEF ReconcileService
<1>5. CASE ReconcileWebhook(o)
  <2> DEFINE work == r.work
             new == [work EXCEPT !.next = @ + 1]
  <2>1. /\ r.phase = "running" /\ work \in Works /\ work.pc = "configs"
        /\ work.key \in PresetNamespaces /\ Watched(r.env) \in {"", work.key}
        /\ work.next \in 1..Len(SetupWebhooks(Enabled(r.env)))
        /\ Watched(r.env) # ""
    <3>1. At(o, "configs")
      BY <1>5 DEF ReconcileWebhook
    <3> QED
      BY <3>1, AtWork
  <2>2. CASE Continue(o, Idle)
    BY <2>1, <2>2, IdleFits, ContinueKeeps
  <2>3. CASE work.next < Len(Webhooks(o)) /\ Continue(o, new)
    <3> DEFINE n == Len(SetupWebhooks(Enabled(r.env)))
    <3>0. n \in Nat /\ n = Len(Webhooks(o)) /\ work.next \in 1..n /\ work.next < n
      <4>1. n \in {1, 3}
        BY ListFacts
      <4>2. n = Len(Webhooks(o))
        BY EnvironmentFacts
      <4>3. work.next \in 1..n
        BY <2>1
      <4>4. work.next < Len(Webhooks(o))
        BY <2>3
      <4> HIDE DEF n, work
      <4> QED
        BY <4>1, <4>2, <4>3, <4>4
    <3> HIDE DEF work, n
    <3>1. /\ new \in Works /\ new.pc = "configs" /\ new.key = work.key
          /\ new.next = work.next + 1
      <4>1. work.next + 1 \in Nat
        BY <3>0
      <4> QED
        BY <2>1, <4>1 DEF Works
    <3>2. new.next \in 1..n
      BY <3>0, <3>1
    <3> HIDE DEF new
    <3> USE DEF n
    <3> QED
      BY <2>1, <2>3, <3>1, <3>2, ContinueKeeps
  <2> QED
    BY <1>5, <2>2, <2>3 DEF ReconcileWebhook, Advance
<1>6. CASE CallFails(o)
  BY <1>6, FailKeeps DEF CallFails
<1> QED
  BY <1>1, <1>2, <1>3, <1>4, <1>5, <1>6

\* What waits for an instance is told to it or listed anew.
LEMMA QueueChanges ==
  ASSUME NEW o \in Operators, NEW r, InstanceFits(o, r), r.phase = "running",
         NEW queue \in SUBSET PresetNamespaces,
         \A n \in queue : Watched(r.env) \in {"", n}
  PROVE  InstanceFits(o, [r EXCEPT !.queue = queue])
<1>1. /\ r \in Instances(o) /\ r.work \in Works /\ WorkFits(r)
  BY DEF InstanceFits, Instances
<1>2. [r EXCEPT !.queue = queue] = [r EXCEPT !.queue = queue, !.work = r.work]
  BY <1>1 DEF Instances
<1>3. InstanceFits(o, [r EXCEPT !.queue = queue, !.work = r.work])
  BY <1>1, WorkChanges DEF WorkFits
<1> QED
  BY <1>2, <1>3

LEMMA ChangePresetKeeps ==
  ASSUME InstancesFit, NEW n \in PresetNamespaces, ChangePreset(n)
  PROVE  InstancesFit'
<1>1. operators' = [o \in Operators |->
         IF operators[o].phase = "running" /\ Watches(o, n)
         THEN [operators[o] EXCEPT !.queue = @ \cup {n}] ELSE operators[o]]
  BY DEF ChangePreset, Notify
<1>2. ASSUME NEW o \in Operators
      PROVE  InstanceFits(o, operators'[o])
  <2> DEFINE r == operators[o]
             queue == r.queue \cup {n}
  <2>1. InstanceFits(o, r)
    BY DEF InstancesFit
  <2>2. CASE r.phase = "running" /\ Watches(o, n)
    <3>1. /\ queue \in SUBSET PresetNamespaces
          /\ \A m \in queue : Watched(r.env) \in {"", m}
      BY <2>1, <2>2, EnvironmentFacts DEF InstanceFits, Instances
    <3>2. operators'[o] = [r EXCEPT !.queue = queue]
      BY <1>1, <2>2
    <3> HIDE DEF queue
    <3>3. InstanceFits(o, [r EXCEPT !.queue = queue])
      BY <2>1, <2>2, <3>1, QueueChanges
    <3> QED
      BY <3>2, <3>3
  <2>3. CASE ~ (r.phase = "running" /\ Watches(o, n))
    BY <1>1, <2>1, <2>3
  <2> QED
    BY <2>2, <2>3
<1> QED
  BY <1>1, <1>2 DEF InstancesFit

LEMMA ResyncKeeps ==
  ASSUME InstancesFit, NEW o \in Operators, Resync(o)
  PROVE  InstancesFit'
<1> DEFINE r == operators[o]
           queue == { n \in PresetNamespaces : There(n) /\ Watches(o, n) }
<1>1. InstanceFits(o, r) /\ r.phase = "running"
  BY DEF InstancesFit, Resync, At
<1>2. /\ queue \in SUBSET PresetNamespaces
      /\ \A n \in queue : Watched(r.env) \in {"", n}
  BY EnvironmentFacts
<1>3. operators' = [operators EXCEPT ![o] = [r EXCEPT !.queue = queue]]
  BY DEF Resync, InstancesFit
<1> HIDE DEF queue
<1> QED
  BY <1>1, <1>2, <1>3, QueueChanges, OneInstance

LEMMA InstancesKept == DispatchInv /\ [Next]_vars => InstancesFit'
<1> SUFFICES ASSUME DispatchInv, [Next]_vars
             PROVE  InstancesFit'
  OBVIOUS
<1>0. InstancesFit
  BY DEF DispatchInv
<1>1. ASSUME NEW o \in Operators,
             CreatePod(o) \/ StartServes(o) \/ StartFails(o) \/ LosePod(o)
      PROVE  InstancesFit'
  BY <1>0, <1>1, PodsKeepInstances
<1>2. ASSUME NEW o \in Operators,
             \/ \E n \in PresetNamespaces : StartReconcile(o, n)
             \/ LabelPublic(o) \/ LabelNamespace(o) \/ ReconcileService(o)
             \/ ReconcileWebhook(o) \/ CallFails(o)
      PROVE  InstancesFit'
  BY <1>0, <1>2, WorkKeepsInstances
<1>3. ASSUME NEW n \in PresetNamespaces, ChangePreset(n)
      PROVE  InstancesFit'
  BY <1>0, <1>3, ChangePresetKeeps
<1>4. ASSUME NEW o \in Operators, Resync(o)
      PROVE  InstancesFit'
  BY <1>0, <1>4, ResyncKeeps
<1>5. CASE (\E n \in Namespaces : CollectService(n)) \/ UNCHANGED vars
  <2>1. operators' = operators
    BY <1>5 DEF CollectService, vars
  <2> QED
    BY <1>0, <2>1 DEF InstancesFit
<1> QED
  BY <1>1, <1>2, <1>3, <1>4, <1>5 DEF Next

(***************************************************************************)
(* The objects.                                                            *)
(***************************************************************************)
LEMMA LabelsKept == DispatchInv /\ [Next]_vars => LabelsFit'
<1> SUFFICES ASSUME DispatchInv, [Next]_vars
             PROVE  LabelsFit'
  OBVIOUS
<1>0. LabelsFit /\ ManagedLabel # NameLabel
  BY DEF DispatchInv, ManagedLabel, NameLabel
<1>1. ASSUME NEW o \in Operators, LabelPublic(o)
      PROVE  LabelsFit'
  <2>1. labels' = labels \/ labels' = [labels EXCEPT !["kube-public"] = {NameLabel}]
    BY <1>1 DEF LabelPublic
  <2> QED
    BY <1>0, <2>1 DEF LabelsFit
<1>2. ASSUME NEW o \in Operators, LabelNamespace(o)
      PROVE  LabelsFit'
  <2>1. labels' = [labels EXCEPT ![operators[o].work.key] = @ \cup {ManagedLabel}]
    BY <1>2 DEF LabelNamespace
  <2> QED
    BY <1>0, <2>1 DEF LabelsFit
<1>3. \/ labels' = labels
      \/ \E o \in Operators : LabelPublic(o) \/ LabelNamespace(o)
  BY DEF Next, vars, CreatePod, StartServes, StartFails, LosePod, UnchangedByPods,
     StartReconcile, ReconcileService, ReconcileWebhook, CallFails, ChangePreset,
     Resync, CollectService
<1> QED
  BY <1>0, <1>1, <1>2, <1>3 DEF LabelsFit

LEMMA PresetsKept == DispatchInv /\ [Next]_vars => PresetsFit'
<1> SUFFICES ASSUME DispatchInv, [Next]_vars
             PROVE  PresetsFit'
  OBVIOUS
<1>1. ASSUME NEW n \in PresetNamespaces, ChangePreset(n)
      PROVE  PresetsFit'
  <2>1. presets[n] < MaxChanges /\ presets' = [presets EXCEPT ![n] = @ + 1]
    BY <1>1 DEF ChangePreset
  <2> QED
    BY <2>1, DispatchAssumption DEF DispatchInv, PresetsFit
<1>2. presets' = presets \/ \E n \in PresetNamespaces : ChangePreset(n)
  BY DEF Next, vars, CreatePod, StartServes, StartFails, LosePod, UnchangedByPods,
     UnchangedByWork, StartReconcile, LabelPublic, LabelNamespace,
     ReconcileService, ReconcileWebhook, CallFails, Resync, CollectService
<1> QED
  BY <1>1, <1>2 DEF DispatchInv, PresetsFit

LEMMA ServicesKept == DispatchInv /\ [Next]_vars => ServicesFit'
<1> SUFFICES ASSUME DispatchInv, [Next]_vars
             PROVE  ServicesFit'
  OBVIOUS
<1>0. ServicesFit
  BY DEF DispatchInv
<1>1. ASSUME NEW o \in Operators, StartServes(o)
      PROVE  ServicesFit'
  BY <1>0, <1>1 DEF StartServes, ServicesFit
<1>2. ASSUME NEW o \in Operators, ReconcileService(o)
      PROVE  ServicesFit'
  <2> DEFINE key == operators[o].work.key
             n == GetWatchNamespace(o)
  <2>1. CASE services' = services
    BY <1>0, <2>1 DEF ServicesFit
  <2>2. CASE services' # services
    <3>1. /\ At(o, "service") /\ There(key)
          /\ services' = [services EXCEPT ![n] =
               IF @ = None THEN {Uid(key)} ELSE @ \cup {Uid(key)}]
      BY <1>2, <2>2 DEF ReconcileService
    <3>2. key \in PresetNamespaces
      BY <3>1, AtWork DEF DispatchInv
    <3>3. presets[key] \in 1..MaxChanges
      <4>1. presets[key] \in 0..MaxChanges /\ presets[key] % 2 = 1
        BY <3>1, <3>2 DEF DispatchInv, PresetsFit, There
      <4>2. presets[key] # 0
        BY <4>1
      <4> QED
        BY <4>1, <4>2, DispatchAssumption
    <3>4. Uid(key) \in PresetNamespaces \X (1..MaxChanges)
      BY <3>2, <3>3 DEF Uid
    <3> QED
      BY <1>0, <3>1, <3>4 DEF ServicesFit
  <2> QED
    BY <2>1, <2>2
<1>3. ASSUME NEW n \in Namespaces, CollectService(n)
      PROVE  ServicesFit'
  BY <1>0, <1>3 DEF CollectService, ServicesFit
<1>4. \/ services' = services
      \/ \E o \in Operators : StartServes(o) \/ ReconcileService(o)
      \/ \E n \in Namespaces : CollectService(n)
  BY DEF Next, vars, CreatePod, StartFails, LosePod, StartReconcile, LabelPublic,
     LabelNamespace, ReconcileWebhook, CallFails, ChangePreset, Resync
<1> QED
  BY <1>0, <1>1, <1>2, <1>3, <1>4 DEF ServicesFit

LEMMA ConfigsKept == DispatchInv /\ [Next]_vars => ConfigsFit'
<1> SUFFICES ASSUME DispatchInv, [Next]_vars
             PROVE  ConfigsFit'
  OBVIOUS
<1>0. ConfigsFit
  BY DEF DispatchInv
<1>1. ASSUME NEW o \in Operators, ReconcileWebhook(o)
      PROVE  ConfigsFit'
  <2> DEFINE webhook == Webhooks(o)[operators[o].work.next]
             n == GetWatchNamespace(o)
  <2>1. /\ operators[o].work.next \in 1..Len(Webhooks(o))
        /\ n # "" /\ operators[o].env \in Environments[o]
    <3>1. At(o, "configs")
      BY <1>1 DEF ReconcileWebhook
    <3> QED
      BY <3>1, AtWork, EnvironmentFacts DEF DispatchInv
  <2>2. n \in Namespaces
    BY <2>1, EnvironmentFacts
  <2>3. webhook \in {PodWebhook, OperandRequestWebhook, NsMappingWebhook}
    BY <2>1, ListFacts, EnvironmentFacts
  <2>4. NextConfiguration(o) =
          Configuration(webhook, GetReconciler(webhook.register)[1], n)
    BY DEF NextConfiguration
  <2>5. configs' = [configs EXCEPT ![NextName(o)] = NextConfiguration(o)]
    BY <1>1 DEF ReconcileWebhook
  <2> HIDE DEF webhook, n
  <2>6. ASSUME NEW name \in DOMAIN configs
        PROVE  configs'[name] = configs[name] \/ configs'[name] = NextConfiguration(o)
    BY <2>5
  <2> QED
    BY <1>0, <2>2, <2>3, <2>4, <2>5, <2>6 DEF ConfigsFit
<1>2. configs' = configs \/ \E o \in Operators : ReconcileWebhook(o)
  BY DEF Next, vars, CreatePod, StartServes, StartFails, LosePod, UnchangedByPods,
     StartReconcile, LabelPublic, LabelNamespace, ReconcileService, CallFails,
     ChangePreset, Resync, CollectService
<1> QED
  BY <1>0, <1>1, <1>2 DEF ConfigsFit

LEMMA DispatchInvariance == Spec => []DispatchInv
<1>1. DispatchInv /\ [Next]_vars => DispatchInv'
  BY InstancesKept, LabelsKept, PresetsKept, ServicesKept, ConfigsKept DEF DispatchInv
<1> QED
  BY <1>1, InitDispatchInv, PTL DEF Spec

-----------------------------------------------------------------------------
\* A pod that does not run has no work, what waits is what the instance
\* watches, and a configuration names a watched namespace.
THEOREM DispatchTypeCorrect == Spec => []TypeOK
<1>1. DispatchInv => TypeOK
  <2> SUFFICES ASSUME DispatchInv
               PROVE  TypeOK
    OBVIOUS
  <2>1. ASSUME NEW o \in Operators
        PROVE  LET operator == operators[o]
               IN  /\ operator.phase \in {"down", "starting", "running"}
                   /\ operator.env \in Environments[o]
                   /\ operator.phase # "running" =>
                        operator.queue = {} /\ operator.work = Idle /\ ~ operator.server
                   /\ \A n \in operator.queue : n \in PresetNamespaces /\ Watches(o, n)
                   /\ operator.work.next \in 0..Len(Webhooks(o))
    <3>1. InstanceFits(o, operators[o])
      BY DEF DispatchInv, InstancesFit
    <3>2. operators[o].work.next \in 0..Len(Webhooks(o))
      <4> DEFINE n == Len(Webhooks(o))
      <4>1. n \in Nat /\ n = Len(SetupWebhooks(Enabled(operators[o].env)))
        <5>1. n = Len(SetupWebhooks(Enabled(operators[o].env)))
          BY EnvironmentFacts
        <5>2. Len(SetupWebhooks(Enabled(operators[o].env))) \in {1, 3}
          BY ListFacts
        <5> QED
          BY <5>1, <5>2
      <4> HIDE DEF n
      <4>2. operators[o].work.next = 0 \/ operators[o].work.next \in 1..n
        BY <3>1, <4>1, IdleFits DEF InstanceFits, WorkFits
      <4> QED
        BY <4>1, <4>2 DEF n
    <3> QED
      BY <3>1, <3>2, EnvironmentFacts DEF InstanceFits, Instances
  <2>2. ASSUME NEW name \in DOMAIN configs, configs[name] # None
        PROVE  configs[name].namespace \in Namespaces
    <3>1. PICK webhook \in {PodWebhook, OperandRequestWebhook, NsMappingWebhook} :
            \E n \in Namespaces :
              configs[name] =
                Configuration(webhook, GetReconciler(webhook.register)[1], n)
      BY <2>2 DEF DispatchInv, ConfigsFit
    <3> QED
      BY <3>1 DEF Configuration
  <2> QED
    BY <2>1, <2>2 DEF DispatchInv, LabelsFit, PresetsFit, ServicesFit, TypeOK
<1> QED
  BY <1>1, DispatchInvariance, PTL

\* What makes a webhook fail closed, and which requests it covers.
LEMMA ConfigurationFacts ==
  ASSUME NEW n
  PROVE  /\ Configuration(PodWebhook, GetReconciler(PodWebhook.register)[1], n)
              .failurePolicy = "Ignore"
         /\ Configuration(OperandRequestWebhook,
                          GetReconciler(OperandRequestWebhook.register)[1], n)
              .failurePolicy = "Ignore"
         /\ LET config == Configuration(NsMappingWebhook,
                            GetReconciler(NsMappingWebhook.register)[1], n)
            IN  /\ config.rule.operations = {"CREATE", "UPDATE"}
                /\ config.rule.resource = "configmaps"
                /\ config.selector = {NameLabel}
<1>1. /\ PodWebhook.register.form = "admission"
      /\ PodWebhook.register.type = "Mutating"
  BY DEF PodWebhook, CSWebhook, AdmissionWebhookRegister
<1>2. /\ OperandRequestWebhook.register.form = "admission"
      /\ OperandRequestWebhook.register.type = "Mutating"
  BY DEF OperandRequestWebhook, CSWebhook, AdmissionWebhookRegister
<1>3. ASSUME NEW register, register.form = "admission", register.type = "Mutating"
      PROVE  GetReconciler(register)[1].failurePolicy = "Ignore"
  BY <1>3 DEF GetReconciler, IsObject, MutatingWebhookReconciler
<1>4. CreatesAndUpdates("configmaps").operations = {"CREATE", "UPDATE"}
      /\ CreatesAndUpdates("configmaps").resource = "configmaps"
  BY DEF CreatesAndUpdates, NamespacedScope, For, OneResource, NewRule
<1>5. /\ NsMappingWebhook.rule = CreatesAndUpdates("configmaps")
      /\ NsMappingWebhook.nsSelector = {NameLabel}
  BY DEF NsMappingWebhook, CSWebhook, NameLabel
<1> QED
  BY <1>1, <1>2, <1>3, <1>4, <1>5 DEF Configuration

\* Whoever answers, and whatever lost instances and deleted PodPresets leave
\* behind: only requests to write a configmap in kube-public are ever
\* refused because a webhook cannot be called.
THEOREM OthersPass == Spec => []OnlyMapWritesAreRefused
<1>1. DispatchInv => OnlyMapWritesAreRefused
  <2> SUFFICES ASSUME DispatchInv, NEW request \in Requests, Blocked(request)
               PROVE  /\ request.operation \in {"CREATE", "UPDATE"}
                      /\ request.resource = "configmaps"
                      /\ request.namespace = "kube-public"
    BY DEF OnlyMapWritesAreRefused
  <2>1. PICK name \in DOMAIN configs :
          Matches(configs[name], request) /\ configs[name].failurePolicy = "Fail"
    BY DEF Blocked
  <2> DEFINE config == configs[name]
  <2>2. /\ config # None
        /\ config.rule.operations \cap {request.operation, "*"} # {}
        /\ config.rule.resource = request.resource
        /\ config.selector \subseteq labels[request.namespace]
    BY <2>1 DEF Matches, Covers
  <2>3. PICK webhook \in {PodWebhook, OperandRequestWebhook, NsMappingWebhook} :
          \E n \in Namespaces :
            config = Configuration(webhook, GetReconciler(webhook.register)[1], n)
    BY <2>2 DEF DispatchInv, ConfigsFit
  <2>4. PICK n \in Namespaces :
          config = Configuration(webhook, GetReconciler(webhook.register)[1], n)
    BY <2>3
  <2>5. webhook = NsMappingWebhook
    BY <2>1, <2>3, <2>4, ConfigurationFacts
  <2>6. /\ config.rule.operations = {"CREATE", "UPDATE"}
        /\ config.rule.resource = "configmaps" /\ config.selector = {NameLabel}
    BY <2>4, <2>5, ConfigurationFacts
  <2>7. request.namespace \in Namespaces
    BY DEF Requests
  <2> HIDE DEF config
  <2>8. NameLabel \in labels[request.namespace]
    BY <2>2, <2>6
  <2> QED
    BY <2>2, <2>6, <2>7, <2>8 DEF DispatchInv, LabelsFit
<1> QED
  BY <1>1, DispatchInvariance, PTL
=============================================================================
