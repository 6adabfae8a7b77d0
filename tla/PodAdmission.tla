---------------------------- MODULE PodAdmission ----------------------------
(***************************************************************************)
(* Pods on their way through the pod webhook.  The API server keeps pods   *)
(* and PodPresets; the operator reads presets from its informer cache,     *)
(* which lags the API server.  A create or an update of a pod is sent to   *)
(* Handle (pkg/controller/podpreset/handler.go), which lists the cache     *)
(* once and answers with a mutated pod; the API server then stores the     *)
(* answer or, for an update, refuses it when the pod's spec would change.  *)
(*                                                                         *)
(* The manager's cache is restricted to the watch namespace (main.go), so  *)
(* every preset lives there; pods come from any namespace.                 *)
(***************************************************************************)
EXTENDS PodPresetMerge

CONSTANTS
  Pods,            \* names of pods
  WatchNamespace,  \* the namespace the operator runs in and watches
  Specs,           \* PodPreset specs users write
  Templates,       \* pods users create, as they reach the webhook
  MaxWrites,       \* bound on the writes to PodPresets
  NoPod            \* no such pod

VARIABLES
  log,      \* log[rv] is the write to a preset that got resourceVersion rv
  presets,  \* presets[n] is the resourceVersion of preset n, 0 when absent
  cache,    \* the same, as the operator's informer last saw it
  pods,     \* pods[q] is the stored pod or NoPod
  req       \* req[q] is the request for pod q that is in flight

vars == <<log, presets, cache, pods, req>>

Idle == [phase |-> "idle", op |-> "none", obj |-> NoPod, patched |-> NoPod,
         error |-> "none"]

ASSUME ConstantsAssumption ==
  /\ MaxWrites \in Nat
  /\ IsFiniteSet(PresetNames)
  /\ WatchNamespace \in Namespaces
  /\ Specs \subseteq PodPresetSpec
  /\ Templates \subseteq Pod
  /\ \A t \in Templates : t.presets = [n \in PresetNames |-> 0]
  /\ NoPod \notin Pod

-----------------------------------------------------------------------------
\* Presets in these versions, as the objects List returns.
Listed(versions) ==
  { [name            |-> n,
     namespace       |-> WatchNamespace,
     resourceVersion |-> versions[n],
     spec            |-> log[versions[n]].spec] :
    n \in { m \in PresetNames : versions[m] # 0 } }

\* The presets the informer holds.
Cached == Listed(cache)

\* What the API server will not let an update change.
PodSpec(pod) ==
  <<pod.volumes, pod.dnsPolicy, pod.dnsOptions, pod.containers>>

-----------------------------------------------------------------------------
Init ==
  /\ log = <<>>
  /\ presets = [n \in PresetNames |-> 0]
  /\ cache = [n \in PresetNames |-> 0]
  /\ pods = [q \in Pods |-> NoPod]
  /\ req = [q \in Pods |-> Idle]

\* A user creates or replaces a preset.
WritePreset(n, s) ==
  /\ Len(log) < MaxWrites
  /\ log' = Append(log, [name |-> n, spec |-> s])
  /\ presets' = [presets EXCEPT ![n] = Len(log) + 1]
  /\ UNCHANGED <<cache, pods, req>>

DeletePreset(n) ==
  /\ presets[n] # 0
  /\ presets' = [presets EXCEPT ![n] = 0]
  /\ UNCHANGED <<log, cache, pods, req>>

\* The informer catches up with the watch events it has received.
SyncCache ==
  /\ cache # presets
  /\ cache' = presets
  /\ UNCHANGED <<log, presets, pods, req>>

\* A user creates a pod, or updates the metadata of a stored one: its labels
\* and the annotation that excludes it.
SubmitCreate(q, t) ==
  /\ req[q].phase = "idle"
  /\ pods[q] = NoPod
  /\ req' = [req EXCEPT ![q] = [phase |-> "submitted", op |-> "CREATE",
                                obj |-> t, patched |-> NoPod,
                                error |-> "none"]]
  /\ UNCHANGED <<log, presets, cache, pods>>

SubmitUpdate(q, labels, exclude) ==
  /\ req[q].phase = "idle"
  /\ pods[q] # NoPod
  /\ req' = [req EXCEPT ![q] =
               [phase   |-> "submitted", op |-> "UPDATE",
                obj     |-> [pods[q] EXCEPT !.labels = labels,
                                            !.exclude = exclude],
                patched |-> NoPod,
                error   |-> "none"]]
  /\ UNCHANGED <<log, presets, cache, pods>>

\* Mutant: presets that the cache lacks are read from the API server.
HandleTornList(q) ==
  /\ req[q].phase = "submitted"
  /\ \E list \in SetToSeqs(Listed([n \in PresetNames |->
                              IF cache[n] = 0 THEN presets[n] ELSE cache[n]])) :
       LET obj == req[q].obj
       IN  req' = [req EXCEPT ![q] =
             IF MutateFails(obj, list, obj.namespace)
             THEN [@ EXCEPT !.phase = "denied", !.error = "filtering"]
             ELSE [@ EXCEPT !.phase = "answered",
                            !.patched = mutatePodsFn(obj, list, obj.namespace)]]
  /\ UNCHANGED <<log, presets, cache, pods>>

\* Handle: List reads the cache once, in the order of a map iteration, and
\* the rest of the call works on that list and on its copy of the pod.  The
\* namespace is the request's, which is the pod's.
Handle(q) ==
  /\ req[q].phase = "submitted"
  /\ \E list \in SetToSeqs(Cached) :
       LET obj == req[q].obj
       IN  req' = [req EXCEPT ![q] =
             IF MutateFails(obj, list, obj.namespace)
             THEN [@ EXCEPT !.phase = "denied", !.error = "filtering"]
             ELSE [@ EXCEPT !.phase = "answered",
                            !.patched = mutatePodsFn(obj, list, obj.namespace)]]
  /\ UNCHANGED <<log, presets, cache, pods>>

\* The list cannot be read: an error, unless the pod was exempt before that.
ListFails(q) ==
  /\ req[q].phase = "submitted"
  /\ ~ Exempt(req[q].obj)
  /\ req' = [req EXCEPT ![q].phase = "denied", ![q].error = "listing"]
  /\ UNCHANGED <<log, presets, cache, pods>>

\* Mutant: the unmodified object is not carried on.
CallLost(q) ==
  /\ req[q].phase = "submitted"
  /\ req' = [req EXCEPT ![q].phase = "answered"]
  /\ UNCHANGED <<log, presets, cache, pods>>

\* The webhook cannot be reached or takes over ten seconds: the failure
\* policy of the mutating webhook is Ignore, the object goes on unmodified.
CallIgnored(q) ==
  /\ req[q].phase = "submitted"
  /\ req' = [req EXCEPT ![q].phase = "answered", ![q].patched = req[q].obj]
  /\ UNCHANGED <<log, presets, cache, pods>>

\* The API server stores the answer.
Store(q) ==
  /\ req[q].phase = "answered"
  /\ req[q].op = "UPDATE" => PodSpec(req[q].patched) = PodSpec(pods[q])
  /\ pods' = [pods EXCEPT ![q] = req[q].patched]
  /\ req' = [req EXCEPT ![q] = Idle]
  /\ UNCHANGED <<log, presets, cache>>

\* The API server refuses it: denied by the webhook, or an update that would
\* change the spec of a running pod.
Refuse(q) ==
  /\ \/ req[q].phase = "denied"
     \/ /\ req[q].phase = "answered"
        /\ req[q].op = "UPDATE"
        /\ PodSpec(req[q].patched) # PodSpec(pods[q])
  /\ req' = [req EXCEPT ![q] = Idle]
  /\ UNCHANGED <<log, presets, cache, pods>>

Next ==
  \/ \E n \in PresetNames, s \in Specs : WritePreset(n, s)
  \/ \E n \in PresetNames : DeletePreset(n)
  \/ SyncCache
  \/ \E q \in Pods, t \in Templates : SubmitCreate(q, t)
  \/ \E q \in Pods, labels \in SUBSET Labels, exclude \in BOOLEAN :
        SubmitUpdate(q, labels, exclude)
  \/ \E q \in Pods : Handle(q)
  \/ \E q \in Pods : ListFails(q)
  \/ \E q \in Pods : CallIgnored(q)
  \/ \E q \in Pods : Store(q)
  \/ \E q \in Pods : Refuse(q)

Spec == Init /\ [][Next]_vars

-----------------------------------------------------------------------------
(***************************************************************************)
(* Type correctness.                                                       *)
(***************************************************************************)
IsRequest(r) ==
  /\ r \in [phase   : {"idle", "submitted", "answered", "denied"},
            op      : {"none", "CREATE", "UPDATE"},
            obj     : Pod \cup {NoPod},
            patched : Pod \cup {NoPod},
            error   : {"none", "listing", "filtering"}]
  /\ r.phase # "idle" => r.obj \in Pod /\ r.op # "none"
  /\ r.phase = "answered" => r.patched \in Pod

TypeOK ==
  /\ log \in Seq([name : PresetNames, spec : Specs])
  /\ presets \in [PresetNames -> 0..Len(log)]
  /\ cache \in [PresetNames -> 0..Len(log)]
  /\ \A n \in PresetNames : \A rv \in {presets[n], cache[n]} \ {0} :
        log[rv].name = n
  /\ pods \in [Pods -> Pod \cup {NoPod}]
  /\ DOMAIN req = Pods /\ \A q \in Pods : IsRequest(req[q])

-----------------------------------------------------------------------------
(***************************************************************************)
(* What a pod that went through the webhook can be relied on for.          *)
(***************************************************************************)
Within(list, other) == ToSet(list) \subseteq ToSet(other)

\* The pod has everything the preset injects.
Carries(pod, spec) ==
  /\ Within(spec.volumes, pod.volumes)
  /\ \A i \in DOMAIN pod.containers :
        /\ Within(spec.env, pod.containers[i].env)
        /\ Within(spec.volumeMounts, pod.containers[i].volumeMounts)
        /\ Within(spec.envFrom, pod.containers[i].envFrom)
  /\ pod.dnsPolicy = "ClusterFirst" => DnsOption \in ToSet(pod.dnsOptions)

\* The presets its annotations name.
Recorded(pod) == { n \in PresetNames : pod.presets[n] # 0 }

\* What the annotations of the pod say of it is true.
RecordIsTrue(pod) ==
  \A n \in Recorded(pod) :
    LET rv == pod.presets[n]
    IN  /\ rv \in DOMAIN log
        /\ log[rv].name = n
        /\ Carries(pod, log[rv].spec)

\* A pod on its way: stored, submitted, or answered.
PodsOf(q) == {pods[q], req[q].obj, req[q].patched} \ {NoPod}

\* A pod annotated with version rv of preset n has all of what that version
\* of n injects, in its volumes and in every container, however stale the
\* cache was, whatever conflicted and however often the pod was updated
\* (applyPodPresetsOnPod drops the errors of the merges, and annotates last).
AnnotatedPodsCarryPresets ==
  \A q \in Pods : \A pod \in PodsOf(q) : RecordIsTrue(pod)

\* Every list of patched is the list of obj, perhaps with more after it.
ExtendsPod(patched, obj) ==
  /\ IsPrefix(obj.volumes, patched.volumes)
  /\ IsPrefix(obj.dnsOptions, patched.dnsOptions)
  /\ DOMAIN patched.containers = DOMAIN obj.containers
  /\ \A i \in DOMAIN obj.containers :
        LET old == obj.containers[i]
            new == patched.containers[i]
        IN  /\ IsPrefix(old.env, new.env)
            /\ IsPrefix(old.volumeMounts, new.volumeMounts)
            /\ IsPrefix(old.envFrom, new.envFrom)

Answered(q) == req[q].phase = "answered"

\* Nothing the author of a pod wrote is lost, reordered or replaced by the
\* webhook: every list of the answer begins with the author's list (an
\* ignored merge error would leave a nil list).
AuthorEntriesSurvive ==
  \A q \in Pods : Answered(q) => ExtendsPod(req[q].patched, req[q].obj)

AddedFrom(list, own, pod, field) ==
  \A x \in ToSet(list) \ ToSet(own) :
    \E n \in Recorded(pod) : x \in ToSet(log[pod.presets[n]].spec[field])

\* Whatever the webhook added to a pod comes from a preset version that the
\* annotations of the answer name: from them alone one can tell why a pod
\* has an entry its author did not write.
EveryChangeIsRecorded ==
  \A q \in Pods : Answered(q) =>
    LET obj == req[q].obj
        patched == req[q].patched
    IN  /\ AddedFrom(patched.volumes, obj.volumes, patched, "volumes")
        /\ \A i \in DOMAIN patched.containers,
              field \in {"env", "volumeMounts", "envFrom"} :
              AddedFrom(patched.containers[i][field], obj.containers[i][field],
                        patched, field)
        /\ patched # obj => Recorded(patched) # {}

\* What the API server's validation asks of a pod that the webhook could
\* break: no two volumes of one name, no two mounts of a container on one
\* path, no mount of a volume the pod does not have.
Unique(list, key) ==
  \A i, j \in DOMAIN list : list[i][key] = list[j][key] => i = j

ValidPod(pod) ==
  /\ Unique(pod.volumes, "name")
  /\ \A c \in ToSet(pod.containers) :
        /\ Unique(c.volumeMounts, "path")
        /\ \A m \in ToSet(c.volumeMounts) : Has(pod.volumes, "name", m.name)

\* A preset that mounts only volumes it brings along.
SelfContained(spec) ==
  \A m \in ToSet(spec.volumeMounts) : Has(spec.volumes, "name", m.name)

\* A valid pod stays valid on its way through the webhook as long as users
\* write self-contained presets, also when a preset mounts one volume twice
\* or two volumes on one path (mergeVolumeMounts appends to the list before
\* it looks at the path).
PodsStayValid ==
  \A q \in Pods :
    (/\ Answered(q)
     /\ ValidPod(req[q].obj)
     /\ \A rv \in DOMAIN log : SelfContained(log[rv].spec))
    => ValidPod(req[q].patched)

\* The webhook also sees updates (main.go, ForUpdate), and a change it makes
\* to the spec of a running pod makes the API server refuse the update.  It
\* does that only when some preset has something the pod does not carry yet,
\* or has an envFrom source, which is appended again and again.
BlockedUpdateHasCause ==
  \A q \in Pods :
    LET obj == req[q].obj
    IN  (/\ Answered(q)
         /\ req[q].op = "UPDATE"
         /\ PodSpec(req[q].patched) # PodSpec(obj))
        => /\ ~ Exempt(obj)
           /\ \E rv \in DOMAIN log :
                 log[rv].spec.envFrom # <<>> \/ ~ Carries(obj, log[rv].spec)

\* The webhook refuses a pod for its presets only if it is not exempt and
\* somebody wrote a malformed selector in the pod's own namespace: a broken
\* preset does not keep other namespaces from starting pods.
DenialHasCause ==
  \A q \in Pods :
    req[q].phase = "denied" =>
      /\ ~ Exempt(req[q].obj)
      /\ req[q].error = "filtering" =>
           /\ req[q].obj.namespace = WatchNamespace
           /\ \E rv \in DOMAIN log : log[rv].spec.selector = Malformed

-----------------------------------------------------------------------------
(***************************************************************************)
(* What the comments and the documentation say and the code does not do.   *)
(***************************************************************************)

\* "filterPodPresets returns list of PodPresets which match given Pod": a
\* preset the webhook records in a new pod selects that pod.
OnlyMatchingPresetsApplied ==
  \A q \in Pods :
    (Answered(q) /\ req[q].op = "CREATE") =>
      \A n \in Recorded(req[q].patched) :
        Selects(log[req[q].patched.presets[n]].spec.selector, req[q].obj.labels)
=============================================================================
