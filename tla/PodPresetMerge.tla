--------------------------- MODULE PodPresetMerge ---------------------------
(***************************************************************************)
(* What the pod webhook computes: which PodPresets it selects for a pod,   *)
(* whether they can be merged into it, and the pod it answers with         *)
(* (pkg/controller/podpreset/handler.go).                                  *)
(*                                                                         *)
(*   entry     an env variable or a volume [name, val], or a volume mount  *)
(*             [name, path]; an envFrom source is an opaque value          *)
(*   preset    [name, namespace, resourceVersion, spec]                    *)
(*   pod       its mirror and exclude stand for the two annotations that   *)
(*             exempt a pod; presets maps the name of a preset to the      *)
(*             resourceVersion recorded in the annotations, 0 when none is *)
(*                                                                         *)
(* Every list keeps its order and its duplicates: both decide which entry  *)
(* a merge compares with.                                                  *)
(***************************************************************************)
EXTENDS Integers, Sequences, FiniteSets, SequencesExt

CONSTANTS
  EnvVars, Volumes, VolumeMounts, EnvSources,  \* the entries there can be
  DnsOptions,  \* the DNS resolver options there can be
  Labels,      \* the labels a pod can carry and a selector can ask for
  Namespaces,  \* the namespaces a pod can be in
  PresetNames, \* the names a PodPreset can have
  Everything,  \* the empty selector: matches every pod
  Malformed,   \* a selector LabelSelectorAsSelector cannot convert
  DnsOption    \* {Name: "single-request-reopen"}

ASSUME DnsAssumption == DnsOption \in DnsOptions

-----------------------------------------------------------------------------
(***************************************************************************)
(* The parts of the two resources that admission looks at.                 *)
(***************************************************************************)
PodPresetSpec ==
  [selector     : Labels \cup {Everything, Malformed},
   env          : Seq(EnvVars),
   envFrom      : Seq(EnvSources),
   volumes      : Seq(Volumes),
   volumeMounts : Seq(VolumeMounts)]

PodPreset ==
  [name            : PresetNames,
   namespace       : Namespaces,
   resourceVersion : Nat,
   spec            : PodPresetSpec]

Container ==
  [env          : Seq(EnvVars),
   envFrom      : Seq(EnvSources),
   volumeMounts : Seq(VolumeMounts)]

Pod ==
  [namespace  : Namespaces,
   labels     : SUBSET Labels,
   mirror     : BOOLEAN,
   exclude    : BOOLEAN,
   presets    : [PresetNames -> Nat],
   dnsPolicy  : {"ClusterFirst", "Default"},
   dnsOptions : Seq(DnsOptions),
   volumes    : Seq(Volumes),
   containers : Seq(Container)]

-----------------------------------------------------------------------------
(***************************************************************************)
(* Merging the entries of presets into a list.  The code indexes the list  *)
(* in maps (by name, for mounts also by mount path) that it fills from the *)
(* list and then from what it appends, later entries replacing earlier     *)
(* ones.  As long as no conflict is met the map holds for each key the     *)
(* last entry of the merged list with that key, which is how it is written *)
(* here; after a conflict the result is an error whatever the maps hold.   *)
(***************************************************************************)
Has(list, key, x) == \E i \in DOMAIN list : list[i][key] = x

LastWith(list, key, x) ==
  list[CHOOSE i \in DOMAIN list :
         /\ list[i][key] = x
         /\ \A j \in DOMAIN list : list[j][key] = x => j <= i]

Conflicts(list, keys, v) ==
  \E key \in keys : Has(list, key, v[key]) /\ LastWith(list, key, v[key]) # v

MergeEntry(acc, keys, v) ==
  [err  |-> acc.err \/ Conflicts(acc.list, keys, v),
   list |-> IF Has(acc.list, "name", v.name) THEN acc.list
                                             ELSE Append(acc.list, v)]

\* The loop over the injected entries, after i of them.
MergeRun(own, keys, add) ==
  LET run[i \in 0..Len(add)] ==
        IF i = 0 THEN [err |-> FALSE, list |-> own]
                 ELSE MergeEntry(run[i-1], keys, add[i])
  IN  run

\* A conflict anywhere makes the result an error and a nil list.
MergeEntries(own, keys, add) ==
  LET res == MergeRun(own, keys, add)[Len(add)]
  IN  IF res.err THEN [err |-> TRUE, list |-> <<>>] ELSE res

\* What the given presets inject in one field, in the order of the loops.
Injected(pps, field) == FlattenSeq([k \in DOMAIN pps |-> pps[k].spec[field]])

mergeEnv(envVars, pps) == MergeEntries(envVars, {"name"}, Injected(pps, "env"))

mergeVolumes(volumes, pps) ==
  MergeEntries(volumes, {"name"}, Injected(pps, "volumes"))

\* Mutant: mounts are indexed by the volume's name only.
MergeMountsByName(mounts, pps) ==
  MergeEntries(mounts, {"name"}, Injected(pps, "volumeMounts"))

mergeVolumeMounts(mounts, pps) ==
  MergeEntries(mounts, {"name", "path"}, Injected(pps, "volumeMounts"))

\* Appended without looking for duplicates.
mergeEnvFrom(sources, pps) == sources \o Injected(pps, "envFrom")

-----------------------------------------------------------------------------
(***************************************************************************)
(* Selecting.                                                              *)
(***************************************************************************)
Selects(selector, labels) == selector = Everything \/ selector \in labels

\* Mutant: selectors are converted before the namespace is compared.
AnySelectorFails(list, namespace) ==
  \E i \in DOMAIN list : list[i].spec.selector = Malformed

\* A selector of the namespace that cannot be converted fails the whole call.
FilterFails(list, namespace) ==
  \E i \in DOMAIN list : /\ list[i].namespace = namespace
                         /\ list[i].spec.selector = Malformed

\* One pointer per match, but every pointer is the address of the loop's
\* single variable pp (go 1.19), which after the loop holds the last item.
filterPodPresets(list, pod, namespace) ==
  LET matches == { i \in DOMAIN list :
                     /\ list[i].namespace = namespace
                     /\ Selects(list[i].spec.selector, pod.labels) }
  IN  [k \in 1..Cardinality(matches) |-> list[Len(list)]]

-----------------------------------------------------------------------------
(***************************************************************************)
(* Checking and applying.                                                  *)
(***************************************************************************)
\* Mutant: the mounts of a container are not checked.
SafeEnvOnly(ctr, pps) == ~ mergeEnv(ctr.env, pps).err

safeToApplyPodPresetsOnContainer(ctr, pps) ==
  /\ ~ mergeEnv(ctr.env, pps).err
  /\ ~ mergeVolumeMounts(ctr.volumeMounts, pps).err

safeToApplyPodPresetsOnPod(pod, pps) ==
  /\ ~ mergeVolumes(pod.volumes, pps).err
  /\ \A i \in DOMAIN pod.containers :
        safeToApplyPodPresetsOnContainer(pod.containers[i], pps)

\* The errors of the merges are dropped here: a conflict would leave nil.
applyPodPresetsOnContainer(ctr, pps) ==
  [env          |-> mergeEnv(ctr.env, pps).list,
   volumeMounts |-> mergeVolumeMounts(ctr.volumeMounts, pps).list,
   envFrom      |-> mergeEnvFrom(ctr.envFrom, pps)]

\* Mutant: the option is appended whether or not it is there.
ReopenAlways(pod) ==
  IF pod.dnsPolicy = "ClusterFirst" THEN Append(pod.dnsOptions, DnsOption)
                                    ELSE pod.dnsOptions

ReopenOption(pod) ==
  IF pod.dnsPolicy = "ClusterFirst" /\ DnsOption \notin ToSet(pod.dnsOptions)
  THEN Append(pod.dnsOptions, DnsOption)
  ELSE pod.dnsOptions

\* Mutant: an annotation that is there is not renewed.
RecordOnce(recorded, pps) ==
  [n \in PresetNames |->
     IF recorded[n] = 0 /\ Has(pps, "name", n)
     THEN LastWith(pps, "name", n).resourceVersion
     ELSE recorded[n]]

RecordPresets(recorded, pps) ==
  [n \in PresetNames |->
     IF Has(pps, "name", n) THEN LastWith(pps, "name", n).resourceVersion
                            ELSE recorded[n]]

\* Mutant: the containers changed are the loop's copies, never stored back.
ApplyToCopies(pod, pps) ==
  [pod EXCEPT
     !.volumes    = mergeVolumes(pod.volumes, pps).list,
     !.dnsOptions = ReopenOption(pod),
     !.presets    = RecordPresets(pod.presets, pps)]

applyPodPresetsOnPod(pod, pps) ==
  [pod EXCEPT
     !.volumes    = mergeVolumes(pod.volumes, pps).list,
     !.dnsOptions = ReopenOption(pod),
     !.containers = [i \in DOMAIN pod.containers |->
                       applyPodPresetsOnContainer(pod.containers[i], pps)],
     !.presets    = RecordPresets(pod.presets, pps)]

-----------------------------------------------------------------------------
Exempt(pod) == pod.mirror \/ pod.exclude

\* Whether mutatePodsFn returns an error once the list has been read.
MutateFails(pod, list, namespace) ==
  ~ Exempt(pod) /\ FilterFails(list, namespace)

\* The pod it leaves behind when it does not: unchanged when exempt, when
\* nothing matches, and when anything in any container conflicts.
mutatePodsFn(pod, list, namespace) ==
  LET pps == filterPodPresets(list, pod, namespace)
  IN  IF \/ Exempt(pod)
         \/ pps = <<>>
         \/ ~ safeToApplyPodPresetsOnPod(pod, pps)
      THEN pod
      ELSE applyPodPresetsOnPod(pod, pps)
=============================================================================
