------------------------- MODULE PodAdmissionProofs -------------------------
(***************************************************************************)
(* Theorems about PodAdmission, for every set of pods, presets and specs:  *)
(* its types, its annotations, the author's entries; then, from a second   *)
(* invariant, what Handle answers and why; and last, with a history of the *)
(* presets, that it implements AtomicAdmission.                            *)
(***************************************************************************)
EXTENDS PodAdmissionHistory, PodPresetMergeFacts

(***************************************************************************)
(* What applying presets to a pod does.                                    *)
(***************************************************************************)
\* r is the pod with more in it and whatever preset c injects.
Richer(r, pod) ==
  /\ r \in Pod
  /\ ExtendsPod(r, pod)
  /\ r.dnsPolicy = pod.dnsPolicy

LEMMA PrefixWithin ==
  ASSUME NEW S, NEW own \in Seq(S), NEW list \in Seq(S), IsPrefix(own, list)
  PROVE  Within(own, list)
<1>1. /\ Len(own) \in Nat /\ Len(list) \in Nat /\ Len(own) <= Len(list)
      /\ DOMAIN own = 1..Len(own) /\ DOMAIN list = 1..Len(list)
      /\ SubSeq(own, 1, Len(own)) = SubSeq(list, 1, Len(own))
  BY DEF IsPrefix
<1>2. ASSUME NEW i \in DOMAIN own
      PROVE  own[i] = list[i] /\ i \in DOMAIN list
  <2>1. SubSeq(own, 1, Len(own))[i] = own[i]
    BY <1>1
  <2>2. SubSeq(list, 1, Len(own))[i] = list[i]
    BY <1>1
  <2> QED
    BY <1>1, <2>1, <2>2
<1> QED
  BY <1>2 DEF Within, ToSet

LEMMA RicherItself ==
  ASSUME NEW pod \in Pod
  PROVE  Richer(pod, pod)
<1>1. /\ pod.volumes \in Seq(Volumes) /\ pod.dnsOptions \in Seq(DnsOptions)
      /\ \A i \in DOMAIN pod.containers : pod.containers[i] \in Container
  BY DEF Pod
<1>2. ASSUME NEW i \in DOMAIN pod.containers
      PROVE  /\ pod.containers[i].env \in Seq(EnvVars)
             /\ pod.containers[i].volumeMounts \in Seq(VolumeMounts)
             /\ pod.containers[i].envFrom \in Seq(EnvSources)
  BY <1>1 DEF Container
<1>3. ExtendsPod(pod, pod)
  BY <1>1, <1>2, PrefixOfItself DEF ExtendsPod
<1> QED
  BY <1>3 DEF Richer

\* What a pod carries it still carries when its lists have grown.
LEMMA CarriesRicher ==
  ASSUME NEW pod \in Pod, NEW r, Richer(r, pod), NEW spec, Carries(pod, spec)
  PROVE  Carries(r, spec)
<1>1. /\ r \in Pod /\ ExtendsPod(r, pod) /\ r.dnsPolicy = pod.dnsPolicy
  BY DEF Richer
<1>2. /\ pod.volumes \in Seq(Volumes) /\ r.volumes \in Seq(Volumes)
      /\ pod.dnsOptions \in Seq(DnsOptions) /\ r.dnsOptions \in Seq(DnsOptions)
      /\ pod.containers \in Seq(Container) /\ r.containers \in Seq(Container)
  BY <1>1 DEF Pod
<1>3. Within(pod.volumes, r.volumes) /\ Within(pod.dnsOptions, r.dnsOptions)
  BY <1>1, <1>2, PrefixWithin DEF ExtendsPod
<1>4. ASSUME NEW i \in DOMAIN r.containers
      PROVE  /\ i \in DOMAIN pod.containers
             /\ Within(pod.containers[i].env, r.containers[i].env)
             /\ Within(pod.containers[i].volumeMounts, r.containers[i].volumeMounts)
             /\ Within(pod.containers[i].envFrom, r.containers[i].envFrom)
  <2> DEFINE old == pod.containers[i]
             new == r.containers[i]
  <2>1. i \in DOMAIN pod.containers
    BY <1>1 DEF ExtendsPod
  <2>2. old \in Container /\ new \in Container
    BY <1>2, <2>1
  <2>3. /\ old.env \in Seq(EnvVars) /\ new.env \in Seq(EnvVars)
        /\ old.envFrom \in Seq(EnvSources) /\ new.envFrom \in Seq(EnvSources)
        /\ old.volumeMounts \in Seq(VolumeMounts)
        /\ new.volumeMounts \in Seq(VolumeMounts)
    BY <2>2 DEF Container
  <2>4. /\ IsPrefix(old.env, new.env) /\ IsPrefix(old.envFrom, new.envFrom)
        /\ IsPrefix(old.volumeMounts, new.volumeMounts)
    BY <1>1, <2>1 DEF ExtendsPod
  <2> HIDE DEF old, new
  <2>5. /\ Within(old.env, new.env) /\ Within(old.envFrom, new.envFrom)
        /\ Within(old.volumeMounts, new.volumeMounts)
    BY <2>3, <2>4, PrefixWithin
  <2> QED
    BY <2>1, <2>5 DEF old, new
<1> QED
  BY <1>1, <1>3, <1>4 DEF Carries, Within

LEMMA ContainerFacts ==
  ASSUME NEW ctr \in Container, NEW pps \in Seq(PodPreset),
         safeToApplyPodPresetsOnContainer(ctr, pps)
  PROVE  LET r == applyPodPresetsOnContainer(ctr, pps)
         IN  /\ r \in Container
             /\ IsPrefix(ctr.env, r.env)
             /\ IsPrefix(ctr.volumeMounts, r.volumeMounts)
             /\ IsPrefix(ctr.envFrom, r.envFrom)
             /\ \A k \in DOMAIN pps :
                  /\ Within(pps[k].spec.env, r.env)
                  /\ Within(pps[k].spec.volumeMounts, r.volumeMounts)
                  /\ Within(pps[k].spec.envFrom, r.envFrom)
<1> DEFINE e == mergeEnv(ctr.env, pps)
           m == mergeVolumeMounts(ctr.volumeMounts, pps)
           f == mergeEnvFrom(ctr.envFrom, pps)
<1>1. /\ ctr.env \in Seq(EnvVars) /\ ctr.envFrom \in Seq(EnvSources)
      /\ ctr.volumeMounts \in Seq(VolumeMounts)
  BY DEF Container
<1>2. MergedInto(EnvVars, ctr.env, Injected(pps, "env"), e)
  BY <1>1, EnvFacts
<1>3. MergedInto(VolumeMounts, ctr.volumeMounts, Injected(pps, "volumeMounts"), m)
  BY <1>1, VolumeMountsFacts
<1>4. /\ f \in Seq(EnvSources) /\ IsPrefix(ctr.envFrom, f)
      /\ ToSet(f) = ToSet(ctr.envFrom) \cup ToSet(Injected(pps, "envFrom"))
  BY <1>1, EnvFromFacts
<1>5. ~ e.err /\ ~ m.err
  BY DEF safeToApplyPodPresetsOnContainer
<1>6. ASSUME NEW k \in DOMAIN pps
      PROVE  /\ ToSet(pps[k].spec["env"]) \subseteq ToSet(Injected(pps, "env"))
             /\ ToSet(pps[k].spec["volumeMounts"])
                  \subseteq ToSet(Injected(pps, "volumeMounts"))
             /\ ToSet(pps[k].spec["envFrom"])
                  \subseteq ToSet(Injected(pps, "envFrom"))
  BY SpecLists, InjectedFacts
<1>7. applyPodPresetsOnContainer(ctr, pps)
        = [env |-> e.list, volumeMounts |-> m.list, envFrom |-> f]
  BY DEF applyPodPresetsOnContainer
<1> HIDE DEF e, m, f
<1>8. /\ e.list \in Seq(EnvVars) /\ IsPrefix(ctr.env, e.list)
      /\ ToSet(Injected(pps, "env")) \subseteq ToSet(e.list)
  BY <1>2, <1>5 DEF MergedInto, Results
<1>9. /\ m.list \in Seq(VolumeMounts) /\ IsPrefix(ctr.volumeMounts, m.list)
      /\ ToSet(Injected(pps, "volumeMounts")) \subseteq ToSet(m.list)
  BY <1>3, <1>5 DEF MergedInto, Results
<1> QED
  BY <1>4, <1>6, <1>7, <1>8, <1>9 DEF Container, Within

LEMMA ReopenFacts ==
  ASSUME NEW pod \in Pod
  PROVE  /\ ReopenOption(pod) \in Seq(DnsOptions)
         /\ IsPrefix(pod.dnsOptions, ReopenOption(pod))
         /\ pod.dnsPolicy = "ClusterFirst" => DnsOption \in ToSet(ReopenOption(pod))
<1> DEFINE old == pod.dnsOptions
<1>1. old \in Seq(DnsOptions) /\ Len(old) \in Nat
  BY DEF Pod
<1>2. IsPrefix(old, old)
  BY <1>1, PrefixOfItself
<1>3. /\ Append(old, DnsOption) \in Seq(DnsOptions)
      /\ IsPrefix(old, Append(old, DnsOption))
      /\ DnsOption \in ToSet(Append(old, DnsOption))
  <2> DEFINE new == Append(old, DnsOption)
  <2> HIDE DEF old
  <2>1. /\ new \in Seq(DnsOptions) /\ Grown(new, old)
        /\ ToSet(new) = ToSet(old) \cup {DnsOption}
    BY <1>1, DnsAssumption, GrownByOne
  <2> HIDE DEF new
  <2>2. IsPrefix(old, new)
    BY <1>1, <2>1, GrownIsExtension
  <2> QED
    BY <2>1, <2>2 DEF new
<1> QED
  BY <1>1, <1>2, <1>3 DEF ReopenOption

LEMMA RecordFacts ==
  ASSUME NEW recorded \in [PresetNames -> Nat], NEW pps \in Seq(PodPreset)
  PROVE  /\ RecordPresets(recorded, pps) \in [PresetNames -> Nat]
         /\ \A n \in PresetNames :
              \/ RecordPresets(recorded, pps)[n] = recorded[n]
              \/ \E k \in DOMAIN pps :
                    /\ pps[k].name = n
                    /\ RecordPresets(recorded, pps)[n] = pps[k].resourceVersion
<1>1. ASSUME NEW n \in PresetNames, Has(pps, "name", n)
      PROVE  \E k \in DOMAIN pps : /\ pps[k].name = n
                                   /\ LastWith(pps, "name", n) = pps[k]
  <2>1. /\ LastWith(pps, "name", n) \in ToSet(pps)
        /\ LastWith(pps, "name", n).name = n
    BY <1>1, LastWithIsThere
  <2> QED
    BY <2>1 DEF ToSet
<1>2. ASSUME NEW k \in DOMAIN pps
      PROVE  pps[k].resourceVersion \in Nat
  <2>1. pps[k] \in PodPreset
    OBVIOUS
  <2> QED
    BY <2>1 DEF PodPreset
<1> QED
  BY <1>1, <1>2 DEF RecordPresets

LEMMA ApplyFacts ==
  ASSUME NEW pod \in Pod, NEW pps \in Seq(PodPreset),
         safeToApplyPodPresetsOnPod(pod, pps)
  PROVE  LET r == applyPodPresetsOnPod(pod, pps)
         IN  /\ Richer(r, pod)
             /\ \A k \in DOMAIN pps : Carries(r, pps[k].spec)
             /\ r.presets = RecordPresets(pod.presets, pps)
<1> DEFINE v == mergeVolumes(pod.volumes, pps)
           d == ReopenOption(pod)
           c == [i \in DOMAIN pod.containers |->
                   applyPodPresetsOnContainer(pod.containers[i], pps)]
           p == RecordPresets(pod.presets, pps)
           r == applyPodPresetsOnPod(pod, pps)
<1>1. /\ pod.volumes \in Seq(Volumes) /\ pod.dnsOptions \in Seq(DnsOptions)
      /\ pod.containers \in Seq(Container)
      /\ pod.presets \in [PresetNames -> Nat]
  BY DEF Pod
<1>2. MergedInto(Volumes, pod.volumes, Injected(pps, "volumes"), v) /\ ~ v.err
  BY <1>1, VolumesFacts DEF safeToApplyPodPresetsOnPod
<1>3. /\ v.list \in Seq(Volumes) /\ IsPrefix(pod.volumes, v.list)
      /\ ToSet(Injected(pps, "volumes")) \subseteq ToSet(v.list)
  BY <1>2 DEF MergedInto, Results
<1>4. /\ d \in Seq(DnsOptions) /\ IsPrefix(pod.dnsOptions, d)
      /\ pod.dnsPolicy = "ClusterFirst" => DnsOption \in ToSet(d)
  BY ReopenFacts
<1>5. ASSUME NEW i \in DOMAIN pod.containers
      PROVE  LET old == pod.containers[i]
             IN  /\ c[i] \in Container
                 /\ IsPrefix(old.env, c[i].env)
                 /\ IsPrefix(old.volumeMounts, c[i].volumeMounts)
                 /\ IsPrefix(old.envFrom, c[i].envFrom)
                 /\ \A k \in DOMAIN pps :
                      /\ Within(pps[k].spec.env, c[i].env)
                      /\ Within(pps[k].spec.volumeMounts, c[i].volumeMounts)
                      /\ Within(pps[k].spec.envFrom, c[i].envFrom)
  <2> DEFINE old == pod.containers[i]
  <2>1. old \in Container
    BY <1>1
  <2>2. safeToApplyPodPresetsOnContainer(old, pps)
    BY DEF safeToApplyPodPresetsOnPod
  <2>3. c[i] = applyPodPresetsOnContainer(old, pps)
    OBVIOUS
  <2> HIDE DEF old, c
  <2>4. /\ c[i] \in Container
        /\ IsPrefix(old.env, c[i].env)
        /\ IsPrefix(old.volumeMounts, c[i].volumeMounts)
        /\ IsPrefix(old.envFrom, c[i].envFrom)
        /\ \A k \in DOMAIN pps :
             /\ Within(pps[k].spec.env, c[i].env)
             /\ Within(pps[k].spec.volumeMounts, c[i].volumeMounts)
             /\ Within(pps[k].spec.envFrom, c[i].envFrom)
    BY <2>1, <2>2, <2>3, ContainerFacts
  <2> QED
    BY <2>4 DEF old
<1>6. p \in [PresetNames -> Nat]
  BY <1>1, RecordFacts
<1>7. c \in Seq(Container) /\ DOMAIN c = DOMAIN pod.containers
  <2>1. DOMAIN pod.containers = 1..Len(pod.containers) /\ Len(pod.containers) \in Nat
    BY <1>1
  <2> DEFINE n == Len(pod.containers)
  <2>2. c = [i \in 1..n |-> c[i]]
    BY <2>1
  <2>3. \A i \in 1..n : c[i] \in Container
    BY <1>5, <2>1
  <2>4. n \in Nat /\ DOMAIN pod.containers = 1..n
    BY <2>1
  <2> HIDE DEF c, n
  <2>5. c \in [1..n -> Container]
    BY <2>2, <2>3
  <2>6. \A S : \A f \in [1..n -> S] : f \in Seq(S) /\ DOMAIN f = 1..n
    BY <2>4
  <2> QED
    BY <2>4, <2>5, <2>6, Zenon
<1>8. r = [pod EXCEPT !.volumes = v.list, !.dnsOptions = d,
                      !.containers = c, !.presets = p]
  BY DEF applyPodPresetsOnPod
<1>9. ASSUME NEW k \in DOMAIN pps
      PROVE  Within(pps[k].spec.volumes, v.list)
  <2>1. ToSet(pps[k].spec["volumes"]) \subseteq ToSet(Injected(pps, "volumes"))
    BY SpecLists, InjectedFacts
  <2> QED
    BY <1>3, <2>1 DEF Within
<1> HIDE DEF v, d, c, p, r
<1>10. /\ r \in Pod
       /\ r.volumes = v.list /\ r.dnsOptions = d /\ r.containers = c
       /\ r.presets = p /\ r.dnsPolicy = pod.dnsPolicy
  BY <1>3, <1>4, <1>6, <1>7, <1>8 DEF Pod
<1>11. ExtendsPod(r, pod)
  BY <1>3, <1>4, <1>5, <1>7, <1>10 DEF ExtendsPod
<1>12. ASSUME NEW k \in DOMAIN pps
       PROVE  Carries(r, pps[k].spec)
  BY <1>4, <1>5, <1>7, <1>9, <1>10 DEF Carries
<1> QED
  BY <1>10, <1>11, <1>12 DEF Richer, p, r

LEMMA FilterFacts ==
  ASSUME NEW list \in Seq(PodPreset), NEW pod, NEW namespace
  PROVE  /\ filterPodPresets(list, pod, namespace) \in Seq(PodPreset)
         /\ ToSet(filterPodPresets(list, pod, namespace)) \subseteq ToSet(list)
<1> DEFINE matches == { i \in DOMAIN list :
                          /\ list[i].namespace = namespace
                          /\ Selects(list[i].spec.selector, pod.labels) }
           n == Cardinality(matches)
<1>1. DOMAIN list = 1..Len(list) /\ Len(list) \in Nat
  OBVIOUS
<1>2. IsFiniteSet(matches)
  <2>1. IsFiniteSet(1..Len(list))
    BY <1>1, FS_Interval
  <2> QED
    BY <1>1, <2>1, FS_Subset
<1>3. n \in Nat /\ (matches = {} => n = 0)
  BY <1>2, FS_CardinalityType, FS_EmptySet
<1>4. matches # {} => Len(list) \in DOMAIN list
  BY <1>1
<1>5. filterPodPresets(list, pod, namespace) = [k \in 1..n |-> list[Len(list)]]
  BY DEF filterPodPresets
<1>6. \A k \in 1..n : Len(list) \in DOMAIN list
  BY <1>3, <1>4
<1> HIDE DEF n, matches
<1> DEFINE last == list[Len(list)]
           f == [k \in 1..n |-> last]
<1>7. \A k \in 1..n : last \in PodPreset /\ last \in ToSet(list)
  BY <1>6 DEF ToSet
<1> HIDE DEF last
<1>8. f \in Seq(PodPreset)
  BY <1>3, <1>7
<1>9. ToSet(f) \subseteq ToSet(list)
  BY <1>7 DEF ToSet
<1> QED
  BY <1>5, <1>8, <1>9 DEF last

\* The pod mutatePodsFn leaves behind.
LEMMA MutateFacts ==
  ASSUME NEW pod \in Pod, NEW list \in Seq(PodPreset), NEW namespace
  PROVE  LET r == mutatePodsFn(pod, list, namespace)
         IN  /\ Richer(r, pod)
             /\ \A n \in PresetNames :
                  \/ r.presets[n] = pod.presets[n]
                  \/ \E c \in ToSet(list) : /\ c.name = n
                                           /\ r.presets[n] = c.resourceVersion
                                           /\ Carries(r, c.spec)
<1> DEFINE pps == filterPodPresets(list, pod, namespace)
           r == mutatePodsFn(pod, list, namespace)
<1>1. pps \in Seq(PodPreset) /\ ToSet(pps) \subseteq ToSet(list)
  BY FilterFacts
<1>2. CASE r = pod
  <2>1. Richer(pod, pod)
    BY RicherItself
  <2> HIDE DEF r
  <2>2. Richer(r, pod) /\ \A n \in PresetNames : r.presets[n] = pod.presets[n]
    BY <1>2, <2>1
  <2> QED
    BY <2>2 DEF r
<1>3. CASE r # pod
  <2>1. safeToApplyPodPresetsOnPod(pod, pps) /\ r = applyPodPresetsOnPod(pod, pps)
    BY <1>3 DEF mutatePodsFn
  <2> HIDE DEF pps, r
  <2>2. /\ Richer(r, pod)
        /\ \A k \in DOMAIN pps : Carries(r, pps[k].spec)
        /\ r.presets = RecordPresets(pod.presets, pps)
    BY <1>1, <2>1, ApplyFacts
  <2>3. pod.presets \in [PresetNames -> Nat]
    BY DEF Pod
  <2>4. ASSUME NEW n \in PresetNames, r.presets[n] # pod.presets[n]
        PROVE  \E c \in ToSet(list) : /\ c.name = n
                                      /\ r.presets[n] = c.resourceVersion
                                      /\ Carries(r, c.spec)
    <3> DEFINE recorded == pod.presets
    <3>0. recorded \in [PresetNames -> Nat]
      BY <2>3
    <3>1. PICK k \in DOMAIN pps : /\ pps[k].name = n
                                 /\ r.presets[n] = pps[k].resourceVersion
      <4>1. recorded[n] # r.presets[n] /\ r.presets = RecordPresets(recorded, pps)
        BY <2>2, <2>4
      <4> HIDE DEF recorded
      <4>2. \A m \in PresetNames :
              \/ RecordPresets(recorded, pps)[m] = recorded[m]
              \/ \E k \in DOMAIN pps :
                    /\ pps[k].name = m
                    /\ RecordPresets(recorded, pps)[m] = pps[k].resourceVersion
        BY <1>1, <3>0, RecordFacts, Zenon
      <4> QED
        BY <4>1, <4>2, Zenon
    <3>2. pps[k] \in ToSet(list)
      BY <1>1 DEF ToSet
    <3> QED
      BY <2>2, <3>1, <3>2
  <2> QED
    BY <2>2, <2>4 DEF r
<1> QED
  BY <1>2, <1>3

(***************************************************************************)
(* The lists Handle works on.                                              *)
(***************************************************************************)
LEMMA CachedFacts ==
  ASSUME TypeOK, NEW list \in SetToSeqs(Cached)
  PROVE  /\ list \in Seq(PodPreset)
         /\ \A c \in ToSet(list) :
              /\ c.resourceVersion \in DOMAIN log
              /\ log[c.resourceVersion].name = c.name
              /\ log[c.resourceVersion].spec = c.spec
              /\ c.namespace = WatchNamespace
<1> DEFINE There == { m \in PresetNames : cache[m] # 0 }
           Entry(n) == [name            |-> n,
                        namespace       |-> WatchNamespace,
                        resourceVersion |-> cache[n],
                        spec            |-> log[cache[n]].spec]
           f == [n \in There |-> Entry(n)]
<1>1. ASSUME NEW n \in There
      PROVE  /\ cache[n] \in DOMAIN log /\ cache[n] \in Nat
             /\ log[cache[n]].name = n
             /\ log[cache[n]].spec \in PodPresetSpec
  <2>1. /\ cache[n] \in 1..Len(log) /\ DOMAIN log = 1..Len(log)
        /\ log[cache[n]].name = n
    BY DEF TypeOK
  <2>2. log[cache[n]] \in [name : PresetNames, spec : Specs]
    <3> DEFINE R == [name : PresetNames, spec : Specs]
    <3>1. log \in Seq(R)
      BY DEF TypeOK
    <3>2. log[cache[n]] \in R
      <4> HIDE DEF R
      <4> QED
        BY <2>1, <3>1
    <3> QED
      BY <3>2
  <2> QED
    BY <2>1, <2>2, ConstantsAssumption
<1>2. ASSUME NEW c \in Cached
      PROVE  /\ c \in PodPreset
             /\ c.resourceVersion \in DOMAIN log
             /\ log[c.resourceVersion].name = c.name
             /\ log[c.resourceVersion].spec = c.spec
             /\ c.namespace = WatchNamespace
  <2>1. PICK n \in There : c = Entry(n)
    BY DEF Cached, Listed
  <2>2. WatchNamespace \in Namespaces /\ n \in PresetNames
    BY ConstantsAssumption
  <2> QED
    BY <1>1, <2>1, <2>2 DEF PodPreset
<1>3. IsFiniteSet(Cached)
  <2>1. IsFiniteSet(There)
    BY ConstantsAssumption, FS_Subset
  <2>2. f \in Surjection(There, Cached)
    BY DEF Surjection, Cached, Listed
  <2> QED
    BY <2>1, <2>2, FS_Surjection
<1>4. Cardinality(Cached) \in Nat
  BY <1>3, FS_CardinalityType
<1>5. list \in [1..Cardinality(Cached) -> Cached]
  BY DEF SetToSeqs
<1>6. \A c \in ToSet(list) : c \in Cached
  BY <1>5 DEF ToSet
<1>7. list \in Seq(PodPreset)
  <2> DEFINE n == Cardinality(Cached)
  <2>1. n \in Nat /\ list \in [1..n -> PodPreset]
    BY <1>2, <1>4, <1>5
  <2> HIDE DEF n
  <2> QED
    BY <2>1
<1> QED
  BY <1>2, <1>6, <1>7

(***************************************************************************)
(* Type correctness.                                                       *)
(***************************************************************************)
Writes == [name : PresetNames, spec : Specs]

LEMMA LogGrows ==
  ASSUME TypeOK, NEW n \in PresetNames, NEW s \in Specs, WritePreset(n, s)
  PROVE  /\ log' \in Seq(Writes) /\ Len(log') = Len(log) + 1
         /\ \A rv \in DOMAIN log : rv \in DOMAIN log' /\ log'[rv] = log[rv]
         /\ log'[Len(log) + 1].name = n
<1> DEFINE w == [name |-> n, spec |-> s]
<1>1. w \in Writes /\ log \in Seq(Writes) /\ log' = Append(log, w) /\ w.name = n
  BY DEF TypeOK, WritePreset, Writes
<1> HIDE DEF w
<1> QED
  BY <1>1

LEMMA AnswerIsRequest ==
  ASSUME NEW r, IsRequest(r), r.phase = "submitted", NEW p \in Pod
  PROVE  /\ r.obj \in Pod
         /\ IsRequest([r EXCEPT !.phase = "denied", !.error = "filtering"])
         /\ IsRequest([r EXCEPT !.phase = "denied", !.error = "listing"])
         /\ IsRequest([r EXCEPT !.phase = "answered", !.patched = p])
BY DEF IsRequest

LEMMA TypeInit == Init => TypeOK
<1> SUFFICES ASSUME Init PROVE TypeOK
  OBVIOUS
<1>1. log \in Seq(Writes) /\ Len(log) = 0
  BY DEF Init
<1>2. \A q \in Pods : IsRequest(req[q])
  BY DEF Init, Idle, IsRequest
<1> QED
  BY <1>1, <1>2 DEF Init, TypeOK, Writes

LEMMA TypeNext == TypeOK /\ [Next]_vars => TypeOK'
<1> SUFFICES ASSUME TypeOK, [Next]_vars
             PROVE  TypeOK'
  OBVIOUS
<1>0. /\ log \in Seq(Writes) /\ Len(log) \in Nat /\ DOMAIN log = 1..Len(log)
      /\ \A q \in Pods : IsRequest(req[q]) /\ pods[q] \in Pod \cup {NoPod}
      /\ DOMAIN req = Pods
  BY DEF TypeOK, Writes
<1>1. ASSUME NEW n \in PresetNames, NEW s \in Specs, WritePreset(n, s)
      PROVE  TypeOK'
  <2>1. /\ log' \in Seq(Writes) /\ Len(log') = Len(log) + 1
        /\ \A rv \in DOMAIN log : rv \in DOMAIN log' /\ log'[rv] = log[rv]
        /\ log'[Len(log) + 1].name = n
    BY <1>1, LogGrows
  <2>2. /\ presets' \in [PresetNames -> 0..Len(log')]
        /\ cache' \in [PresetNames -> 0..Len(log')]
    BY <1>0, <1>1, <2>1 DEF TypeOK, WritePreset
  <2>3. ASSUME NEW m \in PresetNames, NEW rv \in {presets'[m], cache'[m]} \ {0}
        PROVE  log'[rv].name = m
    <3>1. CASE rv \in {presets[m], cache[m]}
      <4>1. rv \in DOMAIN log /\ log[rv].name = m
        BY <1>0, <3>1 DEF TypeOK
      <4> QED
        BY <2>1, <4>1
    <3>2. CASE rv \notin {presets[m], cache[m]}
      <4>1. m = n /\ rv = Len(log) + 1
        BY <1>1, <3>2 DEF WritePreset, TypeOK
      <4> QED
        BY <2>1, <4>1
    <3> QED
      BY <3>1, <3>2
  <2> QED
    BY <1>1, <2>1, <2>2, <2>3 DEF TypeOK, WritePreset, Writes
<1>2. ASSUME NEW n \in PresetNames, DeletePreset(n)
      PROVE  TypeOK'
  BY <1>0, <1>2 DEF TypeOK, DeletePreset
<1>3. CASE SyncCache
  BY <1>3 DEF TypeOK, SyncCache
\* The steps of a request leave the presets alone.
<1>4. ASSUME UNCHANGED <<log, presets, cache>>,
             pods' \in [Pods -> Pod \cup {NoPod}],
             DOMAIN req' = Pods, \A q \in Pods : IsRequest(req'[q])
      PROVE  TypeOK'
  BY <1>4 DEF TypeOK, IsRequest
<1>5. ASSUME NEW q \in Pods, NEW r, IsRequest(r),
             req' = [req EXCEPT ![q] = r], UNCHANGED <<log, presets, cache>>,
             pods' = pods
      PROVE  TypeOK'
  <2>1. \A p \in Pods : IsRequest(req'[p])
    BY <1>0, <1>5
  <2>2. DOMAIN req' = Pods /\ pods' \in [Pods -> Pod \cup {NoPod}]
    BY <1>0, <1>5 DEF TypeOK
  <2> QED
    BY <1>4, <1>5, <2>1, <2>2
<1>6. IsRequest(Idle)
  BY DEF Idle, IsRequest
<1>7. ASSUME NEW q \in Pods, NEW t \in Templates, SubmitCreate(q, t)
      PROVE  TypeOK'
  <2> DEFINE r == [phase |-> "submitted", op |-> "CREATE", obj |-> t,
                   patched |-> NoPod, error |-> "none"]
  <2>1. IsRequest(r)
    BY ConstantsAssumption DEF IsRequest
  <2> QED
    BY <1>5, <1>7, <2>1 DEF SubmitCreate
<1>8. ASSUME NEW q \in Pods, NEW labels \in SUBSET Labels, NEW exclude \in BOOLEAN,
             SubmitUpdate(q, labels, exclude)
      PROVE  TypeOK'
  <2> DEFINE obj == [pods[q] EXCEPT !.labels = labels, !.exclude = exclude]
             r == [phase |-> "submitted", op |-> "UPDATE", obj |-> obj,
                   patched |-> NoPod, error |-> "none"]
  <2>1. obj \in Pod
    BY <1>0, <1>8 DEF SubmitUpdate, Pod
  <2> HIDE DEF obj
  <2>2. IsRequest(r)
    BY <2>1 DEF IsRequest
  <2> QED
    BY <1>5, <1>8, <2>2 DEF SubmitUpdate, obj
<1>9. ASSUME NEW q \in Pods, Handle(q)
      PROVE  TypeOK'
  <2>1. PICK list \in SetToSeqs(Cached) :
          LET obj == req[q].obj
          IN  req' = [req EXCEPT ![q] =
                IF MutateFails(obj, list, obj.namespace)
                THEN [@ EXCEPT !.phase = "denied", !.error = "filtering"]
                ELSE [@ EXCEPT !.phase = "answered",
                        !.patched = mutatePodsFn(obj, list, obj.namespace)]]
    BY <1>9 DEF Handle
  <2>2. list \in Seq(PodPreset)
    BY CachedFacts
  <2> DEFINE obj == req[q].obj
             r == IF MutateFails(obj, list, obj.namespace)
                  THEN [req[q] EXCEPT !.phase = "denied", !.error = "filtering"]
                  ELSE [req[q] EXCEPT !.phase = "answered",
                          !.patched = mutatePodsFn(obj, list, obj.namespace)]
  <2>3. IsRequest(r)
    <3>1. obj \in Pod /\ req[q].phase = "submitted"
      BY <1>0, <1>9 DEF Handle, IsRequest
    <3>2. mutatePodsFn(obj, list, obj.namespace) \in Pod
      BY <2>2, <3>1, MutateFacts DEF Richer
    <3> QED
      BY <1>0, <3>1, <3>2, AnswerIsRequest
  <2>4. req' = [req EXCEPT ![q] = r]
    BY <2>1
  <2> HIDE DEF r
  <2> QED
    BY <1>5, <1>9, <2>3, <2>4 DEF Handle
<1>10. ASSUME NEW q \in Pods, ListFails(q)
       PROVE  TypeOK'
  <2> DEFINE r == [req[q] EXCEPT !.phase = "denied", !.error = "listing"]
  <2>1. req' = [req EXCEPT ![q] = r]
    BY <1>0, <1>10 DEF ListFails
  <2>2. IsRequest(r)
    BY <1>0, <1>10 DEF ListFails, IsRequest
  <2> HIDE DEF r
  <2> QED
    BY <1>5, <1>10, <2>1, <2>2 DEF ListFails
<1>11. ASSUME NEW q \in Pods, CallIgnored(q)
       PROVE  TypeOK'
  <2> DEFINE r == [req[q] EXCEPT !.phase = "answered", !.patched = req[q].obj]
  <2>1. req' = [req EXCEPT ![q] = r]
    BY <1>0, <1>11 DEF CallIgnored
  <2>2. IsRequest(r)
    BY <1>0, <1>11 DEF CallIgnored, IsRequest
  <2> HIDE DEF r
  <2> QED
    BY <1>5, <1>11, <2>1, <2>2 DEF CallIgnored
<1>12. ASSUME NEW q \in Pods, Store(q)
       PROVE  TypeOK'
  <2>1. req[q].patched \in Pod
    BY <1>0, <1>12 DEF Store, IsRequest
  <2>2. pods' \in [Pods -> Pod \cup {NoPod}]
    BY <1>12, <2>1 DEF Store, TypeOK
  <2>3. DOMAIN req' = Pods /\ \A p \in Pods : IsRequest(req'[p])
    BY <1>0, <1>6, <1>12 DEF Store
  <2> QED
    BY <1>4, <1>12, <2>2, <2>3 DEF Store
<1>13. ASSUME NEW q \in Pods, Refuse(q)
       PROVE  TypeOK'
  BY <1>5, <1>6, <1>13 DEF Refuse
<1>14. CASE UNCHANGED vars
  BY <1>0, <1>4, <1>14 DEF vars, TypeOK
<1> QED
  BY <1>1, <1>2, <1>3, <1>7, <1>8, <1>9, <1>10, <1>11, <1>12, <1>13, <1>14
  DEF Next

\* Every behaviour keeps the types: in particular every answered request
\* has a well-formed pod, every recorded version exists, and versions in
\* the store and in the cache belong to the preset they are kept for.
THEOREM TypeCorrect == Spec => []TypeOK
<1>1. Init => TypeOK
  BY TypeInit
<1>2. TypeOK /\ [Next]_vars => TypeOK'
  BY TypeNext
<1> QED
  BY <1>1, <1>2, PTL DEF Spec

(***************************************************************************)
(* What the annotations say is true.  The invariant is inductive together  *)
(* with type correctness: an answer is the submitted pod with more in it,  *)
(* so it carries all that pod carried, and each version it newly records   *)
(* is that of a cached preset, all of whose entries were merged.           *)
(***************************************************************************)
LogKept == \A rv \in DOMAIN log : rv \in DOMAIN log' /\ log'[rv] = log[rv]

LEMMA RecordKept ==
  ASSUME LogKept, NEW pod, RecordIsTrue(pod)
  PROVE  RecordIsTrue(pod)'
BY DEF LogKept, RecordIsTrue, Recorded

LEMMA NoNewPod ==
  ASSUME AnnotatedPodsCarryPresets, LogKept,
         \A q \in Pods : \A pod \in PodsOf(q)' : pod \in PodsOf(q) \/ RecordIsTrue(pod)
  PROVE  AnnotatedPodsCarryPresets'
<1>1. ASSUME NEW q \in Pods, NEW pod \in PodsOf(q)'
      PROVE  RecordIsTrue(pod)'
  <2>1. RecordIsTrue(pod)
    BY <1>1 DEF AnnotatedPodsCarryPresets
  <2> QED
    BY <2>1, RecordKept
<1> QED
  BY <1>1 DEF AnnotatedPodsCarryPresets

LEMMA HandledRecordIsTrue ==
  ASSUME TypeOK, NEW pod \in Pod, RecordIsTrue(pod),
         NEW list \in SetToSeqs(Cached)
  PROVE  RecordIsTrue(mutatePodsFn(pod, list, pod.namespace))
<1> DEFINE r == mutatePodsFn(pod, list, pod.namespace)
<1>1. /\ list \in Seq(PodPreset)
      /\ \A c \in ToSet(list) : /\ c.resourceVersion \in DOMAIN log
                                /\ log[c.resourceVersion].name = c.name
                                /\ log[c.resourceVersion].spec = c.spec
  BY CachedFacts
<1>2. /\ Richer(r, pod)
      /\ \A n \in PresetNames :
           \/ r.presets[n] = pod.presets[n]
           \/ \E c \in ToSet(list) : /\ c.name = n
                                    /\ r.presets[n] = c.resourceVersion
                                    /\ Carries(r, c.spec)
  BY <1>1, MutateFacts
<1> HIDE DEF r
<1>3. ASSUME NEW n \in Recorded(r)
      PROVE  /\ r.presets[n] \in DOMAIN log
             /\ log[r.presets[n]].name = n
             /\ Carries(r, log[r.presets[n]].spec)
  <2>1. n \in PresetNames /\ r.presets[n] # 0
    BY DEF Recorded
  <2>2. CASE r.presets[n] = pod.presets[n]
    <3>1. n \in Recorded(pod)
      BY <2>1, <2>2 DEF Recorded
    <3>2. /\ pod.presets[n] \in DOMAIN log
          /\ log[pod.presets[n]].name = n
          /\ Carries(pod, log[pod.presets[n]].spec)
      BY <3>1 DEF RecordIsTrue
    <3> QED
      BY <1>2, <2>2, <3>2, CarriesRicher
  <2>3. CASE r.presets[n] # pod.presets[n]
    BY <1>1, <1>2, <2>1, <2>3
  <2> QED
    BY <2>2, <2>3
<1> QED
  BY <1>3 DEF RecordIsTrue, r

LEMMA AnnotatedNext ==
  TypeOK /\ AnnotatedPodsCarryPresets /\ [Next]_vars
    => AnnotatedPodsCarryPresets'
<1> SUFFICES ASSUME TypeOK, AnnotatedPodsCarryPresets, [Next]_vars
             PROVE  AnnotatedPodsCarryPresets'
  OBVIOUS
<1>0. /\ DOMAIN req = Pods /\ DOMAIN pods = Pods
      /\ \A q \in Pods : IsRequest(req[q]) /\ pods[q] \in Pod \cup {NoPod}
      /\ NoPod \notin Pod
  BY ConstantsAssumption DEF TypeOK
<1>1. ASSUME log' = log, \A q \in Pods : PodsOf(q)' \subseteq PodsOf(q)
      PROVE  AnnotatedPodsCarryPresets'
  <2>1. LogKept
    BY <1>1 DEF LogKept
  <2> QED
    BY <1>1, <2>1, NoNewPod
<1>2. ASSUME log' = log, NEW p, RecordIsTrue(p),
             \A q \in Pods : PodsOf(q)' \subseteq PodsOf(q) \cup {p}
      PROVE  AnnotatedPodsCarryPresets'
  <2>1. LogKept
    BY <1>2 DEF LogKept
  <2> QED
    BY <1>2, <2>1, NoNewPod
<1>3. ASSUME NEW n \in PresetNames, NEW s \in Specs, WritePreset(n, s)
      PROVE  AnnotatedPodsCarryPresets'
  <2>1. LogKept
    BY <1>3, LogGrows DEF LogKept
  <2>2. \A q \in Pods : PodsOf(q)' = PodsOf(q)
    BY <1>3 DEF WritePreset, PodsOf
  <2> QED
    BY <2>1, <2>2, NoNewPod
<1>4. ASSUME NEW n \in PresetNames, DeletePreset(n)
      PROVE  AnnotatedPodsCarryPresets'
  BY <1>1, <1>4 DEF DeletePreset, PodsOf
<1>5. CASE SyncCache
  BY <1>1, <1>5 DEF SyncCache, PodsOf
<1>6. ASSUME NEW q \in Pods, NEW t \in Templates, SubmitCreate(q, t)
      PROVE  AnnotatedPodsCarryPresets'
  <2>1. RecordIsTrue(t)
    BY ConstantsAssumption DEF RecordIsTrue, Recorded
  <2>2. \A p \in Pods : PodsOf(p)' \subseteq PodsOf(p) \cup {t}
    BY <1>0, <1>6 DEF SubmitCreate, PodsOf
  <2> QED
    BY <1>2, <1>6, <2>1, <2>2 DEF SubmitCreate
<1>7. ASSUME NEW q \in Pods, NEW labels \in SUBSET Labels, NEW exclude \in BOOLEAN,
             SubmitUpdate(q, labels, exclude)
      PROVE  AnnotatedPodsCarryPresets'
  <2> DEFINE old == pods[q]
             obj == [old EXCEPT !.labels = labels, !.exclude = exclude]
  <2>1. old \in Pod /\ old # NoPod
    BY <1>0, <1>7 DEF SubmitUpdate
  <2>2. RecordIsTrue(old)
    BY <2>1 DEF AnnotatedPodsCarryPresets, PodsOf
  <2>3. RecordIsTrue(obj)
    <3> HIDE DEF old
    <3>1. /\ obj.presets = old.presets /\ obj.volumes = old.volumes
          /\ obj.containers = old.containers /\ obj.dnsPolicy = old.dnsPolicy
          /\ obj.dnsOptions = old.dnsOptions
      BY <2>1 DEF Pod
    <3> HIDE DEF obj
    <3> QED
      BY <2>2, <3>1 DEF RecordIsTrue, Recorded, Carries
  <2>4. \A p \in Pods : PodsOf(p)' \subseteq PodsOf(p) \cup {obj}
    <3> HIDE DEF obj
    <3>1. /\ pods' = pods
          /\ req' = [req EXCEPT ![q] = [phase |-> "submitted", op |-> "UPDATE",
                       obj |-> obj, patched |-> NoPod, error |-> "none"]]
      BY <1>7 DEF SubmitUpdate, obj
    <3> QED
      BY <1>0, <3>1 DEF PodsOf
  <2> HIDE DEF obj
  <2> QED
    BY <1>2, <1>7, <2>3, <2>4 DEF SubmitUpdate
<1>8. ASSUME NEW q \in Pods, Handle(q)
      PROVE  AnnotatedPodsCarryPresets'
  <2> DEFINE obj == req[q].obj
  <2>0. obj \in Pod /\ req[q].patched \in Pod \cup {NoPod} /\ log' = log /\ pods' = pods
    BY <1>0, <1>8 DEF Handle, IsRequest
  <2>1. PICK list \in SetToSeqs(Cached) :
          req' = [req EXCEPT ![q] =
            IF MutateFails(obj, list, obj.namespace)
            THEN [@ EXCEPT !.phase = "denied", !.error = "filtering"]
            ELSE [@ EXCEPT !.phase = "answered",
                    !.patched = mutatePodsFn(obj, list, obj.namespace)]]
    BY <1>8 DEF Handle
  <2> DEFINE new == mutatePodsFn(obj, list, obj.namespace)
  <2>2. RecordIsTrue(new)
    <3>1. RecordIsTrue(obj)
      BY <1>0, <2>0 DEF AnnotatedPodsCarryPresets, PodsOf
    <3> HIDE DEF obj
    <3> QED
      BY <2>0, <3>1, HandledRecordIsTrue
  <2>3. /\ req'[q].obj = obj /\ req'[q].patched \in {req[q].patched, new}
        /\ \A p \in Pods \ {q} : req'[p] = req[p]
    <3>1. req[q] = [phase |-> req[q].phase, op |-> req[q].op, obj |-> obj,
                    patched |-> req[q].patched, error |-> req[q].error]
      BY <1>0 DEF IsRequest
    <3>2. DOMAIN req = Pods
      BY <1>0
    <3> HIDE DEF new
    <3>3. req'[q] = IF MutateFails(obj, list, obj.namespace)
                    THEN [req[q] EXCEPT !.phase = "denied", !.error = "filtering"]
                    ELSE [req[q] EXCEPT !.phase = "answered", !.patched = new]
      BY <2>1, <3>2 DEF new
    <3> QED
      BY <2>1, <3>1, <3>2, <3>3
  <2> HIDE DEF new, obj
  <2>4. \A p \in Pods : PodsOf(p)' \subseteq PodsOf(p) \cup {new}
    BY <2>0, <2>3 DEF PodsOf, obj
  <2> QED
    BY <1>2, <2>0, <2>2, <2>4
<1>9. ASSUME NEW q \in Pods, ListFails(q)
      PROVE  AnnotatedPodsCarryPresets'
  <2>1. \A p \in Pods : req'[p].obj = req[p].obj /\ req'[p].patched = req[p].patched
    BY <1>0, <1>9 DEF ListFails, IsRequest
  <2> QED
    BY <1>1, <1>9, <2>1 DEF ListFails, PodsOf
<1>10. ASSUME NEW q \in Pods, CallIgnored(q)
       PROVE  AnnotatedPodsCarryPresets'
  <2>1. \A p \in Pods : /\ req'[p].obj = req[p].obj
                        /\ req'[p].patched \in {req[p].patched, req[p].obj}
    BY <1>0, <1>10 DEF CallIgnored, IsRequest
  <2>2. \A p \in Pods : PodsOf(p)' \subseteq PodsOf(p)
    BY <1>10, <2>1 DEF CallIgnored, PodsOf
  <2> QED
    BY <1>1, <1>10, <2>2 DEF CallIgnored
<1>11. ASSUME NEW q \in Pods, Store(q)
       PROVE  AnnotatedPodsCarryPresets'
  <2>1. \A p \in Pods : /\ pods'[p] \in {pods[p], req[p].patched}
                        /\ req'[p] \in {req[p], Idle}
    BY <1>0, <1>11 DEF Store
  <2>2. \A p \in Pods : PodsOf(p)' \subseteq PodsOf(p)
    BY <2>1 DEF PodsOf, Idle
  <2> QED
    BY <1>1, <1>11, <2>2 DEF Store
<1>12. ASSUME NEW q \in Pods, Refuse(q)
       PROVE  AnnotatedPodsCarryPresets'
  <2>1. \A p \in Pods : req'[p] \in {req[p], Idle}
    BY <1>0, <1>12 DEF Refuse
  <2> QED
    BY <1>1, <1>12, <2>1 DEF Refuse, PodsOf, Idle
<1>13. CASE UNCHANGED vars
  BY <1>1, <1>13 DEF vars, PodsOf
<1> QED
  BY <1>3, <1>4, <1>5, <1>6, <1>7, <1>8, <1>9, <1>10, <1>11, <1>12, <1>13
  DEF Next

\* Whatever presets are written, whichever of them the cache shows and in
\* whatever order, a pod annotated with a version of a preset has all that
\* version injects.
THEOREM AnnotationsAreTrue == Spec => []AnnotatedPodsCarryPresets
<1>1. Init => TypeOK /\ AnnotatedPodsCarryPresets
  BY TypeInit DEF Init, Idle, AnnotatedPodsCarryPresets, PodsOf
<1>2. TypeOK /\ AnnotatedPodsCarryPresets /\ [Next]_vars
        => TypeOK' /\ AnnotatedPodsCarryPresets'
  BY TypeNext, AnnotatedNext
<1> QED
  BY <1>1, <1>2, PTL DEF Spec

(***************************************************************************)
(* The author's entries survive.                                           *)
(***************************************************************************)
LEMMA AuthorNext ==
  TypeOK /\ AuthorEntriesSurvive /\ [Next]_vars => AuthorEntriesSurvive'
<1> SUFFICES ASSUME TypeOK, AuthorEntriesSurvive, [Next]_vars
             PROVE  AuthorEntriesSurvive'
  OBVIOUS
<1>0. DOMAIN req = Pods /\ \A q \in Pods : IsRequest(req[q])
  BY DEF TypeOK
\* Every request after the step is one from before, an answer that extends
\* the submitted pod, or not an answer.
<1>1. ASSUME \A q \in Pods :
               \/ req'[q] = req[q]
               \/ req'[q].phase # "answered"
               \/ Richer(req'[q].patched, req'[q].obj)
      PROVE  AuthorEntriesSurvive'
  BY <1>1 DEF AuthorEntriesSurvive, Answered, Richer
<1>2. ASSUME NEW n \in PresetNames, NEW s \in Specs, WritePreset(n, s)
      PROVE  AuthorEntriesSurvive'
  BY <1>1, <1>2 DEF WritePreset
<1>3. ASSUME NEW n \in PresetNames, DeletePreset(n)
      PROVE  AuthorEntriesSurvive'
  BY <1>1, <1>3 DEF DeletePreset
<1>4. CASE SyncCache
  BY <1>1, <1>4 DEF SyncCache
<1>5. ASSUME NEW q \in Pods, NEW t \in Templates, SubmitCreate(q, t)
      PROVE  AuthorEntriesSurvive'
  BY <1>0, <1>1, <1>5 DEF SubmitCreate
<1>6. ASSUME NEW q \in Pods, NEW labels \in SUBSET Labels, NEW exclude \in BOOLEAN,
             SubmitUpdate(q, labels, exclude)
      PROVE  AuthorEntriesSurvive'
  BY <1>0, <1>1, <1>6 DEF SubmitUpdate
<1>7. ASSUME NEW q \in Pods, Handle(q)
      PROVE  AuthorEntriesSurvive'
  <2> DEFINE obj == req[q].obj
  <2>1. PICK list \in SetToSeqs(Cached) :
          req' = [req EXCEPT ![q] =
            IF MutateFails(obj, list, obj.namespace)
            THEN [@ EXCEPT !.phase = "denied", !.error = "filtering"]
            ELSE [@ EXCEPT !.phase = "answered",
                    !.patched = mutatePodsFn(obj, list, obj.namespace)]]
    BY <1>7 DEF Handle
  <2> DEFINE new == mutatePodsFn(obj, list, obj.namespace)
  <2>2. obj \in Pod
    BY <1>0, <1>7 DEF Handle, IsRequest
  <2>3. Richer(new, obj)
    <3> HIDE DEF obj
    <3> QED
      BY <2>2, CachedFacts, MutateFacts
  <2>4. /\ \A p \in Pods \ {q} : req'[p] = req[p]
        /\ \/ req'[q].phase # "answered"
           \/ req'[q].patched = new /\ req'[q].obj = obj
    <3>1. req[q] = [phase |-> req[q].phase, op |-> req[q].op, obj |-> obj,
                    patched |-> req[q].patched, error |-> req[q].error]
      BY <1>0 DEF IsRequest
    <3> HIDE DEF new
    <3>2. req'[q] = IF MutateFails(obj, list, obj.namespace)
                    THEN [req[q] EXCEPT !.phase = "denied", !.error = "filtering"]
                    ELSE [req[q] EXCEPT !.phase = "answered", !.patched = new]
      BY <1>0, <2>1 DEF new
    <3> QED
      BY <1>0, <2>1, <3>1, <3>2
  <2> HIDE DEF new, obj
  <2> QED
    BY <1>1, <2>3, <2>4
<1>8. ASSUME NEW q \in Pods, ListFails(q)
      PROVE  AuthorEntriesSurvive'
  <2>1. /\ \A p \in Pods \ {q} : req'[p] = req[p]
        /\ req'[q].phase = "denied"
    BY <1>0, <1>8 DEF ListFails, IsRequest
  <2> QED
    BY <1>1, <2>1
<1>9. ASSUME NEW q \in Pods, CallIgnored(q)
      PROVE  AuthorEntriesSurvive'
  <2>1. /\ \A p \in Pods \ {q} : req'[p] = req[p]
        /\ req'[q].patched = req[q].obj /\ req'[q].obj = req[q].obj
    BY <1>0, <1>9 DEF CallIgnored, IsRequest
  <2>2. req[q].obj \in Pod
    BY <1>0, <1>9 DEF CallIgnored, IsRequest
  <2>3. Richer(req'[q].patched, req'[q].obj)
    BY <2>1, <2>2, RicherItself
  <2> QED
    BY <1>1, <2>1, <2>3
<1>10. ASSUME NEW q \in Pods, Store(q)
       PROVE  AuthorEntriesSurvive'
  BY <1>0, <1>1, <1>10 DEF Store, Idle
<1>11. ASSUME NEW q \in Pods, Refuse(q)
       PROVE  AuthorEntriesSurvive'
  BY <1>0, <1>1, <1>11 DEF Refuse, Idle
<1>12. CASE UNCHANGED vars
  BY <1>1, <1>12 DEF vars
<1> QED
  BY <1>2, <1>3, <1>4, <1>5, <1>6, <1>7, <1>8, <1>9, <1>10, <1>11, <1>12
  DEF Next

\* Every list of an answer begins with the list the author submitted: what
\* applyPodPresetsOnPod drops of the merges' errors is never an error.
THEOREM AuthorsAreRespected == Spec => []AuthorEntriesSurvive
<1>1. Init => TypeOK /\ AuthorEntriesSurvive
  BY TypeInit DEF Init, Idle, AuthorEntriesSurvive, Answered
<1>2. TypeOK /\ AuthorEntriesSurvive /\ [Next]_vars
        => TypeOK' /\ AuthorEntriesSurvive'
  BY TypeNext, AuthorNext
<1> QED
  BY <1>1, <1>2, PTL DEF Spec

-----------------------------------------------------------------------------
(***************************************************************************)
(* Why a pod is changed, why it is refused, and that a valid one stays     *)
(* valid: all from one invariant, AnswersHaveCause.                        *)
(***************************************************************************)

(***************************************************************************)
(* A pod that is changed is changed by one preset: all pointers that       *)
(* filterPodPresets returns are the same.                                  *)
(***************************************************************************)
\* pps is what filterPodPresets returns when it finds a match: c, repeated.
Repeats(pps, c) ==
  /\ pps \in Seq(PodPreset) /\ pps # <<>>
  /\ c \in PodPreset
  /\ \A k \in DOMAIN pps : pps[k] = c

LEMMA ChangedByOne ==
  ASSUME NEW pod \in Pod, NEW list \in Seq(PodPreset), NEW namespace,
         mutatePodsFn(pod, list, namespace) # pod
  PROVE  /\ ~ Exempt(pod)
         /\ \E c \in ToSet(list), pps \in Seq(PodPreset) :
              /\ Repeats(pps, c)
              /\ safeToApplyPodPresetsOnPod(pod, pps)
              /\ mutatePodsFn(pod, list, namespace) = applyPodPresetsOnPod(pod, pps)
<1> DEFINE pps == filterPodPresets(list, pod, namespace)
           c == list[Len(list)]
<1>1. /\ ~ Exempt(pod) /\ pps # <<>> /\ safeToApplyPodPresetsOnPod(pod, pps)
      /\ mutatePodsFn(pod, list, namespace) = applyPodPresetsOnPod(pod, pps)
  BY DEF mutatePodsFn
<1>2. pps \in Seq(PodPreset) /\ ToSet(pps) \subseteq ToSet(list)
  BY FilterFacts
<1>3. \A k \in DOMAIN pps : pps[k] = c
  BY DEF filterPodPresets
<1> HIDE DEF pps, c
<1>4. 1 \in DOMAIN pps
  BY <1>1, <1>2
<1>5. c \in ToSet(pps) /\ c \in PodPreset
  BY <1>2, <1>3, <1>4 DEF ToSet
<1>6. Repeats(pps, c) /\ c \in ToSet(list)
  BY <1>1, <1>2, <1>3, <1>5 DEF Repeats
<1> QED
  BY <1>1, <1>2, <1>6

\* The parts of the pod that applyPodPresetsOnPod changes, and those it keeps.
LEMMA ApplyShape ==
  ASSUME NEW pod \in Pod, NEW pps
  PROVE  LET r == applyPodPresetsOnPod(pod, pps)
         IN  /\ r.volumes = mergeVolumes(pod.volumes, pps).list
             /\ r.dnsOptions = ReopenOption(pod)
             /\ r.dnsPolicy = pod.dnsPolicy
             /\ r.presets = RecordPresets(pod.presets, pps)
             /\ DOMAIN r.containers = DOMAIN pod.containers
             /\ \A i \in DOMAIN pod.containers :
                  r.containers[i] = applyPodPresetsOnContainer(pod.containers[i], pps)
<1> DEFINE v == mergeVolumes(pod.volumes, pps).list
           d == ReopenOption(pod)
           c == [i \in DOMAIN pod.containers |->
                   applyPodPresetsOnContainer(pod.containers[i], pps)]
           p == RecordPresets(pod.presets, pps)
<1>1. applyPodPresetsOnPod(pod, pps)
        = [pod EXCEPT !.volumes = v, !.dnsOptions = d, !.containers = c, !.presets = p]
  BY DEF applyPodPresetsOnPod
<1>2. /\ DOMAIN c = DOMAIN pod.containers
      /\ \A i \in DOMAIN pod.containers :
           c[i] = applyPodPresetsOnContainer(pod.containers[i], pps)
  OBVIOUS
<1> HIDE DEF v, d, c, p
<1>3. LET r == applyPodPresetsOnPod(pod, pps)
      IN  /\ r.volumes = v /\ r.dnsOptions = d /\ r.containers = c
          /\ r.presets = p /\ r.dnsPolicy = pod.dnsPolicy
  BY <1>1 DEF Pod
<1> QED
  BY <1>2, <1>3 DEF v, d, p

\* A preset injects nothing but its own entries.
LEMMA InjectedByOne ==
  ASSUME NEW pps, NEW c, Repeats(pps, c), NEW S, NEW field,
         c.spec[field] \in Seq(S)
  PROVE  /\ Injected(pps, field) \in Seq(S)
         /\ ToSet(Injected(pps, field)) \subseteq ToSet(c.spec[field])
<1>1. /\ pps \in Seq(PodPreset)
      /\ \A k \in DOMAIN pps : pps[k].spec[field] = c.spec[field]
  BY DEF Repeats
<1>2. \A k \in DOMAIN pps : pps[k].spec[field] \in Seq(S)
  BY <1>1
<1>3. /\ Injected(pps, field) \in Seq(S)
      /\ \A x \in ToSet(Injected(pps, field)) :
            \E k \in DOMAIN pps : x \in ToSet(pps[k].spec[field])
  BY <1>1, <1>2, InjectedFacts
<1> QED
  BY <1>1, <1>3

LEMMA SpecOfOne ==
  ASSUME NEW c \in PodPreset
  PROVE  /\ c.spec["env"] \in Seq(EnvVars)
         /\ c.spec["envFrom"] \in Seq(EnvSources)
         /\ c.spec["volumes"] \in Seq(Volumes)
         /\ c.spec["volumeMounts"] \in Seq(VolumeMounts)
         /\ c.name \in PresetNames
BY DEF PodPreset, PodPresetSpec

(***************************************************************************)
(* Whatever is new in the pod is the preset's, and the preset is recorded. *)
(***************************************************************************)
\* What list has and own has not is from the preset.
NewFrom(list, own, entries) == ToSet(list) \ ToSet(own) \subseteq ToSet(entries)

LEMMA NewInContainer ==
  ASSUME NEW ctr \in Container, NEW pps, NEW c, Repeats(pps, c),
         safeToApplyPodPresetsOnContainer(ctr, pps)
  PROVE  LET r == applyPodPresetsOnContainer(ctr, pps)
         IN  /\ NewFrom(r.env, ctr.env, c.spec.env)
             /\ NewFrom(r.volumeMounts, ctr.volumeMounts, c.spec.volumeMounts)
             /\ NewFrom(r.envFrom, ctr.envFrom, c.spec.envFrom)
<1> DEFINE e == mergeEnv(ctr.env, pps)
           m == mergeVolumeMounts(ctr.volumeMounts, pps)
           f == mergeEnvFrom(ctr.envFrom, pps)
<1>1. /\ ctr.env \in Seq(EnvVars) /\ ctr.envFrom \in Seq(EnvSources)
      /\ ctr.volumeMounts \in Seq(VolumeMounts)
  BY DEF Container
<1>2. pps \in Seq(PodPreset) /\ c \in PodPreset
  BY DEF Repeats
<1>3. MergedInto(EnvVars, ctr.env, Injected(pps, "env"), e) /\ ~ e.err
  BY <1>1, <1>2, EnvFacts DEF safeToApplyPodPresetsOnContainer
<1>4. /\ MergedInto(VolumeMounts, ctr.volumeMounts, Injected(pps, "volumeMounts"), m)
      /\ ~ m.err
  BY <1>1, <1>2, VolumeMountsFacts DEF safeToApplyPodPresetsOnContainer
<1>5. ToSet(f) = ToSet(ctr.envFrom) \cup ToSet(Injected(pps, "envFrom"))
  BY <1>1, <1>2, EnvFromFacts
<1>6. /\ ToSet(Injected(pps, "env")) \subseteq ToSet(c.spec["env"])
      /\ ToSet(Injected(pps, "volumeMounts")) \subseteq ToSet(c.spec["volumeMounts"])
      /\ ToSet(Injected(pps, "envFrom")) \subseteq ToSet(c.spec["envFrom"])
  BY <1>2, SpecOfOne, InjectedByOne
<1>7. applyPodPresetsOnContainer(ctr, pps)
        = [env |-> e.list, volumeMounts |-> m.list, envFrom |-> f]
  BY DEF applyPodPresetsOnContainer
<1> HIDE DEF e, m, f
<1>8. NewFrom(e.list, ctr.env, c.spec.env)
  BY <1>3, <1>6 DEF MergedInto, NewFrom
<1>9. NewFrom(m.list, ctr.volumeMounts, c.spec.volumeMounts)
  BY <1>4, <1>6 DEF MergedInto, NewFrom
<1>10. NewFrom(f, ctr.envFrom, c.spec.envFrom)
  BY <1>5, <1>6 DEF NewFrom
<1> QED
  BY <1>7, <1>8, <1>9, <1>10

LEMMA NewInPod ==
  ASSUME NEW pod \in Pod, NEW pps, NEW c, Repeats(pps, c),
         safeToApplyPodPresetsOnPod(pod, pps)
  PROVE  LET r == applyPodPresetsOnPod(pod, pps)
         IN  /\ NewFrom(r.volumes, pod.volumes, c.spec.volumes)
             /\ DOMAIN r.containers = DOMAIN pod.containers
             /\ \A i \in DOMAIN r.containers :
                  LET old == pod.containers[i]
                      new == r.containers[i]
                  IN  /\ NewFrom(new.env, old.env, c.spec.env)
                      /\ NewFrom(new.volumeMounts, old.volumeMounts, c.spec.volumeMounts)
                      /\ NewFrom(new.envFrom, old.envFrom, c.spec.envFrom)
             /\ r.presets[c.name] = c.resourceVersion
<1> DEFINE r == applyPodPresetsOnPod(pod, pps)
           v == mergeVolumes(pod.volumes, pps)
<1>1. /\ pod.volumes \in Seq(Volumes)
      /\ \A i \in DOMAIN pod.containers : pod.containers[i] \in Container
  BY DEF Pod
<1>2. pps \in Seq(PodPreset) /\ c \in PodPreset
  BY DEF Repeats
<1>3. MergedInto(Volumes, pod.volumes, Injected(pps, "volumes"), v) /\ ~ v.err
  BY <1>1, <1>2, VolumesFacts DEF safeToApplyPodPresetsOnPod
<1>4. ToSet(Injected(pps, "volumes")) \subseteq ToSet(c.spec["volumes"])
  BY <1>2, SpecOfOne, InjectedByOne
<1>5. /\ r.volumes = v.list
      /\ r.presets = RecordPresets(pod.presets, pps)
      /\ DOMAIN r.containers = DOMAIN pod.containers
      /\ \A i \in DOMAIN pod.containers :
           r.containers[i] = applyPodPresetsOnContainer(pod.containers[i], pps)
  BY ApplyShape
<1>6. \A i \in DOMAIN pod.containers :
        safeToApplyPodPresetsOnContainer(pod.containers[i], pps)
  BY DEF safeToApplyPodPresetsOnPod
<1> HIDE DEF r, v
<1>7. NewFrom(r.volumes, pod.volumes, c.spec.volumes)
  BY <1>3, <1>4, <1>5 DEF MergedInto, NewFrom
<1>8. ASSUME NEW i \in DOMAIN r.containers
      PROVE  LET old == pod.containers[i]
                 new == r.containers[i]
             IN  /\ NewFrom(new.env, old.env, c.spec.env)
                 /\ NewFrom(new.volumeMounts, old.volumeMounts, c.spec.volumeMounts)
                 /\ NewFrom(new.envFrom, old.envFrom, c.spec.envFrom)
  <2> DEFINE old == pod.containers[i]
             new == applyPodPresetsOnContainer(old, pps)
  <2>1. old \in Container /\ safeToApplyPodPresetsOnContainer(old, pps)
    BY <1>1, <1>5, <1>6
  <2>2. r.containers[i] = new
    BY <1>5
  <2> HIDE DEF old
  <2>3. /\ NewFrom(new.env, old.env, c.spec.env)
        /\ NewFrom(new.volumeMounts, old.volumeMounts, c.spec.volumeMounts)
        /\ NewFrom(new.envFrom, old.envFrom, c.spec.envFrom)
    BY <2>1, NewInContainer
  <2> QED
    BY <2>2, <2>3 DEF old
<1>9. r.presets[c.name] = c.resourceVersion
  <2>1. c.name \in PresetNames /\ 1 \in DOMAIN pps /\ pps[1] = c
    BY <1>2, SpecOfOne DEF Repeats
  <2>2. Has(pps, "name", c.name)
    BY <2>1 DEF Has
  <2>3. LastWith(pps, "name", c.name) = c
    <3>1. LastWith(pps, "name", c.name) \in ToSet(pps)
      BY <1>2, <2>2, LastWithIsThere
    <3> QED
      BY <3>1 DEF ToSet, Repeats
  <2> QED
    BY <1>5, <2>1, <2>2, <2>3 DEF RecordPresets
<1> QED
  BY <1>5, <1>7, <1>8, <1>9 DEF r

(***************************************************************************)
(* A preset that brings nothing new and no envFrom changes no spec.        *)
(***************************************************************************)
LEMMA NothingNewInContainer ==
  ASSUME NEW ctr \in Container, NEW pps, NEW c, Repeats(pps, c),
         safeToApplyPodPresetsOnContainer(ctr, pps),
         Within(c.spec.env, ctr.env), Within(c.spec.volumeMounts, ctr.volumeMounts),
         c.spec.envFrom = <<>>
  PROVE  applyPodPresetsOnContainer(ctr, pps) = ctr
<1> DEFINE e == mergeEnv(ctr.env, pps)
           m == mergeVolumeMounts(ctr.volumeMounts, pps)
           inj == Injected(pps, "envFrom")
<1>1. /\ ctr.env \in Seq(EnvVars) /\ ctr.envFrom \in Seq(EnvSources)
      /\ ctr.volumeMounts \in Seq(VolumeMounts)
      /\ ctr = [env |-> ctr.env, volumeMounts |-> ctr.volumeMounts,
                envFrom |-> ctr.envFrom]
  BY DEF Container
<1>2. pps \in Seq(PodPreset) /\ c \in PodPreset
  BY DEF Repeats
<1>3. MergedInto(EnvVars, ctr.env, Injected(pps, "env"), e) /\ ~ e.err
  BY <1>1, <1>2, EnvFacts DEF safeToApplyPodPresetsOnContainer
<1>4. /\ MergedInto(VolumeMounts, ctr.volumeMounts, Injected(pps, "volumeMounts"), m)
      /\ ~ m.err
  BY <1>1, <1>2, VolumeMountsFacts DEF safeToApplyPodPresetsOnContainer
<1>5. /\ ToSet(Injected(pps, "env")) \subseteq ToSet(c.spec["env"])
      /\ ToSet(Injected(pps, "volumeMounts")) \subseteq ToSet(c.spec["volumeMounts"])
      /\ inj \in Seq(EnvSources) /\ ToSet(inj) \subseteq ToSet(c.spec["envFrom"])
  BY <1>2, SpecOfOne, InjectedByOne
<1>6. applyPodPresetsOnContainer(ctr, pps)
        = [env |-> e.list, volumeMounts |-> m.list, envFrom |-> ctr.envFrom \o inj]
  BY DEF applyPodPresetsOnContainer, mergeEnvFrom
<1> HIDE DEF e, m, inj
<1>7. e.list = ctr.env
  BY <1>3, <1>5 DEF MergedInto, Within
<1>8. m.list = ctr.volumeMounts
  BY <1>4, <1>5 DEF MergedInto, Within
<1>9. ctr.envFrom \o inj = ctr.envFrom
  <2>1. ToSet(inj) = {}
    <3>1. c.spec["envFrom"] = <<>>
      OBVIOUS
    <3>2. \A x : x \notin ToSet(<<>>)
      BY DEF ToSet
    <3> QED
      BY <1>5, <3>1, <3>2
  <2>2. inj = <<>>
    BY <1>5, <2>1 DEF ToSet
  <2> QED
    BY <1>1, <2>2
<1> QED
  BY <1>1, <1>6, <1>7, <1>8, <1>9

LEMMA NothingNewInPod ==
  ASSUME NEW pod \in Pod, NEW pps, NEW c, Repeats(pps, c),
         safeToApplyPodPresetsOnPod(pod, pps),
         Carries(pod, c.spec), c.spec.envFrom = <<>>
  PROVE  PodSpec(applyPodPresetsOnPod(pod, pps)) = PodSpec(pod)
<1> DEFINE r == applyPodPresetsOnPod(pod, pps)
           v == mergeVolumes(pod.volumes, pps)
<1>1. /\ pod.volumes \in Seq(Volumes) /\ pod.dnsOptions \in Seq(DnsOptions)
      /\ pod.containers \in Seq(Container)
  BY DEF Pod
<1>2. pps \in Seq(PodPreset) /\ c \in PodPreset
  BY DEF Repeats
<1>3. MergedInto(Volumes, pod.volumes, Injected(pps, "volumes"), v) /\ ~ v.err
  BY <1>1, <1>2, VolumesFacts DEF safeToApplyPodPresetsOnPod
<1>4. ToSet(Injected(pps, "volumes")) \subseteq ToSet(c.spec["volumes"])
  BY <1>2, SpecOfOne, InjectedByOne
<1>5. /\ r.volumes = v.list
      /\ r.dnsOptions = ReopenOption(pod)
      /\ r.dnsPolicy = pod.dnsPolicy
      /\ DOMAIN r.containers = DOMAIN pod.containers
      /\ \A i \in DOMAIN pod.containers :
           r.containers[i] = applyPodPresetsOnContainer(pod.containers[i], pps)
  BY ApplyShape
<1>6. r.containers \in Seq(Container)
  <2>1. Richer(r, pod)
    BY <1>2, ApplyFacts
  <2> HIDE DEF r
  <2> QED
    BY <2>1 DEF Richer, Pod
<1>7. ASSUME NEW i \in DOMAIN pod.containers
      PROVE  applyPodPresetsOnContainer(pod.containers[i], pps) = pod.containers[i]
  <2> DEFINE ctr == pod.containers[i]
  <2>1. /\ ctr \in Container /\ safeToApplyPodPresetsOnContainer(ctr, pps)
        /\ Within(c.spec.env, ctr.env)
        /\ Within(c.spec.volumeMounts, ctr.volumeMounts)
    BY <1>1 DEF safeToApplyPodPresetsOnPod, Carries
  <2> HIDE DEF ctr
  <2>2. applyPodPresetsOnContainer(ctr, pps) = ctr
    BY <2>1, NothingNewInContainer
  <2> QED
    BY <2>2 DEF ctr
<1> HIDE DEF r, v
<1>8. r.volumes = pod.volumes
  BY <1>3, <1>4, <1>5 DEF MergedInto, Carries, Within
<1>9. r.dnsOptions = pod.dnsOptions
  BY <1>5 DEF ReopenOption, Carries
<1>10. r.containers = pod.containers
  BY <1>1, <1>5, <1>6, <1>7
<1> QED
  BY <1>5, <1>8, <1>9, <1>10 DEF PodSpec, r

(***************************************************************************)
(* A merge that succeeds repeats no key the list did not repeat, for each  *)
(* key it looks at: an entry with a key that is there is the entry that is *)
(* there, or it conflicts.                                                 *)
(***************************************************************************)
LEMMA EntryKeepsUnique ==
  ASSUME NEW S, NEW acc \in Results(S), NEW v \in S, NEW keys,
         NEW key \in keys, Unique(acc.list, key),
         ~ MergeEntry(acc, keys, v).err
  PROVE  ~ acc.err /\ Unique(MergeEntry(acc, keys, v).list, key)
<1> DEFINE list == acc.list
           r == MergeEntry(acc, keys, v)
<1>1. /\ list \in Seq(S) /\ Len(list) \in Nat /\ DOMAIN list = 1..Len(list)
      /\ acc.err \in BOOLEAN
  BY DEF Results
<1>2. ~ acc.err /\ ~ Conflicts(list, keys, v)
  BY <1>1 DEF MergeEntry
<1>3. CASE Has(list, "name", v.name)
  <2>1. r.list = list
    BY <1>3 DEF MergeEntry
  <2> QED
    BY <1>2, <2>1
<1>4. CASE ~ Has(list, "name", v.name)
  <2>1. r.list = Append(list, v)
    BY <1>4 DEF MergeEntry
  <2> HIDE DEF list, r
  <2>2. ~ Has(list, key, v[key])
    <3>1. SUFFICES ASSUME Has(list, key, v[key])
                   PROVE  FALSE
      OBVIOUS
    <3>2. LastWith(list, key, v[key]) = v
      BY <1>2, <3>1 DEF Conflicts
    <3>3. v \in ToSet(list)
      BY <1>1, <3>1, <3>2, LastWithIsThere
    <3> QED
      BY <1>4, <3>3 DEF ToSet, Has
  <2>3. /\ DOMAIN Append(list, v) = 1..(Len(list) + 1)
        /\ \A i \in 1..Len(list) : Append(list, v)[i] = list[i]
        /\ Append(list, v)[Len(list) + 1] = v
    BY <1>1
  <2>4. Unique(list, key)
    BY DEF list
  <2>5. Unique(Append(list, v), key)
    BY <1>1, <2>2, <2>3, <2>4 DEF Unique, Has
  <2> QED
    BY <1>2, <2>1, <2>5 DEF r
<1> QED
  BY <1>3, <1>4

LEMMA MergeKeepsUnique ==
  ASSUME NEW S, NEW own \in Seq(S), NEW add \in Seq(S), NEW keys,
         "name" \in keys, NEW key \in keys, Unique(own, key),
         ~ MergeEntries(own, keys, add).err
  PROVE  Unique(MergeEntries(own, keys, add).list, key)
<1> DEFINE n == Len(add)
           run == MergeRun(own, keys, add)
           Good == { i \in 0..n : ~ run[i].err => Unique(run[i].list, key) }
<1>0. n \in Nat /\ DOMAIN add = 1..n
  OBVIOUS
<1>1. /\ run[0] = [err |-> FALSE, list |-> own]
      /\ \A i \in 1..n : run[i] = MergeEntry(run[i - 1], keys, add[i])
  BY MergeRunDef
<1>2. 0 \in Good
  BY <1>0, <1>1
<1>3. ASSUME NEW i \in 1..n, i - 1 \in Good
      PROVE  i \in Good
  <2>1. i \in 0..n /\ i - 1 \in 0..n /\ add[i] \in S
    BY <1>0
  <2>2. run[i - 1] \in Results(S)
    BY <2>1, MergeRunFacts DEF MergedSoFar
  <2>3. run[i] = MergeEntry(run[i - 1], keys, add[i])
    BY <1>1
  <2>4. ~ run[i - 1].err => Unique(run[i - 1].list, key)
    BY <1>3
  <2> HIDE DEF run, n
  <2> DEFINE acc == run[i - 1]
             r == run[i]
             v == add[i]
  <2>5. acc \in Results(S) /\ r = MergeEntry(acc, keys, v) /\ v \in S
    BY <2>1, <2>2, <2>3
  <2>6. ~ acc.err => Unique(acc.list, key)
    BY <2>4
  <2> HIDE DEF acc, r, v
  <2>7. ~ r.err => ~ acc.err
    BY <2>5 DEF MergeEntry, Results
  <2>8. ~ r.err => Unique(r.list, key)
    BY <2>5, <2>6, <2>7, EntryKeepsUnique
  <2> QED
    BY <2>1, <2>8 DEF r
<1>4. n \in Good
  <2>1. 0..n \subseteq Good
    <3> HIDE DEF Good
    <3> QED
      BY <1>0, <1>2, <1>3, LoopInduction
  <2> QED
    BY <1>0, <2>1
<1>5. ~ run[n].err /\ MergeEntries(own, keys, add) = run[n]
  BY DEF MergeEntries
<1> QED
  BY <1>4, <1>5

(***************************************************************************)
(* A valid pod stays valid.                                                *)
(***************************************************************************)
\* A key that a list has, a list with more in it has.
LEMMA HasMore ==
  ASSUME NEW list, NEW other, NEW key, NEW x,
         ToSet(list) \subseteq ToSet(other), Has(list, key, x)
  PROVE  Has(other, key, x)
BY DEF ToSet, Has

LEMMA AppliedIsValid ==
  ASSUME NEW pod \in Pod, NEW pps, NEW c, Repeats(pps, c),
         safeToApplyPodPresetsOnPod(pod, pps),
         ValidPod(pod), SelfContained(c.spec)
  PROVE  ValidPod(applyPodPresetsOnPod(pod, pps))
<1> DEFINE r == applyPodPresetsOnPod(pod, pps)
<1>1. /\ pod.volumes \in Seq(Volumes)
      /\ pod.containers \in Seq(Container)
      /\ \A i \in DOMAIN pod.containers : pod.containers[i] \in Container
  BY DEF Pod
<1>2. /\ pps \in Seq(PodPreset) /\ c \in PodPreset
      /\ 1 \in DOMAIN pps /\ pps[1] = c
  BY DEF Repeats
<1>3. /\ r.volumes = mergeVolumes(pod.volumes, pps).list
      /\ DOMAIN r.containers = DOMAIN pod.containers
      /\ \A i \in DOMAIN pod.containers :
           r.containers[i] = applyPodPresetsOnContainer(pod.containers[i], pps)
  BY ApplyShape
<1>4. /\ Injected(pps, "volumes") \in Seq(Volumes)
      /\ Injected(pps, "volumeMounts") \in Seq(VolumeMounts)
      /\ ToSet(Injected(pps, "volumeMounts")) \subseteq ToSet(c.spec["volumeMounts"])
  BY <1>2, SpecOfOne, InjectedByOne
<1>5. /\ ~ mergeVolumes(pod.volumes, pps).err
      /\ \A i \in DOMAIN pod.containers :
           ~ mergeVolumeMounts(pod.containers[i].volumeMounts, pps).err
  BY DEF safeToApplyPodPresetsOnPod, safeToApplyPodPresetsOnContainer
<1>6. Carries(r, c.spec) /\ Richer(r, pod)
  BY <1>2, ApplyFacts
<1> HIDE DEF r
<1>7. /\ ToSet(c.spec.volumes) \subseteq ToSet(r.volumes)
      /\ ToSet(pod.volumes) \subseteq ToSet(r.volumes)
  <2>1. r.volumes \in Seq(Volumes) /\ IsPrefix(pod.volumes, r.volumes)
    BY <1>6 DEF Richer, ExtendsPod, Pod
  <2> QED
    BY <1>1, <1>6, <2>1, PrefixWithin DEF Carries, Within
<1>8. Unique(r.volumes, "name")
  <2>1. Unique(pod.volumes, "name")
    BY DEF ValidPod
  <2>2. "name" \in {"name"}
    OBVIOUS
  <2> QED
    BY <1>1, <1>3, <1>4, <1>5, <2>1, <2>2, MergeKeepsUnique DEF mergeVolumes
<1>9. ASSUME NEW i \in DOMAIN pod.containers
      PROVE  /\ Unique(r.containers[i].volumeMounts, "path")
             /\ \A m \in ToSet(r.containers[i].volumeMounts) :
                  Has(r.volumes, "name", m.name)
  <2> DEFINE own == pod.containers[i].volumeMounts
             inj == Injected(pps, "volumeMounts")
             res == mergeVolumeMounts(own, pps)
  <2>1. own \in Seq(VolumeMounts)
    BY <1>1 DEF Container
  <2>2. r.containers[i].volumeMounts = res.list
    <3>1. r.containers[i] = applyPodPresetsOnContainer(pod.containers[i], pps)
      BY <1>3
    <3>2. applyPodPresetsOnContainer(pod.containers[i], pps).volumeMounts
            = mergeVolumeMounts(pod.containers[i].volumeMounts, pps).list
      BY DEF applyPodPresetsOnContainer
    <3> QED
      BY <3>1, <3>2
  <2>3. pod.containers[i] \in ToSet(pod.containers)
    BY DEF ToSet
  <2>4. Unique(own, "path") /\ \A m \in ToSet(own) : Has(pod.volumes, "name", m.name)
    BY <2>3 DEF ValidPod
  <2>5. ~ res.err
    BY <1>5
  <2>6. inj \in Seq(VolumeMounts) /\ ToSet(inj) \subseteq ToSet(c.spec.volumeMounts)
    BY <1>4
  <2>7. res = MergeEntries(own, {"name", "path"}, inj)
    BY DEF mergeVolumeMounts
  <2> HIDE DEF own, inj, res
  <2>8. Unique(res.list, "path")
    <3>1. "name" \in {"name", "path"} /\ "path" \in {"name", "path"}
      OBVIOUS
    <3> QED
      BY <2>1, <2>4, <2>5, <2>6, <2>7, <3>1, MergeKeepsUnique
  <2>9. ToSet(res.list) \subseteq ToSet(own) \cup ToSet(inj)
    <3>1. "name" \in {"name", "path"}
      OBVIOUS
    <3>2. MergedInto(VolumeMounts, own, inj, res)
      BY <2>1, <2>6, <2>7, <3>1, MergeEntriesFacts
    <3> QED
      BY <2>5, <3>2 DEF MergedInto
  <2>10. ASSUME NEW m \in ToSet(res.list)
         PROVE  Has(r.volumes, "name", m.name)
    <3>1. CASE m \in ToSet(own)
      BY <1>7, <2>4, <3>1, HasMore
    <3>2. CASE m \in ToSet(inj)
      <4>1. Has(c.spec.volumes, "name", m.name)
        BY <2>6, <3>2 DEF SelfContained
      <4> QED
        BY <1>7, <4>1, HasMore
    <3> QED
      BY <2>9, <3>1, <3>2
  <2> QED
    BY <2>2, <2>8, <2>10
<1>10. \A x \in ToSet(r.containers) : /\ Unique(x.volumeMounts, "path")
                                      /\ \A m \in ToSet(x.volumeMounts) :
                                           Has(r.volumes, "name", m.name)
  BY <1>3, <1>9 DEF ToSet
<1> QED
  BY <1>8, <1>10 DEF ValidPod, r

(***************************************************************************)
(* The invariant: an answer is what mutatePodsFn makes of the request and  *)
(* of some list of presets that were written, or the request itself; a     *)
(* denial is an error of the list, or of a selector in such a list.        *)
(***************************************************************************)
Traced(list) ==
  \A c \in ToSet(list) :
    /\ c.resourceVersion \in DOMAIN log
    /\ log[c.resourceVersion].spec = c.spec
    /\ c.namespace = WatchNamespace

HasCause(r) ==
  /\ r.phase = "answered" =>
       \/ r.patched = r.obj
       \/ \E list \in Seq(PodPreset) :
            /\ Traced(list)
            /\ r.patched = mutatePodsFn(r.obj, list, r.obj.namespace)
  /\ r.phase = "denied" =>
       /\ ~ Exempt(r.obj)
       /\ r.error = "filtering" =>
            \E list \in Seq(PodPreset) :
              Traced(list) /\ FilterFails(list, r.obj.namespace)

AnswersHaveCause == \A q \in Pods : HasCause(req[q])

LEMMA CauseKept ==
  ASSUME LogKept, NEW r, HasCause(r)
  PROVE  HasCause(r)'
<1>1. ASSUME NEW list \in Seq(PodPreset), Traced(list)
      PROVE  Traced(list)'
  BY <1>1 DEF Traced, LogKept
<1> QED
  BY <1>1 DEF HasCause

LEMMA CausesKept ==
  ASSUME AnswersHaveCause, LogKept,
         \A q \in Pods : req'[q] = req[q] \/ HasCause(req'[q])
  PROVE  AnswersHaveCause'
<1>1. ASSUME NEW q \in Pods
      PROVE  HasCause(req[q])'
  <2>1. PICK r : r = req'[q]
    OBVIOUS
  <2>2. HasCause(r)
    BY <2>1 DEF AnswersHaveCause
  <2>3. HasCause(r)'
    BY <2>2, CauseKept
  <2> QED
    BY <2>1, <2>3 DEF HasCause
<1> QED
  BY <1>1 DEF AnswersHaveCause

LEMMA HandleHasCause ==
  ASSUME TypeOK, NEW q \in Pods, Handle(q)
  PROVE  /\ log' = log
         /\ \A p \in Pods \ {q} : req'[p] = req[p]
         /\ HasCause(req'[q])
<1> DEFINE obj == req[q].obj
<1>0. DOMAIN req = Pods /\ IsRequest(req[q]) /\ obj \in Pod
  BY DEF TypeOK, Handle, IsRequest
<1>1. PICK list \in SetToSeqs(Cached) :
        req' = [req EXCEPT ![q] =
          IF MutateFails(obj, list, obj.namespace)
          THEN [@ EXCEPT !.phase = "denied", !.error = "filtering"]
          ELSE [@ EXCEPT !.phase = "answered",
                  !.patched = mutatePodsFn(obj, list, obj.namespace)]]
  BY DEF Handle
<1> DEFINE new == mutatePodsFn(obj, list, obj.namespace)
           fails == MutateFails(obj, list, obj.namespace)
<1>2. list \in Seq(PodPreset) /\ Traced(list)
  BY CachedFacts DEF Traced
<1>3. PICK r : r = req'[q]
  OBVIOUS
<1>4. /\ r.obj = obj
      /\ fails => r.phase = "denied"
      /\ ~ fails => r.phase = "answered" /\ r.patched = new
  <2>1. req[q] = [phase |-> req[q].phase, op |-> req[q].op, obj |-> obj,
                  patched |-> req[q].patched, error |-> req[q].error]
    BY <1>0 DEF IsRequest
  <2> HIDE DEF new, fails
  <2>2. r = IF fails THEN [req[q] EXCEPT !.phase = "denied", !.error = "filtering"]
                     ELSE [req[q] EXCEPT !.phase = "answered", !.patched = new]
    BY <1>0, <1>1, <1>3 DEF new, fails
  <2> QED
    BY <2>1, <2>2
<1>5. HasCause(r)
  <2>1. CASE fails
    <3>1. ~ Exempt(obj) /\ FilterFails(list, obj.namespace)
      BY <2>1 DEF MutateFails
    <3>2. r.phase = "denied" /\ r.obj = obj
      BY <1>4, <2>1
    <3> HIDE DEF obj
    <3> QED
      BY <1>2, <3>1, <3>2 DEF HasCause
  <2>2. CASE ~ fails
    <3>1. r.phase = "answered" /\ r.obj = obj
          /\ r.patched = mutatePodsFn(obj, list, obj.namespace)
      BY <1>4, <2>2
    <3> HIDE DEF obj, new, fails
    <3> QED
      BY <1>2, <3>1 DEF HasCause
  <2> QED
    BY <2>1, <2>2
<1> QED
  BY <1>0, <1>1, <1>3, <1>5 DEF Handle

LEMMA CauseNext ==
  TypeOK /\ AnswersHaveCause /\ [Next]_vars => AnswersHaveCause'
<1> SUFFICES ASSUME TypeOK, AnswersHaveCause, [Next]_vars
             PROVE  AnswersHaveCause'
  OBVIOUS
<1>0. DOMAIN req = Pods /\ \A q \in Pods : IsRequest(req[q])
  BY DEF TypeOK
<1>1. ASSUME log' = log,
             \A q \in Pods : req'[q] = req[q] \/ HasCause(req'[q])
      PROVE  AnswersHaveCause'
  BY <1>1, CausesKept DEF LogKept
\* A request that is neither answered nor denied needs no cause.
<1>2. ASSUME NEW r, r.phase \notin {"answered", "denied"}
      PROVE  HasCause(r)
  BY <1>2 DEF HasCause
<1>3. ASSUME NEW n \in PresetNames, NEW s \in Specs, WritePreset(n, s)
      PROVE  AnswersHaveCause'
  <2>1. LogKept
    BY <1>3, LogGrows DEF LogKept
  <2> QED
    BY <1>3, <2>1, CausesKept DEF WritePreset
<1>4. ASSUME NEW n \in PresetNames, DeletePreset(n)
      PROVE  AnswersHaveCause'
  BY <1>1, <1>4 DEF DeletePreset
<1>5. CASE SyncCache
  BY <1>1, <1>5 DEF SyncCache
<1>6. ASSUME NEW q \in Pods, NEW t \in Templates, SubmitCreate(q, t)
      PROVE  AnswersHaveCause'
  <2>1. /\ log' = log /\ \A p \in Pods \ {q} : req'[p] = req[p]
        /\ req'[q].phase = "submitted"
    BY <1>0, <1>6 DEF SubmitCreate
  <2> QED
    BY <1>1, <1>2, <2>1
<1>7. ASSUME NEW q \in Pods, NEW labels \in SUBSET Labels, NEW exclude \in BOOLEAN,
             SubmitUpdate(q, labels, exclude)
      PROVE  AnswersHaveCause'
  <2>1. /\ log' = log /\ \A p \in Pods \ {q} : req'[p] = req[p]
        /\ req'[q].phase = "submitted"
    BY <1>0, <1>7 DEF SubmitUpdate
  <2> QED
    BY <1>1, <1>2, <2>1
<1>8. ASSUME NEW q \in Pods, Handle(q)
      PROVE  AnswersHaveCause'
  BY <1>1, <1>8, HandleHasCause
<1>9. ASSUME NEW q \in Pods, ListFails(q)
      PROVE  AnswersHaveCause'
  <2>1. /\ log' = log /\ \A p \in Pods \ {q} : req'[p] = req[p]
        /\ req'[q].phase = "denied" /\ req'[q].error = "listing"
        /\ req'[q].obj = req[q].obj /\ ~ Exempt(req[q].obj)
    BY <1>0, <1>9 DEF ListFails, IsRequest
  <2>2. HasCause(req'[q])
    BY <2>1 DEF HasCause
  <2> QED
    BY <1>1, <2>1, <2>2
<1>10. ASSUME NEW q \in Pods, CallIgnored(q)
       PROVE  AnswersHaveCause'
  <2>1. /\ log' = log /\ \A p \in Pods \ {q} : req'[p] = req[p]
        /\ req'[q].phase = "answered" /\ req'[q].patched = req'[q].obj
    BY <1>0, <1>10 DEF CallIgnored, IsRequest
  <2>2. HasCause(req'[q])
    BY <2>1 DEF HasCause
  <2> QED
    BY <1>1, <2>1, <2>2
<1>11. ASSUME NEW q \in Pods, Store(q)
       PROVE  AnswersHaveCause'
  <2>1. /\ log' = log /\ \A p \in Pods \ {q} : req'[p] = req[p]
        /\ req'[q].phase = "idle"
    BY <1>0, <1>11 DEF Store, Idle
  <2> QED
    BY <1>1, <1>2, <2>1
<1>12. ASSUME NEW q \in Pods, Refuse(q)
       PROVE  AnswersHaveCause'
  <2>1. /\ log' = log /\ \A p \in Pods \ {q} : req'[p] = req[p]
        /\ req'[q].phase = "idle"
    BY <1>0, <1>12 DEF Refuse, Idle
  <2> QED
    BY <1>1, <1>2, <2>1
<1>13. CASE UNCHANGED vars
  BY <1>1, <1>13 DEF vars
<1> QED
  BY <1>3, <1>4, <1>5, <1>6, <1>7, <1>8, <1>9, <1>10, <1>11, <1>12, <1>13
  DEF Next

LEMMA Causes == Spec => [](TypeOK /\ AnswersHaveCause)
<1>1. Init => TypeOK /\ AnswersHaveCause
  BY TypeInit DEF Init, Idle, AnswersHaveCause, HasCause
<1>2. TypeOK /\ AnswersHaveCause /\ [Next]_vars => TypeOK' /\ AnswersHaveCause'
  BY TypeNext, CauseNext
<1> QED
  BY <1>1, <1>2, PTL DEF Spec

(***************************************************************************)
(* What follows from it.                                                   *)
(***************************************************************************)
\* An answer that differs from the request comes from one preset c, which is
\* the write to a preset its version names.
LEMMA AnswerFromOne ==
  ASSUME TypeOK, AnswersHaveCause, NEW q \in Pods, Answered(q),
         req[q].patched # req[q].obj
  PROVE  /\ req[q].obj \in Pod /\ ~ Exempt(req[q].obj)
         /\ \E c \in PodPreset, pps \in Seq(PodPreset) :
              /\ Repeats(pps, c)
              /\ safeToApplyPodPresetsOnPod(req[q].obj, pps)
              /\ req[q].patched = applyPodPresetsOnPod(req[q].obj, pps)
              /\ c.resourceVersion \in DOMAIN log
              /\ log[c.resourceVersion].spec = c.spec
<1> DEFINE obj == req[q].obj
<1>1. obj \in Pod
  BY DEF TypeOK, IsRequest, Answered
<1>2. PICK list \in Seq(PodPreset) :
        Traced(list) /\ req[q].patched = mutatePodsFn(obj, list, obj.namespace)
  BY DEF AnswersHaveCause, HasCause, Answered
<1>3. mutatePodsFn(obj, list, obj.namespace) # obj
  BY <1>2
<1> HIDE DEF obj
<1>4. /\ ~ Exempt(obj)
      /\ \E c \in ToSet(list), pps \in Seq(PodPreset) :
           /\ Repeats(pps, c)
           /\ safeToApplyPodPresetsOnPod(obj, pps)
           /\ mutatePodsFn(obj, list, obj.namespace) = applyPodPresetsOnPod(obj, pps)
  BY <1>1, <1>3, ChangedByOne
<1>5. PICK c \in ToSet(list), pps \in Seq(PodPreset) :
        /\ Repeats(pps, c)
        /\ safeToApplyPodPresetsOnPod(obj, pps)
        /\ mutatePodsFn(obj, list, obj.namespace) = applyPodPresetsOnPod(obj, pps)
  BY <1>4
<1>6. /\ c \in PodPreset /\ c.resourceVersion \in DOMAIN log
      /\ log[c.resourceVersion].spec = c.spec
  BY <1>2, <1>5 DEF Traced, Repeats
<1> QED
  BY <1>1, <1>2, <1>4, <1>5, <1>6 DEF obj

\* Whatever the presets, the lag of the cache and the order of the list, an
\* entry that the webhook added is one of a version that the annotations of
\* its answer name, and no change goes without an annotation.
THEOREM ChangesAreRecorded == Spec => []EveryChangeIsRecorded
<1>1. ASSUME TypeOK, AnswersHaveCause, NEW q \in Pods, Answered(q)
      PROVE  LET obj == req[q].obj
                 patched == req[q].patched
             IN  /\ AddedFrom(patched.volumes, obj.volumes, patched, "volumes")
                 /\ \A i \in DOMAIN patched.containers,
                       field \in {"env", "volumeMounts", "envFrom"} :
                       AddedFrom(patched.containers[i][field],
                                 obj.containers[i][field], patched, field)
                 /\ patched # obj => Recorded(patched) # {}
  <2> DEFINE obj == req[q].obj
             r == req[q].patched
  <2>1. CASE r = obj
    BY <2>1 DEF AddedFrom
  <2>2. CASE r # obj
    <3>1. obj \in Pod
      BY <1>1, <2>2, AnswerFromOne
    <3>2. PICK c \in PodPreset, pps \in Seq(PodPreset) :
            /\ Repeats(pps, c)
            /\ safeToApplyPodPresetsOnPod(obj, pps)
            /\ r = applyPodPresetsOnPod(obj, pps)
            /\ c.resourceVersion \in DOMAIN log
            /\ log[c.resourceVersion].spec = c.spec
      BY <1>1, <2>2, AnswerFromOne
    <3> HIDE DEF obj, r
    <3>3. /\ NewFrom(r.volumes, obj.volumes, c.spec.volumes)
          /\ \A i \in DOMAIN r.containers :
               LET old == obj.containers[i]
                   new == r.containers[i]
               IN  /\ NewFrom(new.env, old.env, c.spec.env)
                   /\ NewFrom(new.volumeMounts, old.volumeMounts, c.spec.volumeMounts)
                   /\ NewFrom(new.envFrom, old.envFrom, c.spec.envFrom)
          /\ r.presets[c.name] = c.resourceVersion
      BY <3>1, <3>2, NewInPod
    <3>4. c.name \in Recorded(r) /\ log[r.presets[c.name]].spec = c.spec
      <4>1. c.name \in PresetNames
        BY SpecOfOne
      <4>2. c.resourceVersion # 0
        BY <1>1, <3>2 DEF TypeOK
      <4> QED
        BY <3>2, <3>3, <4>1, <4>2 DEF Recorded
    <3>5. ASSUME NEW list, NEW own, NEW field, NewFrom(list, own, c.spec[field])
          PROVE  AddedFrom(list, own, r, field)
      BY <3>4, <3>5 DEF NewFrom, AddedFrom
    <3>6. AddedFrom(r.volumes, obj.volumes, r, "volumes")
      BY <3>3, <3>5
    <3>7. ASSUME NEW i \in DOMAIN r.containers,
                 NEW field \in {"env", "volumeMounts", "envFrom"}
          PROVE  AddedFrom(r.containers[i][field], obj.containers[i][field], r, field)
      BY <3>3, <3>5
    <3> QED
      BY <3>4, <3>6, <3>7 DEF obj, r
  <2> QED
    BY <2>1, <2>2
<1>2. TypeOK /\ AnswersHaveCause => EveryChangeIsRecorded
  BY <1>1 DEF EveryChangeIsRecorded
<1> QED
  BY <1>2, Causes, PTL

\* As long as users write self-contained presets, the webhook makes no valid
\* pod invalid: it repeats neither a volume's name nor a mount's path, and
\* every mount has its volume.
THEOREM ValidityIsKept == Spec => []PodsStayValid
<1>1. ASSUME TypeOK, AnswersHaveCause, NEW q \in Pods, Answered(q),
             ValidPod(req[q].obj),
             \A rv \in DOMAIN log : SelfContained(log[rv].spec)
      PROVE  ValidPod(req[q].patched)
  <2> DEFINE obj == req[q].obj
             r == req[q].patched
  <2>1. CASE r = obj
    BY <1>1, <2>1
  <2>2. CASE r # obj
    <3>1. obj \in Pod /\ ValidPod(obj)
      BY <1>1, <2>2, AnswerFromOne
    <3>2. PICK c \in PodPreset, pps \in Seq(PodPreset) :
            /\ Repeats(pps, c)
            /\ safeToApplyPodPresetsOnPod(obj, pps)
            /\ r = applyPodPresetsOnPod(obj, pps)
            /\ c.resourceVersion \in DOMAIN log
            /\ log[c.resourceVersion].spec = c.spec
      BY <1>1, <2>2, AnswerFromOne
    <3>3. SelfContained(c.spec)
      BY <1>1, <3>2
    <3> HIDE DEF obj, r
    <3>4. ValidPod(r)
      BY <3>1, <3>2, <3>3, AppliedIsValid
    <3> QED
      BY <3>4 DEF r
  <2> QED
    BY <2>1, <2>2
<1>2. TypeOK /\ AnswersHaveCause => PodsStayValid
  BY <1>1 DEF PodsStayValid
<1> QED
  BY <1>2, Causes, PTL

\* The webhook changes the spec in an update only for a preset with an envFrom
\* source, or with something that the pod does not have.
THEOREM BlockingHasCause == Spec => []BlockedUpdateHasCause
<1>1. ASSUME TypeOK, AnswersHaveCause, NEW q \in Pods, Answered(q),
             PodSpec(req[q].patched) # PodSpec(req[q].obj)
      PROVE  /\ ~ Exempt(req[q].obj)
             /\ \E rv \in DOMAIN log :
                  log[rv].spec.envFrom # <<>> \/ ~ Carries(req[q].obj, log[rv].spec)
  <2> DEFINE obj == req[q].obj
             r == req[q].patched
  <2>1. r # obj
    BY <1>1
  <2>2. obj \in Pod /\ ~ Exempt(obj)
    BY <1>1, <2>1, AnswerFromOne
  <2>3. PICK c \in PodPreset, pps \in Seq(PodPreset) :
          /\ Repeats(pps, c)
          /\ safeToApplyPodPresetsOnPod(obj, pps)
          /\ r = applyPodPresetsOnPod(obj, pps)
          /\ c.resourceVersion \in DOMAIN log
          /\ log[c.resourceVersion].spec = c.spec
    BY <1>1, <2>1, AnswerFromOne
  <2>4. PodSpec(r) # PodSpec(obj)
    BY <1>1
  <2> HIDE DEF obj, r
  <2>5. c.spec.envFrom # <<>> \/ ~ Carries(obj, c.spec)
    BY <2>2, <2>3, <2>4, NothingNewInPod
  <2>6. \E rv \in DOMAIN log :
          log[rv].spec.envFrom # <<>> \/ ~ Carries(obj, log[rv].spec)
    BY <2>3, <2>5
  <2> QED
    BY <2>2, <2>6 DEF obj
<1>2. TypeOK /\ AnswersHaveCause => BlockedUpdateHasCause
  BY <1>1 DEF BlockedUpdateHasCause
<1> QED
  BY <1>2, Causes, PTL

\* A pod is denied only when the list cannot be read, or for a malformed
\* selector that somebody wrote in the pod's own namespace.
THEOREM DenialsHaveCause == Spec => []DenialHasCause
<1>1. ASSUME AnswersHaveCause, NEW q \in Pods, req[q].phase = "denied"
      PROVE  /\ ~ Exempt(req[q].obj)
             /\ req[q].error = "filtering" =>
                  /\ req[q].obj.namespace = WatchNamespace
                  /\ \E rv \in DOMAIN log : log[rv].spec.selector = Malformed
  <2>1. ~ Exempt(req[q].obj)
    BY <1>1 DEF AnswersHaveCause, HasCause
  <2>2. ASSUME req[q].error = "filtering"
        PROVE  /\ req[q].obj.namespace = WatchNamespace
               /\ \E rv \in DOMAIN log : log[rv].spec.selector = Malformed
    <3>1. PICK list \in Seq(PodPreset) :
            Traced(list) /\ FilterFails(list, req[q].obj.namespace)
      BY <1>1, <2>2 DEF AnswersHaveCause, HasCause
    <3>2. PICK i \in DOMAIN list : /\ list[i].namespace = req[q].obj.namespace
                                   /\ list[i].spec.selector = Malformed
      BY <3>1 DEF FilterFails
    <3>3. list[i] \in ToSet(list)
      BY DEF ToSet
    <3> QED
      BY <3>1, <3>2, <3>3 DEF Traced
  <2> QED
    BY <2>1, <2>2
<1>2. AnswersHaveCause => DenialHasCause
  BY <1>1 DEF DenialHasCause
<1> QED
  BY <1>2, Causes, PTL

-----------------------------------------------------------------------------
(***************************************************************************)
(* PodAdmission implements AtomicAdmission, for every set of pods, presets *)
(* and specs.  What has to be remembered of a request under way is where   *)
(* its object comes from, and that an answer was made from a view the      *)
(* presets really had.                                                     *)
(***************************************************************************)

\* The object of request r is what CreatePod or UpdatePod begin with.
Requested(q, r) ==
  \/ /\ r.op = "CREATE"
     /\ pods[q] = NoPod
     /\ r.obj \in Templates
  \/ /\ r.op = "UPDATE"
     /\ pods[q] # NoPod
     /\ \E labels \in SUBSET Labels, exclude \in BOOLEAN :
          r.obj = [pods[q] EXCEPT !.labels = labels, !.exclude = exclude]

Explained(q, r) ==
  /\ r.phase # "idle" => Requested(q, r)
  /\ r.phase = "answered" =>
       \/ r.patched = r.obj
       \/ \E view \in views : r.patched \in AnswersOn(r.obj, view)

RequestsExplained == \A q \in Pods : Explained(q, req[q])

ViewsKnown == Listed(presets) \in views /\ Listed(cache) \in views

HistoryInv == ViewsKnown /\ RequestsExplained

LEMMA ExplainedKept ==
  ASSUME NEW q, NEW r, Explained(q, r), pods'[q] = pods[q], views \subseteq views'
  PROVE  Explained(q, r)'
<1>1. Requested(q, r) => Requested(q, r)'
  BY DEF Requested
<1> QED
  BY <1>1 DEF Explained

LEMMA OneRequest ==
  ASSUME RequestsExplained, DOMAIN req = Pods, UNCHANGED pods,
         views \subseteq views', NEW q \in Pods, NEW r,
         req' = [req EXCEPT ![q] = r], Explained(q, r)
  PROVE  RequestsExplained'
<1>1. ASSUME NEW p \in Pods
      PROVE  Explained(p, req[p])'
  <2>1. PICK now : now = req'[p]
    OBVIOUS
  <2>2. Explained(p, now)
    BY <2>1 DEF RequestsExplained
  <2>3. Explained(p, now)'
    BY <2>2, ExplainedKept
  <2> QED
    BY <2>1, <2>3 DEF Explained, Requested
<1> QED
  BY <1>1 DEF RequestsExplained

LEMMA AllRequests ==
  ASSUME RequestsExplained, UNCHANGED <<pods, req>>, views \subseteq views'
  PROVE  RequestsExplained'
BY ExplainedKept DEF RequestsExplained

\* A version that the cache has stays what it is when the log grows.
LEMMA CacheIsStable ==
  ASSUME TypeOK, LogKept, UNCHANGED cache
  PROVE  Listed(cache)' = Listed(cache)
<1>1. /\ cache \in [PresetNames -> 0..Len(log)]
      /\ DOMAIN log = 1..Len(log) /\ Len(log) \in Nat
  BY DEF TypeOK
<1>2. \A n \in PresetNames :
        cache[n] # 0 => log'[cache[n]].spec = log[cache[n]].spec
  BY <1>1 DEF LogKept
<1> QED
  BY <1>2 DEF Listed

\* What an answer may be, of a request that was submitted.
LEMMA AnswerExplained ==
  ASSUME NEW q, NEW r, Explained(q, r), r.phase = "submitted", IsRequest(r),
         NEW p, p = r.obj \/ \E view \in views : p \in AnswersOn(r.obj, view)
  PROVE  Explained(q, [r EXCEPT !.phase = "answered", !.patched = p])
<1> DEFINE a == [r EXCEPT !.phase = "answered", !.patched = p]
<1>1. a.op = r.op /\ a.obj = r.obj /\ a.patched = p /\ a.phase = "answered"
  BY DEF IsRequest
<1>2. Requested(q, r)
  BY DEF Explained
<1> HIDE DEF a
<1>3. Requested(q, a)
  BY <1>1, <1>2 DEF Requested
<1>4. Explained(q, a)
  BY <1>1, <1>3 DEF Explained
<1> QED
  BY <1>4 DEF a

LEMMA DenialExplained ==
  ASSUME NEW q, NEW r, Explained(q, r), r.phase = "submitted", IsRequest(r),
         NEW why
  PROVE  Explained(q, [r EXCEPT !.phase = "denied", !.error = why])
<1> DEFINE a == [r EXCEPT !.phase = "denied", !.error = why]
<1>1. a.op = r.op /\ a.obj = r.obj /\ a.phase = "denied"
  BY DEF IsRequest
<1>2. Requested(q, r)
  BY DEF Explained
<1> HIDE DEF a
<1>3. Requested(q, a)
  BY <1>1, <1>2 DEF Requested
<1>4. Explained(q, a)
  BY <1>1, <1>3 DEF Explained
<1> QED
  BY <1>4 DEF a

LEMMA IdleExplained ==
  ASSUME NEW q
  PROVE  Explained(q, Idle)
BY DEF Explained, Idle

LEMMA HistoryStart == HistoryInit => HistoryInv
<1> SUFFICES ASSUME HistoryInit PROVE HistoryInv
  OBVIOUS
<1>1. presets = cache /\ views = { Listed(presets) } /\ req = [q \in Pods |-> Idle]
  BY DEF HistoryInit, Init
<1>2. ViewsKnown
  BY <1>1 DEF ViewsKnown
<1>3. RequestsExplained
  BY <1>1, IdleExplained DEF RequestsExplained
<1> QED
  BY <1>2, <1>3 DEF HistoryInv

LEMMA HistoryStep ==
  ASSUME TypeOK, HistoryInv, HistoryNext
  PROVE  HistoryInv'
<1>0. /\ DOMAIN req = Pods
      /\ \A q \in Pods : IsRequest(req[q]) /\ Explained(q, req[q])
      /\ ViewsKnown /\ RequestsExplained
  BY DEF TypeOK, HistoryInv, RequestsExplained
<1>1. views \subseteq views' /\ Listed(presets)' \in views'
  BY DEF HistoryNext
<1>2. ASSUME UNCHANGED <<log, cache>>
      PROVE  ViewsKnown'
  BY <1>0, <1>1, <1>2 DEF ViewsKnown, Listed
<1>3. ASSUME NEW n \in PresetNames, NEW s \in Specs, WritePreset(n, s)
      PROVE  HistoryInv'
  <2>1. UNCHANGED <<cache, pods, req>>
    BY <1>3 DEF WritePreset
  <2>2. LogKept
    BY <1>3, LogGrows DEF LogKept
  <2>3. Listed(cache)' \in views'
    BY <1>0, <1>1, <2>1, <2>2, CacheIsStable DEF ViewsKnown
  <2> QED
    BY <1>0, <1>1, <2>1, <2>3, AllRequests DEF HistoryInv, ViewsKnown
<1>4. ASSUME NEW n \in PresetNames, DeletePreset(n)
      PROVE  HistoryInv'
  <2>1. UNCHANGED <<log, cache, pods, req>>
    BY <1>4 DEF DeletePreset
  <2> QED
    BY <1>0, <1>1, <1>2, <2>1, AllRequests DEF HistoryInv
<1>5. ASSUME SyncCache
      PROVE  HistoryInv'
  <2>1. UNCHANGED <<log, presets, pods, req>> /\ cache' = presets
    BY <1>5 DEF SyncCache
  <2>2. ViewsKnown'
    BY <1>1, <2>1 DEF ViewsKnown, Listed
  <2> QED
    BY <1>0, <1>1, <2>1, <2>2, AllRequests DEF HistoryInv
<1>6. ASSUME NEW q \in Pods, NEW r, req' = [req EXCEPT ![q] = r], Explained(q, r),
             UNCHANGED <<log, cache, pods>>
      PROVE  HistoryInv'
  BY <1>0, <1>1, <1>2, <1>6, OneRequest DEF HistoryInv
<1>7. ASSUME NEW q \in Pods, NEW t \in Templates, SubmitCreate(q, t)
      PROVE  HistoryInv'
  <2> DEFINE r == [phase |-> "submitted", op |-> "CREATE", obj |-> t,
                   patched |-> NoPod, error |-> "none"]
  <2>1. Explained(q, r)
    BY <1>7 DEF SubmitCreate, Explained, Requested
  <2>2. req' = [req EXCEPT ![q] = r] /\ UNCHANGED <<log, cache, pods>>
    BY <1>7 DEF SubmitCreate
  <2> HIDE DEF r
  <2> QED
    BY <1>6, <2>1, <2>2
<1>8. ASSUME NEW q \in Pods, NEW labels \in SUBSET Labels, NEW exclude \in BOOLEAN,
             SubmitUpdate(q, labels, exclude)
      PROVE  HistoryInv'
  <2> DEFINE r == [phase |-> "submitted", op |-> "UPDATE",
                   obj |-> [pods[q] EXCEPT !.labels = labels, !.exclude = exclude],
                   patched |-> NoPod, error |-> "none"]
  <2>1. Explained(q, r)
    BY <1>8 DEF SubmitUpdate, Explained, Requested
  <2>2. req' = [req EXCEPT ![q] = r] /\ UNCHANGED <<log, cache, pods>>
    BY <1>8 DEF SubmitUpdate
  <2>3. PICK now : now = r
    OBVIOUS
  <2> HIDE DEF r
  <2> QED
    BY <1>6, <2>1, <2>2, <2>3
<1>9. ASSUME NEW q \in Pods, Handle(q)
      PROVE  HistoryInv'
  <2>1. PICK list \in SetToSeqs(Cached) :
          LET obj == req[q].obj
          IN  req' = [req EXCEPT ![q] =
                IF MutateFails(obj, list, obj.namespace)
                THEN [@ EXCEPT !.phase = "denied", !.error = "filtering"]
                ELSE [@ EXCEPT !.phase = "answered",
                        !.patched = mutatePodsFn(obj, list, obj.namespace)]]
    BY <1>9 DEF Handle
  <2>2. req[q].phase = "submitted" /\ UNCHANGED <<log, cache, pods>>
    BY <1>9 DEF Handle
  <2>3. PICK old : old = req[q]
    OBVIOUS
  <2> DEFINE fails == MutateFails(old.obj, list, old.obj.namespace)
             answer == mutatePodsFn(old.obj, list, old.obj.namespace)
             denied == [old EXCEPT !.phase = "denied", !.error = "filtering"]
             answered == [old EXCEPT !.phase = "answered", !.patched = answer]
  <2>4. req' = [req EXCEPT ![q] = IF fails THEN denied ELSE answered]
    BY <2>1, <2>3
  <2>5. ~ fails => answer \in AnswersOn(old.obj, Cached)
    BY DEF AnswersOn
  <2>6. Cached \in views
    BY <1>0 DEF ViewsKnown, Cached
  <2> HIDE DEF fails, answer
  <2>7. Explained(q, denied)
    BY <1>0, <2>2, <2>3, DenialExplained
  <2>8. ~ fails => Explained(q, answered)
    BY <1>0, <2>2, <2>3, <2>5, <2>6, AnswerExplained
  <2> HIDE DEF denied, answered
  <2>9. PICK r : r = IF fails THEN denied ELSE answered
    OBVIOUS
  <2> QED
    BY <1>6, <2>2, <2>4, <2>7, <2>8, <2>9
<1>10. ASSUME NEW q \in Pods, ListFails(q)
       PROVE  HistoryInv'
  <2>1. PICK r : r = [req[q] EXCEPT !.phase = "denied", !.error = "listing"]
    OBVIOUS
  <2>2. Explained(q, r) /\ UNCHANGED <<log, cache, pods>>
    BY <1>0, <1>10, <2>1, DenialExplained DEF ListFails
  <2>3. req' = [req EXCEPT ![q] = r]
    BY <1>0, <1>10, <2>1 DEF ListFails
  <2> QED
    BY <1>6, <2>2, <2>3
<1>11. ASSUME NEW q \in Pods, CallIgnored(q)
       PROVE  HistoryInv'
  <2>1. PICK r : r = [req[q] EXCEPT !.phase = "answered", !.patched = req[q].obj]
    OBVIOUS
  <2>2. Explained(q, r) /\ UNCHANGED <<log, cache, pods>>
    BY <1>0, <1>11, <2>1, AnswerExplained DEF CallIgnored
  <2>3. req' = [req EXCEPT ![q] = r]
    BY <1>0, <1>11, <2>1 DEF CallIgnored
  <2> QED
    BY <1>6, <2>2, <2>3
<1>12. ASSUME NEW q \in Pods, Store(q)
       PROVE  HistoryInv'
  <2>1. ViewsKnown'
    BY <1>2, <1>12 DEF Store
  <2>2. ASSUME NEW p \in Pods
        PROVE  Explained(p, req[p])'
    <3>1. CASE p = q
      BY <1>0, <1>12, <3>1 DEF Store, Explained, Idle
    <3>2. CASE p # q
      <4>1. PICK old : old = req[p]
        OBVIOUS
      <4>2. req'[p] = old /\ pods'[p] = pods[p]
        BY <1>0, <1>12, <3>2, <4>1 DEF Store
      <4>3. Explained(p, old)'
        BY <1>0, <1>1, <4>1, <4>2, ExplainedKept
      <4> QED
        BY <4>2, <4>3 DEF Explained, Requested
    <3> QED
      BY <3>1, <3>2
  <2> QED
    BY <2>1, <2>2 DEF HistoryInv, RequestsExplained
<1>13. ASSUME NEW q \in Pods, Refuse(q)
       PROVE  HistoryInv'
  <2>1. req' = [req EXCEPT ![q] = Idle] /\ UNCHANGED <<log, cache, pods>>
    BY <1>13 DEF Refuse
  <2> QED
    BY <1>6, <2>1, IdleExplained
<1> QED
  BY <1>3, <1>4, <1>5, <1>7, <1>8, <1>9, <1>10, <1>11, <1>12, <1>13
  DEF HistoryNext, Next

(***************************************************************************)
(* The steps of AtomicAdmission: an admission takes place when it is       *)
(* stored, and everything else is at most a change of the presets.         *)
(***************************************************************************)
LEMMA StoreCreates ==
  ASSUME TypeOK, HistoryInv, HistoryNext, NEW q \in Pods, Store(q),
         req[q].op = "CREATE"
  PROVE  Atomic!CreatePod(q)
<1>1. Explained(q, req[q]) /\ IsRequest(req[q]) /\ req[q].phase = "answered"
  BY DEF TypeOK, HistoryInv, RequestsExplained, Store
<1>2. pods[q] = NoPod /\ req[q].obj \in Templates
  BY <1>1 DEF Explained, Requested
<1>3. req[q].patched \in Atomic!Admitted(req[q].obj)
  BY <1>1 DEF Explained, Atomic!Admitted
<1>4. pods' = [pods EXCEPT ![q] = req[q].patched]
  BY DEF Store
<1>5. UNCHANGED views
  BY DEF Store, HistoryNext, HistoryInv, ViewsKnown, Listed
<1> QED
  BY <1>2, <1>3, <1>4, <1>5 DEF Atomic!CreatePod

LEMMA StoreUpdates ==
  ASSUME TypeOK, HistoryInv, HistoryNext, NEW q \in Pods, Store(q),
         req[q].op = "UPDATE"
  PROVE  Atomic!UpdatePod(q)
<1>1. Explained(q, req[q]) /\ IsRequest(req[q]) /\ req[q].phase = "answered"
  BY DEF TypeOK, HistoryInv, RequestsExplained, Store
<1>2. /\ pods[q] # NoPod
      /\ \E labels \in SUBSET Labels, exclude \in BOOLEAN :
           req[q].obj = [pods[q] EXCEPT !.labels = labels, !.exclude = exclude]
  BY <1>1 DEF Explained, Requested
<1>3. req[q].patched \in Atomic!Admitted(req[q].obj)
  BY <1>1 DEF Explained, Atomic!Admitted
<1>4. /\ pods' = [pods EXCEPT ![q] = req[q].patched]
      /\ Atomic!SameSpec(req[q].patched, pods[q])
  BY DEF Store, PodSpec, Atomic!SameSpec
<1>5. UNCHANGED views
  BY DEF Store, HistoryNext, HistoryInv, ViewsKnown, Listed
<1>6. PICK labels \in SUBSET Labels, exclude \in BOOLEAN :
        req[q].patched \in
          Atomic!Admitted([pods[q] EXCEPT !.labels = labels, !.exclude = exclude])
  BY <1>2, <1>3
<1> QED
  BY <1>2, <1>4, <1>5, <1>6 DEF Atomic!UpdatePod

LEMMA StepIsAtomic ==
  ASSUME TypeOK, HistoryInv, HistoryNext
  PROVE  Atomic!Next \/ UNCHANGED Atomic!vars
<1>1. views \subseteq views'
  BY DEF HistoryNext
<1>2. CASE UNCHANGED pods
  BY <1>1, <1>2 DEF Atomic!Next, Atomic!ChangePresets
<1>3. ASSUME NEW q \in Pods, Store(q)
      PROVE  Atomic!Next
  <2>1. Explained(q, req[q]) /\ req[q].phase = "answered"
    BY <1>3 DEF HistoryInv, RequestsExplained, Store
  <2>2. req[q].op = "CREATE" \/ req[q].op = "UPDATE"
    BY <2>1 DEF Explained, Requested
  <2> QED
    BY <1>3, <2>2, StoreCreates, StoreUpdates DEF Atomic!Next
<1>4. UNCHANGED pods \/ \E q \in Pods : Store(q)
  BY DEF HistoryNext, Next, WritePreset, DeletePreset, SyncCache, SubmitCreate,
         SubmitUpdate, Handle, ListFails, CallIgnored, Refuse
<1> QED
  BY <1>2, <1>3, <1>4

\* Every behaviour of the webhook, the cache and the API server is one of
\* AtomicAdmission: whatever is written, lost, refused or seen late, a stored
\* pod is the outcome of one admission on presets that were there together.
THEOREM AdmissionsAreAtomic == HistorySpec => AdmissionIsAtomic
<1>1. HistoryInit => Init /\ Atomic!Init /\ HistoryInv
  <2>1. Init => Listed(presets) = {}
    BY DEF Init, Listed
  <2>2. HistoryInit => Atomic!Init
    BY <2>1 DEF HistoryInit, Init, Atomic!Init
  <2> QED
    BY <2>2, HistoryStart DEF HistoryInit
<1>2. [HistoryNext]_<<vars, views>> => [Next]_vars
  BY DEF HistoryNext
<1>3. TypeOK /\ HistoryInv /\ [HistoryNext]_<<vars, views>> => HistoryInv'
  <2>1. ASSUME HistoryInv, UNCHANGED <<vars, views>>
        PROVE  HistoryInv'
    <3>1. UNCHANGED <<log, presets, cache, pods, req, views>>
      BY <2>1 DEF vars
    <3>2. RequestsExplained' /\ ViewsKnown'
      BY <2>1, <3>1, AllRequests DEF HistoryInv, ViewsKnown, Listed
    <3> QED
      BY <3>2 DEF HistoryInv
  <2> QED
    BY <2>1, HistoryStep
<1>4. TypeOK /\ HistoryInv /\ [HistoryNext]_<<vars, views>>
        => [Atomic!Next]_(Atomic!vars)
  <2>1. UNCHANGED <<vars, views>> => UNCHANGED Atomic!vars
    BY DEF vars, Atomic!vars
  <2> QED
    BY <2>1, StepIsAtomic
<1>5. HistorySpec => Spec
  BY <1>1, <1>2, PTL DEF HistorySpec, Spec
<1> QED
  BY <1>1, <1>3, <1>4, <1>5, TypeCorrect, PTL
  DEF HistorySpec, AdmissionIsAtomic, Atomic!Spec
=============================================================================
