--------------------------- MODULE AtomicAdmission ---------------------------
(***************************************************************************)
(* What the pod webhook promises of the pods that are stored: each of them *)
(* went through the webhook at one moment, on one view of the PodPresets,  *)
(* or past it.  Requests, caches, lists and the order in which calls,      *)
(* answers and writes meet are left out; PodAdmission implements this.     *)
(***************************************************************************)
CONSTANTS
  Pods, NoPod, Templates, Labels,
  Answers(_, _)  \* Answers(obj, view): what a webhook that sees the presets
                 \* of view may make of obj

VARIABLES
  pods,  \* pods[q] is the stored pod or NoPod
  views  \* the sets of PodPresets that were there at a time

vars == <<pods, views>>

Init ==
  /\ pods = [q \in Pods |-> NoPod]
  /\ views = {{}}

\* Users write PodPresets.
ChangePresets ==
  /\ views \subseteq views'
  /\ UNCHANGED pods

Admitted(obj) == {obj} \cup UNION { Answers(obj, view) : view \in views }

CreatePod(q) ==
  /\ pods[q] = NoPod
  /\ \E obj \in Templates : \E pod \in Admitted(obj) :
       pods' = [pods EXCEPT ![q] = pod]
  /\ UNCHANGED views

\* An update leaves the spec of the pod as it is.
SameSpec(pod, other) ==
  /\ pod.volumes = other.volumes /\ pod.containers = other.containers
  /\ pod.dnsPolicy = other.dnsPolicy /\ pod.dnsOptions = other.dnsOptions

UpdatePod(q) ==
  /\ pods[q] # NoPod
  /\ \E labels \in SUBSET Labels, exclude \in BOOLEAN :
       \E pod \in Admitted([pods[q] EXCEPT !.labels = labels, !.exclude = exclude]) :
         /\ SameSpec(pod, pods[q])
         /\ pods' = [pods EXCEPT ![q] = pod]
  /\ UNCHANGED views

Next ==
  \/ ChangePresets
  \/ \E q \in Pods : CreatePod(q)
  \/ \E q \in Pods : UpdatePod(q)

Spec == Init /\ [][Next]_vars
=============================================================================
