------------------------- MODULE PodAdmissionHistory -------------------------
(***************************************************************************)
(* PodAdmission with a history of what the API server held, so that the    *)
(* stored pods can be compared with AtomicAdmission.                       *)
(***************************************************************************)
EXTENDS PodAdmission

VARIABLE views  \* the sets of PodPresets the API server has held

HistoryInit == Init /\ views = { Listed(presets) }

HistoryNext == Next /\ views' = views \cup { Listed(presets)' }

HistorySpec == HistoryInit /\ [][HistoryNext]_<<vars, views>>

\* What Handle answers when it lists view, in whatever order.
AnswersOn(obj, view) ==
  { mutatePodsFn(obj, list, obj.namespace) :
    list \in { l \in SetToSeqs(view) : ~ MutateFails(obj, l, obj.namespace) } }

Atomic == INSTANCE AtomicAdmission WITH Answers <- AnswersOn

\* Handle takes part in an admission at one moment of it, while presets are
\* written, the cache follows, and calls are lost or refused: what is stored
\* in the end is what an atomic admission, on one state the presets really
\* had, would have stored.
AdmissionIsAtomic == Atomic!Spec
=============================================================================
