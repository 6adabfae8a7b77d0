------------------------- MODULE PodPresetMergeLoop -------------------------
(***************************************************************************)
(* The merge functions of pkg/controller/podpreset/handler.go as they are  *)
(* written: a map per key filled from the container's (or pod's) own list, *)
(* then a loop over the entries the presets inject.  mergeEnv and          *)
(* mergeVolumes have one map, by name; mergeVolumeMounts has a second one, *)
(* by mount path.  PodPresetMerge says the same without the maps; the      *)
(* invariants below relate the two.                                        *)
(***************************************************************************)
EXTENDS PodPresetMerge

CONSTANTS
  Entries,  \* entries of the lists, with fields "name" and "path"
  MaxLen,   \* bound on the length of a list
  Absent    \* no entry

ASSUME LoopAssumption == Absent \notin Entries /\ MaxLen \in Nat

VARIABLES
  own,     \* the list merged into
  add,     \* the entries injected
  keys,    \* {"name"} for env and volumes, {"name", "path"} for mounts
  phase,   \* "indexing" own, "merging" add, or "done"
  next,    \* position of the loop in own or add
  index,   \* index[key][x] is what the map for key holds at x
  merged,  \* the merged list so far
  failed   \* whether errs is not empty

vars == <<own, add, keys, phase, next, index, merged, failed>>

Values(key) == { v[key] : v \in Entries }

Init ==
  /\ own \in BoundedSeq(Entries, MaxLen)
  /\ add \in BoundedSeq(Entries, MaxLen)
  /\ keys \in { {"name"}, {"name", "path"} }
  /\ phase = "indexing"
  /\ next = 1
  /\ index = [key \in keys |-> [x \in Values(key) |-> Absent]]
  /\ merged = own
  /\ failed = FALSE

\* Mutant: a later entry of the list does not replace an earlier one.
IndexFirst ==
  /\ phase = "indexing" /\ next <= Len(own)
  /\ index' = [key \in keys |->
                 IF index[key][own[next][key]] = Absent
                 THEN [index[key] EXCEPT ![own[next][key]] = own[next]]
                 ELSE index[key]]
  /\ next' = next + 1
  /\ UNCHANGED <<own, add, keys, phase, merged, failed>>

\* Mutant: a step of two.
IndexEveryOther ==
  /\ phase = "indexing" /\ next <= Len(own)
  /\ index' = [key \in keys |->
                 [index[key] EXCEPT ![own[next][key]] = own[next]]]
  /\ next' = next + 2
  /\ UNCHANGED <<own, add, keys, phase, merged, failed>>

\* One iteration of the loop that fills the maps.
IndexOwn ==
  /\ phase = "indexing" /\ next <= Len(own)
  /\ index' = [key \in keys |->
                 [index[key] EXCEPT ![own[next][key]] = own[next]]]
  /\ next' = next + 1
  /\ UNCHANGED <<own, add, keys, phase, merged, failed>>

StartMerging ==
  /\ phase = "indexing" /\ next > Len(own)
  /\ phase' = "merging"
  /\ next' = 1
  /\ UNCHANGED <<own, add, keys, index, merged, failed>>

Found(key) == index[key][add[next][key]]

\* Mutant: the map by path is not extended.
MergeWithoutPath ==
  /\ phase = "merging" /\ next <= Len(add)
  /\ index' = [index EXCEPT !["name"] =
                 IF Found("name") = Absent
                 THEN [@ EXCEPT ![add[next].name] = add[next]] ELSE @]
  /\ merged' = IF Found("name") = Absent THEN Append(merged, add[next])
                                         ELSE merged
  /\ failed' = (failed \/ \E key \in keys : Found(key) \notin {Absent, add[next]})
  /\ next' = next + 1
  /\ UNCHANGED <<own, add, keys, phase>>

\* Mutant: only the last entry's error counts.
MergeForgetful ==
  /\ phase = "merging" /\ next <= Len(add)
  /\ index' = [key \in keys |->
                 IF Found(key) = Absent
                 THEN [index[key] EXCEPT ![add[next][key]] = add[next]]
                 ELSE index[key]]
  /\ merged' = IF Found("name") = Absent THEN Append(merged, add[next])
                                         ELSE merged
  /\ failed' = (\E key \in keys : Found(key) \notin {Absent, add[next]})
  /\ next' = next + 1
  /\ UNCHANGED <<own, add, keys, phase>>

\* One iteration of the loop over the injected entries.
MergeOne ==
  /\ phase = "merging" /\ next <= Len(add)
  /\ index' = [key \in keys |->
                 IF Found(key) = Absent
                 THEN [index[key] EXCEPT ![add[next][key]] = add[next]]
                 ELSE index[key]]
  /\ merged' = IF Found("name") = Absent THEN Append(merged, add[next])
                                         ELSE merged
  /\ failed' = (failed \/ \E key \in keys : Found(key) \notin {Absent, add[next]})
  /\ next' = next + 1
  /\ UNCHANGED <<own, add, keys, phase>>

\* A merge that failed returns nil and the errors.
Return ==
  /\ phase = "merging" /\ next > Len(add)
  /\ phase' = "done"
  /\ merged' = IF failed THEN <<>> ELSE merged
  /\ UNCHANGED <<own, add, keys, next, index, failed>>

Next == IndexOwn \/ StartMerging \/ MergeOne \/ Return

Spec == Init /\ [][Next]_vars

-----------------------------------------------------------------------------
(***************************************************************************)
(* Type correctness.                                                       *)
(***************************************************************************)
TypeOK ==
  /\ own \in Seq(Entries) /\ add \in Seq(Entries) /\ merged \in Seq(Entries)
  /\ keys \in { {"name"}, {"name", "path"} }
  /\ phase \in {"indexing", "merging", "done"}
  /\ next \in 1..(MaxLen + 1)
  /\ DOMAIN index = keys
  /\ \A key \in keys : index[key] \in [Values(key) -> Entries \cup {Absent}]
  /\ failed \in BOOLEAN

\* The loops compute what PodPresetMerge says: before any conflict the maps
\* hold the last entry of the merged list with each key, so that looking an
\* entry up in the list or in the maps is the same, and after a conflict the
\* result is an error whatever they hold.
LoopImplementsMerge ==
  /\ phase = "merging" =>
       LET run == MergeRun(own, keys, add)[next - 1]
       IN  failed = run.err /\ (~ failed => merged = run.list)
  /\ phase = "done" =>
       [err |-> failed, list |-> merged] = MergeEntries(own, keys, add)

\* When a merge succeeds, in terms of its inputs alone: whatever is injected
\* under a key is the last of the list's own entries with that key or, when
\* it has none, the one entry everybody injects under it.  An own entry that
\* repeats a key, as a volume mounted twice does, thus hides the earlier one.
Consistent ==
  \A key \in keys, v \in ToSet(add) :
    IF Has(own, key, v[key])
    THEN LastWith(own, key, v[key]) = v
    ELSE \A w \in ToSet(add) : w[key] = v[key] => w = v

SucceedsIffConsistent == phase = "done" => (failed <=> ~ Consistent)

\* Whether a merge fails does not depend on the order of the injected entries,
\* though the maps of the loops are overwritten as they go: a repeated key is
\* a conflict either way round.
OrderDoesNotDecide ==
  phase = "done" =>
    \A p \in Bijection(DOMAIN add, DOMAIN add) :
      MergeEntries(own, keys, [i \in DOMAIN add |-> add[p[i]]]).err = failed
=============================================================================
