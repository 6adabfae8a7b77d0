---------------------- MODULE PodPresetMergeLoopProofs ----------------------
(***************************************************************************)
(* The loops of the merge functions compute PodPresetMerge's MergeEntries, *)
(* and MergeEntries reports an error exactly when the entries disagree,    *)
(* for lists of every length over any entries.                             *)
(***************************************************************************)
EXTENDS PodPresetMergeLoop, PodPresetMergeFacts

(***************************************************************************)
(* Looking a key up in a list.                                             *)
(***************************************************************************)
LEMMA LastIsUnique ==
  ASSUME NEW S, NEW list \in Seq(S), NEW key, NEW x,
         NEW i \in 1..Len(list), list[i][key] = x,
         \A j \in 1..Len(list) : list[j][key] = x => j <= i
  PROVE  Has(list, key, x) /\ LastWith(list, key, x) = list[i]
<1> DEFINE IsLast(m) == /\ list[m][key] = x
                        /\ \A j \in DOMAIN list : list[j][key] = x => j <= m
<1>1. DOMAIN list = 1..Len(list) /\ Len(list) \in Nat
  OBVIOUS
<1>2. i \in DOMAIN list /\ IsLast(i)
  BY <1>1
<1>3. ASSUME NEW m \in DOMAIN list, IsLast(m)
      PROVE  m = i
  BY <1>1, <1>2, <1>3
<1>4. (CHOOSE m \in DOMAIN list : IsLast(m)) = i
  BY <1>2, <1>3
<1> QED
  BY <1>2, <1>4 DEF Has, LastWith

\* After an entry is appended, it is the one found under its key.
LEMMA AppendedIsLast ==
  ASSUME NEW S, NEW list \in Seq(S), NEW v \in S, NEW key, NEW x
  PROVE  IF v[key] = x
         THEN /\ Has(Append(list, v), key, x)
              /\ LastWith(Append(list, v), key, x) = v
         ELSE /\ Has(Append(list, v), key, x) <=> Has(list, key, x)
              /\ Has(list, key, x) =>
                   LastWith(Append(list, v), key, x) = LastWith(list, key, x)
<1> DEFINE new == Append(list, v)
           n == Len(list)
<1>1. /\ new \in Seq(S) /\ n \in Nat /\ Len(new) = n + 1
      /\ DOMAIN list = 1..n /\ DOMAIN new = 1..(n + 1)
      /\ \A j \in 1..n : new[j] = list[j]
      /\ new[n + 1] = v
  OBVIOUS
<1> HIDE DEF new, n
<1>2. CASE v[key] = x
  <2>1. n + 1 \in 1..Len(new) /\ \A j \in 1..Len(new) : j <= n + 1
    BY <1>1
  <2>2. Has(new, key, x) /\ LastWith(new, key, x) = new[n + 1]
    BY <1>1, <1>2, <2>1, LastIsUnique
  <2> QED
    BY <1>1, <1>2, <2>2 DEF new
<1>3. CASE v[key] # x
  <2>1. Has(new, key, x) <=> Has(list, key, x)
    BY <1>1, <1>3 DEF Has
  <2>2. ASSUME Has(list, key, x)
        PROVE  LastWith(new, key, x) = LastWith(list, key, x)
    <3> DEFINE T == { i \in 1..n : list[i][key] = x }
    <3>1. T # {} /\ T \subseteq 1..n
      BY <1>1, <2>2 DEF Has
    <3>2. PICK m \in T : \A y \in T : y <= m
      BY <1>1, <3>1, GreatestIn
    <3>3. LastWith(list, key, x) = list[m]
      <4>1. m \in 1..Len(list) /\ list[m][key] = x
        BY <3>2 DEF n
      <4>2. \A j \in 1..Len(list) : list[j][key] = x => j <= m
        BY <3>2 DEF n
      <4> QED
        BY <4>1, <4>2, LastIsUnique
    <3>4. LastWith(new, key, x) = new[m]
      <4>1. m \in 1..Len(new) /\ new[m][key] = x
        BY <1>1, <3>2
      <4>2. \A j \in 1..Len(new) : new[j][key] = x => j <= m
        BY <1>1, <1>3, <3>2
      <4> QED
        BY <1>1, <4>1, <4>2, LastIsUnique
    <3> QED
      BY <1>1, <3>2, <3>3, <3>4
  <2> QED
    BY <1>3, <2>1, <2>2 DEF new
<1> QED
  BY <1>2, <1>3

LEMMA OnlyIfThere ==
  ASSUME NEW S, NEW list \in Seq(S), NEW v \in ToSet(list), NEW key
  PROVE  Has(list, key, v[key])
BY DEF Has, ToSet

(***************************************************************************)
(* When a merge is an error, from its inputs alone.                        *)
(***************************************************************************)
\* Consistent, of the first n entries injected.
Agree(o, ks, a, n) ==
  \A key \in ks, j \in 1..n :
    IF Has(o, key, a[j][key])
    THEN LastWith(o, key, a[j][key]) = a[j]
    ELSE \A m \in 1..n : a[m][key] = a[j][key] => a[m] = a[j]

\* What a list without conflicts so far answers when it is asked for a key:
\* the own entry that has it or else any of the injected ones that have it.
Lookup(o, a, n, key, list) ==
  \A x :
    /\ Has(list, key, x) <=> Has(o, key, x) \/ \E j \in 1..n : a[j][key] = x
    /\ Has(o, key, x) => LastWith(list, key, x) = LastWith(o, key, x)
    /\ \A j \in 1..n :
         ~ Has(o, key, x) /\ a[j][key] = x => LastWith(list, key, x) = a[j]

AgreeSoFar(o, ks, a, n, r) ==
  /\ r.err <=> ~ Agree(o, ks, a, n)
  /\ ~ r.err => \A key \in ks : Lookup(o, a, n, key, r.list)

LEMMA OneMoreAgrees ==
  ASSUME NEW o, NEW ks, NEW a, NEW n \in Nat, NEW list,
         Agree(o, ks, a, n),
         \A key \in ks : Lookup(o, a, n, key, list)
  PROVE  Agree(o, ks, a, n + 1) <=> ~ Conflicts(list, ks, a[n + 1])
<1> DEFINE v == a[n + 1]
<1>1. ASSUME Conflicts(list, ks, v)
      PROVE  ~ Agree(o, ks, a, n + 1)
  <2>1. PICK key \in ks : Has(list, key, v[key]) /\ LastWith(list, key, v[key]) # v
    BY <1>1 DEF Conflicts
  <2>2. CASE Has(o, key, v[key])
    <3>1. LastWith(o, key, v[key]) # v
      BY <2>1, <2>2 DEF Lookup
    <3> QED
      BY <2>2, <3>1 DEF Agree
  <2>3. CASE ~ Has(o, key, v[key])
    <3>1. PICK j \in 1..n : a[j][key] = v[key]
      BY <2>1, <2>3 DEF Lookup
    <3>2. a[j] # v
      BY <2>1, <2>3, <3>1 DEF Lookup
    <3>3. j \in 1..(n + 1) /\ n + 1 \in 1..(n + 1)
      OBVIOUS
    <3> QED
      BY <2>3, <3>1, <3>2, <3>3 DEF Agree
  <2> QED
    BY <2>2, <2>3
<1>2. ASSUME ~ Conflicts(list, ks, v), NEW key \in ks, NEW j \in 1..(n + 1)
      PROVE  IF Has(o, key, a[j][key])
             THEN LastWith(o, key, a[j][key]) = a[j]
             ELSE \A m \in 1..(n + 1) : a[m][key] = a[j][key] => a[m] = a[j]
  <2>0. Has(list, key, v[key]) => LastWith(list, key, v[key]) = v
    BY <1>2 DEF Conflicts
  <2>1. CASE Has(o, key, a[j][key])
    <3>1. CASE j = n + 1
      BY <2>0, <2>1, <3>1 DEF Lookup
    <3>2. CASE j # n + 1
      <4>1. j \in 1..n
        BY <3>2
      <4> QED
        BY <2>1, <4>1 DEF Agree
    <3> QED
      BY <3>1, <3>2
  <2>2. CASE ~ Has(o, key, a[j][key])
    <3>1. ASSUME NEW m \in 1..n, a[m][key] = v[key], ~ Has(o, key, v[key])
          PROVE  a[m] = v
      <4>1. Has(list, key, v[key]) /\ LastWith(list, key, v[key]) = a[m]
        BY <3>1 DEF Lookup
      <4> QED
        BY <2>0, <4>1
    <3>2. ASSUME NEW m \in 1..(n + 1), a[m][key] = a[j][key]
          PROVE  a[m] = a[j]
      <4>1. CASE m = n + 1 /\ j = n + 1
        BY <4>1
      <4>2. CASE m = n + 1 /\ j # n + 1
        <5>1. j \in 1..n
          BY <4>2
        <5> QED
          BY <2>2, <3>1, <3>2, <4>2, <5>1
      <4>3. CASE m # n + 1 /\ j = n + 1
        <5>1. m \in 1..n
          BY <4>3
        <5> QED
          BY <2>2, <3>1, <3>2, <4>3, <5>1
      <4>4. CASE m # n + 1 /\ j # n + 1
        <5>1. m \in 1..n /\ j \in 1..n
          BY <4>4
        <5> QED
          BY <2>2, <3>2, <5>1 DEF Agree
      <4> QED
        BY <4>1, <4>2, <4>3, <4>4
    <3> QED
      BY <2>2, <3>2
  <2> QED
    BY <2>1, <2>2
<1>3. ASSUME ~ Conflicts(list, ks, v)
      PROVE  Agree(o, ks, a, n + 1)
  BY <1>2, <1>3 DEF Agree
<1> QED
  BY <1>1, <1>3

LEMMA MoreDisagree ==
  ASSUME NEW o, NEW ks, NEW a, NEW n \in Nat, ~ Agree(o, ks, a, n)
  PROVE  ~ Agree(o, ks, a, n + 1)
<1>1. \A j \in 1..n : j \in 1..(n + 1)
  OBVIOUS
<1> QED
  BY <1>1 DEF Agree

LEMMA LookupKept ==
  ASSUME NEW S, NEW o, NEW a, NEW n \in Nat, NEW ks, "name" \in ks,
         NEW acc \in Results(S), a[n + 1] \in S,
         NEW key \in ks, Lookup(o, a, n, key, acc.list),
         ~ Conflicts(acc.list, ks, a[n + 1])
  PROVE  Lookup(o, a, n + 1, key, MergeEntry(acc, ks, a[n + 1]).list)
<1> DEFINE v == a[n + 1]
           list == acc.list
           new == MergeEntry(acc, ks, v).list
<1>0. list \in Seq(S) /\ \A j \in 1..(n + 1) : j \in 1..n \/ j = n + 1
  BY DEF Results
<1>1. \A k \in ks : Has(list, k, v[k]) => LastWith(list, k, v[k]) = v
  BY DEF Conflicts
<1>2. n + 1 \in 1..(n + 1) /\ \A j \in 1..n : j \in 1..(n + 1)
  OBVIOUS
<1>3. ASSUME NEW x
      PROVE  /\ Has(new, key, x) <=> Has(list, key, x) \/ v[key] = x
             /\ Has(list, key, x) => LastWith(new, key, x) = LastWith(list, key, x)
             /\ v[key] = x => LastWith(new, key, x) = v
  <2>1. CASE Has(list, "name", v.name)
    <3>1. new = list
      BY <2>1 DEF MergeEntry
    <3>2. v \in ToSet(list)
      BY <1>0, <1>1, <2>1, LastWithIsThere
    <3>3. Has(list, key, v[key])
      BY <1>0, <3>2, OnlyIfThere
    <3> QED
      BY <1>1, <3>1, <3>3
  <2>2. CASE ~ Has(list, "name", v.name)
    <3>1. new = Append(list, v)
      BY <2>2 DEF MergeEntry
    <3> HIDE DEF new, list
    <3>2. IF v[key] = x
          THEN Has(new, key, x) /\ LastWith(new, key, x) = v
          ELSE /\ Has(new, key, x) <=> Has(list, key, x)
               /\ Has(list, key, x) =>
                    LastWith(new, key, x) = LastWith(list, key, x)
      BY <1>0, <3>1, AppendedIsLast
    <3> QED
      BY <1>1, <3>2
  <2> QED
    BY <2>1, <2>2
<1> HIDE DEF new, list
<1>4. ASSUME NEW x
      PROVE  /\ Has(new, key, x) <=>
                  Has(o, key, x) \/ \E j \in 1..(n + 1) : a[j][key] = x
             /\ Has(o, key, x) => LastWith(new, key, x) = LastWith(o, key, x)
             /\ \A j \in 1..(n + 1) :
                  ~ Has(o, key, x) /\ a[j][key] = x => LastWith(new, key, x) = a[j]
  <2>1. /\ Has(list, key, x) <=> Has(o, key, x) \/ \E j \in 1..n : a[j][key] = x
        /\ Has(o, key, x) => LastWith(list, key, x) = LastWith(o, key, x)
        /\ \A j \in 1..n :
             ~ Has(o, key, x) /\ a[j][key] = x => LastWith(list, key, x) = a[j]
    BY DEF Lookup, list
  <2>2. Has(new, key, x) <=>
          Has(o, key, x) \/ \E j \in 1..(n + 1) : a[j][key] = x
    BY <1>0, <1>2, <1>3, <2>1
  <2>3. Has(o, key, x) => LastWith(new, key, x) = LastWith(o, key, x)
    BY <1>3, <2>1
  <2>4. ASSUME NEW j \in 1..(n + 1), ~ Has(o, key, x), a[j][key] = x
        PROVE  LastWith(new, key, x) = a[j]
    <3>1. CASE j = n + 1
      BY <1>3, <2>4, <3>1
    <3>2. CASE j \in 1..n
      BY <1>3, <2>1, <2>4, <3>2
    <3> QED
      BY <1>0, <3>1, <3>2
  <2> QED
    BY <2>2, <2>3, <2>4
<1> QED
  BY <1>4 DEF Lookup, new

LEMMA MergeRunAgrees ==
  ASSUME NEW S, NEW o \in Seq(S), NEW a \in Seq(S), NEW ks, "name" \in ks
  PROVE  \A i \in 0..Len(a) : AgreeSoFar(o, ks, a, i, MergeRun(o, ks, a)[i])
<1> DEFINE n == Len(a)
           run == MergeRun(o, ks, a)
           Good == { i \in 0..n : AgreeSoFar(o, ks, a, i, run[i]) }
<1>0. n \in Nat /\ \A i \in 1..n : a[i] \in S
  OBVIOUS
<1>1. /\ run[0] = [err |-> FALSE, list |-> o]
      /\ \A i \in 1..n : run[i] = MergeEntry(run[i - 1], ks, a[i])
  BY MergeRunDef
<1>2. \A i \in 0..n : run[i] \in Results(S)
  BY MergeRunFacts DEF MergedSoFar
<1> HIDE DEF run, n
<1>3. 0 \in Good
  <2>1. Agree(o, ks, a, 0) /\ \A key \in ks : Lookup(o, a, 0, key, o)
    BY DEF Agree, Lookup
  <2>2. AgreeSoFar(o, ks, a, 0, run[0])
    BY <1>1, <2>1 DEF AgreeSoFar
  <2> QED
    BY <1>0, <2>2
<1>4. ASSUME NEW i \in 1..n, i - 1 \in Good
      PROVE  i \in Good
  <2> DEFINE acc == run[i - 1]
             m == i - 1
  <2>0. i \in 0..n /\ m \in Nat /\ m \in 0..n /\ i = m + 1
    BY <1>0
  <2>1. AgreeSoFar(o, ks, a, m, acc)
    BY <1>4
  <2>2. run[i] = MergeEntry(acc, ks, a[m + 1]) /\ a[m + 1] \in S
    BY <1>0, <1>1, <2>0
  <2>3. acc \in Results(S)
    BY <1>2, <2>0
  <2> HIDE DEF acc, m
  <2>4. run[i].err = (acc.err \/ Conflicts(acc.list, ks, a[m + 1]))
    BY <2>2 DEF MergeEntry
  <2>5. AgreeSoFar(o, ks, a, m + 1, run[i])
    <3>1. CASE acc.err
      <4>1. ~ Agree(o, ks, a, m + 1)
        BY <2>0, <2>1, <3>1, MoreDisagree DEF AgreeSoFar
      <4> QED
        BY <2>4, <3>1, <4>1 DEF AgreeSoFar
    <3>2. CASE ~ acc.err
      <4>1. Agree(o, ks, a, m) /\ \A key \in ks : Lookup(o, a, m, key, acc.list)
        BY <2>1, <3>2 DEF AgreeSoFar
      <4>2. Agree(o, ks, a, m + 1) <=> ~ Conflicts(acc.list, ks, a[m + 1])
        BY <2>0, <4>1, OneMoreAgrees
      <4>3. ASSUME ~ run[i].err, NEW key \in ks
            PROVE  Lookup(o, a, m + 1, key, run[i].list)
        BY <2>0, <2>2, <2>3, <2>4, <4>1, <4>3, LookupKept
      <4> QED
        BY <2>4, <3>2, <4>2, <4>3 DEF AgreeSoFar
    <3> QED
      BY <3>1, <3>2
  <2> QED
    BY <2>0, <2>5
<1>5. 0..n \subseteq Good
  <2> HIDE DEF Good
  <2> QED
    BY <1>0, <1>3, <1>4, LoopInduction
<1> QED
  BY <1>5 DEF run, n

\* A merge is an error exactly when the entries disagree.
LEMMA ErrorIffDisagree ==
  ASSUME NEW S, NEW o \in Seq(S), NEW a \in Seq(S), NEW ks, "name" \in ks
  PROVE  /\ MergeEntries(o, ks, a) \in Results(S)
         /\ MergeEntries(o, ks, a).err <=> ~ Agree(o, ks, a, Len(a))
<1> DEFINE last == MergeRun(o, ks, a)[Len(a)]
<1>1. Len(a) \in 0..Len(a)
  OBVIOUS
<1>2. last.err <=> ~ Agree(o, ks, a, Len(a))
  BY <1>1, MergeRunAgrees DEF AgreeSoFar
<1>3. last \in Results(S)
  BY <1>1, MergeRunFacts DEF MergedSoFar
<1> HIDE DEF last
<1>4. MergeEntries(o, ks, a) = IF last.err THEN [err |-> TRUE, list |-> <<>>]
                                           ELSE last
  BY DEF MergeEntries, last
<1> QED
  BY <1>2, <1>3, <1>4 DEF Results

(***************************************************************************)
(* The loops: what the maps hold while they are filled.                    *)
(***************************************************************************)
\* For every key the maps hold the last entry of list that has it.
IndexIs(list) ==
  \A key \in keys : \A x \in Values(key) :
    index[key][x] = IF Has(list, key, x) THEN LastWith(list, key, x) ELSE Absent

Indexing ==
  phase = "indexing" =>
    /\ next \in 1..(Len(own) + 1)
    /\ merged = own
    /\ failed = FALSE
    /\ IndexIs(SubSeq(own, 1, next - 1))

\* The maps matter only as long as no conflict was met.
Merging ==
  phase = "merging" =>
    /\ next \in 1..(Len(add) + 1)
    /\ failed = MergeRun(own, keys, add)[next - 1].err
    /\ ~ failed => /\ merged = MergeRun(own, keys, add)[next - 1].list
                   /\ IndexIs(merged)

Merged ==
  phase = "done" =>
    [err |-> failed, list |-> merged] = MergeEntries(own, keys, add)

Bounded == Len(own) <= MaxLen /\ Len(add) <= MaxLen

LoopInv == TypeOK /\ Bounded /\ Indexing /\ Merging /\ Merged

LEMMA InitLoopInv == Init => LoopInv
<1> SUFFICES ASSUME Init
             PROVE  LoopInv
  OBVIOUS
<1>1. /\ own \in Seq(Entries) /\ Len(own) \in 0..MaxLen
      /\ add \in Seq(Entries) /\ Len(add) \in 0..MaxLen
  BY LoopAssumption DEF Init, BoundedSeq, SeqOf
<1>2. TypeOK
  <2>1. next \in 1..(MaxLen + 1)
    BY LoopAssumption DEF Init
  <2>2. \A key \in keys : index[key] \in [Values(key) -> Entries \cup {Absent}]
    BY DEF Init
  <2> QED
    BY <1>1, <2>1, <2>2 DEF Init, TypeOK
<1>3. SubSeq(own, 1, 0) = << >>
  BY <1>1
<1>4. IndexIs(SubSeq(own, 1, 0))
  BY <1>3 DEF Init, IndexIs, Has
<1> QED
  BY <1>1, <1>2, <1>4 DEF Init, LoopInv, Bounded, Indexing, Merging, Merged

\* A step of either loop that puts entry v in the maps.
LEMMA MapTyped ==
  ASSUME NEW v \in Entries, NEW key, NEW f \in [Values(key) -> Entries \cup {Absent}]
  PROVE  /\ v[key] \in Values(key)
         /\ [f EXCEPT ![v[key]] = v] \in [Values(key) -> Entries \cup {Absent}]
BY DEF Values

LEMMA IndexOwnKeeps ==
  ASSUME LoopInv, IndexOwn
  PROVE  LoopInv'
<1> DEFINE v == own[next]
           list == SubSeq(own, 1, next - 1)
<1> USE DEF LoopInv
<1>1. /\ phase = "indexing" /\ next \in 1..Len(own) /\ Len(own) <= MaxLen
      /\ own \in Seq(Entries) /\ v \in Entries /\ next' = next + 1
      /\ phase' = phase /\ own' = own /\ keys' = keys
      /\ MaxLen \in Nat /\ Len(own) \in Nat
  BY LoopAssumption DEF IndexOwn, TypeOK, Bounded
<1>2. /\ list \in Seq(Entries)
      /\ SubSeq(own', 1, next' - 1) = Append(list, v)
  BY <1>1
<1> HIDE DEF v, list
<1>3. \A key \in keys : index[key] \in [Values(key) -> Entries \cup {Absent}]
  BY DEF TypeOK
<1>4. \A key \in keys : index'[key] = [index[key] EXCEPT ![v[key]] = v]
  BY DEF IndexOwn, v
<1>5. IndexIs(list)
  BY <1>1 DEF Indexing, list
<1>6. TypeOK'
  <2>1. \A key \in keys : index'[key] \in [Values(key) -> Entries \cup {Absent}]
    <3>1. ASSUME NEW key \in keys
          PROVE  [index[key] EXCEPT ![v[key]] = v] \in
                   [Values(key) -> Entries \cup {Absent}]
      BY <1>1, <1>3, MapTyped
    <3> QED
      BY <1>1, <1>4, <3>1
  <2>2. next' \in 1..(MaxLen + 1)
    BY <1>1
  <2> QED
    BY <1>1, <2>1, <2>2 DEF TypeOK, IndexOwn
<1>7. ASSUME NEW key \in keys, NEW x \in Values(key)
      PROVE  index'[key][x] = IF Has(Append(list, v), key, x)
                              THEN LastWith(Append(list, v), key, x)
                              ELSE Absent
  <2>1. index[key][x] = IF Has(list, key, x) THEN LastWith(list, key, x)
                                             ELSE Absent
    BY <1>5 DEF IndexIs
  <2>2. index'[key][x] = IF v[key] = x THEN v ELSE index[key][x]
    BY <1>1, <1>3, <1>4
  <2>3. IF v[key] = x
        THEN /\ Has(Append(list, v), key, x)
             /\ LastWith(Append(list, v), key, x) = v
        ELSE /\ Has(Append(list, v), key, x) <=> Has(list, key, x)
             /\ Has(list, key, x) =>
                  LastWith(Append(list, v), key, x) = LastWith(list, key, x)
    BY <1>1, <1>2, AppendedIsLast
  <2> QED
    BY <2>1, <2>2, <2>3
<1>8. Indexing'
  <2>1. IndexIs(SubSeq(own, 1, next - 1))'
    BY <1>1, <1>2, <1>7 DEF IndexIs
  <2>2. (next \in 1..(Len(own) + 1))'
    BY <1>1
  <2> QED
    BY <1>1, <2>1, <2>2 DEF Indexing, IndexOwn
<1> QED
  BY <1>1, <1>6, <1>8 DEF IndexOwn, Bounded, Merging, Merged

LEMMA StartMergingKeeps ==
  ASSUME LoopInv, StartMerging
  PROVE  LoopInv'
<1> USE DEF LoopInv
<1>1. /\ phase = "indexing" /\ next = Len(own) + 1 /\ next' = 1
      /\ own \in Seq(Entries) /\ add \in Seq(Entries)
      /\ merged = own /\ failed = FALSE /\ IndexIs(SubSeq(own, 1, next - 1))
      /\ UNCHANGED <<own, add, keys, index, merged, failed>>
      /\ phase' = "merging" /\ MaxLen \in Nat
  BY LoopAssumption DEF StartMerging, TypeOK, Indexing
<1>2. SubSeq(own, 1, next - 1) = own
  BY <1>1
<1>3. IndexIs(merged)'
  BY <1>1, <1>2 DEF IndexIs, Values
<1>4. MergeRun(own, keys, add)[0] = [err |-> FALSE, list |-> own]
  BY <1>1, MergeRunDef
<1>5. TypeOK'
  <2>1. next' \in 1..(MaxLen + 1)
    BY <1>1
  <2> QED
    BY <1>1, <2>1 DEF TypeOK
<1>6. Merging'
  <2>1. (next - 1)' = 0 /\ (next \in 1..(Len(add) + 1))'
    BY <1>1
  <2>2. MergeRun(own, keys, add)' = MergeRun(own, keys, add)
    BY <1>1
  <2>3. /\ failed = MergeRun(own, keys, add)[0].err
        /\ merged = MergeRun(own, keys, add)[0].list
    <3> DEFINE r == MergeRun(own, keys, add)[0]
    <3>1. r = [err |-> FALSE, list |-> own]
      BY <1>4
    <3> HIDE DEF r
    <3>2. r.err = FALSE /\ r.list = own
      BY <3>1
    <3> QED
      BY <1>1, <3>2 DEF r
  <2>4. /\ failed' = (MergeRun(own, keys, add)[next - 1].err)'
        /\ merged' = (MergeRun(own, keys, add)[next - 1].list)'
    BY <1>1, <2>1, <2>2, <2>3
  <2> QED
    BY <1>3, <2>1, <2>4 DEF Merging
<1> QED
  BY <1>1, <1>5, <1>6 DEF Bounded, Indexing, Merged

LEMMA MergeOneKeeps ==
  ASSUME LoopInv, MergeOne
  PROVE  LoopInv'
<1> DEFINE v == add[next]
           run == MergeRun(own, keys, add)
           acc == run[next - 1]
<1> USE DEF LoopInv
<1>1. /\ phase = "merging" /\ next \in 1..Len(add) /\ Len(add) <= MaxLen
      /\ own \in Seq(Entries) /\ add \in Seq(Entries) /\ v \in Entries
      /\ next' = next + 1 /\ phase' = phase
      /\ own' = own /\ add' = add /\ keys' = keys
      /\ merged \in Seq(Entries) /\ failed \in BOOLEAN
      /\ MaxLen \in Nat /\ Len(add) \in Nat /\ "name" \in keys
  BY LoopAssumption DEF MergeOne, TypeOK, Bounded
<1>2. run[next] = MergeEntry(acc, keys, v)
  <2>0. add \in Seq(Entries)
    BY <1>1
  <2>1. /\ run[0] = [err |-> FALSE, list |-> own]
        /\ \A i \in 1..Len(add) : run[i] = MergeEntry(run[i - 1], keys, add[i])
    BY <2>0, MergeRunDef
  <2> QED
    BY <1>1, <2>1
<1>3. failed = acc.err /\ (~ failed => merged = acc.list /\ IndexIs(merged))
  BY <1>1 DEF Merging
<1>4. /\ index' = [key \in keys |->
                     IF index[key][v[key]] = Absent
                     THEN [index[key] EXCEPT ![v[key]] = v]
                     ELSE index[key]]
      /\ merged' = IF index["name"][v.name] = Absent THEN Append(merged, v)
                                                     ELSE merged
      /\ failed' = (failed \/ \E key \in keys : index[key][v[key]] \notin {Absent, v})
  BY DEF MergeOne, Found
<1>5. /\ \A key \in keys : index[key] \in [Values(key) -> Entries \cup {Absent}]
      /\ DOMAIN index = keys
      /\ \A key \in keys : v[key] \in Values(key)
  BY <1>1, MapTyped DEF TypeOK
<1> HIDE DEF v, acc, run
<1>6. TypeOK'
  <2>1. \A key \in keys : index'[key] \in [Values(key) -> Entries \cup {Absent}]
    <3>1. ASSUME NEW key \in keys
          PROVE  [index[key] EXCEPT ![v[key]] = v] \in
                   [Values(key) -> Entries \cup {Absent}]
      BY <1>1, <1>5, MapTyped
    <3> QED
      BY <1>4, <1>5, <3>1
  <2>2. merged' \in Seq(Entries)
    BY <1>1, <1>4
  <2>3. next' \in 1..(MaxLen + 1)
    BY <1>1
  <2>4. failed' \in BOOLEAN /\ DOMAIN index' = keys
    BY <1>1, <1>4
  <2> QED
    BY <1>1, <2>1, <2>2, <2>3, <2>4 DEF TypeOK
\* As long as nothing failed, the maps answer for the list.
<1>7. ASSUME ~ failed
      PROVE  /\ Conflicts(merged, keys, v) <=>
                  \E key \in keys : index[key][v[key]] \notin {Absent, v}
             /\ Has(merged, "name", v.name) <=> index["name"][v.name] # Absent
  <2>1. ASSUME NEW key \in keys
        PROVE  /\ Has(merged, key, v[key]) <=> index[key][v[key]] # Absent
               /\ Has(merged, key, v[key]) =>
                    index[key][v[key]] = LastWith(merged, key, v[key])
    <3>1. index[key][v[key]] = IF Has(merged, key, v[key])
                               THEN LastWith(merged, key, v[key]) ELSE Absent
      BY <1>3, <1>5, <1>7 DEF IndexIs
    <3>2. Has(merged, key, v[key]) => LastWith(merged, key, v[key]) \in Entries
      <4>1. ToSet(merged) \subseteq Entries
        BY <1>1 DEF ToSet
      <4> QED
        BY <1>1, <4>1, LastWithIsThere
    <3> QED
      BY <3>1, <3>2, LoopAssumption
  <2> QED
    BY <1>1, <2>1 DEF Conflicts
<1>8. failed' = run[next].err
  BY <1>1, <1>2, <1>3, <1>4, <1>7 DEF MergeEntry
<1>9. ASSUME ~ failed'
      PROVE  /\ merged' = run[next].list
             /\ \A key \in keys : \A x \in Values(key) :
                  index'[key][x] = IF Has(merged', key, x)
                                   THEN LastWith(merged', key, x) ELSE Absent
  <2>1. ~ failed /\ ~ Conflicts(merged, keys, v)
    BY <1>4, <1>7, <1>9
  <2>2. merged' = run[next].list
    BY <1>2, <1>3, <1>4, <1>7, <2>1 DEF MergeEntry
  <2>3. ASSUME NEW key \in keys, NEW x \in Values(key)
        PROVE  index'[key][x] = IF Has(merged', key, x)
                                THEN LastWith(merged', key, x) ELSE Absent
    <3>0. /\ index[key][x] = IF Has(merged, key, x)
                             THEN LastWith(merged, key, x) ELSE Absent
          /\ index[key][v[key]] = IF Has(merged, key, v[key])
                                  THEN LastWith(merged, key, v[key]) ELSE Absent
          /\ index[key][v[key]] \in {Absent, v}
      BY <1>3, <1>4, <1>5, <1>9, <2>1 DEF IndexIs
    <3>1. CASE Has(merged, "name", v.name)
      <4>1. merged' = merged
        BY <1>4, <1>7, <2>1, <3>1
      <4>2. v \in ToSet(merged)
        <5>1. LastWith(merged, "name", v.name) = v
          BY <1>1, <2>1, <3>1 DEF Conflicts
        <5> QED
          BY <1>1, <3>1, <5>1, LastWithIsThere
      <4>3. Has(merged, key, v[key])
        BY <1>1, <4>2, OnlyIfThere
      <4>4. index[key][v[key]] = v
        BY <2>1, <3>0, <4>3 DEF Conflicts
      <4>5. index'[key] = index[key]
        BY <1>1, <1>4, <4>4, LoopAssumption
      <4> QED
        BY <3>0, <4>1, <4>5
    <3>2. CASE ~ Has(merged, "name", v.name)
      <4>1. merged' = Append(merged, v)
        BY <1>4, <1>7, <2>1, <3>2
      <4>2. index'[key][x] = IF v[key] = x THEN v ELSE index[key][x]
        BY <1>4, <1>5, <3>0
      <4>3. IF v[key] = x
            THEN /\ Has(Append(merged, v), key, x)
                 /\ LastWith(Append(merged, v), key, x) = v
            ELSE /\ Has(Append(merged, v), key, x) <=> Has(merged, key, x)
                 /\ Has(merged, key, x) =>
                      LastWith(Append(merged, v), key, x) = LastWith(merged, key, x)
        BY <1>1, AppendedIsLast
      <4> QED
        BY <3>0, <4>1, <4>2, <4>3
    <3> QED
      BY <3>1, <3>2
  <2> QED
    BY <2>2, <2>3
<1>10. Merging'
  <2>1. (next - 1)' = next /\ (next \in 1..(Len(add) + 1))'
    BY <1>1
  <2>2. MergeRun(own, keys, add)' = run
    BY <1>1 DEF run
  <2>3. ~ failed' => IndexIs(merged)'
    BY <1>1, <1>9 DEF IndexIs, Values
  <2> QED
    BY <1>8, <1>9, <2>1, <2>2, <2>3 DEF Merging
<1> QED
  BY <1>1, <1>6, <1>10 DEF Bounded, Indexing, Merged

LEMMA ReturnKeeps ==
  ASSUME LoopInv, Return
  PROVE  LoopInv'
<1> DEFINE last == MergeRun(own, keys, add)[Len(add)]
<1> USE DEF LoopInv
<1>0. /\ phase = "merging" /\ phase' = "done"
      /\ UNCHANGED <<own, add, keys, next, index, failed>>
      /\ merged' = IF failed THEN <<>> ELSE merged
  BY DEF Return
<1>1. /\ next = Len(add) + 1 /\ "name" \in keys
      /\ own \in Seq(Entries) /\ add \in Seq(Entries) /\ failed \in BOOLEAN
      /\ merged \in Seq(Entries)
  <2>1. /\ next \in 1..(Len(add) + 1) /\ next > Len(add)
    BY <1>0 DEF Return, Merging
  <2>2. /\ "name" \in keys /\ own \in Seq(Entries) /\ add \in Seq(Entries)
        /\ failed \in BOOLEAN /\ merged \in Seq(Entries)
    BY DEF TypeOK
  <2>3. Len(add) \in Nat
    BY <2>2
  <2> QED
    BY <2>1, <2>2, <2>3
<1>2. failed = last.err /\ (~ failed => merged = last.list)
  <2>1. next - 1 = Len(add)
    BY <1>1
  <2>2. /\ failed = MergeRun(own, keys, add)[next - 1].err
        /\ ~ failed => merged = MergeRun(own, keys, add)[next - 1].list
    BY <1>0 DEF Merging
  <2> QED
    BY <2>1, <2>2
<1>3. last \in [err : BOOLEAN, list : Seq(Entries)]
  <2>1. Len(add) \in 0..Len(add)
    BY <1>1
  <2> QED
    BY <1>1, <2>1, MergeRunFacts DEF MergedSoFar, Results
<1>4. [err |-> failed, list |-> merged'] = MergeEntries(own, keys, add)
  <2> HIDE DEF last
  <2>1. MergeEntries(own, keys, add) =
          IF last.err THEN [err |-> TRUE, list |-> <<>>] ELSE last
    BY DEF MergeEntries, last
  <2>2. last = [err |-> last.err, list |-> last.list]
    BY <1>3
  <2> QED
    BY <1>0, <1>1, <1>2, <2>1, <2>2
<1>5. TypeOK'
  <2>1. merged' \in Seq(Entries)
    BY <1>0, <1>1
  <2> QED
    BY <1>0, <2>1 DEF TypeOK
<1> QED
  BY <1>0, <1>4, <1>5 DEF Bounded, Indexing, Merging, Merged

LEMMA StepKeepsLoopInv ==
  ASSUME LoopInv, [Next]_vars
  PROVE  LoopInv'
<1>1. CASE IndexOwn
  BY <1>1, IndexOwnKeeps
<1>2. CASE StartMerging
  BY <1>2, StartMergingKeeps
<1>3. CASE MergeOne
  BY <1>3, MergeOneKeeps
<1>4. CASE Return
  BY <1>4, ReturnKeeps
<1>5. CASE UNCHANGED vars
  BY <1>5 DEF vars, LoopInv, TypeOK, Bounded, Indexing, Merging, Merged, IndexIs,
     Values
<1> QED
  BY <1>1, <1>2, <1>3, <1>4, <1>5 DEF Next

LEMMA LoopInvariance == Spec => []LoopInv
BY InitLoopInv, StepKeepsLoopInv, PTL DEF Spec

-----------------------------------------------------------------------------
\* The loops stay within their lists and maps, for lists of every length.
THEOREM LoopTypeCorrect == Spec => []TypeOK
<1>1. LoopInv => TypeOK
  BY DEF LoopInv
<1> QED
  BY <1>1, LoopInvariance, PTL

\* The loops of mergeEnv, mergeVolumes and mergeVolumeMounts, with their one
\* or two maps, compute PodPresetMerge's MergeEntries.
THEOREM LoopsMerge == Spec => []LoopImplementsMerge
<1>1. LoopInv => LoopImplementsMerge
  <2>1. Merging => (phase = "merging" =>
          LET run == MergeRun(own, keys, add)[next - 1]
          IN  failed = run.err /\ (~ failed => merged = run.list))
    BY DEF Merging
  <2> QED
    BY <2>1 DEF LoopInv, Merged, LoopImplementsMerge
<1> QED
  BY <1>1, LoopInvariance, PTL

\* What Return leaves in failed.
LEMMA FailedIffDisagree ==
  ASSUME LoopInv, phase = "done"
  PROVE  failed <=> ~ Agree(own, keys, add, Len(add))
<1>1. /\ own \in Seq(Entries) /\ add \in Seq(Entries) /\ "name" \in keys
      /\ failed \in BOOLEAN
  BY DEF LoopInv, TypeOK
<1>2. [err |-> failed, list |-> merged] = MergeEntries(own, keys, add)
  BY DEF LoopInv, Merged
<1>3. MergeEntries(own, keys, add).err <=> ~ Agree(own, keys, add, Len(add))
  BY <1>1, ErrorIffDisagree
<1> DEFINE r == MergeEntries(own, keys, add)
<1>4. r.err = failed
  <2>1. r = [err |-> failed, list |-> merged]
    BY <1>2
  <2> HIDE DEF r
  <2> QED
    BY <2>1
<1> QED
  BY <1>1, <1>3, <1>4

LEMMA AgreeIsConsistent ==
  ASSUME own \in Seq(Entries), add \in Seq(Entries)
  PROVE  Agree(own, keys, add, Len(add)) <=> Consistent
<1>1. DOMAIN add = 1..Len(add)
  OBVIOUS
<1>2. ToSet(add) = { add[i] : i \in 1..Len(add) }
  BY <1>1 DEF ToSet
<1>3. ASSUME Consistent
      PROVE  Agree(own, keys, add, Len(add))
  <2>1. ASSUME NEW key \in keys, NEW j \in 1..Len(add)
        PROVE  IF Has(own, key, add[j][key])
               THEN LastWith(own, key, add[j][key]) = add[j]
               ELSE \A m \in 1..Len(add) :
                      add[m][key] = add[j][key] => add[m] = add[j]
    <3>1. add[j] \in ToSet(add) /\ \A m \in 1..Len(add) : add[m] \in ToSet(add)
      BY <1>2
    <3> QED
      BY <1>3, <3>1 DEF Consistent
  <2> QED
    BY <2>1 DEF Agree
<1>4. ASSUME Agree(own, keys, add, Len(add))
      PROVE  Consistent
  <2>1. ASSUME NEW key \in keys, NEW v \in ToSet(add)
        PROVE  IF Has(own, key, v[key])
               THEN LastWith(own, key, v[key]) = v
               ELSE \A w \in ToSet(add) : w[key] = v[key] => w = v
    <3>1. PICK j \in 1..Len(add) : v = add[j]
      BY <1>2
    <3>2. IF Has(own, key, add[j][key])
          THEN LastWith(own, key, add[j][key]) = add[j]
          ELSE \A m \in 1..Len(add) :
                 add[m][key] = add[j][key] => add[m] = add[j]
      BY <1>4 DEF Agree
    <3> QED
      BY <1>2, <3>1, <3>2
  <2> QED
    BY <2>1 DEF Consistent
<1> QED
  BY <1>3, <1>4

\* A merge succeeds exactly when everything injected under a key agrees with
\* the last own entry that has it or, when there is none, with the rest of
\* what is injected under it.
THEOREM MergeSucceedsIfConsistent == Spec => []SucceedsIffConsistent
<1>1. LoopInv => SucceedsIffConsistent
  <2>1. ASSUME LoopInv, phase = "done"
        PROVE  failed <=> ~ Consistent
    BY <2>1, FailedIffDisagree, AgreeIsConsistent DEF LoopInv, TypeOK
  <2> QED
    BY <2>1 DEF SucceedsIffConsistent
<1> QED
  BY <1>1, LoopInvariance, PTL

\* Agreement is a matter of which entries are injected, not of their order.
LEMMA AgreeInAnyOrder ==
  ASSUME NEW o, NEW ks, NEW n \in Nat, NEW a, NEW b,
         \A i \in 1..n : \E j \in 1..n : b[i] = a[j],
         Agree(o, ks, a, n)
  PROVE  Agree(o, ks, b, n)
<1>1. ASSUME NEW key \in ks, NEW j \in 1..n
      PROVE  IF Has(o, key, b[j][key])
             THEN LastWith(o, key, b[j][key]) = b[j]
             ELSE \A m \in 1..n : b[m][key] = b[j][key] => b[m] = b[j]
  <2>1. PICK i \in 1..n : b[j] = a[i]
    OBVIOUS
  <2>2. IF Has(o, key, a[i][key])
        THEN LastWith(o, key, a[i][key]) = a[i]
        ELSE \A m \in 1..n : a[m][key] = a[i][key] => a[m] = a[i]
    BY DEF Agree
  <2> QED
    BY <2>1, <2>2
<1> QED
  BY <1>1 DEF Agree

\* Whether a merge fails does not depend on the order of the injected entries.
THEOREM OrderIsIrrelevant == Spec => []OrderDoesNotDecide
<1>1. LoopInv => OrderDoesNotDecide
  <2>1. ASSUME LoopInv, phase = "done", NEW p \in Bijection(DOMAIN add, DOMAIN add)
        PROVE  MergeEntries(own, keys, [i \in DOMAIN add |-> add[p[i]]]).err = failed
    <3> DEFINE n == Len(add)
               b == [i \in DOMAIN add |-> add[p[i]]]
    <3>1. /\ own \in Seq(Entries) /\ add \in Seq(Entries) /\ "name" \in keys
          /\ failed \in BOOLEAN
      BY <2>1 DEF LoopInv, TypeOK
    <3>2. n \in Nat /\ DOMAIN add = 1..n
      BY <3>1
    <3>3. /\ \A i \in 1..n : p[i] \in 1..n
          /\ \A j \in 1..n : \E i \in 1..n : p[i] = j
      BY <2>1, <3>2 DEF Bijection, Injection, Surjection
    <3>4. /\ b \in Seq(Entries) /\ Len(b) = n
          /\ \A i \in 1..n : b[i] = add[p[i]]
      BY <3>1, <3>2, <3>3
    <3> HIDE DEF b, n
    <3>5. /\ \A i \in 1..n : \E j \in 1..n : b[i] = add[j]
          /\ \A j \in 1..n : \E i \in 1..n : add[j] = b[i]
      <4>1. ASSUME NEW j \in 1..n
            PROVE  \E i \in 1..n : add[j] = b[i]
        <5>1. PICK i \in 1..n : p[i] = j
          BY <3>3
        <5> QED
          BY <3>4, <5>1
      <4> QED
        BY <3>3, <3>4, <4>1
    <3>6. Agree(own, keys, b, n) <=> Agree(own, keys, add, n)
      BY <3>2, <3>5, AgreeInAnyOrder
    <3>7. /\ MergeEntries(own, keys, b) \in Results(Entries)
          /\ MergeEntries(own, keys, b).err <=> ~ Agree(own, keys, b, n)
      BY <3>1, <3>4, ErrorIffDisagree
    <3>8. failed <=> ~ Agree(own, keys, add, n)
      BY <2>1, FailedIffDisagree DEF n
    <3> QED
      BY <3>1, <3>6, <3>7, <3>8 DEF Results, b
  <2> QED
    BY <2>1 DEF OrderDoesNotDecide
<1> QED
  BY <1>1, LoopInvariance, PTL
=============================================================================
