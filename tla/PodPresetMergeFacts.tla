------------------------- MODULE PodPresetMergeFacts -------------------------
(***************************************************************************)
(* Facts about the operators of PodPresetMerge, proved for every value of  *)
(* the constants and every length of the lists.                            *)
(***************************************************************************)
EXTENDS PodPresetMerge, LoopFacts, FiniteSetTheorems

(***************************************************************************)
(* The recursive function MergeRun satisfies its equations.                *)
(***************************************************************************)
LEMMA MergeRunDef ==
  ASSUME NEW S, NEW add \in Seq(S), NEW own, NEW keys
  PROVE  /\ MergeRun(own, keys, add)[0] = [err |-> FALSE, list |-> own]
         /\ \A i \in 1..Len(add) :
               MergeRun(own, keys, add)[i] =
                 MergeEntry(MergeRun(own, keys, add)[i - 1], keys, add[i])
<1> DEFINE n == Len(add)
           start == [err |-> FALSE, list |-> own]
           Rec(r, m) == r = [i \in 0..m |->
                              IF i = 0 THEN start
                                       ELSE MergeEntry(r[i - 1], keys, add[i])]
           Good == { m \in 0..n : \E r : Rec(r, m) }
<1>0. n \in Nat
  OBVIOUS
<1>1. 0 \in Good
  <2>1. Rec([i \in 0..0 |-> start], 0)
    OBVIOUS
  <2>2. \E r : Rec(r, 0)
    BY <2>1
  <2>3. 0 \in 0..n
    BY <1>0
  <2> HIDE DEF Rec, n
  <2> QED
    BY <2>2, <2>3
<1>2. ASSUME NEW m \in 1..n, m - 1 \in Good
      PROVE  m \in Good
  <2>1. PICK r : Rec(r, m - 1)
    BY <1>2
  <2> DEFINE s == [i \in 0..m |-> IF i = m THEN MergeEntry(r[m - 1], keys, add[m])
                                           ELSE r[i]]
  <2>2. Rec(s, m)
    <3>1. ASSUME NEW i \in 0..m
          PROVE  s[i] = IF i = 0 THEN start
                                 ELSE MergeEntry(s[i - 1], keys, add[i])
      <4>1. CASE i = m
        BY <4>1
      <4>2. CASE i # m
        <5>1. i \in 0..(m - 1)
          BY <4>2
        <5>2. r[i] = IF i = 0 THEN start ELSE MergeEntry(r[i - 1], keys, add[i])
          BY <2>1, <5>1
        <5>3. s[i] = r[i] /\ (i # 0 => s[i - 1] = r[i - 1])
          BY <5>1
        <5> QED
          BY <5>2, <5>3
      <4> QED
        BY <4>1, <4>2
    <3> QED
      BY <3>1
  <2>3. \E q : Rec(q, m)
    BY <2>2
  <2>4. m \in 0..n
    OBVIOUS
  <2> HIDE DEF Rec, n
  <2> QED
    BY <2>3, <2>4
<1>3. n \in Good
  <2> HIDE DEF Good
  <2>1. 0..n \subseteq Good
    BY <1>0, <1>1, <1>2, LoopInduction
  <2> QED
    BY <1>0, <2>1
<1>4. PICK r : Rec(r, n)
  BY <1>3
<1>5. Rec(MergeRun(own, keys, add), n)
  BY <1>4 DEF MergeRun
<1>6. ASSUME NEW R, Rec(R, n), NEW i \in 0..n
      PROVE  R[i] = IF i = 0 THEN start ELSE MergeEntry(R[i - 1], keys, add[i])
  BY <1>6
<1>7. \A i \in 0..n : MergeRun(own, keys, add)[i] =
        IF i = 0 THEN start
                 ELSE MergeEntry(MergeRun(own, keys, add)[i - 1], keys, add[i])
  <2> HIDE DEF Rec, start, n
  <2> QED
    BY <1>5, <1>6
<1>8. 0 \in 0..n /\ \A i \in 1..n : i \in 0..n /\ i # 0
  BY <1>0
<1> QED
  BY <1>7, <1>8, Zenon

(***************************************************************************)
(* One entry, and then a whole list, merged into a list.                   *)
(***************************************************************************)
LEMMA LastWithIsThere ==
  ASSUME NEW S, NEW list \in Seq(S), NEW key, NEW x, Has(list, key, x)
  PROVE  /\ LastWith(list, key, x) \in ToSet(list)
         /\ LastWith(list, key, x)[key] = x
<1> DEFINE T == { i \in DOMAIN list : list[i][key] = x }
<1>1. DOMAIN list = 1..Len(list) /\ Len(list) \in Nat
  OBVIOUS
<1>2. T # {} /\ T \subseteq 1..Len(list)
  BY <1>1 DEF Has
<1>3. PICK m \in T : \A y \in T : y <= m
  BY <1>1, <1>2, GreatestIn
<1>4. \E i \in DOMAIN list : /\ list[i][key] = x
                            /\ \A j \in DOMAIN list : list[j][key] = x => j <= i
  BY <1>3
<1> QED
  BY <1>4 DEF LastWith, ToSet

\* list extended to longer, entry by entry
Grown(longer, list) ==
  /\ Len(list) <= Len(longer)
  /\ \A j \in 1..Len(list) : longer[j] = list[j]

LEMMA GrownByOne ==
  ASSUME NEW S, NEW list \in Seq(S), NEW v \in S
  PROVE  /\ Append(list, v) \in Seq(S)
         /\ Grown(Append(list, v), list)
         /\ ToSet(Append(list, v)) = ToSet(list) \cup {v}
<1> DEFINE new == Append(list, v)
<1>1. /\ new \in Seq(S) /\ Len(list) \in Nat /\ Len(new) = Len(list) + 1
      /\ DOMAIN list = 1..Len(list) /\ DOMAIN new = 1..(Len(list) + 1)
      /\ \A j \in 1..Len(list) : new[j] = list[j]
      /\ new[Len(list) + 1] = v
  OBVIOUS
<1> HIDE DEF new
<1>2. Grown(new, list)
  BY <1>1 DEF Grown
<1>3. ToSet(new) = ToSet(list) \cup {v}
  BY <1>1 DEF ToSet
<1> QED
  BY <1>1, <1>2, <1>3 DEF new

LEMMA GrownIsExtension ==
  ASSUME NEW S, NEW list \in Seq(S), NEW longer \in Seq(S), Grown(longer, list)
  PROVE  IsPrefix(list, longer) /\ ToSet(list) \subseteq ToSet(longer)
<1>1. ToSet(list) \subseteq ToSet(longer)
  BY DEF ToSet, Grown
<1>2. SubSeq(list, 1, Len(list)) = SubSeq(longer, 1, Len(list))
  BY DEF Grown
<1> QED
  BY <1>1, <1>2 DEF Grown, IsPrefix

\* What a merge step or a merge returns.
Results(S) == [err : BOOLEAN, list : Seq(S)]

\* r is acc after one more entry v was merged.
EntryMerged(S, acc, v, r) ==
  /\ r \in Results(S)
  /\ Grown(r.list, acc.list)
  /\ ToSet(r.list) \subseteq ToSet(acc.list) \cup {v}
  /\ ~ r.err => ~ acc.err /\ v \in ToSet(r.list)
  /\ v \in ToSet(acc.list) => r.list = acc.list

LEMMA PrefixOfItself ==
  ASSUME NEW S, NEW list \in Seq(S)
  PROVE  IsPrefix(list, list)
<1>1. Grown(list, list)
  BY DEF Grown
<1> QED
  BY <1>1, GrownIsExtension

LEMMA MergeEntryFacts ==
  ASSUME NEW S, NEW acc \in Results(S), NEW v \in S,
         NEW keys, "name" \in keys
  PROVE  EntryMerged(S, acc, v, MergeEntry(acc, keys, v))
<1> DEFINE r == MergeEntry(acc, keys, v)
<1>1. /\ acc.list \in Seq(S) /\ Len(acc.list) \in Nat
      /\ DOMAIN acc.list = 1..Len(acc.list)
      /\ acc.err \in BOOLEAN
  BY DEF Results
<1>2. r.err = (acc.err \/ Conflicts(acc.list, keys, v))
  BY DEF MergeEntry
<1>3. CASE Has(acc.list, "name", v.name)
  <2>1. r.list = acc.list
    BY <1>3 DEF MergeEntry
  <2>2. LastWith(acc.list, "name", v.name) \in ToSet(acc.list)
    BY <1>1, <1>3, LastWithIsThere
  <2>3. ~ r.err => v \in ToSet(r.list)
    BY <1>2, <1>3, <2>1, <2>2 DEF Conflicts
  <2> QED
    BY <1>1, <1>2, <2>1, <2>3 DEF EntryMerged, MergeEntry, Grown, Results
<1>4. CASE ~ Has(acc.list, "name", v.name)
  <2>1. r.list = Append(acc.list, v)
    BY <1>4 DEF MergeEntry
  <2>2. /\ r.list \in Seq(S) /\ Len(r.list) = Len(acc.list) + 1
        /\ DOMAIN r.list = 1..(Len(acc.list) + 1)
        /\ \A j \in 1..Len(acc.list) : r.list[j] = acc.list[j]
        /\ r.list[Len(acc.list) + 1] = v
    BY <1>1, <2>1
  <2>3. v \notin ToSet(acc.list)
    BY <1>4 DEF Has, ToSet
  <2>4. ToSet(r.list) \subseteq ToSet(acc.list) \cup {v} /\ v \in ToSet(r.list)
    BY <1>1, <2>2 DEF ToSet
  <2>5. Grown(r.list, acc.list)
    BY <1>1, <2>2 DEF Grown
  <2>6. r \in Results(S)
    BY <1>2, <2>2 DEF MergeEntry, Results
  <2> QED
    BY <1>2, <2>3, <2>4, <2>5, <2>6 DEF EntryMerged
<1> QED
  BY <1>3, <1>4

\* After i entries: the list began with own, has nothing but own and what was
\* injected, and has all that was injected unless there was a conflict.
MergedSoFar(S, own, add, i, r) ==
  /\ r \in Results(S)
  /\ Grown(r.list, own)
  /\ ToSet(r.list) \subseteq ToSet(own) \cup ToSet(add)
  /\ ~ r.err => \A j \in 1..i : add[j] \in ToSet(r.list)
  /\ ToSet(add) \subseteq ToSet(own) => r.list = own

LEMMA MergeRunFacts ==
  ASSUME NEW S, NEW own \in Seq(S), NEW add \in Seq(S),
         NEW keys, "name" \in keys
  PROVE  \A i \in 0..Len(add) :
            MergedSoFar(S, own, add, i, MergeRun(own, keys, add)[i])
<1> DEFINE n == Len(add)
           run == MergeRun(own, keys, add)
           Good == { i \in 0..n : MergedSoFar(S, own, add, i, run[i]) }
<1>0. n \in Nat /\ DOMAIN add = 1..n
  OBVIOUS
<1>1. /\ run[0] = [err |-> FALSE, list |-> own]
      /\ \A i \in 1..n : run[i] = MergeEntry(run[i - 1], keys, add[i])
  BY MergeRunDef
<1>2. 0 \in Good
  <2>1. MergedSoFar(S, own, add, 0, run[0])
    BY <1>1 DEF MergedSoFar, Grown, Results
  <2> QED
    BY <1>0, <2>1
<1>3. ASSUME NEW i \in 1..n, i - 1 \in Good
      PROVE  i \in Good
  <2> DEFINE acc == run[i - 1]
             r == run[i]
  <2>0. i \in 0..n /\ i - 1 \in Nat /\ add[i] \in S /\ add[i] \in ToSet(add)
    BY <1>0 DEF ToSet
  <2>1. MergedSoFar(S, own, add, i - 1, acc)
    BY <1>3
  <2>2. r = MergeEntry(acc, keys, add[i])
    BY <1>1
  <2>3. acc \in Results(S)
    BY <2>1 DEF MergedSoFar
  <2> HIDE DEF run, acc, r, n
  <2>4. EntryMerged(S, acc, add[i], r)
    BY <2>0, <2>2, <2>3, MergeEntryFacts
  <2>5. Grown(r.list, own)
    <3>1. Grown(acc.list, own)
      BY <2>1 DEF MergedSoFar
    <3>2. Len(own) \in Nat /\ Len(acc.list) \in Nat /\ Len(r.list) \in Nat
      BY <2>3, <2>4 DEF EntryMerged, Results
    <3> QED
      BY <2>4, <3>1, <3>2 DEF EntryMerged, Grown
  <2>6. ToSet(r.list) \subseteq ToSet(own) \cup ToSet(add)
    BY <2>0, <2>1, <2>4 DEF EntryMerged, MergedSoFar
  <2>7. ToSet(acc.list) \subseteq ToSet(r.list)
    BY <2>3, <2>4, GrownIsExtension DEF EntryMerged, Results
  <2>8. ~ r.err => \A j \in 1..i : add[j] \in ToSet(r.list)
    <3>1. ASSUME ~ r.err, NEW j \in 1..i
          PROVE  add[j] \in ToSet(r.list)
      <4>1. CASE j = i
        BY <2>4, <3>1, <4>1 DEF EntryMerged
      <4>2. CASE j # i
        <5>1. j \in 1..(i - 1)
          BY <4>2
        <5> QED
          BY <2>1, <2>4, <2>7, <3>1, <5>1 DEF EntryMerged, MergedSoFar
      <4> QED
        BY <4>1, <4>2
    <3> QED
      BY <3>1
  <2>9. ToSet(add) \subseteq ToSet(own) => r.list = own
    BY <2>0, <2>1, <2>4 DEF EntryMerged, MergedSoFar
  <2>10. MergedSoFar(S, own, add, i, r)
    BY <2>4, <2>5, <2>6, <2>8, <2>9 DEF EntryMerged, MergedSoFar
  <2> QED
    BY <2>0, <2>10 DEF r
<1>4. 0..n \subseteq Good
  <2> HIDE DEF Good
  <2> QED
    BY <1>0, <1>2, <1>3, LoopInduction
<1> QED
  BY <1>4

\* What MergeEntries returns: an error and no list, or the author's list
\* followed by injected entries, all of which it then has.
MergedInto(S, own, add, res) ==
  /\ res \in Results(S)
  /\ ~ res.err =>
       /\ IsPrefix(own, res.list)
       /\ ToSet(own) \subseteq ToSet(res.list)
       /\ ToSet(add) \subseteq ToSet(res.list)
       /\ ToSet(res.list) \subseteq ToSet(own) \cup ToSet(add)
       /\ ToSet(add) \subseteq ToSet(own) => res.list = own

LEMMA MergeEntriesFacts ==
  ASSUME NEW S, NEW own \in Seq(S), NEW add \in Seq(S),
         NEW keys, "name" \in keys
  PROVE  MergedInto(S, own, add, MergeEntries(own, keys, add))
<1> DEFINE last == MergeRun(own, keys, add)[Len(add)]
           res == MergeEntries(own, keys, add)
<1>1. MergedSoFar(S, own, add, Len(add), last)
  <2>1. Len(add) \in 0..Len(add)
    OBVIOUS
  <2> QED
    BY <2>1, MergeRunFacts
<1>2. /\ last \in Results(S)
      /\ Grown(last.list, own)
  BY <1>1 DEF MergedSoFar
<1>3. CASE last.err
  BY <1>3 DEF MergeEntries, MergedInto, Results
<1>4. CASE ~ last.err
  <2>1. res = last
    BY <1>4 DEF MergeEntries
  <2>2. ToSet(add) \subseteq ToSet(last.list)
    BY <1>1, <1>4 DEF MergedSoFar, ToSet
  <2>3. IsPrefix(own, last.list) /\ ToSet(own) \subseteq ToSet(last.list)
    BY <1>2, GrownIsExtension DEF Results
  <2> QED
    BY <1>1, <1>2, <1>4, <2>1, <2>2, <2>3 DEF MergedSoFar, MergedInto
<1> QED
  BY <1>3, <1>4

(***************************************************************************)
(* What presets inject: the concatenation of their lists.                  *)
(***************************************************************************)
LEMMA ConcatFacts ==
  ASSUME NEW S, NEW x \in Seq(S), NEW y \in Seq(S)
  PROVE  /\ x \o y \in Seq(S)
         /\ ToSet(x \o y) = ToSet(x) \cup ToSet(y)
         /\ Grown(x \o y, x)
<1>1. /\ x \o y \in Seq(S)
      /\ Len(x \o y) = Len(x) + Len(y)
      /\ \A i \in 1..Len(x) : (x \o y)[i] = x[i]
      /\ \A i \in 1..Len(y) : (x \o y)[Len(x) + i] = y[i]
      /\ \A i \in 1..(Len(x) + Len(y)) :
            i <= Len(x) \/ i - Len(x) \in 1..Len(y)
  OBVIOUS
<1>2. ToSet(x) \subseteq ToSet(x \o y) /\ ToSet(y) \subseteq ToSet(x \o y)
  <2>1. /\ DOMAIN (x \o y) = 1..(Len(x) + Len(y))
        /\ DOMAIN x = 1..Len(x) /\ DOMAIN y = 1..Len(y)
    BY <1>1
  <2>2. ASSUME NEW i \in 1..Len(x)
        PROVE  x[i] \in ToSet(x \o y)
    <3>1. i \in DOMAIN (x \o y)
      BY <2>1
    <3> QED
      BY <1>1, <3>1 DEF ToSet
  <2>3. ASSUME NEW i \in 1..Len(y)
        PROVE  y[i] \in ToSet(x \o y)
    <3>1. Len(x) + i \in DOMAIN (x \o y)
      BY <2>1
    <3> QED
      BY <1>1, <3>1 DEF ToSet
  <2> QED
    BY <2>1, <2>2, <2>3 DEF ToSet
<1>3. ASSUME NEW i \in 1..(Len(x) + Len(y))
      PROVE  (x \o y)[i] \in ToSet(x) \cup ToSet(y)
  BY <1>1, <1>3 DEF ToSet
<1>4. DOMAIN (x \o y) = 1..(Len(x) + Len(y))
  BY <1>1
<1>5. ToSet(x \o y) \subseteq ToSet(x) \cup ToSet(y)
  BY <1>3, <1>4 DEF ToSet
<1>6. Grown(x \o y, x)
  BY <1>1 DEF Grown
<1> QED
  BY <1>1, <1>2, <1>5, <1>6

LEMMA FlattenFacts ==
  ASSUME NEW S, NEW ss \in Seq(Seq(S))
  PROVE  /\ FlattenSeq(ss) \in Seq(S)
         /\ \A k \in DOMAIN ss : ToSet(ss[k]) \subseteq ToSet(FlattenSeq(ss))
         /\ \A x \in ToSet(FlattenSeq(ss)) : \E k \in DOMAIN ss : x \in ToSet(ss[k])
<1> DEFINE n == Len(ss)
           Rec(f, m) == f = [i \in 1..m |-> IF i = 1 THEN ss[i] ELSE f[i - 1] \o ss[i]]
           \* f[m] has what the first m lists have
           Sum(x, m) == /\ x \in Seq(S)
                        /\ \A k \in 1..m : ToSet(ss[k]) \subseteq ToSet(x)
                        /\ \A y \in ToSet(x) : \E k \in 1..m : y \in ToSet(ss[k])
           Good == {0} \cup { m \in 1..n : \E f : Rec(f, m) /\ Sum(f[m], m) }
<1>0. /\ n \in Nat /\ DOMAIN ss = 1..n
      /\ \A k \in 1..n : ss[k] \in Seq(S)
  OBVIOUS
<1>1. CASE n = 0
  <2>1. FlattenSeq(ss) = ss /\ DOMAIN ss = {}
    BY <1>1 DEF FlattenSeq
  <2>2. ss = << >>
    BY <1>1
  <2> QED
    BY <2>1, <2>2 DEF ToSet
<1>2. CASE n # 0
  <2>1. ASSUME NEW m \in 1..n, m - 1 \in Good
        PROVE  \E f : Rec(f, m) /\ Sum(f[m], m)
    <3>1. CASE m = 1
      <4> DEFINE f == [i \in 1..1 |-> ss[1]]
      <4>1. Rec(f, 1)
        BY <1>0
      <4>2. Sum(f[1], 1)
        BY <1>0, <1>2
      <4> QED
        BY <3>1, <4>1, <4>2
    <3>2. CASE m # 1
      <4>1. m - 1 \in 1..n /\ m \in Nat
        BY <3>2
      <4>2. PICK g : Rec(g, m - 1) /\ Sum(g[m - 1], m - 1)
        <5>1. m - 1 # 0
          BY <4>1
        <5> HIDE DEF Rec, Sum
        <5> QED
          BY <2>1, <5>1
      <4> DEFINE f == [i \in 1..m |-> IF i = m THEN g[m - 1] \o ss[m] ELSE g[i]]
      <4>3. /\ f[m] = g[m - 1] \o ss[m]
            /\ \A i \in 1..(m - 1) : f[i] = g[i]
        <5>1. m \in 1..m /\ \A i \in 1..(m - 1) : i \in 1..m /\ i # m
          BY <4>1
        <5> QED
          BY <5>1
      <4>4. Rec(f, m)
        <5>1. ASSUME NEW i \in 1..m
              PROVE  f[i] = IF i = 1 THEN ss[i] ELSE f[i - 1] \o ss[i]
          <6>1. CASE i = m
            <7>1. m - 1 \in 1..(m - 1)
              BY <4>1
            <7> HIDE DEF f
            <7> QED
              BY <3>2, <4>3, <6>1, <7>1
          <6>2. CASE i # m
            <7>1. i \in 1..(m - 1) /\ (i # 1 => i - 1 \in 1..(m - 1))
              BY <6>2
            <7>2. g[i] = IF i = 1 THEN ss[i] ELSE g[i - 1] \o ss[i]
              BY <4>2, <7>1
            <7>3. f[i] = g[i] /\ (i # 1 => f[i - 1] = g[i - 1])
              <8> HIDE DEF f
              <8> QED
                BY <4>3, <7>1
            <7> HIDE DEF f
            <7> QED
              BY <7>2, <7>3
          <6> QED
            BY <6>1, <6>2
        <5> QED
          BY <5>1
      <4>5. Sum(f[m], m)
        <5> DEFINE x == g[m - 1]
                   y == ss[m]
        <5>1. x \in Seq(S) /\ y \in Seq(S)
          BY <1>0, <4>2
        <5>2. x \o y \in Seq(S) /\ ToSet(x \o y) = ToSet(x) \cup ToSet(y)
          BY <5>1, ConcatFacts
        <5>3. /\ \A k \in 1..m : k = m \/ k \in 1..(m - 1)
              /\ \A k \in 1..(m - 1) : k \in 1..m
              /\ m \in 1..m
          BY <4>1
        <5>4. /\ \A k \in 1..(m - 1) : ToSet(ss[k]) \subseteq ToSet(x)
              /\ \A z \in ToSet(x) : \E k \in 1..(m - 1) : z \in ToSet(ss[k])
          BY <4>2
        <5> HIDE DEF x
        <5>5. Sum(x \o y, m)
          BY <5>2, <5>3, <5>4
        <5> QED
          BY <4>3, <5>5 DEF x
      <4> QED
        BY <4>4, <4>5
    <3> QED
      BY <3>1, <3>2
  <2>2. \A m \in 1..n : m - 1 \in Good => m \in Good
    <3> HIDE DEF Rec, Sum
    <3> QED
      BY <2>1
  <2>3. n \in Good
    <3>1. 0 \in Good
      OBVIOUS
    <3> HIDE DEF Good
    <3>2. 0..n \subseteq Good
      BY <1>0, <2>2, <3>1, LoopInduction
    <3> QED
      BY <1>0, <3>2
  <2>4. PICK f : Rec(f, n) /\ Sum(f[n], n)
    BY <1>0, <1>2, <2>3
  <2>5. FlattenSeq(ss) = f[n]
    <3> DEFINE g == CHOOSE h : Rec(h, n)
    <3>1. Rec(g, n)
      BY <2>4
    <3>2. FlattenSeq(ss) = g[n]
      BY <1>2 DEF FlattenSeq
    <3>3. g[n] = f[n]
      <4> DEFINE Same == {0} \cup { m \in 1..n : g[m] = f[m] }
      <4>1. ASSUME NEW m \in 1..n, m - 1 \in Same
            PROVE  g[m] = f[m]
        <5>1. g[m] = IF m = 1 THEN ss[m] ELSE g[m - 1] \o ss[m]
          BY <3>1
        <5>2. f[m] = IF m = 1 THEN ss[m] ELSE f[m - 1] \o ss[m]
          BY <2>4
        <5>3. m # 1 => g[m - 1] = f[m - 1]
          BY <4>1
        <5> QED
          BY <5>1, <5>2, <5>3
      <4>2. \A m \in 1..n : m - 1 \in Same => m \in Same
        <5> HIDE DEF g
        <5> QED
          BY <4>1
      <4>3. 0 \in Same
        OBVIOUS
      <4>4. 0..n \subseteq Same
        <5> HIDE DEF Same
        <5> QED
          BY <1>0, <4>2, <4>3, LoopInduction
      <4> HIDE DEF g
      <4> QED
        BY <1>0, <1>2, <4>4
    <3> QED
      BY <3>2, <3>3
  <2> QED
    BY <1>0, <2>4, <2>5
<1> QED
  BY <1>1, <1>2

LEMMA InjectedFacts ==
  ASSUME NEW S, NEW pps \in Seq(PodPreset), NEW field,
         \A k \in DOMAIN pps : pps[k].spec[field] \in Seq(S)
  PROVE  /\ Injected(pps, field) \in Seq(S)
         /\ \A k \in DOMAIN pps :
               ToSet(pps[k].spec[field]) \subseteq ToSet(Injected(pps, field))
         /\ \A x \in ToSet(Injected(pps, field)) :
               \E k \in DOMAIN pps : x \in ToSet(pps[k].spec[field])
<1> DEFINE ss == [k \in DOMAIN pps |-> pps[k].spec[field]]
<1>1. DOMAIN pps = 1..Len(pps) /\ Len(pps) \in Nat
  OBVIOUS
<1>2. ss \in Seq(Seq(S)) /\ DOMAIN ss = DOMAIN pps
  BY <1>1
<1>3. \A k \in DOMAIN pps : ss[k] = pps[k].spec[field]
  OBVIOUS
<1>4. Injected(pps, field) = FlattenSeq(ss)
  BY DEF Injected
<1> HIDE DEF ss
<1> QED
  BY <1>2, <1>3, <1>4, FlattenFacts

(***************************************************************************)
(* The four merges of the source.                                          *)
(***************************************************************************)
LEMMA SpecLists ==
  ASSUME NEW pps \in Seq(PodPreset), NEW k \in DOMAIN pps
  PROVE  /\ pps[k].spec["env"] \in Seq(EnvVars)
         /\ pps[k].spec["envFrom"] \in Seq(EnvSources)
         /\ pps[k].spec["volumes"] \in Seq(Volumes)
         /\ pps[k].spec["volumeMounts"] \in Seq(VolumeMounts)
<1>1. pps[k] \in PodPreset
  OBVIOUS
<1>2. pps[k].spec \in PodPresetSpec
  BY <1>1 DEF PodPreset
<1> QED
  BY <1>2 DEF PodPresetSpec

LEMMA EnvFacts ==
  ASSUME NEW own \in Seq(EnvVars), NEW pps \in Seq(PodPreset)
  PROVE  MergedInto(EnvVars, own, Injected(pps, "env"), mergeEnv(own, pps))
<1>1. Injected(pps, "env") \in Seq(EnvVars)
  BY SpecLists, InjectedFacts
<1> QED
  BY <1>1, MergeEntriesFacts DEF mergeEnv

LEMMA VolumesFacts ==
  ASSUME NEW own \in Seq(Volumes), NEW pps \in Seq(PodPreset)
  PROVE  MergedInto(Volumes, own, Injected(pps, "volumes"), mergeVolumes(own, pps))
<1>1. Injected(pps, "volumes") \in Seq(Volumes)
  BY SpecLists, InjectedFacts
<1> QED
  BY <1>1, MergeEntriesFacts DEF mergeVolumes

LEMMA VolumeMountsFacts ==
  ASSUME NEW own \in Seq(VolumeMounts), NEW pps \in Seq(PodPreset)
  PROVE  MergedInto(VolumeMounts, own, Injected(pps, "volumeMounts"),
                    mergeVolumeMounts(own, pps))
<1>1. Injected(pps, "volumeMounts") \in Seq(VolumeMounts)
  BY SpecLists, InjectedFacts
<1> QED
  BY <1>1, MergeEntriesFacts DEF mergeVolumeMounts

LEMMA EnvFromFacts ==
  ASSUME NEW own \in Seq(EnvSources), NEW pps \in Seq(PodPreset)
  PROVE  /\ mergeEnvFrom(own, pps) \in Seq(EnvSources)
         /\ IsPrefix(own, mergeEnvFrom(own, pps))
         /\ ToSet(mergeEnvFrom(own, pps)) =
               ToSet(own) \cup ToSet(Injected(pps, "envFrom"))
<1> DEFINE inj == Injected(pps, "envFrom")
<1>1. inj \in Seq(EnvSources)
  BY SpecLists, InjectedFacts
<1>2. mergeEnvFrom(own, pps) = own \o inj
  BY DEF mergeEnvFrom
<1> HIDE DEF inj
<1>3. /\ own \o inj \in Seq(EnvSources)
      /\ ToSet(own \o inj) = ToSet(own) \cup ToSet(inj)
      /\ Grown(own \o inj, own)
  BY <1>1, ConcatFacts
<1>4. IsPrefix(own, own \o inj)
  BY <1>3, GrownIsExtension
<1> QED
  BY <1>2, <1>3, <1>4 DEF inj
=============================================================================
