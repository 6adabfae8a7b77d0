--------------------------- MODULE NsMappingProofs ---------------------------
(***************************************************************************)
(* Theorems about NsMapping, for every set of maps, namespaces and         *)
(* OperandRequests.                                                        *)
(***************************************************************************)
EXTENDS NsMapping, LoopFacts, FiniteSetTheorems

(***************************************************************************)
(* What the validator and the mutator compute.                             *)
(***************************************************************************)
\* The loop of the mutator stops at the first of the mappings that match.
LEMMA FirstMatchIsFirst ==
  ASSUME NEW map \in CsMaps, NEW ns, Matching(map, ns) # {}
  PROVE  \E i \in Matching(map, ns) :
           /\ FirstMatch(map, ns) = map.nsMappingList[i]
           /\ \A j \in Matching(map, ns) : i <= j
<1> DEFINE T == Matching(map, ns)
           First(i) == i \in T /\ \A j \in T : i <= j
<1>1. T \subseteq Nat
  BY DEF Matching, CsMaps
<1>2. \E i : First(i)
  BY <1>1, LeastNat
<1> DEFINE f == CHOOSE i \in T : \A j \in T : i <= j
<1>3. f \in T /\ \A j \in T : f <= j
  BY <1>2
<1> QED
  BY <1>3 DEF FirstMatch

\* The mappings of a map.
LEMMA MappingTypes ==
  ASSUME NEW map \in CsMaps, NEW i \in DOMAIN map.nsMappingList
  PROVE  /\ i \in 1..Len(map.nsMappingList)
         /\ map.nsMappingList[i].csNs \in Names
         /\ map.nsMappingList[i].requestNS \in Seq(Names)
<1>1. map.nsMappingList \in Seq([requestNS : Seq(Names), csNs : Names])
  BY DEF CsMaps
<1>2. map.nsMappingList[i] \in [requestNS : Seq(Names), csNs : Names]
  <2> DEFINE Mapping == [requestNS : Seq(Names), csNs : Names]
             list == map.nsMappingList
  <2>1. list \in Seq(Mapping) /\ i \in DOMAIN list
    BY <1>1
  <2> HIDE DEF Mapping, list
  <2>2. list[i] \in Mapping
    BY <2>1
  <2> QED
    BY <2>2 DEF Mapping, list
<1> QED
  BY <1>1, <1>2

\* In a map that the validator lets pass no two mappings share a target or
\* a requester, and none names the control namespace.
Separated(map) ==
  LET list == map.nsMappingList
  IN  /\ \A i, j \in DOMAIN list : list[i].csNs = list[j].csNs => i = j
      /\ \A i, j \in DOMAIN list :
           ToSet(list[i].requestNS) \cap ToSet(list[j].requestNS) # {} => i = j
      /\ \A i \in DOMAIN list :
           /\ map.controlNs # list[i].csNs
           /\ map.controlNs \notin ToSet(list[i].requestNS)

LEMMA ValidatedMapsSeparate ==
  ASSUME NEW map \in CsMaps, ~ Denies(map)
  PROVE  Separated(map)
<1> DEFINE list == map.nsMappingList
<1>1. \A i \in DOMAIN list : i \in 1..Len(list) /\ Len(list) \in Nat
  BY DEF CsMaps
<1>2. \A i \in DOMAIN list :
        /\ list[i].csNs \notin {map.controlNs} \cup CsNsBefore(list, i)
        /\ \A k \in DOMAIN list[i].requestNS :
             list[i].requestNS[k] \notin
               {map.controlNs} \cup RequestNsBefore(list, i, k)
  BY DEF Denies
<1>3. ASSUME NEW i \in DOMAIN list, NEW j \in DOMAIN list, i < j
      PROVE  /\ list[i].csNs # list[j].csNs
             /\ ToSet(list[i].requestNS) \cap ToSet(list[j].requestNS) = {}
  <2>1. i \in 1..(j - 1)
    BY <1>1, <1>3
  <2>2. list[i].csNs # list[j].csNs
    BY <1>2, <2>1 DEF CsNsBefore
  <2>3. ASSUME NEW ns \in ToSet(list[i].requestNS),
               ns \in ToSet(list[j].requestNS)
        PROVE  FALSE
    <3>1. PICK k \in DOMAIN list[j].requestNS : ns = list[j].requestNS[k]
      BY <2>3 DEF ToSet
    <3>2. ns \in RequestNsBefore(list, j, k)
      BY <2>1 DEF RequestNsBefore
    <3> QED
      BY <1>2, <3>1, <3>2
  <2> QED
    BY <2>2, <2>3
<1>4. ASSUME NEW i \in DOMAIN list
      PROVE  /\ map.controlNs # list[i].csNs
             /\ map.controlNs \notin ToSet(list[i].requestNS)
  BY <1>2 DEF ToSet
<1>5. ASSUME NEW i \in DOMAIN list, NEW j \in DOMAIN list
      PROVE  i < j \/ j < i \/ i = j
  BY <1>1
<1> QED
  BY <1>3, <1>4, <1>5 DEF Separated

\* What findNamespace finds.
LEMMA MatchingFinds ==
  ASSUME NEW map, NEW ns, NEW i \in Matching(map, ns)
  PROVE  /\ i \in DOMAIN map.nsMappingList
         /\ findNamespace(map.nsMappingList[i], ns)
         /\ \/ ns \in ToSet(map.nsMappingList[i].requestNS)
            \/ ns = map.nsMappingList[i].csNs
BY DEF Matching, findNamespace

\* The mutator returns an OperandRequest.
LEMMA MutatedTypes ==
  ASSUME MappingAssumption, NEW opreq \in OperandRequest, NEW map \in CsMaps
  PROVE  mutateOpreqFn(opreq, map) \in OperandRequest
<1>1. CASE Matching(map, opreq.namespace) = {}
  BY <1>1 DEF mutateOpreqFn
<1>2. CASE Matching(map, opreq.namespace) # {}
  <2> DEFINE target == FirstMatch(map, opreq.namespace).csNs
             refs == [i \in DOMAIN opreq.refs |->
                        IF opreq.refs[i] = DefaultCsNs(map) THEN target
                                                            ELSE opreq.refs[i]]
  <2>1. target \in Names
    BY <1>2, FirstMatchIsFirst, MatchingFinds, MappingTypes
  <2>2. opreq.refs \in Seq(Names) /\ opreq.namespace \in Namespaces
    BY DEF OperandRequest
  <2>3. refs \in Seq(Names)
    <3> HIDE DEF target
    <3> QED
      BY <2>1, <2>2
  <2>4. [opreq EXCEPT !.refs = refs] \in OperandRequest
    <3> HIDE DEF refs
    <3> QED
      BY <2>2, <2>3 DEF OperandRequest
  <2> QED
    BY <1>2, <2>4 DEF mutateOpreqFn, Redirect
<1> QED
  BY <1>1, <1>2

-----------------------------------------------------------------------------
(***************************************************************************)
(* Type correctness, one lemma per kind of step.                           *)
(***************************************************************************)
\* Content of the configmap is never lost from the log.
LEMMA LogGrows ==
  ASSUME NEW data, WriteMap(data), TypeOK, MappingAssumption, data \in Maps
  PROVE  /\ Len(log') = Len(log) + 1 /\ Len(log) \in Nat
         /\ log' \in Seq([data : Maps, checked : BOOLEAN])
         /\ \A v \in DOMAIN log : v \in DOMAIN log' /\ log'[v] = log[v]
         /\ log'[Len(log) + 1] = [data |-> data, checked |-> validating]
         /\ DOMAIN log' = DOMAIN log \cup {Len(log) + 1}
         /\ DOMAIN log = 1..Len(log)
<1> DEFINE Entry == [data : Maps, checked : BOOLEAN]
           entry == [data |-> data, checked |-> validating]
<1>1. log \in Seq(Entry) /\ entry \in Entry
  BY DEF TypeOK
<1>2. log' = Append(log, entry)
  BY DEF WriteMap
<1> HIDE DEF Entry, entry
<1>3. /\ Len(log') = Len(log) + 1 /\ Len(log) \in Nat
      /\ log' \in Seq(Entry)
      /\ \A v \in DOMAIN log : v \in DOMAIN log' /\ log'[v] = log[v]
      /\ log'[Len(log) + 1] = entry
      /\ DOMAIN log' = DOMAIN log \cup {Len(log) + 1}
      /\ DOMAIN log = 1..Len(log)
  BY <1>1, <1>2
<1> QED
  BY <1>3 DEF Entry, entry

\* The map at a version.
LEMMA MapTypes ==
  ASSUME TypeOK, MappingAssumption, NEW v \in 1..Len(log)
  PROVE  /\ v \in DOMAIN log
         /\ log[v].data \in CsMaps \cup {Malformed}
         /\ log[v].checked \in BOOLEAN
<1> DEFINE Entry == [data : Maps, checked : BOOLEAN]
<1>1. log \in Seq(Entry)
  BY DEF TypeOK
<1> HIDE DEF Entry
<1>2. v \in DOMAIN log /\ log[v] \in Entry
  BY <1>1
<1> QED
  BY <1>2 DEF Entry, MappingAssumption

\* A step that only changes the request for r keeps the types.
LEMMA RequestStepTypes ==
  ASSUME TypeOK, NEW r \in Requests, NEW x, IsRequest(r, x),
         req' = [req EXCEPT ![r] = x],
         UNCHANGED <<log, current, validating, serving>>,
         opreqs' \in [Requests -> OperandRequest \cup {NoRequest}],
         routed' \subseteq [from : Namespaces, to : Names, version : 0..Len(log)]
  PROVE  TypeOK'
<1>1. DOMAIN req' = Requests
  BY DEF TypeOK
<1>2. ASSUME NEW s \in Requests
      PROVE  IsRequest(s, req[s])'
  <2>1. IsRequest(s, req'[s])
    BY DEF TypeOK
  <2> QED
    BY <2>1 DEF IsRequest
<1> QED
  BY <1>1, <1>2 DEF TypeOK

\* The fields of a request in flight.
LEMMA RequestTypes ==
  ASSUME TypeOK, NEW r \in Requests
  PROVE  /\ IsRequest(r, req[r])
         /\ req[r] \in [phase   : {"idle", "submitted", "answered", "denied"},
                        obj     : OperandRequest \cup {NoRequest},
                        patched : OperandRequest \cup {NoRequest},
                        version : 0..Len(log),
                        error   : {"none", "reading", "parsing"}]
         /\ req[r].phase # "idle" => req[r].obj \in OperandRequest
         /\ req[r].phase = "answered" => req[r].patched \in OperandRequest
         /\ current \in 0..Len(log) /\ Len(log) \in Nat
<1>1. IsRequest(r, req[r])
  BY DEF TypeOK
<1>2. log \in Seq([data : Maps, checked : BOOLEAN]) /\ current \in 0..Len(log)
  BY DEF TypeOK
<1>3. Len(log) \in Nat
  <2> DEFINE Entry == [data : Maps, checked : BOOLEAN]
  <2>1. log \in Seq(Entry)
    BY <1>2
  <2> HIDE DEF Entry
  <2> QED
    BY <2>1
<1> QED
  BY <1>1, <1>2, <1>3 DEF IsRequest

LEMMA IdleTypes ==
  ASSUME NEW r, TypeOK
  PROVE  IsRequest(r, Idle)
<1>1. Len(log) \in Nat
  <2> DEFINE Entry == [data : Maps, checked : BOOLEAN]
  <2>1. log \in Seq(Entry)
    BY DEF TypeOK
  <2> HIDE DEF Entry
  <2> QED
    BY <2>1
<1> QED
  BY <1>1 DEF IsRequest, Idle

LEMMA AnswerTypes ==
  ASSUME TypeOK, NEW r \in Requests, req[r].phase = "submitted",
         NEW patched \in OperandRequest, Answer(r, patched)
  PROVE  TypeOK'
<1> DEFINE x == [req[r] EXCEPT !.phase = "answered", !.patched = patched,
                               !.version = current]
<1>1. IsRequest(r, x)
  BY RequestTypes DEF IsRequest
<1>2. req' = [req EXCEPT ![r] = x]
  BY DEF Answer, TypeOK
<1> HIDE DEF x
<1> QED
  BY <1>1, <1>2, RequestStepTypes DEF Answer, TypeOK

LEMMA DenyTypes ==
  ASSUME TypeOK, NEW r \in Requests, req[r].phase = "submitted",
         NEW error \in {"reading", "parsing"}, Deny(r, error)
  PROVE  TypeOK'
<1> DEFINE x == [req[r] EXCEPT !.phase = "denied", !.version = current,
                               !.error = error]
<1>1. IsRequest(r, x)
  BY RequestTypes DEF IsRequest
<1>2. req' = [req EXCEPT ![r] = x]
  BY DEF Deny, TypeOK
<1> HIDE DEF x
<1> QED
  BY <1>1, <1>2, RequestStepTypes DEF Deny, TypeOK

LEMMA StoreTypes ==
  ASSUME TypeOK, NEW r \in Requests, Store(r)
  PROVE  TypeOK'
<1> DEFINE changed == { j \in DOMAIN req[r].patched.refs :
                          req[r].patched.refs[j] # req[r].obj.refs[j] }
           new == { [from    |-> req[r].obj.namespace,
                     to      |-> req[r].patched.refs[i],
                     version |-> req[r].version] : i \in changed }
<1>1. req[r].phase = "answered"
  BY DEF Store
<1>2. /\ req[r].obj.namespace \in Namespaces
      /\ req[r].patched \in OperandRequest
      /\ req[r].patched.refs \in Seq(Names)
      /\ req[r].version \in 0..Len(log)
  BY <1>1, RequestTypes DEF OperandRequest
<1>3. new \subseteq [from : Namespaces, to : Names, version : 0..Len(log)]
  <2>1. ASSUME NEW i \in changed
        PROVE  req[r].patched.refs[i] \in Names
    BY <1>2
  <2> QED
    BY <1>2, <2>1
<1>4. /\ routed' = routed \cup new
      /\ opreqs' = [opreqs EXCEPT ![r] = req[r].patched]
      /\ req' = [req EXCEPT ![r] = Idle]
      /\ UNCHANGED <<log, current, validating, serving>>
  BY DEF Store
<1> HIDE DEF new, changed
<1>5. opreqs' \in [Requests -> OperandRequest \cup {NoRequest}]
  BY <1>2, <1>4 DEF TypeOK
<1>6. routed' \subseteq [from : Namespaces, to : Names, version : 0..Len(log)]
  BY <1>3, <1>4 DEF TypeOK
<1> QED
  BY <1>4, <1>5, <1>6, IdleTypes, RequestStepTypes

LEMMA SubmitTypes ==
  ASSUME TypeOK, MappingAssumption, NEW r \in Requests, SubmitAny(r)
  PROVE  TypeOK'
<1>1. PICK refs \in Seq(Names) : Submit(r, refs)
  <2>1. CASE \E refs \in RefLists : Submit(r, refs)
    BY <2>1 DEF MappingAssumption
  <2>2. CASE opreqs[r] # NoRequest /\ Submit(r, opreqs[r].refs)
    <3>1. opreqs[r] \in OperandRequest
      BY <2>2 DEF TypeOK
    <3>2. opreqs[r].refs \in Seq(Names)
      BY <3>1 DEF OperandRequest
    <3> QED
      BY <2>2, <3>2
  <2> QED
    BY <2>1, <2>2 DEF SubmitAny
<1> DEFINE obj == [namespace |-> NamespaceOf[r], refs |-> refs]
           x == [Idle EXCEPT !.phase = "submitted", !.obj = obj]
<1>2. obj \in OperandRequest /\ obj.namespace = NamespaceOf[r]
  BY DEF OperandRequest, MappingAssumption
<1> HIDE DEF obj
<1>3. IsRequest(r, x)
  BY <1>2, IdleTypes DEF IsRequest, Idle
<1>4. req' = [req EXCEPT ![r] = x]
  BY <1>1 DEF Submit, obj
<1> HIDE DEF x
<1> QED
  BY <1>1, <1>3, <1>4, RequestStepTypes DEF Submit, TypeOK

LEMMA WriteMapTypes ==
  ASSUME TypeOK, MappingAssumption, NEW data \in Maps, WriteMap(data)
  PROVE  TypeOK'
<1>1. Len(log') = Len(log) + 1 /\ Len(log) \in Nat
      /\ log' \in Seq([data : Maps, checked : BOOLEAN])
  BY LogGrows
<1>2. 0..Len(log) \subseteq 0..Len(log') /\ current' \in 0..Len(log')
  BY <1>1 DEF WriteMap
<1>3. UNCHANGED <<validating, serving, opreqs, req, routed>>
  BY DEF WriteMap
<1>4. ASSUME NEW r \in Requests
      PROVE  IsRequest(r, req[r])'
  <2>1. IsRequest(r, req[r])
    BY DEF TypeOK
  <2> QED
    BY <1>2, <1>3, <2>1 DEF IsRequest
<1>5. routed' \subseteq [from : Namespaces, to : Names, version : 0..Len(log')]
  <2>1. ASSUME NEW y \in routed
        PROVE  y \in [from : Namespaces, to : Names, version : 0..Len(log')]
    <3>1. y \in [from : Namespaces, to : Names, version : 0..Len(log)]
      BY <2>1 DEF TypeOK
    <3> QED
      BY <1>2, <3>1
  <2> QED
    BY <1>3, <2>1
<1> QED
  BY <1>1, <1>2, <1>3, <1>4, <1>5 DEF TypeOK

LEMMA HandleTypes ==
  ASSUME TypeOK, MappingAssumption, NEW r \in Requests, Handle(r)
  PROVE  TypeOK'
<1>1. req[r].phase = "submitted" /\ req[r].obj \in OperandRequest
  BY RequestTypes DEF Handle
<1>2. CASE current = 0
  BY <1>1, <1>2, AnswerTypes DEF Handle
<1>3. CASE current # 0 /\ ParsesForMutator(log[current].data)
  <2>1. log[current].data \in CsMaps
    <3>1. current \in 1..Len(log)
      BY <1>3, RequestTypes
    <3> QED
      BY <1>3, <3>1, MapTypes DEF ParsesForMutator
  <2>2. mutateOpreqFn(req[r].obj, log[current].data) \in OperandRequest
    BY <1>1, <2>1, MutatedTypes
  <2> QED
    BY <1>1, <1>3, <2>2, AnswerTypes DEF Handle
<1>4. CASE current # 0 /\ ~ ParsesForMutator(log[current].data)
  BY <1>1, <1>4, DenyTypes DEF Handle
<1> QED
  BY <1>2, <1>3, <1>4

LEMMA TypesInit ==
  ASSUME MappingAssumption, Init
  PROVE  TypeOK
<1>1. Len(log) = 0 /\ log \in Seq([data : Maps, checked : BOOLEAN])
  BY DEF Init
<1>2. ASSUME NEW r \in Requests
      PROVE  IsRequest(r, req[r])
  BY <1>1 DEF IsRequest, Init, Idle
<1>3. DOMAIN req = Requests /\ current \in 0..Len(log)
  BY <1>1 DEF Init
<1>4. opreqs \in [Requests -> OperandRequest \cup {NoRequest}]
  BY DEF Init
<1> QED
  BY <1>1, <1>2, <1>3, <1>4 DEF Init, TypeOK

LEMMA TypesStep ==
  ASSUME MappingAssumption, TypeOK, [Next]_vars
  PROVE  TypeOK'
<1>1. CASE ConfigureWebhooks
  BY <1>1 DEF ConfigureWebhooks, TypeOK, IsRequest
<1>2. CASE ServerChanges
  BY <1>2 DEF ServerChanges, TypeOK, IsRequest
<1>3. CASE \E data \in Maps : WriteMap(data)
  BY <1>3, WriteMapTypes
<1>4. CASE DeleteMap
  BY <1>4, RequestTypes DEF DeleteMap, TypeOK, IsRequest
<1>5. CASE \E r \in Requests : SubmitAny(r)
  BY <1>5, SubmitTypes
<1>6. CASE \E r \in Requests : Handle(r)
  BY <1>6, HandleTypes
<1>7. ASSUME NEW r \in Requests, GetFails(r)
      PROVE  TypeOK'
  BY <1>7, DenyTypes DEF GetFails
<1>8. ASSUME NEW r \in Requests, CallIgnored(r)
      PROVE  TypeOK'
  <2> DEFINE x == [req[r] EXCEPT !.phase = "answered", !.patched = req[r].obj]
  <2>1. IsRequest(r, x)
    BY <1>8, RequestTypes DEF IsRequest, CallIgnored
  <2>2. req' = [req EXCEPT ![r] = x]
    BY <1>8 DEF CallIgnored, TypeOK
  <2> HIDE DEF x
  <2> QED
    BY <1>8, <2>1, <2>2, RequestStepTypes DEF CallIgnored, TypeOK
<1>9. CASE \E r \in Requests : Store(r)
  BY <1>9, StoreTypes
<1>10. ASSUME NEW r \in Requests, Refuse(r)
       PROVE  TypeOK'
  BY <1>10, IdleTypes, RequestStepTypes DEF Refuse, TypeOK
<1>11. CASE UNCHANGED vars
  BY <1>11 DEF vars, TypeOK, IsRequest
<1> QED
  BY <1>1, <1>2, <1>3, <1>4, <1>5, <1>6, <1>7, <1>8, <1>9, <1>10, <1>11 DEF Next

\* The state of NsMapping keeps its type: among others a request that is on
\* its way, and a redirection that was stored, know a version of the map that
\* was really written.
THEOREM MappingTypeCorrect == Spec => []TypeOK
BY TypesInit, TypesStep, MappingAssumption, PTL DEF Spec

-----------------------------------------------------------------------------
(***************************************************************************)
(* The invariant behind the properties: what was checked was allowed, an   *)
(* answer is what the mutator makes of the request and the map it read,    *)
(* and so is what became of it when it was stored.                         *)
(***************************************************************************)
ValidatedMaps == \A v \in DOMAIN log : log[v].checked => Allows(log[v].data)

Served(x) ==
  IF x.version = 0
  THEN x.patched = x.obj
  ELSE /\ ParsesForMutator(log[x.version].data)
       /\ x.patched = mutateOpreqFn(x.obj, log[x.version].data)

Refused(x) ==
  x.version # 0 /\ ~ ParsesForMutator(log[x.version].data)

Handled(x) ==
  /\ x.phase = "submitted" => x.version = 0
  /\ x.phase = "answered" => Served(x)
  /\ x.phase = "denied" /\ x.error = "parsing" => Refused(x)

RequestsAreHandled == \A r \in Requests : Handled(req[r])

Redirected(y) ==
  LET map == log[y.version].data
  IN  /\ y.version \in DOMAIN log
      /\ ParsesForMutator(map)
      /\ Matching(map, y.from) # {}
      /\ y.to = FirstMatch(map, y.from).csNs

RoutedAreRedirected == \A y \in routed : Redirected(y)

MappingInv == ValidatedMaps /\ RequestsAreHandled /\ RoutedAreRedirected

\* A step that only changes the request for r.
LEMMA RequestStepHandled ==
  ASSUME TypeOK, MappingInv, NEW r \in Requests, NEW x, Handled(x),
         req' = [req EXCEPT ![r] = x], UNCHANGED <<log, routed>>
  PROVE  MappingInv'
<1>1. ASSUME NEW s \in Requests
      PROVE  Handled(req[s])'
  <2>1. Handled(req'[s])
    BY DEF TypeOK, MappingInv, RequestsAreHandled
  <2> QED
    BY <2>1 DEF Handled, Served, Refused
<1>2. ValidatedMaps'
  BY DEF MappingInv, ValidatedMaps
<1>3. RoutedAreRedirected'
  BY DEF MappingInv, RoutedAreRedirected, Redirected
<1> QED
  BY <1>1, <1>2, <1>3 DEF MappingInv, RequestsAreHandled

LEMMA WriteMapHandled ==
  ASSUME TypeOK, MappingInv, MappingAssumption, NEW data \in Maps,
         WriteMap(data)
  PROVE  MappingInv'
<1>1. /\ \A v \in DOMAIN log : v \in DOMAIN log' /\ log'[v] = log[v]
      /\ log'[Len(log) + 1] = [data |-> data, checked |-> validating]
      /\ DOMAIN log' = DOMAIN log \cup {Len(log) + 1}
      /\ DOMAIN log = 1..Len(log) /\ Len(log) \in Nat
  BY LogGrows
<1>2. UNCHANGED <<req, routed>> /\ (validating => Allows(data))
  BY DEF WriteMap
<1>3. ValidatedMaps'
  <2>1. ASSUME NEW v \in DOMAIN log', log'[v].checked
        PROVE  Allows(log'[v].data)
    <3>1. CASE v \in DOMAIN log
      BY <1>1, <2>1, <3>1 DEF MappingInv, ValidatedMaps
    <3>2. CASE v = Len(log) + 1
      BY <1>1, <1>2, <2>1, <3>2
    <3> QED
      BY <1>1, <3>1, <3>2
  <2> QED
    BY <2>1 DEF ValidatedMaps
<1>4. ASSUME NEW r \in Requests
      PROVE  Handled(req[r])'
  <2>1. Handled(req[r]) /\ req[r].version \in 0..Len(log)
    BY RequestTypes DEF MappingInv, RequestsAreHandled
  <2>2. req[r].version # 0 => log'[req[r].version] = log[req[r].version]
    BY <1>1, <2>1
  <2> QED
    BY <1>2, <2>1, <2>2 DEF Handled, Served, Refused
<1>5. ASSUME NEW y \in routed'
      PROVE  Redirected(y)'
  <2>1. Redirected(y)
    BY <1>2, <1>5 DEF MappingInv, RoutedAreRedirected
  <2>2. y.version \in DOMAIN log' /\ log'[y.version] = log[y.version]
    BY <1>1, <2>1 DEF Redirected
  <2> QED
    BY <2>1, <2>2 DEF Redirected
<1> QED
  BY <1>3, <1>4, <1>5 DEF MappingInv, RequestsAreHandled, RoutedAreRedirected

LEMMA HandleHandled ==
  ASSUME TypeOK, MappingInv, NEW r \in Requests, Handle(r)
  PROVE  MappingInv'
<1>1. req[r] \in [phase   : {"idle", "submitted", "answered", "denied"},
                  obj     : OperandRequest \cup {NoRequest},
                  patched : OperandRequest \cup {NoRequest},
                  version : 0..Len(log),
                  error   : {"none", "reading", "parsing"}]
  BY RequestTypes
<1>2. req[r].phase = "submitted" /\ UNCHANGED <<log, routed>>
  BY DEF Handle, Answer, Deny
<1>3. ASSUME NEW patched, Answer(r, patched),
             Served([req[r] EXCEPT !.phase = "answered", !.patched = patched,
                                   !.version = current])
      PROVE  MappingInv'
  <2> DEFINE x == [req[r] EXCEPT !.phase = "answered", !.patched = patched,
                                 !.version = current]
  <2>1. x.phase = "answered"
    BY <1>1
  <2>2. Handled(x)
    BY <1>3, <2>1 DEF Handled
  <2>3. req' = [req EXCEPT ![r] = x]
    BY <1>3 DEF Answer, TypeOK
  <2> HIDE DEF x
  <2> QED
    BY <1>2, <2>2, <2>3, RequestStepHandled
<1>4. CASE current = 0
  <2>1. Answer(r, req[r].obj)
    BY <1>4 DEF Handle
  <2>2. Served([req[r] EXCEPT !.phase = "answered", !.patched = req[r].obj,
                              !.version = current])
    BY <1>1, <1>4 DEF Served
  <2> QED
    BY <1>3, <2>1, <2>2
<1>5. CASE current # 0 /\ ParsesForMutator(log[current].data)
  <2> DEFINE patched == mutateOpreqFn(req[r].obj, log[current].data)
  <2>1. Answer(r, patched)
    BY <1>5 DEF Handle
  <2> HIDE DEF patched
  <2>2. Served([req[r] EXCEPT !.phase = "answered", !.patched = patched,
                              !.version = current])
    BY <1>1, <1>5 DEF Served, patched
  <2> QED
    BY <1>3, <2>1, <2>2
<1>6. CASE current # 0 /\ ~ ParsesForMutator(log[current].data)
  <2> DEFINE x == [req[r] EXCEPT !.phase = "denied", !.version = current,
                                 !.error = "parsing"]
  <2>1. Handled(x)
    BY <1>1, <1>6 DEF Handled, Refused
  <2>2. req' = [req EXCEPT ![r] = x]
    BY <1>6 DEF Handle, Deny, TypeOK
  <2> HIDE DEF x
  <2> QED
    BY <1>2, <2>1, <2>2, RequestStepHandled
<1> QED
  BY <1>4, <1>5, <1>6

\* What mutateOpreqFn does to one reference.
LEMMA MutatedRefs ==
  ASSUME NEW obj \in OperandRequest, NEW map
  PROVE  /\ mutateOpreqFn(obj, map).namespace = obj.namespace
         /\ DOMAIN mutateOpreqFn(obj, map).refs = DOMAIN obj.refs
         /\ Matching(map, obj.namespace) = {} => mutateOpreqFn(obj, map) = obj
         /\ Matching(map, obj.namespace) # {} =>
              /\ mutateOpreqFn(obj, map) \in [namespace : {obj.namespace},
                                              refs : {mutateOpreqFn(obj, map).refs}]
              /\ \A i \in DOMAIN obj.refs :
                   mutateOpreqFn(obj, map).refs[i] =
                     IF obj.refs[i] = DefaultCsNs(map)
                     THEN FirstMatch(map, obj.namespace).csNs
                     ELSE obj.refs[i]
<1> DEFINE target == FirstMatch(map, obj.namespace).csNs
           default == DefaultCsNs(map)
           refs == [i \in DOMAIN obj.refs |->
                      IF obj.refs[i] = default THEN target ELSE obj.refs[i]]
<1>1. obj \in [namespace : Namespaces, refs : Seq(Names)]
  BY DEF OperandRequest
<1>2. CASE Matching(map, obj.namespace) = {}
  BY <1>2 DEF mutateOpreqFn
<1>3. CASE Matching(map, obj.namespace) # {}
  <2>1. mutateOpreqFn(obj, map) = [obj EXCEPT !.refs = refs]
    BY <1>3 DEF mutateOpreqFn, Redirect
  <2>2. \A i \in DOMAIN obj.refs :
          refs[i] = IF obj.refs[i] = default THEN target ELSE obj.refs[i]
    OBVIOUS
  <2>3. DOMAIN refs = DOMAIN obj.refs
    OBVIOUS
  <2> HIDE DEF refs, target, default
  <2>4. /\ [obj EXCEPT !.refs = refs].refs = refs
        /\ [obj EXCEPT !.refs = refs].namespace = obj.namespace
        /\ [obj EXCEPT !.refs = refs] \in [namespace : {obj.namespace}, refs : {refs}]
    BY <1>1
  <2>5. /\ mutateOpreqFn(obj, map).refs = refs
        /\ mutateOpreqFn(obj, map).namespace = obj.namespace
        /\ mutateOpreqFn(obj, map) \in [namespace : {obj.namespace}, refs : {refs}]
    BY <2>1, <2>4
  <2> QED
    BY <1>3, <2>2, <2>3, <2>5 DEF target, default
<1> QED
  BY <1>2, <1>3

LEMMA StoreHandled ==
  ASSUME TypeOK, MappingInv, NEW r \in Requests, Store(r)
  PROVE  MappingInv'
<1> DEFINE obj == req[r].obj
           patched == req[r].patched
           version == req[r].version
           map == log[version].data
<1>1. req[r].phase = "answered" /\ UNCHANGED log /\ req' = [req EXCEPT ![r] = Idle]
  BY DEF Store
<1>2. Served(req[r]) /\ obj \in OperandRequest /\ version \in 0..Len(log)
  BY <1>1, RequestTypes DEF MappingInv, RequestsAreHandled, Handled
<1>3. ASSUME NEW i \in DOMAIN patched.refs, patched.refs[i] # obj.refs[i]
      PROVE  /\ version \in DOMAIN log
             /\ ParsesForMutator(map)
             /\ Matching(map, obj.namespace) # {}
             /\ patched.refs[i] = FirstMatch(map, obj.namespace).csNs
  <2>1. version # 0 /\ ParsesForMutator(map) /\ patched = mutateOpreqFn(obj, map)
    BY <1>2, <1>3 DEF Served
  <2> HIDE DEF obj, patched, map
  <2>2. Matching(map, obj.namespace) # {} /\ i \in DOMAIN obj.refs
    BY <1>2, <1>3, <2>1, MutatedRefs
  <2>3. patched.refs[i] = IF obj.refs[i] = DefaultCsNs(map)
                          THEN FirstMatch(map, obj.namespace).csNs
                          ELSE obj.refs[i]
    BY <1>2, <2>1, <2>2, MutatedRefs
  <2>4. version \in DOMAIN log
    BY <1>2, <2>1, RequestTypes, MapTypes, MappingAssumption
  <2> QED
    BY <1>3, <2>1, <2>2, <2>3, <2>4
<1>4. ASSUME NEW y \in routed'
      PROVE  Redirected(y)
  <2>1. CASE y \in routed
    BY <2>1 DEF MappingInv, RoutedAreRedirected
  <2>2. CASE y \notin routed
    <3>1. PICK i \in DOMAIN patched.refs :
            /\ patched.refs[i] # obj.refs[i]
            /\ y = [from |-> obj.namespace, to |-> patched.refs[i],
                    version |-> version]
      BY <2>2 DEF Store
    <3>2. y.from = obj.namespace /\ y.to = patched.refs[i] /\ y.version = version
      BY <3>1
    <3> QED
      BY <1>3, <3>1, <3>2 DEF Redirected
  <2> QED
    BY <2>1, <2>2
<1>5. RoutedAreRedirected'
  BY <1>1, <1>4 DEF RoutedAreRedirected, Redirected
<1>6. ASSUME NEW s \in Requests
      PROVE  Handled(req[s])'
  <2>1. Handled(Idle)
    BY DEF Handled, Idle
  <2>2. Handled(req'[s])
    BY <1>1, <2>1 DEF TypeOK, MappingInv, RequestsAreHandled
  <2> QED
    BY <1>1, <2>2 DEF Handled, Served, Refused
<1> QED
  BY <1>1, <1>5, <1>6 DEF MappingInv, ValidatedMaps, RequestsAreHandled

LEMMA MappingStep ==
  ASSUME MappingAssumption, TypeOK, MappingInv, [Next]_vars
  PROVE  MappingInv'
<1>1. ASSUME UNCHANGED <<log, req, routed>>
      PROVE  MappingInv'
  BY <1>1 DEF MappingInv, ValidatedMaps, RequestsAreHandled, Handled, Served,
              Refused, RoutedAreRedirected, Redirected
<1>2. CASE ConfigureWebhooks \/ ServerChanges \/ DeleteMap \/ UNCHANGED vars
  BY <1>1, <1>2 DEF ConfigureWebhooks, ServerChanges, DeleteMap, vars
<1>3. CASE \E data \in Maps : WriteMap(data)
  BY <1>3, WriteMapHandled
<1>4. ASSUME NEW r \in Requests, SubmitAny(r)
      PROVE  MappingInv'
  <2>1. PICK refs : Submit(r, refs)
    BY <1>4 DEF SubmitAny
  <2> DEFINE obj == [namespace |-> NamespaceOf[r], refs |-> refs]
             x == [Idle EXCEPT !.phase = "submitted", !.obj = obj]
  <2>2. req' = [req EXCEPT ![r] = x] /\ UNCHANGED <<log, routed>>
    BY <2>1 DEF Submit
  <2>3. Handled(x)
    BY DEF Handled, Idle
  <2> HIDE DEF x
  <2> QED
    BY <2>2, <2>3, RequestStepHandled
<1>5. CASE \E r \in Requests : Handle(r)
  BY <1>5, HandleHandled
<1>6. ASSUME NEW r \in Requests, GetFails(r)
      PROVE  MappingInv'
  <2> DEFINE x == [req[r] EXCEPT !.phase = "denied", !.version = current,
                                 !.error = "reading"]
  <2>1. Handled(x)
    BY RequestTypes DEF Handled
  <2>2. req' = [req EXCEPT ![r] = x] /\ UNCHANGED <<log, routed>>
    BY <1>6 DEF GetFails, Deny, TypeOK
  <2> HIDE DEF x
  <2> QED
    BY <2>1, <2>2, RequestStepHandled
<1>7. ASSUME NEW r \in Requests, CallIgnored(r)
      PROVE  MappingInv'
  <2> DEFINE x == [req[r] EXCEPT !.phase = "answered", !.patched = req[r].obj]
  <2>1. req[r].version = 0
    BY <1>7 DEF CallIgnored, MappingInv, RequestsAreHandled, Handled
  <2>2. Handled(x)
    BY <2>1, RequestTypes DEF Handled, Served
  <2>3. req' = [req EXCEPT ![r] = x] /\ UNCHANGED <<log, routed>>
    BY <1>7 DEF CallIgnored, TypeOK
  <2> HIDE DEF x
  <2> QED
    BY <2>2, <2>3, RequestStepHandled
<1>8. CASE \E r \in Requests : Store(r)
  BY <1>8, StoreHandled
<1>9. ASSUME NEW r \in Requests, Refuse(r)
      PROVE  MappingInv'
  <2>1. Handled(Idle)
    BY DEF Handled, Idle
  <2> QED
    BY <1>9, <2>1, RequestStepHandled DEF Refuse
<1> QED
  BY <1>2, <1>3, <1>4, <1>5, <1>6, <1>7, <1>8, <1>9 DEF Next

LEMMA MappingInit ==
  ASSUME Init
  PROVE  MappingInv
BY DEF Init, MappingInv, ValidatedMaps, RequestsAreHandled, Handled, Idle,
       RoutedAreRedirected

LEMMA MappingInvariant == Spec => [](TypeOK /\ MappingInv)
<1>1. Init => TypeOK /\ MappingInv
  BY TypesInit, MappingInit, MappingAssumption
<1>2. TypeOK /\ MappingInv /\ [Next]_vars => (TypeOK /\ MappingInv)'
  BY TypesStep, MappingStep, MappingAssumption
<1> QED
  BY <1>1, <1>2, PTL DEF Spec

-----------------------------------------------------------------------------
(***************************************************************************)
(* What follows from the invariant.                                        *)
(***************************************************************************)
LEMMA CheckedMaps ==
  ASSUME MappingAssumption, TypeOK, MappingInv, NEW v, Checked(v)
  PROVE  /\ v \in DOMAIN log
         /\ log[v].data \in CsMaps
         /\ log[v].data.controlNs # Malformed
         /\ Separated(log[v].data)
<1>1. v \in DOMAIN log /\ Allows(log[v].data)
  BY DEF Checked, MappingInv, ValidatedMaps
<1>2. v \in 1..Len(log)
  <2> DEFINE Entry == [data : Maps, checked : BOOLEAN]
  <2>1. log \in Seq(Entry)
    BY DEF TypeOK
  <2> HIDE DEF Entry
  <2> QED
    BY <1>1, <2>1
<1>3. log[v].data \in CsMaps
  BY <1>1, <1>2, MapTypes DEF Allows, ParsesForValidator
<1> QED
  BY <1>1, <1>3, ValidatedMapsSeparate DEF Allows, ParsesForValidator

\* A redirection leads to the target of a mapping that has the namespace it
\* comes from.
LEMMA RedirectedFinds ==
  ASSUME MappingInv, NEW y \in routed, log[y.version].data \in CsMaps
  PROVE  \E i \in DOMAIN log[y.version].data.nsMappingList :
           /\ i \in Matching(log[y.version].data, y.from)
           /\ y.to = log[y.version].data.nsMappingList[i].csNs
<1>1. Redirected(y)
  BY DEF MappingInv, RoutedAreRedirected
<1>2. PICK i \in Matching(log[y.version].data, y.from) :
        FirstMatch(log[y.version].data, y.from)
          = log[y.version].data.nsMappingList[i]
  BY <1>1, FirstMatchIsFirst DEF Redirected
<1> QED
  BY <1>1, <1>2, MatchingFinds DEF Redirected

LEMMA Tenants ==
  ASSUME MappingAssumption, TypeOK, MappingInv
  PROVE  TenantsStayApart
<1> SUFFICES ASSUME NEW x \in routed, NEW y \in routed, x.version = y.version,
                    x.to = y.to, Checked(x.version)
             PROVE  \E i \in DOMAIN log[x.version].data.nsMappingList :
                      /\ findNamespace(log[x.version].data.nsMappingList[i], x.from)
                      /\ findNamespace(log[x.version].data.nsMappingList[i], y.from)
  BY DEF TenantsStayApart
<1> DEFINE map == log[x.version].data
<1>1. map \in CsMaps /\ Separated(map)
  BY CheckedMaps
<1>2. PICK i \in DOMAIN map.nsMappingList :
        i \in Matching(map, x.from) /\ x.to = map.nsMappingList[i].csNs
  BY <1>1, RedirectedFinds
<1>3. PICK j \in DOMAIN map.nsMappingList :
        j \in Matching(map, y.from) /\ y.to = map.nsMappingList[j].csNs
  BY <1>1, RedirectedFinds
<1>4. i = j
  BY <1>1, <1>2, <1>3 DEF Separated
<1> QED
  BY <1>2, <1>3, <1>4, MatchingFinds

LEMMA Control ==
  ASSUME MappingAssumption, TypeOK, MappingInv
  PROVE  ControlStaysApart
<1> SUFFICES ASSUME NEW x \in routed, Checked(x.version)
             PROVE  log[x.version].data.controlNs \notin {x.from, x.to}
  BY DEF ControlStaysApart
<1> DEFINE map == log[x.version].data
<1>1. map \in CsMaps /\ Separated(map)
  BY CheckedMaps
<1>2. PICK i \in DOMAIN map.nsMappingList :
        i \in Matching(map, x.from) /\ x.to = map.nsMappingList[i].csNs
  BY <1>1, RedirectedFinds
<1>3. \/ x.from \in ToSet(map.nsMappingList[i].requestNS)
      \/ x.from = map.nsMappingList[i].csNs
  BY <1>2, MatchingFinds
<1> QED
  BY <1>1, <1>2, <1>3 DEF Separated

LEMMA Determinate ==
  ASSUME MappingAssumption, TypeOK, MappingInv
  PROVE  RoutingIsDeterminate
<1> SUFFICES ASSUME NEW v \in DOMAIN log, Checked(v), NEW ns \in Namespaces,
                    \A i \in DOMAIN log[v].data.nsMappingList :
                      log[v].data.nsMappingList[i].csNs # ns
             PROVE  Cardinality(Matching(log[v].data, ns)) <= 1
  BY DEF RoutingIsDeterminate
<1> DEFINE map == log[v].data
           T == Matching(map, ns)
<1>1. Separated(map)
  BY CheckedMaps
<1>2. ASSUME NEW i \in T, NEW j \in T
      PROVE  i = j
  <2>1. /\ i \in DOMAIN map.nsMappingList /\ j \in DOMAIN map.nsMappingList
        /\ ns \in ToSet(map.nsMappingList[i].requestNS)
        /\ ns \in ToSet(map.nsMappingList[j].requestNS)
    BY MatchingFinds
  <2> QED
    BY <1>1, <2>1 DEF Separated
<1> HIDE DEF T
<1>3. T = {} \/ \E i \in T : T = {i}
  BY <1>2
<1>4. Cardinality(T) = 0 \/ Cardinality(T) = 1
  BY <1>3, FS_EmptySet, FS_Singleton
<1> QED
  BY <1>4 DEF T

LEMMA OnlyDefault ==
  ASSUME MappingAssumption, TypeOK, MappingInv
  PROVE  RedirectsOnlyDefault
<1> SUFFICES ASSUME NEW r \in Requests, req[r].phase = "answered"
             PROVE  LET obj == req[r].obj
                        patched == req[r].patched
                        version == req[r].version
                        map == log[version].data
                        default == DefaultCsNs(map)
                        targets == { m.csNs : m \in
                          { x \in ToSet(map.nsMappingList) :
                              findNamespace(x, obj.namespace) } }
                    IN  /\ patched.namespace = obj.namespace
                        /\ DOMAIN patched.refs = DOMAIN obj.refs
                        /\ version = 0 => patched = obj
                        /\ version # 0 =>
                             \A i \in DOMAIN obj.refs :
                               IF obj.refs[i] = default /\ targets # {}
                               THEN patched.refs[i] \in targets
                               ELSE patched.refs[i] = obj.refs[i]
  BY Zenon DEF RedirectsOnlyDefault, DefaultCsNs
<1> DEFINE obj == req[r].obj
           patched == req[r].patched
           version == req[r].version
           map == log[version].data
           default == DefaultCsNs(map)
           targets == { m.csNs : m \in { x \in ToSet(map.nsMappingList) :
                                           findNamespace(x, obj.namespace) } }
<1>1. Served(req[r]) /\ obj \in OperandRequest /\ version \in 0..Len(log)
  BY RequestTypes DEF MappingInv, RequestsAreHandled, Handled
<1>2. CASE version = 0
  BY <1>1, <1>2 DEF Served
<1>3. CASE version # 0
  <2>1. patched = mutateOpreqFn(obj, map) /\ map \in CsMaps
    BY <1>1, <1>3, RequestTypes, MapTypes DEF Served, ParsesForMutator
  <2> HIDE DEF obj, patched, version, map
  <2>2. /\ patched.namespace = obj.namespace
        /\ DOMAIN patched.refs = DOMAIN obj.refs
    BY <1>1, <2>1, MutatedRefs
  <2>3. Matching(map, obj.namespace) = {} <=> targets = {}
    <3>1. ASSUME NEW k \in Matching(map, obj.namespace)
          PROVE  targets # {}
      <4>1. /\ map.nsMappingList[k] \in ToSet(map.nsMappingList)
            /\ findNamespace(map.nsMappingList[k], obj.namespace)
        BY MatchingFinds DEF ToSet
      <4> QED
        BY <4>1
    <3>2. ASSUME NEW m \in ToSet(map.nsMappingList),
                 findNamespace(m, obj.namespace)
          PROVE  Matching(map, obj.namespace) # {}
      BY <3>2 DEF Matching, ToSet
    <3> QED
      BY <3>1, <3>2
  <2>4. ASSUME NEW i \in DOMAIN obj.refs
        PROVE  IF obj.refs[i] = default /\ targets # {}
               THEN patched.refs[i] \in targets
               ELSE patched.refs[i] = obj.refs[i]
    <3>1. CASE Matching(map, obj.namespace) = {}
      BY <1>1, <2>1, <2>3, <3>1, MutatedRefs
    <3>2. CASE Matching(map, obj.namespace) # {}
      <4>1. PICK k \in Matching(map, obj.namespace) :
              FirstMatch(map, obj.namespace) = map.nsMappingList[k]
        BY <2>1, <3>2, FirstMatchIsFirst
      <4>2. FirstMatch(map, obj.namespace).csNs \in targets
        BY <4>1, MatchingFinds DEF ToSet
      <4>3. patched.refs[i] = IF obj.refs[i] = default
                              THEN FirstMatch(map, obj.namespace).csNs
                              ELSE obj.refs[i]
        BY <1>1, <2>1, <3>2, MutatedRefs
      <4> HIDE DEF targets, default
      <4> QED
        BY <2>3, <3>2, <4>2, <4>3
    <3> QED
      BY <3>1, <3>2
  <2> HIDE DEF targets, default
  <2>5. \A i \in DOMAIN obj.refs :
          IF obj.refs[i] = default /\ targets # {}
          THEN patched.refs[i] \in targets
          ELSE patched.refs[i] = obj.refs[i]
    BY <2>4
  <2> QED
    BY <1>3, <2>2, <2>5 DEF obj, patched, version, map, targets, default
<1> QED
  BY <1>2, <1>3

LEMMA MutatedTwice ==
  ASSUME MappingAssumption, NEW obj \in OperandRequest, NEW map \in CsMaps
  PROVE  mutateOpreqFn(mutateOpreqFn(obj, map), map) = mutateOpreqFn(obj, map)
<1> DEFINE once == mutateOpreqFn(obj, map)
           twice == mutateOpreqFn(once, map)
<1>1. once \in OperandRequest /\ once.namespace = obj.namespace
  BY MutatedTypes, MutatedRefs
<1>2. CASE Matching(map, obj.namespace) = {}
  BY <1>1, <1>2, MutatedRefs
<1>3. CASE Matching(map, obj.namespace) # {}
  <2> DEFINE target == FirstMatch(map, obj.namespace).csNs
             default == DefaultCsNs(map)
  <2>1. \A i \in DOMAIN obj.refs :
          once.refs[i] = IF obj.refs[i] = default THEN target ELSE obj.refs[i]
    BY <1>3, MutatedRefs
  <2>2. DOMAIN once.refs = DOMAIN obj.refs
    BY MutatedRefs
  <2> HIDE DEF once
  <2>3. /\ twice \in OperandRequest
        /\ DOMAIN twice.refs = DOMAIN once.refs
        /\ twice.namespace = once.namespace
        /\ \A i \in DOMAIN once.refs :
             twice.refs[i] = IF once.refs[i] = default THEN target ELSE once.refs[i]
    <3>1. /\ Matching(map, once.namespace) # {}
          /\ FirstMatch(map, once.namespace).csNs = target
      BY <1>1, <1>3
    <3>2. twice \in OperandRequest
      BY <1>1, MutatedTypes
    <3>3. /\ DOMAIN twice.refs = DOMAIN once.refs
          /\ twice.namespace = once.namespace
      BY <1>1, MutatedRefs
    <3>4. \A i \in DOMAIN once.refs :
            twice.refs[i] = IF once.refs[i] = DefaultCsNs(map)
                            THEN FirstMatch(map, once.namespace).csNs
                            ELSE once.refs[i]
      BY <1>1, <3>1, MutatedRefs
    <3> HIDE DEF target, twice
    <3> QED
      BY <3>1, <3>2, <3>3, <3>4
  <2> HIDE DEF twice, target, default
  <2>4. \A i \in DOMAIN once.refs : twice.refs[i] = once.refs[i]
    BY <2>1, <2>2, <2>3
  <2>5. once.refs \in Seq(Names) /\ twice.refs \in Seq(Names)
    BY <1>1, <2>3 DEF OperandRequest
  <2>6. twice.refs = once.refs
    BY <2>3, <2>4, <2>5
  <2> QED
    BY <1>1, <2>3, <2>6 DEF OperandRequest, once, twice
<1> QED
  BY <1>2, <1>3

LEMMA Stable ==
  ASSUME MappingAssumption, TypeOK, MappingInv
  PROVE  RoutingIsStable
<1> SUFFICES ASSUME NEW r \in Requests, req[r].phase = "answered",
                    req[r].version # 0
             PROVE  mutateOpreqFn(req[r].patched, log[req[r].version].data)
                      = req[r].patched
  BY DEF RoutingIsStable
<1>1. Served(req[r]) /\ req[r].obj \in OperandRequest /\ req[r].version \in 1..Len(log)
  BY RequestTypes DEF MappingInv, RequestsAreHandled, Handled
<1>2. /\ log[req[r].version].data \in CsMaps
      /\ req[r].patched = mutateOpreqFn(req[r].obj, log[req[r].version].data)
  BY <1>1, MapTypes DEF Served, ParsesForMutator
<1> QED
  BY <1>1, <1>2, MutatedTwice

LEMMA Cause ==
  ASSUME MappingAssumption, TypeOK, MappingInv
  PROVE  DenialHasCause
<1> SUFFICES ASSUME NEW r \in Requests, req[r].phase = "denied",
                    req[r].error = "parsing"
             PROVE  LET v == req[r].version
                    IN  /\ v # 0
                        /\ ~ ParsesForMutator(log[v].data)
                        /\ Checked(v) => /\ log[v].data # Malformed
                                         /\ log[v].data.defaultCsNs = Malformed
  BY DEF DenialHasCause
<1>1. Refused(req[r])
  BY DEF MappingInv, RequestsAreHandled, Handled
<1>2. Checked(req[r].version) => log[req[r].version].data # Malformed
  BY CheckedMaps, MappingAssumption DEF MappingInv, ValidatedMaps, Checked, Allows,
              ParsesForValidator
<1> QED
  BY <1>1, <1>2 DEF Refused, ParsesForMutator

(***************************************************************************)
(* The theorems.                                                           *)
(***************************************************************************)
\* Tenants that a validated map keeps apart never share a namespace, for any
\* map the validator (nsmappingconfigmap/handler.go) lets pass.
THEOREM TenantsAreApart == Spec => []TenantsStayApart
BY MappingInvariant, Tenants, MappingAssumption, PTL

\* The control namespace is neither a source nor a target of redirections.
THEOREM ControlIsApart == Spec => []ControlStaysApart
BY MappingInvariant, Control, MappingAssumption, PTL

\* The first mapping that the mutator (operandrequest/handler.go) finds for a
\* namespace that is no target is the only one there is.
THEOREM RoutingHasOneResult == Spec => []RoutingIsDeterminate
BY MappingInvariant, Determinate, MappingAssumption, PTL

\* The mutator changes what names the default namespace, and nothing else.
THEOREM OnlyDefaultIsRedirected == Spec => []RedirectsOnlyDefault
BY MappingInvariant, OnlyDefault, MappingAssumption, PTL

\* Under the same map the mutator has nothing to change in its own answers.
THEOREM RoutingSettles == Spec => []RoutingIsStable
BY MappingInvariant, Stable, MappingAssumption, PTL

\* What the validator let pass is refused only for the default namespace.
THEOREM RefusalsHaveCause == Spec => []DenialHasCause
BY MappingInvariant, Cause, MappingAssumption, PTL
=============================================================================
