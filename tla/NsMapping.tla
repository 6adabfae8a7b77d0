------------------------------ MODULE NsMapping ------------------------------
(***************************************************************************)
(* Routing OperandRequests to common-service namespaces.  Configmap        *)
(* kube-public/common-service-maps holds a list of mappings, each from     *)
(* requesting namespaces to one common-service namespace.  The validating  *)
(* webhook (pkg/controller/nsmappingconfigmap/handler.go) judges every     *)
(* write to it; the mutating webhook (pkg/controller/operandrequest/       *)
(* handler.go) reads it on every create and update of an OperandRequest    *)
(* and redirects the request's references to the default namespace.        *)
(* Both webhooks exist only when ENABLE_OPREQ_WEBHOOK is TRUE, and only    *)
(* once the controller has configured them (WebhookInstall).               *)
(***************************************************************************)
EXTENDS Integers, Sequences, FiniteSets, SequencesExt

CONSTANTS
  Namespaces,  \* names of namespaces
  DefaultNs,   \* "ibm-common-services"
  NoNs,        \* the empty string
  Malformed,   \* what the handlers cannot unmarshal
  Maps,        \* what users write into the configmap
  RefLists,    \* the registry namespaces users write into a request
  Requests,    \* names of OperandRequests
  NamespaceOf, \* the namespace each of them is in
  MaxWrites,   \* bound on the writes to the configmap
  NoRequest    \* no such OperandRequest

Names == Namespaces \cup {NoNs}

\* A namespace field has a value of another type in the yaml, a list say,
\* when it is Malformed here: each handler unmarshals only its own fields.
CsMaps ==
  [controlNs     : Names \cup {Malformed},
   defaultCsNs   : Names \cup {Malformed},
   nsMappingList : Seq([requestNS : Seq(Names), csNs : Names])]

OperandRequest == [namespace : Namespaces, refs : Seq(Names)]

ASSUME MappingAssumption ==
  /\ DefaultNs \in Namespaces
  /\ NoNs \notin Namespaces
  /\ Malformed \notin Names
  /\ Malformed \notin CsMaps
  /\ Maps \subseteq CsMaps \cup {Malformed}
  /\ RefLists \subseteq Seq(Names)
  /\ NamespaceOf \in [Requests -> Namespaces]
  /\ MaxWrites \in Nat
  /\ NoRequest \notin OperandRequest

VARIABLES
  log,         \* log[v] is the v-th content stored: [data, checked]
  current,     \* the version in the configmap, 0 when there is none
  validating,  \* whether the validating webhook is configured
  serving,     \* whether the webhook server can be reached
  opreqs,      \* opreqs[r] is the stored OperandRequest or NoRequest
  req,         \* req[r] is the request for r that is in flight
  routed       \* history: the redirections that were stored

vars == <<log, current, validating, serving, opreqs, req, routed>>

Idle == [phase |-> "idle", obj |-> NoRequest, patched |-> NoRequest,
         version |-> 0, error |-> "none"]

-----------------------------------------------------------------------------
(***************************************************************************)
(* The validator.  Its loops keep the namespaces met so far in two sets.   *)
(***************************************************************************)
CsNsBefore(list, i) == { list[j].csNs : j \in 1..(i - 1) }

\* Mutant: the set of requesting namespaces is made anew for each mapping.
RequestNsOfMapping(list, i, k) == { list[i].requestNS[l] : l \in 1..(k - 1) }

RequestNsBefore(list, i, k) ==
  UNION { ToSet(list[j].requestNS) : j \in 1..(i - 1) }
    \cup { list[i].requestNS[l] : l \in 1..(k - 1) }

\* Mutant: two mappings may have one target.
DeniesRequestersOnly(map) ==
  LET list == map.nsMappingList
  IN  \E i \in DOMAIN list :
        \/ map.controlNs = list[i].csNs
        \/ \E k \in DOMAIN list[i].requestNS :
              list[i].requestNS[k] \in
                {map.controlNs} \cup RequestNsBefore(list, i, k)

\* Mutant: the control namespace is compared with the targets only.
DeniesControlTargetOnly(map) ==
  LET list == map.nsMappingList
  IN  \E i \in DOMAIN list :
        \/ list[i].csNs \in {map.controlNs} \cup CsNsBefore(list, i)
        \/ \E k \in DOMAIN list[i].requestNS :
              list[i].requestNS[k] \in RequestNsBefore(list, i, k)

Denies(map) ==
  LET list == map.nsMappingList
  IN  \E i \in DOMAIN list :
        \/ list[i].csNs \in {map.controlNs} \cup CsNsBefore(list, i)
        \/ \E k \in DOMAIN list[i].requestNS :
              list[i].requestNS[k] \in
                {map.controlNs} \cup RequestNsBefore(list, i, k)

\* Its csMaps has no defaultCsNs.
ParsesForValidator(data) == data # Malformed /\ data.controlNs # Malformed

Allows(data) == ParsesForValidator(data) /\ ~ Denies(data)

-----------------------------------------------------------------------------
(***************************************************************************)
(* The mutator.                                                            *)
(***************************************************************************)

\* Its csMaps has no controlNamespace.
ParsesForMutator(data) == data # Malformed /\ data.defaultCsNs # Malformed

\* Mutant: defaultCsNs of the map is not used.
AlwaysDefaultNs(map) == DefaultNs

DefaultCsNs(map) ==
  IF map.defaultCsNs = NoNs THEN DefaultNs ELSE map.defaultCsNs

findNamespace(mapping, ns) == ns \in ToSet(mapping.requestNS) \cup {mapping.csNs}

Matching(map, ns) ==
  { i \in DOMAIN map.nsMappingList : findNamespace(map.nsMappingList[i], ns) }

\* The loop breaks at the first mapping that has the namespace.
FirstMatch(map, ns) ==
  map.nsMappingList[CHOOSE i \in Matching(map, ns) :
                      \A j \in Matching(map, ns) : i <= j]

\* Mutant: the break leaves the inner loop.
RedirectFirst(opreq, map, target) ==
  LET hits == { i \in DOMAIN opreq.refs : opreq.refs[i] = DefaultCsNs(map) }
  IN  [opreq EXCEPT !.refs =
         [i \in DOMAIN opreq.refs |->
            IF i \in hits /\ \A j \in hits : i <= j THEN target
                                                   ELSE opreq.refs[i]]]

Redirect(opreq, map, target) ==
  [opreq EXCEPT !.refs =
     [i \in DOMAIN opreq.refs |->
        IF opreq.refs[i] = DefaultCsNs(map) THEN target ELSE opreq.refs[i]]]

mutateOpreqFn(opreq, map) ==
  IF Matching(map, opreq.namespace) = {}
  THEN opreq
  ELSE Redirect(opreq, map, FirstMatch(map, opreq.namespace).csNs)

-----------------------------------------------------------------------------
Init ==
  /\ log = <<>>
  /\ current = 0
  /\ validating = FALSE
  /\ serving = FALSE
  /\ opreqs = [r \in Requests |-> NoRequest]
  /\ req = [r \in Requests |-> Idle]
  /\ routed = {}

\* The controller creates the webhook configurations; it never deletes them.
ConfigureWebhooks ==
  /\ ~ validating
  /\ validating' = TRUE
  /\ UNCHANGED <<log, current, serving, opreqs, req, routed>>

\* The server starts, or stops, or cannot be reached.
ServerChanges ==
  /\ serving' = ~ serving
  /\ UNCHANGED <<log, current, validating, opreqs, req, routed>>

\* A user creates or updates the configmap.  The failure policy of the
\* validating webhook is Fail: no server, no write.
WriteMap(data) ==
  /\ Len(log) < MaxWrites
  /\ validating => serving /\ Allows(data)
  /\ log' = Append(log, [data |-> data, checked |-> validating])
  /\ current' = Len(log) + 1
  /\ UNCHANGED <<validating, serving, opreqs, req, routed>>

\* The rule of the validating webhook does not name deletes.
DeleteMap ==
  /\ current # 0
  /\ current' = 0
  /\ UNCHANGED <<log, validating, serving, opreqs, req, routed>>

\* A user creates an OperandRequest or updates a stored one: its registry
\* namespaces change, or something else does.
Submit(r, refs) ==
  /\ req[r].phase = "idle"
  /\ req' = [req EXCEPT ![r] =
               [Idle EXCEPT !.phase = "submitted",
                            !.obj = [namespace |-> NamespaceOf[r],
                                     refs      |-> refs]]]
  /\ UNCHANGED <<log, current, validating, serving, opreqs, routed>>

SubmitAny(r) ==
  \/ \E refs \in RefLists : Submit(r, refs)
  \/ opreqs[r] # NoRequest /\ Submit(r, opreqs[r].refs)

Answer(r, patched) ==
  /\ req' = [req EXCEPT ![r].phase = "answered", ![r].patched = patched,
                        ![r].version = current]
  /\ UNCHANGED <<log, current, validating, serving, opreqs, routed>>

Deny(r, error) ==
  /\ req' = [req EXCEPT ![r].phase = "denied", ![r].version = current,
                        ![r].error = error]
  /\ UNCHANGED <<log, current, validating, serving, opreqs, routed>>

\* Mutant: no configmap is an error like any other.
HandleNeedsMap(r) ==
  /\ req[r].phase = "submitted"
  /\ serving
  /\ IF current = 0
     THEN Deny(r, "parsing")
     ELSE IF ParsesForMutator(log[current].data)
          THEN Answer(r, mutateOpreqFn(req[r].obj, log[current].data))
          ELSE Deny(r, "parsing")

\* Handle: the configmap is read from the API server, not from a cache.
Handle(r) ==
  /\ req[r].phase = "submitted"
  /\ serving
  /\ IF current = 0
     THEN Answer(r, req[r].obj)
     ELSE IF ParsesForMutator(log[current].data)
          THEN Answer(r, mutateOpreqFn(req[r].obj, log[current].data))
          ELSE Deny(r, "parsing")

\* The configmap cannot be read.
GetFails(r) ==
  /\ req[r].phase = "submitted"
  /\ serving
  /\ Deny(r, "reading")

\* Mutant: an answer that comes too late is lost with its object.
CallLost(r) ==
  /\ req[r].phase = "submitted"
  /\ req' = [req EXCEPT ![r].phase = "answered"]
  /\ UNCHANGED <<log, current, validating, serving, opreqs, routed>>

\* The mutating webhook is not configured, cannot be reached or takes over
\* ten seconds: its failure policy is Ignore, the object goes on unmodified.
CallIgnored(r) ==
  /\ req[r].phase = "submitted"
  /\ req' = [req EXCEPT ![r].phase = "answered", ![r].patched = req[r].obj]
  /\ UNCHANGED <<log, current, validating, serving, opreqs, routed>>

\* The API server stores the answer; the map may have changed meanwhile.
Store(r) ==
  /\ req[r].phase = "answered"
  /\ opreqs' = [opreqs EXCEPT ![r] = req[r].patched]
  /\ routed' = routed \cup
       { [from    |-> req[r].obj.namespace,
          to      |-> req[r].patched.refs[i],
          version |-> req[r].version] :
         i \in { j \in DOMAIN req[r].patched.refs :
                   req[r].patched.refs[j] # req[r].obj.refs[j] } }
  /\ req' = [req EXCEPT ![r] = Idle]
  /\ UNCHANGED <<log, current, validating, serving>>

Refuse(r) ==
  /\ req[r].phase = "denied"
  /\ req' = [req EXCEPT ![r] = Idle]
  /\ UNCHANGED <<log, current, validating, serving, opreqs, routed>>

Next ==
  \/ ConfigureWebhooks
  \/ ServerChanges
  \/ \E data \in Maps : WriteMap(data)
  \/ DeleteMap
  \/ \E r \in Requests : SubmitAny(r)
  \/ \E r \in Requests : Handle(r)
  \/ \E r \in Requests : GetFails(r)
  \/ \E r \in Requests : CallIgnored(r)
  \/ \E r \in Requests : Store(r)
  \/ \E r \in Requests : Refuse(r)

Spec == Init /\ [][Next]_vars

-----------------------------------------------------------------------------
(***************************************************************************)
(* Type correctness.                                                       *)
(***************************************************************************)
IsRequest(r, x) ==
  /\ x \in [phase   : {"idle", "submitted", "answered", "denied"},
            obj     : OperandRequest \cup {NoRequest},
            patched : OperandRequest \cup {NoRequest},
            version : 0..Len(log),
            error   : {"none", "reading", "parsing"}]
  /\ x.phase # "idle" => x.obj \in OperandRequest /\ x.obj.namespace = NamespaceOf[r]
  /\ x.phase = "answered" => x.patched \in OperandRequest

TypeOK ==
  /\ log \in Seq([data : Maps, checked : BOOLEAN])
  /\ current \in 0..Len(log)
  /\ validating \in BOOLEAN
  /\ serving \in BOOLEAN
  /\ opreqs \in [Requests -> OperandRequest \cup {NoRequest}]
  /\ DOMAIN req = Requests /\ \A r \in Requests : IsRequest(r, req[r])
  /\ routed \subseteq [from : Namespaces, to : Names, version : 0..Len(log)]

-----------------------------------------------------------------------------
(***************************************************************************)
(* What the two webhooks promise together.                                 *)
(***************************************************************************)
Checked(v) == v \in DOMAIN log /\ log[v].checked

\* Under a validated map at most one mapping is found for a namespace that is
\* no mapping's target: where its OperandRequests go does not depend on the
\* order of the list, though the mutator stops at the first mapping it finds.
\* (A namespace may be the target of one mapping and a requester of another;
\* the validator allows that, and then the first one wins.)
RoutingIsDeterminate ==
  \A v \in DOMAIN log : Checked(v) =>
    LET map == log[v].data
    IN  \A ns \in Namespaces :
          (\A i \in DOMAIN map.nsMappingList : map.nsMappingList[i].csNs # ns)
          => Cardinality(Matching(map, ns)) <= 1

\* Two OperandRequests that were redirected to one common-service namespace
\* under the same validated map come from namespaces of one mapping: tenants
\* that a validated map keeps apart never share a namespace, whatever the
\* order of their requests and of map changes between answer and store.
TenantsStayApart ==
  \A x, y \in routed :
    (x.version = y.version /\ x.to = y.to /\ Checked(x.version)) =>
      \E i \in DOMAIN log[x.version].data.nsMappingList :
        /\ findNamespace(log[x.version].data.nsMappingList[i], x.from)
        /\ findNamespace(log[x.version].data.nsMappingList[i], y.from)

\* No OperandRequest of the control namespace is redirected under a validated
\* map, and none is redirected into it: the validator and the mutator read
\* different fields of the map, and only together keep it apart.
ControlStaysApart ==
  \A x \in routed : Checked(x.version) =>
    log[x.version].data.controlNs \notin {x.from, x.to}

\* The mutator redirects every reference to the default namespace of the
\* map it read, and leaves the number, the order and every other reference
\* of the list as the author wrote them; without a mapping for the
\* namespace it changes nothing.
RedirectsOnlyDefault ==
  \A r \in Requests : req[r].phase = "answered" =>
    LET obj == req[r].obj
        patched == req[r].patched
        version == req[r].version
    IN  /\ patched.namespace = obj.namespace
        /\ DOMAIN patched.refs = DOMAIN obj.refs
        /\ version = 0 => patched = obj
        /\ version # 0 =>
             LET map == log[version].data
                 default == IF map.defaultCsNs = NoNs THEN DefaultNs
                                                      ELSE map.defaultCsNs
                 targets == { m.csNs : m \in
                   { x \in ToSet(map.nsMappingList) : findNamespace(x, obj.namespace) } }
             IN  \A i \in DOMAIN obj.refs :
                   IF obj.refs[i] = default /\ targets # {}
                   THEN patched.refs[i] \in targets
                   ELSE patched.refs[i] = obj.refs[i]

\* Sending an answered OperandRequest through the webhook again under the
\* map it was answered with changes nothing, so that a controller that
\* writes it back and the webhook do not fight.
RoutingIsStable ==
  \A r \in Requests :
    (req[r].phase = "answered" /\ req[r].version # 0) =>
      mutateOpreqFn(req[r].patched, log[req[r].version].data) = req[r].patched

\* An OperandRequest is refused only if the configmap is there and could not
\* be read or parsed; and of a validated map only its defaultCsNs, which the
\* validator does not look at, can be what does not parse.
DenialHasCause ==
  \A r \in Requests :
    (req[r].phase = "denied" /\ req[r].error = "parsing") =>
      /\ req[r].version # 0
      /\ ~ ParsesForMutator(log[req[r].version].data)
      /\ Checked(req[r].version) =>
           /\ log[req[r].version].data # Malformed
           /\ log[req[r].version].data.defaultCsNs = Malformed
=============================================================================
