------------------------ MODULE WebhookRegistryProofs ------------------------
(***************************************************************************)
(* The endpoints that SetupServer registers and the configurations that    *)
(* Reconcile writes name the same paths, for every list of webhooks with   *)
(* at most one object.                                                     *)
(***************************************************************************)
EXTENDS WebhookRegistry, TLAPS

(***************************************************************************)
(* The reconcilers of a webhook.                                           *)
(***************************************************************************)
\* What RegisterToServer and, for an object, the builder serve of register.
Served(register) ==
  IF IsObject(register) THEN Complete({register.object}) ELSE {register.path}

LEMMA ReconcilersFacts ==
  ASSUME NEW webhook \in Candidates
  PROVE  LET recs == GetReconciler(webhook.register)
         IN  /\ Len(recs) \in Nat /\ Len(recs) >= 1
             /\ \A k \in 1..Len(recs) : recs[k].path \in Served(webhook.register)
             /\ \A path \in Served(webhook.register) :
                  \E k \in 1..Len(recs) : recs[k].path = path
             /\ \A k, l \in 1..Len(recs) :
                  recs[k].kind = recs[l].kind => recs[k].path = recs[l].path
<1> DEFINE register == webhook.register
           object == register.object
           recs == GetReconciler(register)
           mutate == MutatingWebhookReconciler(<<"mutate", object.name>>)
           validate == ValidatingWebhookReconciler(<<"validate", object.name>>)
<1>0. /\ mutate.kind = "Mutating" /\ mutate.path = <<"mutate", object.name>>
      /\ validate.kind = "Validating" /\ validate.path = <<"validate", object.name>>
  BY DEF MutatingWebhookReconciler, ValidatingWebhookReconciler
<1>1. CASE ~ IsObject(register)
  <2> DEFINE one == IF register.type = "Mutating"
                    THEN MutatingWebhookReconciler(register.path)
                    ELSE ValidatingWebhookReconciler(register.path)
  <2>1. recs = <<one>>
    BY <1>1 DEF GetReconciler
  <2>2. one.path = register.path
    BY DEF MutatingWebhookReconciler, ValidatingWebhookReconciler
  <2> HIDE DEF one, recs
  <2>3. Len(recs) = 1 /\ recs[1] = one
    BY <2>1
  <2> QED
    BY <1>1, <2>2, <2>3 DEF Served, recs
<1>2. CASE IsObject(register)
  <2>0. Served(register) =
          (IF object.defaulter THEN {mutate.path} ELSE {})
            \cup (IF object.validator THEN {validate.path} ELSE {})
    BY <1>0, <1>2 DEF Served, Complete
  <2>1. recs = (IF object.defaulter THEN <<mutate>> ELSE <<>>)
                 \o (IF object.validator THEN <<validate>> ELSE <<>>)
    BY <1>2 DEF GetReconciler, ReconcilersOf, generatePath
  <2>2. object.defaulter \/ object.validator
    BY <1>2, CandidatesAssumption
  <2> HIDE DEF recs, mutate, validate, object
  <2>3. CASE object.defaulter /\ object.validator
    <3>1. Len(recs) = 2 /\ recs[1] = mutate /\ recs[2] = validate
      BY <2>1, <2>3
    <3> QED
      BY <1>0, <2>0, <2>3, <3>1 DEF recs
  <2>4. CASE object.defaulter /\ ~ object.validator
    <3>1. Len(recs) = 1 /\ recs[1] = mutate
      BY <2>1, <2>4
    <3> QED
      BY <1>0, <2>0, <2>4, <3>1 DEF recs
  <2>5. CASE ~ object.defaulter /\ object.validator
    <3>1. Len(recs) = 1 /\ recs[1] = validate
      BY <2>1, <2>5
    <3> QED
      BY <1>0, <2>0, <2>5, <3>1 DEF recs
  <2> QED
    BY <2>2, <2>3, <2>4, <2>5
<1> QED
  BY <1>1, <1>2

(***************************************************************************)
(* The inductive invariant.                                                *)
(***************************************************************************)
Recs(i) == GetReconciler(program[i].register)

\* The configuration that the k-th reconciler of the i-th webhook writes.
Conf(i, k) ==
  [kind |-> Recs(i)[k].kind, name |-> program[i].name, path |-> Recs(i)[k].path]

List ==
  /\ program \in Seq(Candidates) /\ Len(program) >= 1
  /\ webhooks \in Seq(Candidates) /\ Len(webhooks) <= Len(program)
  /\ \A i \in 1..Len(webhooks) : webhooks[i] = program[i]
  /\ phase # "adding" => Len(webhooks) = Len(program)

Adding ==
  phase = "adding" =>
    /\ next = 1 /\ inner = 1
    /\ ~ scheme /\ ~ reconciled
    /\ builder = {} /\ endpoints = {}

\* The server has the paths of the admission webhooks that were registered,
\* and the builder the object, if one was registered.
Registering ==
  phase = "registering" =>
    /\ next \in 1..(Len(program) + 1) /\ inner = 1 /\ ~ reconciled
    /\ \A i \in 1..(next - 1) :
         IF IsObject(program[i].register)
         THEN builder = {program[i].register.object}
         ELSE program[i].register.path \in endpoints
    /\ \A path \in endpoints : \E i \in 1..(next - 1) :
         ~ IsObject(program[i].register) /\ path = program[i].register.path
    /\ builder # {} => \E i \in 1..(next - 1) :
         IsObject(program[i].register) /\ builder = {program[i].register.object}

\* A server that was set up serves what is in the list.
Serving ==
  phase = "running" /\ scheme =>
    /\ \A i \in 1..Len(program) : Served(program[i].register) \subseteq endpoints
    /\ \A path \in endpoints : \E i \in 1..Len(program) :
         path \in Served(program[i].register)

\* Reconcile has written the configurations before the place it is at and,
\* once it came to its end, all of them.
Reconciling ==
  phase = "running" =>
    /\ next \in 1..Len(program) /\ inner \in 1..Len(Recs(next))
    /\ \A i \in 1..Len(program) : \A k \in 1..Len(Recs(i)) :
         reconciled \/ i < next \/ (i = next /\ k < inner) => Conf(i, k) \in configs

\* Configurations are only ever those of the list.
ConfigsOfTheList ==
  \A c \in configs : \E i \in 1..Len(program) : \E k \in 1..Len(Recs(i)) :
    c = Conf(i, k)

RegistryInv ==
  List /\ Adding /\ Registering /\ Serving /\ Reconciling /\ ConfigsOfTheList

LEMMA ListFacts ==
  ASSUME List
  PROVE  /\ Len(program) \in Nat /\ Len(program) >= 1 /\ Len(webhooks) \in Nat
         /\ \A i \in 1..Len(program) : program[i] \in Candidates
         /\ phase # "adding" => webhooks = program
<1>1. /\ program \in Seq(Candidates) /\ webhooks \in Seq(Candidates)
      /\ Len(program) >= 1
  BY DEF List
<1>2. ASSUME phase # "adding"
      PROVE  webhooks = program
  <2>1. /\ Len(webhooks) = Len(program)
        /\ \A i \in 1..Len(webhooks) : webhooks[i] = program[i]
    BY <1>2 DEF List
  <2> QED
    BY <1>1, <2>1
<1> QED
  BY <1>1, <1>2

LEMMA RecsFacts ==
  ASSUME List, NEW i \in 1..Len(program)
  PROVE  /\ Len(Recs(i)) \in Nat /\ Len(Recs(i)) >= 1
         /\ \A k \in 1..Len(Recs(i)) : Recs(i)[k].path \in Served(program[i].register)
         /\ \A path \in Served(program[i].register) :
              \E k \in 1..Len(Recs(i)) : Recs(i)[k].path = path
         /\ \A k, l \in 1..Len(Recs(i)) :
              Recs(i)[k].kind = Recs(i)[l].kind => Recs(i)[k].path = Recs(i)[l].path
<1>1. program[i] \in Candidates
  BY ListFacts
<1>2. LET recs == GetReconciler(program[i].register)
      IN  /\ Len(recs) \in Nat /\ Len(recs) >= 1
          /\ \A k \in 1..Len(recs) : recs[k].path \in Served(program[i].register)
          /\ \A path \in Served(program[i].register) :
               \E k \in 1..Len(recs) : recs[k].path = path
          /\ \A k, l \in 1..Len(recs) :
               recs[k].kind = recs[l].kind => recs[k].path = recs[l].path
  BY <1>1, ReconcilersFacts
<1> QED
  BY <1>2 DEF Recs

\* The kind and the name of a configuration of the list determine it.
LEMMA ConfIsUnique ==
  ASSUME List,
         NEW i \in 1..Len(program), NEW k \in 1..Len(Recs(i)),
         NEW j \in 1..Len(program), NEW l \in 1..Len(Recs(j)),
         Conf(i, k).kind = Conf(j, l).kind, Conf(i, k).name = Conf(j, l).name
  PROVE  Conf(i, k) = Conf(j, l)
<1>1. program[i] \in Candidates /\ program[j] \in Candidates
  BY ListFacts
<1>2. program[i].register = program[j].register
  BY <1>1, CandidatesAssumption DEF Conf
<1>3. Recs(i) = Recs(j)
  BY <1>2 DEF Recs
<1>4. Recs(i)[k].path = Recs(j)[l].path
  BY <1>3, RecsFacts DEF Conf
<1> QED
  BY <1>4 DEF Conf

LEMMA InitRegistryInv == Init => RegistryInv
<1> SUFFICES ASSUME Init
             PROVE  RegistryInv
  OBVIOUS
<1>1. PICK n \in 1..MaxWebhooks : program \in [1..n -> Candidates]
  BY DEF Init, Programs
<1>2. n \in Nat /\ n >= 1
  BY CandidatesAssumption
<1>3. program \in Seq(Candidates) /\ Len(program) = n
  BY <1>1, <1>2
<1>4. List
  BY <1>2, <1>3 DEF Init, List
<1> QED
  BY <1>4 DEF Init, RegistryInv, Adding, Registering, Serving, Reconciling,
     ConfigsOfTheList

LEMMA AddWebhookKeeps ==
  ASSUME RegistryInv, AddWebhook
  PROVE  RegistryInv'
<1> DEFINE n == Len(webhooks)
           w == program[n + 1]
<1>1. /\ program \in Seq(Candidates) /\ webhooks \in Seq(Candidates)
      /\ n \in Nat /\ n < Len(program) /\ Len(program) \in Nat
      /\ Len(program) >= 1
      /\ \A i \in 1..n : webhooks[i] = program[i]
      /\ webhooks' = Append(webhooks, w) /\ program' = program
      /\ phase = "adding" /\ phase' = "adding"
  BY DEF RegistryInv, List, AddWebhook
<1>2. w \in Candidates
  BY <1>1
<1>3. /\ webhooks' \in Seq(Candidates) /\ Len(webhooks') = n + 1
      /\ \A i \in 1..n : webhooks'[i] = webhooks[i]
      /\ webhooks'[n + 1] = w
  BY <1>1, <1>2
<1>4. List'
  <2>1. \A i \in 1..(n + 1) : webhooks'[i] = program[i]
    BY <1>1, <1>3
  <2> QED
    BY <1>1, <1>3, <2>1 DEF List
<1>5. ConfigsOfTheList'
  BY <1>1 DEF RegistryInv, ConfigsOfTheList, AddWebhook, Conf, Recs
<1>6. Adding'
  BY DEF RegistryInv, Adding, AddWebhook
<1> QED
  BY <1>1, <1>4, <1>5, <1>6 DEF RegistryInv, Registering, Serving, Reconciling

LEMMA SetupServerKeeps ==
  ASSUME RegistryInv, SetupServer
  PROVE  RegistryInv'
<1>1. /\ phase = "adding" /\ phase' = "registering" /\ program' = program
      /\ next = 1 /\ next' = 1 /\ inner' = 1 /\ ~ reconciled'
      /\ builder' = {} /\ endpoints' = {}
  BY DEF RegistryInv, Adding, SetupServer
<1>2. List'
  BY DEF RegistryInv, List, SetupServer
<1>3. ConfigsOfTheList'
  BY DEF RegistryInv, ConfigsOfTheList, SetupServer, Conf, Recs
<1>4. Registering'
  <2>1. (next \in 1..(Len(program) + 1))' /\ (next - 1)' = 0
    BY <1>1, <1>2, ListFacts DEF RegistryInv
  <2> QED
    BY <1>1, <2>1 DEF Registering
<1> QED
  BY <1>1, <1>2, <1>3, <1>4 DEF RegistryInv, Adding, Serving, Reconciling

LEMMA SetupFailsKeeps ==
  ASSUME RegistryInv, SetupFails
  PROVE  RegistryInv'
<1>1. /\ phase = "adding" /\ phase' = "running" /\ program' = program
      /\ next' = 1 /\ inner' = 1 /\ ~ reconciled' /\ ~ scheme' /\ List
  BY DEF RegistryInv, Adding, SetupFails
<1>2. List'
  BY DEF RegistryInv, List, SetupFails
<1>3. ConfigsOfTheList'
  BY DEF RegistryInv, ConfigsOfTheList, SetupFails, Conf, Recs
<1>4. Reconciling'
  <2>1. 1 \in 1..Len(program) /\ 1 \in 1..Len(Recs(1))
    BY <1>1, ListFacts, RecsFacts
  <2>2. Recs(next)' = Recs(1)
    BY <1>1 DEF Recs
  <2>3. \A i \in 1..Len(program) : \A k \in 1..Len(Recs(i)) :
          ~ (i < 1) /\ ~ (k < 1)
    BY <1>1, ListFacts, RecsFacts
  <2>4. \A i \in 1..Len(program) : Recs(i)' = Recs(i)
    BY <1>1 DEF Recs
  <2> QED
    BY <1>1, <2>1, <2>2, <2>3, <2>4 DEF Reconciling
<1> QED
  BY <1>1, <1>2, <1>3, <1>4 DEF RegistryInv, Adding, Registering, Serving

\* A turn of the loop that does not panic.
LEMMA RegisterNextRegisters ==
  ASSUME RegistryInv, RegisterNext, phase' = "registering"
  PROVE  Registering'
<1> DEFINE register == program[next].register
<1>0. /\ phase = "registering" /\ webhooks = program /\ program' = program
      /\ next \in 1..Len(program) /\ Len(program) \in Nat
      /\ inner' = 1 /\ ~ reconciled'
      /\ program[next] \in Candidates
      /\ \A i \in 1..Len(program) : program[i] \in Candidates
  BY ListFacts DEF RegistryInv, RegisterNext, Registering
<1>1. /\ builder' = RegisterToBuilder(register, builder)
      /\ endpoints' = endpoints \cup RegisterToServer(register)
      /\ next' = next + 1
  BY <1>0 DEF RegisterNext
<1>2. /\ \A i \in 1..(next - 1) :
           IF IsObject(program[i].register)
           THEN builder = {program[i].register.object}
           ELSE program[i].register.path \in endpoints
      /\ \A path \in endpoints : \E i \in 1..(next - 1) :
           ~ IsObject(program[i].register) /\ path = program[i].register.path
      /\ builder # {} => \E i \in 1..(next - 1) :
           IsObject(program[i].register) /\ builder = {program[i].register.object}
  BY <1>0 DEF RegistryInv, Registering
<1> HIDE DEF register
<1>3. (next - 1)' = next /\ next \in 1..next /\ (next \in 1..(Len(program) + 1))'
  BY <1>0, <1>1
<1>4. ASSUME NEW i \in 1..next
      PROVE  IF IsObject(program[i].register)
             THEN builder' = {program[i].register.object}
             ELSE program[i].register.path \in endpoints'
  <2>1. CASE i = next
    BY <1>1, <2>1 DEF register, RegisterToBuilder, RegisterToServer
  <2>2. CASE i # next
    <3>1. i \in 1..(next - 1) /\ program[i] \in Candidates
      BY <1>0, <2>2
    <3>2. CASE IsObject(program[i].register) /\ IsObject(register)
      <4>1. register.object = program[i].register.object
        BY <1>0, <3>1, <3>2, OneObjectAssumption DEF register
      <4> QED
        BY <1>1, <3>2, <4>1 DEF RegisterToBuilder
    <3>3. CASE IsObject(program[i].register) /\ ~ IsObject(register)
      BY <1>1, <1>2, <3>1, <3>3 DEF RegisterToBuilder
    <3>4. CASE ~ IsObject(program[i].register)
      BY <1>1, <1>2, <3>1, <3>4
    <3> QED
      BY <3>2, <3>3, <3>4
  <2> QED
    BY <2>1, <2>2
<1>5. ASSUME NEW path \in endpoints'
      PROVE  \E i \in 1..next :
               ~ IsObject(program[i].register) /\ path = program[i].register.path
  <2>1. CASE path \in endpoints
    <3>1. PICK i \in 1..(next - 1) :
             ~ IsObject(program[i].register) /\ path = program[i].register.path
      BY <1>2, <2>1
    <3>2. i \in 1..next
      BY <1>0
    <3> QED
      BY <3>1, <3>2
  <2>2. CASE path \notin endpoints
    <3>1. ~ IsObject(register) /\ path = register.path
      BY <1>1, <1>5, <2>2 DEF RegisterToServer
    <3> QED
      BY <1>3, <3>1 DEF register
  <2> QED
    BY <2>1, <2>2
<1>6. ASSUME builder' # {}
      PROVE  \E i \in 1..next : /\ IsObject(program[i].register)
                                /\ builder' = {program[i].register.object}
  <2>1. CASE IsObject(register)
    BY <1>1, <1>3, <2>1 DEF register, RegisterToBuilder
  <2>2. CASE ~ IsObject(register)
    <3>1. builder' = builder
      BY <1>1, <2>2 DEF RegisterToBuilder
    <3>2. PICK i \in 1..(next - 1) :
             IsObject(program[i].register) /\ builder = {program[i].register.object}
      BY <1>2, <1>6, <3>1
    <3>3. i \in 1..next
      BY <1>0
    <3> QED
      BY <3>1, <3>2, <3>3
  <2> QED
    BY <2>1, <2>2
<1> QED
  BY <1>0, <1>3, <1>4, <1>5, <1>6 DEF Registering

LEMMA RegisterNextKeeps ==
  ASSUME RegistryInv, RegisterNext
  PROVE  RegistryInv'
<1>1. /\ phase = "registering" /\ phase' \in {"registering", "crashed"}
      /\ program' = program /\ webhooks' = webhooks /\ configs' = configs
  BY DEF RegisterNext
<1>2. List'
  BY <1>1 DEF RegistryInv, List
<1>3. ConfigsOfTheList'
  BY <1>1 DEF RegistryInv, ConfigsOfTheList, Conf, Recs
<1>4. Registering'
  BY RegisterNextRegisters DEF Registering
<1> QED
  BY <1>1, <1>2, <1>3, <1>4 DEF RegistryInv, Adding, Serving, Reconciling

LEMMA CompleteBuilderKeeps ==
  ASSUME RegistryInv, CompleteBuilder
  PROVE  RegistryInv'
<1> DEFINE n == Len(program)
<1>0. /\ phase = "registering" /\ phase' = "running" /\ webhooks = program
      /\ program' = program /\ configs' = configs /\ next' = 1 /\ inner' = 1
      /\ ~ reconciled' /\ endpoints' = endpoints \cup Complete(builder)
      /\ next = n + 1 /\ n \in Nat /\ n >= 1
  <2>1. /\ phase = "registering" /\ webhooks = program /\ n \in Nat /\ n >= 1
    BY ListFacts DEF RegistryInv, CompleteBuilder
  <2>2. next \in 1..(n + 1) /\ next > n /\ inner = 1 /\ ~ reconciled
    BY <2>1 DEF RegistryInv, Registering, CompleteBuilder
  <2> QED
    BY <2>1, <2>2 DEF CompleteBuilder
<1>1. /\ \A i \in 1..n :
           IF IsObject(program[i].register)
           THEN builder = {program[i].register.object}
           ELSE program[i].register.path \in endpoints
      /\ \A path \in endpoints : \E i \in 1..n :
           ~ IsObject(program[i].register) /\ path = program[i].register.path
      /\ builder # {} => \E i \in 1..n :
           IsObject(program[i].register) /\ builder = {program[i].register.object}
  <2>1. next - 1 = n
    BY <1>0
  <2> QED
    BY <1>0, <2>1 DEF RegistryInv, Registering
<1>2. List'
  BY <1>0 DEF RegistryInv, List, CompleteBuilder
<1>3. ConfigsOfTheList'
  BY <1>0 DEF RegistryInv, ConfigsOfTheList, Conf, Recs
<1>4. ASSUME NEW i \in 1..n
      PROVE  Served(program[i].register) \subseteq endpoints'
  BY <1>0, <1>1 DEF Served
<1>5. ASSUME NEW path \in endpoints'
      PROVE  \E i \in 1..n : path \in Served(program[i].register)
  <2>1. CASE path \in endpoints
    BY <1>1, <2>1 DEF Served
  <2>2. CASE path \in Complete(builder)
    <3>1. builder # {}
      BY <2>2 DEF Complete
    <3>2. PICK i \in 1..n :
             IsObject(program[i].register) /\ builder = {program[i].register.object}
      BY <1>1, <3>1
    <3> QED
      BY <2>2, <3>2 DEF Served
  <2> QED
    BY <1>0, <1>5, <2>1, <2>2
<1>6. Serving'
  BY <1>0, <1>4, <1>5 DEF Serving
<1>7. Reconciling'
  <2>1. 1 \in 1..n /\ 1 \in 1..Len(Recs(1))
    BY <1>0, RecsFacts DEF RegistryInv
  <2>2. Recs(next)' = Recs(1) /\ \A i \in 1..n : Recs(i)' = Recs(i)
    BY <1>0 DEF Recs
  <2>3. \A i \in 1..n : \A k \in 1..Len(Recs(i)) : ~ (i < 1) /\ ~ (k < 1)
    BY <1>0, RecsFacts DEF RegistryInv
  <2> QED
    BY <1>0, <2>1, <2>2, <2>3 DEF Reconciling
<1> QED
  BY <1>0, <1>2, <1>3, <1>6, <1>7 DEF RegistryInv, Adding, Registering

LEMMA ReconcileFailsKeeps ==
  ASSUME RegistryInv, ReconcileFails
  PROVE  RegistryInv'
<1>1. /\ phase = "running" /\ phase' = "running" /\ next' = 1 /\ inner' = 1
      /\ UNCHANGED <<program, webhooks, scheme, builder, endpoints, configs,
                     reconciled>>
  BY DEF ReconcileFails
<1>2. List'
  BY <1>1 DEF RegistryInv, List
<1>3. ConfigsOfTheList'
  BY <1>1 DEF RegistryInv, ConfigsOfTheList, Conf, Recs
<1>4. Serving'
  BY <1>1 DEF RegistryInv, Serving
<1>5. Reconciling'
  <2>1. 1 \in 1..Len(program) /\ 1 \in 1..Len(Recs(1))
    BY ListFacts, RecsFacts DEF RegistryInv
  <2>2. Recs(next)' = Recs(1)
    BY <1>1 DEF Recs
  <2>3. ASSUME NEW i \in 1..Len(program)
        PROVE  /\ Recs(i)' = Recs(i)
               /\ \A k \in 1..Len(Recs(i)) :
                    /\ ~ (i < 1) /\ ~ (k < 1)
                    /\ reconciled => Conf(i, k)' \in configs
    <3>1. Recs(i)' = Recs(i) /\ \A k : Conf(i, k)' = Conf(i, k)
      BY <1>1 DEF Recs, Conf
    <3>2. Len(Recs(i)) \in Nat /\ Len(program) \in Nat
      BY ListFacts, RecsFacts DEF RegistryInv
    <3>3. \A k \in 1..Len(Recs(i)) : reconciled => Conf(i, k) \in configs
      BY <1>1 DEF RegistryInv, Reconciling
    <3> QED
      BY <3>1, <3>2, <3>3
  <2> QED
    BY <1>1, <2>1, <2>2, <2>3 DEF Reconciling
<1> QED
  BY <1>1, <1>2, <1>3, <1>4, <1>5 DEF RegistryInv, Adding, Registering

LEMMA GetReconcilerPanicsKeeps ==
  ASSUME RegistryInv, GetReconcilerPanics
  PROVE  RegistryInv'
<1>1. /\ phase = "running" /\ phase' = "crashed"
      /\ program' = program /\ webhooks' = webhooks /\ configs' = configs
  BY DEF GetReconcilerPanics
<1>2. List' /\ ConfigsOfTheList'
  <2>1. List'
    BY <1>1 DEF RegistryInv, List
  <2>2. ConfigsOfTheList'
    BY <1>1 DEF RegistryInv, ConfigsOfTheList, Conf, Recs
  <2> QED
    BY <2>1, <2>2
<1> QED
  BY <1>1, <1>2 DEF RegistryInv, Adding, Registering, Serving, Reconciling

LEMMA RestartKeeps ==
  ASSUME RegistryInv, Restart
  PROVE  RegistryInv'
<1>1. /\ phase' = "adding" /\ program' = program /\ webhooks' = <<>>
      /\ configs' = configs
  BY DEF Restart
<1>2. List'
  BY <1>1 DEF RegistryInv, List
<1>3. ConfigsOfTheList'
  BY <1>1 DEF RegistryInv, ConfigsOfTheList, Conf, Recs
<1>4. Adding'
  BY DEF Restart, Adding
<1> QED
  BY <1>1, <1>2, <1>3, <1>4 DEF RegistryInv, Registering, Serving, Reconciling

\* The configuration replaces none with another path.
LEMMA ConfigsGrow ==
  ASSUME RegistryInv, ReconcileWebhook
  PROVE  configs' = configs \cup {Conf(next, inner)}
<1>1. /\ phase = "running" /\ webhooks = program /\ List
      /\ next \in 1..Len(program) /\ inner \in 1..Len(Recs(next))
  BY ListFacts DEF RegistryInv, Reconciling, ReconcileWebhook
<1>2. configs' = { c \in configs : <<c.kind, c.name>> #
                     <<Conf(next, inner).kind, Conf(next, inner).name>> }
                 \cup {Conf(next, inner)}
  BY <1>1 DEF ReconcileWebhook, Conf, Recs
<1>3. ASSUME NEW c \in configs,
             c.kind = Conf(next, inner).kind, c.name = Conf(next, inner).name
      PROVE  c = Conf(next, inner)
  <2>1. PICK i \in 1..Len(program) : \E k \in 1..Len(Recs(i)) : c = Conf(i, k)
    BY DEF RegistryInv, ConfigsOfTheList
  <2>2. PICK k \in 1..Len(Recs(i)) : c = Conf(i, k)
    BY <2>1
  <2> QED
    BY <1>1, <1>3, <2>2, ConfIsUnique
<1> QED
  BY <1>2, <1>3

LEMMA ReconcileWebhookKeeps ==
  ASSUME RegistryInv, ReconcileWebhook
  PROVE  RegistryInv'
<1> DEFINE n == Len(program)
           m == Len(Recs(next))
<1>1. /\ phase = "running" /\ phase' = "running" /\ webhooks = program /\ List
      /\ program' = program /\ webhooks' = webhooks /\ scheme' = scheme
      /\ endpoints' = endpoints
      /\ n \in Nat /\ n >= 1 /\ next \in 1..n /\ inner \in 1..m
  BY ListFacts DEF RegistryInv, Reconciling, ReconcileWebhook
<1>2. /\ m \in Nat /\ m >= 1
      /\ \A i \in 1..n : Len(Recs(i)) \in Nat /\ Len(Recs(i)) >= 1
  BY <1>1, RecsFacts
<1>3. /\ inner' = IF inner < m THEN inner + 1 ELSE 1
      /\ next' = IF inner < m THEN next ELSE IF next < n THEN next + 1 ELSE 1
      /\ reconciled' => reconciled \/ (inner' = 1 /\ next' = 1)
  BY <1>1 DEF ReconcileWebhook, Recs
<1>4. configs' = configs \cup {Conf(next, inner)}
  BY ConfigsGrow
<1>5. \A i : Recs(i)' = Recs(i) /\ \A k : Conf(i, k)' = Conf(i, k)
  BY <1>1 DEF Recs, Conf
<1>6. \A i \in 1..n : \A k \in 1..Len(Recs(i)) :
         reconciled \/ i < next \/ (i = next /\ k < inner) => Conf(i, k) \in configs
  BY <1>1 DEF RegistryInv, Reconciling
<1> HIDE DEF n, m
<1>7. ConfigsOfTheList'
  <2>1. ASSUME NEW c \in configs'
        PROVE  \E i \in 1..n : \E k \in 1..Len(Recs(i)) : c = Conf(i, k)
    BY <1>1, <1>4 DEF RegistryInv, ConfigsOfTheList, n, m
  <2> QED
    BY <1>1, <1>5, <2>1 DEF ConfigsOfTheList, n
<1>8. ASSUME NEW i \in 1..n, NEW k \in 1..Len(Recs(i)),
             reconciled' \/ i < next' \/ (i = next' /\ k < inner')
      PROVE  Conf(i, k) \in configs'
  <2>1. reconciled \/ i < next \/ (i = next /\ k <= inner)
    <3>1. /\ k \in Nat /\ i \in Nat /\ next \in Nat /\ inner \in Nat
          /\ k >= 1 /\ i >= 1 /\ i <= n /\ inner >= 1 /\ inner <= m
          /\ i = next => k <= m
      BY <1>1, <1>2 DEF m
    <3>2. CASE inner < m
      <4>1. inner' = inner + 1 /\ inner' # 1 /\ next' = next
        BY <1>3, <3>1, <3>2
      <4> QED
        BY <1>3, <1>8, <3>1, <4>1
    <3>3. CASE inner = m /\ next < n
      <4>1. inner' = 1 /\ next' = next + 1
        BY <1>2, <1>3, <3>3
      <4>2. next' # 1
        BY <1>1, <4>1
      <4> QED
        BY <1>3, <1>8, <3>1, <3>3, <4>1, <4>2
    <3>4. CASE inner = m /\ next = n
      BY <1>1, <3>1, <3>4
    <3> QED
      BY <1>1, <1>2, <3>1, <3>2, <3>3, <3>4
  <2>2. CASE reconciled \/ i < next \/ (i = next /\ k < inner)
    BY <1>4, <1>6, <2>2
  <2>3. CASE i = next /\ k = inner
    BY <1>4, <2>3
  <2> QED
    BY <1>1, <1>2, <2>1, <2>2, <2>3
<1>9. next' \in 1..n /\ inner' \in 1..Len(Recs(next'))
  <2>1. CASE inner < m
    BY <1>1, <1>2, <1>3, <2>1 DEF m
  <2>2. CASE ~ (inner < m)
    <3>1. next' \in 1..n /\ inner' = 1
      BY <1>1, <1>2, <1>3, <2>2
    <3> QED
      BY <1>2, <3>1
  <2> QED
    BY <2>1, <2>2
<1>10. Reconciling'
  <2>1. Recs(next)' = Recs(next')
    BY <1>1 DEF Recs
  <2>2. Len(program') = n
    BY <1>1 DEF n
  <2> QED
    BY <1>5, <1>8, <1>9, <2>1, <2>2 DEF Reconciling
<1>11. List' /\ Serving'
  BY <1>1 DEF RegistryInv, List, Serving
<1> QED
  BY <1>1, <1>7, <1>10, <1>11 DEF RegistryInv, Adding, Registering

LEMMA StepKeepsRegistryInv ==
  ASSUME RegistryInv, [Next]_vars
  PROVE  RegistryInv'
<1>1. CASE AddWebhook
  BY <1>1, AddWebhookKeeps
<1>2. CASE SetupServer
  BY <1>2, SetupServerKeeps
<1>3. CASE SetupFails
  BY <1>3, SetupFailsKeeps
<1>4. CASE RegisterNext
  BY <1>4, RegisterNextKeeps
<1>5. CASE CompleteBuilder
  BY <1>5, CompleteBuilderKeeps
<1>6. CASE ReconcileFails
  BY <1>6, ReconcileFailsKeeps
<1>7. CASE GetReconcilerPanics
  BY <1>7, GetReconcilerPanicsKeeps
<1>8. CASE ReconcileWebhook
  BY <1>8, ReconcileWebhookKeeps
<1>9. CASE Restart
  BY <1>9, RestartKeeps
<1>10. CASE UNCHANGED vars
  <2>1. /\ program' = program /\ webhooks' = webhooks /\ phase' = phase
        /\ scheme' = scheme /\ builder' = builder /\ endpoints' = endpoints
        /\ next' = next /\ inner' = inner /\ configs' = configs
        /\ reconciled' = reconciled
    BY <1>10 DEF vars
  <2>2. List'
    BY <2>1 DEF RegistryInv, List
  <2>3. Adding'
    BY <2>1 DEF RegistryInv, Adding
  <2>4. Registering'
    BY <2>1 DEF RegistryInv, Registering
  <2>5. Serving'
    BY <2>1 DEF RegistryInv, Serving
  <2>6. Reconciling'
    BY <2>1 DEF RegistryInv, Reconciling, Recs, Conf
  <2>7. ConfigsOfTheList'
    BY <2>1 DEF RegistryInv, ConfigsOfTheList, Recs, Conf
  <2> QED
    BY <2>2, <2>3, <2>4, <2>5, <2>6, <2>7 DEF RegistryInv
<1> QED
  BY <1>1, <1>2, <1>3, <1>4, <1>5, <1>6, <1>7, <1>8, <1>9, <1>10 DEF Next

-----------------------------------------------------------------------------
\* "CSWebhook acts as a single source of truth": for every list with at most
\* one object, a server that was set up serves every path that a
\* configuration names, those of earlier processes too, and once Reconcile
\* came to its end a configuration names every path that is served.
THEOREM OneSourceOfTruth == Spec => []SingleSourceOfTruth
<1>1. RegistryInv => SingleSourceOfTruth
  <2> SUFFICES ASSUME RegistryInv, phase = "running", scheme
               PROVE  /\ Paths \subseteq endpoints
                      /\ reconciled => endpoints \subseteq Paths
    BY DEF SingleSourceOfTruth
  <2>1. /\ \A i \in 1..Len(program) : Served(program[i].register) \subseteq endpoints
        /\ \A path \in endpoints : \E i \in 1..Len(program) :
             path \in Served(program[i].register)
    BY DEF RegistryInv, Serving
  <2>2. ASSUME NEW c \in configs
        PROVE  c.path \in endpoints
    <3>1. PICK i \in 1..Len(program) : \E k \in 1..Len(Recs(i)) : c = Conf(i, k)
      BY DEF RegistryInv, ConfigsOfTheList
    <3>2. PICK k \in 1..Len(Recs(i)) : c = Conf(i, k)
      BY <3>1
    <3>3. c.path = Recs(i)[k].path
      BY <3>2 DEF Conf
    <3> QED
      BY <2>1, <3>3, RecsFacts DEF RegistryInv
  <2>3. ASSUME reconciled, NEW path \in endpoints
        PROVE  path \in Paths
    <3>1. PICK i \in 1..Len(program) : path \in Served(program[i].register)
      BY <2>1
    <3>2. PICK k \in 1..Len(Recs(i)) : Recs(i)[k].path = path
      BY <3>1, RecsFacts DEF RegistryInv
    <3>3. Conf(i, k) \in configs
      BY <2>3 DEF RegistryInv, Reconciling
    <3>4. Conf(i, k).path = path
      BY <3>2 DEF Conf
    <3> QED
      BY <3>3, <3>4 DEF Paths
  <2> QED
    BY <2>2, <2>3 DEF Paths
<1>2. Spec => []RegistryInv
  BY InitRegistryInv, StepKeepsRegistryInv, PTL DEF Spec
<1> QED
  BY <1>1, <1>2, PTL
=============================================================================
