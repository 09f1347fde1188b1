---------------------- MODULE ComponentRenderingProofs ----------------------
(***************************************************************************)
(* Theorems about ComponentRendering, for every set of registrations,      *)
(* specs and states of the cluster, and every list of paths and of names.  *)
(*                                                                         *)
(* The invariant ties what the worker holds between its steps to what it   *)
(* was rendered from: the spec as it was read, the rules of the controller *)
(* that is running, and some state of the objects they refer to, which may *)
(* have changed since.                                                     *)
(***************************************************************************)
EXTENDS ComponentRendering, RendererProofs

(* The workload in hand is that of a rendering that succeeded. *)
RenderedInv ==
  at = "child" =>
    /\ base.spec \in UserSpecs
    /\ \E w \in Worlds :
         LET rendering == Render(controller.rules, w, base.spec, base.status)
         IN ~rendering.failed /\ obj = rendering.obj

ChildInv == DOMAIN child = Kinds

(* Every workload there is was composed, by the form factor of some        *)
(* registration, of what its rules render.                                 *)
WorkloadInv ==
  \A k \in Kinds :
    child[k] # None =>
      \E reg \in Registrations, tree \in UserSpecs, w \in Worlds :
        child[k] \in Candidates(reg.form, Render(reg.rules, w, tree, <<>>).obj)

WorkInv == TypeOK /\ RenderedInv /\ ChildInv
IInv == WorkInv /\ WorkloadInv

-----------------------------------------------------------------------------
(* No registration is taken for a missing one. *)
LEMMA RegistrationFacts == None \notin Registrations
<1>1. DOMAIN None = {"kind"}
  BY DEF None
<1> QED
  BY <1>1, ComponentRenderingAssumption

(* Whatever is rendered, it fails or it does not. *)
LEMMA RenderFails ==
  ASSUME NEW rules, NEW w, NEW tree, NEW st
  PROVE  Render(rules, w, tree, st).failed \in BOOLEAN
<1>1. ASSUME NEW o PROVE Succeeding(rules, o, st).failed \in BOOLEAN
  BY DEF Succeeding, WithStatus, Rendering, RenderStatus
<1> HIDE <1>1
<1>2. ASSUME NEW visited PROVE RenderVisited(rules, w, tree, visited, st).failed \in BOOLEAN
  BY <1>1 DEF RenderVisited, Failure, Rendering
<1> QED
  BY <1>2 DEF Render, Failure, Rendering

(* In the beginning there is no controller, child or status. *)
LEMMA InitInvariant == Init => IInv
<1> SUFFICES ASSUME Init PROVE IInv
  OBVIOUS
<1>1. changes \in 0..MaxChanges
  BY ComponentRenderingAssumption DEF Init
<1>2. DOMAIN child = Kinds /\ \A k \in Kinds : child[k] = None
  BY DEF Init
<1>3. TypeOK
  BY <1>1, <1>2 DEF Init, TypeOK
<1> QED
  BY <1>2, <1>3 DEF Init, IInv, WorkInv, RenderedInv, ChildInv, WorkloadInv

(* Each step keeps what the worker holds as it was rendered. *)
LEMMA StepWork == WorkInv /\ [Next]_vars => WorkInv'
<1> SUFFICES ASSUME WorkInv, [Next]_vars PROVE WorkInv'
  OBVIOUS
<1> USE DEF WorkInv, TypeOK, RenderedInv, ChildInv, inputs, locals
<1>1. ASSUME Changed \/ UNCHANGED changes PROVE changes' \in 0..MaxChanges
  BY <1>1, ComponentRenderingAssumption DEF Changed
<1>2. ASSUME NEW tree \in UserSpecs, UserWrites(tree) PROVE WorkInv'
  BY <1>1, <1>2 DEF UserWrites
<1>3. ASSUME NEW w \in Worlds, WorldChanges(w) PROVE WorkInv'
  BY <1>1, <1>3 DEF WorldChanges
<1>4. ASSUME NEW reg \in Registrations, StartNewReconciler(reg) PROVE WorkInv'
  <2>1. Changed \/ UNCHANGED changes
    BY <1>4 DEF StartNewReconciler
  <2>2. changes' \in 0..MaxChanges
    BY <1>1, <2>1
  <2>3. at' = "idle" /\ base' = None /\ obj' = NewObject /\ work' = <<>> /\ err' = FALSE
    BY <1>4 DEF StartNewReconciler, Local, Idle
  <2>4. controller' \in Registrations \cup {None} /\ dirty' \in BOOLEAN
        /\ (controller' = None => ~dirty')
    BY <1>4, RegistrationFacts DEF StartNewReconciler, Builds
  <2> QED
    BY <1>4, <2>2, <2>3, <2>4 DEF StartNewReconciler
<1>5. CASE Resync
  BY <1>5 DEF Resync
<1>6. CASE RenderObject
  <2> DEFINE rendering == Render(controller.rules, world, spec, status)
  <2>1. /\ at' = IF rendering.failed THEN "status" ELSE "child"
        /\ base' = [spec |-> spec, status |-> status]
        /\ obj' = rendering.obj /\ err' = rendering.failed
        /\ at = "idle" /\ dirty /\ dirty' = FALSE
        /\ UNCHANGED <<changes, inputs, status, child>>
    BY <1>6 DEF RenderObject, Local
  <2>2. err' \in BOOLEAN
    BY <2>1, RenderFails
  <2>3. base'.spec = spec /\ base'.status = status
    BY <2>1
  <2>4. RenderedInv'
    BY <2>1, <2>3
  <2> HIDE DEF rendering
  <2>5. TypeOK'
    BY <2>1, <2>2
  <2> QED
    BY <2>1, <2>4, <2>5
<1>7. ASSUME NEW failed \in BOOLEAN, ChildDone(failed), dirty' \in BOOLEAN, ChildInv',
             \A k \in Kinds : child'[k] # None => child'[k].kind = k, at = "child"
      PROVE  WorkInv'
  BY <1>7 DEF ChildDone
<1>8. CASE ReconcileChild
  <2>1. PICK desired \in Candidates(controller.form, obj) :
          /\ child' = IF Matching(desired) THEN child
                      ELSE [child EXCEPT ![desired.kind] = desired]
          /\ dirty' = (dirty \/ ~Matching(desired))
    BY <1>8 DEF ReconcileChild
  <2>2. ChildInv' /\ \A k \in Kinds : child'[k] # None => child'[k].kind = k
    BY <2>1
  <2>3. dirty' \in BOOLEAN
    BY <2>1
  <2> QED
    BY <1>7, <1>8, <2>2, <2>3 DEF ReconcileChild
<1>9. CASE ReconcileChildFails
  BY <1>7, <1>9 DEF ReconcileChildFails
<1>10. CASE UpdateStatus
  BY <1>10 DEF UpdateStatus, Local, Idle
<1>11. CASE UpdateStatusFails
  BY <1>11 DEF UpdateStatusFails, Local, Idle
<1>12. CASE UNCHANGED vars
  BY <1>12 DEF vars
<1> QED
  BY <1>2, <1>3, <1>4, <1>5, <1>6, <1>8, <1>9, <1>10, <1>11, <1>12 DEF Next

(* And each child one that was composed of a rendering. *)
LEMMA StepWorkload == IInv /\ [Next]_vars => WorkloadInv'
<1> SUFFICES ASSUME IInv, [Next]_vars PROVE WorkloadInv'
  OBVIOUS
<1>1. CASE UNCHANGED child
  BY <1>1 DEF IInv, WorkloadInv
<1>2. CASE ReconcileChild
  <2>1. at = "child" /\ controller \in Registrations /\ DOMAIN child = Kinds
    BY <1>2 DEF IInv, WorkInv, ChildInv, TypeOK, ReconcileChild
  <2>2. PICK w \in Worlds : obj = Render(controller.rules, w, base.spec, base.status).obj
    BY <2>1 DEF IInv, WorkInv, RenderedInv
  <2>3. base.spec \in UserSpecs
    BY <2>1 DEF IInv, WorkInv, RenderedInv
  <2>4. Render(controller.rules, w, base.spec, <<>>).obj = obj
    BY <2>2, RenderedOf
  <2>5. PICK desired \in Candidates(controller.form, obj) :
          child' = IF Matching(desired) THEN child ELSE [child EXCEPT ![desired.kind] = desired]
    BY <1>2 DEF ReconcileChild
  <2>6. \A k \in Kinds : child'[k] = child[k] \/ child'[k] = desired
    BY <2>1, <2>5
  <2>7. \E reg \in Registrations, tree \in UserSpecs, v \in Worlds :
          desired \in Candidates(reg.form, Render(reg.rules, v, tree, <<>>).obj)
    BY <2>1, <2>3, <2>4, <2>5
  <2> QED
    BY <2>6, <2>7 DEF IInv, WorkloadInv
<1>3. Next => UNCHANGED child \/ ReconcileChild
  BY DEF Next, UserWrites, WorldChanges, StartNewReconciler, Resync, RenderObject,
         ReconcileChildFails, UpdateStatus, UpdateStatusFails
<1> QED
  BY <1>1, <1>2, <1>3 DEF vars

(* Each step keeps the invariant. *)
LEMMA StepInvariant == IInv /\ [Next]_vars => IInv'
  BY StepWork, StepWorkload DEF IInv

(* IInv holds throughout: the theorems below rest on it. *)
THEOREM Invariance == Spec => []IInv
  BY InitInvariant, StepInvariant, PTL DEF Spec

(* Every variable has its type, and only a started controller works. *)
THEOREM TypeCorrect == Spec => []TypeOK
<1>1. IInv => TypeOK
  BY DEF IInv, WorkInv
<1> QED
  BY <1>1, Invariance, PTL

-----------------------------------------------------------------------------
(* Nothing is made of a part of an element that becomes one variable or    *)
(* volume, whatever the rules say of the part.                             *)
THEOREM PartsHidden == Spec => []PartsStayHidden
<1>1. IInv => PartsStayHidden
  <2> SUFFICES ASSUME IInv, Rendered, base.spec # None,
                      NEW p \in Fields, NEW a \in Fields, IsPartOf(p, a), Claimed(a),
                      p \in DOMAIN obj.byPath
               PROVE  FALSE
    BY DEF PartsStayHidden
  <2> DEFINE tree == base.spec
             fields == FieldNames(r, tree)
             visited == Visited(r, tree, fields)
  <2>1. PICK w \in Worlds : /\ ~Render(r, w, tree, base.status).failed
                            /\ obj = Render(r, w, tree, base.status).obj
    BY DEF IInv, WorkInv, RenderedInv, Rendered, r
  <2> DEFINE made == RenderParsedFields(r, w, tree, visited)
  <2>2. obj = ObjectOf(made)
    BY <2>1, RenderedObject
  <2>3. PICK n \in DOMAIN made : made[n].path = p
    BY <2>2 DEF ObjectOf
  <2>4. PICK i \in fields : p = Paths[i]
    BY DEF Fields
  <2>5. PICK j \in fields : a = Paths[j]
    BY DEF Fields
  <2>6. fields \subseteq DOMAIN Paths /\ visited \subseteq fields
    BY DEF FieldNames, Visited
  <2>7. j < i /\ BeginsAsString(Paths[j], Paths[i])
    BY <2>4, <2>5, <2>6, PartsFollow
  <2>8. \A k \in visited : Paths[k] # p
    <3> SUFFICES ASSUME NEW k \in visited, Paths[k] = p PROVE FALSE
      OBVIOUS
    <3>1. j < k /\ BeginsAsString(Paths[j], Paths[k])
      BY <2>5, <2>6, PartsFollow
    <3>2. ~Avoided(r, tree, fields, k)
      BY DEF Visited
    <3> QED
      BY <2>5, <3>1, <3>2 DEF Avoided, Claimed
  <2>9. ASSUME NEW name \in Range(Names) PROVE p # PseudoPath(name)
    BY <2>4, <2>6, PseudoPathIsNone
  <2> HIDE DEF made, visited, fields
  <2>10. \/ \E k \in visited : made[n] = MadeAt(r, w, tree, k)
         \/ \E name \in Range(Names) \cap DOMAIN r.add : made[n] = AddedFor(r, w, name)
    BY <2>6, MadeFacts DEF made
  <2>11. \A k \in visited : MadeAt(r, w, tree, k).path = Paths[k]
    BY DEF MadeAt, MadeOf
  <2>12. \A name : AddedFor(r, w, name).path = PseudoPath(name)
    BY DEF AddedFor
  <2> QED
    BY <2>3, <2>8, <2>9, <2>10, <2>11, <2>12
<1> QED
  BY <1>1, Invariance, PTL

-----------------------------------------------------------------------------
(* Of a CRD whose versions go from the oldest to the newest and end with   *)
(* one that is available, the controller works with an available one, the  *)
(* highest of them.                                                        *)
THEOREM HighestVersion == Spec => []HighestVersionServed
<1>1. TypeOK => HighestVersionServed
  <2> SUFFICES ASSUME TypeOK,
                      NEW versions \in CRDLists,
                      versions # <<>>, IsAvailable(Last(versions)),
                      \A i, j \in DOMAIN versions : i < j => versions[i].rank < versions[j].rank
               PROVE  /\ IsAvailable(CRDPrioritizedVersion(versions))
                      /\ \A i \in DOMAIN versions :
                           IsAvailable(versions[i]) =>
                             versions[i].rank <= CRDPrioritizedVersion(versions).rank
    BY DEF HighestVersionServed
  <2>1. versions \in VersionLists \cup {reg.versions : reg \in Registrations}
    BY DEF TypeOK, CRDLists
  <2>2. /\ versions \in Seq(Range(versions))
        /\ \A i \in DOMAIN versions : versions[i].rank \in Nat
    BY <2>1, ComponentRenderingAssumption
  <2> DEFINE n == Len(versions)
  <2>3. n \in Nat /\ n >= 1 /\ DOMAIN versions = 1..n /\ Last(versions) = versions[n]
    BY <2>2 DEF Last
  <2>4. \A i \in 1..n : versions[i].rank <= versions[n].rank
    <3> TAKE i \in 1..n
    <3>1. CASE i = n
      BY <2>2, <2>3, <3>1
    <3>2. CASE i < n
      BY <2>2, <2>3, <3>2
    <3>3. i = n \/ i < n
      <4>1. n \in Nat /\ i \in 1..n
        BY <2>3
      <4> HIDE DEF n
      <4> QED
        BY <4>1
    <3> QED
      BY <3>1, <3>2, <3>3
  <2>5. CRDPrioritizedVersion(versions) = versions[n]
    <3>1. CASE n = 1
      BY <2>3, <3>1 DEF CRDPrioritizedVersion
    <3>2. CASE n > 1
      <4>1. versions[n].rank > versions[1].rank
        BY <2>2, <2>3, <3>2
      <4>2. Outranks(versions[n], versions[1])
        BY <2>3, <4>1 DEF Outranks, IsAvailable
      <4> QED
        BY <2>3, <4>2 DEF CRDPrioritizedVersion
    <3>3. n = 1 \/ n > 1
      BY <2>3
    <3> QED
      BY <3>1, <3>2, <3>3
  <2> QED
    BY <2>3, <2>4, <2>5
<1> QED
  BY <1>1, TypeCorrect, PTL

-----------------------------------------------------------------------------
(* Of an element the user gave, a list of up to ten items keeps its order. *)
LEMMA GivenInItems ==
  ASSUME NEW p, Given(p), Len(Element(base.spec, p).items) <= 10 \/ Element(base.spec, p).kind # "array",
         Element(base.spec, p).kind = "array"
           => Element(base.spec, p).items \in Seq(Range(Element(base.spec, p).items))
  PROVE  DefaultRendering(NodeAt(base.spec, p)) = InItems(p)
<1> DEFINE node == Element(base.spec, p)
<1>1. node.kind \in {"string", "other", "array"}
  BY DEF Given
<1>2. NodeAt(base.spec, p) = node
  BY <1>1 DEF NodeAt, OrNull, None
<1>3. CASE node.kind # "array"
  BY <1>2, <1>3 DEF InItems
<1>4. CASE node.kind = "array"
  <2>1. node.items \in Seq(Range(node.items)) /\ Len(node.items) <= 10
    BY <1>4
  <2>2. InOrder(node.items) = node.items
    BY <2>1, TenInOrder
  <2> HIDE DEF node
  <2>3. Joined(node.items) =
          IF node.items = <<>> THEN Empty
          ELSE Literal([i \in DOMAIN node.items |-> Printed(node.items[i])])
    BY <2>2 DEF Joined
  <2>4. DefaultRendering(node) = IF IsPrimitive(node.items) THEN Joined(node.items)
                                 ELSE [kind |-> "json", node |-> node]
    BY <1>4 DEF DefaultRendering
  <2>5. InItems(p) = IF ~IsPrimitive(node.items) THEN [kind |-> "json", node |-> node]
                     ELSE IF node.items = <<>> THEN Empty
                     ELSE Literal([i \in DOMAIN node.items |-> Printed(node.items[i])])
    BY <1>4 DEF InItems, node
  <2> QED
    BY <1>2, <2>3, <2>4, <2>5
<1> QED
  BY <1>3, <1>4

(* Each element the user gave is the variable of its name, with the value  *)
(* it was given, unless it is below one that has a rule, its string        *)
(* continues that of one a rule claims, or another one has the same name.  *)
THEOREM SeparateAvailable == Spec => []SeparateElementsAvailable
<1>1. IInv => SeparateElementsAvailable
  <2> SUFFICES ASSUME IInv, Rendered, base.spec # None,
                      NEW p \in Fields, Given(p), ~SubElement(p), OfNoOther(p),
                      \A a \in Fields : BeginsAsString(a, p) => ~Claimed(a),
                      Element(base.spec, p).kind = "array"
                        => Len(Element(base.spec, p).items) <= 10
               PROVE  /\ VariableName(r, p) \in DOMAIN obj.byName
                      /\ obj.byName[VariableName(r, p)]
                           = WithValue(VariableName(r, p), InItems(p))
    BY DEF SeparateElementsAvailable
  <2> DEFINE tree == base.spec
             fields == FieldNames(r, tree)
             visited == Visited(r, tree, fields)
             v == WithValue(VariableName(r, p), DefaultRendering(NodeAt(tree, p)))
  <2>1. PICK w \in Worlds : /\ ~Render(r, w, tree, base.status).failed
                            /\ obj = Render(r, w, tree, base.status).obj
    BY DEF IInv, WorkInv, RenderedInv, Rendered, r
  <2>2. obj = ObjectOf(RenderParsedFields(r, w, tree, visited))
    BY <2>1, RenderedObject
  <2>3. fields \subseteq DOMAIN Paths /\ visited \subseteq fields
    BY DEF FieldNames, Visited
  <2>4. PICK i \in fields : p = Paths[i]
    BY DEF Fields
  <2>5. i \in visited
    BY <2>4 DEF Visited, Avoided, Fields, Claimed
  <2>6. MadeAt(r, w, tree, i).variables = {v}
    <3>1. RuleFor(r, tree, p) = "plain"
      BY DEF Given
    <3>2. VariablesAt(r, w, tree, p, "plain") = {v}
      BY DEF VariablesAt, ResolvesAddress
    <3> QED
      BY <2>4, <3>1, <3>2 DEF MadeAt, MadeOf
  <2>7. v.name = VariableName(r, p)
    BY DEF WithValue
  <2>8. v.name \notin DOMAIN r.add
    BY <2>7 DEF OfNoOther
  <2>9. ASSUME NEW j \in visited, VariableName(r, Paths[j]) = v.name PROVE Paths[j] = Paths[i]
    <3>1. Paths[j] \in Fields
      BY <2>3 DEF Fields
    <3> QED
      BY <2>4, <2>7, <2>9, <3>1 DEF OfNoOther, SameName
  <2>10. Element(tree, p).kind = "array"
          => Element(tree, p).items \in Seq(Range(Element(tree, p).items))
    <3>1. tree \in UserSpecs
      BY DEF IInv, WorkInv, RenderedInv, Rendered
    <3> QED
      BY <2>3, <2>4, <3>1, ComponentRenderingAssumption
  <2>11. DefaultRendering(NodeAt(tree, p)) = InItems(p)
    BY <2>10, GivenInItems
  <2> HIDE DEF visited, fields, v
  <2>12. v.name \in DOMAIN obj.byName /\ obj.byName[v.name] = v
    <3>1. visited \in SUBSET DOMAIN Paths
      BY <2>3
    <3> QED
      BY <2>2, <2>5, <2>6, <2>8, <2>9, <3>1, SeparateVariable
  <2> QED
    BY <2>7, <2>11, <2>12 DEF v
<1> QED
  BY <1>1, Invariance, PTL

-----------------------------------------------------------------------------
(* The variables of a container have each name once, in the order of all   *)
(* names: equal sets of variables are equal lists.                         *)
EnvOf(o) == [i \in DOMAIN Sorted(o) |-> o.byName[Sorted(o)[i]]]

(* Variables are sorted: the same ones are in the same order. *)
LEMMA SortedOnce ==
  ASSUME NEW o, NEW u, WellNamed(o), WellNamed(u), Range(EnvOf(o)) = Range(EnvOf(u))
  PROVE  EnvOf(o) = EnvOf(u)
<1> DEFINE D == DOMAIN o.byName
           E == DOMAIN u.byName
           All == Range(Names)
           f == Sorted(o)
           g == Sorted(u)
<1>1. /\ \A i \in DOMAIN f : f[i] \in All \cap D
      /\ \A x \in All \cap D : \E i \in DOMAIN f : f[i] = x
      /\ \A i, j \in DOMAIN f : f[i] = f[j] => i = j
  <2>1. f = InNameOrder(D)
    BY DEF Sorted
  <2> HIDE DEF D, All, f
  <2>2. f \in Seq(Range(Names) \cap D)
    BY <2>1, InNameOrderFacts
  <2>3. \A i \in DOMAIN f : f[i] \in Range(Names) \cap D
    BY <2>2
  <2> QED
    BY <2>1, <2>3, InNameOrderFacts DEF All
<1>2. /\ \A i \in DOMAIN g : g[i] \in All \cap E
      /\ \A x \in All \cap E : \E i \in DOMAIN g : g[i] = x
  <2>1. g = InNameOrder(E)
    BY DEF Sorted
  <2> HIDE DEF E, All, g
  <2>2. g \in Seq(Range(Names) \cap E)
    BY <2>1, InNameOrderFacts
  <2>3. \A i \in DOMAIN g : g[i] \in Range(Names) \cap E
    BY <2>2
  <2> QED
    BY <2>1, <2>3, InNameOrderFacts DEF All
<1>3. \A i \in DOMAIN f : EnvOf(o)[i].name = f[i]
  BY <1>1 DEF EnvOf, WellNamed
<1>4. \A i \in DOMAIN g : EnvOf(u)[i].name = g[i]
  BY <1>2 DEF EnvOf, WellNamed
<1>5. DOMAIN EnvOf(o) = DOMAIN f /\ DOMAIN EnvOf(u) = DOMAIN g
  BY DEF EnvOf
<1> HIDE DEF f, g
<1>6. \A i \in DOMAIN f : \E j \in DOMAIN g : EnvOf(o)[i] = EnvOf(u)[j] /\ f[i] = g[j]
  BY <1>3, <1>4, <1>5 DEF Range
<1>7. \A i \in DOMAIN g : \E j \in DOMAIN f : EnvOf(u)[i] = EnvOf(o)[j] /\ g[i] = f[j]
  BY <1>3, <1>4, <1>5 DEF Range
<1>8. All \cap D = All \cap E
  BY <1>1, <1>2, <1>6, <1>7
<1>9. f = g
  <2>1. {i \in DOMAIN Names : Names[i] \in D} = {i \in DOMAIN Names : Names[i] \in E}
    BY <1>8 DEF Range
  <2> QED
    BY <2>1 DEF f, g, Sorted, InNameOrder
<1>10. \A i \in DOMAIN f : EnvOf(o)[i] = EnvOf(u)[i]
  BY <1>1, <1>6, <1>9
<1>11. /\ EnvOf(o) = [i \in DOMAIN f |-> EnvOf(o)[i]]
       /\ EnvOf(u) = [i \in DOMAIN g |-> EnvOf(u)[i]]
  BY DEF EnvOf, f, g
<1> QED
  BY <1>9, <1>10, <1>11

(* A list of one element or none, and one without repetitions that has the *)
(* same elements, are equal.                                               *)
LEMMA ShortLists ==
  ASSUME NEW m \in Nat, NEW k \in Nat, m <= 1, NEW f, NEW g,
         DOMAIN f = 1..m, DOMAIN g = 1..k,
         Range(f) = Range(g), \A i, j \in 1..k : g[i] = g[j] => i = j
  PROVE  m = k /\ \A i \in 1..m : f[i] = g[i]
<1>1. /\ \A i \in 1..k : \E j \in 1..m : g[i] = f[j]
      /\ \A i \in 1..m : \E j \in 1..k : f[i] = g[j]
  <2>1. Range(f) = {f[i] : i \in 1..m}
    BY DEF Range
  <2>2. Range(g) = {g[i] : i \in 1..k}
    BY DEF Range
  <2>3. {f[i] : i \in 1..m} = {g[i] : i \in 1..k}
    BY <2>1, <2>2
  <2> QED
    BY <2>3
<1>2. CASE m = 0
  <2>1. k = 0
    BY <1>1, <1>2
  <2> QED
    BY <1>2, <2>1
<1>3. CASE m = 1
  <2>1. \A i \in 1..k : g[i] = f[1]
    BY <1>1, <1>3
  <2>2. \A i, j \in 1..k : i = j
    BY <2>1
  <2>3. k = 1
    <3>1. 1 \in 1..m
      BY <1>3
    <3>2. k # 0
      BY <1>1, <3>1
    <3> QED
      BY <2>2, <3>2
  <2> QED
    BY <1>3, <2>1, <2>3
<1> QED
  BY <1>2, <1>3

(* What a form factor composes of an object, field by field. *)
AsDeployment(c) ==
  [kind |-> "deployment", replicas |-> c.replicas, container |-> c.container, volumes |-> c.volumes]
AsKnService(c) ==
  [kind |-> "ksvc", visibility |-> c.visibility, scale |-> c.scale, container |-> c.container,
   volumes |-> c.volumes]

Composed(c, o) ==
  /\ c = AsDeployment(c) \/ c = AsKnService(c)
  /\ c.container = [env |-> EnvOf(o), mounts |-> c.container.mounts]
  /\ \E order \in VolumeOrders(o) :
       c.container.mounts =
         [i \in DOMAIN order |-> [name |-> order[i], mountPath |-> o.volumes[order[i]].mountPath]]
  /\ \E order \in VolumeOrders(o) : c.volumes = AsPodSpecOptions(o, order)

(* Each candidate is composed of the object in the same way. *)
LEMMA CandidateShape ==
  ASSUME NEW form, NEW o, NEW c \in Candidates(form, o)
  PROVE  Composed(c, o)
<1>1. PICK names \in EnvOrders(o), mounts \in VolumeOrders(o), volumes \in VolumeOrders(o) :
        c = LET container == AsContainerOptions(o, names, mounts)
                pod == AsPodSpecOptions(o, volumes)
            IN IF form.kind = "deployment" THEN CreateDeployment(form, container, pod)
                                           ELSE CreateKnService(form, container, pod)
  BY DEF Candidates
<1>2. names = Sorted(o)
  BY DEF EnvOrders
<1> DEFINE container == AsContainerOptions(o, names, mounts)
           pod == AsPodSpecOptions(o, volumes)
<1>3. container = [env |-> EnvOf(o),
                   mounts |-> [i \in DOMAIN mounts |->
                                 [name |-> mounts[i],
                                  mountPath |-> o.volumes[mounts[i]].mountPath]]]
  BY <1>2 DEF AsContainerOptions, EnvOf
<1> HIDE DEF container, pod
<1>4. c = CreateDeployment(form, container, pod) \/ c = CreateKnService(form, container, pod)
  BY <1>1 DEF container, pod
<1>5. /\ c.container = container /\ c.volumes = pod
      /\ c = AsDeployment(c) \/ c = AsKnService(c)
  BY <1>4 DEF CreateDeployment, CreateKnService, AsDeployment, AsKnService
<1> QED
  BY <1>3, <1>5 DEF pod, Composed

(* Each order of the volumes of an object lists each of them once. *)
LEMMA OrderFacts ==
  ASSUME NEW o, WellNamed(o)
  PROVE  /\ Cardinality(DOMAIN o.volumes) \in Nat
         /\ \A order \in VolumeOrders(o) :
              /\ DOMAIN order = 1..Cardinality(DOMAIN o.volumes)
              /\ \A i, j \in DOMAIN order : order[i] = order[j] => i = j
<1>1. Cardinality(DOMAIN o.volumes) \in Nat
  BY FS_CardinalityType DEF WellNamed
<1>2. \A order \in VolumeOrders(o) :
        /\ DOMAIN order = 1..Cardinality(DOMAIN o.volumes)
        /\ \A i, j \in DOMAIN order : order[i] = order[j] => i = j
  BY DEF VolumeOrders, SetToSeqs
<1> QED
  BY <1>1, <1>2

(* Two children composed of rendered objects, with the same content and    *)
(* one volume at most, are equal.                                          *)
LEMMA SameContent ==
  ASSUME NEW o, NEW c, WellNamed(o), Composed(c, o),
         NEW u, NEW d, WellNamed(u), Composed(d, u),
         Content(c) = Content(d), ~(Len(c.volumes) > 1)
  PROVE  c = d
<1> DEFINE m == Cardinality(DOMAIN o.volumes)
           k == Cardinality(DOMAIN u.volumes)
<1>1. /\ Range(c.container.env) = Range(d.container.env)
      /\ Range(c.container.mounts) = Range(d.container.mounts)
      /\ Range(c.volumes) = Range(d.volumes)
      /\ [c EXCEPT !.container = None, !.volumes = None]
          = [d EXCEPT !.container = None, !.volumes = None]
  BY DEF Content
<1>2. c.container.env = EnvOf(o) /\ d.container.env = EnvOf(u)
  BY DEF Composed
<1>3. c.container.env = d.container.env
  BY <1>1, <1>2, SortedOnce
<1>4. PICK order \in VolumeOrders(o) : c.volumes = AsPodSpecOptions(o, order)
  BY DEF Composed
<1>5. PICK order2 \in VolumeOrders(u) : d.volumes = AsPodSpecOptions(u, order2)
  BY DEF Composed
<1>6. PICK place \in VolumeOrders(o) :
        c.container.mounts = [i \in DOMAIN place |->
          [name |-> place[i], mountPath |-> o.volumes[place[i]].mountPath]]
  BY DEF Composed
<1>7. PICK place2 \in VolumeOrders(u) :
        d.container.mounts = [i \in DOMAIN place2 |->
          [name |-> place2[i], mountPath |-> u.volumes[place2[i]].mountPath]]
  BY DEF Composed
<1>8. m \in Nat /\ k \in Nat
  BY OrderFacts
<1>9. DOMAIN order = 1..m /\ DOMAIN place = 1..m /\ DOMAIN order2 = 1..k /\ DOMAIN place2 = 1..k
  BY OrderFacts
<1>10. /\ \A i, j \in 1..k : order2[i] = order2[j] => i = j
       /\ \A i, j \in 1..k : place2[i] = place2[j] => i = j
  BY <1>9, OrderFacts
<1> HIDE DEF m, k
<1>11. /\ DOMAIN c.volumes = 1..m /\ DOMAIN d.volumes = 1..k
       /\ DOMAIN c.container.mounts = 1..m /\ DOMAIN d.container.mounts = 1..k
  BY <1>4, <1>5, <1>6, <1>7, <1>9 DEF AsPodSpecOptions
<1>12. m <= 1
  <2>1. Len(c.volumes) = m
    BY <1>4, <1>8, <1>9 DEF AsPodSpecOptions
  <2> QED
    BY <1>8, <2>1
<1>13. /\ \A i \in 1..k : d.volumes[i].name = order2[i]
       /\ \A i \in 1..k : d.container.mounts[i].name = place2[i]
  BY <1>5, <1>7, <1>9 DEF AsPodSpecOptions
<1>14. m = k /\ \A i \in 1..m : c.volumes[i] = d.volumes[i]
  <2>1. \A i, j \in 1..k : d.volumes[i] = d.volumes[j] => i = j
    BY <1>10, <1>13
  <2> QED
    BY <1>1, <1>8, <1>11, <1>12, <2>1, ShortLists
<1>15. \A i \in 1..m : c.container.mounts[i] = d.container.mounts[i]
  <2>1. \A i, j \in 1..k : d.container.mounts[i] = d.container.mounts[j] => i = j
    BY <1>10, <1>13
  <2> QED
    BY <1>1, <1>8, <1>11, <1>12, <2>1, ShortLists
<1>16. c.volumes = d.volumes
  <2>1. c.volumes = [i \in 1..m |-> c.volumes[i]] /\ d.volumes = [i \in 1..k |-> d.volumes[i]]
    BY <1>4, <1>5, <1>9 DEF AsPodSpecOptions
  <2> QED
    BY <1>14, <2>1
<1>17. c.container.mounts = d.container.mounts
  <2>1. /\ c.container.mounts = [i \in 1..m |-> c.container.mounts[i]]
        /\ d.container.mounts = [i \in 1..k |-> d.container.mounts[i]]
    BY <1>6, <1>7, <1>9
  <2> QED
    BY <1>14, <1>15, <2>1
<1>18. c.container = d.container
  BY <1>2, <1>3, <1>17 DEF Composed
<1> DEFINE bare(x) == [x EXCEPT !.container = None, !.volumes = None]
<1>19. ASSUME NEW x, x = AsDeployment(x)
       PROVE  bare(x).kind = "deployment" /\ bare(x).replicas = x.replicas
  <2>1. {"kind", "replicas"} \subseteq DOMAIN x /\ x.kind = "deployment"
    BY <1>19 DEF AsDeployment
  <2> QED
    BY <2>1
<1>20. ASSUME NEW x, x = AsKnService(x)
       PROVE  /\ bare(x).kind = "ksvc" /\ bare(x).visibility = x.visibility
              /\ bare(x).scale = x.scale
  <2>1. {"kind", "visibility", "scale"} \subseteq DOMAIN x /\ x.kind = "ksvc"
    BY <1>20 DEF AsKnService
  <2> QED
    BY <2>1
<1>21. CASE c = AsDeployment(c) /\ d = AsDeployment(d)
  <2>1. c.replicas = d.replicas
    BY <1>1, <1>19, <1>21
  <2> QED
    BY <1>16, <1>18, <1>21, <2>1 DEF AsDeployment
<1>22. CASE c = AsKnService(c) /\ d = AsKnService(d)
  <2>1. c.visibility = d.visibility /\ c.scale = d.scale
    BY <1>1, <1>20, <1>22
  <2> QED
    BY <1>16, <1>18, <1>22, <2>1 DEF AsKnService
<1>23. ASSUME NEW x, NEW y, x = AsDeployment(x), y = AsKnService(y), bare(x) = bare(y)
       PROVE  FALSE
  BY <1>19, <1>20, <1>23
<1> QED
  BY <1>1, <1>21, <1>22, <1>23 DEF Composed

(* A workload is only written to be given other content, unless it has two *)
(* volumes or more: rendering the same again never restarts it.            *)
THEOREM OnlyNewContent == Spec => OnlyNewContentIsWritten
<1>1. IInv /\ [Next]_vars =>
        [\A k \in Kinds :
           child[k] # None /\ child'[k] # child[k] =>
             Content(child'[k]) # Content(child[k]) \/ Len(child'[k].volumes) > 1]_vars
  <2> SUFFICES ASSUME IInv, Next, NEW k \in Kinds, child[k] # None, child'[k] # child[k],
                      Content(child'[k]) = Content(child[k]), ~(Len(child'[k].volumes) > 1)
               PROVE  FALSE
    OBVIOUS
  <2>1. ReconcileChild
    BY DEF Next, UserWrites, WorldChanges, StartNewReconciler, Resync, RenderObject,
           ReconcileChildFails, UpdateStatus, UpdateStatusFails
  <2>2. at = "child" /\ DOMAIN child = Kinds
    BY <2>1 DEF IInv, WorkInv, ChildInv, ReconcileChild
  <2>3. PICK w \in Worlds : obj = Render(controller.rules, w, base.spec, base.status).obj
    BY <2>2 DEF IInv, WorkInv, RenderedInv
  <2>4. WellNamed(obj)
    BY <2>3, RenderedWellNamed
  <2>5. PICK desired \in Candidates(controller.form, obj) :
          child' = IF Matching(desired) THEN child ELSE [child EXCEPT ![desired.kind] = desired]
    BY <2>1 DEF ReconcileChild
  <2>6. child'[k] = desired
    BY <2>2, <2>5
  <2>7. Composed(desired, obj)
    BY <2>5, CandidateShape
  <2>8. PICK reg \in Registrations, tree \in UserSpecs, v \in Worlds :
          child[k] \in Candidates(reg.form, Render(reg.rules, v, tree, <<>>).obj)
    BY DEF IInv, WorkloadInv
  <2> DEFINE old == Render(reg.rules, v, tree, <<>>).obj
  <2>9. WellNamed(old) /\ Composed(child[k], old)
    BY <2>8, RenderedWellNamed, CandidateShape
  <2> HIDE DEF old
  <2>10. desired = child[k]
    BY <2>4, <2>6, <2>7, <2>9, SameContent
  <2> QED
    BY <2>6, <2>10
<1> QED
  BY <1>1, Invariance, PTL DEF Spec, OnlyNewContentIsWritten

-----------------------------------------------------------------------------
(* What a form factor composes is of its kind and size. *)
LEMMA CandidateSize ==
  ASSUME NEW form, form.kind \in Kinds, NEW o, NEW c \in Candidates(form, o)
  PROVE  c.kind = form.kind /\ Sized(c, form) /\ (c.kind = "ksvc" => c.scale = form.scale)
<1>1. PICK container, pod :
        c = IF form.kind = "deployment" THEN CreateDeployment(form, container, pod)
                                        ELSE CreateKnService(form, container, pod)
  BY DEF Candidates
<1>2. CASE form.kind = "deployment"
  BY <1>1, <1>2 DEF CreateDeployment, Sized
<1>3. CASE form.kind = "ksvc"
  BY <1>1, <1>3 DEF CreateKnService, Sized
<1> QED
  BY <1>2, <1>3 DEF Kinds

(* Each order of the volumes lists all of them. *)
LEMMA OrderLists ==
  ASSUME NEW o, WellNamed(o), NEW order \in VolumeOrders(o), NEW x \in DOMAIN o.volumes
  PROVE  \E i \in DOMAIN order : order[i] = x
<1> DEFINE S == DOMAIN o.volumes
           D == 1..Cardinality(S)
<1>1. Cardinality(S) \in Nat /\ IsFiniteSet(S)
  BY FS_CardinalityType DEF WellNamed
<1>2. IsFiniteSet(D) /\ Cardinality(D) = Cardinality(S)
  <2> DEFINE n == Cardinality(S)
  <2>1. n \in Nat
    BY <1>1
  <2> HIDE DEF n
  <2>2. IsFiniteSet(1..n) /\ Cardinality(1..n) = n
    BY <2>1, FS_Interval
  <2> QED
    BY <2>2 DEF n
<1>3. order \in Injection(D, S)
  BY DEF VolumeOrders, SetToSeqs, Injection, IsInjective
<1> HIDE DEF D
<1>4. order \in Surjection(D, S)
  <2> HIDE DEF S
  <2> QED
    BY <1>1, <1>2, <1>3, FS_Injection
<1> QED
  BY <1>4 DEF Surjection

(* Every name is listed among all names. *)
AllNamed(o) == DOMAIN o.byName \subseteq Range(Names)

(* A container has each variable of the object it is composed of, once.    *)
LEMMA EnvFacts ==
  ASSUME NEW o, WellNamed(o)
  PROVE  /\ \E n \in Nat : DOMAIN EnvOf(o) = 1..n
         /\ \A i \in DOMAIN EnvOf(o) :
              EnvOf(o)[i].name \in DOMAIN o.byName /\ EnvOf(o)[i] = o.byName[EnvOf(o)[i].name]
         /\ \A i, j \in DOMAIN EnvOf(o) : i # j => EnvOf(o)[i].name # EnvOf(o)[j].name
         /\ AllNamed(o) => \A x \in DOMAIN o.byName :
                             \E i \in DOMAIN EnvOf(o) : EnvOf(o)[i] = o.byName[x]
<1> DEFINE D == DOMAIN o.byName
           f == Sorted(o)
<1>1. f = InNameOrder(D)
  BY DEF Sorted
<1> HIDE DEF f, D
<1>2. /\ \E n \in Nat : DOMAIN f = 1..n
      /\ f \in Seq(Range(Names) \cap D)
      /\ \A x \in Range(Names) \cap D : \E i \in DOMAIN f : f[i] = x
      /\ \A i, j \in DOMAIN f : f[i] = f[j] => i = j
  BY <1>1, InNameOrderFacts
<1>3. \A i \in DOMAIN f : f[i] \in Range(Names) \cap D
  BY <1>2
<1>4. EnvOf(o) = [i \in DOMAIN f |-> o.byName[f[i]]]
  BY DEF EnvOf, f
<1>5. \A i \in DOMAIN f : EnvOf(o)[i].name = f[i]
  BY <1>3, <1>4 DEF WellNamed, D
<1>6. AllNamed(o) => \A x \in D : \E i \in DOMAIN f : f[i] = x
  BY <1>2 DEF AllNamed, D
<1> QED
  BY <1>2, <1>3, <1>4, <1>5, <1>6 DEF D

(* The lists of a child that is composed of an object. *)
LEMMA ComposedLists ==
  ASSUME NEW o, WellNamed(o), NEW c, Composed(c, o)
  PROVE  /\ Len(c.container.env) \in Nat /\ DOMAIN c.container.env = 1..Len(c.container.env)
         /\ Len(c.container.mounts) \in Nat
         /\ DOMAIN c.container.mounts = 1..Len(c.container.mounts)
         /\ Len(c.volumes) \in Nat /\ DOMAIN c.volumes = 1..Len(c.volumes)
         /\ c.container.env = EnvOf(o)
         /\ \A i \in DOMAIN c.container.mounts :
              c.container.mounts[i] = [name |-> c.container.mounts[i].name,
                                       mountPath |-> c.container.mounts[i].mountPath]
         /\ \A x \in DOMAIN o.volumes :
              /\ \E i \in DOMAIN c.container.mounts :
                   /\ c.container.mounts[i].name = x
                   /\ c.container.mounts[i].mountPath = o.volumes[x].mountPath
              /\ \E i \in DOMAIN c.volumes :
                   /\ c.volumes[i].name = x
                   /\ c.volumes[i].from = o.volumes[x].from
                   /\ c.volumes[i].object = o.volumes[x].object
<1>1. PICK order \in VolumeOrders(o) : c.volumes = AsPodSpecOptions(o, order)
  BY DEF Composed
<1>2. PICK place \in VolumeOrders(o) :
        c.container.mounts = [i \in DOMAIN place |->
          [name |-> place[i], mountPath |-> o.volumes[place[i]].mountPath]]
  BY DEF Composed
<1>3. PICK m \in Nat : DOMAIN order = 1..m /\ DOMAIN place = 1..m
  BY OrderFacts
<1>4. c.container.env = EnvOf(o)
  BY DEF Composed
<1>5. PICK n \in Nat : DOMAIN EnvOf(o) = 1..n
  BY EnvFacts
<1>6. DOMAIN c.volumes = 1..m /\ DOMAIN c.container.mounts = 1..m
  BY <1>1, <1>2, <1>3 DEF AsPodSpecOptions
<1>7. /\ Len(c.container.env) = n /\ Len(c.container.mounts) = m /\ Len(c.volumes) = m
  BY <1>3, <1>4, <1>5, <1>6
<1>8. \A x \in DOMAIN o.volumes :
        (\E i \in DOMAIN order : order[i] = x) /\ (\E i \in DOMAIN place : place[i] = x)
  BY OrderLists
<1>9. \A i \in DOMAIN place :
        /\ c.container.mounts[i].name = place[i]
        /\ c.container.mounts[i].mountPath = o.volumes[place[i]].mountPath
        /\ c.container.mounts[i] = [name |-> c.container.mounts[i].name,
                                    mountPath |-> c.container.mounts[i].mountPath]
  BY <1>2
<1>10. \A i \in DOMAIN order :
         /\ c.volumes[i].name = order[i]
         /\ c.volumes[i].from = o.volumes[order[i]].from
         /\ c.volumes[i].object = o.volumes[order[i]].object
  BY <1>1 DEF AsPodSpecOptions
<1>11. /\ \A i \in DOMAIN c.container.mounts :
            c.container.mounts[i] = [name |-> c.container.mounts[i].name,
                                     mountPath |-> c.container.mounts[i].mountPath]
  BY <1>3, <1>6, <1>9
<1>12. \A x \in DOMAIN o.volumes :
         /\ \E i \in DOMAIN c.container.mounts :
              /\ c.container.mounts[i].name = x
              /\ c.container.mounts[i].mountPath = o.volumes[x].mountPath
         /\ \E i \in DOMAIN c.volumes :
              /\ c.volumes[i].name = x
              /\ c.volumes[i].from = o.volumes[x].from
              /\ c.volumes[i].object = o.volumes[x].object
  <2> TAKE x \in DOMAIN o.volumes
  <2>1. PICK i \in DOMAIN place : place[i] = x
    BY <1>8
  <2>2. PICK j \in DOMAIN order : order[j] = x
    BY <1>8
  <2>3. i \in DOMAIN c.container.mounts /\ j \in DOMAIN c.volumes
    BY <1>3, <1>6
  <2>4. c.container.mounts[i].name = x /\ c.container.mounts[i].mountPath = o.volumes[x].mountPath
    BY <1>9, <2>1
  <2>5. /\ c.volumes[j].name = x /\ c.volumes[j].from = o.volumes[x].from
        /\ c.volumes[j].object = o.volumes[x].object
    BY <1>10, <2>2
  <2> QED
    BY <2>3, <2>4, <2>5
<1> QED
  BY <1>3, <1>4, <1>5, <1>6, <1>7, <1>11, <1>12

(* Two variables that compare equal are the same variable, if the desired  *)
(* one has no source that is empty.                                        *)
LEMMA EqualVariables ==
  ASSUME NEW v, AVariable(v), NEW e, AVariable(e), EnvVarEqual(v, e),
         v.from # None => v.from.name # "" /\ v.from.key # ""
  PROVE  /\ e.name = v.name /\ e.value = v.value
         /\ SameSource(v.from, e.from) \/ v = WithValue(v.name, Empty)
<1>1. e.name = v.name /\ e.value = v.value /\ DerivedSource(v.from, e.from)
  BY DEF EnvVarEqual
<1>2. CASE v.from # None
  BY <1>1, <1>2 DEF DerivedSource, Derived, SameSource
<1>3. CASE v.from = None /\ e.from = None
  BY <1>1, <1>3 DEF SameSource
<1>4. CASE v.from = None /\ e.from # None
  <2>1. v.value = Empty
    BY <1>1, <1>4 DEF AVariable
  <2>2. v = [name |-> v.name, value |-> Empty, from |-> None]
    BY <1>4, <2>1 DEF AVariable
  <2> QED
    BY <1>1, <2>2 DEF WithValue
<1> QED
  BY <1>2, <1>3, <1>4

(* A child that the desired one compares equal to runs the desired object, *)
(* whatever it was composed of itself.                                     *)
LEMMA EqualRuns ==
  ASSUME NEW o, WellNamed(o), AllNamed(o), Definite(o),
         \A n \in DOMAIN o.byName : AVariable(o.byName[n]),
         NEW d, Composed(d, o),
         NEW u, WellNamed(u), \A n \in DOMAIN u.byName : AVariable(u.byName[n]),
         NEW c, Composed(c, u), PodEqual(d, c)
  PROVE  Runs(c, o)
<1>1. /\ DerivedList(d.container.env, c.container.env, EnvVarEqual)
      /\ DerivedList(d.container.mounts, c.container.mounts, MountEqual)
      /\ DerivedList(d.volumes, c.volumes, VolumeEqual)
  BY DEF PodEqual
<1>2. /\ d.container.env = EnvOf(o)
      /\ \A x \in DOMAIN o.volumes :
           /\ \E i \in DOMAIN d.container.mounts :
                /\ d.container.mounts[i].name = x
                /\ d.container.mounts[i].mountPath = o.volumes[x].mountPath
           /\ \E i \in DOMAIN d.volumes :
                /\ d.volumes[i].name = x
                /\ d.volumes[i].from = o.volumes[x].from
                /\ d.volumes[i].object = o.volumes[x].object
  BY ComposedLists
<1>3. /\ c.container.env = EnvOf(u)
      /\ \A i \in DOMAIN c.container.mounts :
           c.container.mounts[i] = [name |-> c.container.mounts[i].name,
                                    mountPath |-> c.container.mounts[i].mountPath]
  BY ComposedLists
<1>4. \A i \in DOMAIN d.container.env :
        i \in DOMAIN c.container.env /\ EnvVarEqual(d.container.env[i], c.container.env[i])
  <2>1. /\ Len(d.container.env) \in Nat /\ DOMAIN d.container.env = 1..Len(d.container.env)
        /\ Len(c.container.env) \in Nat /\ DOMAIN c.container.env = 1..Len(c.container.env)
    BY ComposedLists
  <2> QED
    BY <1>1, <2>1 DEF DerivedList
<1>5. \A i \in DOMAIN d.container.mounts :
        /\ i \in DOMAIN c.container.mounts
        /\ MountEqual(d.container.mounts[i], c.container.mounts[i])
  <2>1. /\ Len(d.container.mounts) \in Nat
        /\ DOMAIN d.container.mounts = 1..Len(d.container.mounts)
        /\ Len(c.container.mounts) \in Nat
        /\ DOMAIN c.container.mounts = 1..Len(c.container.mounts)
    BY ComposedLists
  <2> QED
    BY <1>1, <2>1 DEF DerivedList
<1>6. \A i \in DOMAIN d.volumes :
        i \in DOMAIN c.volumes /\ VolumeEqual(d.volumes[i], c.volumes[i])
  <2>1. /\ Len(d.volumes) \in Nat /\ DOMAIN d.volumes = 1..Len(d.volumes)
        /\ Len(c.volumes) \in Nat /\ DOMAIN c.volumes = 1..Len(c.volumes)
    BY ComposedLists
  <2> QED
    BY <1>1, <2>1 DEF DerivedList
<1>7. c # None
  <2>1. DOMAIN None = {"kind"}
    BY DEF None
  <2>2. "container" \in DOMAIN c
    BY DEF Composed, AsDeployment, AsKnService
  <2> QED
    BY <2>1, <2>2
<1>8. \A n \in DOMAIN o.byName : HasVariable(c.container.env, o.byName[n])
  <2> TAKE n \in DOMAIN o.byName
  <2>1. PICK i \in DOMAIN EnvOf(o) : EnvOf(o)[i] = o.byName[n]
    BY EnvFacts
  <2>2. i \in DOMAIN c.container.env /\ EnvVarEqual(o.byName[n], c.container.env[i])
    BY <1>2, <1>4, <2>1
  <2>3. AVariable(c.container.env[i])
    BY <1>3, <2>2, EnvFacts
  <2>4. o.byName[n].from # None => o.byName[n].from.name # "" /\ o.byName[n].from.key # ""
    BY DEF Definite
  <2>5. AVariable(o.byName[n])
    OBVIOUS
  <2> DEFINE v == o.byName[n]
             e == c.container.env[i]
  <2>6. e.name = v.name /\ e.value = v.value
        /\ (SameSource(v.from, e.from) \/ v = WithValue(v.name, Empty))
    <3> HIDE DEF v, e
    <3> QED
      BY <2>2, <2>3, <2>4, <2>5, EqualVariables DEF v, e
  <2> QED
    BY <2>2, <2>6 DEF HasVariable
<1>9. \A i, j \in DOMAIN c.container.env :
        i # j => c.container.env[i].name # c.container.env[j].name
  BY <1>3, EnvFacts
<1>10. ASSUME NEW x \in DOMAIN o.volumes
       PROVE  \E i \in DOMAIN c.volumes :
                /\ c.volumes[i].name = x
                /\ c.volumes[i].from = o.volumes[x].from
                /\ c.volumes[i].object = o.volumes[x].object
  <2>1. PICK i \in DOMAIN d.volumes : /\ d.volumes[i].name = x
                                      /\ d.volumes[i].from = o.volumes[x].from
                                      /\ d.volumes[i].object = o.volumes[x].object
    BY <1>2
  <2>2. i \in DOMAIN c.volumes /\ VolumeEqual(d.volumes[i], c.volumes[i])
    BY <1>6
  <2>3. o.volumes[x].object # ""
    BY DEF Definite
  <2> QED
    BY <2>1, <2>2, <2>3 DEF VolumeEqual, Derived
<1>11. ASSUME NEW x \in DOMAIN o.volumes
       PROVE  \E i \in DOMAIN c.container.mounts :
                c.container.mounts[i] = [name |-> x, mountPath |-> o.volumes[x].mountPath]
  <2>1. PICK i \in DOMAIN d.container.mounts :
          /\ d.container.mounts[i].name = x
          /\ d.container.mounts[i].mountPath = o.volumes[x].mountPath
    BY <1>2
  <2>2. /\ i \in DOMAIN c.container.mounts
        /\ MountEqual(d.container.mounts[i], c.container.mounts[i])
    BY <1>5
  <2>3. o.volumes[x].mountPath # ""
    BY DEF Definite
  <2>4. /\ c.container.mounts[i].name = x
        /\ c.container.mounts[i].mountPath = o.volumes[x].mountPath
    BY <2>1, <2>2, <2>3 DEF MountEqual, Derived
  <2> QED
    BY <1>3, <2>2, <2>4
<1> QED
  BY <1>7, <1>8, <1>9, <1>10, <1>11 DEF Runs

(* A child compares equal to itself. *)
LEMMA EqualToItself ==
  ASSUME NEW o, WellNamed(o), NEW d, Composed(d, o)
  PROVE  PodEqual(d, d)
<1>1. /\ Len(d.container.env) \in Nat /\ Len(d.container.mounts) \in Nat /\ Len(d.volumes) \in Nat
  BY ComposedLists
<1>2. \A i \in DOMAIN d.container.env : EnvVarEqual(d.container.env[i], d.container.env[i])
  BY DEF EnvVarEqual, DerivedSource, Derived
<1>3. \A i \in DOMAIN d.container.mounts :
        MountEqual(d.container.mounts[i], d.container.mounts[i])
  BY DEF MountEqual, Derived
<1>4. PICK order \in VolumeOrders(o) : d.volumes = AsPodSpecOptions(o, order)
  BY DEF Composed
<1>5. \A i \in DOMAIN d.volumes : d.volumes[i].items = o.volumes[order[i]].items
  BY <1>4 DEF AsPodSpecOptions
<1>6. \A i \in DOMAIN d.volumes : VolumeEqual(d.volumes[i], d.volumes[i])
  BY <1>5 DEF VolumeEqual, Derived, DerivedList, ItemEqual
<1> QED
  BY <1>1, <1>2, <1>3, <1>6 DEF PodEqual, DerivedList

(* What the rules of a registration render can be run: it has a list of    *)
(* distinct names, and each variable is one.                               *)
LEMMA RenderedFacts ==
  ASSUME NEW reg \in Registrations, NEW w, NEW tree, NEW st
  PROVE  LET o == Render(reg.rules, w, tree, st).obj IN
         /\ WellNamed(o) /\ AllNamed(o)
         /\ \A n \in DOMAIN o.byName : AVariable(o.byName[n])
<1> DEFINE o == Render(reg.rules, w, tree, st).obj
<1>1. WellNamed(o)
  BY RenderedWellNamed
<1>2. /\ \A n \in DOMAIN o.byName : AVariable(o.byName[n])
      /\ \A n \in DOMAIN o.byName :
           n \in Range(Names) \/ \E i \in DOMAIN Paths : n = VariableName(reg.rules, Paths[i])
  BY RenderedVariables
<1> HIDE DEF o
<1>3. \A i \in DOMAIN Paths : VariableName(reg.rules, Paths[i]) \in Range(Names)
  BY ComponentRenderingAssumption
<1>4. AllNamed(o)
  BY <1>2, <1>3 DEF AllNamed
<1> QED
  BY <1>1, <1>2, <1>4 DEF o

(* A reconciliation of the workload that succeeds leaves one that runs     *)
(* what was rendered, with the replicas or the visibility and scale of the *)
(* registration, whatever registration, spec and state of the cluster the  *)
(* one that was there before had been composed of.                         *)
THEOREM Arrives == Spec => WorkloadArrives
<1>1. IInv /\ [Next]_vars =>
        [at = "child" /\ at' = "status" /\ ~err' /\ Definite(obj) =>
           /\ Runs(child'[controller.form.kind], obj)
           /\ Sized(child'[controller.form.kind], controller.form)]_vars
  <2> SUFFICES ASSUME IInv, Next, at = "child", at' = "status", ~err', Definite(obj)
               PROVE  /\ Runs(child'[controller.form.kind], obj)
                      /\ Sized(child'[controller.form.kind], controller.form)
    OBVIOUS
  <2> DEFINE form == controller.form
             k == form.kind
  <2>1. ReconcileChild
    <3>1. ~ReconcileChildFails
      BY DEF ReconcileChildFails, ChildDone
    <3>2. ~RenderObject /\ ~UpdateStatus /\ ~UpdateStatusFails
      BY DEF RenderObject, UpdateStatus, UpdateStatusFails
    <3>3. /\ \A tree \in UserSpecs : ~UserWrites(tree)
          /\ \A w \in Worlds : ~WorldChanges(w)
          /\ \A reg \in Registrations : ~StartNewReconciler(reg)
          /\ ~Resync
      BY DEF UserWrites, WorldChanges, StartNewReconciler, Resync, Local, Idle, locals
    <3> QED
      BY <3>1, <3>2, <3>3 DEF Next
  <2>2. controller \in Registrations /\ DOMAIN child = Kinds
        /\ \A l \in Kinds : child[l] # None => child[l].kind = l
    BY DEF IInv, WorkInv, ChildInv, TypeOK
  <2>3. k \in Kinds
    BY <2>2, ComponentRenderingAssumption DEF Kinds
  <2>4. PICK w \in Worlds : obj = Render(controller.rules, w, base.spec, base.status).obj
    BY DEF IInv, WorkInv, RenderedInv
  <2>5. /\ WellNamed(obj) /\ AllNamed(obj)
        /\ \A n \in DOMAIN obj.byName : AVariable(obj.byName[n])
    BY <2>2, <2>4, RenderedFacts
  <2>6. PICK desired \in Candidates(form, obj) :
          child' = IF Matching(desired) THEN child ELSE [child EXCEPT ![desired.kind] = desired]
    BY <2>1 DEF ReconcileChild
  <2> HIDE DEF k, form
  <2>7. /\ Composed(desired, obj) /\ desired.kind = k /\ Sized(desired, form)
        /\ desired.kind = "ksvc" => desired.scale = form.scale
    <3>1. form.kind \in Kinds /\ k = form.kind
      BY <2>3 DEF k
    <3> QED
      BY <2>6, <3>1, CandidateShape, CandidateSize
  <2>8. CASE ~Matching(desired)
    <3>1. child'[k] = desired
      BY <2>2, <2>3, <2>6, <2>7, <2>8
    <3>2. PodEqual(desired, desired)
      BY <2>5, <2>7, EqualToItself
    <3>3. Runs(desired, obj)
      BY <2>5, <2>7, <3>2, EqualRuns
    <3> QED
      BY <2>7, <3>1, <3>3 DEF k, form
  <2>9. CASE Matching(desired)
    <3>1. child'[k] = child[k] /\ child[k] # None /\ SemanticEqual(desired, child[k])
      BY <2>6, <2>7, <2>9 DEF Matching
    <3>2. PICK reg \in Registrations, tree \in UserSpecs, v \in Worlds :
            child[k] \in Candidates(reg.form, Render(reg.rules, v, tree, <<>>).obj)
      BY <2>3, <3>1 DEF IInv, WorkloadInv
    <3> DEFINE old == Render(reg.rules, v, tree, <<>>).obj
    <3>3. WellNamed(old) /\ \A n \in DOMAIN old.byName : AVariable(old.byName[n])
      BY RenderedFacts
    <3>4. Composed(child[k], old)
      BY <3>2, CandidateShape
    <3> HIDE DEF old
    <3>5. PodEqual(desired, child[k])
      BY <3>1 DEF SemanticEqual
    <3>6. Runs(child[k], obj)
      BY <2>5, <2>7, <3>3, <3>4, <3>5, EqualRuns
    <3>7. Sized(child[k], form)
      <4>1. CASE k = "deployment"
        BY <2>7, <3>1, <4>1 DEF SemanticEqual, Sized, k
      <4>2. CASE k = "ksvc"
        <5>1. /\ desired.visibility = child[k].visibility
              /\ \A b \in DOMAIN desired.scale : desired.scale[b] = child[k].scale[b]
          BY <2>7, <3>1, <4>2 DEF SemanticEqual, DerivedMap
        <5>2. form.kind = "ksvc" /\ desired.visibility = form.visibility /\ desired.scale = form.scale
          BY <2>7, <4>2 DEF Sized, k
        <5> QED
          BY <5>1, <5>2 DEF Sized
      <4> QED
        BY <2>3, <4>1, <4>2 DEF Kinds
    <3> QED
      BY <3>1, <3>6, <3>7 DEF k, form
  <2> QED
    BY <2>8, <2>9
<1> QED
  BY <1>1, Invariance, PTL DEF Spec, WorkloadArrives
=============================================================================
