------------------------- MODULE ComponentRendering -------------------------
(***************************************************************************)
(* One component, what its workload and its status take from its spec, and *)
(* the controller that was built for its registration (component/builder). *)
(*                                                                         *)
(* Three things change under the controller: the spec, which wakes it; the *)
(* objects the spec and the registration refer to, which do not; and the   *)
(* registration, which only a new controller takes up.  Each call that     *)
(* writes to the API is a step of its own; what Render reads from the API  *)
(* is read in one.  Creation and deletion of the component, its hook and   *)
(* lagging caches are in ComponentReconciler, the conditions of its status *)
(* in ComponentStatus.                                                     *)
(***************************************************************************)
EXTENDS Workload, CRDVersion

CONSTANTS
  Registrations,  \* what the registration may say
  UserSpecs,      \* specs a user may write; None: the component has none
  Worlds,         \* what the cluster may hold: [objects, configMaps]
  VersionLists,   \* lists of versions a CRD may have
  MaxChanges      \* how often spec, world and registration change

ASSUME ComponentRenderingAssumption ==
  /\ \A reg \in Registrations : DOMAIN reg = {"rules", "form", "versions", "addsVolumes"}
  /\ \A world \in Worlds : DOMAIN world = {"objects", "configMaps"}
  /\ \A versions \in VersionLists \cup {reg.versions : reg \in Registrations} :
       /\ versions \in Seq(Range(versions))
       /\ \A i \in DOMAIN versions : versions[i].rank \in Nat \ {0}
  /\ \A tree \in UserSpecs, i \in DOMAIN Paths :
       LET node == Element(tree, Paths[i])
       IN node.kind = "array" => node.items \in Seq(Range(node.items))
  /\ \A reg \in Registrations :
       /\ reg.form.kind \in {"deployment", "ksvc"}
       /\ \A i \in DOMAIN Paths : VariableName(reg.rules, Paths[i]) \in Range(Names)
       /\ DOMAIN reg.rules.add \subseteq Range(Names)
  /\ MaxChanges \in Nat

VARIABLES
  controller,  \* the registration the controller was built for; None without one
  spec, world, \* as the API has them
  status,      \* the elements added to the status, in the API
  child,       \* the workloads in the API, by kind
  dirty,       \* the component is in the workqueue
  at,          \* where the worker is in Reconcile
  base,        \* spec and status as the API gave them
  obj, work,   \* the component object, and the status to write
  err,         \* Reconcile returns an error
  changes      \* how often spec, world and registration have changed

inputs == <<controller, spec, world>>
locals == <<at, base, obj, work, err>>
vars == <<inputs, status, child, dirty, locals, changes>>

Kinds == {"deployment", "ksvc"}

Idle == [at |-> "idle", base |-> None, obj |-> NewObject, work |-> <<>>, err |-> FALSE]
Local(l) == at' = l.at /\ base' = l.base /\ obj' = l.obj /\ work' = l.work /\ err' = l.err

Init ==
  /\ controller = None
  /\ spec \in UserSpecs /\ world \in Worlds
  /\ status = <<>> /\ child = [k \in Kinds |-> None]
  /\ dirty = FALSE
  /\ at = "idle" /\ base = None /\ obj = NewObject /\ work = <<>> /\ err = FALSE
  /\ changes = 0

Changed == changes < MaxChanges /\ changes' = changes + 1

(***************************************************************************)
(* Users and cluster                                                       *)
(***************************************************************************)
UserWrites(tree) ==
  /\ Changed /\ tree # spec
  /\ spec' = tree
  /\ dirty' = (controller # None)
  /\ UNCHANGED <<controller, world, status, child, locals>>

(* Nothing watches the objects a component refers to. *)
WorldChanges(w) ==
  /\ Changed /\ w # world
  /\ world' = w
  /\ UNCHANGED <<controller, spec, status, child, dirty, locals>>

(* StartNewReconciler: for a registration that is new, or anew after the   *)
(* process has stopped anywhere in Reconcile.  The controller lists the    *)
(* component.                                                              *)
(*                                                                         *)
(* A name ending in a suffix after _ is a faulty variant of the definition *)
(* that follows it, which no specification uses; the runs on a variant     *)
(* show that the properties notice the fault.                              *)
Builds(reg) == CRDPrioritizedVersion(reg.versions) # NoVersion /\ ~reg.addsVolumes

StartNewReconciler_KeepsWorking(reg) ==
  /\ controller' = IF Builds(reg) THEN reg ELSE None
  /\ IF controller' = controller THEN UNCHANGED changes ELSE Changed
  /\ dirty' = Builds(reg)
  /\ UNCHANGED <<locals, spec, world, status, child>>
StartNewReconciler(reg) ==
  /\ controller' = IF Builds(reg) THEN reg ELSE None
  /\ IF controller' = controller THEN UNCHANGED changes ELSE Changed
  /\ dirty' = Builds(reg)
  /\ Local(Idle)
  /\ UNCHANGED <<spec, world, status, child>>

(* The informers list everything again from time to time. *)
Resync ==
  /\ controller # None /\ ~dirty
  /\ dirty' = TRUE
  /\ UNCHANGED <<changes, inputs, status, child, locals>>

(***************************************************************************)
(* Reconcile                                                               *)
(***************************************************************************)
(* Get and Render.  If it fails, what it did to the status stays. *)
RenderObject ==
  /\ at = "idle" /\ dirty
  /\ dirty' = FALSE
  /\ LET rendering == Render(controller.rules, world, spec, status) IN
     Local([at |-> IF rendering.failed THEN "status" ELSE "child",
            base |-> [spec |-> spec, status |-> status],
            obj |-> rendering.obj, work |-> rendering.status, err |-> rendering.failed])
  /\ UNCHANGED <<changes, inputs, status, child>>

(* The workload is found, and left alone if it compares equal; or it is    *)
(* created or updated, which wakes the controller.                         *)
Matching(desired) ==
  child[desired.kind] # None /\ SemanticEqual(desired, child[desired.kind])

(* SetAddressURL: the form factor that has an address sets it, and nothing *)
(* else of status.address stays; one that has none leaves what there is.   *)
AddressURL == <<"address", "url">>
WithAddress_Kept(reg, elements) == elements
WithAddress(reg, elements) ==
  IF reg.form.address = None
     \/ ~Allows(CRDStatusFlag(CRDPrioritizedVersion(reg.versions)), "addressURL")
    THEN elements
    ELSE [p \in {q \in DOMAIN elements : Head(q) # "address"} \cup {AddressURL} |->
            IF p = AddressURL THEN reg.form.address ELSE elements[p]]

ChildDone(failed) ==
  /\ at' = "status" /\ err' = failed
  /\ work' = IF failed THEN work ELSE WithAddress(controller, work)
  /\ UNCHANGED <<changes, inputs, status, base, obj>>

ReconcileChild ==
  /\ at = "child"
  /\ \E desired \in Candidates(controller.form, obj) :
       /\ child' = IF Matching(desired) THEN child ELSE [child EXCEPT ![desired.kind] = desired]
       /\ dirty' = (dirty \/ ~Matching(desired))
  /\ ChildDone(FALSE)

(* A call to the API fails. *)
ReconcileChildFails ==
  /\ at = "child"
  /\ ChildDone(TRUE)
  /\ UNCHANGED <<child, dirty>>

(* Status().Update.  The conditions and the address in the status, which   *)
(* is held in another type than the one it is read in, differ even if no   *)
(* element does; but then nothing else may have to be done.  The API       *)
(* refuses the update if the component has changed since it was read.  An  *)
(* error puts the request back into the queue, and so does the event of    *)
(* the update.                                                             *)
UpdateStatus ==
  /\ at = "status"
  /\ \/ /\ work = base.status
        /\ dirty' \in {dirty \/ err, TRUE}
        /\ UNCHANGED status
     \/ /\ work # base.status /\ spec = base.spec
        /\ status' = work
        /\ dirty' = TRUE
     \/ /\ work # base.status /\ spec # base.spec
        /\ dirty' = TRUE
        /\ UNCHANGED status
  /\ Local(Idle)
  /\ UNCHANGED <<changes, inputs, child>>

UpdateStatusFails ==
  /\ at = "status"
  /\ dirty' = TRUE
  /\ Local(Idle)
  /\ UNCHANGED <<changes, inputs, status, child>>

Next ==
  \/ \E tree \in UserSpecs : UserWrites(tree)
  \/ \E w \in Worlds : WorldChanges(w)
  \/ \E reg \in Registrations : StartNewReconciler(reg)
  \/ Resync \/ RenderObject
  \/ ReconcileChild \/ ReconcileChildFails
  \/ UpdateStatus \/ UpdateStatusFails

(* The worker works, the informers go on listing, and a call that is made  *)
(* again and again goes through again and again: neither does it always    *)
(* fail, nor does the process always stop before it.  (Only RenderObject   *)
(* takes a request, and only ReconcileChild and its failure end with the   *)
(* status to write; TLC evaluates ENABLED without keeping values, too      *)
(* slowly for what these compute.)                                         *)
TakesRequest == at = "idle" /\ dirty /\ at' \in {"child", "status"}
EndsChild(failed) == at = "child" /\ at' = "status" /\ err' = failed
WritesStatus == UpdateStatus /\ work # base.status /\ status' = work

Fairness ==
  /\ WF_vars(Resync) /\ WF_at(TakesRequest)
  /\ WF_at(EndsChild(FALSE) \/ EndsChild(TRUE)) /\ SF_at(EndsChild(FALSE))
  /\ WF_vars(UpdateStatus \/ UpdateStatusFails) /\ SF_vars(WritesStatus)

Spec == Init /\ [][Next]_vars
FairSpec == Spec /\ Fairness

(***************************************************************************)
(* Properties                                                              *)
(***************************************************************************)
(* Every variable has its type, and only a started controller works.       *)
TypeOK ==
  /\ controller \in Registrations \cup {None}
  /\ spec \in UserSpecs /\ world \in Worlds
  /\ \A k \in Kinds : child[k] # None => child[k].kind = k
  /\ dirty \in BOOLEAN /\ err \in BOOLEAN /\ changes \in 0..MaxChanges
  /\ at \in {"idle", "child", "status"}
  /\ at = "idle" => base = None /\ obj = NewObject /\ work = <<>>
  /\ controller = None => at = "idle" /\ ~dirty

Rendered == at = "child"
r == controller.rules
Fields == {Paths[i] : i \in FieldNames(r, base.spec)}
Claimed(p) == Claims(RuleFor(r, base.spec, p))

(* "Will expect to generate an environment variable for spec.mySecret, but *)
(* not for the inner elements" (base/renderer/renderer.go:154-155): nothing *)
(* is made of a part of an element that becomes one variable or volume,    *)
(* even if the registration has a rule or a default for the part.          *)
PartsStayHidden ==
  Rendered /\ base.spec # None =>
    \A p, a \in Fields : IsPartOf(p, a) /\ Claimed(a) => p \notin DOMAIN obj.byPath

(* An element that the user gave a value and that no rule skips. *)
Given(p) ==
  /\ Element(base.spec, p).kind \in {"string", "other", "array"}
  /\ RuleFor(r, base.spec, p) = "plain"

SameName(p, q) == VariableName(r, p) = VariableName(r, q)
OfNoOther(p) ==
  /\ \A q \in Fields \ {p} : ~SameName(p, q)
  /\ VariableName(r, p) \notin DOMAIN r.add

(* A rule of the registration, whatever it asks for, names the element; an *)
(* element without one, but below one that has, is a sub-element of it.    *)
Customized(p) == p \in r.skip \/ Instructed(r, p)
SubElement(p) == ~Customized(p) /\ \E a \in Fields : IsPartOf(p, a) /\ Customized(a)

(* "When a parameter customization is found, the default parameter         *)
(* generation for that element or any sub-element to the one indicated,    *)
(* will be skipped" (docs/reference/registration.md:176): nothing is made  *)
(* of a sub-element.  The code skips or renames the element itself and     *)
(* goes on with what is below it (base/renderer/renderer.go:196).          *)
SubElementsSkipped ==
  Rendered /\ base.spec # None =>
    \A p \in Fields : SubElement(p) => p \notin DOMAIN obj.byPath

(* "All elements under .spec are considered data to be available at the    *)
(* workload" (docs/reference/registration.md:90): each element the user    *)
(* gave is the variable of its name, unless it is a sub-element, which the *)
(* same page excepts, or a part of one that a rule turns into one thing.   *)
ElementsAvailable ==
  Rendered /\ base.spec # None =>
    \A p \in Fields :
      Given(p) /\ ~SubElement(p) /\ (\A a \in Fields : IsPartOf(p, a) => ~Claimed(a)) =>
        VariableName(r, p) \in DOMAIN obj.byName

(* What remains of it: an element is also lost if its name as a string     *)
(* continues that of a claimed sibling (renderer.go:183), or to another    *)
(* one of the same variable (base/object/object.go:64).  Sub-elements are  *)
(* left to SubElementsSkipped.  An array keeps the order of its items, if  *)
(* they are ten or fewer (renderer.go:724).                                *)
InItems(p) ==
  LET node == Element(base.spec, p) IN
  IF node.kind # "array" THEN DefaultRendering(node)
  ELSE IF ~IsPrimitive(node.items) THEN [kind |-> "json", node |-> node]
  ELSE IF node.items = <<>> THEN Empty
  ELSE Literal([i \in DOMAIN node.items |-> Printed(node.items[i])])

SeparateElementsAvailable ==
  Rendered /\ base.spec # None =>
    \A p \in Fields :
      /\ Given(p) /\ ~SubElement(p) /\ OfNoOther(p)
      /\ \A a \in Fields : BeginsAsString(a, p) => ~Claimed(a)
      /\ Element(base.spec, p).kind = "array" => Len(Element(base.spec, p).items) <= 10
      => /\ VariableName(r, p) \in DOMAIN obj.byName
         /\ obj.byName[VariableName(r, p)] = WithValue(VariableName(r, p), InItems(p))

(* Of a CRD whose versions are listed from the oldest to the newest, as    *)
(* base/crd/crd _test.go:51-84 has them, and whose last one is served and  *)
(* not deprecated, the controller works with such a version, the highest.  *)
(* With other lists it may not (base/crd/crd.go:19).                       *)
IsAvailable(v) == v.served /\ ~v.deprecated

CRDLists == VersionLists \cup {reg.versions : reg \in {controller} \ {None}}

HighestVersionServed ==
  \A versions \in CRDLists :
    /\ versions # <<>> /\ IsAvailable(Last(versions))
    /\ \A i, j \in DOMAIN versions : i < j => versions[i].rank < versions[j].rank
    => /\ IsAvailable(CRDPrioritizedVersion(versions))
       /\ \A i \in DOMAIN versions :
            IsAvailable(versions[i]) => versions[i].rank <= CRDPrioritizedVersion(versions).rank

(* A workload is only written to be given other content: rendering the     *)
(* same again never restarts it, since variables are sorted                *)
(* (base/object/object.go:65-69).  The order of two volumes is random and  *)
(* may restart it (base/object/object.go:79-89).                           *)
Content(c) ==
  <<[c EXCEPT !.container = None, !.volumes = None],
    Range(c.container.env), Range(c.container.mounts), Range(c.volumes)>>

OnlyNewContentIsWritten ==
  [][\A k \in Kinds :
       child[k] # None /\ child'[k] # child[k] =>
         Content(child'[k]) # Content(child[k]) \/ Len(child'[k].volumes) > 1]_vars

(* A child runs an object if it has each variable and volume of it, and no *)
(* two variables of one name.  Of an empty variable the source may be any: *)
(* the comparison does not see it (utils/semantic/semantic.go:86-91).      *)
SameSource(a, b) ==
  a.kind = b.kind /\ (a # None => a.name = b.name /\ a.key = b.key)

HasVariable(env, v) ==
  \E i \in DOMAIN env : /\ env[i].name = v.name /\ env[i].value = v.value
                        /\ SameSource(v.from, env[i].from) \/ v = WithValue(v.name, Empty)

Runs(c, o) ==
  /\ c # None
  /\ \A name \in DOMAIN o.byName : HasVariable(c.container.env, o.byName[name])
  /\ \A i, j \in DOMAIN c.container.env :
       i # j => c.container.env[i].name # c.container.env[j].name
  /\ \A name \in DOMAIN o.volumes :
       /\ \E i \in DOMAIN c.volumes :
            /\ c.volumes[i].name = name
            /\ c.volumes[i].from = o.volumes[name].from
            /\ c.volumes[i].object = o.volumes[name].object
       /\ \E i \in DOMAIN c.container.mounts :
            c.container.mounts[i] = [name |-> name, mountPath |-> o.volumes[name].mountPath]

Sized(c, form) ==
  IF form.kind = "deployment" THEN c.replicas = form.replicas
  ELSE c.visibility = form.visibility /\ \A b \in DOMAIN form.scale : c.scale[b] = form.scale[b]

(* A reconciliation of the workload that succeeds leaves one that runs     *)
(* what was rendered, whatever was there before: that an update is left    *)
(* out when the comparison finds the two equal makes no difference, if     *)
(* nothing rendered is empty, which the comparison takes for anything      *)
(* (formfactor/deployment/reconciler.go:206, utils/semantic/semantic.go).  *)
Definite(o) ==
  /\ \A name \in DOMAIN o.byName :
       LET from == o.byName[name].from
       IN from # None => from.name # "" /\ from.key # ""
  /\ \A name \in DOMAIN o.volumes :
       o.volumes[name].object # "" /\ o.volumes[name].mountPath # ""

WorkloadArrives ==
  [][at = "child" /\ at' = "status" /\ ~err' /\ Definite(obj) =>
       /\ Runs(child'[controller.form.kind], obj)
       /\ Sized(child'[controller.form.kind], controller.form)]_vars

(* When the registration, the spec and what they refer to change no more,  *)
(* the workload ends up with every variable and volume that is rendered,   *)
(* though nobody announces a change of a ConfigMap or an address.  What    *)
(* the comparison does not see may stay: variables that are not rendered   *)
(* any more, and the source of one that becomes empty                      *)
(* (utils/semantic/semantic.go:86-91).                                     *)
Quiet == <>[][FALSE]_inputs

ChosenVersion == CRDPrioritizedVersion(controller.versions)
RenderingOf ==
  [reg \in Registrations, tree \in UserSpecs, w \in Worlds |-> Render(reg.rules, w, tree, <<>>)]
Now == RenderingOf[controller, spec, world]
Renders == controller # None /\ ~Now.failed

WorkloadFollows ==
  Quiet => <>[](Renders => Runs(child[controller.form.kind], Now.obj)
                           /\ Sized(child[controller.form.kind], controller.form))

(* The status then shows the value of each variable it is to show, and the *)
(* address of the form factor if the CRD declares one                      *)
(* (base/renderer/renderer.go:611-636, base/crd/crd.go:52-113).            *)
ShowsElements ==
  \A i \in DOMAIN r.status :
    r.status[i].from \in DOMAIN Now.obj.byPath =>
      /\ r.status[i].path \in DOMAIN status
      /\ status[r.status[i].path] = Now.obj.byPath[r.status[i].from].value

ShowsAddress ==
  controller.form.address # None /\ "address.url" \in ChosenVersion.declares =>
    AddressURL \in DOMAIN status /\ status[AddressURL] = controller.form.address

StatusFollows == Quiet => <>[](Renders => ShowsElements /\ ShowsAddress)
=============================================================================
