------------------------ MODULE ComponentReconciler ------------------------
(***************************************************************************)
(* The reconciler of one component, an instance of a registered CRD        *)
(* (base/reconciler.go), with its form factor (formfactor/deployment,      *)
(* formfactor/knservice), its hook (hook/reconciler.go), the Kubernetes    *)
(* API, whose objects are read through caches that lag, and the users of   *)
(* that API.                                                               *)
(*                                                                         *)
(* The controller has one worker, and each call it makes to the API or to  *)
(* the hook is a step of its own.  A spec stands for the parameters of the *)
(* component and for the child rendered from them.  Of the conditions only *)
(* those of the children are kept, as whether they are True: their list    *)
(* and Ready are in ComponentStatus.                                       *)
(***************************************************************************)
EXTENDS Sequences, HookClient

CONSTANTS
  Specs,     \* specs a user may write
  Removals,  \* pairs <<a, b>>: a is b without its last parameters
  Kinds,     \* the children of the form factor, in order
  Hooks,     \* sets of capabilities a hook may have
  Replies,   \* how a request to the hook may end
  None,      \* no object
  MaxUid, MaxGen, MaxFaults   \* bounds: creations, generations, faults

NoOp == [kind |-> "empty"]

ASSUME ComponentReconcilerAssumption ==
  /\ Removals \subseteq Specs \X Specs
  /\ Kinds # <<>> /\ Kinds \in Seq({Kinds[i] : i \in DOMAIN Kinds})
  /\ Hooks \subseteq SUBSET {"pre-reconcile", "finalize"}
  /\ Replies \subseteq Reply /\ NoOp \in Replies
  /\ MaxUid \in Nat /\ MaxGen \in Nat \ {0} /\ MaxFaults \in Nat

VARIABLES
  api,        \* the component in the API
  cache,      \* the informer's copy
  child,      \* its children in the API, by kind
  childCache, \* the informers' copies
  uids,       \* components created so far
  userSpec,   \* the spec the user wrote last
  renderable, \* the references of the spec resolve
  caps,       \* the capabilities of the hook; none without a hook
  faults,     \* faults so far
  dirty,      \* the component is in the workqueue
  at,         \* where the worker is in Reconcile
  base,       \* the component as the API last gave it to Reconcile
  spec,       \* the spec of obj: base's, unless the hook replaced it
  work,       \* the status of obj
  cands,      \* the candidates: the spec each child was rendered from
  next,       \* the next child to reconcile
  err,        \* Reconcile returns an error
  finalized   \* components whose finalization the hook let through

users  == <<uids, userSpec, renderable>>
caches == <<cache, childCache>>
locals == <<at, base, spec, work, cands, next, err>>
vars == <<api, child, users, caches, caps, faults, dirty, locals, finalized>>

KindSet == {Kinds[i] : i \in DOMAIN Kinds}
Status == [observed : 0..MaxGen, ready : [KindSet -> BOOLEAN]]
NoCandidates == [k \in KindSet |-> None]
NoStatus == [observed |-> 0, ready |-> [k \in KindSet |-> FALSE]]
Component == [uid : 1..MaxUid, gen : 1..MaxGen, spec : Specs, finalizer : BOOLEAN,
              deleting : BOOLEAN, status : Status]
Child == [owner : 1..MaxUid, spec : Specs, available : BOOLEAN]

ASSUME NoneAssumption == None \notin Component /\ None \notin Child /\ None \notin Specs

(* Every variable has its type; the status never runs ahead of the         *)
(* generation it was computed from (base/reconciler.go:173-176).           *)
TypeOK ==
  /\ api \in Component \cup {None} /\ cache \in Component \cup {None}
  /\ child \in [KindSet -> Child \cup {None}]
  /\ childCache \in [KindSet -> Child \cup {None}]
  /\ uids \in 0..MaxUid /\ userSpec \in Specs /\ renderable \in BOOLEAN
  /\ caps \in Hooks
  /\ faults \in 0..MaxFaults
  /\ dirty \in BOOLEAN
  /\ at \in {"idle", "preReconcile", "addFinalizer", "children", "status", "finalize",
             "removeFinalizer"}
  /\ base \in Component \cup {None}
  /\ spec \in Specs \cup {None} /\ work \in Status
  /\ cands \in [KindSet -> Specs \cup {None}] /\ next \in 1..Len(Kinds)
  /\ err \in BOOLEAN
  /\ finalized \in SUBSET (1..MaxUid)
  /\ api # None => api.status.observed <= api.gen

Exists == api # None

Init ==
  /\ api = None /\ cache = None
  /\ child = [k \in KindSet |-> None] /\ childCache = child
  /\ uids = 0 /\ userSpec \in Specs /\ renderable \in BOOLEAN
  /\ caps \in Hooks
  /\ faults = 0
  /\ dirty = FALSE
  /\ at = "idle" /\ base = None /\ spec = None /\ work = NoStatus
  /\ cands = NoCandidates /\ next = 1 /\ err = FALSE
  /\ finalized = {}

(***************************************************************************)
(* Users, cluster, informers                                               *)
(***************************************************************************)
ControllerUnchanged == UNCHANGED <<caches, caps, faults, dirty, locals, finalized>>

UserCreates(s) ==
  /\ ~Exists /\ uids < MaxUid
  /\ uids' = uids + 1
  /\ api' = [uid |-> uids + 1, gen |-> 1, spec |-> s, finalizer |-> FALSE,
             deleting |-> FALSE, status |-> NoStatus]
  /\ userSpec' = s
  /\ ControllerUnchanged /\ UNCHANGED <<child, renderable>>

UserModifies(s) ==
  /\ Exists /\ api.gen < MaxGen /\ s # api.spec
  /\ api' = [api EXCEPT !.spec = s, !.gen = @ + 1]
  /\ userSpec' = s
  /\ ControllerUnchanged /\ UNCHANGED <<child, uids, renderable>>

UserDeletes ==
  /\ Exists /\ ~api.deleting
  /\ api' = IF api.finalizer THEN [api EXCEPT !.deleting = TRUE] ELSE None
  /\ ControllerUnchanged /\ UNCHANGED <<child, users>>

(* An object that the spec refers to appears or goes. *)
ReferencesChange ==
  /\ renderable' = ~renderable
  /\ ControllerUnchanged /\ UNCHANGED <<api, child, uids, userSpec>>

(* A workload becomes available, or stops being. *)
IsWorkload(k) == k # "service"
ChildChanges(k) ==
  /\ child[k] # None /\ IsWorkload(k)
  /\ child' = [child EXCEPT ![k].available = ~@]
  /\ ControllerUnchanged /\ UNCHANGED <<api, users>>

(* The garbage collector removes the children of a component that is gone. *)
Orphaned(k) == child[k] # None /\ ~(Exists /\ api.uid = child[k].owner)

ChildCollected(k) ==
  /\ Orphaned(k)
  /\ child' = [child EXCEPT ![k] = None]
  /\ ControllerUnchanged /\ UNCHANGED <<api, users>>

CacheSync ==
  /\ cache # api
  /\ cache' = api
  /\ dirty' = TRUE
  /\ UNCHANGED <<api, child, users, childCache, caps, faults, locals, finalized>>

(***************************************************************************)
(* A name ending in a suffix after _ is a faulty variant of the definition *)
(* that follows it, which no specification uses; the runs on a variant     *)
(* show that the properties notice the fault.                              *)
(***************************************************************************)
(* SetupController: the watch of each kind wakes the owner of the child.   *)
(* As all components here have one name, an event on a child of any of     *)
(* them wakes that name.                                                   *)
Wakes_Never(k) == FALSE
Wakes(k) == TRUE

ChildSync(k) ==
  /\ childCache[k] # child[k]
  /\ childCache' = [childCache EXCEPT ![k] = child[k]]
  /\ dirty' = (dirty \/ Wakes(k))
  /\ UNCHANGED <<api, child, users, cache, caps, faults, locals, finalized>>

Resync ==
  /\ cache # None
  /\ dirty' = TRUE
  /\ UNCHANGED <<api, child, users, caches, caps, faults, locals, finalized>>

Fault == faults < MaxFaults /\ faults' = faults + 1

Idle == at' = "idle" /\ base' = None /\ spec' = None /\ work' = NoStatus
        /\ cands' = NoCandidates /\ next' = 1 /\ err' = FALSE

(* The controller ends and another, whose hook may differ, takes its place *)
(* and lists what there is.                                                *)
Restart ==
  /\ Fault
  /\ caps' \in Hooks
  /\ cache' = api /\ childCache' = child
  /\ dirty' = Exists
  /\ Idle
  /\ UNCHANGED <<api, child, users, finalized>>

(* Someone deletes a child.  If the cache has yet to hear of its creation, *)
(* the watch still delivers both events.                                   *)
ChildLost(k) ==
  /\ Fault
  /\ child[k] # None
  /\ child' = [child EXCEPT ![k] = None]
  /\ dirty' = (dirty \/ (childCache[k] = None /\ Wakes(k)))
  /\ UNCHANGED <<api, users, caches, caps, locals, finalized>>

(***************************************************************************)
(* Reconcile                                                               *)
(***************************************************************************)
(* An error puts the request back into the queue, whatever Requeue says.   *)
Requeue(failure) == dirty \/ failure

Done(failure) == dirty' = Requeue(failure) /\ Idle

Step(step) == at = step /\ UNCHANGED <<users, caches, caps>>
Goto(step) == at' = step /\ UNCHANGED <<next, err, dirty>>

(* An error ends the reconciliation; the status is updated first. *)
Failed == at' = "status" /\ err' = TRUE /\ UNCHANGED <<base, spec, cands, next, dirty>>

(* The finalizer, if the hook wants one, is there before any child. *)
AfterHook_ChildrenFirst(c) == "children"
AfterHook(c) == IF "finalize" \in caps /\ ~c.finalizer THEN "addFinalizer" ELSE "children"

LiveStep(c) == IF "pre-reconcile" \in caps THEN "preReconcile" ELSE AfterHook(c)

(* Get, the branch on the deletion mark and, for a live component, Render  *)
(* and PreRender.                                                          *)
Begin ==
  /\ at = "idle" /\ dirty
  /\ dirty' = FALSE
  /\ \/ /\ cache # None => cache.deleting /\ "finalize" \notin caps
        /\ UNCHANGED locals
     \/ /\ cache # None
        /\ base' = cache /\ spec' = cache.spec /\ work' = cache.status
        /\ next' = next
        /\ \/ /\ cache.deleting /\ "finalize" \in caps
              /\ at' = "finalize"
              /\ UNCHANGED <<cands, err>>
           \/ /\ ~cache.deleting /\ renderable
              /\ at' = LiveStep(cache)
              /\ cands' = [k \in KindSet |-> cache.spec]
              /\ UNCHANGED err
           \/ /\ ~cache.deleting /\ ~renderable
              /\ at' = "status" /\ err' = TRUE
              /\ UNCHANGED cands
  /\ UNCHANGED <<api, child, users, caches, caps, faults, finalized>>

(* The hook is asked before the children are reconciled.  Children it     *)
(* returns replace all candidates, an object replaces the component.       *)
PreReconcile(reply) ==
  /\ Step("preReconcile")
  /\ reply \in Replies
  /\ \/ /\ ~Proceeds(reply)
        /\ Failed
     \/ /\ Proceeds(reply)
        /\ Goto(AfterHook([base EXCEPT !.finalizer = @ /\ Object(reply) # "trimmed"]))
        /\ \/ Children(reply) # "partial" /\ UNCHANGED cands
           \/ /\ Children(reply) = "partial"
              /\ \E k \in KindSet : cands' = [cands EXCEPT ![k] = None]
        /\ \/ Object(reply) # "respec" /\ UNCHANGED spec
           \/ /\ Object(reply) = "respec" /\ base.gen < MaxGen
              /\ \E other \in Specs : other # spec /\ spec' = other
  /\ UNCHANGED <<api, child, faults, base, work, finalized>>

(* An Update is refused when the object has changed or gone since it was   *)
(* read; comparing objects stands for comparing resource versions.         *)
UpToDate == api = base

(* An Update: accepted, accepted but its answer lost, refused or failed.   *)
Write(object, Accepted) ==
  \/ UpToDate /\ api' = object /\ Accepted /\ UNCHANGED faults
  \/ UpToDate /\ api' = object /\ Done(TRUE) /\ Fault
  \/ ~UpToDate /\ Done(TRUE) /\ UNCHANGED <<api, faults>>
  \/ Done(TRUE) /\ Fault /\ UNCHANGED api

(* AddFinalizer and Update, which sends the object the hook left and gets  *)
(* the one the API stored, its status included.                            *)
WithFinalizer == [base EXCEPT !.finalizer = TRUE, !.spec = spec,
                              !.gen = IF spec = base.spec THEN @ ELSE @ + 1]

AddFinalizer_Unconditional ==
  /\ Step("addFinalizer")
  /\ \/ /\ Exists /\ api' = WithFinalizer
        /\ base' = WithFinalizer /\ work' = base.status
        /\ Goto("children")
        /\ UNCHANGED <<spec, cands>>
     \/ ~Exists /\ Done(TRUE) /\ UNCHANGED api
  /\ UNCHANGED <<child, faults, finalized>>
AddFinalizer ==
  /\ Step("addFinalizer")
  /\ Write(WithFinalizer,
           /\ base' = WithFinalizer /\ work' = base.status
           /\ Goto("children")
           /\ UNCHANGED <<spec, cands>>)
  /\ UNCHANGED <<child, finalized>>

(* Semantic.DeepEqual(desired, existing): what the desired child leaves    *)
(* out is not compared, so a shorter list equals a longer one it begins.   *)
Matches_OwnerOnly(desired, existing) == existing.owner = desired.owner
Matches(desired, existing) ==
  /\ existing.owner = desired.owner
  /\ existing.spec = desired.spec \/ <<desired.spec, existing.spec>> \in Removals

(* SetObservedGeneration, before the children.  Then what the child in     *)
(* hand says: a Service is ready when it exists.                           *)
Observed_Ahead == [work EXCEPT !.observed = base.gen + 1]
Observed == [work EXCEPT !.observed = base.gen]
Reported(k, c) == [Observed EXCEPT !.ready[k] = IsWorkload(k) => c.available]

ChildReconciled(k, c) ==
  /\ work' = Reported(k, c)
  /\ UNCHANGED <<base, spec, cands, err, dirty>>
  /\ \/ next < Len(Kinds) /\ next' = next + 1 /\ UNCHANGED at
     \/ next = Len(Kinds) /\ at' = "status" /\ UNCHANGED next

ChildFailed == work' = Observed /\ Failed

(* Create or Update of a child; the stored child keeps its own status. *)
WriteChild(k, accepted, c) ==
  \/ /\ accepted
     /\ child' = [child EXCEPT ![k] = c]
     /\ \/ ChildReconciled(k, c) /\ UNCHANGED faults
        \/ ChildFailed /\ Fault
  \/ /\ ChildFailed
     /\ (~accepted /\ UNCHANGED faults) \/ Fault
     /\ UNCHANGED child

(* reconcileDeployment, reconcileService, reconcileKnativeService. *)
ReconcileChild(k) ==
  /\ Step("children")
  /\ k = Kinds[next]
  /\ LET existing == childCache[k]
         desired == [owner |-> base.uid, spec |-> cands[k], available |-> FALSE] IN
     \/ /\ cands[k] = None
        /\ ChildFailed
        /\ UNCHANGED <<child, faults>>
     \/ /\ cands[k] # None /\ existing # None /\ Matches(desired, existing)
        /\ ChildReconciled(k, existing)
        /\ UNCHANGED <<child, faults>>
     \/ /\ cands[k] # None /\ existing # None /\ ~Matches(desired, existing)
        /\ WriteChild(k, child[k] = existing,
                      [desired EXCEPT !.available = existing.available])
     \/ /\ cands[k] # None /\ existing = None
        /\ WriteChild(k, child[k] = None, desired)
  /\ UNCHANGED <<api, finalized>>

(* Status().Update, if the status has changed. *)
UpdateStatus ==
  /\ Step("status")
  /\ \/ /\ work = base.status
        /\ Done(err)
        /\ UNCHANGED <<api, faults>>
     \/ /\ work # base.status
        /\ Write([api EXCEPT !.status = work], Done(err))
  /\ UNCHANGED <<child, finalized>>

(* The hook is asked to finalize a deleted component.  The object that it  *)
(* returns is the one whose finalizer is looked for, and removed.          *)
Finalize(reply) ==
  /\ Step("finalize")
  /\ reply \in Replies
  /\ finalized' = IF Grants(reply) THEN finalized \cup {base.uid} ELSE finalized
  /\ \/ /\ ~Proceeds(reply)
        /\ Failed
        /\ UNCHANGED work
     \/ /\ Proceeds(reply)
        /\ base.finalizer /\ Object(reply) # "trimmed"
        /\ Goto("removeFinalizer")
        /\ UNCHANGED <<base, spec, work, cands>>
     \/ /\ Proceeds(reply)
        /\ base.finalizer => Object(reply) = "trimmed"
        /\ Done(FALSE)
  /\ UNCHANGED <<api, child, faults>>

(* RemoveFinalizer and Update: nothing else holds the component. *)
RemoveFinalizer_ErrorIgnored ==
  /\ Step("removeFinalizer")
  /\ \/ UpToDate /\ api' = None /\ UNCHANGED faults
     \/ ~UpToDate /\ UNCHANGED <<api, faults>>
     \/ Fault /\ UNCHANGED api
  /\ Done(FALSE)
  /\ UNCHANGED <<child, finalized>>
RemoveFinalizer ==
  /\ Step("removeFinalizer")
  /\ Write(None, Done(FALSE))
  /\ UNCHANGED <<child, finalized>>

(***************************************************************************)
(* Specification                                                           *)
(***************************************************************************)
Environment ==
  \/ \E s \in Specs : UserCreates(s) \/ UserModifies(s)
  \/ UserDeletes \/ ReferencesChange
  \/ \E k \in KindSet : ChildChanges(k) \/ ChildCollected(k) \/ ChildLost(k)
  \/ CacheSync \/ Resync \/ Restart
  \/ \E k \in KindSet : ChildSync(k)

Reconciling ==
  \/ \E reply \in Replies : PreReconcile(reply) \/ Finalize(reply)
  \/ \E k \in KindSet : ReconcileChild(k)
  \/ AddFinalizer \/ UpdateStatus \/ RemoveFinalizer

Next == Environment \/ Begin \/ Reconciling

(* Watches deliver, the garbage collector collects, the worker works, the  *)
(* queue comes back to a request, references that resolve again and again  *)
(* are found resolved, and a hook asked again and again lets it through    *)
(* again and again.  Users, the cluster and faults owe nothing.            *)
Fairness ==
  /\ WF_vars(CacheSync)
  /\ \A k \in KindSet : WF_vars(ChildSync(k)) /\ WF_vars(ChildCollected(k))
  /\ SF_vars(Begin)
  /\ WF_vars(Reconciling)
  /\ SF_vars(PreReconcile(NoOp)) /\ SF_vars(Finalize(NoOp))

Spec == Init /\ [][Next]_vars
FairSpec == Spec /\ Fairness

(***************************************************************************)
(* Properties                                                              *)
(***************************************************************************)
(* "on deletion, the finalizer and Scoby created resources will only be    *)
(* removed when the hook's finalize call is successful"                    *)
(* (docs/reference/hooks.md:114): no component with the finalizer goes     *)
(* before the hook let that very component go (base/reconciler.go:124).    *)
FinalizedBeforeGone ==
  [][Exists /\ api.finalizer /\ (api' = None \/ api'.uid # api.uid)
       => api.uid \in finalized]_vars

(* A component gets a child only once a deletion of it would be announced  *)
(* to its hook: the finalizer is in the API, not only in the copy the      *)
(* worker holds (base/reconciler.go:161-168).                              *)
ChildrenGuarded ==
  [][\A k \in KindSet :
       child'[k] # None /\ (child[k] = None \/ child'[k].owner # child[k].owner)
         /\ "finalize" \in caps
       => Exists /\ api.uid = child'[k].owner /\ api.finalizer]_vars

(* The API holds the spec the user wrote last: no write of the reconciler, *)
(* computed from an old read or from the hook's answer, replaces it; "The  *)
(* object at the response will only apply changes to the .status element"  *)
(* (docs/reference/hooks.md:108).                                          *)
SpecIsTheUsers == Exists => api.spec = userSpec

(* Nothing stands in the way of the component, and its workloads neither   *)
(* come nor go: each change of a child makes an update from an older copy  *)
(* of it fail.                                                             *)
Settled(available) ==
  /\ Exists /\ ~api.deleting /\ renderable
  /\ \A k \in KindSet : child[k] # None /\ IsWorkload(k) => child[k].available = available[k]

(* The children end up as the component asks, whatever was lost, refused,  *)
(* deleted or left by an earlier component of the same name; as far as the *)
(* comparison sees: parameters removed from the end of a list may stay     *)
(* (formfactor/deployment/reconciler.go:206).                              *)
AsWanted(c) == Exists /\ c.owner = api.uid /\ (c.spec = api.spec \/ <<api.spec, c.spec>> \in Removals)

ChildrenConverge ==
  \A available \in [KindSet -> BOOLEAN] :
    <>[]Settled(available) => <>[](\A k \in KindSet : child[k] # None /\ AsWanted(child[k]))

(* The status then follows the children: it shows the generation and, of   *)
(* each child, whether it is ready (base/reconciler.go:96-104).            *)
StatusFollows ==
  \A available \in [KindSet -> BOOLEAN] :
    <>[]Settled(available) =>
      <>[](/\ Exists
           /\ api.status.observed = api.gen
           /\ \A k \in KindSet : api.status.ready[k] = (IsWorkload(k) => available[k]))

(* A deleted component goes, if its hook still finalizes. *)
DeletionCompletes ==
  <>[]("finalize" \in caps) => (Exists /\ api.deleting ~> ~Exists)
=============================================================================
