---------------------------- MODULE Registration ----------------------------
(***************************************************************************)
(* The reconciler of CRD registrations                                     *)
(* (pkg/registration/reconciler/crd/reconcile.go) between the Kubernetes   *)
(* API, whose objects it reads through a cache that lags, and the          *)
(* component registry, seen through its contract ControllerSet, from which *)
(* Names, owned and open come.                                             *)
(*                                                                         *)
(* One worker takes names from the workqueue (MaxConcurrentReconciles is   *)
(* 1 by default).  Each call it makes to the API or to the registry is a   *)
(* step of its own, between which users, the cache, failures and the end   *)
(* of the process interleave.  Updates carry the resource version of the   *)
(* object they were computed from, so they fail unless the API still holds *)
(* that object.  LastTransitionTime is left out: it makes each status      *)
(* differ from the stored one, so Status().Update is always called, and a  *)
(* write that moves nothing else shows as the resync or the failed call it *)
(* may cause.                                                              *)
(*                                                                         *)
(* The conditions are three fields: the types never change, so the list    *)
(* the status manager keeps is either empty or complete (its handling of   *)
(* lists, the same as the components', is in StatusConditions).            *)
(***************************************************************************)
EXTENDS Naturals, ControllerSet

CONSTANTS
  Specs,        \* specs a user may write: [hook: BOOLEAN, formFactor: BOOLEAN]
  NoObject,     \* there is no object of that name
  MaxUid,       \* bound: times an object of a name is created
  MaxGen,       \* bound: generations of an object
  MaxFaults     \* bound: failed calls and ends of the process

ASSUME RegistrationAssumption ==
  /\ Specs \subseteq [hook : BOOLEAN, formFactor : BOOLEAN]
  /\ MaxUid \in Nat /\ MaxGen \in Nat \ {0} /\ MaxFaults \in Nat

VARIABLES
  api,          \* the API server's object of each name
  cache,        \* the informer's copy of it
  uids,         \* objects created so far, of each name
  crdExists,    \* the registered CRD is there
  resolvable,   \* the hook's address resolves
  faults,       \* faults so far
  up,           \* the process runs
  dirty,        \* the workqueue
  at,           \* where the worker is in Reconcile
  cur,          \* req.Name
  base,         \* existing: the object as read from the cache
  work,         \* the status of cr, its deep copy
  err,          \* err of reconcileRegistration
  config        \* the registration each controller was started for

clusterVars == <<api, uids, crdExists, resolvable>>
locals      == <<at, cur, base, work, err>>
vars == <<clusterVars, cache, faults, up, dirty, locals, config, ctlVars>>

Condition == {"Unknown", "True", "False"}
Status == [observed : 0..MaxGen, crdExists : Condition, controllerReady : Condition,
           ready : Condition]
NoStatus == [observed |-> 0, crdExists |-> "Unknown", controllerReady |-> "Unknown",
             ready |-> "Unknown"]
Object == [uid : 1..MaxUid, gen : 1..MaxGen, spec : Specs, finalizer : BOOLEAN,
           deleting : BOOLEAN, status : Status]

ASSUME NoObjectAssumption == NoObject \notin Object

NoConfig == [uid |-> 0, gen |-> 0]

TypeOK ==
  /\ api \in [Names -> Object \cup {NoObject}]
  /\ cache \in [Names -> Object \cup {NoObject}]
  /\ uids \in [Names -> 0..MaxUid]
  /\ crdExists \in BOOLEAN /\ resolvable \in BOOLEAN
  /\ faults \in 0..MaxFaults
  /\ up \in BOOLEAN
  /\ dirty \in SUBSET Names
  /\ at \in {"idle", "addFinalizer", "lookup", "hook", "ensure", "status",
             "remove", "removeFinalizer"}
  /\ cur \in Names
  /\ base \in Object \cup {NoObject}
  /\ work \in Status
  /\ err \in BOOLEAN
  /\ config \in [Names -> [uid : 0..MaxUid, gen : 0..MaxGen]]
  /\ ControllerSetTypeOK

Init ==
  /\ api = [n \in Names |-> NoObject]
  /\ cache = api
  /\ uids = [n \in Names |-> 0]
  /\ crdExists \in BOOLEAN /\ resolvable \in BOOLEAN
  /\ faults = 0
  /\ up = TRUE
  /\ dirty = {}
  /\ at = "idle" /\ cur \in Names /\ base = NoObject /\ work = NoStatus /\ err = FALSE
  /\ config = [n \in Names |-> NoConfig]
  /\ ControllerSetInit

(***************************************************************************)
(* Users and the cluster                                                   *)
(***************************************************************************)
UserUnchanged ==
  UNCHANGED <<cache, crdExists, resolvable, faults, up, dirty, locals, config, ctlVars>>

Exists(n) == api[n] # NoObject

UserCreates(n, spec) ==
  /\ ~Exists(n)
  /\ uids[n] < MaxUid
  /\ uids' = [uids EXCEPT ![n] = @ + 1]
  /\ api' = [api EXCEPT ![n] = [uid |-> uids[n] + 1, gen |-> 1, spec |-> spec,
                                finalizer |-> FALSE, deleting |-> FALSE, status |-> NoStatus]]
  /\ UserUnchanged

UserModifies(n, spec) ==
  /\ Exists(n)
  /\ api[n].gen < MaxGen
  /\ spec # api[n].spec
  /\ api' = [api EXCEPT ![n].spec = spec, ![n].gen = @ + 1]
  /\ UNCHANGED uids
  /\ UserUnchanged

(* A finalizer turns the deletion into a mark. *)
UserDeletes(n) ==
  /\ Exists(n)
  /\ ~api[n].deleting
  /\ \/ api[n].finalizer /\ api' = [api EXCEPT ![n].deleting = TRUE]
     \/ ~api[n].finalizer /\ api' = [api EXCEPT ![n] = NoObject]
  /\ UNCHANGED uids
  /\ UserUnchanged

ClusterChanges ==
  /\ \/ crdExists' = ~crdExists /\ UNCHANGED resolvable
     \/ resolvable' = ~resolvable /\ UNCHANGED crdExists
  /\ UNCHANGED <<api, uids, cache, faults, up, dirty, locals, config, ctlVars>>

(***************************************************************************)
(* Informer, process                                                       *)
(***************************************************************************)
CacheSync(n) ==
  /\ up
  /\ cache[n] # api[n]
  /\ cache' = [cache EXCEPT ![n] = api[n]]
  /\ dirty' = dirty \cup {n}
  /\ UNCHANGED <<clusterVars, faults, up, locals, config, ctlVars>>

(* The informer's periodic resync. *)
Resync(n) ==
  /\ up
  /\ cache[n] # NoObject
  /\ dirty' = dirty \cup {n}
  /\ UNCHANGED <<clusterVars, cache, faults, up, locals, config, ctlVars>>

Fault == faults < MaxFaults /\ faults' = faults + 1
Idle  == /\ at' = "idle"
         /\ base' = NoObject /\ work' = NoStatus /\ err' = FALSE
         /\ UNCHANGED cur

(* All the process holds is lost, and its controllers end with it. *)
Die ==
  /\ up' = FALSE
  /\ open' = FALSE
  /\ owned' = {}
  /\ config' = [n \in Names |-> NoConfig]
  /\ dirty' = {}
  /\ cache' = [n \in Names |-> NoObject]
  /\ Idle
  /\ UNCHANGED clusterVars

Crash == up /\ Fault /\ Die

(* SIGTERM; the worker goes on draining its queue until it exits. *)
Signal ==
  /\ up
  /\ Fault
  /\ Close
  /\ config' = [n \in Names |-> NoConfig]
  /\ UNCHANGED <<clusterVars, cache, up, dirty, locals>>

Exit ==
  /\ up
  /\ ~open
  /\ Die
  /\ UNCHANGED faults

(* A new process lists the objects before it works on them. *)
Restart ==
  /\ ~up
  /\ up' = TRUE
  /\ open' = TRUE
  /\ cache' = api
  /\ dirty' = {n \in Names : Exists(n)}
  /\ UNCHANGED <<clusterVars, faults, locals, config, owned>>

(***************************************************************************)
(* Reconcile                                                               *)
(*                                                                         *)
(* A name ending in a suffix after _ is a faulty variant of the definition *)
(* that follows it, which no specification uses; the runs on a variant     *)
(* show that the properties notice the fault.                              *)
(***************************************************************************)
(* The end of Reconcile: an error puts the request back into the queue. *)
Requeue(failure) == IF failure THEN dirty \cup {cur} ELSE dirty

Done(failure) == dirty' = Requeue(failure) /\ Idle

Goto(step) == at' = step /\ UNCHANGED <<cur, base, dirty>>

FirstStep_FinalizerLater(o) == IF o.deleting THEN "remove" ELSE "lookup"
FirstStep(o) ==
  CASE o.deleting                    -> "remove"
    [] ~o.deleting /\ ~o.finalizer   -> "addFinalizer"
    [] ~o.deleting /\ o.finalizer    -> "lookup"

(* sanitizeConditions: Ready is true if the others are, false otherwise. *)
Sanitized(status) ==
  [status EXCEPT !.ready = IF status.crdExists = "True" /\ status.controllerReady = "True"
                             THEN "True" ELSE "False"]

(* MarkConditionTrue and MarkConditionFalse. *)
CRDExists(value)       == Sanitized([work EXCEPT !.crdExists = value])
ControllerReady(value) == Sanitized([work EXCEPT !.controllerReady = value])

(* GetStatusManager and SetObservedGeneration. *)
NewStatus_Ahead(o) == [Sanitized(o.status) EXCEPT !.observed = o.gen + 1]
NewStatus(o) == [Sanitized(o.status) EXCEPT !.observed = o.gen]

(* Get, and the branch on what it returns; a missing object ends there. *)
Begin(n) ==
  /\ up /\ at = "idle"
  /\ n \in dirty
  /\ dirty' = dirty \ {n}
  /\ cur' = n
  /\ \/ /\ cache[n] = NoObject
        /\ UNCHANGED <<at, base, work, err>>
     \/ /\ cache[n] # NoObject
        /\ at' = FirstStep(cache[n])
        /\ base' = cache[n]
        /\ work' = NewStatus(cache[n])
        /\ err' = FALSE
  /\ UNCHANGED <<clusterVars, cache, faults, up, config, ctlVars>>

Step(step) == up /\ at = step
WorkerUnchanged == UNCHANGED <<uids, crdExists, resolvable, cache, up>>

(* An Update is refused when the object has changed or gone since it was   *)
(* read.  Comparing objects stands for comparing resource versions: only   *)
(* this worker writes status and finalizer, the user's writes move the     *)
(* generation, the mark or the uid, none of which comes back.              *)
UpToDate == api[cur] = base

Refused_Ignored(failure) == Done(failure)
Refused(failure) == Done(TRUE)

(* An Update to object: accepted, accepted but its answer lost, refused or *)
(* failed.  failure is what Reconcile returns if the Update succeeds.      *)
Write(object, failure) ==
  /\ \/ /\ UpToDate
        /\ api' = [api EXCEPT ![cur] = object]
        /\ \/ Done(failure) /\ UNCHANGED faults
           \/ Done(TRUE) /\ Fault
     \/ /\ Refused(failure)
        /\ (~UpToDate /\ UNCHANGED faults) \/ Fault
        /\ UNCHANGED api
  /\ WorkerUnchanged

(* AddFinalizer and Update; the update triggers the next reconciliation. *)
AddFinalizer_Unconditional ==
  /\ Step("addFinalizer")
  /\ \/ Exists(cur) /\ api' = [api EXCEPT ![cur] = [base EXCEPT !.finalizer = TRUE]] /\ Done(FALSE)
     \/ ~Exists(cur) /\ Done(TRUE) /\ UNCHANGED api
  /\ WorkerUnchanged
  /\ UNCHANGED <<faults, config, ctlVars>>
AddFinalizer ==
  /\ Step("addFinalizer")
  /\ Write([base EXCEPT !.finalizer = TRUE], FALSE)
  /\ UNCHANGED <<config, ctlVars>>

(* reconcileRegistration returns an error; the status is updated first. *)
Failed_Swallowed == err' = FALSE /\ Goto("status")
Failed == err' = TRUE /\ Goto("status")

(* Get of the CRD. *)
LookupCRD ==
  /\ Step("lookup")
  /\ \/ /\ crdExists
        /\ work' = CRDExists("True")
        /\ Goto(IF base.spec.hook THEN "hook" ELSE "ensure")
        /\ UNCHANGED err
     \/ /\ ~crdExists
        /\ work' = CRDExists("False")
        /\ Failed
  /\ WorkerUnchanged
  /\ UNCHANGED <<api, faults, config, ctlVars>>

(* ResolveDestination of the hook's address. *)
ResolveHook ==
  /\ Step("hook")
  /\ \/ /\ resolvable
        /\ Goto("ensure")
        /\ UNCHANGED <<work, err>>
     \/ /\ ~resolvable
        /\ work' = ControllerReady("False")
        /\ Failed
  /\ WorkerUnchanged
  /\ UNCHANGED <<api, faults, config, ctlVars>>

(* After EnsureComponentController: the condition is marked False on error *)
(* and then, in both cases, True.                                          *)
Ensured(failure) ==
  /\ work' = ControllerReady("True")
  /\ err' = failure
  /\ Goto("status")

EnsureController ==
  /\ Step("ensure")
  /\ \/ (* already there *)
        /\ open /\ cur \in owned
        /\ Ensured(FALSE)
        /\ UNCHANGED <<faults, config, ctlVars>>
     \/ (* StartNewReconciler *)
        /\ base.spec.formFactor
        /\ Own(cur)
        /\ config' = [config EXCEPT ![cur] = [uid |-> base.uid, gen |-> base.gen]]
        /\ Ensured(FALSE)
        /\ UNCHANGED faults
     \/ (* StartNewReconciler fails *)
        /\ open /\ cur \notin owned
        /\ base.spec.formFactor
        /\ Fault
        /\ Ensured(TRUE)
        /\ UNCHANGED <<config, ctlVars>>
     \/ (* the registry is closing *)
        /\ ~open
        /\ Ensured(TRUE)
        /\ UNCHANGED <<faults, config, ctlVars>>
  /\ WorkerUnchanged
  /\ UNCHANGED api

(* StartNewReconciler reads wkl.FormFactor.KnativeService: a registration  *)
(* without a form factor is a nil pointer, and the panic ends the process. *)
EnsurePanics ==
  /\ Step("ensure")
  /\ open /\ cur \notin owned
  /\ ~base.spec.formFactor
  /\ Die
  /\ UNCHANGED faults

(* Status().Update, whose error replaces the one of reconcileRegistration. *)
UpdateStatus ==
  /\ Step("status")
  /\ Write([api[cur] EXCEPT !.status = work], err)
  /\ UNCHANGED <<config, ctlVars>>

(* RemoveComponentController, which does nothing once closing. *)
RemoveOwned_Skipped(n) == UNCHANGED <<config, ctlVars>>
RemoveOwned(n) ==
  \/ Disown(n) /\ config' = [config EXCEPT ![n] = NoConfig]
  \/ n \notin owned /\ UNCHANGED <<config, ctlVars>>

RemoveController ==
  /\ Step("remove")
  /\ RemoveOwned(cur)
  /\ \/ base.finalizer /\ Goto("removeFinalizer") /\ UNCHANGED <<work, err>>
     \/ ~base.finalizer /\ Done(FALSE)
  /\ WorkerUnchanged
  /\ UNCHANGED <<api, faults>>

(* RemoveFinalizer and Update: nothing else holds the object. *)
RemoveFinalizer ==
  /\ Step("removeFinalizer")
  /\ Write(NoObject, FALSE)
  /\ UNCHANGED <<config, ctlVars>>

(***************************************************************************)
(* Specification                                                           *)
(***************************************************************************)
Users ==
  \/ \E n \in Names, spec \in Specs : UserCreates(n, spec) \/ UserModifies(n, spec)
  \/ \E n \in Names : UserDeletes(n)
  \/ ClusterChanges

Reconciling ==
  \/ AddFinalizer \/ LookupCRD \/ ResolveHook \/ EnsureController \/ EnsurePanics
  \/ UpdateStatus \/ RemoveController \/ RemoveFinalizer

Next ==
  \/ Users
  \/ \E n \in Names : CacheSync(n) \/ Resync(n) \/ Begin(n)
  \/ Reconciling
  \/ Crash \/ Signal \/ Exit \/ Restart

(* The watch delivers, the worker works, the queue is first in first out   *)
(* (so no name is passed over forever), and the Deployment restarts the    *)
(* process.  Users, the cluster and faults owe nothing.                    *)
Fairness ==
  /\ \A n \in Names : WF_vars(CacheSync(n)) /\ SF_vars(Begin(n))
  /\ WF_vars(Reconciling)
  /\ WF_vars(Exit)
  /\ WF_vars(Restart)

Spec == Init /\ [][Next]_vars
FairSpec == Spec /\ Fairness

(***************************************************************************)
(* Properties                                                              *)
(***************************************************************************)
(* A controller that runs has its registration, held by the finalizer: no  *)
(* crash, stale read or failed update between the finalizer, the start,    *)
(* the removal and the deletion lets the object go while its controller    *)
(* runs (reconcile.go:125-149).                                            *)
NoOrphanController == \A n \in owned : Exists(n) /\ api[n].finalizer

(* A write computed from an old read never undoes a later one: within the  *)
(* life of an object no modification of the user is reverted, no deletion  *)
(* is forgotten, no finalizer is dropped and observedGeneration does not   *)
(* go back (reconcile.go:117,143).                                         *)
NothingRegresses ==
  [][\A n \in Names :
       Exists(n) /\ api'[n] # NoObject /\ api'[n].uid = api[n].uid =>
         /\ api'[n].gen >= api[n].gen
         /\ api[n].deleting => api'[n].deleting
         /\ api[n].finalizer => api'[n].finalizer
         /\ api'[n].status.observed >= api[n].status.observed]_vars

(* Whatever runs was started for the object the API holds now, not for one *)
(* of the same name deleted before.                                        *)
ControllerOfThisObject == \A n \in owned : Exists(n) => config[n].uid = api[n].uid

(* The deletion of a registration is never stuck on its finalizer. *)
DeletionCompletes ==
  \A n \in Names : Exists(n) /\ api[n].deleting ~> ~Exists(n)

(* The registration, its CRD and its hook's address are there; and no      *)
(* registration lacks a form factor.                                       *)
Startable(n) ==
  /\ Exists(n) /\ ~api[n].deleting
  /\ crdExists /\ resolvable
  /\ \A m \in Names : Exists(m) => api[m].spec.formFactor

(* A registration that can be started is, and stays so, after any lost     *)
(* update, failed call, missing CRD or crash.                              *)
EventuallyControlled ==
  \A n \in Names : <>[]Startable(n) => <>[](n \in owned)

(* Its status then catches up with its generation and shows it. *)
StatusSettles ==
  \A n \in Names : <>[]Startable(n) =>
    <>[](Exists(n) /\ api[n].status = [observed |-> api[n].gen, crdExists |-> "True",
                                       controllerReady |-> "True", ready |-> "True"])

(* "Make sure the CRD controller is running" (reconcile.go:187): the       *)
(* condition ControllerReady is not raised when the start has failed.      *)
ReadyMeansStarted ==
  [][\A n \in Names :
       Exists(n) /\ api'[n] # NoObject /\ open
         /\ api[n].status.controllerReady # "True" /\ api'[n].status.controllerReady = "True"
       => n \in owned]_vars

(* "When no spec.workload.formFactor element is informed, Deployment is    *)
(* defaulted" (docs/reference/registration.md:84): a registration gets its *)
(* controller whether it names a form factor or not.                       *)
FormFactorDefaulted ==
  \A n \in Names :
    <>[](Exists(n) /\ ~api[n].deleting /\ crdExists /\ resolvable) => <>[](n \in owned)
=============================================================================
