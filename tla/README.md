# Scoby in TLA+

Scoby is a Kubernetes controller that starts other controllers. A user creates
a `CRDRegistration` that names a CRD and a container image; Scoby then runs a
controller for that CRD which turns each of its objects, a *component*, into a
Deployment (and a Service) or a Knative service. A registration may name a
*hook*, an HTTP server that takes part in each reconciliation and in the
deletion of a component.

This directory holds models of that program, the TLC configurations that check
them on small instances, and theorems about them with proofs that TLAPS checks.
`PROJECT.json` lists the components, runs, mutants, findings, hazards, theorems
and, for each definition that stands for code, the lines it stands for.

    tlc -workers 2 -config Registry.cfg MCRegistry.tla     # a run
    tlapm RegistryProofs.tla                               # proofs, a module at a time

## The system

| Part (below `pkg/`, unless noted) | State it keeps | Operations | Correct when |
|---|---|---|---|
| process (`cmd/scoby-controller/main.go`) | signal context, manager | start; on a signal stop the manager, then wait for the registry, 5 s at most | it ends, and says so if a controller did not stop |
| controller registry (`registration/registry`) | map from registration to controller and `cancel`, a lock, `closing` | `EnsureComponentController`, `RemoveComponentController`, the shutdown goroutine | no controller is lost, doubled, or started while closing |
| builder (`component/builder`) | one goroutine and one channel per controller | `StartNewReconciler` | the controller fits its registration |
| registration reconciler (`registration/reconciler/crd`) | none: the object is read from a cache each time | `Reconcile`: finalizer, CRD, hook address, ensure, status; or remove, finalizer | controller and object live and die together, the status tells the truth |
| registration status (`apis/common/v1alpha1/status.go`) | conditions, observedGeneration | mark conditions, compute Ready | as below |
| component reconciler (`component/reconciler/base`) | none | `Reconcile`: render, hook, finalizer, children, status; or finalize | children and status follow the component; the hook hears of each deletion first |
| form factors (`component/reconciler/formfactor`) | none | compose, find, compare, create or update one or two children; report a condition for each | children end up as rendered |
| hook client (`component/reconciler/hook`) | URL, time-out, capabilities | `PreReconcile`, `Finalize` over HTTP | errors are classified, answers applied as documented |
| component status (`base/status`) | conditions in an unstructured object | sanitize, set a condition, compute Ready, observedGeneration, address, annotations | the list is complete, sorted, without duplicates; Ready summarises it |
| renderer, component object (`base/renderer`, `base/object`) | environment variables and volumes by JSON path and by name | walk the spec, apply the registration's rules, resolve references | equal specs give equal children, each rule wins where it should |
| CRD versions (`base/crd`) | none | choose a version, find what its status schema allows | the version with the highest priority |
| address resolver (`utils/resolver`), ConfigMap reader, comparison (`utils/semantic`) | none | a reference to a URL; a key to a value; desired against existing | |

Interactions. The manager's workers call the registration reconciler, which
calls the registry, which calls the builder; the builder starts a goroutine
that runs a component controller until its context ends. Every reconciler reads
objects from informer caches that lag behind the API and writes to the API,
which refuses a write from an old read. What is written comes back as a watch
event and wakes the reconciler again. Users, the garbage collector, the hook
and the controllers of the children act at any time.

What is hard: the registry's lock against a shutdown that holds it while
controllers stop; results delivered once through an unbuffered channel; time-outs
that give up on a goroutine that goes on; stale reads, refused writes, lost
answers and crashes between any two steps of a reconciliation; objects deleted
and created again under one name; finalizers and their order with what they
guard; hooks that fail, withhold or change what they were sent; and slices of
shared maps, edited in place, for the conditions. `PROJECT.json` lists these
hazards at their lines, each with the properties that watch it or with the
reason why none does.

## The modules

| Module | Models |
|---|---|
| `ControllerSet` | What the registry promises: a set of names with a controller, which grows by `Own`, shrinks by `Disown` and, once `Close`d, never grows again |
| `Registry` | The registry, main's wait for it, and the goroutines of the controllers; implements `ControllerSet` |
| `RegistryProofs` | Its theorems |
| `Registration` | The registration reconciler with API, cache, queue, users, faults and the process; built on the actions of `ControllerSet` |
| `StatusConditions` | The status manager's operations on the list of conditions, as operators |
| `ComponentStatus` | One component's conditions over its reconciliations, across changes of registration |
| `HookClient` | What a reply of a hook, or none, means to the reconciler, as operators |
| `ComponentReconciler` | One component: base reconciler, form factor, hook, API, caches, users, faults; uses `HookClient` |
| `Resolver` | References and URIs to URLs, keys of ConfigMaps to values, as operators |
| `CRDVersion` | The version a controller works with and what its status schema allows, as operators |
| `Renderer` | The walk over a spec under the rules of a registration: variables, volumes and elements of the status, as operators |
| `Workload` | The child composed of what was rendered, and its comparison with the one there is, as operators |
| `ComponentRendering` | One component whose spec, registration and references change, the controller built for it, its workload and its status; uses the four above |
| `Positions` | The elements of a list at given positions, in its order: how the two modules of operators say what the code appends in a loop |
| `MC...` | The instances TLC checks |
| `RegistrationProofs`, `ComponentStatusProofs`, `ComponentReconcilerProofs`, `ComponentRenderingProofs` | The theorems about the module of that name |
| `PositionsProofs`, `RendererProofs` | The lemmas about their operators |

`ControllerSet` ties the first two levels together: `Registry` is proved to
implement it, and `Registration` uses it instead of `Registry`, so that the
reconciler is checked against the registry's contract and not its interleavings.
An error, a time-out or a shutdown in the registry is in `Registration` the
failure of one call.

Steps. In `Registry` a step is what a goroutine does between two points where
another one can interfere: taking the lock, the look-up, the call of the builder,
the store, `cancel`, the receive, the time-out, the delete. In the two
reconcilers a step is a call to the API, the registry or the hook with what
precedes it. `at` (or `pc`) says where the worker is and the other local
variables are the locals of `Reconcile`: `base` is the object as read, `work`
the status it will write, `err` whether it returns an error. `Write` is an
Update with the four ways it can end: done, done with the answer lost, refused,
failed.

`ComponentReconciler` and `ComponentRendering` split the component reconciler
between them. The first has everything that can go wrong around a reconciliation
(stale caches, lost answers, hook, deletion) and takes a spec for what is
rendered of it. The second has what is rendered, by which rules and into which
children, with an API that answers or fails and a process that may restart between
any two steps. The spec is there a tree of maps, arrays and leaves; a path is a
sequence of keys, and `Paths` lists all paths in the order of their strings, in
which the code visits them. Rendering is one step: it reads the referenced
objects in one go and calls nothing that writes.

Names such as `Refused_Ignored` are faulty variants of the definition they precede.
No specification uses them. Each property has one (`PROJECT.json`, "mutants"):
put in place of the definition it stands before, it breaks the property, which
shows that the property watches that piece of code.

## The runs

Sizes are distinct states.

| Run | Instance | Shows |
|---|---|---|
| `registry` (221,072) | 2 names, 2 workers, 2 instances | `LiveIsTracked`, `OneLivePerName`, `EntryHasAResult`, `CleanExitMeansStopped`, `NoStartWhenClosing`, `ImplementsContract` under every interleaving of calls, failures, time-outs and shutdown; `CallsReturn` and `SignalEnds`, although controllers may hang and main, manager, worker and shutdown goroutine can wait in a circle, which only the time-outs open |
| `registration` (346,928) | 1 name, 2 creations, 2 generations, 1 fault | `NoOrphanController`, `ControllerOfThisObject`, `NothingRegresses`, `DeletionCompletes`, `EventuallyControlled`, `StatusSettles` |
| `registration_ready` | | *violated*: `ReadyMeansStarted` |
| `registration_form_factor` | | *violated*: `FormFactorDefaulted` |
| `component_status` (11,516) | Deployment with and without Service, a hook, its condition | `SuccessListsExpected`, `SuccessSummarizes`, `SanitizingKeeps` |
| `component_status_replaced` | Deployment and Knative service replace each other | *violated*: `SanitizedListsExpected` |
| `component` (2,271,304) | Deployment and Service, 2 creations, 1 fault, with and without hook | `SpecIsTheUsers`, `FinalizedBeforeGone`, `ChildrenGuarded` |
| `component_live` (142,352) | Knative service, 1 creation, 2 generations, 1 fault, a hook | `ChildrenConverge`, `StatusFollows`, `DeletionCompletes` |
| `component_respec` | a hook that changes the spec | *violated*: `SpecIsTheUsers` |
| `rendering` (16,587) | 5 registrations, 7 specs, 3 states of what they refer to, 157 lists of versions; 2 changes | `PartsStayHidden`, `SeparateElementsAvailable`, `HighestVersionServed`, `OnlyNewContentIsWritten`, `WorkloadArrives`, `WorkloadFollows`, `StatusFollows` |
| `rendering_siblings` | the same | *violated*: `ElementsAvailable` |
| `rendering_sub_elements` | the same | *violated*: `SubElementsSkipped` |

Bounds. Two names and two workers are enough for the registry, whose map entries
only meet in the lock and in `errs`; two names let one stop hang while another
fails. Two instances are one for each name, or one that outlived its entry beside
its successor; the theorems are about any number of each. Two creations are needed
for an object to meet what its namesake left; two generations for a stale read; each fault is a crash, a lost
answer or a failed call. One is what the liveness properties of a registration
leave time for; the graph then has a fault at every
step of a first attempt, of an update and of a deletion. Names of registrations only meet in the queue, so one is enough there.
The counters are guards (`MaxUid`, `MaxGen`, `MaxFaults`), not state constraints,
so the liveness runs are about the whole graph.
In `rendering` two changes are the first start of a controller and a change of
spec, registration or references at any later step, or a change before the start;
restarts with the same registration and failed calls are not counted. The
instances have each rule at least once, two rules at one path, a rule below an
element that another one claims, a key that extends its sibling, an array of
eleven items, an array of maps, a reference that is missing or of the wrong type,
a component without a spec, and a registration whose controller cannot be built. Deadlock is checked in every run.

In `component` a component has one generation (`MaxGen` is 1): there `SpecIsTheUsers`
is about the one created again under the name, and that no modification by the user
is undone is what the theorem `SpecKept` adds. Where the safety runs and the
liveness runs of the component differ in bounds it is for time; the
replies of the hook differ too (`Faithful`, `Partial` and `Respec` in
`MCComponentReconciler`). An object trimmed of its finalizers is not in
`component_live`, since `DeletionCompletes` does not survive it (see the hazard at
`hook/reconciler.go:299`), one with another spec only in `component_respec`, whose
property does not survive it, and part of the children only in those two, where
children have to converge or do not matter.

### What the violated runs say

* `registration_ready`: `reconcile.go:194` sets ControllerReady to True also
  when the controller did not start.
* `registration_form_factor`: without a form factor, which the documentation
  says is defaulted, the builder dereferences nil and the process ends, again
  after each restart.
* `component_status_replaced`: the list of conditions is not cut when exactly one
  is missing (`status.go:187`), so an old one stays, Ready is listed twice and
  the missing one is not added. The run starts with either form factor: when
  Deployment gives way to the Knative service KnativeServiceReady is missing, and
  the other way round DeploymentReady (TLC prints whichever it meets first).
* `component_respec`: the spec a hook returns is written to the API over the one
  of the user, while `docs/reference/hooks.md:108` says that only `.status` is
  taken from its answer.
* `rendering_siblings`: beside an element `cred` that a rule turns into one
  variable or volume, the element `credits` is lost, because what is below the first is
  recognised by comparing strings (`renderer.go:183`), while
  `docs/reference/registration.md:90` makes all elements available.
* `rendering_sub_elements`: with a rule to skip `group` the element `group.size`
  still becomes a variable, because a path to skip is compared with the element
  itself only (`renderer.go:196`); a map that is merely renamed leaves its elements
  in the same way (`Claims` says which rules do not). `docs/reference/registration.md:176`
  says that after a customization the default parameters of sub-elements "will be
  skipped", so `ElementsAvailable` and `SeparateElementsAvailable` ask nothing of them.

Statements of the documentation that the models contradict without a run of their
own: a registration that is modified keeps the controller it was first given
(`registry.go:118`), though `docs/why.md:40` says it can be modified. `CRDPrioritizedVersion` may
choose a version that is deprecated or not served, because it keeps the address of
the variable of its loop (`crd.go:17-19`); `HighestVersionServed` says for which lists it does not.
Two elements whose names become one variable overwrite each other, which
`SeparateElementsAvailable` leaves out (`OfNoOther`). A child of the other form
factor stays when the form factor changes, and so do the address and the elements
of the status that nothing sets any more.

### Fairness

`Registry`: goroutines that can run do, timers fire, and nobody waits for the
lock forever (`sync.RWMutex` does not starve a writer); the manager stops, for the
queue it drains is finite. Nothing is assumed of callers, the signal, or
controllers, which may hang. `Registration`: watch events are delivered, the queue
(first in, first out) returns to each name, the worker goes on, an ending process
ends, and the Deployment of Scoby restarts it. `ComponentReconciler`: the same for
events on the component and its children; garbage collection; and of the hook and
the references only that, asked again and again, they let a request through again
and again. `ComponentRendering`: the informers go on listing; the worker takes a
request; and the two calls that write, made again and again, go through again
and again, which says that neither do they always fail nor does the process
always stop before them. The first is stated as `WF_at(TakesRequest)` instead of
`WF_vars(RenderObject)`, which means the same, because only `RenderObject` moves
`at` from idle; the calls for the workload likewise as `EndsChild`, which only
`ReconcileChild` (without an error) and `ReconcileChildFails` (with one) do.
Users, the cluster and faults are never obliged to do anything, and the properties that
need quiet say so in their premise (`Startable`, `Settled`, `Quiet`).

## The proofs

Every invariant and every action property that a passing run checks is also a
theorem, for all values of the constants; `PROJECT.json` lists them under
"theorems". Each of the five modules with a behaviour has an inductive invariant
`IInv`, `InitInvariant` and `StepInvariant` (one step for each action, and below it one
for each conjunct the action can disturb), from which `Invariance` and then the
properties follow. TLC checked each `IInv` on the instance of the run before it
was proved.

### Assumptions

The theorems rest on the `ASSUME`s of the modules, which TLC evaluates on every
instance. They say that markers (`"none"`, `NoObject`, `None`) are not values; that
bounds are numbers, with room for one generation; that lists are lists, a form factor
has a child and is one of the two kinds, and the versions of a CRD rank above
`NoVersion`; and what makes `Paths`, `Names` and `Alphabet` stand for the order of
strings: each has its elements once, a path follows those it continues, and each name
a registration gives to a variable is among `Names`. Four theorems have a hypothesis
besides:

* `SpecKept`: no reply of a hook has another spec. The code writes such a spec to the
  API, which is the finding `component_respec`.
* `SuccessLists`, `ReadySummarizes` and the `TypeCorrect` of `ComponentStatus`:
  `Settling(Registrations)`. `SanitizedExactly` shows that this is the boundary:
  sanitizing a list gives what its comment promises if *and only if* the list `Settles`,
  that is unless it has a type that is not expected and misses exactly one that is
  (`status.go:187`). `MCComponentStatus` has TLC evaluate that the registrations of
  `component_status` settle and those of `component_status_replaced` do not.
  `ExpectedKept` needs no hypothesis: what sanitizing keeps, it keeps as it was.

### Registry

None of its properties is inductive. `LiveIsTracked` counts a controller as live
while its context is not cancelled; but a store is safe only because the worker
found the name free *and still holds the lock*, and because the registry was not
closing when it looked. `IInv` therefore adds

* `LockInv`: the lock is held by exactly those inside its critical sections;
* `ClosingInv`: signal, `closing` and the phase of the shutdown go together, and no
  call is past its check once the registry is closing;
* `MapInv`: an entry was started for the name it is held for;
* `CallInv`: between two steps of a call its name is still free, or its entry still
  there and cancelled;
* `TrackInv`: `LiveIsTracked` for contexts that `cancel` has not ended (the
  signal ends all at once and is irrelevant to the map);
* `StopInv`: one stopper for each entry, and a stopper that is done saw a clean
  stop or left an error, which is what `CleanExitMeansStopped` needs although
  appends to `errs` may overwrite each other.

For the refinement (`Spec => ImplementsContract`) the steps are grouped: a start owns
(`StartOwns`), a cancel disowns (`CancelDisowns`), the signal closes, and all others
stutter. From the other side `ContractKept` proves that `Registration`, in the life
of a process, does to the set of controllers only what `ControllerSet` allows.

### Registration and ComponentReconciler

The argument of both is about old copies. What the cache and the worker hold was in
the API once (`CacheInv`, `WorkerInv`), and within the life of an object the mark of
its deletion and the finalizer are only set. A copy with the finalizer and without the
mark therefore proves that the object is still there and still held (`Held`): only
this worker takes the finalizer away, after it has read the mark, and its cache never
turns back behind what it has read. From this follow, in `Registration`, that each
controller that runs belongs to an object that is there, held, and of the uid it was
started for (`ControllerInv`: `NoOrphan`, `OfThisObject`), and that no write undoes a
later one (`NoRegress`); in `ComponentReconciler`, that a component goes only after
its hook let it go (`FinalizedFirst`) and that no child is created before the
finalizer is stored (`Guarded`). `SpecKept` adds that the worker's spec is the one it
read (`SpecInv`).

### ComponentStatus

`IInv` says of the list in hand which types it has: those the registration expects,
and after the hook perhaps one of the hook's (`Listings`), each once (`Once`). The
work is in the operators: that sorting keeps what is there, that of an in-place
deletion the kept elements come first and what is cut off is the tail, and what
`Completed` adds to a list whose cells are shared with the one being edited.

### ComponentRendering

`RenderedInv` ties the object in hand to the spec as it was read, the running
controller's rules and some state of what they refer to; `WorkloadInv` ties each
workload in the API to some registration, spec and state it was composed of. On
them rest

* `PartsHidden` and `SeparateAvailable`: an element comes before its parts in `Paths`,
  which makes the walk avoid them (`PartsFollow`, `MadeFacts`), and the last one made of
  a name is the variable of that name (`SeparateVariable`); ten items are in order
  (`TenInOrder`);
* `OnlyNewContent`: sorted variables with equal sets are equal lists (`SortedOnce`);
* `Arrives`: if the comparison finds a workload equal, it runs what was rendered,
  *whatever it had been composed of before* (`EqualRuns`), provided nothing rendered is
  empty (`Definite`), because `DeepDerivative` takes an empty string for any;
* `HighestVersion`, for lists that end with an available version.

### What only TLC checks

The liveness properties `CallsReturn`, `SignalEnds`, `DeletionCompletes` (of both
reconcilers), `EventuallyControlled`, `StatusSettles`, `ChildrenConverge`,
`StatusFollows` (of both) and `WorkloadFollows`: fairness and ENABLED are beyond the
prover. What rendering
writes to the status is folded over a list and would need an induction, which the
prover cannot do either. Where the code appends in a loop, `Renderer` and
`StatusConditions` use `Positions` (the n-th number of a set of positions) and not the
recursive operators of the libraries, for the same reason.

## What the models leave out

* Time. A timer may fire at any moment of the wait it bounds.
  `lastTransitionTime` is left out: it makes each status of a registration differ
  from the stored one, so each reconciliation writes and the write wakes the next;
  the models have that as `Resync`.
* In `Registry`, the racing appends to `errs` may lose each other's elements, as
  interleaved reads and writes of the slice do; a torn slice header is not modelled.
  A second SIGTERM, which ends the process at once, is not modelled.
* In `Registration` the CRD and the hook's address are read as they are, and the
  cache is complete after a restart. Nobody removes a finalizer by hand.
* In `ComponentReconciler` there is one component, and nothing else owns children
  of its name. A spec stands for what is rendered from it, which
  `ComponentRendering` has. Comparing objects stands for
  comparing resource versions, which allows a write the API would refuse if an
  object had changed and changed back. Hook errors are permanent or not (`HookClient`), and
  both are retried, whatever `docs/reference/hooks.md:100` says of the first, because
  controller-runtime retries whatever returns an error; no run is about that. A
  condition is whether it is True; the list of conditions, and a status set by the
  hook, are in `ComponentStatus`.
* A child the hook changes is not told from the one rendered. Annotations of the
  status, which only a hook writes, are not modelled.
* In `Renderer`, keys of a spec with a character that sorts before the dot or that
  contain one (paths are split at dots), arrays within arrays and arrays of more than
  a hundred items. A value written as JSON is the node it is written from, a number
  the text it is printed as, a URL the record of its parts. Variables that refer to
  a field of the pod are sources like any other. A registration adds elements
  below `status` only, which nothing in the code ensures.
* In `ComponentRendering`, the Service of a Deployment and what never changes in a
  child (image, labels, ports); a Knative service has its address as soon as it is
  there; a write of the status is refused when the spec has changed since it was
  read, and nothing else writes to the component.
* Logging, HTTP and JSON, generated code, and what of the resource builders and the
  API types is copied without being looked at.
* The sample hook and the manifest cleaner are programs of their own; the
  configuration is read once.

## The plan

Done: the modules above, and a theorem for each invariant and action property of the
passing runs.

Next, in this order:

1. A controller whose Start failed by itself and stays in the map
   (`registry.go:120`), in a composition of `Registry` and `Registration`.
2. Two components whose children have the same name
   (`formfactor/deployment/reconciler.go:284`), and a hook that trims the finalizers
   (`hook/reconciler.go:299`), as statements of what keeps them apart.
3. The order of removal and finalizer, which `Registration` and `ComponentReconciler`
   share, as one abstract specification that both implement.
4. What the documentation says of permanent hook errors
   (`docs/reference/hooks.md:100`).
