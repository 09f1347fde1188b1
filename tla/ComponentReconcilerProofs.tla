---------------------- MODULE ComponentReconcilerProofs ----------------------
(***************************************************************************)
(* The safety properties of ComponentReconciler, for every set of specs,   *)
(* children, hooks and replies, and all bounds.                            *)
(*                                                                         *)
(* As in RegistrationProofs the argument is about old copies: what the     *)
(* cache holds is a component that was in the API, what the worker holds   *)
(* is no newer, and a copy with the finalizer but without the mark means   *)
(* that the component is still there.                                      *)
(***************************************************************************)
EXTENDS ComponentReconciler, TLAPS

(* A component at most as new as another one. *)
NotNewer(o, p) == o.uid < p.uid \/ (o.uid = p.uid /\ (o.deleting => p.deleting))

(* The component is held by its finalizer. *)
Held(uid) == Exists /\ api.uid = uid /\ api.finalizer

(* The component is the last one created. *)
ApiInv == Exists => api.uid = uids

(* The cache holds an old copy of it, or of one before it. *)
CacheInv ==
  cache # None =>
    /\ cache.uid <= uids
    /\ cache.status.observed <= cache.gen
    /\ Exists => NotNewer(cache, api)
    /\ cache.finalizer /\ ~cache.deleting => Held(cache.uid)

(* The worker holds a copy no newer than the cache's, and knows at each    *)
(* step what it has seen of it, done to it and asked the hook.             *)
WorkerInv ==
  /\ at # "idle" =>
       /\ base # None /\ base.uid <= uids
       /\ Exists => NotNewer(base, api)
       /\ cache # None => NotNewer(base, cache)
       /\ work.observed <= base.gen
  /\ at \in {"preReconcile", "addFinalizer", "children"} =>
       /\ ~base.deleting
       /\ base.finalizer => Held(base.uid)
  /\ at \in {"preReconcile", "addFinalizer"} => spec # None
  /\ at = "preReconcile" => spec = base.spec
  /\ at = "addFinalizer" /\ spec # base.spec => base.gen < MaxGen
  /\ at = "children" /\ "finalize" \in caps => base.finalizer
  /\ at \in {"finalize", "removeFinalizer"} => base.deleting
  /\ at = "removeFinalizer" => base.uid \in finalized

IInv == TypeOK /\ ApiInv /\ CacheInv /\ WorkerInv

(* Without a hook that sends another spec, the worker has the one it read. *)
SpecInv ==
  /\ SpecIsTheUsers
  /\ at \in {"preReconcile", "addFinalizer"} => spec = base.spec
-----------------------------------------------------------------------------
(* A form factor has a first child. *)
LEMMA KindFacts ==
  /\ Len(Kinds) \in Nat \ {0}
  /\ \A i \in 1..Len(Kinds) : Kinds[i] \in KindSet
  BY ComponentReconcilerAssumption DEF KindSet

(* The parts of a component have their types. *)
LEMMA ComponentFacts ==
  \A o \in Component : /\ o.uid \in 1..MaxUid /\ o.gen \in 1..MaxGen /\ o.status.observed \in Nat
                       /\ o.deleting \in BOOLEAN /\ o.finalizer \in BOOLEAN
                       /\ o.spec \in Specs /\ o.status \in Status
  BY ComponentReconcilerAssumption DEF Component, Status

(* What the operations make of a component. *)
LEMMA ComponentTypes ==
  ASSUME NEW o \in Component
  PROVE  /\ [o EXCEPT !.deleting = TRUE] \in Component
         /\ \A status \in Status : [o EXCEPT !.status = status] \in Component
         /\ \A s \in Specs : o.gen < MaxGen =>
              [o EXCEPT !.spec = s, !.gen = @ + 1] \in Component
<1>1. /\ [o EXCEPT !.deleting = TRUE] \in Component
      /\ \A status \in Status : [o EXCEPT !.status = status] \in Component
  BY DEF Component
<1>2. ASSUME NEW s \in Specs, o.gen < MaxGen
      PROVE  [o EXCEPT !.spec = s, !.gen = @ + 1] \in Component
  <2>1. o.gen + 1 \in 1..MaxGen
    BY <1>2, ComponentReconcilerAssumption DEF Component
  <2> QED
    BY <2>1 DEF Component
<1> QED
  BY <1>1, <1>2

(* The component sent with its finalizer is newer only if its spec is. *)
LEMMA WithFinalizerType ==
  ASSUME base \in Component, spec \in Specs, spec # base.spec => base.gen < MaxGen
  PROVE  /\ WithFinalizer \in Component
         /\ WithFinalizer.finalizer /\ WithFinalizer.deleting = base.deleting
         /\ WithFinalizer.uid = base.uid /\ WithFinalizer.status = base.status
         /\ WithFinalizer.spec = spec /\ WithFinalizer.gen >= base.gen
<1> DEFINE g == IF spec = base.spec THEN base.gen ELSE base.gen + 1
<1>1. g \in 1..MaxGen /\ g >= base.gen
  BY ComponentReconcilerAssumption DEF Component
<1>2. WithFinalizer = [base EXCEPT !.finalizer = TRUE, !.spec = spec, !.gen = g]
  BY DEF WithFinalizer
<1> HIDE DEF g
<1> QED
  BY <1>1, <1>2 DEF Component

(* What the worker makes of the status. *)
LEMMA StatusTypes ==
  ASSUME base \in Component, work \in Status
  PROVE  /\ Observed \in Status /\ Observed.observed = base.gen
         /\ \A k \in KindSet, c \in Child : /\ Reported(k, c) \in Status
                                            /\ Reported(k, c).observed = base.gen
<1>1. base.gen \in 0..MaxGen
  BY ComponentReconcilerAssumption DEF Component
<1>2. Observed \in Status /\ Observed.observed = base.gen
  BY <1>1 DEF Observed, Status
<1>3. ASSUME NEW k \in KindSet, NEW c \in Child
      PROVE  Reported(k, c) \in Status /\ Reported(k, c).observed = base.gen
  <2>1. (IsWorkload(k) => c.available) \in BOOLEAN
    OBVIOUS
  <2> QED
    BY <1>2, <2>1 DEF Reported, Status
<1> QED
  BY <1>2, <1>3

(* What the locals hold between two reconciliations has their types. *)
LEMMA DefaultTypes ==
  NoStatus \in Status /\ NoCandidates \in [KindSet -> Specs \cup {None}]
  BY ComponentReconcilerAssumption DEF NoStatus, Status, NoCandidates

(* The locals of the worker have their types. *)
LocalsTypeOK ==
  /\ at \in {"idle", "preReconcile", "addFinalizer", "children", "status", "finalize",
             "removeFinalizer"}
  /\ base \in Component \cup {None}
  /\ spec \in Specs \cup {None} /\ work \in Status
  /\ cands \in [KindSet -> Specs \cup {None}] /\ next \in 1..Len(Kinds)
  /\ err \in BOOLEAN

(* A worker without a request holds nothing. *)
LEMMA IdleTypes == ASSUME Idle PROVE LocalsTypeOK'
<1>1. 1 \in 1..Len(Kinds)
  BY KindFacts
<1> QED
  BY <1>1, DefaultTypes DEF Idle, LocalsTypeOK

(* Ending a reconciliation, with or without asking for another one. *)
LEMMA DoneTypes ==
  ASSUME dirty \in BOOLEAN, NEW failure \in BOOLEAN, Done(failure)
  PROVE  LocalsTypeOK' /\ dirty' \in BOOLEAN
  BY IdleTypes DEF Done, Requeue

(* Faults are counted up to their bound. *)
LEMMA FaultType ==
  ASSUME faults \in 0..MaxFaults, Fault \/ UNCHANGED faults
  PROVE  faults' \in 0..MaxFaults
  BY ComponentReconcilerAssumption DEF Fault

(* A child that is written or found lets the worker go on, or fail. *)
Reporting(k) == ChildFailed \/ \E c \in Child : ChildReconciled(k, c)

(* After a child the worker still holds the component as it was read. *)
LEMMA ChildTypes ==
  ASSUME LocalsTypeOK, base # None, NEW k \in KindSet, Reporting(k)
  PROVE  /\ LocalsTypeOK' /\ dirty' = dirty
         /\ UNCHANGED <<base, spec>> /\ work'.observed = base.gen
         /\ at' = "status" \/ at' = at
<1>1. base \in Component /\ work \in Status
  BY DEF LocalsTypeOK
<1>2. next < Len(Kinds) => next + 1 \in 1..Len(Kinds)
  BY KindFacts DEF LocalsTypeOK
<1> QED
  BY <1>1, <1>2, StatusTypes DEF Reporting, ChildReconciled, ChildFailed, Failed, LocalsTypeOK

(* What ReconcileChild does to the children, and to the rest. *)
LEMMA ReconcileChildEnds ==
  ASSUME TypeOK, base # None, NEW k \in KindSet, ReconcileChild(k)
  PROVE  /\ Reporting(k)
         /\ Fault \/ UNCHANGED faults
         /\ \/ child' = child
            \/ /\ childCache[k] = child[k] \/ child[k] = None
               /\ \E c \in Child : c.owner = base.uid /\ child' = [child EXCEPT ![k] = c]
<1> DEFINE existing == childCache[k]
           desired == [owner |-> base.uid, spec |-> cands[k], available |-> FALSE]
           updated == [desired EXCEPT !.available = existing.available]
<1> USE DEF TypeOK
<1>1. base.uid \in 1..MaxUid
  BY ComponentFacts
<1>2. cands[k] # None => desired \in Child /\ desired.owner = base.uid
  BY <1>1 DEF Child
<1>3. existing # None => existing \in Child
  OBVIOUS
<1>4. cands[k] # None /\ existing # None => updated \in Child /\ updated.owner = base.uid
  BY <1>2, <1>3 DEF Child
<1>5. ASSUME NEW accepted \in BOOLEAN, NEW c \in Child, c.owner = base.uid,
             WriteChild(k, accepted, c)
      PROVE  /\ Reporting(k)
             /\ Fault \/ UNCHANGED faults
             /\ child' = child \/ (accepted /\ child' = [child EXCEPT ![k] = c])
  BY <1>5 DEF WriteChild, Reporting
<1>6. \/ Reporting(k) /\ UNCHANGED <<child, faults>>
      \/ cands[k] # None /\ existing # None /\ WriteChild(k, child[k] = existing, updated)
      \/ cands[k] # None /\ existing = None /\ WriteChild(k, child[k] = None, desired)
  BY <1>3 DEF ReconcileChild, Reporting
<1> HIDE DEF desired, updated
<1> QED
  BY <1>2, <1>4, <1>5, <1>6

(* A write that ends the reconciliation, whether it took place or not.     *)
Ended(object) ==
  /\ \E failure \in BOOLEAN : Done(failure)
  /\ api' = api \/ (UpToDate /\ api' = object)
  /\ Fault \/ UNCHANGED faults

(* A write of the API either ends with the object or changes nothing. *)
LEMMA WriteEnds ==
  ASSUME NEW object, NEW failure \in BOOLEAN, Write(object, Done(failure))
  PROVE  Ended(object)
  BY DEF Write, Ended

(* And so does adding the finalizer, after which the worker goes on. *)
LEMMA AddFinalizerEnds ==
  ASSUME AddFinalizer
  PROVE  \/ Ended(WithFinalizer)
         \/ /\ UpToDate /\ api' = WithFinalizer /\ base' = WithFinalizer
            /\ work' = base.status /\ Goto("children")
            /\ UNCHANGED <<spec, cands, faults>>
  BY DEF AddFinalizer, Write, Ended

(* An end of a reconciliation leaves all variables with their types. *)
LEMMA EndedTypes ==
  ASSUME TypeOK, NEW object \in Component \cup {None},
         object # None => object.status.observed <= object.gen,
         Ended(object), UNCHANGED <<users, caches, caps, child, finalized>>
  PROVE  TypeOK'
<1>1. api' \in Component \cup {None} /\ (api' # None => api'.status.observed <= api'.gen)
  BY DEF Ended, TypeOK
<1>2. LocalsTypeOK' /\ dirty' \in BOOLEAN
  BY DoneTypes DEF Ended, TypeOK
<1>3. faults' \in 0..MaxFaults
  BY FaultType DEF Ended, TypeOK
<1> QED
  BY <1>1, <1>2, <1>3 DEF TypeOK, LocalsTypeOK, users, caches

(* The write that adds the finalizer goes on, or ends the reconciliation.  *)
LEMMA AddFinalizerTypes ==
  ASSUME IInv, AddFinalizer
  PROVE  TypeOK'
<1> USE DEF IInv, Step, users, caches
<1>1. base \in Component /\ spec \in Specs /\ (spec # base.spec => base.gen < MaxGen)
  BY DEF AddFinalizer, TypeOK, WorkerInv
<1>2. CASE ~UpToDate
  <2>1. Ended(None)
    BY <1>2, AddFinalizerEnds DEF Ended
  <2> QED
    BY <2>1, EndedTypes DEF AddFinalizer
<1>3. CASE UpToDate
  <2>0. base.status.observed <= base.gen
    BY <1>1, <1>3, NoneAssumption DEF UpToDate, TypeOK
  <2> DEFINE p == WithFinalizer
  <2>1. p \in Component /\ p.status.observed <= p.gen
    BY <1>1, <2>0, WithFinalizerType, ComponentFacts
  <2>2. CASE Ended(p)
    BY <2>1, <2>2, EndedTypes DEF AddFinalizer
  <2>3. CASE /\ api' = p /\ base' = p
             /\ work' = base.status /\ Goto("children") /\ UNCHANGED <<spec, cands, faults>>
    <3>1. work' \in Status
      BY <1>1, <2>3, ComponentFacts
    <3> HIDE DEF p
    <3> QED
      BY <2>1, <2>3, <3>1 DEF AddFinalizer, Goto, TypeOK
  <2> QED
    BY <2>2, <2>3, AddFinalizerEnds
<1> QED
  BY <1>2, <1>3

(* Every step keeps the types. *)
LEMMA TypeStep == IInv /\ [Next]_vars => TypeOK'
<1> SUFFICES ASSUME IInv, [Next]_vars PROVE TypeOK'
  OBVIOUS
<1> USE ComponentReconcilerAssumption DEF TypeOK, users, caches, locals, ControllerUnchanged
<1>1. ASSUME NEW s \in Specs, UserCreates(s) PROVE TypeOK'
  <2> DEFINE new == [uid |-> uids + 1, gen |-> 1, spec |-> s, finalizer |-> FALSE,
                     deleting |-> FALSE, status |-> NoStatus]
  <2>1. uids + 1 \in 1..MaxUid /\ uids + 1 \in 0..MaxUid /\ 1 \in 1..MaxGen
    BY <1>1 DEF UserCreates, IInv
  <2>2. new \in Component
    BY <2>1, DefaultTypes DEF Component
  <2>3. new.status.observed <= new.gen
    BY DEF NoStatus
  <2>4. /\ api' = new /\ uids' = uids + 1 /\ userSpec' = s
        /\ ControllerUnchanged /\ UNCHANGED <<child, renderable>>
    BY <1>1 DEF UserCreates
  <2> HIDE DEF new
  <2> QED
    BY <2>1, <2>2, <2>3, <2>4 DEF IInv
<1>2. ASSUME NEW s \in Specs, UserModifies(s) PROVE TypeOK'
  <2> DEFINE p == [api EXCEPT !.spec = s, !.gen = @ + 1]
  <2>1. api \in Component /\ api.gen < MaxGen /\ api.status.observed <= api.gen
    BY <1>2 DEF UserModifies, IInv, Exists
  <2>2. p \in Component
    BY <2>1, ComponentTypes
  <2>3. p.status.observed <= p.gen
    BY <2>1, ComponentFacts DEF Component
  <2>4. /\ api' = p /\ userSpec' = s
        /\ ControllerUnchanged /\ UNCHANGED <<child, uids, renderable>>
    BY <1>2 DEF UserModifies
  <2> HIDE DEF p
  <2> QED
    BY <2>2, <2>3, <2>4 DEF IInv
<1>3. CASE UserDeletes
  <2> DEFINE p == [api EXCEPT !.deleting = TRUE]
  <2>1. api \in Component /\ api.status.observed <= api.gen
    BY <1>3 DEF UserDeletes, IInv, Exists
  <2>2. p \in Component
    BY <2>1, ComponentTypes
  <2>3. p.status.observed <= p.gen
    BY <2>1 DEF Component
  <2>4. api' \in {p, None} /\ ControllerUnchanged /\ UNCHANGED <<child, users>>
    BY <1>3 DEF UserDeletes
  <2> HIDE DEF p
  <2> QED
    BY <2>2, <2>3, <2>4 DEF IInv
<1>4. CASE ReferencesChange
  BY <1>4 DEF ReferencesChange, IInv
<1>5. ASSUME NEW k \in KindSet, ChildChanges(k) \/ ChildCollected(k) \/ ChildLost(k)
      PROVE  TypeOK'
  <2>1. ASSUME child[k] # None, NEW available \in BOOLEAN
        PROVE  [child[k] EXCEPT !.available = available] \in Child
    <3>1. child[k] \in Child
      BY <2>1 DEF IInv
    <3> QED
      BY <2>1, <3>1 DEF Child
  <2>2. \/ child' = [child EXCEPT ![k] = None]
        \/ child[k] # None /\ \E available \in BOOLEAN :
             child' = [child EXCEPT ![k] = [child[k] EXCEPT !.available = available]]
    <3>1. (~child[k].available) \in BOOLEAN
      OBVIOUS
    <3> QED
      BY <1>5, <3>1 DEF ChildChanges, ChildCollected, ChildLost
  <2>3. child' \in [KindSet -> Child \cup {None}]
    BY <2>1, <2>2 DEF IInv
  <2>4. faults' \in 0..MaxFaults
    BY <1>5, FaultType DEF ChildChanges, ChildCollected, ChildLost, IInv
  <2> QED
    BY <1>5, <2>3, <2>4 DEF ChildChanges, ChildCollected, ChildLost, Wakes, IInv
<1>6. CASE CacheSync \/ Resync
  BY <1>6 DEF CacheSync, Resync, IInv
<1>7. ASSUME NEW k \in KindSet, ChildSync(k) PROVE TypeOK'
  BY <1>7 DEF ChildSync, Wakes, IInv
<1>8. CASE Restart
  <2>1. LocalsTypeOK'
    BY <1>8, IdleTypes DEF Restart
  <2>2. faults' \in 0..MaxFaults
    BY <1>8, FaultType DEF Restart, IInv
  <2> QED
    BY <1>8, <2>1, <2>2 DEF Restart, LocalsTypeOK, IInv, Exists
<1>9. CASE Begin
  <2>1. CASE UNCHANGED locals
    BY <1>9, <2>1 DEF Begin, IInv
  <2>2. CASE ~UNCHANGED locals
    <3>1. /\ cache \in Component /\ base' = cache /\ spec' = cache.spec /\ work' = cache.status
          /\ next' = next /\ dirty' = FALSE
          /\ UNCHANGED <<api, child, users, caches, caps, faults, finalized>>
      BY <1>9, <2>2 DEF Begin, IInv
    <3>2. spec' \in Specs /\ work' \in Status
      BY <3>1, ComponentFacts
    <3>3. cands' \in [KindSet -> Specs \cup {None}] /\ err' \in BOOLEAN
      BY <1>9, <2>2, <3>1, <3>2 DEF Begin, IInv
    <3>4. at' \in {"finalize", "preReconcile", "addFinalizer", "children", "status"}
      BY <1>9, <2>2 DEF Begin, LiveStep, AfterHook
    <3> QED
      BY <3>1, <3>2, <3>3, <3>4 DEF IInv
  <2> QED
    BY <2>1, <2>2
<1>10. ASSUME NEW reply \in Replies, PreReconcile(reply) PROVE TypeOK'
  BY <1>10 DEF PreReconcile, Step, Goto, Failed, AfterHook, IInv
<1>11. ASSUME NEW reply \in Replies, Finalize(reply) PROVE TypeOK'
  <2>1. LocalsTypeOK' /\ dirty' \in BOOLEAN
    BY <1>11, DoneTypes DEF Finalize, Goto, Failed, LocalsTypeOK, IInv
  <2>2. base.uid \in 1..MaxUid
    BY <1>11, ComponentFacts DEF Finalize, Step, IInv, WorkerInv
  <2>3. finalized' \in SUBSET (1..MaxUid)
    BY <1>11, <2>2 DEF Finalize, IInv
  <2> QED
    BY <1>11, <2>1, <2>3 DEF Finalize, Step, LocalsTypeOK, IInv
<1>12. ASSUME NEW k \in KindSet, ReconcileChild(k) PROVE TypeOK'
  <2>1. LocalsTypeOK /\ base # None
    BY <1>12 DEF ReconcileChild, Step, IInv, WorkerInv, LocalsTypeOK
  <2>2. Reporting(k) /\ (Fault \/ UNCHANGED faults)
        /\ child' \in [KindSet -> Child \cup {None}]
    BY <1>12, <2>1, ReconcileChildEnds DEF IInv
  <2>3. LocalsTypeOK' /\ dirty' = dirty
    BY <2>1, <2>2, ChildTypes
  <2>4. faults' \in 0..MaxFaults
    BY <2>2, FaultType DEF IInv
  <2> QED
    BY <1>12, <2>2, <2>3, <2>4 DEF ReconcileChild, Step, LocalsTypeOK, IInv
<1>13. CASE AddFinalizer
  BY <1>13, AddFinalizerTypes
<1>14. CASE UpdateStatus
  <2> DEFINE p == [api EXCEPT !.status = work]
  <2>1. at = "status" /\ UNCHANGED <<users, caches, caps, child, finalized>>
        /\ work.observed <= base.gen
    BY <1>14 DEF UpdateStatus, Step, IInv, WorkerInv
  <2>2. Ended(p)
    BY <1>14, WriteEnds DEF UpdateStatus, Ended, IInv
  <2>3. CASE ~UpToDate
    <3>1. Ended(None)
      BY <2>2, <2>3 DEF Ended
    <3> QED
      BY <2>1, <3>1, EndedTypes DEF IInv
  <2>4. CASE UpToDate
    <3>1. api \in Component /\ work \in Status /\ work.observed <= api.gen
      BY <2>1, <2>4 DEF IInv, WorkerInv, UpToDate
    <3>2. p \in Component
      BY <3>1, ComponentTypes
    <3>3. p.status.observed <= p.gen
      BY <3>1 DEF Component
    <3> HIDE DEF p
    <3> QED
      BY <2>1, <2>2, <3>2, <3>3, EndedTypes DEF IInv
  <2> QED
    BY <2>3, <2>4
<1>15. CASE RemoveFinalizer
  BY <1>15, WriteEnds, EndedTypes DEF RemoveFinalizer, Step, IInv
<1>16. CASE UNCHANGED vars
  BY <1>16 DEF vars, IInv
<1> QED
  BY <1>1, <1>2, <1>3, <1>4, <1>5, <1>6, <1>7, <1>8, <1>9, <1>10, <1>11, <1>12, <1>13, <1>14,
     <1>15, <1>16 DEF Next, Environment, Reconciling
-----------------------------------------------------------------------------
(* What lets a deleted component go is what its hook granted. *)
LEMMA ProceedsGrants == \A reply \in Replies : Proceeds(reply) => Grants(reply)
<1> SUFFICES ASSUME NEW reply \in Reply, Proceeds(reply) PROVE Grants(reply)
  BY ComponentReconcilerAssumption
<1>1. reply.kind \in {"lost", "unclear", "empty", "garbled", "error", "answer"}
  BY DEF Reply
<1> QED
  BY <1>1 DEF Proceeds, Grants, HookRequest, HookResponseError

(* A component that keeps its uid, its mark and its finalizer remains the  *)
(* newest, and held.                                                       *)
LEMMA Moves ==
  ASSUME TypeOK, ApiInv, CacheInv, Exists, NEW p \in Component, p.uid = api.uid,
         api.deleting => p.deleting, api.finalizer => p.finalizer,
         api' = p, UNCHANGED <<uids, cache>>
  PROVE  /\ ApiInv' /\ CacheInv' /\ Exists'
         /\ \A uid \in Nat : Held(uid) => Held(uid)'
         /\ \A o \in Component : NotNewer(o, api) => NotNewer(o, api')
<1>1. p # None
  BY NoneAssumption
<1> QED
  BY <1>1, ComponentFacts DEF ApiInv, CacheInv, Exists, Held, NotNewer

(* A component that goes, having been marked in the cache if it has a      *)
(* finalizer there, takes nothing with it that others rely on.             *)
LEMMA Goes ==
  ASSUME TypeOK, ApiInv, CacheInv, cache # None /\ cache.finalizer => cache.deleting,
         api' = None, UNCHANGED <<uids, cache>>
  PROVE  ApiInv' /\ CacheInv' /\ ~Exists'
  BY DEF TypeOK, ApiInv, CacheInv, Exists

(* In the beginning there is no component and the worker is idle. *)
LEMMA InitInvariant == Init => IInv
<1> SUFFICES ASSUME Init PROVE IInv
  OBVIOUS
<1>1. 1 \in 1..Len(Kinds) /\ uids \in 0..MaxUid /\ faults \in 0..MaxFaults
  BY KindFacts, ComponentReconcilerAssumption DEF Init
<1>2. TypeOK
  BY <1>1, DefaultTypes DEF Init, TypeOK
<1> QED
  BY <1>2 DEF Init, IInv, ApiInv, CacheInv, WorkerInv, Exists

(* Each step keeps the invariant. *)
LEMMA StepInvariant == IInv /\ [Next]_vars => IInv'
<1> SUFFICES ASSUME IInv, [Next]_vars, TypeOK'
             PROVE  ApiInv' /\ CacheInv' /\ WorkerInv'
  BY TypeStep DEF IInv
<1> USE NoneAssumption, ComponentFacts
    DEF IInv, TypeOK, ApiInv, CacheInv, WorkerInv, Exists, Held, NotNewer, users, caches, locals,
        ControllerUnchanged
<1> DEFINE Goal == ApiInv' /\ CacheInv' /\ WorkerInv'
<1>1. ASSUME NEW s \in Specs, UserCreates(s) PROVE Goal
  BY <1>1 DEF UserCreates
<1>2. ASSUME NEW s \in Specs, UserModifies(s) PROVE Goal
  <2> DEFINE p == [api EXCEPT !.spec = s, !.gen = @ + 1]
  <2>1. api \in Component /\ api.gen < MaxGen
    BY <1>2 DEF UserModifies
  <2>2. p \in Component
    BY <2>1, ComponentTypes
  <2>3. p.uid = api.uid /\ p.deleting = api.deleting /\ p.finalizer = api.finalizer
    BY <2>1 DEF Component
  <2>4. Exists /\ api' = p /\ ControllerUnchanged /\ uids' = uids
    BY <1>2 DEF UserModifies
  <2> HIDE DEF p
  <2> QED
    BY <2>1, <2>2, <2>3, <2>4, Moves
<1>3. CASE UserDeletes
  <2>1. CASE api.finalizer
    <3> DEFINE p == [api EXCEPT !.deleting = TRUE]
    <3>1. api \in Component
      BY <1>3 DEF UserDeletes
    <3>2. p \in Component
      BY <3>1, ComponentTypes
    <3>3. p.uid = api.uid /\ p.deleting /\ p.finalizer = api.finalizer
      BY <3>1 DEF Component
    <3>4. Exists /\ api' = p /\ ControllerUnchanged /\ uids' = uids
      BY <1>3, <2>1 DEF UserDeletes
    <3> HIDE DEF p
    <3> QED
      BY <3>1, <3>2, <3>3, <3>4, Moves
  <2>2. CASE ~api.finalizer
    <3>1. cache # None /\ cache.finalizer => cache.deleting
      BY <2>2
    <3>2. api' = None /\ ControllerUnchanged /\ uids' = uids
      BY <1>3, <2>2 DEF UserDeletes
    <3>3. ~Held(base.uid)
      BY <2>2
    <3> QED
      BY <3>1, <3>2, <3>3, Goes
  <2> QED
    BY <2>1, <2>2
<1>4. CASE ReferencesChange
  BY <1>4 DEF ReferencesChange
<1>5. ASSUME NEW k \in KindSet,
             ChildChanges(k) \/ ChildCollected(k) \/ ChildLost(k) \/ ChildSync(k)
      PROVE  Goal
  <2>1. UNCHANGED <<uids, api, cache, at, base, spec, work, caps, finalized>>
    BY <1>5 DEF ChildChanges, ChildCollected, ChildLost, ChildSync
  <2>2. ApiInv' /\ CacheInv'
    BY <2>1
  <2>3. WorkerInv'
    BY <2>1
  <2> QED
    BY <2>2, <2>3
<1>6. CASE CacheSync
  BY <1>6 DEF CacheSync
<1>7. CASE Resync
  BY <1>7 DEF Resync
<1>8. CASE Restart
  BY <1>8 DEF Restart, Idle
<1>9. CASE Begin
  BY <1>9 DEF Begin, LiveStep, AfterHook
<1>10. ASSUME NEW reply \in Replies, PreReconcile(reply) PROVE Goal
  BY <1>10 DEF PreReconcile, Step, Goto, Failed, AfterHook
<1>11. ASSUME NEW reply \in Replies, Finalize(reply) PROVE Goal
  BY <1>11, ProceedsGrants DEF Finalize, Step, Goto, Failed, Done, Idle
<1>12. ASSUME NEW k \in KindSet, ReconcileChild(k) PROVE Goal
  <2>1. Reporting(k) /\ LocalsTypeOK /\ base # None
    BY <1>12, ReconcileChildEnds DEF ReconcileChild, Step, LocalsTypeOK
  <2>2. base' = base /\ work'.observed = base.gen /\ (at' = "status" \/ at' = at)
    BY <2>1, ChildTypes
  <2> QED
    BY <1>12, <2>1, <2>2 DEF ReconcileChild, Step
<1>13. CASE AddFinalizer
  <2> DEFINE p == WithFinalizer
  <2>1. at = "addFinalizer" /\ UNCHANGED <<users, caches, caps>>
    BY <1>13 DEF AddFinalizer, Step
  <2>2. base \in Component /\ spec \in Specs /\ (spec # base.spec => base.gen < MaxGen)
    BY <2>1
  <2>3. /\ p \in Component /\ p.finalizer /\ p.deleting = base.deleting
        /\ p.uid = base.uid /\ p.status = base.status /\ p.gen >= base.gen
    BY <2>2, WithFinalizerType
  <2>4. CASE api' = api /\ at' = "idle"
    BY <2>1, <2>4
  <2>5. CASE UpToDate /\ api' = p
    <3>1. /\ ApiInv' /\ CacheInv' /\ Exists'
          /\ \A o \in Component : NotNewer(o, api) => NotNewer(o, api')
      BY <2>1, <2>2, <2>3, <2>5, Moves DEF UpToDate
    <3>2. at' = "idle" \/ (at' = "children" /\ base' = p /\ work' = base.status)
      BY <1>13, <2>5, AddFinalizerEnds DEF Ended, Done, Idle, Goto
    <3> HIDE DEF p
    <3>3. CASE at' = "idle"
      BY <3>1, <3>3
    <3>4. CASE at' = "children" /\ base' = p /\ work' = base.status
      <4>1. work'.observed <= p.gen
        BY <2>2, <2>3, <2>5, <3>4 DEF UpToDate
      <4> QED
        BY <2>1, <2>2, <2>3, <2>5, <3>1, <3>4, <4>1
    <3> QED
      BY <3>2, <3>3, <3>4
  <2> QED
    BY <1>13, <2>4, <2>5, AddFinalizerEnds DEF Ended, Done, Idle
<1>14. CASE UpdateStatus
  <2> DEFINE p == [api EXCEPT !.status = work]
  <2>1. at = "status" /\ UNCHANGED <<uids, cache>>
    BY <1>14 DEF UpdateStatus, Step
  <2>2. Ended(p)
    BY <1>14, WriteEnds DEF UpdateStatus, Ended
  <2>3. at' = "idle"
    BY <2>2 DEF Ended, Done, Idle
  <2>4. CASE api' = api
    BY <2>1, <2>3, <2>4
  <2>5. CASE UpToDate /\ api' = p
    <3>1. api \in Component /\ work \in Status
      BY <2>1, <2>5 DEF UpToDate
    <3>2. p \in Component
      BY <3>1, ComponentTypes
    <3>3. p.uid = api.uid /\ p.deleting = api.deleting /\ p.finalizer = api.finalizer
      BY <3>1 DEF Component
    <3> HIDE DEF p
    <3> QED
      BY <2>1, <2>3, <2>5, <3>1, <3>2, <3>3, Moves
  <2> QED
    BY <2>2, <2>4, <2>5 DEF Ended
<1>15. CASE RemoveFinalizer
  <2>1. at = "removeFinalizer" /\ UNCHANGED <<uids, cache>>
    BY <1>15 DEF RemoveFinalizer, Step
  <2>2. Ended(None)
    BY <1>15, WriteEnds DEF RemoveFinalizer
  <2>3. at' = "idle"
    BY <2>2 DEF Ended, Done, Idle
  <2>4. CASE api' = api
    BY <2>1, <2>3, <2>4
  <2>5. CASE UpToDate /\ api' = None
    <3>1. base \in Component /\ base.uid = uids /\ base.deleting
      BY <2>1, <2>5 DEF UpToDate
    <3>2. cache # None => cache.deleting
      BY <2>1, <3>1
    <3> QED
      BY <2>1, <2>3, <2>5, <3>2, Goes
  <2> QED
    BY <2>2, <2>4, <2>5 DEF Ended
<1>16. CASE UNCHANGED vars
  BY <1>16 DEF vars
<1> QED
  BY <1>1, <1>2, <1>3, <1>4, <1>5, <1>6, <1>7, <1>8, <1>9, <1>10, <1>11, <1>12, <1>13, <1>14,
     <1>15, <1>16 DEF Next, Environment, Reconciling

(* IInv holds throughout: the theorems below rest on it. *)
THEOREM Invariance == Spec => []IInv
  BY InitInvariant, StepInvariant, PTL DEF Spec
-----------------------------------------------------------------------------
(* Every variable keeps its type, and the status never runs ahead of the   *)
(* generation.                                                             *)
THEOREM TypeCorrect == Spec => []TypeOK
<1>1. IInv => TypeOK
  BY DEF IInv
<1> QED
  BY <1>1, Invariance, PTL

(* A component with the finalizer goes only by the write that removes the  *)
(* finalizer, from the copy that its hook let go.                          *)
LEMMA OnlyFinalizedGoes ==
  ASSUME IInv, Next, Exists, api.finalizer, api' = None \/ api'.uid # api.uid
  PROVE  api.uid \in finalized
<1> USE NoneAssumption, ComponentFacts
    DEF IInv, TypeOK, Exists, users, caches, ControllerUnchanged
<1>1. api \in Component
  OBVIOUS
<1>2. CASE RemoveFinalizer
  BY <1>2 DEF RemoveFinalizer, Write, UpToDate, Step, WorkerInv
<1>3. CASE AddFinalizer
  <2>1. base \in Component /\ spec \in Specs /\ (spec # base.spec => base.gen < MaxGen)
    BY <1>3 DEF AddFinalizer, Step, WorkerInv
  <2>2. UpToDate /\ api' = WithFinalizer
    BY <1>3, AddFinalizerEnds DEF Ended
  <2> QED
    BY <2>1, <2>2, WithFinalizerType DEF UpToDate
<1>4. CASE UpdateStatus
  <2>1. api' = [api EXCEPT !.status = work]
    BY <1>4, WriteEnds DEF UpdateStatus, Ended, Write
  <2> QED
    BY <1>1, <2>1 DEF Component
<1>5. ASSUME NEW s \in Specs, UserCreates(s) \/ UserModifies(s)
      PROVE  api'.uid = api.uid /\ api' # None
  <2>1. api' = [api EXCEPT !.spec = s, !.gen = @ + 1] /\ api.gen < MaxGen
    BY <1>5 DEF UserCreates, UserModifies
  <2>2. api' \in Component
    BY <1>1, <2>1, ComponentTypes
  <2> QED
    BY <1>1, <2>1, <2>2 DEF Component
<1>6. CASE UserDeletes
  <2>1. api' = [api EXCEPT !.deleting = TRUE]
    BY <1>6 DEF UserDeletes
  <2>2. api' \in Component
    BY <1>1, <2>1, ComponentTypes
  <2> QED
    BY <1>1, <2>1, <2>2 DEF Component
<1>7. CASE ReferencesChange \/ CacheSync \/ Resync \/ Restart \/ Begin
  BY <1>7 DEF ReferencesChange, CacheSync, Resync, Restart, Begin
<1>8. ASSUME NEW k \in KindSet, \/ ChildChanges(k) \/ ChildCollected(k) \/ ChildLost(k)
                                \/ ChildSync(k) \/ ReconcileChild(k)
      PROVE  api' = api
  BY <1>8 DEF ChildChanges, ChildCollected, ChildLost, ChildSync, ReconcileChild
<1>9. ASSUME NEW reply \in Replies, PreReconcile(reply) \/ Finalize(reply)
      PROVE  api' = api
  BY <1>9 DEF PreReconcile, Finalize
<1> QED
  BY <1>1, <1>2, <1>3, <1>4, <1>5, <1>6, <1>7, <1>8, <1>9 DEF Next, Environment, Reconciling

(* No component with the finalizer goes before its hook let it go. *)
THEOREM FinalizedFirst == Spec => FinalizedBeforeGone
<1>1. IInv /\ [Next]_vars =>
        [Exists /\ api.finalizer /\ (api' = None \/ api'.uid # api.uid)
           => api.uid \in finalized]_vars
  BY OnlyFinalizedGoes DEF vars
<1> QED
  BY <1>1, Invariance, PTL DEF Spec, FinalizedBeforeGone
-----------------------------------------------------------------------------
(* A child comes, or changes owner, only when the component that gets it   *)
(* is in the API with the finalizer of its hook.                           *)
LEMMA GuardedChild ==
  ASSUME IInv, Next, NEW k \in KindSet,
         child'[k] # None, child[k] = None \/ child'[k].owner # child[k].owner,
         "finalize" \in caps
  PROVE  Exists /\ api.uid = child'[k].owner /\ api.finalizer
<1> USE DEF IInv, TypeOK
<1>1. ASSUME NEW j \in KindSet, ReconcileChild(j)
      PROVE  Exists /\ api.uid = child'[k].owner /\ api.finalizer
  <2>1. at = "children" /\ base \in Component /\ base # None /\ Held(base.uid)
    BY <1>1 DEF ReconcileChild, Step, WorkerInv
  <2>2. child'[k].owner = base.uid
    BY <1>1, <2>1, ReconcileChildEnds
  <2> QED
    BY <2>1, <2>2 DEF Held
<1>2. ASSUME NEW j \in KindSet, ChildChanges(j)
      PROVE  FALSE
  <2>1. child[k] # None /\ child[k] \in Child
    BY <1>2 DEF ChildChanges
  <2>2. \E available : child'[k] \in {child[k], [child[k] EXCEPT !.available = available]}
    BY <1>2 DEF ChildChanges
  <2> QED
    BY <2>1, <2>2 DEF Child
<1>3. ASSUME NEW j \in KindSet, ChildCollected(j) \/ ChildLost(j)
      PROVE  FALSE
  BY <1>3 DEF ChildCollected, ChildLost
<1>4. ASSUME NEW j \in KindSet, ChildSync(j)
      PROVE  child' = child
  BY <1>4 DEF ChildSync
<1>5. ASSUME NEW s \in Specs, UserCreates(s) \/ UserModifies(s)
      PROVE  child' = child
  BY <1>5 DEF UserCreates, UserModifies
<1>6. ASSUME NEW reply \in Replies, PreReconcile(reply) \/ Finalize(reply)
      PROVE  child' = child
  BY <1>6 DEF PreReconcile, Finalize
<1>7. CASE \/ UserDeletes \/ ReferencesChange \/ CacheSync \/ Resync \/ Restart \/ Begin
           \/ AddFinalizer \/ UpdateStatus \/ RemoveFinalizer
  BY <1>7 DEF UserDeletes, ReferencesChange, CacheSync, Resync, Restart, Begin, AddFinalizer,
     UpdateStatus, RemoveFinalizer
<1> QED
  BY <1>1, <1>2, <1>3, <1>4, <1>5, <1>6, <1>7 DEF Next, Environment, Reconciling

(* No component gets a child before its hook would hear of its deletion.   *)
THEOREM Guarded == Spec => ChildrenGuarded
<1>1. IInv /\ [Next]_vars =>
        [\A k \in KindSet :
           child'[k] # None /\ (child[k] = None \/ child'[k].owner # child[k].owner)
             /\ "finalize" \in caps
           => Exists /\ api.uid = child'[k].owner /\ api.finalizer]_vars
  BY GuardedChild DEF vars
<1> QED
  BY <1>1, Invariance, PTL DEF Spec, ChildrenGuarded
-----------------------------------------------------------------------------
(* Where no hook answers with another spec, each object that a write sends *)
(* has the spec of the copy that it replaces.                              *)
LEMMA SpecStep ==
  ASSUME IInv, SpecInv, [Next]_vars, \A reply \in Replies : Object(reply) # "respec"
  PROVE  SpecInv'
<1> USE NoneAssumption, ComponentFacts
    DEF IInv, TypeOK, SpecInv, SpecIsTheUsers, Exists, users, caches, locals, ControllerUnchanged
<1>1. ASSUME NEW s \in Specs, UserCreates(s) PROVE SpecInv'
  BY <1>1 DEF UserCreates
<1>2. ASSUME NEW s \in Specs, UserModifies(s) PROVE SpecInv'
  <2>1. api'.spec = s
    BY <1>2 DEF UserModifies, Component
  <2> QED
    BY <1>2, <2>1 DEF UserModifies
<1>3. CASE UserDeletes
  <2>1. api' # None => api'.spec = api.spec
    BY <1>3 DEF UserDeletes, Component
  <2> QED
    BY <1>3, <2>1 DEF UserDeletes
<1>4. CASE ReferencesChange \/ CacheSync \/ Resync
  BY <1>4 DEF ReferencesChange, CacheSync, Resync
<1>5. ASSUME NEW k \in KindSet,
             ChildChanges(k) \/ ChildCollected(k) \/ ChildLost(k) \/ ChildSync(k)
      PROVE  SpecInv'
  BY <1>5 DEF ChildChanges, ChildCollected, ChildLost, ChildSync
<1>6. CASE Restart
  BY <1>6 DEF Restart, Idle
<1>7. CASE Begin
  BY <1>7 DEF Begin
<1>8. ASSUME NEW reply \in Replies, PreReconcile(reply) PROVE SpecInv'
  BY <1>8 DEF PreReconcile, Step, Goto, Failed, WorkerInv
<1>9. ASSUME NEW reply \in Replies, Finalize(reply) PROVE SpecInv'
  BY <1>9 DEF Finalize, Step, Goto, Failed, Done, Idle
<1>10. ASSUME NEW k \in KindSet, ReconcileChild(k) PROVE SpecInv'
  <2>1. Reporting(k) /\ LocalsTypeOK /\ base # None
    BY <1>10, ReconcileChildEnds DEF ReconcileChild, Step, LocalsTypeOK, WorkerInv
  <2>2. at' = "status" \/ at' = at
    BY <2>1, ChildTypes
  <2> QED
    BY <1>10, <2>2 DEF ReconcileChild, Step
<1>11. CASE AddFinalizer
  <2>1. /\ base \in Component /\ spec \in Specs /\ (spec # base.spec => base.gen < MaxGen)
        /\ spec = base.spec /\ UNCHANGED users
    BY <1>11 DEF AddFinalizer, Step, WorkerInv
  <2>2. WithFinalizer.spec = base.spec
    BY <2>1, WithFinalizerType
  <2>3. api' = api \/ (UpToDate /\ api' = WithFinalizer)
    BY <1>11, AddFinalizerEnds DEF Ended
  <2>4. at' \in {"idle", "children"}
    BY <1>11, AddFinalizerEnds DEF Ended, Done, Idle, Goto
  <2> QED
    BY <2>1, <2>2, <2>3, <2>4 DEF UpToDate
<1>12. CASE UpdateStatus
  <2>1. Ended([api EXCEPT !.status = work]) /\ UNCHANGED users /\ at = "status"
    BY <1>12, WriteEnds DEF UpdateStatus, Ended, Step
  <2>2. api' = api \/ (api \in Component /\ api' = [api EXCEPT !.status = work])
    BY <2>1 DEF Ended, UpToDate, WorkerInv
  <2>3. Exists' => Exists /\ api'.spec = api.spec
    BY <2>2 DEF Component
  <2> QED
    BY <2>1, <2>3 DEF Ended, Done, Idle
<1>13. CASE RemoveFinalizer
  <2>1. Ended(None) /\ UNCHANGED users
    BY <1>13, WriteEnds DEF RemoveFinalizer, Step
  <2> QED
    BY <2>1 DEF Ended, Done, Idle
<1>14. CASE UNCHANGED vars
  BY <1>14 DEF vars
<1> QED
  BY <1>1, <1>2, <1>3, <1>4, <1>5, <1>6, <1>7, <1>8, <1>9, <1>10, <1>11, <1>12, <1>13,
     <1>14 DEF Next, Environment, Reconciling

(* If no hook answers with another spec, the API always holds the spec the *)
(* user wrote last, whatever is read late, lost or refused.  Without the   *)
(* hypothesis it does not: the run ComponentRespec.                        *)
THEOREM SpecKept ==
  ASSUME \A reply \in Replies : Object(reply) # "respec"
  PROVE  Spec => []SpecIsTheUsers
<1>1. Init => SpecInv
  BY DEF Init, SpecInv, SpecIsTheUsers, Exists
<1>2. IInv /\ SpecInv /\ [Next]_vars => SpecInv'
  BY SpecStep
<1>3. SpecInv => SpecIsTheUsers
  BY DEF SpecInv
<1> QED
  BY <1>1, <1>2, <1>3, Invariance, PTL DEF Spec
=============================================================================
