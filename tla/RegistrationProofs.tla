------------------------- MODULE RegistrationProofs -------------------------
(***************************************************************************)
(* The safety properties of Registration, for every set of names and       *)
(* specs, and all bounds.                                                  *)
(*                                                                         *)
(* The argument is about old copies.  What the cache and the worker hold   *)
(* was in the API once, and within the life of an object the mark and the  *)
(* finalizer are only set.  A copy with the finalizer and without the mark *)
(* therefore proves that the object is still there: only this worker takes *)
(* the finalizer away, having read the mark, and its cache never turns     *)
(* back.                                                                   *)
(***************************************************************************)
EXTENDS Registration, TLAPS

(* An object at most as new as another, of the same name. *)
NotNewer(o, p) == o.uid < p.uid \/ (o.uid = p.uid /\ (o.deleting => p.deleting))

(* The object is held by its finalizer. *)
Held(n, uid) == Exists(n) /\ api[n].uid = uid /\ api[n].finalizer

(* The object of a name is the last one created; its status is of a        *)
(* generation it has had.                                                  *)
ApiInv ==
  \A n \in Names : Exists(n) =>
    api[n].uid = uids[n] /\ api[n].status.observed <= api[n].gen

(* The cache holds an old copy of the API's object, or of one before it.   *)
CacheInv ==
  \A n \in Names : cache[n] # NoObject =>
    /\ cache[n].uid <= uids[n]
    /\ Exists(n) => NotNewer(cache[n], api[n])
    /\ cache[n].finalizer /\ ~cache[n].deleting => Held(n, cache[n].uid)

(* The worker holds a copy that is older still, and at each step knows     *)
(* what it has seen of it.                                                 *)
WorkerInv ==
  /\ at # "idle" =>
       /\ up
       /\ base # NoObject /\ base.uid <= uids[cur]
       /\ Exists(cur) => NotNewer(base, api[cur])
       /\ cache[cur] # NoObject => NotNewer(base, cache[cur])
       /\ work.observed = base.gen
  /\ at \in {"remove", "removeFinalizer"} => base.deleting
  /\ at = "removeFinalizer" => cur \notin owned
  /\ at \in {"lookup", "hook", "ensure"} => Held(cur, base.uid)

(* A controller runs in a live process, for the object that the API holds. *)
ControllerInv ==
  /\ open => up
  /\ \A n \in owned : Held(n, config[n].uid)

IInv == TypeOK /\ ApiInv /\ CacheInv /\ WorkerInv /\ ControllerInv
-----------------------------------------------------------------------------
(* What the operations make of an object and of a status.                  *)
LEMMA ObjectTypes ==
  ASSUME NEW o \in Object
  PROVE  /\ [o EXCEPT !.finalizer = TRUE] \in Object
         /\ [o EXCEPT !.deleting = TRUE] \in Object
         /\ \A status \in Status : [o EXCEPT !.status = status] \in Object
         /\ \A spec \in Specs : o.gen < MaxGen =>
              [o EXCEPT !.spec = spec, !.gen = @ + 1] \in Object
<1>1. /\ [o EXCEPT !.finalizer = TRUE] \in Object
      /\ [o EXCEPT !.deleting = TRUE] \in Object
      /\ \A status \in Status : [o EXCEPT !.status = status] \in Object
  BY DEF Object
<1>2. ASSUME NEW spec \in Specs, o.gen < MaxGen
      PROVE  [o EXCEPT !.spec = spec, !.gen = @ + 1] \in Object
  <2>1. o.gen + 1 \in 1..MaxGen
    BY <1>2, RegistrationAssumption DEF Object
  <2> QED
    BY <2>1 DEF Object
<1> QED
  BY <1>1, <1>2

(* Conditions that are set remain a status. *)
LEMMA StatusTypes ==
  ASSUME NEW status \in Status
  PROVE  /\ Sanitized(status) \in Status
         /\ Sanitized(status).observed = status.observed
         /\ \A c \in {"True", "False"} :
              /\ [status EXCEPT !.crdExists = c] \in Status
              /\ [status EXCEPT !.controllerReady = c] \in Status
         /\ \A gen \in 0..MaxGen : [status EXCEPT !.observed = gen] \in Status
  BY DEF Status, Condition, Sanitized

(* The status of a reconciliation observes what was read. *)
LEMMA NewStatusType ==
  ASSUME NEW o \in Object
  PROVE  NewStatus(o) \in Status /\ NewStatus(o).observed = o.gen
<1>1. o.gen \in 0..MaxGen /\ o.status \in Status
  BY RegistrationAssumption DEF Object
<1>2. Sanitized(o.status) \in Status
  BY <1>1, StatusTypes
<1>3. NewStatus(o) \in Status
  BY <1>1, <1>2, StatusTypes DEF NewStatus
<1> QED
  BY <1>2, <1>3 DEF NewStatus, Status

(* A condition is set in the status at hand. *)
LEMMA ConditionTypes ==
  ASSUME work \in Status, NEW c \in {"True", "False"}
  PROVE  /\ CRDExists(c) \in Status /\ CRDExists(c).observed = work.observed
         /\ ControllerReady(c) \in Status /\ ControllerReady(c).observed = work.observed
<1>1. [work EXCEPT !.crdExists = c] \in Status /\ [work EXCEPT !.controllerReady = c] \in Status
  BY StatusTypes
<1> QED
  BY <1>1, StatusTypes DEF CRDExists, ControllerReady, Status
-----------------------------------------------------------------------------
(* What the locals hold between two reconciliations has their types. *)
LEMMA DefaultTypes ==
  NoStatus \in Status /\ NoConfig \in [uid : 0..MaxUid, gen : 0..MaxGen]
  BY RegistrationAssumption DEF NoStatus, Status, Condition, NoConfig

(* The locals of the worker have their types.                              *)
LocalsTypeOK ==
  /\ at \in {"idle", "addFinalizer", "lookup", "hook", "ensure", "status",
             "remove", "removeFinalizer"}
  /\ cur \in Names
  /\ base \in Object \cup {NoObject}
  /\ work \in Status
  /\ err \in BOOLEAN

(* A worker without a request holds nothing. *)
LEMMA IdleTypes == ASSUME cur \in Names, Idle PROVE LocalsTypeOK'
  BY DefaultTypes DEF Idle, LocalsTypeOK

(* Ending a reconciliation, with or without asking for another one. *)
LEMMA DoneTypes ==
  ASSUME cur \in Names, dirty \in SUBSET Names, NEW failure, Done(failure)
  PROVE  LocalsTypeOK' /\ dirty' \in SUBSET Names
  BY IdleTypes DEF Done, Requeue

(* All that a Write changes. *)
LEMMA WriteTypes ==
  ASSUME TypeOK, NEW object \in Object \cup {NoObject}, NEW failure, Write(object, failure)
  PROVE  /\ LocalsTypeOK' /\ dirty' \in SUBSET Names
         /\ api' \in [Names -> Object \cup {NoObject}]
         /\ faults' \in 0..MaxFaults
<1> USE DEF TypeOK
<1>1. PICK f : Done(f)
  BY DEF Write, Refused
<1>2. LocalsTypeOK' /\ dirty' \in SUBSET Names
  BY <1>1, DoneTypes
<1>3. api' = [api EXCEPT ![cur] = object] \/ api' = api
  BY DEF Write
<1>4. Fault \/ UNCHANGED faults
  BY DEF Write
<1>5. faults' \in 0..MaxFaults
  BY <1>4, RegistrationAssumption DEF Fault
<1> QED
  BY <1>2, <1>3, <1>5

(* Every step keeps the types. *)
LEMMA TypeStep == IInv /\ [Next]_vars => TypeOK'
<1> SUFFICES ASSUME TypeOK, WorkerInv, [Next]_vars PROVE TypeOK'
  BY DEF IInv
<1> USE RegistrationAssumption DEF TypeOK, ControllerSetTypeOK, clusterVars, locals, ctlVars
<1>1. ASSUME NEW n \in Names, NEW spec \in Specs, UserCreates(n, spec) PROVE TypeOK'
  <2> DEFINE new == [uid |-> uids[n] + 1, gen |-> 1, spec |-> spec, finalizer |-> FALSE,
                     deleting |-> FALSE, status |-> NoStatus]
  <2>1. uids[n] + 1 \in 1..MaxUid /\ uids[n] + 1 \in 0..MaxUid /\ 1 \in 1..MaxGen
    BY <1>1 DEF UserCreates
  <2>2. new \in Object
    BY <2>1, DefaultTypes DEF Object
  <2>3. api' = [api EXCEPT ![n] = new] /\ uids' = [uids EXCEPT ![n] = uids[n] + 1]
    BY <1>1 DEF UserCreates
  <2> HIDE DEF new
  <2>4. UserUnchanged
    BY <1>1 DEF UserCreates
  <2> QED
    BY <2>1, <2>2, <2>3, <2>4 DEF UserUnchanged
<1>2. ASSUME NEW n \in Names, NEW spec \in Specs, UserModifies(n, spec) PROVE TypeOK'
  <2>1. api'[n] \in Object
    BY <1>2, ObjectTypes DEF UserModifies, Exists
  <2> QED
    BY <1>2, <2>1 DEF UserModifies, UserUnchanged
<1>3. ASSUME NEW n \in Names, UserDeletes(n) PROVE TypeOK'
  <2>1. [api[n] EXCEPT !.deleting = TRUE] \in Object
    BY <1>3, ObjectTypes DEF UserDeletes, Exists
  <2>2. \/ api' = [api EXCEPT ![n] = [api[n] EXCEPT !.deleting = TRUE]]
        \/ api' = [api EXCEPT ![n] = NoObject]
    BY <1>3 DEF UserDeletes
  <2>3. UserUnchanged /\ uids' = uids
    BY <1>3 DEF UserDeletes
  <2> QED
    BY <2>1, <2>2, <2>3 DEF UserUnchanged
<1>4. CASE ClusterChanges
  BY <1>4 DEF ClusterChanges
<1>5. ASSUME NEW n \in Names, CacheSync(n) \/ Resync(n) PROVE TypeOK'
  BY <1>5 DEF CacheSync, Resync
<1>6. ASSUME NEW n \in Names, Begin(n) PROVE TypeOK'
  BY <1>6, NewStatusType DEF Begin, FirstStep
<1>7. ASSUME NEW object \in Object \cup {NoObject}, NEW failure, Write(object, failure),
             UNCHANGED <<config, ctlVars>>
      PROVE  TypeOK'
  BY <1>7, WriteTypes DEF LocalsTypeOK, Write, WorkerUnchanged
<1>8. CASE AddFinalizer
  <2>1. [base EXCEPT !.finalizer = TRUE] \in Object
    BY <1>8, ObjectTypes DEF AddFinalizer, Step, WorkerInv
  <2> QED
    BY <1>7, <1>8, <2>1 DEF AddFinalizer
<1>9. CASE LookupCRD \/ ResolveHook
  BY <1>9, ConditionTypes DEF LookupCRD, ResolveHook, Step, Goto, Failed, WorkerUnchanged
<1>10. CASE EnsureController
  <2>1. work' \in Status /\ err' \in BOOLEAN /\ Goto("status") /\ WorkerUnchanged /\ api' = api
    BY <1>10, ConditionTypes DEF EnsureController, Ensured
  <2>2. [uid |-> base.uid, gen |-> base.gen] \in [uid : 0..MaxUid, gen : 0..MaxGen]
    BY <1>10 DEF EnsureController, Step, WorkerInv, Object
  <2>3. \/ UNCHANGED <<config, ctlVars>>
        \/ Own(cur) /\ config' = [config EXCEPT ![cur] = [uid |-> base.uid, gen |-> base.gen]]
    BY <1>10 DEF EnsureController
  <2>4. Fault \/ UNCHANGED faults
    BY <1>10 DEF EnsureController
  <2>5. config' \in [Names -> [uid : 0..MaxUid, gen : 0..MaxGen]]
    BY <2>2, <2>3
  <2>6. owned' \in SUBSET Names /\ open' \in BOOLEAN
    BY <2>3 DEF Own
  <2> QED
    BY <2>1, <2>4, <2>5, <2>6 DEF Goto, WorkerUnchanged, Fault
<1>11. CASE EnsurePanics \/ Crash \/ Exit
  <2>1. Die /\ (Fault \/ UNCHANGED faults)
    BY <1>11 DEF EnsurePanics, Crash, Exit
  <2>2. LocalsTypeOK'
    BY <2>1, IdleTypes DEF Die
  <2>3. faults' \in 0..MaxFaults
    BY <2>1 DEF Fault
  <2>4. cache' \in [Names -> Object \cup {NoObject}]
        /\ config' \in [Names -> [uid : 0..MaxUid, gen : 0..MaxGen]]
    BY <2>1, DefaultTypes DEF Die
  <2> QED
    BY <2>1, <2>2, <2>3, <2>4 DEF LocalsTypeOK, Die
<1>12. CASE UpdateStatus
  <2>1. CASE UpToDate
    <3>1. [api[cur] EXCEPT !.status = work] \in Object
      BY <1>12, <2>1, ObjectTypes DEF UpdateStatus, Step, UpToDate, WorkerInv
    <3> QED
      BY <1>7, <1>12, <3>1 DEF UpdateStatus
  <2>2. CASE ~UpToDate
    <3>1. Write(NoObject, err)
      BY <1>12, <2>2 DEF UpdateStatus, Write
    <3> QED
      BY <1>7, <1>12, <3>1 DEF UpdateStatus
  <2> QED
    BY <2>1, <2>2
<1>13. CASE RemoveController
  <2>1. owned' \in SUBSET Names /\ open' \in BOOLEAN
        /\ config' \in [Names -> [uid : 0..MaxUid, gen : 0..MaxGen]]
    BY <1>13, DefaultTypes DEF RemoveController, RemoveOwned, Disown
  <2>2. LocalsTypeOK' /\ dirty' \in SUBSET Names
    BY <1>13, DoneTypes DEF RemoveController, Goto, LocalsTypeOK
  <2>3. WorkerUnchanged /\ UNCHANGED <<api, faults>>
    BY <1>13 DEF RemoveController
  <2> QED
    BY <2>1, <2>2, <2>3 DEF WorkerUnchanged, LocalsTypeOK
<1>14. CASE RemoveFinalizer
  BY <1>7, <1>14 DEF RemoveFinalizer
<1>15. CASE Signal
  <2>1. faults' \in 0..MaxFaults
    BY <1>15 DEF Signal, Fault
  <2>2. config' \in [Names -> [uid : 0..MaxUid, gen : 0..MaxGen]]
    BY <1>15, DefaultTypes DEF Signal
  <2> QED
    BY <1>15, <2>1, <2>2 DEF Signal, Close
<1>16. CASE Restart
  BY <1>16 DEF Restart
<1>17. CASE UNCHANGED vars
  BY <1>17 DEF vars
<1> QED
  BY <1>1, <1>2, <1>3, <1>4, <1>5, <1>6, <1>8, <1>9, <1>10, <1>11, <1>12, <1>13, <1>14,
     <1>15, <1>16, <1>17 DEF Next, Users, Reconciling
-----------------------------------------------------------------------------
(* The parts of an object have their types. *)
LEMMA ObjectFacts ==
  /\ NoObject \notin Object
  /\ \A o \in Object : /\ o.uid \in Nat /\ o.gen \in Nat /\ o.status.observed \in Nat
                       /\ o.deleting \in BOOLEAN /\ o.finalizer \in BOOLEAN
  BY RegistrationAssumption, NoObjectAssumption DEF Object, Status

(* An object that keeps its uid, its mark and its finalizer remains the    *)
(* newest of its name, and held.                                           *)
LEMMA Moves ==
  ASSUME TypeOK, ApiInv, CacheInv, NEW n \in Names, Exists(n), NEW p \in Object,
         p.uid = api[n].uid, api[n].deleting => p.deleting, api[n].finalizer => p.finalizer,
         p.status.observed <= p.gen,
         api' = [api EXCEPT ![n] = p], UNCHANGED <<uids, cache>>
  PROVE  /\ ApiInv' /\ CacheInv'
         /\ \A m \in Names : Exists(m)' <=> Exists(m)
         /\ \A m \in Names, uid \in Nat : Held(m, uid) => Held(m, uid)'
         /\ \A m \in Names, o \in Object :
              Exists(m) /\ NotNewer(o, api[m]) => NotNewer(o, api'[m])
<1>1. \A m \in Names : IF m = n THEN api'[m] = p ELSE api'[m] = api[m]
  BY DEF TypeOK
<1>2. api[n] \in Object /\ \A m \in Names : cache[m] # NoObject => cache[m] \in Object
  BY DEF TypeOK, Exists
<1> QED
  BY <1>1, <1>2, ObjectFacts DEF ApiInv, CacheInv, Exists, Held, NotNewer

(* An object that goes, having been marked in the cache if it has a        *)
(* finalizer there, takes nothing with it that others rely on.             *)
LEMMA Goes ==
  ASSUME TypeOK, ApiInv, CacheInv, NEW n \in Names,
         cache[n] # NoObject /\ cache[n].finalizer => cache[n].deleting,
         api' = [api EXCEPT ![n] = NoObject], UNCHANGED <<uids, cache>>
  PROVE  /\ ApiInv' /\ CacheInv'
         /\ \A m \in Names : Exists(m)' => Exists(m)
         /\ \A m \in Names \ {n} : api'[m] = api[m]
  BY DEF TypeOK, ApiInv, CacheInv, Exists, Held

(* How a Write ends. *)
LEMMA WriteEnds ==
  ASSUME NEW object, NEW failure, Write(object, failure)
  PROVE  /\ at' = "idle" /\ UNCHANGED <<uids, cache, up>>
         /\ api' = api \/ (UpToDate /\ api' = [api EXCEPT ![cur] = object])
  BY DEF Write, Refused, Done, Idle, WorkerUnchanged

(* In the beginning there are neither objects nor controllers. *)
LEMMA InitInvariant == Init => IInv
<1> SUFFICES ASSUME Init PROVE IInv
  OBVIOUS
<1>1. TypeOK
  <2>1. /\ api \in [Names -> Object \cup {NoObject}] /\ cache = api
        /\ config \in [Names -> [uid : 0..MaxUid, gen : 0..MaxGen]]
    BY DefaultTypes DEF Init
  <2>2. uids \in [Names -> 0..MaxUid] /\ faults \in 0..MaxFaults
    BY RegistrationAssumption DEF Init
  <2> QED
    BY <2>1, <2>2, DefaultTypes DEF Init, TypeOK, ControllerSetTypeOK, ControllerSetInit
<1> QED
  BY <1>1 DEF Init, IInv, ApiInv, CacheInv, WorkerInv, ControllerInv, ControllerSetInit, Exists

(* Each step keeps the invariant. *)
LEMMA StepInvariant == IInv /\ [Next]_vars => IInv'
<1> SUFFICES ASSUME IInv, [Next]_vars, TypeOK'
             PROVE  ApiInv' /\ CacheInv' /\ WorkerInv' /\ ControllerInv'
  BY TypeStep DEF IInv
<1> USE ObjectFacts
    DEF IInv, TypeOK, ControllerSetTypeOK, ApiInv, CacheInv, WorkerInv, ControllerInv, Exists,
        Held, NotNewer, clusterVars, locals, ctlVars
<1> DEFINE Goal == ApiInv' /\ CacheInv' /\ WorkerInv' /\ ControllerInv'
<1>1. ASSUME NEW n \in Names, NEW spec \in Specs, UserCreates(n, spec) PROVE Goal
  BY <1>1 DEF UserCreates, UserUnchanged, NoStatus
<1>2. ASSUME NEW n \in Names, NEW spec \in Specs, UserModifies(n, spec) PROVE Goal
  <2> DEFINE p == [api[n] EXCEPT !.spec = spec, !.gen = @ + 1]
  <2>0. api[n] \in Object /\ api[n].gen < MaxGen
    BY <1>2 DEF UserModifies
  <2>1. p \in Object /\ api[n] \in Object
    BY <2>0, ObjectTypes
  <2>2. /\ p.uid = api[n].uid /\ p.deleting = api[n].deleting
        /\ p.finalizer = api[n].finalizer /\ p.status = api[n].status /\ p.gen = api[n].gen + 1
    BY <2>1 DEF Object
  <2>3. api' = [api EXCEPT ![n] = p] /\ Exists(n) /\ uids' = uids /\ UserUnchanged
    BY <1>2 DEF UserModifies
  <2> HIDE DEF p
  <2>4. p.status.observed <= p.gen
    BY <2>1, <2>2, <2>3
  <2> QED
    BY <2>1, <2>2, <2>3, <2>4, Moves DEF UserUnchanged
<1>3. ASSUME NEW n \in Names, UserDeletes(n) PROVE Goal
  <2>1. CASE api[n].finalizer
    <3> DEFINE p == [api[n] EXCEPT !.deleting = TRUE]
    <3>0. api[n] \in Object
      BY <1>3 DEF UserDeletes
    <3>1. p \in Object /\ api[n] \in Object
      BY <3>0, ObjectTypes
    <3>2. /\ p.uid = api[n].uid /\ p.deleting
          /\ p.finalizer = api[n].finalizer /\ p.status = api[n].status /\ p.gen = api[n].gen
      BY <3>1 DEF Object
    <3>3. api' = [api EXCEPT ![n] = p] /\ Exists(n) /\ uids' = uids /\ UserUnchanged
      BY <1>3, <2>1 DEF UserDeletes
    <3> HIDE DEF p
    <3>4. p.status.observed <= p.gen
      BY <3>1, <3>2, <3>3
    <3> QED
      BY <3>1, <3>2, <3>3, <3>4, Moves DEF UserUnchanged
  <2>2. CASE ~api[n].finalizer
    <3>1. cache[n] # NoObject /\ cache[n].finalizer => cache[n].deleting
      BY <2>2
    <3>2. api' = [api EXCEPT ![n] = NoObject] /\ uids' = uids /\ UserUnchanged
      BY <1>3, <2>2 DEF UserDeletes
    <3>3. ~Held(n, base.uid) /\ n \notin owned
      BY <2>2
    <3> QED
      BY <3>1, <3>2, <3>3, Goes DEF UserUnchanged
  <2> QED
    BY <2>1, <2>2
<1>4. CASE ClusterChanges
  BY <1>4 DEF ClusterChanges
<1>5. ASSUME NEW n \in Names, CacheSync(n) PROVE Goal
  BY <1>5 DEF CacheSync
<1>6. ASSUME NEW n \in Names, Resync(n) PROVE Goal
  BY <1>6 DEF Resync
<1>7. ASSUME NEW n \in Names, Begin(n) PROVE Goal
  BY <1>7, NewStatusType DEF Begin, FirstStep
<1>8. CASE AddFinalizer
  <2> DEFINE p == [base EXCEPT !.finalizer = TRUE]
  <2>1. at = "addFinalizer" /\ up /\ Write(p, FALSE) /\ UNCHANGED <<config, ctlVars>>
    BY <1>8 DEF AddFinalizer, Step
  <2>2. /\ at' = "idle" /\ UNCHANGED <<uids, cache, up>>
        /\ api' = api \/ (UpToDate /\ api' = [api EXCEPT ![cur] = p])
    BY <2>1, WriteEnds
  <2>3. base \in Object
    BY <2>1
  <2>4. p \in Object /\ p.finalizer
    BY <2>3, ObjectTypes DEF Object
  <2>5. p.uid = base.uid /\ p.deleting = base.deleting /\ p.gen = base.gen
        /\ p.status = base.status
    BY <2>3 DEF Object
  <2> HIDE DEF p
  <2>6. CASE api' = api
    BY <2>1, <2>2, <2>6
  <2>7. CASE UpToDate /\ api' = [api EXCEPT ![cur] = p]
    BY <2>1, <2>2, <2>3, <2>4, <2>5, <2>7, Moves DEF UpToDate
  <2> QED
    BY <2>1, <2>2, <2>6, <2>7
<1>9. CASE LookupCRD \/ ResolveHook
  BY <1>9, ConditionTypes DEF LookupCRD, ResolveHook, Step, Goto, Failed, WorkerUnchanged
<1>10. CASE EnsureController
  BY <1>10, ConditionTypes DEF EnsureController, Step, Goto, Ensured, Own, WorkerUnchanged
<1>11. CASE EnsurePanics \/ Crash \/ Exit
  BY <1>11 DEF EnsurePanics, Crash, Exit, Die, Idle
<1>12. CASE UpdateStatus
  <2> DEFINE p == [api[cur] EXCEPT !.status = work]
  <2>1. at = "status" /\ up /\ Write(p, err) /\ UNCHANGED <<config, ctlVars>>
    BY <1>12 DEF UpdateStatus, Step
  <2>2. /\ at' = "idle" /\ UNCHANGED <<uids, cache, up>>
        /\ api' = api \/ (UpToDate /\ api' = [api EXCEPT ![cur] = p])
    BY <2>1, WriteEnds
  <2>3. CASE api' = api
    BY <2>1, <2>2, <2>3
  <2>4. CASE UpToDate /\ api' = [api EXCEPT ![cur] = p]
    <3>1. api[cur] \in Object /\ work.observed <= api[cur].gen
      BY <2>1, <2>4 DEF UpToDate
    <3>2. p \in Object /\ p.status = work
      BY <3>1, ObjectTypes DEF Object
    <3>3. p.uid = api[cur].uid /\ p.deleting = api[cur].deleting /\ p.gen = api[cur].gen
          /\ p.finalizer = api[cur].finalizer
      BY <3>1 DEF Object
    <3> HIDE DEF p
    <3> QED
      BY <2>1, <2>2, <2>4, <3>1, <3>2, <3>3, Moves
  <2> QED
    BY <2>1, <2>2, <2>3, <2>4
<1>13. CASE RemoveController
  BY <1>13 DEF RemoveController, RemoveOwned, Disown, Step, Goto, Done, Idle, WorkerUnchanged
<1>14. CASE RemoveFinalizer
  <2>1. at = "removeFinalizer" /\ up /\ Write(NoObject, FALSE) /\ UNCHANGED <<config, ctlVars>>
    BY <1>14 DEF RemoveFinalizer, Step
  <2>2. /\ at' = "idle" /\ UNCHANGED <<uids, cache, up>>
        /\ api' = api \/ (UpToDate /\ api' = [api EXCEPT ![cur] = NoObject])
    BY <2>1, WriteEnds
  <2>3. CASE api' = api
    BY <2>1, <2>2, <2>3
  <2>4. CASE UpToDate /\ api' = [api EXCEPT ![cur] = NoObject]
    <3>1. base \in Object /\ base.uid = uids[cur] /\ base.deleting
      BY <2>1, <2>4 DEF UpToDate
    <3>2. cache[cur] # NoObject => cache[cur].deleting
      BY <2>1, <3>1
    <3> QED
      BY <2>1, <2>2, <2>4, <3>2, Goes
  <2> QED
    BY <2>1, <2>2, <2>3, <2>4
<1>15. CASE Signal
  BY <1>15 DEF Signal, Close
<1>16. CASE Restart
  BY <1>16 DEF Restart
<1>17. CASE UNCHANGED vars
  BY <1>17 DEF vars
<1> QED
  BY <1>1, <1>2, <1>3, <1>4, <1>5, <1>6, <1>7, <1>8, <1>9, <1>10, <1>11, <1>12, <1>13, <1>14,
     <1>15, <1>16, <1>17 DEF Next, Users, Reconciling

(* IInv holds throughout: the theorems below rest on it. *)
THEOREM Invariance == Spec => []IInv
  BY InitInvariant, StepInvariant, PTL DEF Spec
-----------------------------------------------------------------------------
(* Every variable keeps its type. *)
THEOREM TypeCorrect == Spec => []TypeOK
<1>1. IInv => TypeOK
  BY DEF IInv
<1> QED
  BY <1>1, Invariance, PTL

(* Whatever crashes, is read late or is refused, a controller that runs    *)
(* has its registration, which cannot go before it.                        *)
THEOREM NoOrphan == Spec => []NoOrphanController
<1>1. IInv => NoOrphanController
  BY DEF IInv, ControllerInv, Held, NoOrphanController
<1> QED
  BY <1>1, Invariance, PTL

(* And that registration is the one it was started for. *)
THEOREM OfThisObject == Spec => []ControllerOfThisObject
<1>1. IInv => ControllerOfThisObject
  BY DEF IInv, ControllerInv, Held, ControllerOfThisObject
<1> QED
  BY <1>1, Invariance, PTL
-----------------------------------------------------------------------------
(* p may follow o in the API: nothing that was there is undone. *)
Follows(o, p) ==
  /\ p.gen >= o.gen
  /\ o.deleting => p.deleting
  /\ o.finalizer => p.finalizer
  /\ p.status.observed >= o.status.observed

(* No step of anybody undoes what is in the API. *)
LEMMA StepFollows ==
  ASSUME IInv, Next, NEW n \in Names, Exists(n), api'[n] # NoObject, api'[n] # api[n]
  PROVE  Follows(api[n], api'[n])
<1> USE ObjectFacts DEF IInv, TypeOK, Exists, clusterVars, Follows
<1>1. api[n] \in Object
  OBVIOUS
<1>2. ASSUME NEW m \in Names, NEW spec \in Specs, UserModifies(m, spec)
      PROVE  Follows(api[n], api'[n])
  BY <1>1, <1>2 DEF UserModifies, Object
<1>3. ASSUME NEW m \in Names, UserDeletes(m)
      PROVE  Follows(api[n], api'[n])
  BY <1>1, <1>3 DEF UserDeletes, Object
<1>4. CASE AddFinalizer
  <2>1. n = cur /\ api'[n] = [api[n] EXCEPT !.finalizer = TRUE]
    BY <1>4 DEF AddFinalizer, Write, UpToDate
  <2> QED
    BY <1>1, <2>1 DEF Object
<1>5. CASE UpdateStatus
  <2>1. n = cur /\ UpToDate /\ api'[n] = [api[cur] EXCEPT !.status = work]
    BY <1>5 DEF UpdateStatus, Write
  <2>2. work.observed = api[n].gen
    BY <1>5, <2>1 DEF UpdateStatus, Step, UpToDate, WorkerInv
  <2> QED
    BY <1>1, <2>1, <2>2 DEF ApiInv, Object
<1>6. CASE RemoveFinalizer
  BY <1>6 DEF RemoveFinalizer, Write
<1>7. ASSUME api' = api
      PROVE  Follows(api[n], api'[n])
  BY <1>7
<1>8. ASSUME NEW m \in Names, NEW spec \in Specs, UserCreates(m, spec)
      PROVE  Follows(api[n], api'[n])
  BY <1>8 DEF UserCreates
<1>9. ASSUME NEW m \in Names, CacheSync(m) \/ Resync(m) \/ Begin(m)
      PROVE  api' = api
  BY <1>9 DEF CacheSync, Resync, Begin
<1>10. CASE LookupCRD \/ ResolveHook \/ EnsureController \/ EnsurePanics \/ RemoveController
            \/ ClusterChanges \/ Crash \/ Signal \/ Exit \/ Restart
  BY <1>7, <1>10 DEF LookupCRD, ResolveHook, EnsureController, EnsurePanics, RemoveController,
     ClusterChanges, Crash, Signal, Exit, Restart, Die
<1> QED
  BY <1>2, <1>3, <1>4, <1>5, <1>6, <1>7, <1>8, <1>9, <1>10 DEF Next, Users, Reconciling

(* No write computed from an old read undoes a later one. *)
THEOREM NoRegress == Spec => NothingRegresses
<1>1. IInv /\ [Next]_vars =>
        [\A n \in Names :
           Exists(n) /\ api'[n] # NoObject /\ api'[n].uid = api[n].uid =>
             /\ api'[n].gen >= api[n].gen
             /\ api[n].deleting => api'[n].deleting
             /\ api[n].finalizer => api'[n].finalizer
             /\ api'[n].status.observed >= api[n].status.observed]_vars
  <2> SUFFICES ASSUME IInv, Next, NEW n \in Names, Exists(n), api'[n] # NoObject
               PROVE  Follows(api[n], api'[n])
    BY DEF Follows
  <2>1. CASE api'[n] # api[n]
    BY <2>1, StepFollows
  <2>2. CASE api'[n] = api[n]
    BY <2>2, ObjectFacts DEF Follows, IInv, TypeOK, Exists
  <2> QED
    BY <2>1, <2>2
<1> QED
  BY <1>1, Invariance, PTL DEF Spec, NothingRegresses
-----------------------------------------------------------------------------
(* The reconciler uses the registry as its contract allows: in the life of *)
(* a process each step is one of ControllerSet or leaves it alone.         *)
THEOREM ContractKept == Spec => [][up /\ up' => [ControllerSetNext]_ctlVars]_vars
<1>1. IInv /\ [Next]_vars => [up /\ up' => [ControllerSetNext]_ctlVars]_vars
  <2> SUFFICES ASSUME IInv, Next, up, up'
               PROVE  ControllerSetNext \/ UNCHANGED ctlVars
    OBVIOUS
  <2> USE DEF IInv, TypeOK
  <2>1. CASE EnsureController \/ RemoveController
    BY <2>1 DEF EnsureController, RemoveController, RemoveOwned, ControllerSetNext
  <2>2. CASE Signal
    BY <2>2 DEF Signal, ControllerSetNext
  <2>3. CASE AddFinalizer \/ LookupCRD \/ ResolveHook \/ UpdateStatus \/ RemoveFinalizer
    BY <2>3 DEF AddFinalizer, LookupCRD, ResolveHook, UpdateStatus, RemoveFinalizer
  <2>4. CASE EnsurePanics \/ Crash \/ Exit \/ Restart
    BY <2>4 DEF EnsurePanics, Crash, Exit, Die, Restart
  <2>5. ASSUME NEW n \in Names, CacheSync(n) \/ Resync(n) \/ Begin(n)
        PROVE  UNCHANGED ctlVars
    BY <2>5 DEF CacheSync, Resync, Begin
  <2>6. CASE Users
    BY <2>6 DEF Users, UserCreates, UserModifies, UserDeletes, UserUnchanged, ClusterChanges
  <2> QED
    BY <2>1, <2>2, <2>3, <2>4, <2>5, <2>6 DEF Next, Reconciling
<1> QED
  BY <1>1, Invariance, PTL DEF Spec
=============================================================================
