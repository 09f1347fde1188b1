--------------------------- MODULE RegistryProofs ---------------------------
(***************************************************************************)
(* The safety properties of Registry, and that it implements ControllerSet,*)
(* for every set of names, instances and workers.                          *)
(*                                                                         *)
(* The argument is one inductive invariant.  The lock makes the calls and  *)
(* the shutdown goroutine exclusive, so the map only changes while not     *)
(* closing, and never between the check and the store of an ensure; every  *)
(* instance that is not cancelled is therefore in the map or in the hands  *)
(* of the one worker that is about to store it.                            *)
(***************************************************************************)
EXTENDS Registry, TLAPS

(* The lock is held by exactly those inside its critical sections. *)
LockInv ==
  /\ \A w \in Workers : pc[w] \in Held <=> lock = w
  /\ shutdown \in Stopping <=> lock = "shutdown"

(* The phases of the shutdown. *)
ClosingInv ==
  /\ shutdown = "waitCtx" <=> ~ctxDone
  /\ closing <=> shutdown \in Stopping \cup {"closed"}
  /\ \A w \in Workers : pc[w] \in {"ensureStore", "removeWait"} => ~closing

(* What the map holds was started for the name it is held for. *)
MapInv ==
  \A n \in Names : controllers[n] # "none" =>
    owner[controllers[n]] = n /\ phase[controllers[n]] # "none"

(* A call between two of its steps still finds what the first one left. *)
CallInv ==
  \A w \in Workers :
    /\ pc[w] = "ensureStore" =>
         /\ started[w] \in Controllers
         /\ owner[started[w]] = arg[w]
         /\ phase[started[w]] \in {"running", "sending"}
         /\ controllers[arg[w]] = "none"
    /\ pc[w] = "removeWait" =>
         controllers[arg[w]] # "none" /\ cancelled[controllers[arg[w]]]

(* LiveIsTracked for the contexts entry.cancel() has not cancelled, which  *)
(* the signal leaves alone: LiveIsTracked itself is not inductive.         *)
TrackInv ==
  \A c \in Controllers : phase[c] \in {"running", "sending"} /\ ~cancelled[c] =>
    \/ controllers[owner[c]] = c
    \/ \E w \in Workers : Storing(w, c) /\ arg[w] = owner[c]

(* The stoppers: one per entry, and each that is done has seen a clean     *)
(* stop or left an error behind.                                           *)
StopInv ==
  /\ \A n \in Names : stopper[n] # "none" <=> closing /\ controllers[n] # "none"
  /\ \A n \in Names : stopper[n] = "done" =>
       \/ errs # {}
       \/ phase[controllers[n]] = "ended" /\ ~failed[controllers[n]]
  /\ shutdown = "closed" =>
       (\A n \in Names : stopper[n] \in {"none", "done"}) /\ (errs = {} \/ main = "reported")
  /\ shutdown = "sending" => \A n \in Names : stopper[n] \in {"none", "done"}
  /\ main = "clean" => shutdown = "closed"

IInv ==
  /\ TypeOK
  /\ LockInv
  /\ ClosingInv
  /\ MapInv
  /\ CallInv
  /\ TrackInv
  /\ EntryHasAResult
  /\ StopInv
-----------------------------------------------------------------------------
(* The initial states satisfy the invariant: nothing runs, nothing is held. *)
LEMMA InitInvariant == Init => IInv
<1> SUFFICES ASSUME Init PROVE IInv
  OBVIOUS
<1> USE RegistryAssumption DEF Init, Held, EnsureHeld, RemoveHeld, Stopping, Exits
<1>1. TypeOK
  BY DEF TypeOK
<1>2. LockInv /\ ClosingInv
  BY DEF LockInv, ClosingInv
<1>3. MapInv /\ CallInv /\ TrackInv
  BY DEF MapInv, CallInv, TrackInv
<1>4. EntryHasAResult /\ StopInv
  BY DEF EntryHasAResult, StopInv
<1> QED
  BY <1>1, <1>2, <1>3, <1>4 DEF IInv

(* Each step of the registry, of a controller and of main preserves it. *)
THEOREM StepInvariant == IInv /\ [Next]_vars => IInv'
<1> SUFFICES ASSUME IInv, [Next]_vars PROVE IInv'
  OBVIOUS
<1> USE RegistryAssumption
    DEF IInv, TypeOK, LockInv, ClosingInv, MapInv, CallInv, TrackInv,
        EntryHasAResult, StopInv, Storing, Alive, Held, EnsureHeld, RemoveHeld,
        Stopping, Exits, ctlState, workerState, stopState
<1>1. ASSUME NEW w \in Workers PROVE Acquire(w) => IInv'
  BY DEF Acquire
<1>2. ASSUME NEW w \in Workers, NEW n \in Names, CallEnsure(w, n) \/ CallRemove(w, n)
      PROVE IInv'
  BY <1>2 DEF CallEnsure, CallRemove, Call
<1>3. ASSUME NEW w \in Workers, CallStep(w) PROVE IInv'
  <2>1. CASE ReturnAtOnce(w)
    BY <2>1 DEF ReturnAtOnce, At, Return
  <2>2. ASSUME NEW c \in Controllers, EnsureStart(w, c) PROVE IInv'
    BY <2>2 DEF EnsureStart, At, Missing, Fresh
  <2>3. CASE EnsureStore(w)
    BY <2>3 DEF EnsureStore, At, Return
  <2>4. CASE RemoveCancel(w)
    BY <2>4 DEF RemoveCancel, At, CancelEntry
  <2>5. CASE RemoveReceive(w)
    BY <2>5 DEF RemoveReceive, At, Return, Receive, DeleteEntry
  <2>6. CASE RemoveTimeout(w)
    BY <2>6 DEF RemoveTimeout, At, Return, DeleteEntry
  <2> QED
    BY <1>3, <2>1, <2>2, <2>3, <2>4, <2>5, <2>6 DEF CallStep
<1>4. ASSUME NEW c \in Controllers, NEW failure \in BOOLEAN, StartReturns(c, failure)
      PROVE IInv'
  BY <1>4 DEF StartReturns
<1>5. CASE Signal
  BY <1>5 DEF Signal
<1>6. CASE ShutdownAcquire
  BY <1>6 DEF ShutdownAcquire
<1>7. ASSUME NEW n \in Names, StopperStep(n) PROVE IInv'
  <2>1. CASE StopperCancel(n)
    BY <2>1 DEF StopperCancel, StopperAt, CancelEntry
  <2>2. CASE StopperReceive(n)
    BY <2>2 DEF StopperReceive, StopperAt, Receive, BeginAppend
  <2>3. CASE StopperTimeout(n)
    BY <2>3 DEF StopperTimeout, StopperAt, BeginAppend
  <2>4. CASE StopperAppend(n)
    BY <2>4 DEF StopperAppend, StopperAt, Appended
  <2> QED
    BY <1>7, <2>1, <2>2, <2>3, <2>4 DEF StopperStep
<1>8. CASE ShutdownJoin
  BY <1>8 DEF ShutdownJoin, Joined
<1>9. CASE ManagerStops \/ ManagerFails
  BY <1>9 DEF ManagerStops, ManagerFails, MainMoves
<1>10. CASE MainStep
  <2>1. CASE MainReceives
    BY <2>1 DEF MainReceives, MainMoves
  <2>2. CASE ManagerGraceExpires \/ MainSeesClosed \/ MainTimesOut
    BY <2>2 DEF ManagerGraceExpires, MainSeesClosed, MainTimesOut, MainMoves
  <2> QED
    BY <1>10, <2>1, <2>2 DEF MainStep
<1>11. CASE Exited \/ UNCHANGED vars
  BY <1>11 DEF Exited, vars
<1> QED
  BY <1>1, <1>2, <1>3, <1>4, <1>5, <1>6, <1>7, <1>8, <1>9, <1>10, <1>11
  DEF Next, ControllerStops, ControllerFails

(* IInv holds throughout: every theorem below rests on it. *)
THEOREM Invariance == Spec => []IInv
<1>1. IInv /\ [Next]_vars => IInv'
  BY StepInvariant
<1> QED
  BY <1>1, InitInvariant, PTL DEF Spec
-----------------------------------------------------------------------------
(* Every variable keeps its type. *)
THEOREM TypeCorrect == Spec => []TypeOK
<1>1. IInv => TypeOK
  BY DEF IInv
<1> QED
  BY <1>1, Invariance, PTL

(* Every live controller is in the map or about to be stored there. *)
THEOREM LiveIsTrackedAlways == Spec => []LiveIsTracked
<1>1. IInv => LiveIsTracked
  BY DEF IInv, TrackInv, LiveIsTracked, Live, Cancelled
<1> QED
  BY <1>1, Invariance, PTL

(* No two live controllers for one name: both are in the map's one entry,  *)
(* or one is being stored, and then the entry is empty and the lock makes  *)
(* its worker, hence the instance, unique.                                 *)
LEMMA UniqueLive == IInv => OneLivePerName
<1> SUFFICES ASSUME IInv, NEW c \in Controllers, NEW d \in Controllers,
                    Live(c), Live(d), owner[c] = owner[d]
             PROVE  c = d
  BY DEF OneLivePerName
<1>1. ASSUME NEW x \in Controllers, Live(x)
      PROVE  \/ controllers[owner[x]] = x
             \/ \E w \in Workers : Storing(w, x) /\ controllers[owner[x]] = "none"
  BY <1>1 DEF IInv, TrackInv, CallInv, Live, Cancelled, Storing
<1>2. ASSUME NEW v \in Workers, NEW w \in Workers, Storing(v, c), Storing(w, d)
      PROVE  c = d
  BY <1>2 DEF IInv, LockInv, Storing, Held, EnsureHeld
<1> QED
  BY <1>1, <1>2, RegistryAssumption

(* A registration never has two live controllers (registry.go:108-171). *)
THEOREM OneLivePerNameAlways == Spec => []OneLivePerName
  BY UniqueLive, Invariance, PTL

(* A result is consumed once. *)
THEOREM EntryHasAResultAlways == Spec => []EntryHasAResult
<1>1. IInv => EntryHasAResult
  BY DEF IInv
<1> QED
  BY <1>1, Invariance, PTL

(* A clean exit means that each controller in the map ended without error. *)
THEOREM CleanExit == Spec => []CleanExitMeansStopped
<1>1. IInv => CleanExitMeansStopped
  BY DEF IInv, StopInv, ClosingInv, CleanExitMeansStopped, Stopping
<1> QED
  BY <1>1, Invariance, PTL

(* No controller starts once the registry is closing. *)
THEOREM NoStart == Spec => NoStartWhenClosing
<1>1. IInv /\ [Next]_vars =>
        [closing => \A c \in Controllers : phase[c] # "running" => phase'[c] # "running"]_vars
  <2> SUFFICES ASSUME IInv, Next, closing, NEW c \in Controllers, phase[c] # "running"
               PROVE  phase'[c] # "running"
    OBVIOUS
  <2> USE DEF IInv, TypeOK, MapInv
  <2>1. ASSUME NEW w \in Workers, CallStep(w)
        PROVE  phase'[c] # "running"
    BY <2>1 DEF CallStep, ReturnAtOnce, EnsureStart, EnsureStore, Missing, RemoveCancel,
       RemoveReceive, RemoveTimeout, Receive, ctlState
  <2>2. ASSUME NEW d \in Controllers, ControllerStops(d) \/ ControllerFails(d)
        PROVE  phase'[c] # "running"
    BY <2>2 DEF ControllerStops, ControllerFails, StartReturns
  <2>3. ASSUME NEW n \in Names, StopperStep(n)
        PROVE  phase'[c] # "running"
    BY <2>3 DEF StopperStep, StopperCancel, StopperReceive, StopperTimeout,
       StopperAppend, Receive, ctlState
  <2>4. ASSUME NEW w \in Workers, NEW n \in Names, CallEnsure(w, n) \/ CallRemove(w, n)
        PROVE  phase' = phase
    BY <2>4 DEF CallEnsure, CallRemove, Call, ctlState
  <2>5. ASSUME NEW w \in Workers, Acquire(w)
        PROVE  phase' = phase
    BY <2>5 DEF Acquire, ctlState
  <2>6. CASE Signal \/ ShutdownAcquire \/ ShutdownJoin \/ ManagerStops \/ ManagerFails
             \/ MainStep \/ Exited
    BY <2>6 DEF Signal, ShutdownAcquire, ShutdownJoin, ManagerStops, ManagerFails,
       MainStep, ManagerGraceExpires, MainReceives, MainSeesClosed, MainTimesOut,
       MainMoves, Exited, vars, ctlState
  <2> QED
    BY <2>1, <2>2, <2>3, <2>4, <2>5, <2>6 DEF Next
<1> QED
  BY <1>1, Invariance, PTL DEF Spec, NoStartWhenClosing
-----------------------------------------------------------------------------
(***************************************************************************)
(* The registry implements ControllerSet.  Starting an instance is Own,    *)
(* cancelling the one in the map is Disown, the signal is Close, and every *)
(* other step, and every step after the signal, is a stutter.              *)
(***************************************************************************)
Owned == {n \in Names : \E c \in Controllers : Live(c) /\ owner[c] = n}

(* A step that leaves alone what Live depends on is a stutter. *)
LEMMA Stutter ==
  ASSUME ctxDone' = ctxDone, owner' = owner, cancelled' = cancelled,
         \A c \in Controllers : phase'[c] \in {"running", "sending"}
                                  <=> phase[c] \in {"running", "sending"}
  PROVE  UNCHANGED <<Owned, ~ctxDone>>
  BY DEF Owned, Live, Cancelled

(* Receiving the result of a cancelled instance changes nothing. *)
LEMMA ReceiveStutters ==
  ASSUME NEW c \in Controllers, Receive(c), Cancelled(c), TypeOK,
         ctxDone' = ctxDone, owner' = owner, cancelled' = cancelled
  PROVE  UNCHANGED <<Owned, ~ctxDone>>
<1>1. \A d \in Controllers : Live(d)' <=> Live(d)
  BY DEF Live, Cancelled, Receive, TypeOK
<1> QED
  BY <1>1 DEF Owned

(* EnsureStart adds the name it was called for, unless the signal is given. *)
LEMMA StartOwns ==
  ASSUME IInv, NEW w \in Workers, NEW c \in Controllers, EnsureStart(w, c), ~ctxDone
  PROVE  Contract!Own(arg[w])
<1> USE DEF IInv, TypeOK
<1>1. arg[w] \notin Owned
  BY RegistryAssumption DEF Owned, Live, Cancelled, TrackInv, CallInv, LockInv, Storing,
     EnsureStart, At, Missing, Held, EnsureHeld
<1>2. \A d \in Controllers : Live(d)' <=> d = c \/ Live(d)
  BY DEF Live, Cancelled, EnsureStart
<1>3. ~Live(c) /\ owner'[c] = arg[w] /\ \A d \in Controllers \ {c} : owner'[d] = owner[d]
  BY DEF EnsureStart, Fresh, Live
<1>4. Owned' = Owned \cup {arg[w]}
  BY <1>2, <1>3 DEF Owned
<1>5. ctxDone' = ctxDone
  BY DEF EnsureStart
<1> QED
  BY <1>1, <1>4, <1>5 DEF Contract!Own, Owned

(* RemoveCancel takes away the name it was called for: the instance in the *)
(* map is the only live one of that name.                                  *)
LEMMA CancelDisowns ==
  ASSUME IInv, NEW w \in Workers, RemoveCancel(w)
  PROVE  \/ Contract!Disown(arg[w])
         \/ UNCHANGED <<Owned, ~ctxDone>>
<1> USE DEF IInv, TypeOK
<1> DEFINE c == controllers[arg[w]]
<1>1. c \in Controllers /\ owner[c] = arg[w]
  BY DEF RemoveCancel, At, MapInv
<1>2. \A d \in Controllers : Live(d)' <=> d # c /\ Live(d)
  BY <1>1 DEF RemoveCancel, CancelEntry, Live, Cancelled
<1>3. owner' = owner /\ ctxDone' = ctxDone
  BY DEF RemoveCancel
<1>4. CASE Live(c)
  <2>1. Owned' = Owned \ {arg[w]} /\ arg[w] \in Owned
    BY <1>1, <1>2, <1>3, <1>4, UniqueLive DEF Owned, OneLivePerName
  <2> QED
    BY <1>3, <2>1 DEF Contract!Disown, Owned
<1>5. CASE ~Live(c)
  BY <1>2, <1>3, <1>5 DEF Owned
<1> QED
  BY <1>4, <1>5

(* Every step is a step of the contract or a stutter. *)
LEMMA StepImplements ==
  IInv /\ [Next]_vars => [Contract!ControllerSetNext]_(Contract!ctlVars)
<1> SUFFICES ASSUME IInv, [Next]_vars
             PROVE  Contract!ControllerSetNext \/ UNCHANGED <<Owned, ~ctxDone>>
  BY DEF Contract!ctlVars, Owned
<1> USE DEF IInv
<1>1. ASSUME NEW w \in Workers, NEW c \in Controllers, EnsureStart(w, c)
      PROVE  Contract!ControllerSetNext \/ UNCHANGED <<Owned, ~ctxDone>>
  <2>1. CASE ctxDone
    <3>1. ctxDone'
      BY <1>1, <2>1 DEF EnsureStart
    <3>2. Owned = {} /\ Owned' = {}
      BY <2>1, <3>1 DEF Owned, Live, Cancelled
    <3> QED
      BY <2>1, <3>1, <3>2
  <2>2. CASE ~ctxDone
    <3>1. arg[w] \in Names /\ Contract!Own(arg[w])
      BY <1>1, <2>2, StartOwns DEF TypeOK
    <3> QED
      BY <3>1 DEF Contract!ControllerSetNext, Contract!Own
  <2> QED
    BY <2>1, <2>2
<1>2. ASSUME NEW w \in Workers, CallStep(w)
      PROVE  Contract!ControllerSetNext \/ UNCHANGED <<Owned, ~ctxDone>>
  <2>1. CASE ReturnAtOnce(w) \/ EnsureStore(w) \/ RemoveTimeout(w)
    BY <2>1, Stutter DEF ReturnAtOnce, EnsureStore, RemoveTimeout, ctlState
  <2>2. CASE RemoveCancel(w)
    <3>1. arg[w] \in Names
      BY DEF TypeOK
    <3>2. Contract!Disown(arg[w]) \/ UNCHANGED <<Owned, ~ctxDone>>
      BY <2>2, CancelDisowns
    <3> QED
      BY <3>1, <3>2 DEF Contract!ControllerSetNext, Contract!Disown
  <2>3. CASE RemoveReceive(w)
    <3> DEFINE c == controllers[arg[w]]
    <3>1. c \in Controllers /\ Cancelled(c)
      BY <2>3 DEF RemoveReceive, At, CallInv, TypeOK, Cancelled
    <3>2. Receive(c) /\ UNCHANGED <<ctxDone, owner, cancelled>>
      BY <2>3 DEF RemoveReceive
    <3> QED
      BY <3>1, <3>2, ReceiveStutters
  <2> QED
    BY <1>1, <1>2, <2>1, <2>2, <2>3 DEF CallStep
<1>3. ASSUME NEW c \in Controllers, NEW failure \in BOOLEAN, StartReturns(c, failure)
      PROVE  UNCHANGED <<Owned, ~ctxDone>>
  BY <1>3, Stutter DEF StartReturns, TypeOK
<1>4. CASE Signal
  <2>1. Owned' = {} /\ ~ctxDone /\ ctxDone'
    BY <1>4 DEF Signal, Owned, Live, Cancelled
  <2> QED
    BY <2>1 DEF Contract!ControllerSetNext, Contract!Close, Owned
<1>5. ASSUME NEW n \in Names, StopperStep(n)
      PROVE  UNCHANGED <<Owned, ~ctxDone>>
  <2>1. ctxDone /\ ctxDone'
    BY <1>5 DEF StopperStep, StopperCancel, StopperReceive, StopperTimeout, StopperAppend,
       StopperAt, ClosingInv, Stopping
  <2>2. Owned = {} /\ Owned' = {}
    BY <2>1 DEF Owned, Live, Cancelled
  <2> QED
    BY <2>1, <2>2
<1>6. ASSUME UNCHANGED <<ctxDone, ctlState>>
      PROVE  UNCHANGED <<Owned, ~ctxDone>>
  BY <1>6, Stutter DEF ctlState
<1>7. ASSUME NEW w \in Workers, NEW n \in Names,
             CallEnsure(w, n) \/ CallRemove(w, n)
      PROVE  UNCHANGED <<ctxDone, ctlState>>
  BY <1>7 DEF CallEnsure, CallRemove, Call
<1>8. ASSUME NEW w \in Workers, Acquire(w)
      PROVE  UNCHANGED <<ctxDone, ctlState>>
  BY <1>8 DEF Acquire
<1>9. CASE ShutdownAcquire \/ ShutdownJoin \/ ManagerStops \/ ManagerFails \/ MainStep
           \/ Exited \/ UNCHANGED vars
  <2>1. UNCHANGED <<ctxDone, ctlState>>
    BY <1>9 DEF ShutdownAcquire, ShutdownJoin, ManagerStops, ManagerFails, MainStep,
       ManagerGraceExpires, MainReceives, MainSeesClosed, MainTimesOut, MainMoves,
       Exited, vars
  <2> QED
    BY <2>1, <1>6
<1> QED
  BY <1>1, <1>2, <1>3, <1>4, <1>5, <1>6, <1>7, <1>8, <1>9
  DEF Next, ControllerStops, ControllerFails

(* The refinement. *)
THEOREM Refinement == Spec => ImplementsContract
<1>1. Init => Contract!ControllerSetInit
  BY DEF Init, Contract!ControllerSetInit, Live
<1>2. IInv /\ [Next]_vars => [Contract!ControllerSetNext]_(Contract!ctlVars)
  BY StepImplements
<1> QED
  BY <1>1, <1>2, Invariance, PTL DEF Spec, ImplementsContract, Contract!ControllerSetSpec
=============================================================================
