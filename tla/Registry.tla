------------------------------ MODULE Registry ------------------------------
(***************************************************************************)
(* The component registry of pkg/registration/registry/registry.go: the    *)
(* map of component controllers, the lock around it, the goroutine each    *)
(* controller runs in (pkg/component/builder/builder.go), the shutdown     *)
(* goroutine New starts, and the part of main that waits for it            *)
(* (cmd/scoby-controller/main.go).                                         *)
(*                                                                         *)
(* A worker is a goroutine of the controller that reconciles               *)
(* registrations; its calls to the registry are EnsureComponentController  *)
(* and RemoveComponentController.  Timers are abstracted: a timeout may    *)
(* fire at any moment of the wait it bounds.                               *)
(***************************************************************************)
EXTENDS FiniteSets

CONSTANTS
  Names,        \* names of the registrations, keys of the map
  Controllers,  \* controller instances, a bound on those alive at once
  Workers       \* goroutines that reconcile registrations

ASSUME RegistryAssumption ==
  /\ "none" \notin Controllers
  /\ {"free", "shutdown"} \cap Workers = {}

VARIABLES
  ctxDone,      \* the signal context of the process is cancelled
  lock,         \* cr.lock: its holder, or "free"
  closing,      \* cr.closing
  controllers,  \* cr.controllers: the instance of each name, or "none"
  phase,        \* of each instance: its goroutine (builder.go:104-107)
  owner,        \* of each instance: the name it was last started for
  cancelled,    \* of each instance: entry.cancel() was called
  failed,       \* of each instance: Start returned an error
  pc,           \* of each worker: where it is in a call
  arg,          \* of each worker: the name it was last called with
  started,      \* of each worker: the instance between start and store
  shutdown,     \* where the shutdown goroutine is
  stopper,      \* of each name: the goroutine that stops its controller
  errs,         \* the errors collected at shutdown, as names
  seen,         \* of each name: errs as its append read it
  main          \* where main is, and how it ended

ctlState    == <<phase, owner, cancelled, failed>>
workerState == <<pc, arg, started>>
stopState   == <<shutdown, stopper, errs, seen>>
vars == <<ctxDone, lock, closing, controllers, ctlState, workerState, stopState, main>>

Exits == {"clean", "reported", "timedOut", "fatal"}
Alive == main \notin Exits

EnsureHeld == {"ensureHeld", "ensureStore"}
RemoveHeld == {"removeHeld", "removeWait"}
Held       == EnsureHeld \cup RemoveHeld
Stopping   == {"stopping", "sending"}

TypeOK ==
  /\ ctxDone \in BOOLEAN
  /\ lock \in Workers \cup {"free", "shutdown"}
  /\ closing \in BOOLEAN
  /\ controllers \in [Names -> Controllers \cup {"none"}]
  /\ phase \in [Controllers -> {"none", "running", "sending", "ended"}]
  /\ owner \in [Controllers -> Names]
  /\ cancelled \in [Controllers -> BOOLEAN]
  /\ failed \in [Controllers -> BOOLEAN]
  /\ pc \in [Workers -> {"idle", "ensureLock", "removeLock"} \cup Held]
  /\ arg \in [Workers -> Names]
  /\ started \in [Workers -> Controllers \cup {"none"}]
  /\ shutdown \in {"waitCtx", "lock", "closed"} \cup Stopping
  /\ stopper \in [Names -> {"none", "spawned", "waiting", "appending", "done"}]
  /\ errs \in SUBSET Names
  /\ seen \in [Names -> SUBSET Names]
  /\ main \in {"manager", "select"} \cup Exits

Init ==
  /\ ctxDone = FALSE
  /\ lock = "free"
  /\ closing = FALSE
  /\ controllers = [n \in Names |-> "none"]
  /\ phase = [c \in Controllers |-> "none"]
  /\ \E n \in Names : /\ owner = [c \in Controllers |-> n]
                      /\ arg = [w \in Workers |-> n]
  /\ cancelled = [c \in Controllers |-> FALSE]
  /\ failed = [c \in Controllers |-> FALSE]
  /\ pc = [w \in Workers |-> "idle"]
  /\ started = [w \in Workers |-> "none"]
  /\ shutdown = "waitCtx"
  /\ stopper = [n \in Names |-> "none"]
  /\ errs = {}
  /\ seen = [n \in Names |-> {}]
  /\ main = "manager"

(***************************************************************************)
(* Calls of the registration reconciler.  The workqueue never hands the    *)
(* same name to two workers, and is drained after the signal, so calls go  *)
(* on until the manager has stopped.                                       *)
(***************************************************************************)
Call(w, n, at) ==
  /\ main = "manager"
  /\ pc[w] = "idle"
  /\ \A v \in Workers : pc[v] # "idle" => arg[v] # n
  /\ pc' = [pc EXCEPT ![w] = at]
  /\ arg' = [arg EXCEPT ![w] = n]
  /\ UNCHANGED <<ctxDone, lock, closing, controllers, ctlState, started, stopState, main>>

CallEnsure(w, n) == Call(w, n, "ensureLock")
CallRemove(w, n) == Call(w, n, "removeLock")

(* Names ending in a suffix after _ are faulty variants of the definition  *)
(* that follows them; no specification uses one.  The runs on a variant    *)
(* show that the properties notice the fault.                              *)

(* cr.lock.Lock() *)
Acquire(w) ==
  /\ Alive
  /\ lock = "free"
  /\ \/ pc[w] = "ensureLock" /\ pc' = [pc EXCEPT ![w] = "ensureHeld"]
     \/ pc[w] = "removeLock" /\ pc' = [pc EXCEPT ![w] = "removeHeld"]
  /\ lock' = w
  /\ UNCHANGED <<ctxDone, closing, controllers, ctlState, arg, started, stopState, main>>

(* The end of a call: the deferred Unlock. *)
Return(w) ==
  /\ pc' = [pc EXCEPT ![w] = "idle"]
  /\ lock' = "free"
  /\ UNCHANGED arg

At(w, at) == Alive /\ pc[w] = at

(***************************************************************************)
(* EnsureComponentController                                               *)
(***************************************************************************)
Missing_NotLookedUp(w) == ~closing
Missing_WhenClosing(w) == controllers[arg[w]] = "none"
Missing(w) == ~closing /\ controllers[arg[w]] = "none"

(* Calls that change nothing: both return once closing, an ensure of a     *)
(* name in the map or whose StartNewReconciler fails before it starts a    *)
(* goroutine, a remove of a name not in the map.                           *)
ReturnAtOnce(w) ==
  /\ \/ At(w, "ensureHeld") /\ (closing \/ controllers[arg[w]] # "none" \/ Missing(w))
     \/ At(w, "removeHeld") /\ (closing \/ controllers[arg[w]] = "none")
  /\ Return(w)
  /\ UNCHANGED <<ctxDone, closing, controllers, ctlState, started, stopState, main>>

(* An instance that no goroutine runs and no entry holds is a new one. *)
Fresh(c) == phase[c] \in {"none", "ended"} /\ \A n \in Names : controllers[n] # c

(* StartNewReconciler starts the goroutine under a child of cr.context. *)
EnsureStart(w, c) ==
  /\ At(w, "ensureHeld")
  /\ Missing(w)
  /\ Fresh(c)
  /\ phase' = [phase EXCEPT ![c] = "running"]
  /\ owner' = [owner EXCEPT ![c] = arg[w]]
  /\ cancelled' = [cancelled EXCEPT ![c] = FALSE]
  /\ failed' = [failed EXCEPT ![c] = FALSE]
  /\ started' = [started EXCEPT ![w] = c]
  /\ pc' = [pc EXCEPT ![w] = "ensureStore"]
  /\ UNCHANGED <<ctxDone, lock, closing, controllers, arg, stopState, main>>

EnsureStore(w) ==
  /\ At(w, "ensureStore")
  /\ controllers' = [controllers EXCEPT ![arg[w]] = started[w]]
  /\ started' = [started EXCEPT ![w] = "none"]
  /\ Return(w)
  /\ UNCHANGED <<ctxDone, closing, ctlState, stopState, main>>

(***************************************************************************)
(* RemoveComponentController                                               *)
(***************************************************************************)
CancelEntry_Forgotten(n) == UNCHANGED cancelled
CancelEntry(n) == cancelled' = [cancelled EXCEPT ![controllers[n]] = TRUE]

RemoveCancel(w) ==
  /\ At(w, "removeHeld")
  /\ ~closing
  /\ controllers[arg[w]] # "none"
  /\ CancelEntry(arg[w])
  /\ pc' = [pc EXCEPT ![w] = "removeWait"]
  /\ UNCHANGED <<ctxDone, lock, closing, controllers, phase, owner, failed,
                 arg, started, stopState, main>>

DeleteEntry_Forgotten(n) == UNCHANGED controllers
DeleteEntry(n) == controllers' = [controllers EXCEPT ![n] = "none"]

(* The controller's result arrives: reconcilerCh is unbuffered, so the     *)
(* goroutine's send and this receive are one step.                         *)
Receive(c) == phase[c] = "sending" /\ phase' = [phase EXCEPT ![c] = "ended"]

RemoveReceive(w) ==
  /\ At(w, "removeWait")
  /\ Receive(controllers[arg[w]])
  /\ DeleteEntry(arg[w])
  /\ Return(w)
  /\ UNCHANGED <<ctxDone, closing, owner, cancelled, failed, started, stopState, main>>

(* registryGracefulTimeout passes first: the entry goes, its goroutine stays. *)
RemoveTimeout(w) ==
  /\ At(w, "removeWait")
  /\ DeleteEntry(arg[w])
  /\ Return(w)
  /\ UNCHANGED <<ctxDone, closing, ctlState, started, stopState, main>>

(***************************************************************************)
(* A controller's goroutine: c.Start(ctx), then the send of its result.    *)
(***************************************************************************)
Cancelled_Detached(c) == cancelled[c]
Cancelled(c) == ctxDone \/ cancelled[c]

StartReturns(c, failure) ==
  /\ Alive
  /\ phase[c] = "running"
  /\ phase' = [phase EXCEPT ![c] = "sending"]
  /\ failed' = [failed EXCEPT ![c] = failure]
  /\ UNCHANGED <<ctxDone, lock, closing, controllers, owner, cancelled,
                 workerState, stopState, main>>

(* Its reconciliations done, a cancelled controller stops. *)
ControllerStops(c) == Cancelled(c) /\ StartReturns(c, FALSE)

(* Start fails by itself, as when its informers cannot sync. *)
ControllerFails(c) == StartReturns(c, TRUE)

(***************************************************************************)
(* The shutdown goroutine                                                  *)
(***************************************************************************)
(* The process is told to stop: the goroutine wakes from <-ctx.Done(). *)
Signal ==
  /\ Alive
  /\ ~ctxDone
  /\ ctxDone' = TRUE
  /\ shutdown' = "lock"
  /\ UNCHANGED <<lock, closing, controllers, ctlState, workerState,
                 stopper, errs, seen, main>>

(* Under the lock: no more controllers, and a goroutine to stop each one. *)
ShutdownAcquire ==
  /\ Alive
  /\ shutdown = "lock"
  /\ lock = "free"
  /\ lock' = "shutdown"
  /\ closing' = TRUE
  /\ shutdown' = "stopping"
  /\ stopper' = [n \in Names |-> IF controllers[n] = "none" THEN "none" ELSE "spawned"]
  /\ UNCHANGED <<ctxDone, controllers, ctlState, workerState, errs, seen, main>>

StopperAt(n, at) == Alive /\ shutdown = "stopping" /\ stopper[n] = at

StopperCancel(n) ==
  /\ StopperAt(n, "spawned")
  /\ CancelEntry(n)
  /\ stopper' = [stopper EXCEPT ![n] = "waiting"]
  /\ UNCHANGED <<ctxDone, lock, closing, controllers, phase, owner, failed,
                 workerState, shutdown, errs, seen, main>>

(* errs = append(errs, ...) runs without a lock in each goroutine: it      *)
(* reads the slice, then writes it back, and one append may undo another.  *)
BeginAppend(n) ==
  /\ stopper' = [stopper EXCEPT ![n] = "appending"]
  /\ seen' = [seen EXCEPT ![n] = errs]

StopperReceive(n) ==
  /\ StopperAt(n, "waiting")
  /\ Receive(controllers[n])
  /\ \/ /\ failed[controllers[n]]
        /\ BeginAppend(n)
     \/ /\ ~failed[controllers[n]]
        /\ stopper' = [stopper EXCEPT ![n] = "done"]
        /\ UNCHANGED seen
  /\ UNCHANGED <<ctxDone, lock, closing, controllers, owner, cancelled, failed,
                 workerState, shutdown, errs, main>>

StopperTimeout(n) ==
  /\ StopperAt(n, "waiting")
  /\ BeginAppend(n)
  /\ UNCHANGED <<ctxDone, lock, closing, controllers, ctlState,
                 workerState, shutdown, errs, main>>

Appended_Instance(n) == seen[n] \cup {controllers[n]}
Appended(n) == seen[n] \cup {n}

StopperAppend(n) ==
  /\ StopperAt(n, "appending")
  /\ errs' = Appended(n)
  /\ stopper' = [stopper EXCEPT ![n] = "done"]
  /\ UNCHANGED <<ctxDone, lock, closing, controllers, ctlState,
                 workerState, shutdown, seen, main>>

Joined_First == \E n \in Names : stopper[n] \in {"none", "done"}
Joined == \A n \in Names : stopper[n] \in {"none", "done"}

(* wg.Wait(): on to the send of the error when there is one, else to the   *)
(* close of the channel and the deferred Unlock.                           *)
ShutdownJoin ==
  /\ Alive
  /\ shutdown = "stopping"
  /\ Joined
  /\ \/ errs # {} /\ shutdown' = "sending" /\ UNCHANGED lock
     \/ errs = {} /\ shutdown' = "closed" /\ lock' = "free"
  /\ UNCHANGED <<ctxDone, closing, controllers, ctlState, workerState,
                 stopper, errs, seen, main>>

(***************************************************************************)
(* main                                                                    *)
(***************************************************************************)
MainMoves(from, to) ==
  /\ main = from
  /\ main' = to
  /\ UNCHANGED <<ctxDone, closing, controllers, ctlState, workerState, stopper, errs, seen>>

(* mgr.Start returns nil once the workers have stopped ... *)
ManagerStops ==
  /\ ctxDone
  /\ \A w \in Workers : pc[w] = "idle"
  /\ MainMoves("manager", "select")
  /\ UNCHANGED <<lock, shutdown>>

(* ... an error when they have not within its grace period ... *)
ManagerGraceExpires ==
  /\ ctxDone
  /\ \E w \in Workers : pc[w] # "idle"
  /\ MainMoves("manager", "fatal")
  /\ UNCHANGED <<lock, shutdown>>

(* ... and an error when the manager itself fails: os.Exit(1). *)
ManagerFails == MainMoves("manager", "fatal") /\ UNCHANGED <<lock, shutdown>>

(* The select over WaitStopChannel() and registryGracefulTimeout.  The     *)
(* receive is one step with the send, and the close and the Unlock that    *)
(* follow the send; once main has received, nothing else matters.          *)
MainReceives ==
  /\ shutdown = "sending"
  /\ MainMoves("select", "reported")
  /\ shutdown' = "closed"
  /\ lock' = "free"

MainSeesClosed ==
  /\ shutdown = "closed"
  /\ MainMoves("select", "clean")
  /\ UNCHANGED <<lock, shutdown>>

MainTimesOut == MainMoves("select", "timedOut") /\ UNCHANGED <<lock, shutdown>>

(* The process has ended. *)
Exited == ~Alive /\ UNCHANGED vars

(***************************************************************************)
(* Specification                                                           *)
(***************************************************************************)
CallStep_NoTimeout(w) ==
  \/ ReturnAtOnce(w)
  \/ (\E c \in Controllers : EnsureStart(w, c)) \/ EnsureStore(w)
  \/ RemoveCancel(w) \/ RemoveReceive(w)

CallStep(w) ==
  \/ ReturnAtOnce(w)
  \/ (\E c \in Controllers : EnsureStart(w, c)) \/ EnsureStore(w)
  \/ RemoveCancel(w) \/ RemoveReceive(w) \/ RemoveTimeout(w)

StopperStep(n) ==
  \/ StopperCancel(n) \/ StopperReceive(n) \/ StopperTimeout(n) \/ StopperAppend(n)

MainStep_NoTimeouts == MainReceives \/ MainSeesClosed

MainStep ==
  \/ ManagerGraceExpires \/ MainReceives \/ MainSeesClosed \/ MainTimesOut

Next ==
  \/ \E w \in Workers :
       \/ \E n \in Names : CallEnsure(w, n) \/ CallRemove(w, n)
       \/ Acquire(w) \/ CallStep(w)
  \/ \E c \in Controllers : ControllerStops(c) \/ ControllerFails(c)
  \/ Signal \/ ShutdownAcquire
  \/ \E n \in Names : StopperStep(n)
  \/ ShutdownJoin
  \/ ManagerStops \/ ManagerFails \/ MainStep
  \/ Exited

(* The scheduler runs every goroutine that can run and timers fire.  A     *)
(* goroutine waiting for a sync.RWMutex is not overtaken forever (strong   *)
(* fairness), and the queue drained after the signal is finite, so the     *)
(* workers, idle again and again, do stop.  Nothing is assumed of the      *)
(* callers, of the signal, nor of a controller: a reconciliation may hang. *)
Fairness ==
  /\ \A w \in Workers : /\ SF_vars(Acquire(w))
                       /\ WF_vars(CallStep(w))
  /\ SF_vars(ShutdownAcquire)
  /\ \A n \in Names : WF_vars(StopperStep(n))
  /\ WF_vars(ShutdownJoin)
  /\ SF_vars(ManagerStops)
  /\ WF_vars(MainStep)

Spec == Init /\ [][Next]_vars
FairSpec == Spec /\ Fairness

(***************************************************************************)
(* Properties                                                              *)
(***************************************************************************)
(* The instances whose context is not cancelled and whose goroutine has    *)
(* not handed over its result.                                             *)
Live(c) == phase[c] \in {"running", "sending"} /\ ~Cancelled(c)

Storing(w, c) == pc[w] = "ensureStore" /\ started[w] = c

(* A live controller is always the one the map holds for its name, or is   *)
(* about to be stored there: no path drops an entry it has not cancelled,  *)
(* overwrites one, or stores one twice (EnsureComponentController and      *)
(* RemoveComponentController).                                             *)
LiveIsTracked ==
  \A c \in Controllers : Live(c) =>
    \/ controllers[owner[c]] = c
    \/ \E w \in Workers : Storing(w, c) /\ arg[w] = owner[c]

(* Two live controllers never serve the same registration, whatever the    *)
(* interleaving of ensure, remove, failures and timeouts.                  *)
OneLivePerName ==
  \A c, d \in Controllers : Live(c) /\ Live(d) /\ owner[c] = owner[d] => c = d

(* A result is consumed once: an entry whose goroutine has ended stays in  *)
(* the map only for the stopper that consumed it, so neither a later       *)
(* remove nor the shutdown waits its whole timeout for a result that will  *)
(* never come (registry.go:155-166).                                       *)
EntryHasAResult ==
  \A n \in Names :
    controllers[n] # "none" /\ phase[controllers[n]] = "ended"
      => stopper[n] \in {"appending", "done"}

(* main ends without a logged error only when each controller still in the *)
(* map has ended without one: the unsynchronised appends lose errors but   *)
(* never the last one (registry.go:75-102).                                *)
CleanExitMeansStopped ==
  main = "clean" =>
    \A n \in Names : controllers[n] # "none" =>
      phase[controllers[n]] = "ended" /\ ~failed[controllers[n]]

(* Once closing, no controller starts: what the shutdown goroutine found   *)
(* in the map is all there is to stop (registry.go:114-116).               *)
NoStartWhenClosing ==
  [][closing => \A c \in Controllers : phase[c] # "running" => phase'[c] # "running"]_vars

(* The registry implements its abstract contract, ControllerSet. *)
Contract == INSTANCE ControllerSet WITH
  owned <- {n \in Names : \E c \in Controllers : Live(c) /\ owner[c] = n},
  open  <- ~ctxDone
ImplementsContract == Contract!ControllerSetSpec

(* Every call returns, or the process ends: the lock is never kept for     *)
(* good, even by a shutdown goroutine that waits for main to receive its   *)
(* error while main waits for the manager and the manager for a worker     *)
(* that waits for the lock (registry.go:98-101, main.go:137-150).          *)
CallsReturn == \A w \in Workers : pc[w] # "idle" ~> pc[w] = "idle" \/ ~Alive

(* The signal ends the process, hung controllers or not. *)
SignalEnds == ctxDone ~> ~Alive
=============================================================================
