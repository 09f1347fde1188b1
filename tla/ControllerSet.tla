---------------------------- MODULE ControllerSet ----------------------------
(***************************************************************************)
(* What the component registry promises to the reconciler of               *)
(* registrations: a set of registrations that own a component controller,  *)
(* which a call adds to or removes from in one step, and which is emptied  *)
(* for good when the process is told to stop.                              *)
(*                                                                         *)
(* Module Registry is the implementation of pkg/registration/registry      *)
(* behind this interface, and implements it (RegistryProofs).  Module      *)
(* Registration is its client.                                             *)
(***************************************************************************)

CONSTANT Names      \* names of the registrations

VARIABLES owned,    \* registrations whose controller has a context not cancelled
          open      \* the process has not been told to stop

ctlVars == <<owned, open>>

ControllerSetTypeOK ==
  /\ owned \in SUBSET Names
  /\ open \in BOOLEAN

ControllerSetInit ==
  /\ owned = {}
  /\ open = TRUE

(* EnsureComponentController that starts a controller. *)
Own(n) ==
  /\ open
  /\ n \notin owned
  /\ owned' = owned \cup {n}
  /\ UNCHANGED open

(* RemoveComponentController that cancels a controller. *)
Disown(n) ==
  /\ n \in owned
  /\ owned' = owned \ {n}
  /\ UNCHANGED open

(* The signal: every controller's context is a child of the process context. *)
Close ==
  /\ open
  /\ open' = FALSE
  /\ owned' = {}

ControllerSetNext ==
  \/ \E n \in Names : Own(n) \/ Disown(n)
  \/ Close

ControllerSetSpec == ControllerSetInit /\ [][ControllerSetNext]_ctlVars
=============================================================================
