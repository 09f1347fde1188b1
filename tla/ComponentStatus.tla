--------------------------- MODULE ComponentStatus ---------------------------
(***************************************************************************)
(* The status conditions of one component over its reconciliations         *)
(* (base/reconciler.go): they are read, sanitized, given to the hook,      *)
(* updated by the form factor for each child it reconciled, and written    *)
(* back, also when the reconciliation failed.  In between, the CRD may be  *)
(* registered anew, with another form factor or hook, while the component  *)
(* stays in the API with the conditions it had.                            *)
(***************************************************************************)
EXTENDS StatusConditions

CONSTANTS
  Registrations,  \* [children: the types the form factor reports, in order,
                  \*  fromHook: the types of conditionsFromHook, hook: BOOLEAN]
  HookTypes       \* the conditions the hook reports, declared or not

ASSUME ComponentStatusAssumption ==
  /\ \A r \in Registrations :
       /\ r.children \in Seq(Types) /\ r.children # <<>>
       /\ r.fromHook \subseteq Types
       /\ r.hook \in BOOLEAN
  /\ HookTypes \subseteq Types

VARIABLES
  stored,   \* status.conditions of the object in the API
  reg,      \* the registration whose controller reconciles it
  conds,    \* status.conditions of obj, in Reconcile
  at,       \* where Reconcile is
  child,    \* the next child of the form factor
  err       \* Reconcile returns an error

vars == <<stored, reg, conds, at, child, err>>

Condition == [type : Types, status : Statuses]

TypeOK ==
  /\ Range(stored) \subseteq Condition /\ Len(stored) <= Len(Alphabet)
  /\ Range(Stored(conds)) \subseteq Condition /\ Len(conds) <= Len(Alphabet)
  /\ reg \in Registrations
  /\ at \in {"idle", "render", "hook", "children", "update"}
  /\ child \in 1..Len(reg.children) + 1
  /\ err \in BOOLEAN

(* conditionTypes, for the happy condition is added to the set. *)
Expected(r) == Range(r.children) \cup r.fromHook \cup {Ready}

Init ==
  /\ stored = <<>>
  /\ reg \in Registrations
  /\ conds = <<>> /\ at = "idle" /\ child = 1 /\ err = FALSE

(* The registration is deleted and another one created for the CRD. *)
Reregister ==
  /\ at = "idle"
  /\ reg' \in Registrations \ {reg}
  /\ child' = 1
  /\ UNCHANGED <<stored, conds, at, err>>

(* Get and SanitizeConditions. *)
Begin ==
  /\ at = "idle"
  /\ conds' = Sanitized(Read(stored), Expected(reg))
  /\ at' = "render" /\ child' = 1 /\ err' = FALSE
  /\ UNCHANGED <<stored, reg>>

Fail == at' = "update" /\ err' = TRUE /\ UNCHANGED <<conds, child>>

(* Render and PreRender. *)
Render ==
  /\ at = "render"
  /\ \/ Fail
     \/ /\ at' = IF reg.hook THEN "hook" ELSE "children"
        /\ UNCHANGED <<conds, child, err>>
  /\ UNCHANGED <<stored, reg>>

(* The hook sets a condition it finds and appends one it does not. *)
SetByHook(list, type, status) ==
  LET i == SelectInSeq(list, LAMBDA c : c.type = type)
  IN IF i = 0 THEN Append(list, [type |-> type, status |-> status])
              ELSE [list EXCEPT ![i].status = status]

(* PreReconcile: it fails, answers without the object or with it changed. *)
Hook ==
  /\ at = "hook"
  /\ \/ Fail
     \/ /\ \/ UNCHANGED conds
           \/ \E t \in HookTypes, s \in Statuses : conds' = Read(SetByHook(Stored(conds), t, s))
        /\ at' = "children"
        /\ UNCHANGED <<child, err>>
  /\ UNCHANGED <<stored, reg>>

(* The form factor's Reconcile: each child in turn, its condition after it. *)
ReconcileChild ==
  /\ at = "children"
  /\ \/ Fail
     \/ /\ \E s \in Statuses : conds' = WithCondition(conds, Expected(reg), reg.children[child], s)
        /\ child' = child + 1
        /\ at' = IF child = Len(reg.children) THEN "update" ELSE "children"
        /\ UNCHANGED err
  /\ UNCHANGED <<stored, reg>>

(* Status().Update, which may fail. *)
UpdateStatus ==
  /\ at = "update"
  /\ \/ stored' = Stored(conds)
     \/ UNCHANGED stored
  /\ at' = "idle" /\ conds' = <<>>
  /\ UNCHANGED <<reg, child, err>>

Next == Reregister \/ Begin \/ Render \/ Hook \/ ReconcileChild \/ UpdateStatus

Spec == Init /\ [][Next]_vars

(***************************************************************************)
(* When sanitizing works                                                   *)
(***************************************************************************)
(* Unless a list is part of what is expected, the number of the expected   *)
(* types it misses must not be one: then what is not expected is not cut   *)
(* and what is missing may not be added (base/status/status.go:187).       *)
Settles(old, types) ==
  old \subseteq types \/ Cardinality(old \cap types) # Cardinality(types) - 1

(* What the reconciliations of a registration may leave in the status. *)
Listings(r) == {Expected(r)} \cup {Expected(r) \cup {t} : t \in IF r.hook THEN HookTypes ELSE {}}

(* Registrations that can follow each other without that happening. *)
Settling(registrations) ==
  \A before, r \in registrations : \A old \in Listings(before) : Settles(old, Expected(r))

(***************************************************************************)
(* Properties                                                              *)
(***************************************************************************)
(* A reconciliation that succeeds writes exactly the conditions of its     *)
(* form factor and hook, once each, in order, whatever the registrations   *)
(* and the hook before it left behind (base/status/status.go:127-231).     *)
SuccessListsExpected == at = "update" /\ ~err => Lists(conds, Expected(reg))

(* And Ready, which "summarizes happiness", is true if all the others are  *)
(* and otherwise has the status of one that is not, even when the last     *)
(* condition reported is not the one that decides it.                      *)
SuccessSummarizes == at = "update" /\ ~err => Summarizes(conds)

(* Sanitizing never overwrites a condition that is expected.               *)
SanitizingKeeps ==
  [][at = "idle" /\ at' # "idle" =>
       \A i \in DOMAIN stored : stored[i].type \in Expected(reg) =>
         \E j \in DOMAIN conds' : Stored(conds')[j] = stored[i]]_vars

(* "makes sure the set of expected conditions exist with default values,   *)
(* not overwritting the existing ones and removing any that should not     *)
(* exist" (base/status/status.go:282-284).                                 *)
SanitizedListsExpected == at = "render" => Lists(conds, Expected(reg))
=============================================================================
