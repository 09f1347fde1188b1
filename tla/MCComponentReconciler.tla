----------------------- MODULE MCComponentReconciler -----------------------
(* The instances of ComponentReconciler that TLC checks. *)
EXTENDS ComponentReconciler

DeploymentAndService == <<"deployment", "service">>
KnativeService == <<"ksvc">>

Short == "short"
Long  == "long"
TwoSpecs == {Short, Long}
ShortIsLongTrimmed == {<<Short, Long>>}

AllCapabilities == {"pre-reconcile", "finalize"}
HookOrNone == {{}, AllCapabilities}
AlwaysHook == {AllCapabilities}

(* Replies: none in time, errors to stop or to go on, one not to be read,  *)
(* a hook that changes nothing, and what it may change.                    *)
Lost == [kind |-> "lost"]
Error(continue) == [kind |-> "error", permanent |-> FALSE, continue |-> continue]
Answer(object, children) == [kind |-> "answer", object |-> object, children |-> children]

Faithful == {NoOp, Lost, Error(TRUE), Answer("same", "all"), Answer("trimmed", "none")}
Partial  == {NoOp, Lost, Error(TRUE), [kind |-> "garbled"], Answer("none", "partial")}
Respec   == {NoOp, [kind |-> "unclear"], Error(FALSE), Answer("same", "partial"),
             Answer("trimmed", "all"), Answer("respec", "none")}
=============================================================================
