----------------------------- MODULE HookClient -----------------------------
(***************************************************************************)
(* What Scoby makes of the reply to a request it sends to a hook           *)
(* (hook/reconciler.go), in either phase.                                  *)
(*                                                                         *)
(* A reply is one of                                                       *)
(*   [kind |-> "lost"]       no connection, or no answer before the time   *)
(*                           is out, whatever the hook has done by then    *)
(*   [kind |-> "unclear"]    not 2xx, and no error that can be read        *)
(*   [kind |-> "error", permanent, continue]   not 2xx, and an error that  *)
(*                           says whether to retry and whether to go on    *)
(*   [kind |-> "empty"]      2xx without a body                            *)
(*   [kind |-> "garbled"]    2xx with a body that cannot be read           *)
(*   [kind |-> "answer", object, children]   2xx; the object is "none",    *)
(*                           "same", "respec" with another spec or         *)
(*                           "trimmed" of its finalizers, the children are *)
(*                           "none", "all" or "partial" ones               *)
(***************************************************************************)
EXTENDS Naturals

Reply ==
  [kind : {"lost", "unclear", "empty", "garbled"}]
    \cup [kind : {"error"}, permanent : BOOLEAN, continue : BOOLEAN]
    \cup [kind : {"answer"}, object : {"none", "same", "respec", "trimmed"},
          children : {"none", "all", "partial"}]

NoError == [is |-> FALSE, permanent |-> FALSE, continue |-> FALSE]
HookResponseError(permanent, continue) ==
  [is |-> TRUE, permanent |-> permanent, continue |-> continue]

(* A name ending in a suffix after _ is a faulty variant of the definition *)
(* that follows it, which no specification uses; the run on a variant      *)
(* shows that a property notices the fault.                                *)
HookRequest_LostIsEmpty(reply) ==
  CASE reply.kind = "error" -> HookResponseError(reply.permanent, reply.continue)
    [] reply.kind \in {"unclear", "garbled"} -> HookResponseError(FALSE, FALSE)
    [] OTHER -> NoError
HookRequest(reply) ==
  CASE reply.kind \in {"lost", "garbled"} -> HookResponseError(TRUE, FALSE)
    [] reply.kind = "unclear"             -> HookResponseError(FALSE, FALSE)
    [] reply.kind = "error"  -> HookResponseError(reply.permanent, reply.continue)
    [] OTHER                 -> NoError

(* An error that says to continue is ignored, and what came with it too.   *)
Proceeds(reply) == HookRequest(reply).is => HookRequest(reply).continue

Object(reply)   == IF reply.kind = "answer" THEN reply.object ELSE "none"
Children(reply) == IF reply.kind = "answer" THEN reply.children ELSE "none"

(* What the hook meant, for the properties: it did what it was asked, or   *)
(* told Scoby not to wait for it.                                          *)
Grants(reply) == reply.kind \in {"empty", "answer"} \/ (reply.kind = "error" /\ reply.continue)
=============================================================================
