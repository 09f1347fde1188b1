----------------------------- MODULE CRDVersion -----------------------------
(***************************************************************************)
(* Which version of a CRD its controller works with, and which parts of    *)
(* the status that version lets it write (base/crd/crd.go).                *)
(*                                                                         *)
(* The versions are a sequence of [rank, served, deprecated, subresource,  *)
(* declares]: rank is the place of the name among all names in the order   *)
(* of Kubernetes, subresource says that the status is one, and declares    *)
(* are the fields of the status that have the type the controller writes.  *)
(***************************************************************************)
EXTENDS Naturals, Sequences

NoVersion == [rank |-> 0]

(* A name ending in a suffix after _ is a faulty variant of the definition *)
(* that follows it, which no specification uses; the runs on a variant     *)
(* show that the properties notice the fault.                              *)

(* The version that is found is remembered by the address of the variable  *)
(* of the loop, which the next turns overwrite (the module is built for    *)
(* Go 1.20): once one is found it is always the last of the list.          *)
Outranks(v, w) == v.served /\ ~v.deprecated /\ v.rank > w.rank

CRDPrioritizedVersion_First(versions) == IF versions = <<>> THEN NoVersion ELSE versions[1]
CRDPrioritizedVersion(versions) ==
  IF versions = <<>> THEN NoVersion
  ELSE IF \E i \in DOMAIN versions : Outranks(versions[i], versions[1])
    THEN versions[Len(versions)]
    ELSE versions[1]

(* What the status manager needs declared before it writes a part. *)
Needs ==
  [observedGeneration |-> {"observedGeneration"},
   annotations        |-> {"annotations"},
   addressURL         |-> {"address.url"},
   conditions         |-> {"lastTransitionTime", "message", "reason", "status", "type"}]

CRDStatusFlag(version) == IF version.subresource THEN version.declares ELSE {}

Allows(flags, part) == Needs[part] \subseteq flags
=============================================================================
