-------------------------- MODULE StatusConditions --------------------------
(***************************************************************************)
(* The conditions of a component's status, as the status manager keeps     *)
(* them in the unstructured object (base/status/status.go).                *)
(*                                                                         *)
(* status.conditions is a sequence of [type, status, cell].  An item is a  *)
(* Go map, so two places of the slice may hold the same one: cell is equal *)
(* in items of one type exactly when they are one map.  Reason, message    *)
(* and lastTransitionTime are left out, and so are items that are not      *)
(* conditions.  The CRD declares conditions: without them every operation  *)
(* of the manager returns at once.                                         *)
(***************************************************************************)
EXTENDS Naturals, SequencesExt, Positions

CONSTANTS
  Alphabet,   \* every condition type, in the order of their names
  Ready       \* the happy condition type

ASSUME AlphabetAssumption ==
  /\ Alphabet \in Seq(Range(Alphabet))
  /\ \A i, j \in DOMAIN Alphabet : i # j => Alphabet[i] # Alphabet[j]
  /\ Ready \in Range(Alphabet)

Types == Range(Alphabet)
Statuses == {"True", "False", "Unknown"}

(* The list as the API holds it, and as it is read from there. *)
Stored(conds) == [i \in DOMAIN conds |-> [type |-> conds[i].type, status |-> conds[i].status]]
Read(list) == [i \in DOMAIN list |-> [type |-> list[i].type, status |-> list[i].status, cell |-> i]]

TypesOf(conds) == {conds[i].type : i \in DOMAIN conds}

(* A name ending in a suffix after _ is a faulty variant of the definition *)
(* that follows it, which no specification uses; the runs on a variant     *)
(* show that the properties notice the fault.                              *)

(* The expected conditions move to the front; what follows them is cut,    *)
(* unless exactly one is missing: then the old items stay behind them.     *)
(* (The condition reads i != len(sm.conditionTypes)-1.)                    *)
Kept(conds, types) == Picked(conds, {i \in DOMAIN conds : conds[i].type \in types})
OldTail(conds, kept) == SubSeq(conds, Len(kept) + 1, Len(conds))

Compacted_NeverCut(conds, types) ==
  Kept(conds, types) \o OldTail(conds, Kept(conds, types))
Compacted(conds, types) ==
  LET kept == Kept(conds, types)
  IN IF Len(kept) # Cardinality(types) - 1 THEN kept ELSE kept \o OldTail(conds, kept)

Missing_NotLookedUp(conds, types) == types
Missing(conds, types) == types \ TypesOf(conds)

(* Missing conditions are looked for only if the number is not the one     *)
(* expected.  They are added in no particular order, which Sorted settles. *)
Listed(types) == Picked(Alphabet, {i \in DOMAIN Alphabet : Alphabet[i] \in types})
Added(types) ==
  [i \in DOMAIN Listed(types) |-> [type |-> Listed(types)[i], status |-> "Unknown", cell |-> 0]]

Completed_Afresh(conds, types) ==
  IF Len(conds) = Cardinality(types) THEN conds ELSE Added(types)
Completed(conds, types) ==
  IF Len(conds) = Cardinality(types) THEN conds ELSE conds \o Added(Missing(conds, types))

(* Of items of one type the first one stays first.  (sort.Slice keeps the  *)
(* order of so few.)                                                       *)
Index(type) == CHOOSE i \in DOMAIN Alphabet : Alphabet[i] = type
UpTo(conds, i) ==
  {j \in DOMAIN conds : \/ Index(conds[j].type) < Index(conds[i].type)
                        \/ conds[j].type = conds[i].type /\ j <= i}
Sorted(conds) ==
  [n \in DOMAIN conds |->
     conds[CHOOSE i \in DOMAIN conds : Cardinality(UpTo(conds, i)) = n]]

Sanitized(conds, types) == Sorted(Completed(Compacted(conds, types), types))

(* The item at i takes the status, wherever the slice holds that item. *)
WithStatus(conds, i, status) ==
  [j \in DOMAIN conds |->
     IF conds[j].type = conds[i].type /\ conds[j].cell = conds[i].cell
       THEN [conds[j] EXCEPT !.status = status]
       ELSE conds[j]]

(* Who speaks against readiness: the last one is heard. *)
Objections_OfReadyToo(conds) == {i \in DOMAIN conds : conds[i].status # "True"}
Objections(conds) ==
  {i \in DOMAIN conds : conds[i].type # Ready /\ conds[i].status # "True"}

Happiness(conds) ==
  IF Objections(conds) = {} THEN "True" ELSE conds[Max(Objections(conds))].status

(* updateConditionHappiness: of several happy conditions, the last is set. *)
WithHappiness(conds) ==
  LET happy == SelectLastInSeq(conds, LAMBDA c : c.type = Ready)
  IN IF happy = 0 THEN conds ELSE WithStatus(conds, happy, Happiness(conds))

(* SetCondition: a type that is not listed changes nothing more. *)
WithCondition(conds, types, type, status) ==
  LET clean == Sanitized(conds, types)
      at    == SelectInSeq(clean, LAMBDA c : c.type = type)
  IN IF at = 0 THEN clean ELSE WithHappiness(WithStatus(clean, at, status))

-----------------------------------------------------------------------------
(* Exactly the expected conditions, once each and in order. *)
Lists(conds, types) ==
  [i \in DOMAIN conds |-> conds[i].type] = Listed(types)

(* What Ready says of the other conditions. *)
Summarizes(conds) ==
  \A r \in DOMAIN conds : conds[r].type = Ready =>
    LET others == {conds[i].status : i \in {j \in DOMAIN conds : conds[j].type # Ready}}
    IN IF others \subseteq {"True"} THEN conds[r].status = "True"
                                    ELSE conds[r].status \in others \ {"True"}
=============================================================================
