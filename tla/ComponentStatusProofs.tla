----------------------- MODULE ComponentStatusProofs -----------------------
(***************************************************************************)
(* The safety properties of ComponentStatus, for every alphabet of         *)
(* conditions, every set of registrations and every list.                  *)
(*                                                                         *)
(* Most of the work is about what the status manager makes of a list: each *)
(* of its operations keeps a list in which no condition is twice, as long  *)
(* as the list and what is expected get along (Settles).  That condition   *)
(* is exact: a list that has it not is sanitized into a wrong one          *)
(* (SanitizedExactly).  Over the reconciliations, each list is one that    *)
(* some registration leaves (Known).                                       *)
(***************************************************************************)
EXTENDS ComponentStatus, PositionsProofs

Item == [type : Types, status : Statuses, cell : Nat]

(* No condition is listed twice. *)
Once(list) == \A i, j \in DOMAIN list : list[i].type = list[j].type => i = j

-----------------------------------------------------------------------------
(* Lists of conditions                                                     *)
LEMMA AlphabetFacts ==
  /\ Len(Alphabet) \in Nat /\ DOMAIN Alphabet = 1..Len(Alphabet)
  /\ IsFiniteSet(Types) /\ Cardinality(Types) = Len(Alphabet)
<1>1. Len(Alphabet) \in Nat /\ DOMAIN Alphabet = 1..Len(Alphabet)
  BY AlphabetAssumption
<1> DEFINE n == Len(Alphabet)
           f == [i \in 1..n |-> Alphabet[i]]
<1>2. IsFiniteSet(1..n) /\ Cardinality(1..n) = n
  <2> HIDE DEF n
  <2>1. n \in Nat
    BY <1>1 DEF n
  <2> QED
    BY <2>1, FS_Interval
<1>3. f \in Bijection(1..n, Types)
  BY <1>1, AlphabetAssumption DEF Bijection, Injection, Surjection, IsInjective, Types, Range
<1> HIDE DEF f
<1>4. ExistsBijection(1..n, Types)
  BY <1>3 DEF ExistsBijection
<1>5. IsFiniteSet(Types) /\ Cardinality(Types) = n
  BY <1>2, <1>4, FS_Bijection
<1> QED
  BY <1>1, <1>5

(* A list without repetitions is as long as the set of its types. *)
LEMMA OnceCardinality ==
  ASSUME NEW list, Len(list) \in Nat, DOMAIN list = 1..Len(list), Once(list)
  PROVE  IsFiniteSet(TypesOf(list)) /\ Cardinality(TypesOf(list)) = Len(list)
<1> DEFINE n == Len(list)
           f == [i \in 1..n |-> list[i].type]
<1>1. IsFiniteSet(1..n) /\ Cardinality(1..n) = n
  <2>1. n \in Nat
    OBVIOUS
  <2> HIDE DEF n
  <2> QED
    BY <2>1, FS_Interval
<1>2. f \in Bijection(1..n, TypesOf(list))
  BY DEF Bijection, Injection, Surjection, IsInjective, TypesOf, Once
<1> HIDE DEF f
<1>3. ExistsBijection(1..n, TypesOf(list))
  BY <1>2 DEF ExistsBijection
<1> QED
  BY <1>1, <1>3, FS_Bijection

(* The expected types in order, each once. *)
LEMMA ListedFacts ==
  ASSUME NEW types \in SUBSET Types
  PROVE  /\ Listed(types) \in Seq(types)
         /\ \A t \in types : \E i \in DOMAIN Listed(types) : Listed(types)[i] = t
         /\ \A i, j \in DOMAIN Listed(types) : Listed(types)[i] = Listed(types)[j] => i = j
<1> DEFINE places == {i \in DOMAIN Alphabet : Alphabet[i] \in types}
           listed == Picked(Alphabet, places)
<1>1. {Alphabet[i] : i \in places} = types
  BY DEF Types, Range
<1>2. \A i, j \in places : Alphabet[i] = Alphabet[j] => i = j
  BY AlphabetAssumption
<1>3. places \in SUBSET DOMAIN Alphabet
  OBVIOUS
<1>4. listed = Listed(types)
  BY DEF Listed
<1> HIDE DEF places
<1>5. /\ listed \in Seq(types)
      /\ \A i \in places : \E n \in DOMAIN listed : listed[n] = Alphabet[i]
  BY <1>1, <1>3, AlphabetFacts, PickedFacts
<1>6. \A i, j \in DOMAIN listed : listed[i] = listed[j] => i = j
  BY <1>2, <1>3, AlphabetFacts, PickedOnce
<1>7. \A t \in types : \E i \in DOMAIN listed : listed[i] = t
  BY <1>1, <1>5
<1> QED
  BY <1>4, <1>5, <1>6, <1>7

(* A list that shows the expected conditions has each of them once. *)
LEMMA ListsFacts ==
  ASSUME NEW types \in SUBSET Types, NEW list \in Seq(Item), Lists(list, types)
  PROVE  Once(list) /\ TypesOf(list) = types
<1> DEFINE shown == [i \in DOMAIN list |-> list[i].type]
<1>1. shown = Listed(types)
  BY DEF Lists
<1>2. DOMAIN shown = DOMAIN list /\ \A i \in DOMAIN list : shown[i] = list[i].type
  OBVIOUS
<1>3. \A i \in DOMAIN Listed(types) : Listed(types)[i] \in types
  BY ListedFacts
<1> HIDE DEF shown
<1>4. Once(list)
  BY <1>1, <1>2, ListedFacts DEF Once
<1>5. TypesOf(list) = types
  BY <1>1, <1>2, <1>3, ListedFacts DEF TypesOf
<1> QED
  BY <1>4, <1>5

(* Compacting keeps the expected ones in front. *)
LEMMA KeptFacts ==
  ASSUME NEW list \in Seq(Item), NEW types
  PROVE  /\ Kept(list, types) \in Seq(Item)
         /\ Range(Kept(list, types)) = {c \in Range(list) : c.type \in types}
         /\ TypesOf(Kept(list, types)) = TypesOf(list) \cap types
         /\ Once(list) => Once(Kept(list, types))
<1> DEFINE places == {i \in DOMAIN list : list[i].type \in types}
           kept == Picked(list, places)
<1>1. kept = Kept(list, types)
  BY DEF Kept
<1>2. Len(list) \in Nat /\ DOMAIN list = 1..Len(list) /\ places \in SUBSET DOMAIN list
  OBVIOUS
<1>3. \A i \in places : list[i] \in Item /\ list[i].type \in types
  OBVIOUS
<1>4. \A i \in DOMAIN list : list[i].type \in types => i \in places
  OBVIOUS
<1> HIDE DEF places
<1>5. /\ kept \in Seq({list[i] : i \in places})
      /\ \A i \in places : \E n \in DOMAIN kept : kept[n] = list[i]
  BY <1>2, PickedFacts
<1>6. \A n \in DOMAIN kept : \E i \in places : kept[n] = list[i]
  BY <1>5
<1>7. kept \in Seq(Item)
  <2>1. {list[i] : i \in places} \subseteq Item
    BY <1>3
  <2> QED
    BY <1>5, <2>1
<1> HIDE DEF kept
<1>8. Range(kept) = {c \in Range(list) : c.type \in types}
  <2>1. Range(kept) = {list[i] : i \in places}
    BY <1>5, <1>6 DEF Range
  <2>2. {list[i] : i \in places} = {c \in Range(list) : c.type \in types}
    BY <1>2, <1>3, <1>4 DEF Range
  <2> QED
    BY <2>1, <2>2
<1>9. TypesOf(kept) = TypesOf(list) \cap types
  <2>1. TypesOf(kept) = {c.type : c \in Range(kept)}
    BY DEF Range, TypesOf
  <2>2. TypesOf(list) = {c.type : c \in Range(list)}
    BY DEF Range, TypesOf
  <2> QED
    BY <1>8, <2>1, <2>2
<1>10. ASSUME Once(list) PROVE Once(kept)
  <2>1. \A i, j \in places : list[i] = list[j] => i = j
    BY <1>2, <1>10 DEF Once
  <2>2. \A n, m \in DOMAIN kept : kept[n] = kept[m] => n = m
    BY <1>2, <2>1, PickedOnce DEF kept
  <2>3. \A i, j \in places : list[i].type = list[j].type => list[i] = list[j]
    BY <1>2, <1>10 DEF Once
  <2> QED
    BY <1>6, <2>2, <2>3 DEF Once
<1> QED
  BY <1>1, <1>7, <1>8, <1>9, <1>10

(* Putting two lists after each other. *)
LEMMA JoinedFacts ==
  ASSUME NEW list \in Seq(Item), NEW tail \in Seq(Item)
  PROVE  /\ list \o tail \in Seq(Item)
         /\ Range(list \o tail) = Range(list) \cup Range(tail)
         /\ TypesOf(list \o tail) = TypesOf(list) \cup TypesOf(tail)
         /\ Once(list) /\ Once(tail) /\ TypesOf(list) \cap TypesOf(tail) = {}
              => Once(list \o tail)
<1> DEFINE all == list \o tail
           n == Len(list)
           m == Len(tail)
<1>1. /\ all \in Seq(Item) /\ Len(all) = n + m /\ n \in Nat /\ m \in Nat
      /\ \A i \in 1..n + m : all[i] = IF i <= n THEN list[i] ELSE tail[i - n]
  BY ConcatProperties
<1>2. DOMAIN list = 1..n /\ DOMAIN tail = 1..m /\ DOMAIN all = 1..n + m
  BY <1>1
<1> HIDE DEF all, n, m
<1>3. \A i \in 1..n : i \in 1..n + m /\ all[i] = list[i]
  BY <1>1
<1>4. \A j \in 1..m : n + j \in 1..n + m /\ all[n + j] = tail[j]
  <2> TAKE j \in 1..m
  <2>1. n + j \in 1..n + m /\ ~(n + j <= n) /\ (n + j) - n = j
    BY <1>1
  <2> QED
    BY <1>1, <2>1
<1>5. \A i \in 1..n + m : \/ (i \in 1..n /\ all[i] = list[i])
                         \/ (i - n \in 1..m /\ all[i] = tail[i - n])
  <2> TAKE i \in 1..n + m
  <2>1. CASE i <= n
    <3>1. i \in 1..n
      BY <1>1, <2>1
    <3> QED
      BY <1>3, <3>1
  <2>2. CASE ~(i <= n)
    <3>1. i - n \in 1..m
      BY <1>1, <2>2
    <3> QED
      BY <1>1, <2>2, <3>1
  <2> QED
    BY <2>1, <2>2
<1>6. Range(all) = Range(list) \cup Range(tail)
  BY <1>2, <1>3, <1>4, <1>5 DEF Range
<1>7. TypesOf(all) = TypesOf(list) \cup TypesOf(tail)
  <2>1. \A l : TypesOf(l) = {c.type : c \in Range(l)}
    BY DEF Range, TypesOf
  <2> QED
    BY <1>6, <2>1
<1>8. ASSUME Once(list), Once(tail), TypesOf(list) \cap TypesOf(tail) = {} PROVE Once(all)
  <2>1. \A i \in 1..n, j \in 1..m : list[i].type # tail[j].type
    BY <1>2, <1>8 DEF TypesOf
  <2> SUFFICES ASSUME NEW i \in 1..n + m, NEW j \in 1..n + m, all[i].type = all[j].type
               PROVE  i = j
    BY <1>2 DEF Once
  <2>2. CASE i \in 1..n /\ all[i] = list[i] /\ j \in 1..n /\ all[j] = list[j]
    BY <1>2, <1>8, <2>2 DEF Once
  <2>3. CASE i - n \in 1..m /\ all[i] = tail[i - n] /\ j - n \in 1..m /\ all[j] = tail[j - n]
    <3>1. i - n = j - n
      BY <1>2, <1>8, <2>3 DEF Once
    <3> QED
      BY <1>1, <3>1
  <2> QED
    BY <1>5, <2>1, <2>2, <2>3
<1> QED
  BY <1>1, <1>6, <1>7, <1>8 DEF all

-----------------------------------------------------------------------------
(* Compacting a list that gets along with what is expected leaves nothing  *)
(* that is not.                                                            *)
LEMMA CompactedFacts ==
  ASSUME NEW list \in Seq(Item), NEW types \in SUBSET Types
  PROVE  /\ Compacted(list, types) \in Seq(Item)
         /\ Range(Kept(list, types)) \subseteq Range(Compacted(list, types))
         /\ Once(list) /\ Settles(TypesOf(list), types)
              => Compacted(list, types) = Kept(list, types)
<1> DEFINE kept == Kept(list, types)
           tail == OldTail(list, kept)
<1>1. kept \in Seq(Item)
  BY KeptFacts
<1>2. tail \in Seq(Item)
  <2> HIDE DEF kept
  <2>1. Len(kept) \in Nat
    BY <1>1
  <2> QED
    BY <2>1 DEF OldTail
<1>3. Compacted(list, types)
        = IF Len(kept) # Cardinality(types) - 1 THEN kept ELSE kept \o tail
  BY DEF Compacted
<1> HIDE DEF kept, tail
<1>4. kept \o tail \in Seq(Item) /\ Range(kept) \subseteq Range(kept \o tail)
  BY <1>1, <1>2, JoinedFacts
<1>5. ASSUME Once(list), Settles(TypesOf(list), types) PROVE Compacted(list, types) = kept
  <2>1. Once(kept) /\ TypesOf(kept) = TypesOf(list) \cap types
    BY <1>5, KeptFacts DEF kept
  <2>2. Len(kept) = Cardinality(TypesOf(list) \cap types)
    <3>1. Len(kept) \in Nat /\ DOMAIN kept = 1..Len(kept)
      BY <1>1
    <3>2. Cardinality(TypesOf(kept)) = Len(kept)
      BY <2>1, <3>1, OnceCardinality
    <3> QED
      BY <2>1, <3>2
  <2>3. CASE TypesOf(list) \subseteq types
    <3>1. TypesOf(list) \cap types = TypesOf(list)
      BY <2>3
    <3>2. Len(kept) = Len(list)
      <4>1. Len(list) \in Nat /\ DOMAIN list = 1..Len(list)
        OBVIOUS
      <4>2. Cardinality(TypesOf(list)) = Len(list)
        BY <1>5, <4>1, OnceCardinality
      <4> QED
        BY <2>2, <3>1, <4>2
    <3>3. tail = <<>>
      BY <3>2 DEF tail, OldTail
    <3>4. kept \o tail = kept
      BY <1>1, <3>3
    <3> QED
      BY <1>3, <3>4
  <2> QED
    BY <1>3, <1>5, <2>2, <2>3 DEF Settles
<1> QED
  BY <1>1, <1>3, <1>4, <1>5 DEF kept

(* What is added for the missing conditions. *)
LEMMA AddedFacts ==
  ASSUME NEW types \in SUBSET Types
  PROVE  Added(types) \in Seq(Item) /\ Once(Added(types)) /\ TypesOf(Added(types)) = types
<1> DEFINE listed == Listed(types)
           added == [i \in DOMAIN listed |->
                       [type |-> listed[i], status |-> "Unknown", cell |-> 0]]
<1>1. /\ listed \in Seq(types)
      /\ \A t \in types : \E i \in DOMAIN listed : listed[i] = t
      /\ \A i, j \in DOMAIN listed : listed[i] = listed[j] => i = j
  BY ListedFacts
<1>2. added = Added(types)
  BY DEF Added
<1> HIDE DEF listed
<1>3. Len(listed) \in Nat /\ DOMAIN listed = 1..Len(listed)
  BY <1>1
<1>4. \A i \in DOMAIN listed : listed[i] \in types
  BY <1>1
<1>5. \A i \in DOMAIN listed : added[i] \in Item
  BY <1>4 DEF Item, Statuses
<1>6. added \in Seq(Item)
  <2>1. added = [i \in 1..Len(listed) |-> added[i]]
    BY <1>3
  <2>2. \A i \in 1..Len(listed) : added[i] \in Item
    BY <1>3, <1>5
  <2> HIDE DEF added
  <2> QED
    BY <1>3, <2>1, <2>2, IsASeq
<1>7. DOMAIN added = DOMAIN listed /\ \A i \in DOMAIN listed : added[i].type = listed[i]
  OBVIOUS
<1> HIDE DEF added
<1>8. Once(added)
  BY <1>1, <1>7 DEF Once
<1>9. TypesOf(added) = types
  BY <1>1, <1>4, <1>7 DEF TypesOf
<1> QED
  BY <1>2, <1>6, <1>8, <1>9

(* Completing adds what is missing, and nothing to a list that is           *)
(* complete.                                                                *)
LEMMA CompletedFacts ==
  ASSUME NEW list \in Seq(Item), NEW types \in SUBSET Types
  PROVE  /\ Completed(list, types) \in Seq(Item)
         /\ Range(list) \subseteq Range(Completed(list, types))
         /\ Once(list) /\ TypesOf(list) \subseteq types
              => Once(Completed(list, types)) /\ TypesOf(Completed(list, types)) = types
<1> DEFINE missing == types \ TypesOf(list)
           added == Added(missing)
<1>1. Completed(list, types) = IF Len(list) = Cardinality(types) THEN list ELSE list \o added
  BY DEF Completed, Missing
<1>2. missing \in SUBSET Types
  OBVIOUS
<1> HIDE DEF missing
<1>3. added \in Seq(Item) /\ Once(added) /\ TypesOf(added) = missing
  BY <1>2, AddedFacts
<1> HIDE DEF added
<1>4. /\ list \o added \in Seq(Item)
      /\ Range(list) \subseteq Range(list \o added)
      /\ TypesOf(list \o added) = TypesOf(list) \cup missing
      /\ Once(list) => Once(list \o added)
  <2>1. TypesOf(list) \cap TypesOf(added) = {}
    BY <1>3 DEF missing
  <2> QED
    BY <1>3, <2>1, JoinedFacts
<1>5. ASSUME Once(list), TypesOf(list) \subseteq types, Len(list) = Cardinality(types)
      PROVE  TypesOf(list) = types
  <2>1. Len(list) \in Nat /\ DOMAIN list = 1..Len(list)
    OBVIOUS
  <2>2. Cardinality(TypesOf(list)) = Cardinality(types)
    BY <1>5, <2>1, OnceCardinality
  <2>3. IsFiniteSet(types)
    BY AlphabetFacts, FS_Subset
  <2> QED
    BY <1>5, <2>2, <2>3, FS_Subset
<1>6. TypesOf(list) \subseteq types => TypesOf(list) \cup missing = types
  BY DEF missing
<1> QED
  BY <1>1, <1>4, <1>5, <1>6

(* Each item of a list has a place among its items, and each place one. *)
LEMMA PlaceFacts ==
  ASSUME NEW list \in Seq(Item)
  PROVE  /\ \A i \in DOMAIN list : Cardinality(UpTo(list, i)) \in DOMAIN list
         /\ \A i, j \in DOMAIN list :
              Cardinality(UpTo(list, i)) = Cardinality(UpTo(list, j)) => i = j
         /\ \A n \in DOMAIN list : \E i \in DOMAIN list : Cardinality(UpTo(list, i)) = n
<1> DEFINE n == Len(list)
           D == 1..n
           key(i) == Index(list[i].type)
           place == [i \in D |-> Cardinality(UpTo(list, i))]
<1>1. n \in Nat /\ DOMAIN list = D /\ IsFiniteSet(D) /\ Cardinality(D) = n
  <2>1. n \in Nat /\ DOMAIN list = D
    OBVIOUS
  <2> HIDE DEF n
  <2> QED
    BY <2>1, FS_Interval
<1>2. \A i \in D : key(i) \in Nat
  <2> TAKE i \in D
  <2>1. list[i].type \in Types
    <3>1. list[i] \in Item
      OBVIOUS
    <3> QED
      BY <3>1 DEF Item
  <2>2. Index(list[i].type) \in DOMAIN Alphabet
    BY <2>1 DEF Index, Types, Range
  <2> QED
    BY <2>2, AlphabetFacts
<1>3. \A i, j \in D : key(i) = key(j) <=> list[i].type = list[j].type
  <2>1. \A t \in Types : Alphabet[Index(t)] = t
    BY DEF Index, Types, Range
  <2>2. \A i \in D : list[i].type \in Types
    <3>1. \A i \in D : list[i] \in Item
      OBVIOUS
    <3> QED
      BY <3>1 DEF Item
  <2> QED
    BY <2>1, <2>2
<1>4. \A i \in D : UpTo(list, i) = {j \in D : key(j) < key(i) \/ (key(j) = key(i) /\ j <= i)}
  <2> SUFFICES ASSUME NEW i \in D
               PROVE  UpTo(list, i) = {j \in D : key(j) < key(i) \/ (key(j) = key(i) /\ j <= i)}
    OBVIOUS
  <2>1. UpTo(list, i) = {j \in D : \/ key(j) < key(i)
                                   \/ list[j].type = list[i].type /\ j <= i}
    BY <1>1 DEF UpTo
  <2>2. \A j \in D : key(i) = key(j) <=> list[i].type = list[j].type
    BY <1>3
  <2> HIDE DEF D, key
  <2> QED
    BY <2>1, <2>2
<1> HIDE DEF n, key
<1>5. D \in SUBSET Nat
  BY <1>1
<1> HIDE DEF D
<1>6. \A i \in D : /\ UpTo(list, i) \in SUBSET D /\ i \in UpTo(list, i)
                  /\ IsFiniteSet(UpTo(list, i))
  <2>1. \A i \in D : UpTo(list, i) \in SUBSET D
    BY <1>4
  <2>2. \A i \in D : i \in UpTo(list, i)
    BY <1>2, <1>4, <1>5
  <2> QED
    BY <1>1, <2>1, <2>2, FS_Subset
<1>7. \A i \in D : place[i] \in D
  <2> TAKE i \in D
  <2>1. /\ Cardinality(UpTo(list, i)) \in Nat
        /\ Cardinality(UpTo(list, i)) <= n
    BY <1>1, <1>6, FS_Subset, FS_CardinalityType
  <2>2. Cardinality(UpTo(list, i)) # 0
    BY <1>6, FS_EmptySet
  <2> QED
    BY <1>1, <2>1, <2>2 DEF D
<1>8. \A i, j \in D : place[i] = place[j] => i = j
  <2>1. ASSUME NEW i \in D, NEW j \in D, key(i) < key(j) \/ (key(i) = key(j) /\ i < j),
               Cardinality(UpTo(list, i)) = Cardinality(UpTo(list, j))
        PROVE  FALSE
    <3>1. j \notin UpTo(list, i)
      BY <1>2, <1>4, <1>5, <2>1
    <3>2. UpTo(list, i) \in SUBSET UpTo(list, j)
      <4> SUFFICES ASSUME NEW k \in D, key(k) < key(i) \/ (key(k) = key(i) /\ k <= i)
                   PROVE  key(k) < key(j) \/ (key(k) = key(j) /\ k <= j)
        BY <1>4
      <4>1. key(k) \in Nat /\ key(i) \in Nat /\ key(j) \in Nat /\ k \in Nat /\ i \in Nat /\ j \in Nat
        BY <1>2, <1>5
      <4> QED
        BY <2>1, <4>1
    <3>3. UpTo(list, i) = UpTo(list, j)
      BY <1>6, <2>1, <3>2, FS_Subset
    <3> QED
      BY <1>6, <3>1, <3>3
  <2> SUFFICES ASSUME NEW i \in D, NEW j \in D, place[i] = place[j], i # j
               PROVE  FALSE
    OBVIOUS
  <2>2. key(i) \in Nat /\ key(j) \in Nat /\ i \in Nat /\ j \in Nat
    BY <1>2, <1>5
  <2>3. \/ key(i) < key(j) \/ (key(i) = key(j) /\ i < j)
        \/ key(j) < key(i) \/ (key(j) = key(i) /\ j < i)
    BY <2>2
  <2> QED
    BY <2>1, <2>3
<1>9. \A k \in D : \E i \in D : place[i] = k
  <2>1. place \in Injection(D, D)
    BY <1>7, <1>8 DEF Injection, IsInjective
  <2> HIDE DEF place
  <2>2. place \in Surjection(D, D)
    BY <1>1, <2>1, FS_Injection
  <2> QED
    BY <2>2 DEF Surjection
<1> QED
  BY <1>1, <1>7, <1>8, <1>9

(* Sorting moves each item to its place. *)
LEMMA SortedFacts ==
  ASSUME NEW list \in Seq(Item)
  PROVE  /\ Sorted(list) \in Seq(Item) /\ DOMAIN Sorted(list) = DOMAIN list
         /\ \A i \in DOMAIN list : Sorted(list)[Cardinality(UpTo(list, i))] = list[i]
         /\ Range(Sorted(list)) = Range(list)
<1> DEFINE n == Len(list)
           place(i) == Cardinality(UpTo(list, i))
           from(k) == CHOOSE i \in 1..n : place(i) = k
           sorted == [k \in 1..n |-> list[from(k)]]
<1>1. n \in Nat /\ DOMAIN list = 1..n
  OBVIOUS
<1>2. /\ \A i \in 1..n : place(i) \in 1..n
      /\ \A i, j \in 1..n : place(i) = place(j) => i = j
      /\ \A k \in 1..n : \E i \in 1..n : place(i) = k
  BY <1>1, PlaceFacts
<1>3. Sorted(list) = sorted
  BY <1>1 DEF Sorted
<1>4. \A i \in 1..n : list[i] \in Item
  BY <1>1
<1> HIDE DEF n, place
<1>5. \A k \in 1..n : from(k) \in 1..n /\ place(from(k)) = k
  BY <1>2
<1>6. \A i \in 1..n : from(place(i)) = i
  BY <1>2, <1>5
<1> HIDE DEF from
<1>7. sorted \in Seq(Item)
  <2>1. \A k \in 1..n : list[from(k)] \in Item
    BY <1>4, <1>5
  <2> QED
    BY <1>1, <2>1, IsASeq
<1>8. \A i \in 1..n : sorted[place(i)] = list[i]
  BY <1>2, <1>6
<1>9. DOMAIN sorted = 1..n /\ \A k \in 1..n : sorted[k] = list[from(k)]
  OBVIOUS
<1> HIDE DEF sorted
<1>10. Range(sorted) = Range(list)
  <2>1. \A i \in 1..n : \E k \in 1..n : sorted[k] = list[i]
    BY <1>2, <1>8
  <2>2. \A k \in 1..n : \E i \in 1..n : sorted[k] = list[i]
    BY <1>5, <1>9
  <2>3. Range(sorted) = {sorted[k] : k \in 1..n} /\ Range(list) = {list[i] : i \in 1..n}
    BY <1>1, <1>9 DEF Range
  <2> QED
    BY <2>1, <2>2, <2>3
<1> QED
  BY <1>1, <1>3, <1>7, <1>8, <1>9, <1>10 DEF place

(* A list that has each expected type once is sorted into the order of the *)
(* names.                                                                  *)
LEMMA SortedLists ==
  ASSUME NEW list \in Seq(Item), Once(list)
  PROVE  Lists(Sorted(list), TypesOf(list))
<1> DEFINE n == Len(list)
           types == TypesOf(list)
           places == {a \in DOMAIN Alphabet : Alphabet[a] \in types}
           key == [i \in 1..n |-> Index(list[i].type)]
<1>1. n \in Nat /\ DOMAIN list = 1..n
  OBVIOUS
<1>2. \A i \in 1..n : list[i].type \in Types
  <2>1. \A i \in 1..n : list[i] \in Item
    OBVIOUS
  <2> QED
    BY <2>1 DEF Item
<1>3. \A t \in Types : Index(t) \in DOMAIN Alphabet /\ Alphabet[Index(t)] = t
  BY DEF Index, Types, Range
<1>4. \A a, b \in DOMAIN Alphabet : Alphabet[a] = Alphabet[b] => a = b
  BY AlphabetAssumption
<1>5. places \in SUBSET Nat /\ IsFiniteSet(places) /\ Len(Listed(types)) = Cardinality(places)
      /\ DOMAIN Listed(types) = 1..Cardinality(places)
      /\ \A m \in 1..Cardinality(places) : Listed(types)[m] = Alphabet[Nth(places, m)]
  <2>1. places \in SUBSET DOMAIN Alphabet
    OBVIOUS
  <2>2. Listed(types) = Picked(Alphabet, places)
    BY DEF Listed
  <2> HIDE DEF places, types
  <2>3. DOMAIN Alphabet \in SUBSET Nat
    BY AlphabetFacts
  <2> QED
    BY <2>1, <2>2, <2>3, AlphabetFacts, PickedFacts
<1>6. /\ \A i \in 1..n : key[i] \in places /\ Alphabet[key[i]] = list[i].type
      /\ \A a \in places : \E i \in 1..n : key[i] = a
      /\ \A i, j \in 1..n : key[i] = key[j] => i = j
  <2>1. \A i \in 1..n : key[i] \in DOMAIN Alphabet /\ Alphabet[key[i]] = list[i].type
    BY <1>2, <1>3
  <2>2. \A i \in 1..n : list[i].type \in types
    BY <1>1 DEF TypesOf
  <2>3. \A a \in places : \E i \in 1..n : Alphabet[a] = list[i].type
    BY <1>1 DEF TypesOf
  <2>4. \A i, j \in 1..n : list[i].type = list[j].type => i = j
    BY <1>1 DEF Once
  <2> HIDE DEF key
  <2>5. \A a \in places : \E i \in 1..n : key[i] = a
    BY <1>4, <2>1, <2>3
  <2> QED
    BY <2>1, <2>2, <2>4, <2>5
<1>7. Cardinality(places) = n
  <2>1. key \in Bijection(1..n, places)
    BY <1>6 DEF Bijection, Injection, Surjection, IsInjective
  <2>2. IsFiniteSet(1..n) /\ Cardinality(1..n) = n
    <3> HIDE DEF n
    <3> QED
      BY <1>1, FS_Interval
  <2> HIDE DEF key, places
  <2>3. ExistsBijection(1..n, places)
    BY <2>1 DEF ExistsBijection
  <2> QED
    BY <2>2, <2>3, FS_Bijection
<1>8. \A i \in 1..n : Cardinality(UpTo(list, i)) = Cardinality({a \in places : a <= key[i]})
  <2> SUFFICES ASSUME NEW i \in 1..n
               PROVE  Cardinality(UpTo(list, i)) = Cardinality({a \in places : a <= key[i]})
    OBVIOUS
  <2> DEFINE A == UpTo(list, i)
             B == {a \in places : a <= key[i]}
             f == [j \in A |-> key[j]]
  <2>1. A = {j \in 1..n : key[j] < key[i] \/ (list[j].type = list[i].type /\ j <= i)}
    BY <1>1 DEF UpTo
  <2>2. \A j \in 1..n : list[j].type = list[i].type <=> j = i
    BY <1>1 DEF Once
  <2>3. \A j \in 1..n : key[j] \in Nat
    BY <1>5, <1>6
  <2> HIDE DEF key, n, places
  <2>4. \A j \in 1..n : key[j] = key[i] => j = i
    BY <1>6
  <2>5. i \in Nat
    BY <1>1
  <2>6. \A j \in 1..n : j \in A <=> key[j] <= key[i]
    BY <2>1, <2>2, <2>3, <2>4, <2>5
  <2>7. A \in SUBSET (1..n)
    BY <2>1
  <2> HIDE DEF A
  <2>8. f \in Bijection(A, B)
    <3>1. f \in [A -> B]
      BY <1>6, <2>6, <2>7
    <3>2. \A j, k \in A : f[j] = f[k] => j = k
      BY <1>6, <2>7
    <3>3. \A b \in B : \E j \in A : f[j] = b
      <4>1. \A b \in B : \E j \in 1..n : key[j] = b /\ key[j] <= key[i]
        BY <1>6
      <4>2. \A b \in B : \E j \in A : key[j] = b
        BY <2>6, <4>1
      <4> QED
        BY <4>2
    <3> HIDE DEF f, B
    <3> QED
      BY <3>1, <3>2, <3>3 DEF Bijection, Injection, Surjection, IsInjective
  <2> HIDE DEF f, B
  <2>9. IsFiniteSet(A)
    <3>1. IsFiniteSet(1..n)
      BY <1>1, FS_Interval
    <3> QED
      BY <2>7, <3>1, FS_Subset
  <2>10. ExistsBijection(A, B)
    BY <2>8 DEF ExistsBijection
  <2>11. Cardinality(B) = Cardinality(A)
    BY <2>9, <2>10, FS_Bijection
  <2> QED
    BY <2>11 DEF A, B
<1>9. \A m \in 1..n : Sorted(list)[m].type = Listed(types)[m]
  <2> SUFFICES ASSUME NEW m \in 1..n
               PROVE  Sorted(list)[m].type = Listed(types)[m]
    OBVIOUS
  <2>1. PICK i \in 1..n : Cardinality(UpTo(list, i)) = m
    BY <1>1, PlaceFacts
  <2>2. Sorted(list)[m] = list[i]
    BY <1>1, <2>1, SortedFacts
  <2>3. Cardinality({a \in places : a <= key[i]}) = m
    BY <1>8, <2>1
  <2> HIDE DEF places, key, n, types
  <2>4. PICK k \in 1..Cardinality(places) : Nth(places, k) = key[i]
    BY <1>5, <1>6, NthFacts
  <2>5. k = m
    BY <1>5, <2>3, <2>4, NthFacts
  <2> QED
    BY <1>5, <1>6, <2>2, <2>4, <2>5
<1>10. DOMAIN Sorted(list) = 1..n
  BY <1>1, SortedFacts
<1>11. Listed(types) = [m \in 1..n |-> Listed(types)[m]]
  BY <1>5, <1>7 DEF Listed, Picked
<1> HIDE DEF n, types
<1>12. [m \in DOMAIN Sorted(list) |-> Sorted(list)[m].type] = [m \in 1..n |-> Listed(types)[m]]
  BY <1>9, <1>10
<1> QED
  BY <1>11, <1>12 DEF Lists, types

(* Sanitizing keeps each item that is expected.  If the list and what is   *)
(* expected get along it gives each expected condition once, in order.     *)
LEMMA SanitizedFacts ==
  ASSUME NEW list \in Seq(Item), NEW types \in SUBSET Types
  PROVE  /\ Sanitized(list, types) \in Seq(Item)
         /\ {c \in Range(list) : c.type \in types} \subseteq Range(Sanitized(list, types))
         /\ Once(list) /\ Settles(TypesOf(list), types)
              => /\ Lists(Sanitized(list, types), types)
                 /\ Once(Sanitized(list, types)) /\ TypesOf(Sanitized(list, types)) = types
<1> DEFINE compacted == Compacted(list, types)
           completed == Completed(compacted, types)
<1>1. Sanitized(list, types) = Sorted(completed)
  BY DEF Sanitized
<1>2. compacted \in Seq(Item) /\ Range(Kept(list, types)) \subseteq Range(compacted)
  BY CompactedFacts
<1> HIDE DEF compacted
<1>3. completed \in Seq(Item) /\ Range(compacted) \subseteq Range(completed)
  BY <1>2, CompletedFacts
<1> HIDE DEF completed
<1>4. Sorted(completed) \in Seq(Item) /\ Range(Sorted(completed)) = Range(completed)
  BY <1>3, SortedFacts
<1>5. Range(Kept(list, types)) = {c \in Range(list) : c.type \in types}
  BY KeptFacts
<1>6. ASSUME Once(list), Settles(TypesOf(list), types)
      PROVE  Lists(Sorted(completed), types)
  <2>1. compacted = Kept(list, types)
    BY <1>6, CompactedFacts DEF compacted
  <2>2. Once(compacted) /\ TypesOf(compacted) \subseteq types
    BY <1>6, <2>1, KeptFacts
  <2>3. Once(completed) /\ TypesOf(completed) = types
    BY <1>2, <2>2, CompletedFacts DEF completed
  <2> QED
    BY <1>3, <2>3, SortedLists
<1>7. Lists(Sorted(completed), types) => Once(Sorted(completed)) /\ TypesOf(Sorted(completed)) = types
  BY <1>4, ListsFacts
<1> QED
  BY <1>1, <1>2, <1>3, <1>4, <1>5, <1>6, <1>7

(* Sanitizing a list in which no condition is twice gives what its comment *)
(* promises (base/status/status.go:282-284) if and only if the list and    *)
(* the expected types get along: the scope of the fault at status.go:187.  *)
THEOREM SanitizedExactly ==
  ASSUME NEW list \in Seq(Item), NEW types \in SUBSET Types, Once(list)
  PROVE  Lists(Sanitized(list, types), types) <=> Settles(TypesOf(list), types)
<1>1. Settles(TypesOf(list), types) => Lists(Sanitized(list, types), types)
  BY SanitizedFacts
<1>2. ASSUME ~Settles(TypesOf(list), types), Lists(Sanitized(list, types), types)
      PROVE  FALSE
  <2> DEFINE old == TypesOf(list)
             kept == Kept(list, types)
             tail == OldTail(list, kept)
             compacted == Compacted(list, types)
             completed == Completed(compacted, types)
             sanitized == Sanitized(list, types)
             C == Cardinality(types)
  <2>1. kept \in Seq(Item) /\ TypesOf(kept) = old \cap types /\ Once(kept)
    BY KeptFacts
  <2>2. Range(kept) \subseteq Range(list)
    BY KeptFacts
  <2>3. compacted = IF Len(kept) # C - 1 THEN kept ELSE kept \o tail
    BY DEF Compacted
  <2>4. sanitized = Sorted(completed)
    BY DEF Sanitized
  <2>5. compacted \in Seq(Item)
    BY CompactedFacts
  <2> HIDE DEF kept, tail, compacted
  <2>6. completed = IF Len(compacted) = C THEN compacted
                                          ELSE compacted \o Added(Missing(compacted, types))
    BY DEF Completed
  <2>7. completed \in Seq(Item)
    BY <2>5, CompletedFacts
  <2> HIDE DEF completed
  <2>8. sanitized \in Seq(Item) /\ DOMAIN sanitized = DOMAIN completed
        /\ Range(sanitized) = Range(completed)
    BY <2>4, <2>7, SortedFacts
  <2> HIDE DEF sanitized
  <2>9. C \in Nat /\ IsFiniteSet(types)
    BY AlphabetFacts, FS_Subset, FS_CardinalityType
  <2>10. Once(sanitized) /\ TypesOf(sanitized) = types
    BY <1>2, <2>8, ListsFacts DEF sanitized
  <2>11. Len(completed) = C
    <3>1. Len(sanitized) \in Nat /\ DOMAIN sanitized = 1..Len(sanitized)
      BY <2>8
    <3>2. Len(sanitized) = C
      BY <2>10, <3>1, OnceCardinality
    <3>3. Len(completed) \in Nat /\ DOMAIN completed = 1..Len(completed)
      BY <2>7
    <3>4. 1..Len(completed) = 1..C
      BY <2>8, <3>1, <3>2, <3>3
    <3> HIDE DEF C
    <3>5. ASSUME NEW m \in Nat, NEW n \in Nat, 1..m = 1..n PROVE m = n
      BY <3>5, FS_Interval
    <3> QED
      BY <2>9, <3>3, <3>4, <3>5
  <2>12. Len(kept) = C - 1 /\ Len(list) >= C
    <3>1. Len(kept) \in Nat /\ DOMAIN kept = 1..Len(kept)
      BY <2>1
    <3>2. Len(list) \in Nat /\ DOMAIN list = 1..Len(list)
      OBVIOUS
    <3>3. Len(kept) = Cardinality(old \cap types)
      BY <2>1, <3>1, OnceCardinality
    <3>4. Len(list) = Cardinality(old) /\ IsFiniteSet(old)
      BY <3>2, OnceCardinality
    <3>5. old \cap types \subseteq old /\ old \cap types # old
          /\ Cardinality(old \cap types) = C - 1
      BY <1>2 DEF Settles
    <3> HIDE DEF old, C
    <3>6. Cardinality(old \cap types) <= Cardinality(old)
          /\ Cardinality(old \cap types) # Cardinality(old)
      BY <3>4, <3>5, FS_Subset
    <3> QED
      BY <2>9, <3>1, <3>2, <3>3, <3>4, <3>5, <3>6
  <2>13. compacted = kept \o tail /\ tail \in Seq(Item)
         /\ Len(compacted) = Len(list) /\ Range(tail) \subseteq Range(list)
    <3>1. Len(kept) \in Nat /\ Len(list) \in Nat /\ Len(kept) <= Len(list)
      BY <2>1, <2>12, <2>9
    <3>2. tail = SubSeq(list, Len(kept) + 1, Len(list))
      BY DEF tail, OldTail
    <3>3. tail \in Seq(Item) /\ Len(tail) = Len(list) - Len(kept)
          /\ \A i \in 1..Len(tail) : tail[i] = list[Len(kept) + i]
      BY <3>1, <3>2
    <3>4. \A i \in 1..Len(tail) : Len(kept) + i \in 1..Len(list)
      BY <3>1, <3>3
    <3>5. Range(tail) \subseteq Range(list)
      <4>1. DOMAIN tail = 1..Len(tail) /\ DOMAIN list = 1..Len(list)
        BY <3>3
      <4>2. \A i \in 1..Len(tail) : \E j \in 1..Len(list) : tail[i] = list[j]
        BY <3>3, <3>4
      <4> QED
        BY <4>1, <4>2 DEF Range
    <3>6. compacted = kept \o tail
      BY <2>3, <2>12
    <3> QED
      BY <2>1, <3>1, <3>3, <3>5, <3>6
  <2>14. CASE Len(compacted) = C
    <3>1. completed = compacted
      BY <2>6, <2>14
    <3>2. Range(compacted) \subseteq Range(list)
      BY <2>1, <2>2, <2>13, JoinedFacts
    <3>3. \A l : TypesOf(l) = {c.type : c \in Range(l)}
      BY DEF Range, TypesOf
    <3>4. types \subseteq old
      BY <2>8, <2>10, <3>1, <3>2, <3>3
    <3>5. old \cap types = types
      BY <3>4
    <3>6. Cardinality(old \cap types) = C - 1
      BY <1>2 DEF Settles
    <3> HIDE DEF old
    <3>7. C = C - 1
      BY <3>5, <3>6
    <3> QED
      BY <2>9, <3>7
  <2>15. CASE Len(compacted) # C
    <3> DEFINE added == Added(Missing(compacted, types))
    <3>1. completed = compacted \o added
      BY <2>6, <2>15
    <3>2. added \in Seq(Item)
      <4>1. Missing(compacted, types) \in SUBSET Types
        BY DEF Missing
      <4> QED
        BY <4>1, AddedFacts
    <3> HIDE DEF added
    <3>3. Len(completed) = Len(compacted) + Len(added) /\ Len(added) \in Nat
          /\ Len(compacted) \in Nat
      BY <2>5, <3>1, <3>2
    <3> QED
      BY <2>9, <2>11, <2>12, <2>13, <2>15, <3>3
  <2> QED
    BY <2>14, <2>15
<1> QED
  BY <1>1, <1>2

(* Setting the status of an item changes no type, and of a list that has   *)
(* each type once it changes no other status.                              *)
LEMMA WithStatusFacts ==
  ASSUME NEW list \in Seq(Item), NEW i \in DOMAIN list, NEW status \in Statuses
  PROVE  LET changed == WithStatus(list, i, status) IN
         /\ changed \in Seq(Item) /\ DOMAIN changed = DOMAIN list
         /\ \A j \in DOMAIN list : changed[j].type = list[j].type
         /\ changed[i].status = status
         /\ Once(list) => \A j \in DOMAIN list : j # i => changed[j] = list[j]
<1> DEFINE changed == WithStatus(list, i, status)
           n == Len(list)
<1>1. n \in Nat /\ DOMAIN list = 1..n /\ \A j \in 1..n : list[j] \in Item
  OBVIOUS
<1>2. changed = [j \in 1..n |->
                   IF list[j].type = list[i].type /\ list[j].cell = list[i].cell
                     THEN [list[j] EXCEPT !.status = status] ELSE list[j]]
  BY <1>1 DEF WithStatus
<1> HIDE DEF n, changed
<1>3. \A j \in 1..n : changed[j] = IF list[j].type = list[i].type /\ list[j].cell = list[i].cell
                                   THEN [list[j] EXCEPT !.status = status] ELSE list[j]
  BY <1>2
<1>4. ASSUME NEW c \in Item
      PROVE  /\ [c EXCEPT !.status = status] \in Item
             /\ [c EXCEPT !.status = status].type = c.type
             /\ [c EXCEPT !.status = status].status = status
  BY DEF Item
<1>5. \A j \in 1..n : changed[j] \in Item /\ changed[j].type = list[j].type
  BY <1>1, <1>3, <1>4
<1>6. changed[i].status = status
  BY <1>1, <1>3, <1>4
<1>7. DOMAIN changed = 1..n
  BY <1>2
<1>8. changed \in Seq(Item)
  <2>1. changed = [j \in 1..n |-> changed[j]]
    BY <1>2
  <2> QED
    BY <1>1, <1>5, <2>1, IsASeq
<1>9. Once(list) => \A j \in 1..n : j # i => changed[j] = list[j]
  BY <1>1, <1>3 DEF Once
<1> QED
  BY <1>1, <1>5, <1>6, <1>7, <1>8, <1>9 DEF changed

(* What is said of the types of a list alone. *)
LEMMA SameTypes ==
  ASSUME NEW list, NEW other, DOMAIN list = DOMAIN other,
         \A j \in DOMAIN list : list[j].type = other[j].type
  PROVE  /\ TypesOf(list) = TypesOf(other)
         /\ Once(list) <=> Once(other)
         /\ \A types : Lists(list, types) <=> Lists(other, types)
<1>1. [j \in DOMAIN list |-> list[j].type] = [j \in DOMAIN other |-> other[j].type]
  OBVIOUS
<1>2. TypesOf(list) = TypesOf(other) /\ (Once(list) <=> Once(other))
  BY DEF TypesOf, Once
<1> QED
  BY <1>1, <1>2 DEF Lists

(* updateConditionHappiness *)
LEMMA HappinessFacts ==
  ASSUME NEW list \in Seq(Item)
  PROVE  LET told == WithHappiness(list) IN
         /\ told \in Seq(Item) /\ DOMAIN told = DOMAIN list
         /\ \A j \in DOMAIN list : told[j].type = list[j].type
         /\ Once(list) /\ Ready \in TypesOf(list) => Summarizes(told)
<1> DEFINE n == Len(list)
           told == WithHappiness(list)
           O == Objections(list)
           R == {i \in 1..n : list[i].type = Ready}
           happiness == Happiness(list)
<1>1. n \in Nat /\ DOMAIN list = 1..n /\ \A j \in 1..n : list[j] \in Item
  OBVIOUS
<1>2. /\ O \in SUBSET (1..n)
      /\ O = {i \in 1..n : list[i].type # Ready /\ list[i].status # "True"}
  BY <1>1 DEF Objections
<1>3. O # {} => Max(O) \in O
  <2> HIDE DEF O, n
  <2> QED
    BY <1>1, <1>2, MaxFact
<1>4. happiness = IF O = {} THEN "True" ELSE list[Max(O)].status
  BY DEF Happiness
<1>5. happiness \in Statuses
  <2>1. \A j \in 1..n : list[j].status \in Statuses
    BY <1>1 DEF Item
  <2> QED
    BY <1>2, <1>3, <1>4, <2>1 DEF Statuses
<1>6. told = IF R = {} THEN list ELSE WithStatus(list, Max(R), happiness)
  <2>1. SelectLastInSeq(list, LAMBDA c : c.type = Ready) = IF R # {} THEN Max(R) ELSE 0
    BY DEF SelectLastInSeq
  <2>2. R # {} => Max(R) # 0
    <3>1. R \in SUBSET (1..n)
      OBVIOUS
    <3> HIDE DEF R
    <3>2. R # {} => Max(R) \in R
      BY <1>1, <3>1, MaxFact
    <3> QED
      BY <1>1, <3>1, <3>2
  <2> QED
    BY <2>1, <2>2 DEF WithHappiness
<1>7. R # {} => Max(R) \in R /\ Max(R) \in 1..n
  <2>1. R \in SUBSET (1..n)
    OBVIOUS
  <2> HIDE DEF R, n
  <2> QED
    BY <1>1, <2>1, MaxFact
<1> HIDE DEF told, O, happiness
<1>8. /\ told \in Seq(Item) /\ DOMAIN told = DOMAIN list
      /\ \A j \in DOMAIN list : told[j].type = list[j].type
  <2> HIDE DEF R, n
  <2>1. CASE R = {}
    BY <1>6, <2>1
  <2>2. CASE R # {}
    BY <1>1, <1>5, <1>6, <1>7, <2>2, WithStatusFacts
  <2> QED
    BY <2>1, <2>2
<1>9. ASSUME Once(list), Ready \in TypesOf(list) PROVE Summarizes(told)
  <2>1. R # {}
    BY <1>1, <1>9 DEF TypesOf
  <2> DEFINE i == Max(R)
  <2>2. i \in 1..n /\ list[i].type = Ready
    BY <1>7, <2>1
  <2> HIDE DEF R, i
  <2>3. /\ told[i].status = happiness
        /\ \A j \in 1..n : j # i => told[j] = list[j]
    <3>1. told = WithStatus(list, i, happiness)
      BY <1>6, <2>1 DEF i
    <3>2. i \in DOMAIN list
      BY <1>1, <2>2
    <3> QED
      BY <1>1, <1>5, <1>9, <3>1, <3>2, WithStatusFacts
  <2>4. \A j \in 1..n : list[j].type = Ready <=> j = i
    BY <1>1, <1>9, <2>2 DEF Once
  <2> DEFINE others == {told[j].status : j \in {k \in DOMAIN told : told[k].type # Ready}}
  <2>5. DOMAIN told = 1..n /\ \A j \in 1..n : told[j].type = Ready <=> j = i
    BY <1>1, <1>8, <2>4
  <2>6. others = {list[j].status : j \in (1..n) \ {i}}
    BY <2>3, <2>5
  <2>7. CASE O = {}
    <3>1. \A j \in (1..n) \ {i} : list[j].status = "True"
      BY <1>2, <2>4, <2>7
    <3>2. others \subseteq {"True"} /\ happiness = "True"
      BY <1>4, <2>6, <2>7, <3>1
    <3> QED
      BY <2>3, <2>5, <3>2 DEF Summarizes
  <2>8. CASE O # {}
    <3>1. Max(O) \in (1..n) \ {i} /\ list[Max(O)].status # "True"
      BY <1>2, <1>3, <2>2, <2>8
    <3>2. happiness \in others \ {"True"}
      BY <1>4, <2>6, <2>8, <3>1
    <3>3. ~(others \subseteq {"True"})
      BY <3>2
    <3> QED
      BY <2>3, <2>5, <3>2, <3>3 DEF Summarizes
  <2> QED
    BY <2>7, <2>8
<1> QED
  BY <1>8, <1>9 DEF told

(* SetCondition *)
LEMMA WithConditionFacts ==
  ASSUME NEW list \in Seq(Item), NEW types \in SUBSET Types,
         NEW type \in Types, NEW status \in Statuses
  PROVE  LET set == WithCondition(list, types, type, status) IN
         /\ set \in Seq(Item)
         /\ Once(list) /\ Settles(TypesOf(list), types) /\ type \in types /\ Ready \in types
              => Lists(set, types) /\ Once(set) /\ TypesOf(set) = types /\ Summarizes(set)
<1> DEFINE clean == Sanitized(list, types)
           n == Len(clean)
           I == {i \in 1..n : clean[i].type = type}
           marked == WithStatus(clean, Min(I), status)
           set == WithCondition(list, types, type, status)
<1>1. clean \in Seq(Item)
  BY SanitizedFacts
<1>2. Once(list) /\ Settles(TypesOf(list), types)
        => Lists(clean, types) /\ Once(clean) /\ TypesOf(clean) = types
  BY SanitizedFacts
<1>3. set = LET found == SelectInSeq(clean, LAMBDA c : c.type = type)
            IN IF found = 0 THEN clean ELSE WithHappiness(WithStatus(clean, found, status))
  BY DEF WithCondition
<1> HIDE DEF clean
<1>4. n \in Nat /\ DOMAIN clean = 1..n
  BY <1>1
<1>5. I # {} => Min(I) \in I /\ Min(I) \in 1..n
  <2>1. I \in SUBSET (1..n)
    OBVIOUS
  <2> HIDE DEF I, n
  <2> QED
    BY <1>4, <2>1, MinFact
<1>6. set = IF I # {} THEN WithHappiness(marked) ELSE clean
  <2>1. SelectInSeq(clean, LAMBDA c : c.type = type) = IF I # {} THEN Min(I) ELSE 0
    BY DEF SelectInSeq
  <2>2. I # {} => Min(I) # 0
    BY <1>4, <1>5
  <2> HIDE DEF I
  <2> QED
    BY <1>3, <2>1, <2>2
<1> HIDE DEF set, I, n
<1>7. ASSUME I # {}
      PROVE  /\ marked \in Seq(Item) /\ DOMAIN marked = DOMAIN clean
             /\ \A j \in DOMAIN clean : marked[j].type = clean[j].type
  <2>1. Min(I) \in DOMAIN clean
    BY <1>4, <1>5, <1>7
  <2> QED
    BY <1>1, <2>1, WithStatusFacts
<1> HIDE DEF marked
<1>8. ASSUME I # {}
      PROVE  /\ set \in Seq(Item) /\ DOMAIN set = DOMAIN clean
             /\ \A j \in DOMAIN clean : set[j].type = clean[j].type
             /\ Once(marked) /\ Ready \in TypesOf(marked) => Summarizes(set)
  <2>1. set = WithHappiness(marked)
    BY <1>6, <1>8
  <2>2. marked \in Seq(Item)
    BY <1>7, <1>8
  <2>3. /\ set \in Seq(Item) /\ DOMAIN set = DOMAIN marked
        /\ \A j \in DOMAIN marked : set[j].type = marked[j].type
        /\ Once(marked) /\ Ready \in TypesOf(marked) => Summarizes(set)
    BY <2>1, <2>2, HappinessFacts
  <2> QED
    BY <1>7, <1>8, <2>3
<1>9. ASSUME Once(list), Settles(TypesOf(list), types), type \in types, Ready \in types
      PROVE  Lists(set, types) /\ Once(set) /\ TypesOf(set) = types /\ Summarizes(set)
  <2>1. Lists(clean, types) /\ Once(clean) /\ TypesOf(clean) = types
    BY <1>2, <1>9
  <2>2. I # {}
    BY <1>4, <1>9, <2>1 DEF I, TypesOf
  <2>3. Once(marked) /\ TypesOf(marked) = types
    BY <1>7, <2>1, <2>2, SameTypes
  <2>4. Lists(set, types) /\ Once(set) /\ TypesOf(set) = types
    BY <1>8, <2>1, <2>2, SameTypes
  <2> QED
    BY <1>8, <1>9, <2>2, <2>3, <2>4
<1> QED
  BY <1>1, <1>6, <1>8, <1>9 DEF set

(* What is written and read again is the same list, each item its own map. *)
LEMMA StoredFacts ==
  ASSUME NEW list \in Seq(Item)
  PROVE  /\ Stored(list) \in Seq(Condition) /\ DOMAIN Stored(list) = DOMAIN list
         /\ \A i \in DOMAIN list : Stored(list)[i].type = list[i].type
<1> DEFINE n == Len(list)
<1>1. n \in Nat /\ DOMAIN list = 1..n /\ \A i \in 1..n : list[i] \in Item
  OBVIOUS
<1>2. Stored(list) = [i \in 1..n |-> [type |-> list[i].type, status |-> list[i].status]]
  BY <1>1 DEF Stored
<1>3. \A i \in 1..n : [type |-> list[i].type, status |-> list[i].status] \in Condition
  BY <1>1 DEF Item, Condition
<1> HIDE DEF n
<1>4. Stored(list) \in Seq(Condition)
  BY <1>1, <1>2, <1>3, IsASeq
<1> QED
  BY <1>1, <1>2, <1>4

(* Each item read is a map of its own. *)
LEMMA ReadFacts ==
  ASSUME NEW list \in Seq(Condition)
  PROVE  /\ Read(list) \in Seq(Item) /\ DOMAIN Read(list) = DOMAIN list
         /\ \A i \in DOMAIN list : /\ Read(list)[i].type = list[i].type
                                   /\ Read(list)[i].status = list[i].status
<1> DEFINE n == Len(list)
<1>1. n \in Nat /\ DOMAIN list = 1..n /\ \A i \in 1..n : list[i] \in Condition
  OBVIOUS
<1>2. Read(list) = [i \in 1..n |-> [type |-> list[i].type, status |-> list[i].status, cell |-> i]]
  BY <1>1 DEF Read
<1>3. \A i \in 1..n : [type |-> list[i].type, status |-> list[i].status, cell |-> i] \in Item
  BY <1>1 DEF Item, Condition
<1> HIDE DEF n
<1>4. Read(list) \in Seq(Item)
  BY <1>1, <1>2, <1>3, IsASeq
<1> QED
  BY <1>1, <1>2, <1>4

(* The hook's condition is in the list once. *)
LEMMA SetByHookFacts ==
  ASSUME NEW list \in Seq(Condition), NEW type \in Types, NEW status \in Statuses
  PROVE  LET set == SetByHook(list, type, status) IN
         /\ set \in Seq(Condition)
         /\ TypesOf(set) = TypesOf(list) \cup {type}
         /\ Once(list) => Once(set)
<1> DEFINE n == Len(list)
           I == {i \in 1..n : list[i].type = type}
           set == SetByHook(list, type, status)
           new == [type |-> type, status |-> status]
<1>1. n \in Nat /\ DOMAIN list = 1..n /\ \A i \in 1..n : list[i] \in Condition
  OBVIOUS
<1>2. I # {} => Min(I) \in I /\ Min(I) \in 1..n
  <2>1. I \in SUBSET (1..n)
    OBVIOUS
  <2> HIDE DEF I, n
  <2> QED
    BY <1>1, <2>1, MinFact
<1>3. set = IF I # {} THEN [list EXCEPT ![Min(I)].status = status] ELSE Append(list, new)
  <2>1. SelectInSeq(list, LAMBDA c : c.type = type) = IF I # {} THEN Min(I) ELSE 0
    BY DEF SelectInSeq
  <2>2. I # {} => Min(I) # 0
    BY <1>1, <1>2
  <2> HIDE DEF I
  <2> QED
    BY <2>1, <2>2 DEF SetByHook
<1>4. new \in Condition
  BY DEF Condition
<1> HIDE DEF set
<1>5. CASE I # {}
  <2> DEFINE at0 == Min(I)
             changed == [list[at0] EXCEPT !.status = status]
  <2>1. at0 \in 1..n /\ list[at0].type = type
    BY <1>2, <1>5
  <2>2. set = [list EXCEPT ![at0] = changed]
    BY <1>3, <1>5
  <2> HIDE DEF at0, I, n
  <2>3. changed \in Condition /\ changed.type = type
    BY <1>1, <2>1 DEF Condition
  <2> HIDE DEF changed
  <2>4. /\ set \in Seq(Condition) /\ DOMAIN set = DOMAIN list
        /\ \A j \in DOMAIN list : set[j].type = list[j].type
    BY <1>1, <2>1, <2>2, <2>3
  <2>5. TypesOf(set) = TypesOf(list) /\ (Once(list) <=> Once(set))
    BY <2>4, SameTypes
  <2>6. type \in TypesOf(list)
    BY <1>1, <2>1 DEF TypesOf
  <2> QED
    BY <2>4, <2>5, <2>6 DEF set
<1>6. CASE I = {}
  <2>1. \A i \in 1..n : list[i].type # type
    BY <1>6
  <2>2. set = Append(list, new)
    BY <1>3, <1>6
  <2>3. new.type = type
    OBVIOUS
  <2> HIDE DEF new, I
  <2>4. /\ set \in Seq(Condition) /\ DOMAIN set = 1..n + 1 /\ set[n + 1] = new
        /\ \A i \in 1..n : i \in 1..n + 1 /\ set[i] = list[i]
    BY <1>1, <1>4, <2>2
  <2> HIDE DEF n
  <2>5. \A i \in 1..n + 1 : i \in 1..n \/ i = n + 1
    BY <1>1
  <2>6. n + 1 \in 1..n + 1
    BY <1>1
  <2>7. TypesOf(set) = TypesOf(list) \cup {type}
    BY <1>1, <2>3, <2>4, <2>5, <2>6 DEF TypesOf
  <2>8. Once(list) => Once(set)
    BY <1>1, <2>1, <2>3, <2>4, <2>5 DEF Once
  <2> QED
    BY <2>4, <2>7, <2>8 DEF set
<1> QED
  BY <1>5, <1>6

-----------------------------------------------------------------------------
(* The inductive invariant.  ListInv needs that the registrations settle;  *)
(* WorkInv holds for all of them.                                          *)
WorkInv ==
  /\ stored \in Seq(Condition) /\ conds \in Seq(Item)
  /\ reg \in Registrations
  /\ at \in {"idle", "render", "hook", "children", "update"}
  /\ child \in 1..Len(reg.children) + 1
  /\ at \in {"render", "hook", "children"} => child <= Len(reg.children)
  /\ at = "hook" => reg.hook
  /\ err \in BOOLEAN

Known == (UNION {Listings(r) : r \in Registrations}) \cup {{}}

StoredInv == Once(stored) /\ TypesOf(stored) \in Known

CondsInv ==
  /\ Once(conds) /\ TypesOf(conds) \in Known
  /\ at \in {"render", "hook"} => TypesOf(conds) = Expected(reg) /\ ~err
  /\ at = "children" => TypesOf(conds) \in Listings(reg) /\ ~err
  /\ at = "update" /\ ~err => Lists(conds, Expected(reg)) /\ Summarizes(conds)

IInv == WorkInv /\ StoredInv /\ CondsInv

(* A form factor has a first child, and its conditions are expected. *)
LEMMA RegistrationFacts ==
  ASSUME NEW r \in Registrations
  PROVE  /\ Len(r.children) \in Nat /\ Len(r.children) >= 1
         /\ DOMAIN r.children = 1..Len(r.children)
         /\ \A i \in 1..Len(r.children) : r.children[i] \in Types /\ r.children[i] \in Expected(r)
         /\ Expected(r) \in SUBSET Types /\ Ready \in Expected(r)
<1>1. /\ r.children \in Seq(Types) /\ r.children # <<>> /\ r.fromHook \subseteq Types
      /\ Ready \in Types
  BY ComponentStatusAssumption, AlphabetAssumption DEF Types
<1> DEFINE children == r.children
<1>2. children \in Seq(Types) /\ children # <<>>
  BY <1>1
<1> HIDE DEF children
<1>3. /\ Len(children) \in Nat /\ Len(children) >= 1
      /\ DOMAIN children = 1..Len(children)
      /\ \A i \in 1..Len(children) : children[i] \in Types
  BY <1>2
<1>4. Range(children) \subseteq Types /\ \A i \in 1..Len(children) : children[i] \in Range(children)
  BY <1>3 DEF Range
<1> QED
  BY <1>1, <1>3, <1>4 DEF Expected, children

(* Nothing is stored in the beginning. *)
LEMMA WorkInitially == Init => WorkInv
<1> SUFFICES ASSUME Init PROVE WorkInv
  OBVIOUS
<1>1. reg \in Registrations /\ stored = <<>> /\ conds = <<>> /\ at = "idle" /\ child = 1 /\ err = FALSE
  BY DEF Init
<1>2. child \in 1..Len(reg.children) + 1
  BY <1>1, RegistrationFacts
<1>3. stored \in Seq(Condition) /\ conds \in Seq(Item)
  BY <1>1
<1>4. at \in {"idle", "render", "hook", "children", "update"} /\ err \in BOOLEAN
      /\ ~(at \in {"render", "hook", "children"})
  BY <1>1
<1> QED
  BY <1>1, <1>2, <1>3, <1>4 DEF WorkInv

(* Reconcile works on lists of conditions, and in the form factor there is *)
(* a next child.                                                           *)
LEMMA WorkStep == WorkInv /\ [Next]_vars => WorkInv'
<1> SUFFICES ASSUME WorkInv, [Next]_vars PROVE WorkInv'
  OBVIOUS
<1> DEFINE n == Len(reg.children)
<1>1. /\ n \in Nat /\ n >= 1 /\ Expected(reg) \in SUBSET Types
      /\ \A i \in 1..n : reg.children[i] \in Types
  BY RegistrationFacts DEF WorkInv
<1>2. Read(stored) \in Seq(Item) /\ Stored(conds) \in Seq(Condition)
  BY ReadFacts, StoredFacts DEF WorkInv
<1>3. CASE Reregister
  <2>1. reg' \in Registrations /\ child' = 1
    BY <1>3 DEF Reregister
  <2>2. child' \in 1..Len(reg'.children) + 1
    BY <2>1, RegistrationFacts
  <2> QED
    BY <1>3, <2>1, <2>2 DEF Reregister, WorkInv
<1>4. CASE Begin
  <2>1. conds' \in Seq(Item)
    BY <1>1, <1>2, <1>4, SanitizedFacts DEF Begin
  <2>2. child' \in 1..n + 1 /\ child' <= n /\ reg' = reg
    BY <1>1, <1>4 DEF Begin
  <2> QED
    BY <1>4, <2>1, <2>2 DEF Begin, WorkInv
<1>5. CASE Render
  BY <1>5 DEF Render, Fail, WorkInv
<1>6. CASE Hook
  <2>1. conds' \in Seq(Item)
    <3>1. CASE conds' = conds
      BY <3>1 DEF WorkInv
    <3>2. ASSUME NEW t \in HookTypes, NEW s \in Statuses,
                 conds' = Read(SetByHook(Stored(conds), t, s))
          PROVE  conds' \in Seq(Item)
      <4>1. t \in Types
        BY ComponentStatusAssumption
      <4>2. SetByHook(Stored(conds), t, s) \in Seq(Condition)
        BY <1>2, <4>1, SetByHookFacts
      <4> QED
        BY <3>2, <4>2, ReadFacts
    <3> QED
      BY <1>6, <3>1, <3>2 DEF Hook, Fail
  <2> QED
    BY <1>6, <2>1 DEF Hook, Fail, WorkInv
<1>7. CASE ReconcileChild
  <2>1. CASE Fail
    BY <1>7, <2>1 DEF ReconcileChild, Fail, WorkInv
  <2>2. CASE ~Fail
    <3>1. child \in 1..n
      BY <1>1, <1>7 DEF ReconcileChild, WorkInv
    <3>2. conds' \in Seq(Item)
      <4>1. PICK s \in Statuses :
              conds' = WithCondition(conds, Expected(reg), reg.children[child], s)
        BY <1>7, <2>2 DEF ReconcileChild
      <4>2. conds \in Seq(Item) /\ reg.children[child] \in Types
        BY <1>1, <3>1 DEF WorkInv
      <4> QED
        BY <1>1, <4>1, <4>2, WithConditionFacts
    <3>3. /\ child' = child + 1 /\ at' = IF child = n THEN "update" ELSE "children"
          /\ UNCHANGED <<stored, reg, err>>
      BY <1>7, <2>2 DEF ReconcileChild
    <3>4. child' \in 1..n + 1 /\ (at' = "children" => child' <= n)
      BY <1>1, <3>1, <3>3
    <3> QED
      BY <3>2, <3>3, <3>4 DEF WorkInv
  <2> QED
    BY <2>1, <2>2
<1>8. CASE UpdateStatus
  BY <1>2, <1>8 DEF UpdateStatus, WorkInv
<1>9. CASE UNCHANGED vars
  BY <1>9 DEF vars, WorkInv
<1> QED
  BY <1>3, <1>4, <1>5, <1>6, <1>7, <1>8, <1>9 DEF Next

(* This much holds whatever the registrations. *)
LEMMA WorkInvariance == Spec => []WorkInv
BY WorkInitially, WorkStep, PTL DEF Spec

(* The lists have each condition once and are ones that some registration  *)
(* may leave.                                                              *)
LEMMA KnownFacts ==
  /\ \A r \in Registrations : Expected(r) \in Listings(r) /\ Listings(r) \subseteq Known
  /\ {} \in Known
<1>1. \A r \in Registrations : Listings(r) \subseteq Known
  BY DEF Known
<1>2. \A r \in Registrations : Expected(r) \in Listings(r)
  BY DEF Listings
<1>3. {} \in Known
  BY DEF Known
<1> QED
  BY <1>1, <1>2, <1>3

(* What a registration may leave gets along with what any other expects. *)
LEMMA KnownSettles ==
  ASSUME Settling(Registrations)
  PROVE  \A old \in Known, r \in Registrations : Settles(old, Expected(r))
<1> SUFFICES ASSUME NEW old \in Known, NEW r \in Registrations PROVE Settles(old, Expected(r))
  OBVIOUS
<1>1. CASE old = {}
  BY <1>1 DEF Settles
<1>2. CASE old # {}
  <2>1. PICK before \in Registrations : old \in Listings(before)
    BY <1>2 DEF Known
  <2> QED
    BY <2>1 DEF Settling
<1> QED
  BY <1>1, <1>2

(* An empty list has each condition at most once. *)
LEMMA InitInvariant == Init => IInv
<1> SUFFICES ASSUME Init PROVE IInv
  OBVIOUS
<1>1. stored = <<>> /\ conds = <<>> /\ at = "idle"
  BY DEF Init
<1>2. Once(<<>>) /\ TypesOf(<<>>) = {}
  BY DEF Once, TypesOf
<1> QED
  BY <1>1, <1>2, WorkInitially, KnownFacts DEF IInv, StoredInv, CondsInv

(* The hook adds at most one condition, and the form factor sanitizes when *)
(* it sets its own.                                                        *)
LEMMA StepInvariant ==
  ASSUME Settling(Registrations)
  PROVE  IInv /\ [Next]_vars => IInv'
<1> SUFFICES ASSUME IInv, [Next]_vars PROVE IInv'
  OBVIOUS
<1>1. WorkInv /\ WorkInv'
  BY WorkStep DEF IInv
<1>2. Expected(reg) \in SUBSET Types /\ Ready \in Expected(reg)
  BY <1>1, RegistrationFacts DEF WorkInv
<1>3. Expected(reg) \in Listings(reg) /\ Listings(reg) \subseteq Known
  BY <1>1, KnownFacts DEF WorkInv
<1>4. StoredInv /\ CondsInv
  BY DEF IInv
<1>5. /\ Once(stored) /\ TypesOf(stored) \in Known
      /\ Once(conds) /\ TypesOf(conds) \in Known
  BY <1>4 DEF StoredInv, CondsInv
<1>6. CASE Reregister
  BY <1>1, <1>4, <1>6 DEF Reregister, StoredInv, CondsInv, IInv
<1>7. CASE Begin
  <2>1. /\ Read(stored) \in Seq(Item)
        /\ TypesOf(Read(stored)) = TypesOf(stored) /\ Once(Read(stored))
    BY <1>1, <1>5, ReadFacts, SameTypes DEF WorkInv
  <2>2. Settles(TypesOf(stored), Expected(reg))
    BY <1>1, <1>5, KnownSettles DEF WorkInv
  <2>3. Once(conds') /\ TypesOf(conds') = Expected(reg)
    BY <1>2, <1>7, <2>1, <2>2, SanitizedFacts DEF Begin
  <2>4. reg' = reg /\ stored' = stored /\ at' = "render" /\ err' = FALSE
    BY <1>7 DEF Begin
  <2> QED
    BY <1>1, <1>3, <1>4, <2>3, <2>4 DEF IInv, StoredInv, CondsInv
<1>8. CASE Render
  <2>1. at = "render" /\ conds' = conds /\ reg' = reg /\ stored' = stored
    BY <1>8 DEF Render, Fail
  <2>2. TypesOf(conds) = Expected(reg) /\ ~err
    BY <1>4, <2>1 DEF CondsInv
  <2>3. \/ at' = "update" /\ err'
        \/ at' \in {"hook", "children"} /\ err' = err
    BY <1>8 DEF Render, Fail
  <2> QED
    BY <1>1, <1>3, <1>4, <2>1, <2>2, <2>3 DEF IInv, StoredInv, CondsInv
<1>9. CASE Hook
  <2>1. at = "hook" /\ reg' = reg /\ stored' = stored
    BY <1>9 DEF Hook
  <2>2. TypesOf(conds) = Expected(reg) /\ ~err
    BY <1>4, <2>1 DEF CondsInv
  <2>3. \/ at' = "update" /\ err'
        \/ at' = "children" /\ err' = err
    BY <1>9 DEF Hook, Fail
  <2>4. Once(conds') /\ TypesOf(conds') \in Listings(reg)
    <3>1. CASE conds' = conds
      BY <1>3, <1>5, <2>2, <3>1
    <3>2. ASSUME NEW t \in HookTypes, NEW s \in Statuses, reg.hook,
                 conds' = Read(SetByHook(Stored(conds), t, s))
          PROVE  Once(conds') /\ TypesOf(conds') \in Listings(reg)
      <4>1. t \in Types
        BY ComponentStatusAssumption
      <4> DEFINE old == Stored(conds)
                 new == SetByHook(old, t, s)
      <4>2. old \in Seq(Condition) /\ TypesOf(old) = Expected(reg) /\ Once(old)
        BY <1>1, <1>5, <2>2, StoredFacts, SameTypes DEF WorkInv
      <4> HIDE DEF old
      <4>3. new \in Seq(Condition) /\ TypesOf(new) = Expected(reg) \cup {t} /\ Once(new)
        BY <4>1, <4>2, SetByHookFacts
      <4> HIDE DEF new
      <4>4. Once(Read(new)) /\ TypesOf(Read(new)) = TypesOf(new)
        BY <4>3, ReadFacts, SameTypes
      <4>5. Expected(reg) \cup {t} \in Listings(reg)
        BY <3>2 DEF Listings
      <4> QED
        BY <3>2, <4>3, <4>4, <4>5 DEF new, old
    <3>3. reg.hook
      BY <1>1, <2>1 DEF WorkInv
    <3> QED
      BY <1>9, <3>1, <3>2, <3>3 DEF Hook, Fail
  <2> QED
    BY <1>1, <1>3, <1>4, <2>1, <2>3, <2>4 DEF IInv, StoredInv, CondsInv
<1>10. CASE ReconcileChild
  <2>1. at = "children" /\ reg' = reg /\ stored' = stored
    BY <1>10 DEF ReconcileChild
  <2>2. TypesOf(conds) \in Listings(reg) /\ ~err
    BY <1>4, <2>1 DEF CondsInv
  <2>3. CASE Fail
    BY <1>1, <1>4, <1>5, <2>1, <2>3 DEF Fail, IInv, StoredInv, CondsInv
  <2>4. CASE ~Fail
    <3>1. at' \in {"update", "children"} /\ err' = err
      BY <1>10, <2>4 DEF ReconcileChild
    <3>2. /\ Lists(conds', Expected(reg)) /\ Once(conds')
          /\ TypesOf(conds') = Expected(reg) /\ Summarizes(conds')
      <4>1. PICK s \in Statuses :
              conds' = WithCondition(conds, Expected(reg), reg.children[child], s)
        BY <1>10, <2>4 DEF ReconcileChild
      <4>2. reg.children[child] \in Types /\ reg.children[child] \in Expected(reg)
        BY <1>1, <2>1, RegistrationFacts DEF WorkInv
      <4>3. Settles(TypesOf(conds), Expected(reg)) /\ conds \in Seq(Item)
        BY <1>1, <1>5, KnownSettles DEF WorkInv
      <4> QED
        BY <1>2, <1>5, <4>1, <4>2, <4>3, WithConditionFacts
    <3> QED
      BY <1>1, <1>3, <1>4, <2>1, <3>1, <3>2 DEF IInv, StoredInv, CondsInv
  <2> QED
    BY <2>3, <2>4
<1>11. CASE UpdateStatus
  <2>1. /\ conds' = <<>> /\ at' = "idle" /\ reg' = reg
        /\ stored' = Stored(conds) \/ stored' = stored
    BY <1>11 DEF UpdateStatus
  <2>2. Once(Stored(conds)) /\ TypesOf(Stored(conds)) = TypesOf(conds)
    BY <1>1, <1>5, StoredFacts, SameTypes DEF WorkInv
  <2>3. StoredInv'
    BY <1>4, <1>5, <2>1, <2>2 DEF StoredInv
  <2>4. Once(<<>>) /\ TypesOf(<<>>) = {}
    BY DEF Once, TypesOf
  <2>5. Once(conds') /\ TypesOf(conds') \in Known
    BY <2>1, <2>4, KnownFacts
  <2> QED
    BY <1>1, <2>1, <2>3, <2>5 DEF IInv, CondsInv
<1>12. CASE UNCHANGED vars
  BY <1>1, <1>4, <1>12 DEF vars, IInv, StoredInv, CondsInv
<1> QED
  BY <1>6, <1>7, <1>8, <1>9, <1>10, <1>11, <1>12 DEF Next

-----------------------------------------------------------------------------
(* If no registration leaves a list that another one cannot sanitize, the  *)
(* inductive invariant holds.                                              *)
THEOREM Invariance ==
  ASSUME Settling(Registrations)
  PROVE  Spec => []IInv
BY InitInvariant, StepInvariant, PTL DEF Spec

(* Then the lists never grow beyond the conditions there are: each one is  *)
(* in them once.                                                           *)
THEOREM TypeCorrect ==
  ASSUME Settling(Registrations)
  PROVE  Spec => []TypeOK
<1>1. IInv => TypeOK
  <2> SUFFICES ASSUME IInv PROVE TypeOK
    OBVIOUS
  <2>1. WorkInv /\ Once(stored) /\ Once(conds)
    BY DEF IInv, StoredInv, CondsInv
  <2>2. ASSUME NEW list, Len(list) \in Nat, DOMAIN list = 1..Len(list), Once(list),
               TypesOf(list) \subseteq Types
        PROVE  Len(list) <= Len(Alphabet)
    BY <2>2, AlphabetFacts, OnceCardinality, FS_Subset
  <2>3. Range(stored) \subseteq Condition /\ Len(stored) <= Len(Alphabet)
    <3>1. stored \in Seq(Condition)
      BY <2>1 DEF WorkInv
    <3>2. Len(stored) \in Nat /\ DOMAIN stored = 1..Len(stored)
      BY <3>1
    <3>3. \A i \in DOMAIN stored : stored[i] \in Condition
      BY <3>1
    <3>4. \A i \in DOMAIN stored : stored[i].type \in Types
      BY <3>3 DEF Condition
    <3> QED
      BY <2>1, <2>2, <3>2, <3>3, <3>4 DEF Range, TypesOf
  <2>4. Range(Stored(conds)) \subseteq Condition /\ Len(conds) <= Len(Alphabet)
    <3>1. conds \in Seq(Item)
      BY <2>1 DEF WorkInv
    <3>2. Len(conds) \in Nat /\ DOMAIN conds = 1..Len(conds)
      BY <3>1
    <3>3. \A i \in DOMAIN conds : conds[i].type \in Types
      <4>1. \A i \in DOMAIN conds : conds[i] \in Item
        BY <3>1
      <4> QED
        BY <4>1 DEF Item
    <3>4. Stored(conds) \in Seq(Condition)
      BY <3>1, StoredFacts
    <3>5. Range(Stored(conds)) \subseteq Condition
      BY <3>4 DEF Range
    <3> QED
      BY <2>1, <2>2, <3>2, <3>3, <3>5 DEF TypesOf
  <2> QED
    BY <2>1, <2>3, <2>4 DEF WorkInv, TypeOK
<1> QED
  BY <1>1, Invariance, PTL

(* Then a reconciliation that succeeds writes exactly the conditions of    *)
(* its form factor and hook, once each and in order.                       *)
THEOREM SuccessLists ==
  ASSUME Settling(Registrations)
  PROVE  Spec => []SuccessListsExpected
<1>1. IInv => SuccessListsExpected
  BY DEF IInv, CondsInv, SuccessListsExpected
<1> QED
  BY <1>1, Invariance, PTL

(* Then what a reconciliation that succeeds says of readiness sums up the  *)
(* other conditions.                                                       *)
THEOREM ReadySummarizes ==
  ASSUME Settling(Registrations)
  PROVE  Spec => []SuccessSummarizes
<1>1. IInv => SuccessSummarizes
  BY DEF IInv, CondsInv, SuccessSummarizes
<1> QED
  BY <1>1, Invariance, PTL

(* Whatever the registrations, sanitizing keeps each condition that is     *)
(* expected as it was.                                                     *)
THEOREM ExpectedKept == Spec => SanitizingKeeps
<1>1. ASSUME WorkInv, [Next]_vars
      PROVE  [at = "idle" /\ at' # "idle" =>
                \A i \in DOMAIN stored : stored[i].type \in Expected(reg) =>
                  \E j \in DOMAIN conds' : Stored(conds')[j] = stored[i]]_vars
  <2> SUFFICES ASSUME at = "idle", at' # "idle", NEW i \in DOMAIN stored,
                      stored[i].type \in Expected(reg)
               PROVE  \E j \in DOMAIN conds' : Stored(conds')[j] = stored[i]
    OBVIOUS
  <2>1. Begin
    BY <1>1 DEF Next, Reregister, Render, Hook, ReconcileChild, UpdateStatus, vars
  <2> DEFINE read == Read(stored)
  <2>2. conds' = Sanitized(read, Expected(reg))
    BY <2>1 DEF Begin
  <2>3. /\ stored \in Seq(Condition)
        /\ read \in Seq(Item) /\ DOMAIN read = DOMAIN stored
        /\ read[i].type = stored[i].type /\ read[i].status = stored[i].status
    BY <1>1, ReadFacts DEF WorkInv
  <2>4. Expected(reg) \in SUBSET Types
    BY <1>1, RegistrationFacts DEF WorkInv
  <2> HIDE DEF read
  <2>5. read[i] \in Range(read)
    BY <2>3 DEF Range
  <2>6. read[i] \in Range(conds')
    BY <2>2, <2>3, <2>4, <2>5, SanitizedFacts
  <2>7. PICK j \in DOMAIN conds' : conds'[j] = read[i]
    BY <2>6 DEF Range
  <2>8. Stored(conds')[j] = [type |-> stored[i].type, status |-> stored[i].status]
    BY <2>3, <2>7 DEF Stored
  <2>9. stored[i] \in Condition
    BY <2>3
  <2>10. stored[i] = [type |-> stored[i].type, status |-> stored[i].status]
    BY <2>9 DEF Condition
  <2> QED
    BY <2>7, <2>8, <2>10
<1> QED
  BY <1>1, WorkInvariance, PTL DEF Spec, SanitizingKeeps
=============================================================================
