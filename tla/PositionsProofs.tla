-------------------------- MODULE PositionsProofs --------------------------
(***************************************************************************)
(* What Positions takes of a list: each of the given positions once.  The  *)
(* proofs of the modules that work with lists rest on these lemmas.        *)
(***************************************************************************)
EXTENDS Positions, SequencesExt, FiniteSetTheorems, SequenceTheorems, TLAPS

(* The n-th number of a finite set is one of its numbers, and each of them *)
(* is the n-th for one n.                                                  *)
LEMMA NthFacts ==
  ASSUME NEW S \in SUBSET Nat, IsFiniteSet(S)
  PROVE  /\ Cardinality(S) \in Nat
         /\ \A n \in 1..Cardinality(S) :
              Nth(S, n) \in S /\ Cardinality({y \in S : y <= Nth(S, n)}) = n
         /\ \A x \in S : \E n \in 1..Cardinality(S) : Nth(S, n) = x
<1> DEFINE upTo(x) == {y \in S : y <= x}
           place == [x \in S |-> Cardinality(upTo(x))]
           C == Cardinality(S)
<1>1. C \in Nat
  BY FS_CardinalityType
<1>2. \A x \in S : IsFiniteSet(upTo(x)) /\ upTo(x) \subseteq S
  BY FS_Subset
<1>3. \A x \in S : Cardinality(upTo(x)) \in 1..C
  <2> TAKE x \in S
  <2>1. Cardinality(upTo(x)) \in Nat /\ Cardinality(upTo(x)) <= C
    BY <1>2, FS_Subset, FS_CardinalityType
  <2>2. upTo(x) # {}
    BY DEF upTo
  <2>3. Cardinality(upTo(x)) # 0
    BY <1>2, <2>2, FS_EmptySet
  <2> QED
    BY <1>1, <2>1, <2>3
<1>4. \A x, y \in S : Cardinality(upTo(x)) = Cardinality(upTo(y)) => x = y
  <2>1. ASSUME NEW x \in S, NEW y \in S, x < y, Cardinality(upTo(x)) = Cardinality(upTo(y))
        PROVE  FALSE
    <3>1. upTo(x) \in SUBSET upTo(y) /\ y \in upTo(y) /\ y \notin upTo(x)
      <4>1. x \in Nat /\ y \in Nat /\ \A z \in S : z \in Nat
        OBVIOUS
      <4>2. \A z \in S : z <= x => z <= y
        BY <2>1, <4>1
      <4>3. ~(y <= x) /\ y <= y
        BY <2>1, <4>1
      <4> QED
        BY <4>2, <4>3
    <3>2. upTo(x) = upTo(y)
      BY <1>2, <2>1, <3>1, FS_Subset
    <3> QED
      BY <3>1, <3>2
  <2> QED
    BY <2>1
<1>5. \A n \in 1..C : \E x \in S : Cardinality(upTo(x)) = n
  <2> SUFFICES ASSUME NEW n \in 1..C, \A x \in S : Cardinality(upTo(x)) # n
               PROVE  FALSE
    OBVIOUS
  <2> DEFINE T == (1..C) \ {n}
  <2>1. IsFiniteSet(1..C) /\ Cardinality(1..C) = C
    BY <1>1, FS_Interval
  <2>2. IsFiniteSet(T) /\ Cardinality(T) = C - 1
    BY <2>1, FS_RemoveElement
  <2>3. place \in [S -> T]
    BY <1>3
  <2> HIDE DEF T
  <2>4. Cardinality(T) < Cardinality(S)
    BY <1>1, <2>2
  <2>5. \E x, y \in S : x # y /\ place[x] = place[y]
    <3> HIDE DEF place
    <3> QED
      BY <2>2, <2>3, <2>4, FS_PigeonHole
  <2> QED
    BY <1>4, <2>5
<1>6. \A n \in 1..C : Nth(S, n) \in S /\ Cardinality(upTo(Nth(S, n))) = n
  BY <1>5 DEF Nth
<1>7. \A x \in S : Nth(S, Cardinality(upTo(x))) = x
  BY <1>3, <1>4, <1>6
<1> QED
  BY <1>1, <1>3, <1>6, <1>7

(* The last of some positions is one of them. *)
LEMMA MaxFact ==
  ASSUME NEW n \in Nat, NEW I \in SUBSET (1..n), I # {}
  PROVE  Max(I) \in I
<1> DEFINE C == Cardinality(I)
           x == Nth(I, C)
           upTo == {y \in I : y <= x}
<1>1. I \in SUBSET Nat /\ IsFiniteSet(I)
  <2>1. IsFiniteSet(1..n)
    BY FS_Interval
  <2>2. IsFiniteSet(I)
    BY <2>1, FS_Subset
  <2> QED
    BY <2>2
<1>2. C \in Nat /\ C # 0
  BY <1>1, FS_CardinalityType, FS_EmptySet
<1>3. x \in I /\ Cardinality(upTo) = C
  BY <1>1, <1>2, NthFacts
<1>4. upTo \in SUBSET I
  OBVIOUS
<1>5. upTo = I
  <2> HIDE DEF upTo
  <2> QED
    BY <1>1, <1>3, <1>4, FS_Subset
<1>6. x \in I /\ \A y \in I : x >= y
  <2> HIDE DEF x
  <2> QED
    BY <1>1, <1>3, <1>5
<1> QED
  BY <1>6 DEF Max

(* And so is the first. *)
LEMMA MinFact ==
  ASSUME NEW n \in Nat, NEW I \in SUBSET (1..n), I # {}
  PROVE  Min(I) \in I
<1> DEFINE x == Nth(I, 1)
           upTo == {y \in I : y <= x}
<1>1. I \in SUBSET Nat /\ IsFiniteSet(I)
  <2>1. IsFiniteSet(1..n)
    BY FS_Interval
  <2>2. IsFiniteSet(I)
    BY <2>1, FS_Subset
  <2> QED
    BY <2>2
<1>2. 1 \in 1..Cardinality(I)
  <2>1. Cardinality(I) \in Nat /\ Cardinality(I) # 0
    BY <1>1, FS_CardinalityType, FS_EmptySet
  <2> QED
    BY <2>1
<1>3. x \in I /\ Cardinality(upTo) = 1
  BY <1>1, <1>2, NthFacts
<1>4. x \in upTo /\ upTo \in SUBSET I
  <2> HIDE DEF x
  <2>1. x <= x
    BY <1>1, <1>3
  <2> QED
    BY <1>3, <2>1
<1>5. \A y \in upTo : y = x
  <2> HIDE DEF upTo
  <2>1. IsFiniteSet(upTo)
    BY <1>1, <1>4, FS_Subset
  <2>2. \E z : upTo = {z}
    BY <1>3, <2>1, FS_Singleton
  <2> QED
    BY <1>4, <2>2
<1>6. x \in I /\ \A y \in I : x <= y
  <2>1. \A y \in I : y <= x => y = x
    BY <1>5
  <2> HIDE DEF x, upTo
  <2> QED
    BY <1>1, <1>3, <2>1
<1> QED
  BY <1>6 DEF Min

(* What is picked are the elements at the given positions, as many as      *)
(* there are positions.                                                    *)
LEMMA PickedFacts ==
  ASSUME NEW seq, Len(seq) \in Nat, DOMAIN seq = 1..Len(seq), NEW S \in SUBSET DOMAIN seq
  PROVE  LET picked == Picked(seq, S) IN
         /\ Cardinality(S) \in Nat /\ IsFiniteSet(S)
         /\ Len(picked) = Cardinality(S) /\ DOMAIN picked = 1..Len(picked)
         /\ picked \in Seq({seq[i] : i \in S})
         /\ \A n \in 1..Cardinality(S) : Nth(S, n) \in S /\ picked[n] = seq[Nth(S, n)]
         /\ \A i \in S : \E n \in DOMAIN picked : picked[n] = seq[i]
<1> DEFINE C == Cardinality(S)
           picked == [n \in 1..C |-> seq[Nth(S, n)]]
           B == {seq[i] : i \in S}
<1>1. S \in SUBSET Nat /\ IsFiniteSet(S)
  <2>1. DOMAIN seq = 1..Len(seq) /\ Len(seq) \in Nat
    OBVIOUS
  <2>2. IsFiniteSet(1..Len(seq))
    BY <2>1, FS_Interval
  <2>3. S \in SUBSET (1..Len(seq))
    BY <2>1
  <2>4. IsFiniteSet(S)
    BY <2>2, <2>3, FS_Subset
  <2> QED
    BY <2>3, <2>4
<1>2. /\ C \in Nat
      /\ \A n \in 1..C : Nth(S, n) \in S
      /\ \A i \in S : \E n \in 1..C : Nth(S, n) = i
  BY <1>1, NthFacts
<1> HIDE DEF C
<1>3. \A n \in 1..C : seq[Nth(S, n)] \in B
  BY <1>2
<1>4. picked \in Seq(B)
  <2> HIDE DEF B
  <2> QED
    BY <1>2, <1>3, IsASeq
<1>5. Len(picked) = C /\ DOMAIN picked = 1..C
  BY <1>2
<1>6. \A n \in 1..C : picked[n] = seq[Nth(S, n)]
  OBVIOUS
<1>7. \A i \in S : \E n \in 1..C : picked[n] = seq[i]
  BY <1>2, <1>6
<1>8. picked = Picked(seq, S)
  BY DEF Picked, C
<1> HIDE DEF picked
<1> QED
  BY <1>1, <1>2, <1>4, <1>5, <1>6, <1>7, <1>8 DEF C

(* If the elements at the positions differ, none is picked twice. *)
LEMMA PickedOnce ==
  ASSUME NEW seq, Len(seq) \in Nat, DOMAIN seq = 1..Len(seq), NEW S \in SUBSET DOMAIN seq,
         \A i, j \in S : seq[i] = seq[j] => i = j
  PROVE  \A n, m \in DOMAIN Picked(seq, S) : Picked(seq, S)[n] = Picked(seq, S)[m] => n = m
<1> DEFINE picked == Picked(seq, S)
<1>1. /\ IsFiniteSet(S) /\ DOMAIN picked = 1..Cardinality(S)
      /\ \A n \in 1..Cardinality(S) : Nth(S, n) \in S /\ picked[n] = seq[Nth(S, n)]
  <2>1. Len(picked) = Cardinality(S) /\ DOMAIN picked = 1..Len(picked) /\ IsFiniteSet(S)
    BY PickedFacts
  <2>2. \A n \in 1..Cardinality(S) : Nth(S, n) \in S /\ picked[n] = seq[Nth(S, n)]
    BY PickedFacts
  <2> QED
    BY <2>1, <2>2
<1>2. S \in SUBSET Nat
  OBVIOUS
<1>3. \A n \in 1..Cardinality(S) : Cardinality({y \in S : y <= Nth(S, n)}) = n
  BY <1>1, <1>2, NthFacts
<1> HIDE DEF picked
<1>4. \A n, m \in DOMAIN picked : picked[n] = picked[m] => Nth(S, n) = Nth(S, m)
  BY <1>1
<1>5. \A n, m \in DOMAIN picked : picked[n] = picked[m] => n = m
  <2> SUFFICES ASSUME NEW n \in DOMAIN picked, NEW m \in DOMAIN picked, picked[n] = picked[m]
               PROVE  n = m
    OBVIOUS
  <2>1. Nth(S, n) = Nth(S, m)
    BY <1>4
  <2>2. n \in 1..Cardinality(S) /\ m \in 1..Cardinality(S)
    BY <1>1
  <2> QED
    BY <1>3, <2>1, <2>2
<1> QED
  BY <1>5 DEF picked
=============================================================================
