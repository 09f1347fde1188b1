--------------------------- MODULE RendererProofs ---------------------------
(***************************************************************************)
(* What Renderer makes of a spec, for every list of paths and of names:    *)
(* the order of what it makes, and from which element each variable comes. *)
(***************************************************************************)
EXTENDS Renderer, PositionsProofs

(* A list of names has each of the given ones once. *)
LEMMA InNameOrderFacts ==
  ASSUME NEW names
  PROVE  LET ordered == InNameOrder(names) IN
         /\ \E n \in Nat : DOMAIN ordered = 1..n
         /\ ordered \in Seq(Range(Names) \cap names)
         /\ \A x \in Range(Names) \cap names : \E i \in DOMAIN ordered : ordered[i] = x
         /\ \A i, j \in DOMAIN ordered : ordered[i] = ordered[j] => i = j
<1> DEFINE places == {i \in DOMAIN Names : Names[i] \in names}
           ordered == InNameOrder(names)
<1>1. Len(Names) \in Nat /\ DOMAIN Names = 1..Len(Names) /\ places \in SUBSET DOMAIN Names
  BY NamesAssumption
<1>2. ordered = Picked(Names, places)
  BY DEF InNameOrder
<1>3. {Names[i] : i \in places} = Range(Names) \cap names
  BY DEF Range
<1> HIDE DEF places
<1>4. /\ Len(ordered) \in Nat /\ DOMAIN ordered = 1..Len(ordered)
      /\ ordered \in Seq(Range(Names) \cap names)
      /\ \A i \in places : \E n \in DOMAIN ordered : ordered[n] = Names[i]
  BY <1>1, <1>2, <1>3, PickedFacts
<1>5. \A x \in Range(Names) \cap names : \E i \in DOMAIN ordered : ordered[i] = x
  BY <1>3, <1>4
<1>6. \A i, j \in DOMAIN ordered : ordered[i] = ordered[j] => i = j
  <2>1. \A i, j \in places : Names[i] = Names[j] => i = j
    BY <1>1, NamesAssumption
  <2> QED
    BY <1>1, <1>2, <2>1, PickedOnce
<1> QED
  BY <1>4, <1>5, <1>6
-----------------------------------------------------------------------------
(* An element comes before its parts, whose strings continue its own. *)
LEMMA PartsFollow ==
  ASSUME NEW i \in DOMAIN Paths, NEW j \in DOMAIN Paths, IsPartOf(Paths[i], Paths[j])
  PROVE  j < i /\ BeginsAsString(Paths[j], Paths[i])
<1> DEFINE p == Paths[i]
           a == Paths[j]
<1>1. p \in Seq(DOMAIN Words) /\ a \in Seq(DOMAIN Words) /\ a # <<>> /\ p # <<>>
  BY PathsAssumption
<1>2. Len(a) <= Len(p) /\ SubSeq(a, 1, Len(a)) = SubSeq(p, 1, Len(a)) /\ a # p
  BY DEF IsPartOf, IsStrictPrefix, IsPrefix
<1> HIDE DEF p, a
<1>3. Len(a) \in Nat /\ Len(a) >= 1 /\ Len(p) \in Nat
  BY <1>1
<1>4. \A n \in 1..Len(a) : a[n] = p[n]
  BY <1>1, <1>2, <1>3
<1>5. Front(a) = SubSeq(p, 1, Len(a) - 1) /\ Last(a) = p[Len(a)]
  BY <1>1, <1>2, <1>3, <1>4 DEF Front, Last
<1>6. BeginsAsString(a, p)
  BY <1>1, <1>2, <1>5 DEF BeginsAsString
<1>7. j <= i
  BY <1>6, PathsOrdered DEF a, p
<1>8. i \in Nat /\ j \in Nat /\ i # j
  BY <1>2, PathsAssumption DEF a, p
<1> QED
  BY <1>6, <1>7, <1>8 DEF a, p

(* What the rendering of one spec adds: the added variables of the         *)
(* registration, and what is made of each element that is visited.         *)
MadeAt(rules, w, tree, i) == MadeOf(rules, w, tree, Paths[i], RuleFor(rules, tree, Paths[i]))

AddedFor(rules, w, name) ==
  [path |-> PseudoPath(name), volumes |-> {}, variables |-> {AddedVariable(rules, w, name)}]

(* Whatever is made is added by the registration or made of a field. *)
LEMMA MadeFacts ==
  ASSUME NEW rules, NEW w, NEW tree, NEW visited \in SUBSET DOMAIN Paths
  PROVE  LET made == RenderParsedFields(rules, w, tree, visited) IN
         /\ Len(made) \in Nat /\ DOMAIN made = 1..Len(made)
         /\ \A n \in DOMAIN made :
              \/ \E i \in visited : made[n] = MadeAt(rules, w, tree, i)
              \/ \E name \in Range(Names) \cap DOMAIN rules.add :
                   made[n] = AddedFor(rules, w, name)
         /\ \A i \in visited : \E n \in DOMAIN made : made[n] = MadeAt(rules, w, tree, i)
<1> DEFINE C == Cardinality(visited)
           names == InNameOrder(DOMAIN rules.add)
           added == [i \in DOMAIN names |-> AddedFor(rules, w, names[i])]
           walked == [n \in 1..C |-> MadeAt(rules, w, tree, Nth(visited, n))]
           All == {AddedFor(rules, w, name) : name \in Range(Names) \cap DOMAIN rules.add}
                    \cup {MadeAt(rules, w, tree, i) : i \in visited}
<1>1. /\ C \in Nat
      /\ \A n \in 1..C : Nth(visited, n) \in visited
      /\ \A i \in visited : \E n \in 1..C : Nth(visited, n) = i
  <2>1. DOMAIN Paths = 1..Len(Paths) /\ Len(Paths) \in Nat
    BY PathsAssumption
  <2>2. IsFiniteSet(visited)
    <3>1. IsFiniteSet(1..Len(Paths))
      BY <2>1, FS_Interval
    <3>2. visited \in SUBSET (1..Len(Paths))
      BY <2>1
    <3> QED
      BY <3>1, <3>2, FS_Subset
  <2>3. visited \in SUBSET Nat
    BY <2>1
  <2> QED
    BY <2>2, <2>3, NthFacts
<1>2. names \in Seq(Range(Names) \cap DOMAIN rules.add)
  BY InNameOrderFacts
<1>3. added \in Seq(All)
  <2>1. DOMAIN names = 1..Len(names) /\ Len(names) \in Nat
    BY <1>2
  <2>2. \A i \in 1..Len(names) : AddedFor(rules, w, names[i]) \in All
    BY <1>2
  <2> HIDE DEF All, names
  <2>3. [i \in 1..Len(names) |-> AddedFor(rules, w, names[i])] \in Seq(All)
    BY <2>1, <2>2, IsASeq
  <2> QED
    BY <2>1, <2>3
<1>4. walked \in Seq(All) /\ Len(walked) = C
  <2>1. \A n \in 1..C : MadeAt(rules, w, tree, Nth(visited, n)) \in All
    BY <1>1
  <2> HIDE DEF All, C
  <2>2. walked \in Seq(All)
    BY <1>1, <2>1, IsASeq
  <2> QED
    BY <1>1, <2>2
<1>5. RenderParsedFields(rules, w, tree, visited) = added \o walked
  BY DEF RenderParsedFields, Added, AddedFor, MadeAt
<1>6. \A n \in 1..C : walked[n] = MadeAt(rules, w, tree, Nth(visited, n))
  OBVIOUS
<1> HIDE DEF added, walked, C
<1>7. /\ added \o walked \in Seq(All)
      /\ Len(added \o walked) = Len(added) + C
      /\ \A i \in 1..Len(added) + C :
           (added \o walked)[i] = IF i <= Len(added) THEN added[i] ELSE walked[i - Len(added)]
  <2> HIDE DEF All
  <2> QED
    BY <1>3, <1>4, ConcatProperties
<1>8. \A i \in visited : \E n \in 1..Len(added) + C :
        (added \o walked)[n] = MadeAt(rules, w, tree, i)
  <2> TAKE i \in visited
  <2>1. PICK n \in 1..C : Nth(visited, n) = i
    BY <1>1
  <2>2. Len(added) \in Nat
    BY <1>3
  <2>3. Len(added) + n \in 1..Len(added) + C /\ ~(Len(added) + n <= Len(added))
        /\ (Len(added) + n) - Len(added) = n
    BY <1>1, <2>1, <2>2
  <2>4. (added \o walked)[Len(added) + n] = walked[n]
    BY <1>7, <2>3
  <2>5. walked[n] = MadeAt(rules, w, tree, i)
    BY <1>6, <2>1
  <2> QED
    BY <2>3, <2>4, <2>5
<1> DEFINE made == added \o walked
<1>9. made \in Seq(All) /\ Len(made) \in Nat /\ DOMAIN made = 1..Len(made)
      /\ \A n \in DOMAIN made : made[n] \in All
  <2> HIDE DEF All
  <2> QED
    BY <1>7
<1>10. \A i \in visited : \E n \in DOMAIN made : made[n] = MadeAt(rules, w, tree, i)
  BY <1>7, <1>8, <1>9
<1> HIDE DEF made
<1> QED
  BY <1>5, <1>9, <1>10 DEF made

(* No variable added whatever the spec says is in the place of an element. *)
LEMMA PseudoPathIsNone ==
  ASSUME NEW i \in DOMAIN Paths, NEW name \in Range(Names)
  PROVE  Paths[i] # PseudoPath(name)
<1>1. Paths[i] \in Seq(DOMAIN Words) /\ Paths[i] # <<>>
  BY PathsAssumption
<1>2. Paths[i][1] \in DOMAIN Words
  BY <1>1
<1>3. name \in Seq(STRING)
  BY NamesAssumption DEF Range
<1>4. PseudoPath(name)[1] = "$added"
  BY <1>3 DEF PseudoPath
<1> QED
  BY <1>2, <1>4, PathsAssumption

-----------------------------------------------------------------------------
(* What Render gives when it does not fail. *)
LEMMA RenderedObject ==
  ASSUME NEW rules, NEW w, NEW tree, NEW st, tree # None, ~Render(rules, w, tree, st).failed
  PROVE  Render(rules, w, tree, st).obj =
           ObjectOf(RenderParsedFields(rules, w, tree,
                                       Visited(rules, tree, FieldNames(rules, tree))))
<1> DEFINE visited == Visited(rules, tree, FieldNames(rules, tree))
<1>1. Failure(st).failed = TRUE
  BY DEF Failure, Rendering
<1> HIDE DEF visited
<1>2. Render(rules, w, tree, st) = RenderVisited(rules, w, tree, visited, st)
  BY <1>1 DEF Render, visited
<1>3. RenderVisited(rules, w, tree, visited, st)
        = Succeeding(rules, ObjectOf(RenderParsedFields(rules, w, tree, visited)), st)
  BY <1>1, <1>2 DEF RenderVisited
<1>4. ASSUME NEW o PROVE Succeeding(rules, o, st).obj = o
  BY DEF Succeeding, WithStatus, Rendering
<1> QED
  BY <1>2, <1>3, <1>4 DEF visited

(* The variable of a name is one that was made with that name. *)
LEMMA ByNameFacts ==
  ASSUME NEW made, Len(made) \in Nat, DOMAIN made = 1..Len(made)
  PROVE  /\ DOMAIN ObjectOf(made).byName
              = {v.name : v \in UNION {made[i].variables : i \in DOMAIN made}}
         /\ \A n \in DOMAIN ObjectOf(made).byName :
              /\ ObjectOf(made).byName[n].name = n
              /\ \E i \in DOMAIN made : ObjectOf(made).byName[n] \in made[i].variables
<1> DEFINE variables == UNION {made[i].variables : i \in DOMAIN made}
           o == ObjectOf(made)
           With(n) == {i \in 1..Len(made) : \E v \in made[i].variables : v.name = n}
<1>1. DOMAIN o.byName = {v.name : v \in variables}
  BY DEF ObjectOf
<1>2. ASSUME NEW n \in DOMAIN o.byName
      PROVE  /\ o.byName[n].name = n
             /\ \E i \in DOMAIN made : o.byName[n] \in made[i].variables
  <2> DEFINE I == With(n)
  <2>1. I # {} /\ I \in SUBSET (1..Len(made))
    BY <1>1, <1>2
  <2>2. Max(I) \in I
    <3> HIDE DEF I
    <3> QED
      BY <2>1, MaxFact
  <2>3. SelectLastInSeq(made, LAMBDA m : \E v \in m.variables : v.name = n) = Max(I)
    BY <2>1 DEF SelectLastInSeq
  <2>4. o.byName[n] = CHOOSE v \in made[Max(I)].variables : v.name = n
    BY <1>1, <1>2, <2>3 DEF ObjectOf, Latest
  <2>5. Max(I) \in DOMAIN made /\ \E v \in made[Max(I)].variables : v.name = n
    BY <2>2
  <2> HIDE DEF I
  <2> QED
    BY <2>4, <2>5
<1> QED
  BY <1>1, <1>2

(* Of whatever rule a variable is made, it has the name of its element;    *)
(* a variable added whatever the spec says has its own.                    *)
LEMMA VariableNames ==
  ASSUME NEW rules, NEW w, NEW tree, NEW p, NEW rule
  PROVE  /\ \A v \in VariablesAt(rules, w, tree, p, rule) : v.name = VariableName(rules, p)
         /\ \A name : AddedVariable(rules, w, name).name = name
<1>1. ASSUME NEW name, NEW o PROVE Filled(name, o).name = name
  BY DEF Filled, WithValue, WithSource
<1>2. ASSUME NEW name, NEW o PROVE WithValue(name, o).name = name /\ WithSource(name, o).name = name
  BY DEF WithValue, WithSource
<1>3. \A v \in VariablesAt(rules, w, tree, p, rule) : v.name = VariableName(rules, p)
  BY <1>1, <1>2 DEF VariablesAt
<1>4. \A name : AddedVariable(rules, w, name).name = name
  BY <1>1, <1>2 DEF AddedVariable
<1> QED
  BY <1>3, <1>4

(* Ten items or fewer keep their order. *)
LEMMA TenInOrder ==
  ASSUME NEW S, NEW items \in Seq(S), Len(items) <= 10
  PROVE  InOrder(items) = items
<1> DEFINE n == Len(items)
           rank == [i \in DOMAIN items |-> OrdinalRank(i - 1)]
           Place(i) == Cardinality({j \in DOMAIN items : rank[j] <= rank[i]})
<1>1. n \in Nat /\ DOMAIN items = 1..n /\ n <= 10
  OBVIOUS
<1>2. \A i \in 1..n : rank[i] = 11 * (i - 1) + 10
  BY <1>1 DEF OrdinalRank
<1>3. \A i \in 1..n : Place(i) = i
  <2> TAKE i \in 1..n
  <2>1. {j \in DOMAIN items : rank[j] <= rank[i]} = 1..i
    <3> HIDE DEF rank
    <3>1. \A j \in 1..n : rank[j] <= rank[i] <=> j <= i
      BY <1>1, <1>2
    <3> QED
      BY <1>1, <3>1
  <2>2. Cardinality(1..i) = i
    BY <1>1, FS_Interval
  <2> QED
    BY <2>1, <2>2
<1> HIDE DEF Place
<1>4. \A m \in 1..n : (CHOOSE i \in 1..n : Place(i) = m) = m
  BY <1>3
<1>5. InOrder(items) = [m \in 1..n |-> items[CHOOSE i \in 1..n : Place(i) = m]]
  BY <1>1 DEF InOrder, Place
<1> HIDE DEF n
<1>6. \A m \in 1..n : items[CHOOSE i \in 1..n : Place(i) = m] = items[m]
  BY <1>4
<1>7. InOrder(items) = [m \in 1..n |-> items[m]]
  BY <1>5, <1>6
<1> QED
  BY <1>1, <1>7

(* If what is made of the element at Paths[i] is one variable, and nothing *)
(* else is made with its name, the object has it under that name.          *)
LEMMA SeparateVariable ==
  ASSUME NEW rules, NEW w, NEW tree, NEW visited \in SUBSET DOMAIN Paths,
         NEW i \in visited, NEW v, MadeAt(rules, w, tree, i).variables = {v},
         v.name \notin DOMAIN rules.add,
         \A j \in visited : VariableName(rules, Paths[j]) = v.name => Paths[j] = Paths[i]
  PROVE  LET o == ObjectOf(RenderParsedFields(rules, w, tree, visited))
         IN v.name \in DOMAIN o.byName /\ o.byName[v.name] = v
<1> DEFINE made == RenderParsedFields(rules, w, tree, visited)
           o == ObjectOf(made)
<1>1. /\ Len(made) \in Nat /\ DOMAIN made = 1..Len(made)
      /\ \A n \in DOMAIN made :
           \/ \E j \in visited : made[n] = MadeAt(rules, w, tree, j)
           \/ \E name \in Range(Names) \cap DOMAIN rules.add :
                made[n] = AddedFor(rules, w, name)
      /\ \A j \in visited : \E n \in DOMAIN made : made[n] = MadeAt(rules, w, tree, j)
  BY MadeFacts
<1> HIDE DEF made
<1>2. /\ DOMAIN o.byName = {u.name : u \in UNION {made[n].variables : n \in DOMAIN made}}
      /\ \A name \in DOMAIN o.byName :
           /\ o.byName[name].name = name
           /\ \E n \in DOMAIN made : o.byName[name] \in made[n].variables
  BY <1>1, ByNameFacts
<1>3. v.name \in DOMAIN o.byName
  BY <1>1, <1>2
<1>4. \A n \in DOMAIN made : \A u \in made[n].variables : u.name = v.name => u = v
  <2> SUFFICES ASSUME NEW n \in DOMAIN made, NEW u \in made[n].variables, u.name = v.name
               PROVE  u = v
    OBVIOUS
  <2>1. ASSUME NEW j \in visited, made[n] = MadeAt(rules, w, tree, j) PROVE u = v
    <3>1. u.name = VariableName(rules, Paths[j])
      BY <2>1, VariableNames DEF MadeAt, MadeOf
    <3>2. Paths[j] = Paths[i]
      BY <3>1
    <3>3. MadeAt(rules, w, tree, j) = MadeAt(rules, w, tree, i)
      BY <3>2 DEF MadeAt
    <3> QED
      BY <2>1, <3>3
  <2>2. ASSUME NEW name \in DOMAIN rules.add, made[n] = AddedFor(rules, w, name) PROVE u = v
    <3>1. u = AddedVariable(rules, w, name)
      BY <2>2 DEF AddedFor
    <3>2. \A other : AddedVariable(rules, w, other).name = other
      BY VariableNames
    <3>3. u.name = name
      BY <3>1, <3>2
    <3> QED
      BY <2>2, <3>3
  <2> QED
    BY <1>1, <2>1, <2>2
<1>5. o.byName[v.name] = v
  BY <1>2, <1>3, <1>4
<1> QED
  BY <1>3, <1>5 DEF made

-----------------------------------------------------------------------------
(* An object is rendered of the fields that are visited, or has nothing in *)
(* it; the status it is rendered with makes no difference to it.           *)
LEMMA RenderedOf ==
  ASSUME NEW rules, NEW w, NEW tree, NEW st
  PROVE  LET o == Render(rules, w, tree, st).obj IN
         /\ \/ o = NewObject
            \/ o = ObjectOf(RenderParsedFields(rules, w, tree,
                                               Visited(rules, tree, FieldNames(rules, tree))))
         /\ \A other : Render(rules, w, tree, other).obj = o
<1> DEFINE visited == Visited(rules, tree, FieldNames(rules, tree))
           o == ObjectOf(RenderParsedFields(rules, w, tree, visited))
<1>1. ASSUME NEW any
      PROVE  /\ Failure(any).obj = NewObject
             /\ Rendering(NewObject, any, FALSE).obj = NewObject
             /\ Succeeding(rules, o, any).obj = o
  BY DEF Succeeding, WithStatus, Rendering, Failure
<1> HIDE DEF visited, o
<1>2. ASSUME NEW any
      PROVE  RenderVisited(rules, w, tree, visited, any).obj
               = IF FieldsFail(rules, w, tree, visited) THEN NewObject ELSE o
  BY <1>1 DEF RenderVisited, o
<1>3. ASSUME NEW any
      PROVE  Render(rules, w, tree, any).obj
               = IF tree = None \/ tree.kind # "map" \/ CannotAdd(rules, w)
                      \/ FieldsFail(rules, w, tree, visited) THEN NewObject ELSE o
  BY <1>1, <1>2 DEF Render, visited
<1> QED
  BY <1>3 DEF visited, o

(* The volumes of an object are finitely many: at most one of each element *)
(* that is visited.                                                        *)
LEMMA VolumesFinite ==
  ASSUME NEW rules, NEW w, NEW tree, NEW visited \in SUBSET DOMAIN Paths
  PROVE  IsFiniteSet(DOMAIN ObjectOf(RenderParsedFields(rules, w, tree, visited)).volumes)
<1> DEFINE made == RenderParsedFields(rules, w, tree, visited)
           D == DOMAIN ObjectOf(made).volumes
           nameAt == [i \in visited |-> VolumeRule(rules, Paths[i]).name]
           R == {nameAt[i] : i \in visited}
<1>1. D = {v.name : v \in UNION {made[n].volumes : n \in DOMAIN made}}
  BY DEF ObjectOf
<1>2. \A n \in DOMAIN made :
        \/ \E i \in visited : made[n] = MadeAt(rules, w, tree, i)
        \/ \E name \in Range(Names) \cap DOMAIN rules.add : made[n] = AddedFor(rules, w, name)
  BY MadeFacts
<1>3. \A i \in visited : \A v \in MadeAt(rules, w, tree, i).volumes :
        v.name = VolumeRule(rules, Paths[i]).name
  BY DEF MadeAt, MadeOf, VolumesAt, ResolvedVolume
<1>4. \A name : AddedFor(rules, w, name).volumes = {}
  BY DEF AddedFor
<1> HIDE DEF made
<1>5. D \in SUBSET R
  BY <1>1, <1>2, <1>3, <1>4
<1>6. IsFiniteSet(visited)
  <2>1. IsFiniteSet(1..Len(Paths)) /\ DOMAIN Paths = 1..Len(Paths)
    BY PathsAssumption, FS_Interval
  <2> QED
    BY <2>1, FS_Subset
<1>7. nameAt \in Surjection(visited, R)
  BY DEF Surjection
<1>8. IsFiniteSet(R)
  <2> HIDE DEF R, nameAt
  <2> QED
    BY <1>6, <1>7, FS_Surjection
<1> HIDE DEF D, R
<1>9. IsFiniteSet(D)
  BY <1>5, <1>8, FS_Subset
<1> QED
  BY <1>9 DEF D, made

(* Every variable of a rendered object has the name it is found by. *)
WellNamed(o) ==
  /\ \A n \in DOMAIN o.byName : o.byName[n].name = n
  /\ IsFiniteSet(DOMAIN o.volumes)

(* What is rendered is found under its own name. *)
LEMMA RenderedWellNamed ==
  ASSUME NEW rules, NEW w, NEW tree, NEW st
  PROVE  WellNamed(Render(rules, w, tree, st).obj)
<1> DEFINE visited == Visited(rules, tree, FieldNames(rules, tree))
           made == RenderParsedFields(rules, w, tree, visited)
<1>1. WellNamed(NewObject)
  <2>1. DOMAIN NewObject.byName = {} /\ DOMAIN NewObject.volumes = {}
    BY DEF NewObject
  <2> QED
    BY <2>1, FS_EmptySet DEF WellNamed
<1>2. visited \in SUBSET DOMAIN Paths
  BY DEF Visited, FieldNames
<1> HIDE DEF visited
<1>3. Len(made) \in Nat /\ DOMAIN made = 1..Len(made)
  BY <1>2, MadeFacts
<1>4. IsFiniteSet(DOMAIN ObjectOf(made).volumes)
  BY <1>2, VolumesFinite
<1> HIDE DEF made
<1>5. WellNamed(ObjectOf(made))
  BY <1>3, <1>4, ByNameFacts DEF WellNamed
<1> QED
  BY <1>1, <1>5, RenderedOf DEF visited, made

(* A variable has a name, a value and a source, and no value if it has a   *)
(* source.                                                                 *)
AVariable(v) ==
  /\ v = [name |-> v.name, value |-> v.value, from |-> v.from]
  /\ v.from = None \/ v.value = Empty

(* Whatever is rendered is a variable. *)
LEMMA VariableShapes ==
  ASSUME NEW rules, NEW w, NEW tree, NEW p, NEW rule
  PROVE  /\ \A v \in VariablesAt(rules, w, tree, p, rule) : AVariable(v)
         /\ \A name : AVariable(AddedVariable(rules, w, name))
<1>1. ASSUME NEW name, NEW o PROVE AVariable(WithValue(name, o)) /\ AVariable(WithSource(name, o))
  BY DEF WithValue, WithSource, AVariable
<1>2. ASSUME NEW name, NEW o PROVE AVariable(Filled(name, o))
  BY <1>1 DEF Filled
<1>3. \A v \in VariablesAt(rules, w, tree, p, rule) : AVariable(v)
  BY <1>1, <1>2 DEF VariablesAt
<1>4. \A name : AVariable(AddedVariable(rules, w, name))
  BY <1>1, <1>2 DEF AddedVariable
<1> QED
  BY <1>3, <1>4

(* The variables of a rendered object, and their names: those of elements  *)
(* and those that the registration adds.                                   *)
LEMMA RenderedVariables ==
  ASSUME NEW rules, NEW w, NEW tree, NEW st
  PROVE  LET o == Render(rules, w, tree, st).obj IN
         /\ \A n \in DOMAIN o.byName : AVariable(o.byName[n])
         /\ \A n \in DOMAIN o.byName :
              \/ n \in Range(Names)
              \/ \E i \in DOMAIN Paths : n = VariableName(rules, Paths[i])
<1> DEFINE visited == Visited(rules, tree, FieldNames(rules, tree))
           made == RenderParsedFields(rules, w, tree, visited)
           Fine(o) ==
             /\ \A n \in DOMAIN o.byName : AVariable(o.byName[n])
             /\ \A n \in DOMAIN o.byName :
                  \/ n \in Range(Names)
                  \/ \E i \in DOMAIN Paths : n = VariableName(rules, Paths[i])
<1>1. Fine(NewObject)
  <2>1. DOMAIN NewObject.byName = {}
    BY DEF NewObject
  <2> QED
    BY <2>1
<1>2. visited \in SUBSET DOMAIN Paths
  BY DEF Visited, FieldNames
<1> HIDE DEF visited
<1>3. /\ Len(made) \in Nat /\ DOMAIN made = 1..Len(made)
      /\ \A n \in DOMAIN made :
           \/ \E i \in visited : made[n] = MadeAt(rules, w, tree, i)
           \/ \E name \in Range(Names) \cap DOMAIN rules.add : made[n] = AddedFor(rules, w, name)
  BY <1>2, MadeFacts
<1>4. \A i \in visited : \A v \in MadeAt(rules, w, tree, i).variables :
        AVariable(v) /\ v.name = VariableName(rules, Paths[i])
  BY VariableShapes, VariableNames DEF MadeAt, MadeOf
<1>5. \A name \in Range(Names) : \A v \in AddedFor(rules, w, name).variables :
        AVariable(v) /\ v.name = name
  <2> TAKE name \in Range(Names)
  <2>1. AddedFor(rules, w, name).variables = {AddedVariable(rules, w, name)}
    BY DEF AddedFor
  <2>2. AVariable(AddedVariable(rules, w, name)) /\ AddedVariable(rules, w, name).name = name
    BY VariableShapes, VariableNames
  <2> QED
    BY <2>1, <2>2
<1> HIDE DEF made
<1>6. ASSUME NEW n \in DOMAIN made, NEW v \in made[n].variables
      PROVE  /\ AVariable(v)
             /\ \/ v.name \in Range(Names)
                \/ \E i \in DOMAIN Paths : v.name = VariableName(rules, Paths[i])
  BY <1>2, <1>3, <1>4, <1>5
<1>7. \A n \in DOMAIN ObjectOf(made).byName :
        /\ ObjectOf(made).byName[n].name = n
        /\ \E i \in DOMAIN made : ObjectOf(made).byName[n] \in made[i].variables
  BY <1>3, ByNameFacts
<1>8. Fine(ObjectOf(made))
  BY <1>6, <1>7
<1> QED
  BY <1>1, <1>8, RenderedOf DEF visited, made
=============================================================================
