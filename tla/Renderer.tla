------------------------------ MODULE Renderer ------------------------------
(***************************************************************************)
(* How the spec of a component becomes environment variables, volumes and  *)
(* elements of its status under the rules of its registration              *)
(* (base/renderer, base/object).                                           *)
(*                                                                         *)
(* A spec is a tree of nodes:                                              *)
(*   [kind |-> "string", value], [kind |-> "other", value]  a leaf         *)
(*   [kind |-> "null"]                                                     *)
(*   [kind |-> "map", at]         at: a function from keys to nodes        *)
(*   [kind |-> "array", items]    of leaves and maps                       *)
(* A path is a sequence of keys, the leading spec left out.  A name of a   *)
(* variable is a sequence of words, which an underscore joins.  A text is  *)
(* a sequence of words, which a comma joins.                               *)
(***************************************************************************)
EXTENDS Naturals, SequencesExt, TLC, Positions, Resolver

CONSTANTS
  Paths,    \* every path to an element, in the order of their strings
  Extends,  \* pairs <<j, k>> of keys: k is j and more characters
  Words,    \* of each key: its words in capital letters
  Uris,     \* of a string: the URL it is parsed to, or NoURL
  Namespace, \* of the component
  Names     \* every name of a variable or volume, in the order of their strings

ASSUME PathsAssumption ==
  /\ "$added" \notin DOMAIN Words
  /\ Paths \in Seq(Seq(DOMAIN Words) \ {<<>>})

ASSUME NamesAssumption ==
  /\ Names \in Seq(Seq(STRING))
  /\ \A i, j \in DOMAIN Names : Names[i] = Names[j] => i = j

None == [kind |-> "none"]
Null == [kind |-> "null"]

(***************************************************************************)
(* A variable has a value or, if it is read from elsewhere, a source.      *)
(***************************************************************************)
Literal(text) == [kind |-> "text", text |-> text]
Empty == Literal(<<"">>)
Source(kind, name, key) == [kind |-> kind, name |-> name, key |-> key]

WithValue(name, value)   == [name |-> name, value |-> value, from |-> None]
WithSource(name, source) == [name |-> name, value |-> Empty, from |-> source]
Filled(name, origin) ==
  IF origin.kind = "text" THEN WithValue(name, origin) ELSE WithSource(name, origin)

(***************************************************************************)
(* The parsed fields: an element is indexed by its path, unless an array   *)
(* is on the way to it.                                                    *)
(***************************************************************************)
Under(node, key) ==
  IF node.kind = "map" /\ key \in DOMAIN node.at THEN node.at[key] ELSE None
Element(tree, path) ==
  LET node[n \in 0..Len(path)] == IF n = 0 THEN tree ELSE Under(node[n - 1], path[n])
  IN node[Len(path)]

IsString(tree, path) == Element(tree, path).kind = "string"
StringAt(tree, path) == Element(tree, path).value

(* The string of path a begins that of path p. *)
BeginsAsString(a, p) ==
  /\ a # <<>> /\ Len(a) <= Len(p)
  /\ Front(a) = SubSeq(p, 1, Len(a) - 1)
  /\ Last(a) = p[Len(a)] \/ <<Last(a), p[Len(a)]>> \in Extends

IsPartOf(p, a) == IsStrictPrefix(a, p)

ASSUME PathsOrdered ==
  \A i, j \in DOMAIN Paths : BeginsAsString(Paths[i], Paths[j]) => i <= j

(***************************************************************************)
(* The rules of a registration are a record r:                             *)
(*   prefix    words before each name that is not given                    *)
(*   add       from names to the origin of the variables it adds           *)
(*   skip      paths                                                       *)
(*   toEnv     a sequence of [path, name, default, from], whose parts may  *)
(*             be <<>> or None                                             *)
(*   toVolume  a sequence of [path, name, mountPath, from, items]          *)
(*   status    a sequence of [path, from]                                  *)
(* Of two entries for one path the later one holds.                        *)
(***************************************************************************)
EntryAt(entries, i) == IF i = 0 THEN None ELSE entries[i]
LastWith(entries, Test(_)) == EntryAt(entries, SelectLastInSeq(entries, Test))

NameRule(r, p)       == LastWith(r.toEnv, LAMBDA e : e.path = p /\ e.name # <<>>)
DefaultRule(r, p)    == LastWith(r.toEnv, LAMBDA e : e.path = p /\ e.default # None)
FromRule(r, p, kind) == LastWith(r.toEnv, LAMBDA e : e.path = p /\ e.from.kind = kind)
VolumeRule(r, p)     == LastWith(r.toVolume, LAMBDA e : e.path = p)

Defaulted(r) == {r.toEnv[i].path : i \in {j \in DOMAIN r.toEnv : r.toEnv[j].default # None}}
Instructed(r, p) ==
  \/ VolumeRule(r, p) # None
  \/ LastWith(r.toEnv, LAMBDA e : e.path = p /\ (e.name # <<>> \/ e.default # None \/ e.from # None))
       # None

(***************************************************************************)
(* Which rule applies to the element at p: the first of these, if any.     *)
(* An element with a default need not be there.                            *)
(***************************************************************************)
Precedence == <<"skip", "through", "volume", "default", "configMap", "secret", "builtin">>

OrNull(node) == IF node = None THEN Null ELSE node
NodeAt(tree, p) == OrNull(Element(tree, p))

Applies(r, tree, p, rule) ==
  CASE rule = "skip"    -> p \in r.skip
    [] rule = "through" -> NodeAt(tree, p).kind = "map" /\ ~Instructed(r, p)
    [] rule = "volume"  -> VolumeRule(r, p) # None
    [] rule = "default" -> DefaultRule(r, p) # None /\ NodeAt(tree, p) = Null
    [] OTHER            -> FromRule(r, p, rule) # None

FirstOf(rules) == IF rules = <<>> THEN "plain" ELSE Head(rules)
RuleFor(r, tree, p) == FirstOf(SelectSeq(Precedence, LAMBDA rule : Applies(r, tree, p, rule)))

(* A rule that makes one thing of an element takes its parts with it. *)
Claims(rule) == rule \notin {"skip", "through", "plain"}

(***************************************************************************)
(* What is made of an element.                                             *)
(*                                                                         *)
(* A name ending in a suffix after _ is a faulty variant of the definition *)
(* that follows it, which no specification uses; the runs on a variant     *)
(* show that the properties notice the fault.                              *)
(***************************************************************************)
DefaultName(p) == FlattenSeq([i \in DOMAIN p |-> Words[p[i]]])
VariableName(r, p) ==
  IF NameRule(r, p) # None THEN NameRule(r, p).name ELSE r.prefix \o DefaultName(p)

InNameOrder(names) == Picked(Names, {i \in DOMAIN Names : Names[i] \in names})

(* Items are ordered by their path as a string: [10] precedes [1].  (Of    *)
(* more than a hundred items OrdinalRank does not give this order.)        *)
OrdinalRank(i) == IF i < 10 THEN 11 * i + 10 ELSE 11 * (i \div 10) + (i % 10)
InOrder_Unsorted(items) == Reverse(items)
InOrder(items) ==
  LET rank == [i \in DOMAIN items |-> OrdinalRank(i - 1)]
      Place(i) == Cardinality({j \in DOMAIN items : rank[j] <= rank[i]})
  IN [n \in DOMAIN items |-> items[CHOOSE i \in DOMAIN items : Place(i) = n]]

Printed(leaf) == IF leaf = Null THEN "<nil>" ELSE leaf.value
IsPrimitive(items) == \A i \in DOMAIN items : items[i].kind # "map"
Joined(items) ==
  IF items = <<>> THEN Empty
  ELSE Literal([i \in DOMAIN items |-> Printed(InOrder(items)[i])])

(* A complex element is written as JSON. *)
DefaultRendering(node) ==
  CASE node.kind \in {"string", "other"} -> Literal(<<node.value>>)
    [] node.kind = "array" /\ IsPrimitive(node.items) -> Joined(node.items)
    [] OTHER -> [kind |-> "json", node |-> node]

(* The element of a builtInFunc as a destination. *)
FieldOr(node, key, otherwise) ==
  IF Under(node, key).kind = "string" /\ Under(node, key).value # ""
    THEN Under(node, key).value ELSE otherwise

RefIn(node) ==
  IF Under(node, "ref").kind # "map" THEN NoRef
  ELSE [apiVersion |-> FieldOr(node.at["ref"], "apiVersion", ""),
        kind       |-> FieldOr(node.at["ref"], "kind", ""),
        namespace  |-> FieldOr(node.at["ref"], "namespace", Namespace),
        name       |-> FieldOr(node.at["ref"], "name", "")]

UriIn(node) == IF Under(node, "uri").kind = "string" THEN Uris[node.at["uri"].value] ELSE NoURL

IsDestination(node) ==
  /\ node.kind = "map"
  /\ Under(node, "ref").kind \in {"none", "null", "map"}
  /\ \A key \in {"apiVersion", "kind", "namespace", "name"} :
       Under(Under(node, "ref"), key).kind \in {"none", "null", "string"}
  /\ \/ Under(node, "uri").kind \in {"none", "null"}
     \/ Under(node, "uri").kind = "string" /\ UriIn(node) # NoURL

ResolveAddress(world, node) ==
  IF IsDestination(node)
    THEN ResolveDestination(world.objects, [ref |-> RefIn(node), uri |-> UriIn(node)])
    ELSE NoURL

(* The elements a rule refers to; each must be a string. *)
Referred(r, p, rule) ==
  CASE rule \in {"configMap", "secret"} ->
         {FromRule(r, p, rule).from.name, FromRule(r, p, rule).from.key}
    [] rule = "volume" /\ VolumeRule(r, p).from # None ->
         {VolumeRule(r, p).from.name} \cup {item.key : item \in Range(VolumeRule(r, p).items)}
    [] OTHER -> {}

ResolvesAddress(r, p, rule) ==
  rule = "builtin" /\ FromRule(r, p, rule).from.function = "resolveAddress"

(* Rendering the element at p by a rule fails. *)
Fails(r, world, tree, p, rule) ==
  \/ \E q \in Referred(r, p, rule) : ~IsString(tree, q)
  \/ rule = "volume" /\ VolumeRule(r, p).from = None
  \/ ResolvesAddress(r, p, rule) /\ ResolveAddress(world, NodeAt(tree, p)) = NoURL
  \/ rule = "plain" /\ NodeAt(tree, p) = Null

(* The variable, if any: volumes have none and neither has a function that *)
(* is not known.                                                           *)
Referring(tree, rule, from) ==
  Source(rule, StringAt(tree, from.name), StringAt(tree, from.key))

VariablesAt(r, world, tree, p, rule) ==
  CASE rule = "plain"   -> {WithValue(VariableName(r, p), DefaultRendering(NodeAt(tree, p)))}
    [] rule = "default" -> {Filled(VariableName(r, p), DefaultRule(r, p).default)}
    [] rule \in {"configMap", "secret"} ->
         {WithSource(VariableName(r, p), Referring(tree, rule, FromRule(r, p, rule).from))}
    [] ResolvesAddress(r, p, rule) ->
         {WithValue(VariableName(r, p),
                    [kind |-> "url", url |-> ResolveAddress(world, NodeAt(tree, p))])}
    [] OTHER -> {}

ResolvedVolume(tree, volume) ==
  [name |-> volume.name, mountPath |-> volume.mountPath,
   from |-> volume.from.kind, object |-> StringAt(tree, volume.from.name),
   items |-> [i \in DOMAIN volume.items |->
                [key |-> StringAt(tree, volume.items[i].key), file |-> volume.items[i].file]]]

VolumesAt(r, tree, p, rule) ==
  IF rule = "volume" THEN {ResolvedVolume(tree, VolumeRule(r, p))} ELSE {}

(***************************************************************************)
(* The component object: variables by the path they come from and by name, *)
(* volumes by name.                                                        *)
(***************************************************************************)
NewObject == [byPath |-> <<>>, byName |-> <<>>, volumes |-> <<>>]

(* made: the sequence of [path, variables, volumes] that were added, each  *)
(* of which replaces what was there.                                       *)
Latest(made, Has(_)) == made[SelectLastInSeq(made, Has)]

ObjectOf(made) ==
  LET variables == UNION {made[i].variables : i \in DOMAIN made}
      volumes   == UNION {made[i].volumes : i \in DOMAIN made}
      Named(S, n) == CHOOSE x \in S : x.name = n IN
  [byPath |-> [p \in {made[i].path : i \in {j \in DOMAIN made : made[j].variables # {}}} |->
                 CHOOSE v \in Latest(made, LAMBDA m : m.path = p).variables : TRUE],
   byName |-> [n \in {v.name : v \in variables} |->
                 Named(Latest(made, LAMBDA m : \E v \in m.variables : v.name = n).variables, n)],
   volumes |-> [n \in {v.name : v \in volumes} |->
                  Named(Latest(made, LAMBDA m : \E v \in m.volumes : v.name = n).volumes, n)]]

(***************************************************************************)
(* The walk over the fields                                                *)
(***************************************************************************)
(* The variables added whatever the spec says. *)
PseudoPath(name) == <<"$added">> \o name

AddedVariable(r, world, name) ==
  LET origin == r.add[name] IN
  IF origin.kind = "controllerConfigMap"
    THEN WithValue(name, world.configMaps[<<origin.name, origin.key>>])
    ELSE Filled(name, origin)

CannotAdd(r, world) ==
  \E name \in DOMAIN r.add :
    /\ r.add[name].kind = "controllerConfigMap"
    /\ ~ConfigMapHas(world.configMaps, r.add[name].name, r.add[name].key)

Added(r, world) ==
  LET names == InNameOrder(DOMAIN r.add) IN
  [i \in DOMAIN names |-> [path |-> PseudoPath(names[i]), volumes |-> {},
                           variables |-> {AddedVariable(r, world, names[i])}]]

(* Every field there is or that has a default, by its place among Paths:   *)
(* the fields are visited in the order of the strings of their paths.      *)
FieldNames(r, tree) ==
  {i \in DOMAIN Paths : Element(tree, Paths[i]) # None \/ Paths[i] \in Defaulted(r)}

(* A field is avoided once its string continues that of one that claims    *)
(* its parts and came before.  (If that one is avoided, what avoids it     *)
(* begins both.)                                                           *)
Avoided_Unsorted(r, tree, fields, i) ==
  \E j \in fields : /\ j > i /\ BeginsAsString(Paths[j], Paths[i])
                    /\ Claims(RuleFor(r, tree, Paths[j]))
Avoided(r, tree, fields, i) ==
  \E j \in fields : /\ j < i /\ BeginsAsString(Paths[j], Paths[i])
                    /\ Claims(RuleFor(r, tree, Paths[j]))

Visited(r, tree, fields) == {i \in fields : ~Avoided(r, tree, fields, i)}

MadeOf(r, world, tree, p, rule) ==
  [path |-> p, volumes |-> VolumesAt(r, tree, p, rule),
   variables |-> VariablesAt(r, world, tree, p, rule)]
RenderParsedFields(r, world, tree, visited) ==
  LET Made(p) == MadeOf(r, world, tree, p, RuleFor(r, tree, p))
  IN Added(r, world) \o [n \in 1..Cardinality(visited) |-> Made(Paths[Nth(visited, n)])]

FieldsFail(r, world, tree, visited) ==
  \E i \in visited : Fails(r, world, tree, Paths[i], RuleFor(r, tree, Paths[i]))

(***************************************************************************)
(* The status: a function from paths to values.  A value replaces what is  *)
(* below its path; a path cannot go through a value.                       *)
(***************************************************************************)
SetFails(status, path) == \E p \in DOMAIN status : IsPartOf(path, p)
SetValue(status, path, value) ==
  [p \in {q \in DOMAIN status : ~IsPartOf(q, path)} \cup {path} |->
     IF p = path THEN value ELSE status[p]]

(* Elements are set in order, up to the first that cannot be. *)
RenderStatus(r, obj, status) ==
  LET Found(n) == r.status[n].from \in DOMAIN obj.byPath
      written[n \in 0..Len(r.status)] ==
        IF n = 0 THEN status
        ELSE IF ~Found(n) THEN written[n - 1]
        ELSE SetValue(written[n - 1], r.status[n].path, obj.byPath[r.status[n].from].value)
      refused == {n \in DOMAIN r.status : Found(n) /\ SetFails(written[n - 1], r.status[n].path)}
  IN [failed |-> refused # {},
      status |-> written[IF refused = {} THEN Len(r.status) ELSE Min(refused) - 1]]

(***************************************************************************)
(* Render: the object, the status and whether it failed.  A component      *)
(* without a spec has no variables, not even added ones.                   *)
(***************************************************************************)
Rendering(obj, status, failed) == [obj |-> obj, status |-> status, failed |-> failed]
Failure(status) == Rendering(NewObject, status, TRUE)

WithStatus(obj, written) == Rendering(obj, written.status, written.failed)
Succeeding(r, obj, status) == WithStatus(obj, RenderStatus(r, obj, status))

RenderVisited(r, world, tree, visited, status) ==
  IF FieldsFail(r, world, tree, visited) THEN Failure(status)
  ELSE Succeeding(r, ObjectOf(RenderParsedFields(r, world, tree, visited)), status)

Render(r, world, tree, status) ==
  IF tree = None THEN Rendering(NewObject, status, FALSE)
  ELSE IF tree.kind # "map" \/ CannotAdd(r, world) THEN Failure(status)
  ELSE RenderVisited(r, world, tree, Visited(r, tree, FieldNames(r, tree)), status)
=============================================================================
