------------------------ MODULE MCComponentRendering ------------------------
(* The instances of ComponentRendering that TLC checks. *)
EXTENDS ComponentRendering

MCPaths ==
  <<<<"cred">>, <<"cred", "key">>, <<"cred", "name">>, <<"credits">>,
    <<"group">>, <<"group", "size">>,
    <<"sink">>, <<"sink", "ref">>, <<"sink", "ref", "apiVersion">>,
    <<"sink", "ref", "kind">>, <<"sink", "ref", "name">>, <<"sink", "uri">>,
    <<"tags">>, <<"user">>,
    <<"users">>, <<"users", "key">>, <<"users", "name">>>>

MCExtends == {<<"cred", "credits">>, <<"user", "users">>}

MCWords == [k \in {MCPaths[i][Len(MCPaths[i])] : i \in DOMAIN MCPaths} |->
  CASE k = "cred" -> <<"CRED">>   [] k = "key"   -> <<"KEY">>   [] k = "name" -> <<"NAME">>
    [] k = "credits" -> <<"CREDITS">> [] k = "group" -> <<"GROUP">> [] k = "size" -> <<"SIZE">>
    [] k = "sink" -> <<"SINK">>   [] k = "ref" -> <<"REF">>     [] k = "uri" -> <<"URI">>
    [] k = "apiVersion" -> <<"APIVERSION">> [] k = "kind" -> <<"KIND">>
    [] k = "tags" -> <<"TAGS">>   [] k = "user" -> <<"USER">>   [] k = "users" -> <<"USERS">>]

(* In the order of strings; with the prefix APP, and without.              *)
Plain ==
  <<<<"CRED">>, <<"CREDITS">>, <<"CRED", "KEY">>, <<"CRED", "NAME">>, <<"GROUP">>,
    <<"GROUP", "SIZE">>, <<"K", "SINK">>, <<"LEVEL">>, <<"SINK">>, <<"SINK", "REF">>,
    <<"SINK", "REF", "APIVERSION">>, <<"SINK", "REF", "KIND">>, <<"SINK", "REF", "NAME">>,
    <<"SINK", "URI">>, <<"TAGS">>, <<"USER">>, <<"USERS">>, <<"USERS", "KEY">>,
    <<"USERS", "NAME">>, <<"list">>>>
MCNames == [i \in DOMAIN Plain |-> <<"APP">> \o Plain[i]] \o Plain

URLOf(host, path) == [EmptyURL EXCEPT !.scheme = "http", !.host = <<host>>, !.path = path]
MCUris == [u \in {"/in", "http://out"} |->
             IF u = "/in" THEN [EmptyURL EXCEPT !.path = "/in"] ELSE URLOf("out", "")]

Str(value)  == [kind |-> "string", value |-> value]
Num(value)  == [kind |-> "other", value |-> value]
Map(nodes)  == [kind |-> "map", at |-> nodes]
Array(items) == [kind |-> "array", items |-> items]

Pair(name, key) == Map([name |-> Str(name), key |-> Str(key)])
RefTo(apiVersion, kind, name) ==
  Map([apiVersion |-> Str(apiVersion), kind |-> Str(kind), name |-> Str(name)])

Broker  == [apiVersion |-> "x/v1", kind |-> "Broker", namespace |-> "ns", name |-> "b"]
Service == [apiVersion |-> "v1", kind |-> "Service", namespace |-> "ns", name |-> "b"]

(* Specs                                                                   *)
Small   == Map([cred |-> Pair("s", "k"), tags |-> Array(<<Str("x"), Str("y")>>)])
Larger  == Map([cred |-> Pair("s", "k"), tags |-> Array(<<Str("x"), Str("y")>>), user |-> Str("u"),
                sink |-> Map([ref |-> RefTo("x/v1", "Broker", "b"), uri |-> Str("/in")])])
Unnamed == Map([user |-> Str(""), group |-> Map([size |-> Num("3")]),
                sink |-> Map([ref |-> RefTo("v1", "Service", "b")]),
                tags |-> Array(<<Map([size |-> Num("1")])>>)])
Broken  == Map([cred |-> Map([name |-> Str("s")]), user |-> Str("u")])
Volumes == Map([users |-> Pair("c", "f"), cred |-> Pair("t", "k"),
                tags |-> Array([i \in 1..11 |-> Str(ToString(i))])])
Siblings == Map([cred |-> Pair("s", "k"), credits |-> Str("9")])

(* Rules                                                                   *)
ToEnv(path, name, default, from) ==
  [path |-> path, name |-> name, default |-> default, from |-> from]
From(kind, path) == [kind |-> kind, name |-> path \o <<"name">>, key |-> path \o <<"key">>]
Resolve == [kind |-> "builtin", function |-> "resolveAddress"]

NoRules == [prefix |-> <<>>, add |-> <<>>, skip |-> {}, toEnv |-> <<>>, toVolume |-> <<>>,
            status |-> <<>>]
Everything ==
  [prefix |-> <<"APP">>,
   add |-> (<<"LEVEL">> :> [kind |-> "controllerConfigMap", name |-> "logging", key |-> "level"]),
   skip |-> {<<"group">>},
   toEnv |-> <<ToEnv(<<"cred">>, <<>>, None, From("secret", <<"cred">>)),
               ToEnv(<<"user">>, <<"USER">>, Source("secret", "login", "user"), None),
               ToEnv(<<"cred", "name">>, <<>>, Literal(<<"anyone">>), None),
               ToEnv(<<"sink">>, <<"K", "SINK">>, None, Resolve)>>,
   toVolume |-> <<>>,
   status |-> <<[path |-> <<"sinkUri">>, from |-> <<"sink">>]>>]
Mounted ==
  [NoRules EXCEPT
     !.toEnv = <<ToEnv(<<"user">>, <<"USER">>, Literal(<<"nobody">>), None),
                 ToEnv(<<"sink">>, <<>>, None, Resolve)>>,
     !.toVolume = <<[path |-> <<"users">>, name |-> <<"list">>, mountPath |-> "/opt",
                     from |-> [kind |-> "configMap", name |-> <<"users", "name">>],
                     items |-> <<[key |-> <<"users", "key">>, file |-> "list"]>>],
                    [path |-> <<"cred">>, name |-> <<"CRED">>, mountPath |-> "/cred",
                     from |-> [kind |-> "secret", name |-> <<"cred", "name">>],
                     items |-> <<[key |-> <<"cred", "key">>, file |-> "key"]>>]>>,
     !.status = <<[path |-> <<"sinkUri">>, from |-> <<"sink">>],
                  [path |-> <<"owner">>, from |-> <<"user">>]>>]

(* Versions                                                                *)
Version(rank, served, deprecated) ==
  [rank |-> rank, served |-> served, deprecated |-> deprecated, subresource |-> TRUE,
   declares |-> IF rank = 1 THEN {} ELSE {"address.url"}]

Versions == {Version(rank, s, d) : rank \in 1..3, s \in BOOLEAN, d \in BOOLEAN}
MCVersionLists ==
  {<<>>} \cup {<<v>> : v \in Versions} \cup {<<v, w>> : v \in Versions, w \in Versions}

Deployment(n) ==
  [kind |-> "deployment", replicas |-> n,
   address |-> IF n = 0 THEN None ELSE Literal(<<"http://d">>)]
KnService == [kind |-> "ksvc", visibility |-> "cluster-local",
              scale |-> [min |-> 1], address |-> Literal(<<"http://k">>)]
PublicKnService == [KnService EXCEPT !.visibility = "", !.scale = <<>>]

Registration(rules, form, versions) ==
  [rules |-> rules, form |-> form, versions |-> versions, addsVolumes |-> FALSE]

Stable == <<Version(1, TRUE, FALSE), Version(2, TRUE, FALSE)>>
Old    == <<Version(1, TRUE, FALSE)>>

SomeRegistrations ==
  {Registration(Everything, Deployment(1), Stable),
   Registration(Everything, KnService, Old),
   Registration(Mounted, Deployment(0), Stable),
   Registration(NoRules, PublicKnService, Stable),
   [Registration(NoRules, KnService, Old) EXCEPT !.addsVolumes = TRUE]}
SomeSpecs == {None, Small, Larger, Unnamed, Broken, Volumes, Siblings}

World(objects, level) ==
  [objects |-> objects, configMaps |-> IF level = "" THEN <<>> ELSE (<<"logging", "level">> :> Literal(<<level>>))]
At(path) == Broker :> URLOf("broker", path)
SomeWorlds ==
  {World(At("/"), "info"), World(At("/new") @@ (Service :> NoURL), "debug"), World(<<>>, "")}
=============================================================================
