------------------------------ MODULE Resolver ------------------------------
(***************************************************************************)
(* From a destination to a URL (utils/resolver), and from a key of a       *)
(* ConfigMap in Scoby's namespace to its value (utils/configmap).          *)
(*                                                                         *)
(* A URL is a record of its parts; its host is a sequence of labels.       *)
(* objects is what the cluster holds: a function from references to the    *)
(* URL at status.address.url, or NoURL; configMaps is one from pairs of    *)
(* ConfigMap and key to values.                                            *)
(***************************************************************************)
EXTENDS Sequences

CONSTANTS
  Domain   \* the cluster's domain: the environment's CLUSTER_DOMAIN or
           \* cluster.local, since what resolv.conf says is overwritten

NoRef == [kind |-> "none"]
NoURL == [kind |-> "none"]
EmptyURL == [scheme |-> "", host |-> <<>>, port |-> "", path |-> "", query |-> ""]

IsService(ref) == ref.apiVersion = "v1" /\ ref.kind = "Service"
ServiceURL(ref) ==
  [EmptyURL EXCEPT !.scheme = "http", !.host = <<ref.name, ref.namespace, "svc", Domain>>]

(* A Service is called by its name; anything else says where it is called. *)
(* NoURL: the object is not there, or does not say.                        *)
ResolveReference(objects, ref) ==
  IF ref \notin DOMAIN objects THEN NoURL
  ELSE IF IsService(ref) THEN ServiceURL(ref) ELSE objects[ref]

(* The parts of a relative URI replace those of the base. *)
Override(base, uri) ==
  [part \in DOMAIN base |->
     IF part # "host" /\ uri[part] # "" THEN uri[part] ELSE base[part]]

(* A destination has a reference, a URI or both; NoURL is an error. *)
ResolveDestination(objects, d) ==
  LET base == ResolveReference(objects, d.ref) IN
  IF d.ref = NoRef THEN d.uri
  ELSE IF base = NoURL \/ d.uri = NoURL THEN base
  ELSE IF d.uri.host # <<>> THEN NoURL ELSE Override(base, d.uri)

ConfigMapHas(configMaps, name, key) == <<name, key>> \in DOMAIN configMaps
=============================================================================
