------------------------------ MODULE Workload ------------------------------
(***************************************************************************)
(* The child that runs a component's image: composed from the rendered     *)
(* object by the form factor (formfactor/deployment, formfactor/knservice, *)
(* utils/resources) and compared with the one there is (utils/semantic).   *)
(*                                                                         *)
(* A form factor is                                                        *)
(*   [kind |-> "deployment", replicas]  1 when the registration says none  *)
(*   [kind |-> "ksvc", visibility, scale]  visibility "" for none; scale   *)
(*         a function from the bounds given, of "min" and "max"            *)
(* Image, ports, labels that never change and the Service of a Deployment  *)
(* are left out: nothing rendered is in them.                              *)
(***************************************************************************)
EXTENDS Renderer

(* The orders in which the options of the container may list variables:    *)
(* that of their names.  Volumes follow an order of the map's own, another *)
(* one for the container and for the pod.                                  *)
Sorted(obj) == InNameOrder(DOMAIN obj.byName)
EnvOrders_OfTheMap(obj) == {Sorted(obj), Reverse(Sorted(obj))}
EnvOrders(obj) == {Sorted(obj)}
VolumeOrders(obj) == SetToSeqs(DOMAIN obj.volumes)

AsContainerOptions(obj, names, order) ==
  [env |-> [i \in DOMAIN names |-> obj.byName[names[i]]],
   mounts |-> [i \in DOMAIN order |->
                 [name |-> order[i], mountPath |-> obj.volumes[order[i]].mountPath]]]

AsPodSpecOptions(obj, order) ==
  [i \in DOMAIN order |->
     [name |-> order[i], from |-> obj.volumes[order[i]].from,
      object |-> obj.volumes[order[i]].object, items |-> obj.volumes[order[i]].items]]

CreateDeployment(form, container, volumes) ==
  [kind |-> "deployment", replicas |-> form.replicas, container |-> container,
   volumes |-> volumes]

CreateKnService(form, container, volumes) ==
  [kind |-> "ksvc", visibility |-> form.visibility, scale |-> form.scale,
   container |-> container, volumes |-> volumes]

(* Every child that may be composed of an object. *)
Candidates(form, obj) ==
  {LET container == AsContainerOptions(obj, names, mounts)
       pod == AsPodSpecOptions(obj, volumes)
   IN IF form.kind = "deployment" THEN CreateDeployment(form, container, pod)
                                  ELSE CreateKnService(form, container, pod) :
   names \in EnvOrders(obj), mounts \in VolumeOrders(obj), volumes \in VolumeOrders(obj)}

(***************************************************************************)
(* DeepDerivative: what the desired child leaves empty is not compared, a  *)
(* list need only begin the existing one, a map only be part of it.        *)
(***************************************************************************)
Derived(a, b) == a = "" \/ a = b
DerivedList(as, bs, Equal(_, _)) ==
  Len(as) <= Len(bs) /\ \A i \in DOMAIN as : Equal(as[i], bs[i])
DerivedMap(f, g) == \A k \in DOMAIN f : k \in DOMAIN g /\ f[k] = g[k]

DerivedSource(a, b) ==
  a = None \/ (a.kind = b.kind /\ Derived(a.name, b.name) /\ Derived(a.key, b.key))

(* A variable's value is always compared, a source only if one is desired. *)
EnvVarEqual_NamesOnly(a, b) == a.name = b.name
EnvVarEqual(a, b) == a.name = b.name /\ a.value = b.value /\ DerivedSource(a.from, b.from)

MountEqual(a, b) == a.name = b.name /\ Derived(a.mountPath, b.mountPath)
ItemEqual(a, b) == Derived(a.key, b.key) /\ Derived(a.file, b.file)
VolumeEqual(a, b) ==
  /\ a.name = b.name /\ a.from = b.from /\ Derived(a.object, b.object)
  /\ DerivedList(a.items, b.items, ItemEqual)

PodEqual(a, b) ==
  /\ DerivedList(a.container.env, b.container.env, EnvVarEqual)
  /\ DerivedList(a.container.mounts, b.container.mounts, MountEqual)
  /\ DerivedList(a.volumes, b.volumes, VolumeEqual)

(* Of a Knative service the visibility label is compared even when none is *)
(* desired; the bounds of its scale are annotations like any other.        *)
SemanticEqual_PodOnly(a, b) == PodEqual(a, b)
SemanticEqual(a, b) ==
  /\ PodEqual(a, b)
  /\ a.kind = "deployment" => a.replicas = b.replicas
  /\ a.kind = "ksvc" => a.visibility = b.visibility /\ DerivedMap(a.scale, b.scale)
=============================================================================
