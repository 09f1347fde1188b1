-------------------------- MODULE MCComponentStatus --------------------------
(* The instances of ComponentStatus that TLC checks. *)
EXTENDS ComponentStatus

Names == <<"DeploymentReady", "HookReportedStatus", "KnativeServiceReady", "Ready", "ServiceReady">>

Registration(children, fromHook, hook) ==
  [children |-> children, fromHook |-> fromHook, hook |-> hook]

Deployment  == <<"DeploymentReady">>
WithService == <<"DeploymentReady", "ServiceReady">>
KService    == <<"KnativeServiceReady">>
FromHook    == {"HookReportedStatus"}

(* Each one's conditions include those of the ones before it. *)
Growing ==
  {Registration(Deployment, {}, FALSE), Registration(Deployment, {}, TRUE),
   Registration(Deployment, FromHook, TRUE), Registration(WithService, FromHook, TRUE)}

(* The form factors replace each other. *)
Replacing == {Registration(Deployment, {}, FALSE), Registration(KService, {}, FALSE)}

(* The theorems about success are about registrations such as the growing  *)
(* ones; those that replace each other are what they exclude.              *)
ASSUME SettlingAssumption == Settling(Growing) /\ ~Settling(Replacing)
=============================================================================
