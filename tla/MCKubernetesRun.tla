-------------------------- MODULE MCKubernetesRun --------------------------
(***************************************************************************)
(* Small manifests and schedules for checking KubernetesRun.               *)
(***************************************************************************)
EXTENDS KubernetesRun, TLC

Two == {1, 2}
Kind2 == <<"service", "job">>

(* A service and a job in a namespace, and the job alone without one. *)
MCTargets ==
  {[workloads |-> {1, 2}, namespaced |-> TRUE],
   [workloads |-> {2}, namespaced |-> FALSE]}

(* A delay that ends at once is none; 3 is a workload nobody has. *)
MCSchedules == {{2}, {3}}
=============================================================================
