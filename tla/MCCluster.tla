----------------------------- MODULE MCCluster ------------------------------
(***************************************************************************)
(* The two ways of the cluster to give cameras to a process: the Python    *)
(* controller, which places each camera in the slot of a worker, and the   *)
(* scheduler of clustervms-go, which starts the Node that owns a name and  *)
(* all its cameras. They share no state: sub is chosen once, from Subs,    *)
(* and the other stays as it begins, owed nothing by its fairness because  *)
(* nothing of it runs.                                                     *)
(***************************************************************************)
EXTENDS MCController, GoHost
CONSTANT Subs
VARIABLE sub

ClusterInit == sub \in Subs /\ Init /\ GoInit
ClusterNext ==
  /\ UNCHANGED sub
  /\ \/ sub = "controller" /\ Next /\ UNCHANGED goVars
     \/ sub = "node" /\ GoNext /\ UNCHANGED vars
ClusterSpec == ClusterInit /\ [][ClusterNext]_<<vars, goVars, sub>> /\ GoFairness
\* The same with a controller that carries on.
ScaleInSpec ==
  /\ ClusterInit /\ [][ClusterNext]_<<vars, goVars, sub>>
  /\ \A t \in Threads : WF_vars(Ensure(t) \/ Continue(t))
ClusterTypeOK == TypeOK /\ GoTypeOK
=============================================================================
