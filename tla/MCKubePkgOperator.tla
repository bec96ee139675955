-------------------------- MODULE MCKubePkgOperator --------------------------
(* Instances of KubePkgOperator for TLC: every workload mounts every config, *)
(* and the first of two workloads is a Deployment, the second a DaemonSet.   *)
EXTENDS KubePkgOperator, TLC

CONSTANTS w1, w2, c1, c2, i1, i2, o1, o2, d1, d2, d3

MCRefs == [w \in Workloads |-> Configs]
MCKindOf == [w \in Workloads |-> IF w = w1 THEN "Deployment" ELSE "DaemonSet"]
OneKind == <<"Deployment">>
TwoKinds == <<"Deployment", "DaemonSet">>
ValueSymmetry == Permutations(Data) \union Permutations(Orders)
=============================================================================
