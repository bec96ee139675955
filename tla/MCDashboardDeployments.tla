------------------------ MODULE MCDashboardDeployments ------------------------
(* Two kubepkgs; the revisions are all of the first one. *)
EXTENDS DashboardDeployments, TLC

CONSTANTS p, q, p1, p2

MCPkgOf == [r \in Revs |-> p]
RevSymmetry == Permutations(Revs)
=============================================================================
