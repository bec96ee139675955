------------------------- MODULE MCKubePkgDeployments -------------------------
(* Instances of KubePkgDeployments for TLC. *)
EXTENDS KubePkgDeployments, TLC

CONSTANTS c1, c2

OverEither == {[version |-> None, config |-> c1], [plain |-> c1]}
Symmetry ==
  Permutations(Requests) \union Permutations(Names) \union Permutations(Versions)
=============================================================================
