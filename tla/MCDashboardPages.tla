--------------------------- MODULE MCDashboardPages ---------------------------
(* Two of everything; the channels are the first and a later one; one      *)
(* account is an admin, the other a member of a group.  Pages that are     *)
(* apart share their values, so that fewer need to be swapped.             *)
EXTENDS DashboardPages, TLC

CONSTANTS adm, mem, g, h

TwoChannels == <<"DEV", "STABLE">>
AdminAndMember == [account \in {adm, mem} |-> IF account = adm THEN {Home} ELSE {g}]
PageSymmetry == Permutations(IDs) \union Permutations(Names)
=============================================================================
