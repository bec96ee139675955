--------------------------- MODULE DeploymentHistory ---------------------------
(***************************************************************************)
(* What the dashboard promises of the deployments of an environment: each  *)
(* name has a history of entries, one of which is its latest.  A           *)
(* deployment adds one entry and may forget others; a deletion forgets     *)
(* them all.  Each is one step, and is about one name.                     *)
(***************************************************************************)
CONSTANTS Names, None

VARIABLES
  recorded,   \* each name's set of entries
  latest      \* each name's latest entry, one of them, or None

Init ==
  /\ recorded = [n \in Names |-> {}]
  /\ latest = [n \in Names |-> None]

Only(n) ==
  /\ recorded' = [recorded EXCEPT ![n] = recorded'[n]]
  /\ latest' = [latest EXCEPT ![n] = latest'[n]]

Record(n) ==
  /\ latest'[n] \in recorded'[n]
  /\ \E e \in recorded'[n] : recorded'[n] \subseteq recorded[n] \union {e}
  /\ Only(n)

Forget(n) == recorded'[n] = {} /\ latest'[n] = None /\ Only(n)

Next == \E n \in Names : Forget(n) \/ Record(n)

Spec == Init /\ [][Next]_<<recorded, latest>>
=============================================================================
