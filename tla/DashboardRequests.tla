---------------------------- MODULE DashboardRequests ----------------------------
(***************************************************************************)
(* What the pages of the web dashboard share: useRequest                   *)
(* (src/nodepkg/runtime/src/request), whose requests run concurrently and  *)
(* are answered in any order, and subscribeUntilUnmount, which ends with   *)
(* the component that subscribed.                                          *)
(***************************************************************************)
EXTENDS Naturals, FiniteSets

CONSTANTS
  None,       \* no value
  MaxSent,    \* bound on the requests of a user
  MaxFaults   \* bound on the requests that fail

ASSUME RequestsAssumption == MaxSent \in Nat /\ MaxFaults \in Nat

VARIABLES
  calls,      \* requests that are not answered yet
  asked,      \* how many a user asked for
  faults,     \* how many failed
  noted       \* what happened so far that a property excepts

requestVars == <<calls, asked, faults, noted>>

(* from is the component of the page that asked; answer is what the server *)
(* said, once it did, and None for an error; heard is false when nobody    *)
(* waits; n tells those apart that ask the same.                           *)
Request(op, from, arg) ==
  [op |-> op, from |-> from, arg |-> arg,
   n |-> CHOOSE k \in 1..(Cardinality(calls) + 1) :
           \A c \in calls : c.op = op /\ c.from = from /\ c.arg = arg => c.n # k,
   served |-> FALSE, answer |-> None, heard |-> TRUE]

(* A request of the page itself, of those in kept, and one of the user's.  *)
SendAfter(kept, op, from, arg) == calls' = kept \union {Request(op, from, arg)}
Ask(op, from, arg) ==
  /\ asked < MaxSent
  /\ SendAfter(calls, op, from, arg)
  /\ asked' = asked + 1

Requests(ops) == {c \in calls : c.op \in ops}

(* The calls of components that are gone: a write still reaches the server.*)
Unheard(kept, Gone(_)) ==
  {IF Gone(c) THEN [c EXCEPT !.heard = FALSE] ELSE c : c \in kept}

Answer(c, a) ==
  calls' = (calls \ {c}) \union {[c EXCEPT !.served = TRUE, !.answer = a]}

(* A request fails before its effect, or its answer is lost after it.      *)
Fail(c) ==
  /\ ~c.served \/ c.answer # None
  /\ faults < MaxFaults
  /\ faults' = faults + 1
  /\ Answer(c, None)

(* A list that fails, before or after it was answered, only never arrives: *)
(* the pages listen for what is listed, and not for errors.                *)
FailUnseen(c) ==
  /\ faults < MaxFaults
  /\ faults' = faults + 1
  /\ calls' = calls \ {c}

(* An answer nobody reads: an error, or one to a component that is gone.   *)
Ignored(c) ==
  /\ c.served /\ (c.answer = None \/ ~c.heard)
  /\ calls' = calls \ {c}
  /\ UNCHANGED <<asked, faults, noted>>

Heard(c, op) == c.op = op /\ c.served /\ c.heard /\ c.answer # None

RequestsInit(first) ==
  /\ calls = {[op |-> "list", from |-> None, arg |-> first, n |-> 1,
               served |-> FALSE, answer |-> None, heard |-> TRUE]}
  /\ asked = 0 /\ faults = 0 /\ noted = {}

RequestsTyped(ops) ==
  /\ \A c \in calls : c.op \in ops /\ (~c.served => c.answer = None)
  /\ asked \in 0..MaxSent /\ faults \in 0..MaxFaults
=============================================================================
