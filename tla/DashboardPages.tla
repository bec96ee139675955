---------------------------- MODULE DashboardPages ----------------------------
(***************************************************************************)
(* The routes of the web dashboard: a browser shows one page, which is one *)
(* of DashboardLists, DashboardEnvs, DashboardVersions or those of         *)
(* DashboardSession; the state of the others is not there.                 *)
(***************************************************************************)
EXTENDS DashboardLists, DashboardEnvs, DashboardVersions, DashboardSession

VARIABLE screen   \* which page is shown

vars == <<screen, listVars, envVars, versionVars, sessionVars, requestVars>>

NoLists == page = None /\ entities = None /\ removed = None /\ rows = None
NoEnvs == route = None /\ view = None /\ addsTo = None /\ stored = None
          /\ deleted = None
NoVersion == published = None /\ filter = None /\ versions = None /\ dialog = None
NoSession ==
  /\ storage = None /\ token = None /\ expired = None /\ place = None
  /\ user = None /\ group = None /\ shown = None /\ rule = None

Init ==
  \/ screen = "lists" /\ ListsInit /\ NoEnvs /\ NoVersion /\ NoSession
  \/ screen = "envs" /\ EnvsInit /\ NoLists /\ NoVersion /\ NoSession
  \/ screen = "versions" /\ VersionsInit /\ NoLists /\ NoEnvs /\ NoSession
  \/ screen = "session" /\ SessionInit /\ NoLists /\ NoEnvs /\ NoVersion

Next ==
  \/ screen = "lists" /\ ListsNext /\ UNCHANGED <<screen, envVars, versionVars, sessionVars>>
  \/ screen = "envs" /\ EnvsNext /\ UNCHANGED <<screen, listVars, versionVars, sessionVars>>
  \/ screen = "versions" /\ VersionsNext /\ UNCHANGED <<screen, listVars, envVars, sessionVars>>
  \/ screen = "session" /\ SessionNext /\ UNCHANGED <<screen, listVars, envVars, versionVars>>

Spec == Init /\ [][Next]_vars

-----------------------------------------------------------------------------
(* The types of the page that is shown.                                    *)
TypeOK ==
  \/ screen = "lists" /\ ListsTyped
  \/ screen = "envs" /\ EnvsTyped
  \/ screen = "versions" /\ VersionsTyped
  \/ screen = "session" /\ SessionTyped

(* The lists of accounts, robots, groups and clusters: a row's write is    *)
(* for its own record, as long as none is renamed or removed in between,   *)
(* and when everything is answered a row shows its record.                 *)
RowsReachTheirRecords == screen = "lists" => WriteReachesItsRow
RowsShowTheirRecords == screen = "lists" => RowsAgree

(* The environments shown are of the group they are shown for, and as the  *)
(* server has them once everything is answered.                            *)
EnvsOfTheirGroup == screen = "envs" => EnvsOfOneGroup
EnvsShowTheServers == screen = "envs" => EnvsAgree

(* The versions shown are those of the channel once everything is          *)
(* answered, if no list failed since the last that arrived.                *)
VersionsOfTheChannel == screen = "versions" => VersionsAgree

(* The session: the user shown is that of the token, a login leads back to *)
(* the page that was left, and a control is shown to those who may use it. *)
SessionOfOneAccount == screen = "session" => UserIsOfToken
LoginLeadsBack == screen = "session" => BackToThePage
ControlsAreAllowed == screen = "session" => ShownToThoseWhoMay
=============================================================================
