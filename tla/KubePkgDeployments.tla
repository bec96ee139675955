-------------------------- MODULE KubePkgDeployments --------------------------
(***************************************************************************)
(* The deployments of one environment of the dashboard                     *)
(* (src/internal/dashboard/domain/{kubepkg,group}): a PUT of a KubePkg     *)
(* stores its spec as a revision, binds a deployment to it, records the    *)
(* overwrites as a setting, records (revision, setting) in the history of  *)
(* the deployment, and pushes the result to the cluster.  Each of these is *)
(* a transaction of its own, so requests interleave between them, and a    *)
(* request that fails keeps what it already wrote.                         *)
(*                                                                         *)
(* A table is a set of rows.  Rows of revisions and settings are never     *)
(* deleted and are unique in (kubepkg, digest) and (deployment, digest),   *)
(* so these columns stand for their ids.  Kubepkg rows are never deleted   *)
(* either: the name stands for the row.                                    *)
(***************************************************************************)
EXTENDS Naturals, FiniteSets

CONSTANTS
  Requests,     \* PUT requests, one put each
  Names,        \* deployment names
  Pkgs,         \* group/name of kubepkgs
  Versions,     \* version strings
  Configs,      \* values of the config of a spec
  None,         \* no value
  NoOverwrites, \* the setting recorded when there are none, {}
  Overwrites,   \* overwrites a request may carry in its annotation
  Channels,     \* release channels, DEV among them
  Keep,         \* history rows kept of each deployment
  Linked,       \* has the environment a cluster with an endpoint
  Crowded,      \* may more than Keep puts share a second
  MaxClock,     \* bound on seconds
  MaxManage     \* bound on deletions, publications and failures

DEV == "DEV"
Specs == [version: Versions, config: Configs \union {None}]
Changes ==
  [version: Versions \union {None}, config: Configs \union {None}]
Plain == [plain: Configs]   \* a setting without "spec": a config on its own

ASSUME ValuesAssumption ==
  /\ None \notin Versions \union Configs \union Specs \union Changes
  /\ None \notin Plain
  /\ NoOverwrites \notin Changes \union Plain \union {None}
  /\ Overwrites \subseteq Changes \union Plain

ASSUME ParametersAssumption ==
  /\ DEV \in Channels
  /\ Keep \in Nat \ {0} /\ MaxClock \in Nat /\ MaxManage \in Nat
  /\ Linked \in BOOLEAN /\ Crowded \in BOOLEAN

VARIABLES
  revisions,   \* t_kubepkg_revision
  versions,    \* t_kubepkg_version
  deployments, \* [Names -> id of the deployment row, 0 for none]
  settings,    \* t_deployment_setting
  histories,   \* t_deployment_history
  cluster,     \* [Names -> spec the cluster was last asked to run]
  req,         \* [Requests -> state of the request]
  deleting,    \* [Names -> is a DELETE of the deployment under way]
  nextID,      \* the id generator
  clock,       \* the wall clock, in seconds
  managed,     \* deletions, publications and failures so far
  raced        \* history: names whose cluster no lone request has set since
               \* a race or a failure

tables == <<revisions, versions, deployments, settings, histories>>
bounds == <<clock, managed>>
vars == <<tables, cluster, req, deleting, nextID, bounds, raced>>

-----------------------------------------------------------------------------
(* Values. *)

Revision == [pkg: Pkgs, spec: Specs]
Version == [pkg: Pkgs, channel: Channels, version: Versions, rev: Revision]
Setting == [dep: Nat, values: Changes \union Plain \union {NoOverwrites}]
History == [id: Nat, dep: Nat, pkg: Pkgs, rev: Revision, setting: Setting,
            at: 0..MaxClock]

ASSUME RowsAssumption == None \notin History

\* Applying overwrites to a KubePkg of a spec: what they do not mention stays,
\* and what is not under their "spec" is no part of the spec.
Merge(spec, over) ==
  IF over \notin Changes THEN spec
  ELSE [f \in DOMAIN spec |-> IF over[f] = None THEN spec[f] ELSE over[f]]

\* tryToResolveOverwrites, of the listings only: a setting without "spec" is
\* the config; of {} nothing comes either way.
Resolved(values) ==
  IF values \in Plain THEN [version |-> None, config |-> values.plain] ELSE values

\* The overwrites that turn one spec into another; removals are not noticed.
Diff(from, to) ==
  [f \in DOMAIN from |-> IF to[f] = from[f] THEN None ELSE to[f]]

\* The config of a new spec is its first setting, and {} stands for nil.
DefaultsOverwrites_Nil(spec) ==
  IF spec.config = None THEN None
  ELSE [version |-> None, config |-> spec.config]
DefaultsOverwrites(spec) ==
  IF spec.config = None THEN NoOverwrites
  ELSE [version |-> None, config |-> spec.config]

Idle == [pc |-> "idle"]
Finished == [pc |-> "done"]
Busy(r) == req[r].pc \notin {"idle", "done"}
BusyOn(n) == {r \in Requests : Busy(r) /\ req[r].name = n}

-----------------------------------------------------------------------------
(* What the dashboard shows. *)

HistoryOf(table, dep) == {h \in table : h.dep = dep}

LatestOf(rows) ==
  IF rows = {} THEN None
  ELSE CHOOSE h \in rows : \A other \in rows : other.id <= h.id

Latest(n) == LatestOf(HistoryOf(histories, deployments[n]))

\* The content of the item ListKubepkg has for the deployment, merged.
Listed(n) ==
  IF Latest(n) = None THEN None
  ELSE Merge(Latest(n).rev.spec, Resolved(Latest(n).setting.values))

\* The version rows joined to a history row, by ListKubepkg for the channel
\* of the deployment and by ListKubePkgHistory for every channel.
VersionsListed(h, channels) ==
  {v \in versions : v.pkg = h.pkg /\ v.rev = h.rev /\ v.channel \in channels}

-----------------------------------------------------------------------------
Init ==
  /\ revisions = {} /\ versions = {} /\ settings = {} /\ histories = {}
  /\ deployments = [n \in Names |-> 0]
  /\ cluster = [n \in Names |-> None]
  /\ req = [r \in Requests |-> Idle]
  /\ deleting = [n \in Names |-> "no"]
  /\ nextID = 1
  /\ clock = 0 /\ managed = 0
  /\ raced = {}

-----------------------------------------------------------------------------
(* A PUT.  What a lone request is meant to have deployed is computed when  *)
(* it starts, from what the dashboard shows then.                          *)

Found(pkg, rev) == rev \in revisions /\ rev.pkg = pkg

Wanted(n, pkg, spec, rev, over) ==
  IF over # None
    THEN Merge(IF Found(pkg, rev) THEN rev.spec ELSE spec, Resolved(over))
  ELSE IF Found(pkg, rev)
    THEN [spec EXCEPT !.config = IF @ = None THEN rev.spec.config ELSE @]
  ELSE IF Latest(n) = None THEN spec
  ELSE Merge(spec, Resolved(Latest(n).setting.values))

\* A request that starts on a name where others are under way races them.
Arrive(r, n, record) ==
  /\ req' = [q \in Requests |->
       IF q = r THEN record
       ELSE IF q \in BusyOn(n) THEN [req[q] EXCEPT !.lone = FALSE] ELSE req[q]]
  /\ deleting' = [deleting EXCEPT ![n] = IF @ = "lone" THEN "raced" ELSE @]
  /\ raced' = IF record.lone THEN raced ELSE raced \union {n}

UpsertVersion(row) ==
  {v \in versions : ~ (/\ v.pkg = row.pkg /\ v.channel = row.channel
                       /\ v.version = row.version)} \union {row}

\* A row of versions is named for the stored spec, which is not the one put
\* when the request refers to a revision.
VersionName_Requested(spec, stored) == spec.version
VersionName(spec, stored) == stored.version

Stored(pkg, spec, rev) ==
  IF Found(pkg, rev) THEN rev ELSE [pkg |-> pkg, spec |-> spec]

PutWith(r, n, pkg, spec, channel, rev, over) ==
  LET stored == Stored(pkg, spec, rev)
      lone == BusyOn(n) = {} /\ deleting[n] = "no"
  IN /\ revisions' = revisions \union {stored}
     /\ versions' = UpsertVersion(
          [pkg |-> pkg, channel |-> channel, rev |-> stored,
           version |-> VersionName(spec, stored.spec)])
     /\ Arrive(r, n,
          [pc |-> "bind", name |-> n, rev |-> stored, dep |-> 0,
           over |-> IF over = None /\ Found(pkg, rev)
                    THEN Diff(rev.spec, spec) ELSE over,
           setting |-> None, id |-> 0, at |-> 0, dropped |-> {}, lone |-> lone,
           wanted |-> IF lone THEN Wanted(n, pkg, spec, rev, over) ELSE None])

PutKubepkg(r) ==
  /\ req[r].pc = "idle"
  /\ \E n \in Names, pkg \in Pkgs, spec \in Specs, channel \in Channels,
        rev \in revisions \union {None}, over \in Overwrites \union {None} :
       PutWith(r, n, pkg, spec, channel, rev, over)
  /\ UNCHANGED <<deployments, settings, histories, cluster, nextID, bounds>>

BindKubepkg(r) ==
  /\ req[r].pc = "bind"
  /\ LET n == req[r].name
         id == IF deployments[n] = 0 THEN nextID ELSE deployments[n]
     IN /\ deployments' = [deployments EXCEPT ![n] = id]
        /\ req' = [req EXCEPT ![r].dep = id,
             ![r].pc = IF req[r].over = None THEN "read" ELSE "record"]
        /\ nextID' = IF id = nextID THEN nextID + 1 ELSE nextID
  /\ UNCHANGED <<revisions, versions, settings, histories, cluster, deleting,
                 bounds, raced>>

\* The row GetSettingValues takes the setting from.
SettingSource_Oldest(rows) ==
  IF rows = {} THEN None
  ELSE CHOOSE h \in rows : \A other \in rows : h.id <= other.id
SettingSource(rows) == LatestOf(rows)

GetSettingValues(r) ==
  /\ req[r].pc = "read"
  /\ LET source == SettingSource(HistoryOf(histories, req[r].dep))
     IN req' = [req EXCEPT ![r] =
          IF source = None
          THEN [@ EXCEPT !.pc = "record",
                         !.over = DefaultsOverwrites(req[r].rev.spec)]
          ELSE [@ EXCEPT !.pc = "id", !.over = source.setting.values,
                         !.setting = source.setting]]
  /\ UNCHANGED <<tables, cluster, deleting, nextID, bounds, raced>>

\* The row a setting is recorded in: unique in (deployment, digest).
SettingRow_AnyDeployment(dep, values) ==
  IF \E s \in settings : s.values = values
  THEN CHOOSE s \in settings : s.values = values
  ELSE [dep |-> dep, values |-> values]
SettingRow(dep, values) == [dep |-> dep, values |-> values]

RecordSetting(r) ==
  /\ req[r].pc = "record"
  /\ LET row == SettingRow(req[r].dep, req[r].over)
     IN /\ settings' = settings \union {row}
        /\ req' = [req EXCEPT ![r].pc = "id", ![r].setting = row]
  /\ UNCHANGED <<revisions, versions, deployments, histories, cluster,
                 deleting, nextID, bounds, raced>>

\* RecordDeployment takes the id and the time before its transaction begins.
NewHistoryID(r) ==
  /\ req[r].pc = "id"
  /\ req' = [req EXCEPT ![r].pc = "time", ![r].id = nextID]
  /\ nextID' = nextID + 1
  /\ UNCHANGED <<tables, cluster, deleting, bounds, raced>>

SameSecond(dep) ==
  {h \in HistoryOf(histories, dep) : h.at = clock} \union
  {r \in Requests : req[r].pc \in {"deploy", "commit"} /\ req[r].dep = dep
                                                       /\ req[r].at = clock}

MarkCreatedAt(r) ==
  /\ req[r].pc = "time"
  /\ Crowded \/ Cardinality(SameSecond(req[r].dep)) < Keep
  /\ req' = [req EXCEPT ![r].pc = "deploy", ![r].at = clock]
  /\ UNCHANGED <<tables, cluster, deleting, nextID, bounds, raced>>

\* The upsert: a pair that was recorded before gets the new id and time.
UpsertHistory_Inserted(row) == histories \union {row}
UpsertHistory_Kept(row) ==
  IF \E h \in histories : h.rev = row.rev /\ h.setting = row.setting
  THEN histories ELSE histories \union {row}
UpsertHistory(row) ==
  LET same == {h \in histories : h.rev = row.rev /\ h.setting = row.setting}
  IN IF same = {} THEN histories \union {row}
     ELSE (histories \ same) \union
            {[h EXCEPT !.id = row.id, !.at = row.at] : h \in same}

\* ORDER BY created_at DESC LIMIT Keep: rows of the same second tie.
Newest_BeforeUpsert(rows) ==
  {kept \in SUBSET rows :
     /\ Cardinality(kept) = IF Cardinality(rows) <= Keep
                            THEN Cardinality(rows) ELSE Keep + 1
     /\ \A k \in kept, dropped \in rows \ kept : k.at >= dropped.at}
Newest(rows) ==
  {kept \in SUBSET rows :
     /\ Cardinality(kept) = IF Cardinality(rows) < Keep
                            THEN Cardinality(rows) ELSE Keep
     /\ \A k \in kept, dropped \in rows \ kept : k.at >= dropped.at}

\* The rows the delete after the upsert leaves out of the table it reads.
Pruned_Every(table, dep, kept) == {h \in table : h \notin kept}
Pruned(table, dep, kept) == HistoryOf(table, dep) \ kept

\* Rows are unique by their pair: an upsert waits for the transaction that
\* upserted or dropped the row of its own, a delete for one that upserted it.
Pair(h) == [rev |-> h.rev, setting |-> h.setting]
Row(r) ==
  [id |-> req[r].id, dep |-> req[r].dep, pkg |-> req[r].rev.pkg,
   rev |-> req[r].rev, setting |-> req[r].setting, at |-> req[r].at]
Open(r) == {q \in Requests \ {r} : req[q].pc = "commit"}

\* The two statements of the transaction.  They read what is committed and
\* what the first of them wrote, which no other reads before the commit.
RecordDeployment(r) ==
  /\ req[r].pc = "deploy"
  /\ \A q \in Open(r) : Pair(Row(r)) \notin req[q].dropped \union {Pair(Row(q))}
  /\ LET table == UpsertHistory(Row(r))
     IN \E kept \in Newest(HistoryOf(table, req[r].dep)) :
          req' = [req EXCEPT ![r].pc = "commit",
            ![r].dropped = {Pair(h) : h \in Pruned(table, req[r].dep, kept)}]
  /\ UNCHANGED <<tables, cluster, deleting, nextID, bounds, raced>>

\* A row that another transaction upserted while the delete waited for it goes
\* too: its new id is not in the list of those to keep.
Committed(r) == {h \in UpsertHistory(Row(r)) : Pair(h) \notin req[r].dropped}

CommitDeployment(r) ==
  /\ req[r].pc = "commit"
  /\ \A q \in Open(r) : Pair(Row(q)) \notin req[r].dropped
  /\ histories' = Committed(r)
  /\ req' = [req EXCEPT ![r].pc = "push", ![r].dropped = {}]
  /\ UNCHANGED <<revisions, versions, deployments, settings, cluster, deleting,
                 nextID, bounds, raced>>

Done(r) == req' = [req EXCEPT ![r] = Finished]

\* The push to the cluster, and the answer.
Pushed_Template(rev, over) == rev.spec
Pushed(rev, over) == Merge(rev.spec, over)

PutGroupEnvDeployment(r) ==
  /\ req[r].pc = "push"
  /\ Done(r)
  /\ LET n == req[r].name
     IN /\ cluster' = IF Linked
                      THEN [cluster EXCEPT ![n] = Pushed(req[r].rev, req[r].over)]
                      ELSE cluster
        /\ raced' = IF req[r].lone THEN raced \ {n} ELSE raced
  /\ UNCHANGED <<tables, deleting, nextID, bounds>>

\* The request fails, its client goes away, or its push fails: an error of
\* the push is only logged.
Manage == managed < MaxManage /\ managed' = managed + 1 /\ UNCHANGED clock

PutFails(r) ==
  /\ Busy(r)
  /\ Manage
  /\ Done(r)
  /\ raced' = IF req[r].pc = "push" THEN raced \union {req[r].name} ELSE raced
  /\ UNCHANGED <<tables, cluster, deleting, nextID>>

-----------------------------------------------------------------------------
(* A DELETE of a deployment: first in the cluster, whose error is logged,  *)
(* then in the database.  Its settings and histories stay.                 *)

ClusterWithout_Nothing(n) == cluster
ClusterWithout(n) == [cluster EXCEPT ![n] = None]

DeleteBegin(n) ==
  /\ deleting[n] = "no"
  /\ Manage
  /\ LET lone == BusyOn(n) = {}
     IN \E pushed \in BOOLEAN :
          /\ cluster' = IF Linked /\ pushed THEN ClusterWithout(n) ELSE cluster
          /\ deleting' = [deleting EXCEPT
                            ![n] = IF lone /\ pushed THEN "lone" ELSE "raced"]
          /\ raced' = IF lone /\ pushed THEN raced ELSE raced \union {n}
          /\ req' = [q \in Requests |-> IF q \in BusyOn(n)
                       THEN [req[q] EXCEPT !.lone = FALSE] ELSE req[q]]
  /\ UNCHANGED <<tables, nextID>>

DeleteDeployment(n) ==
  /\ deleting[n] # "no"
  /\ deployments' = [deployments EXCEPT ![n] = 0]
  /\ deleting' = [deleting EXCEPT ![n] = "no"]
  /\ raced' = IF deleting[n] = "lone" THEN raced \ {n} ELSE raced
  /\ UNCHANGED <<revisions, versions, settings, histories, cluster, req, nextID,
                 bounds>>

DeleteFails(n) ==
  /\ deleting[n] # "no"
  /\ Manage
  /\ deleting' = [deleting EXCEPT ![n] = "no"]
  /\ raced' = raced \union {n}
  /\ UNCHANGED <<tables, cluster, req, nextID>>

-----------------------------------------------------------------------------
(* Owners publish a listed version to another channel, under its name, and *)
(* withdraw versions.  PutKubepkgVersion takes any name and revision id    *)
(* unchecked; the page sends those of a row, and no other is modelled.     *)

PutVersion(v, channel) ==
  /\ channel # v.channel
  /\ Manage
  /\ versions' =
       IF \E o \in versions : /\ o.pkg = v.pkg /\ o.channel = channel
                              /\ o.version = v.version
       THEN versions ELSE versions \union {[v EXCEPT !.channel = channel]}
  /\ UNCHANGED <<revisions, deployments, settings, histories, cluster, req,
                 deleting, nextID, raced>>

DeleteVersion(v) ==
  /\ Manage
  /\ versions' = versions \ {v}
  /\ UNCHANGED <<revisions, deployments, settings, histories, cluster, req,
                 deleting, nextID, raced>>

Tick ==
  /\ clock < MaxClock
  /\ clock' = clock + 1
  /\ UNCHANGED <<tables, cluster, req, deleting, nextID, managed, raced>>

-----------------------------------------------------------------------------
PutNext(r) ==
  \/ PutKubepkg(r) \/ BindKubepkg(r) \/ GetSettingValues(r) \/ RecordSetting(r)
  \/ NewHistoryID(r) \/ MarkCreatedAt(r) \/ RecordDeployment(r)
  \/ CommitDeployment(r) \/ PutGroupEnvDeployment(r) \/ PutFails(r)

DeleteNext(n) == DeleteBegin(n) \/ DeleteDeployment(n) \/ DeleteFails(n)

VersionNext ==
  \E v \in versions : DeleteVersion(v) \/ \E c \in Channels : PutVersion(v, c)

Next ==
  \/ \E r \in Requests : PutNext(r)
  \/ \E n \in Names : DeleteNext(n)
  \/ VersionNext
  \/ Tick

Spec == Init /\ [][Next]_vars

-----------------------------------------------------------------------------
(* Properties. *)

RequestType ==
  [pc: {"bind", "read", "record", "id", "time", "deploy", "commit", "push"},
   name: Names, rev: Revision, dep: Nat,
   over: Changes \union Plain \union {NoOverwrites, None},
   setting: Setting \union {None}, id: Nat, at: 0..MaxClock,
   dropped: SUBSET [rev: Revision, setting: Setting],
   lone: BOOLEAN, wanted: Specs \union {None}]

\* The tables, the requests and the counters have their types.
TypeOK ==
  /\ revisions \subseteq Revision /\ versions \subseteq Version
  /\ deployments \in [Names -> Nat]
  /\ settings \subseteq Setting /\ histories \subseteq History
  /\ cluster \in [Names -> Specs \union {None}]
  /\ req \in [Requests -> {Idle, Finished} \union RequestType]
  /\ deleting \in [Names -> {"no", "lone", "raced"}]
  /\ nextID \in Nat \ {0}
  /\ clock \in 0..MaxClock /\ managed \in 0..MaxManage
  /\ raced \subseteq Names

\* A PUT that no other request on its name overlaps deploys what it asked
\* for: its own overwrites, or its spec against the revision it names, or its
\* spec under the overwrites the deployment already had; whatever other puts,
\* deletions, failures and redeployments of the same pair came before.  And it
\* leaves at most Keep rows, however many overlapping ones have left.
PutTakesEffect ==
  \A r \in Requests :
    req[r].pc = "push" /\ req[r].lone =>
      /\ Listed(req[r].name) = req[r].wanted
      /\ Cardinality(HistoryOf(histories, req[r].dep)) <= Keep

\* Every history row is a deployment of a stored revision of its own kubepkg
\* under a stored setting of its own deployment, and no two rows have the same
\* id or the same pair, although transactions of a deployment overlap.
HistoryOwned ==
  \A h \in histories :
    /\ h.setting.dep = h.dep /\ h.setting \in settings
    /\ h.rev.pkg = h.pkg /\ h.rev \in revisions

HistoryUnique ==
  \A h, other \in histories :
    (h.id = other.id \/ (h.rev = other.rev /\ h.setting = other.setting))
      => h = other

HistoryConsistent == HistoryOwned /\ HistoryUnique

\* "only remain last 10 deployment of each deployment": no deployment has more
\* than Keep rows, whatever transactions of it overlap (RecordDeployment).
HistoryBounded ==
  \A dep \in {h.dep : h \in histories} :
    Cardinality(HistoryOf(histories, dep)) <= Keep

\* A version is the one its revision's spec carries, in every channel, however
\* versions are moved by puts, published and withdrawn; so the outer join of
\* ListKubepkg shows each deployment once.
ListedOnce ==
  /\ \A v \in versions :
       v.rev \in revisions /\ v.rev.pkg = v.pkg /\ v.rev.spec.version = v.version
  /\ \A n \in Names :
       Latest(n) # None => Cardinality(VersionsListed(Latest(n), {DEV})) <= 1

\* When no request on a name is under way and none has raced or failed since
\* the last lone one, the cluster runs what the dashboard lists, or nothing;
\* except a setting without "spec", which is listed as a config and pushed as
\* it is: then the cluster runs the stored spec (tryToResolveOverwrites).
ListedPlain(n) == Latest(n) # None /\ Latest(n).setting.values \in Plain

ClusterRunsListed ==
  Linked =>
    \A n \in Names \ raced :
      BusyOn(n) = {} /\ deleting[n] = "no" =>
        cluster[n] = IF ListedPlain(n) THEN Latest(n).rev.spec ELSE Listed(n)

\* Recording a deployment makes it the latest, or leaves the latest as it is:
\* it never makes a third one the latest again.
LatestIsRecorded ==
  [][\A r \in Requests :
       req[r].pc = "commit" /\ req'[r].pc = "push" =>
         LET rows == HistoryOf(histories, req[r].dep)
             last == LatestOf(HistoryOf(histories', req[r].dep))
         IN \/ last.rev = req[r].rev /\ last.setting = req[r].setting
            \/ rows # {} /\ last = LatestOf(rows)]_vars

-----------------------------------------------------------------------------
(* The tables, the ids and the transactions implement DeploymentHistory.   *)

Entry(h) == [rev |-> h.rev, values |-> h.setting.values]
Recorded(n) == {Entry(h) : h \in HistoryOf(histories, deployments[n])}

Abstract == INSTANCE DeploymentHistory WITH
  recorded <- [n \in Names |-> Recorded(n)],
  latest <- [n \in Names |-> IF Latest(n) = None THEN None ELSE Entry(Latest(n))]

\* Every step of a request adds to the history of one name, forgets it, or
\* changes none: a name that is deployed again begins anew, what still runs for
\* the name that was deleted is not in its history, and none is without a
\* latest row but the empty one (BindKubepkg, CommitDeployment, Delete).
ImplementsHistory == Abstract!Spec
=============================================================================
