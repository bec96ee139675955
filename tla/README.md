# KubePkg in TLA+

KubePkg describes an application (containers, configs, services, volumes) in
one Kubernetes custom resource.  An operator in each cluster turns it into
native objects; a dashboard keeps versions of KubePkgs and deploys them, with
overwrites, into environments bound to clusters; a command line packs the
images of a KubePkg in a tar and imports it into the registry of an air-gapped
site.  This directory specifies the parts of it that are hard to get right, as
TLA+ modules that TLC checks on small instances and TLAPS proves about for any.

## Files

| file | what it is |
| --- | --- |
| `KubePkgOperator.tla` | the apply and the reload controllers, the API server's objects and the informer caches they read |
| `KubePkgOperator_proofs.tla` | five theorems about it: its types, its hashes and patches, and what it leaves behind when it has nothing left to do |
| `MCKubePkgOperator.tla`, `Operator*.cfg` | its instances for TLC |
| `KubePkgDeployments.tla` | the dashboard's deployments: the transactions of PUT and DELETE requests, versions, and the push to the cluster |
| `DeploymentHistory.tla` | what the dashboard promises of deployments, which `KubePkgDeployments` implements |
| `KubePkgDeployments_proofs.tla` | three theorems about it and the invariant they need |
| `KubePkgDeployments_effect_proofs.tla` | what a PUT has for effect, on what is listed and on the cluster: two theorems; that it implements `DeploymentHistory` |
| `MCKubePkgDeployments.tla`, `Deployments*.cfg` | its instances for TLC |
| `DashboardDeployments.tla`, `MC...`, `.cfg` | the page of the deployments of an environment in a browser, with its dialogs |
| `DashboardDeployments_proofs.tla` | five theorems about it |
| `DashboardRequests.tla` | what the other pages share: requests, their answers and who listens |
| `DashboardLists.tla` | the pages of members, administrators, robots, groups and clusters |
| `DashboardEnvs.tla` | the environments of a group, their list and their binding to clusters |
| `DashboardVersions.tla` | the versions of a kubepkg, deleted and published |
| `DashboardSession.tla` | the token, the login, the current user and the controls it may use |
| `DashboardPages.tla`, `MC...`, `.cfg` | the four of them behind one router, a page at a time |
| `DashboardSession_proofs.tla` | three theorems about the session |
| `DashboardPages_proofs.tla` | five theorems about environments, versions and lists, and one about the types of all pages |
| `JSONValues.tla` | JSON documents: diff, merge and pointers of the editor, diff and merge of the server |
| `JSONSchemas.tla` | validation, lookup of schemas and completion |
| `KubePkgSchema.tla` | the schema of a KubePkg, as the client declares it |
| `KubePkgEditor.tla`, `MC...`, `.cfg` | the editor from the row it is opened for to the row it leaves |
| `KubePkgEditor_documents_proofs.tla` | lemmas about documents: paths, merges, diffs, `set`, schemas and validation |
| `KubePkgEditor_proofs.tla` | the editor's invariant and seven theorems from it |
| `PROJECT.json` | components, runs, the mutant that breaks each property, the lines each definition translates, findings, hazards, theorems |

To check a run: `tlc -workers 4 -config OperatorReload.cfg MCKubePkgOperator.tla`;
to check the proofs: `tlapm KubePkgOperator_proofs.tla`, and so for each
`..._proofs.tla`.

## Inventory

### The operator (`src/pkg/kubepkg/controller`)

State: the objects of the API server (KubePkgs, ConfigMaps, Secrets,
workloads), each with its resource version; in the operator, an informer cache
per kind, two of them for workloads (typed, and metadata only), and one
de-duplicating work queue with one worker for each controller.

* **Apply** (`kubepkg_apply.go`) reads the KubePkg from the cache, extracts its
  manifests, overrides on each workload the hash annotations of external
  ConfigMaps and Secrets by the hashes of the cached ones, and applies the
  manifests one by one in the random order of a Go map; the first error aborts.
* **Reload** (`reload_configmap.go`, `reload_secret.go`) reads a config from
  the API server, records the hash of its data on it, then lists the workloads
  of each kind from the cache and patches those that mount it.  A patch carries
  the resource version that was read: a conflict queues the config again.
* **Status** (`kubepkg_status.go`) reads every manifest back and writes the
  status; **cluster info** (`cluster_info.go`) writes a ConfigMap about nodes.

Interaction: only through objects.  An apply wakes reloads (a new config), a
reload's patch wakes the apply (a new generation of an owned workload), and
every read is of a cache that lags, each kind's by itself.  Hard: stale reads
across several calls, conflicts, aborted loops, restarts that lose the queues,
the two controllers waking each other.  Correct when, once it has nothing left
to do, what runs is the latest spec, with the hashes of the latest data.

### The dashboard (`src/internal/dashboard`)

State: tables of kubepkgs, revisions, versions, deployments, settings and
histories (`domain/kubepkg`, `domain/group`), clusters and the agents
registered for them (`domain/cluster`), groups, environments and roles
(`domain/group`), accounts and identities (`domain/account`).

* **Deployments**: a PUT is a sequence of transactions and of calls between
  them: store the revision and move its version, bind the deployment to it,
  read or record the overwrites, take an id and a time, record the history and
  prune it, push to the cluster.  A DELETE calls the cluster, then deletes the
  row.  Versions are published to a second channel and withdrawn.
* **Clusters and agents**: an administrator edits and renames a cluster, an
  agent registers its endpoint and key, environments are bound to clusters.
* **Accounts**: an identity of an OAuth provider is exchanged for an account,
  which is created at the first login.

Interaction: HTTP requests run concurrently, each on its own transactions; the
push is a call to the cluster's agent, whose error is logged only.  Hard: what
is read in one transaction and written in the next, rows that are upserted and
so moved by redeployments, pruning by a time in seconds by a statement that does
not see what other transactions wrote, failed pushes.
Correct when a PUT nothing overlaps deploys what it asked for, the tables stay
consistent whatever overlaps, and cluster and dashboard agree.

### Images and registries (`src/pkg/kubepkg`, `src/pkg/containerregistry`)

State: the blobs, manifests and tags of a local registry and of the remote one
it falls back to; the list of digests in a KubePkg's status; the tar.

The resolver turns the images of a KubePkg into digests, recursively through
manifest lists; the packer writes them, references before manifests, perhaps
without those of an earlier package; the import reads the tar into a registry,
local or remote.  The proxy fetches tags, manifests and blobs on demand, and
stores a manifest in the background.  Hard: tags that move between calls,
imports that stop half way and are tried again, digests shared by repositories.
Correct when a finished import has everything the package needs.

### Agents (`src/pkg/agent`, `src/internal/agent`)

The agent in a cluster registers with the dashboard when it starts, with a
token that carries its name and a shared key, and serves the API the dashboard
pushes to.  Hard: a registration that fails, or that races an edit of the
cluster by an administrator.

### The web dashboard (`src/webapp/dashboard`, `src/nodepkg`)

State, all of it in one tab of a browser but the token in its storage: the
route; what each component was answered last; copies a row or a dialog made;
the document of an editor; the requests in flight.

* **Requests** (`runtime/src/request`): a component subscribes to the answers
  of each of its requests until it is unmounted.  Requests run concurrently,
  any number of one kind, and are answered in any order; most failures are
  heard by nobody, those of lists never.
* **Deployments** (`mod/groupenv`, `mod/groupkubepkg`): a page lists once, then
  asks for newer versions and for what the cluster runs; rows are copies, which
  dialogs edit; a dialog asks for the template of the revision selected in it.
* **Lists** (`mod/account`, `mod/group`, `mod/cluster`): rows are copies here
  too, with buttons that keep the record they were made with.
* **Environments** (`mod/groupenv`): one context for all pages of a group.
* **Versions** (`mod/groupkubepkg`): rows without keys, a filter, two prompts.
* **Session** (`mod/auth`): a token shared by the tabs, guards that send to the
  login page and back, user and permissions that arrive separately, controls
  that are drawn for those who may use them.
* **Editor** (`mod/kubepkg`, `codemirror`, `jsonschema`): a document is a
  template under overwrites; its differences are marked, its mistakes reported,
  its keys and values completed from the schema.

Interaction: with the server by requests, among components by subjects and by
what a component captured when it was made.  Hard: late answers, answers to
something that is no longer shown, captured values, two implementations of diff
and merge (the editor's and the server's) that must agree.  Correct when what
is shown, once everything is answered, is what the server has, and what is
confirmed is what was shown.

### Algorithms and the rest

Extraction of manifests (`src/pkg/kubepkg/manifest`,
`src/pkg/apis/kubepkg/v1alpha1`), diff and merge of overwrites
(`src/pkg/util/obj.go`, `src/pkg/kubepkg/specutil`), the order of kinds and of
versions are sequential functions.  Authentication, signing, the vault, role
rules and id generation wrap libraries.  The command line and the CUE packages,
and of the Node packages the OpenAPI playground, the components and the styles,
have no state this project is about.

`PROJECT.json` lists every component with its status, and every hazard with its
line and the properties that cover it.

## KubePkgOperator

**State.**  An object is the sequence of its resource versions (`config`,
`workload`, `kpkg`), so a cache is an index into it (`configSeen`, `typedSeen`,
`metaSeen`, `kpkgSeen`), a stale read is a read at an older index, and a
conflict is an index that is not the last.  `apply` and `reload` are the
workers, `applyQueue` and `reloadQueue` the queues.  A config's data stands for
its hash, of which the code only uses equality.

**Actions.**  Each action is one call to the API server or to a cache, with the
code up to the next one.  `ApplyBegin`, `ApplyNext`, `ApplyWrite`, `ApplyEnd`
are `KubePkgApplyReconciler.Reconcile`, `ReloadBegin`, `ReloadMark`,
`ReloadList`, `ReloadSkip`, `ReloadPatch`, `ReloadEnd` and the two conflicts
are the reload reconcilers, `ApplyFail` and `ReloadFail` a call that fails
before or after its effect, `Deliver...` an informer's event with the
predicates of the controllers that watch it, `Restart` the process.  Users edit
the spec, edit configs and delete workloads.

**Abstractions.**  One KubePkg; its spec is an image for the workloads and the
data of its own ConfigMaps.  A manifest that is neither a workload nor a
config behaves like a config nobody mounts, so none is modelled.  The lists of a
workload are built by ranging over Go maps (`deploy.go:261`), so two extractions
of one spec need not be equal: what is applied has one of some `Orders`
(`ExtractedOrder`), and an apply in another order than the live one's changes
the object and wakes the apply again.  Each such change counts as a fault, so
that `MaxFaults` bounds them.  Deletion of the KubePkg itself is done
by the garbage collector of Kubernetes, and is left out.

**Properties.**

* `AppliedWhenQuiet`: with nothing left to do, the latest spec is live.
* `ReloadedWhenQuiet`: with nothing left to do, a workload carries the hash of
  the live data of each watched external config it mounts.  Three cases are
  outside, and the model has them all: a config that did not have its own name
  as its app-name label from the start (the filter of external configs misses
  it), data that was reverted to an earlier value (the predicate of the reload
  drops that update because the mark is equal), and a typed cache that lagged
  when the reload listed workloads (`behind` records that).
* `HashIsPastData`: no hash is made up or belongs to another config.
* `ReloadKeepsSpec`: no reload writes back a spec it had listed earlier, or
  revives a deleted workload.
* `Settles`: the controllers stop waking each other, but for the order of
  extraction: an apply of an unchanged spec may reorder its workload and so wake
  itself, and only the odds end that.  What is checked is that any number of such
  changes within the bound, and what they wake, comes to an end.
* `OwnConfigRollsOut` (violated, a finding): the KubePkg's own ConfigMap passes
  the filter of external ones, so its stale cached hash replaces the one
  computed from the new spec, and the workload is never rolled out.

**Fairness** (only `operator_settles` uses `FairSpec`).  Weak fairness of each
delivery: informers deliver what the watch sends as long as they run.  Weak
fairness of each worker's step: controller-runtime runs a worker whenever its
queue is not empty.  Users, failures and restarts have none.  Deadlock is not
checked in these runs: when the operator has nothing to do and users have made
all the edits of the instance, nothing happens.

## KubePkgDeployments

**State.**  A table is a set of rows.  Revisions and settings are never deleted
and unique in (kubepkg, digest) and (deployment, digest), so the columns stand
for their ids.  `deployments`, `versions` and `histories` are the tables rows
of which move or go; `cluster` is what the agent was last asked to run for each
deployment; `req` holds the locals of each PUT between its transactions,
`deleting` those of a DELETE; `nextID` and `clock` are the id generator and the
wall clock in seconds.  Two variables are history: `raced` (names a race or a
failure has touched since the last lone request) and the fields `lone` and
`wanted` of a request, which say what it is meant to deploy.

**Actions.**  A PUT is `PutKubepkg`, `BindKubepkg`, `GetSettingValues` and
`RecordSetting` as its overwrites require, `NewHistoryID`, `MarkCreatedAt`,
`RecordDeployment` (the two statements of one transaction, the upsert and the
prune), `CommitDeployment` and `PutGroupEnvDeployment` (the push); `PutFails`
ends it anywhere, and before the commit nothing of that transaction is left.  A DELETE is
`DeleteBegin`, whose call to the cluster may fail, then `DeleteDeployment` or
`DeleteFails`.  `PutVersion` and `DeleteVersion` publish and withdraw.

**Abstractions.**  A spec is its version and one config; overwrites change
either.  Diff and merge are the ones of `obj.go` on such specs, where a removal
is not an overwrite.  Environments do not share rows, so there is one.  The
agent is a register that takes the last push.  Overwrites may have no `spec`
(`Plain`): the listings take them for the config (`Resolved`,
`tryToResolveOverwrites`), the push merges them as they are.  `PutVersion` is
what the page of versions sends, a version of one of its rows under its own
name; the handler checks neither.

**Transactions.**  All but one are a read and upserts on unique indexes and are
one step each.  The one that records a deployment is two statements at read
committed isolation and is two steps: the statements, which see what is
committed and their own upsert, and the commit.  What it will delete is chosen
in the first (`dropped`); a transaction waits for another that has upserted or
dropped the row it upserts, or upserted a row it drops, as the unique index and
the row locks make it.

**Properties.**

* `PutTakesEffect`: a PUT nothing overlapped deploys what it asked for, and
  leaves at most `Keep` rows, also when overlapping ones had left more: for that
  case, which needs a fourth PUT, there is the theorem.
* `HistoryConsistent`: history rows belong to their deployment and kubepkg, and
  ids and pairs are unique, although transactions overlap.
* `ListedOnce`: versions stay named for their revision in every channel, so the
  listing's outer join shows a deployment once.
* `ClusterRunsListed`: once all is quiet on a name no race touched, the cluster
  runs what the dashboard lists; except overwrites without `spec`, which only the
  listing converts: then it runs the stored spec.
* `HistoryBounded` (violated, a finding): of two PUTs that overlap on a full
  history neither sees the new row of the other, both drop the same old one, and
  one more than `Keep` remains.
* `LatestIsRecorded` (violated, a finding): a PUT that commits late lowers the
  id of the pair that is deployed, and a third deployment becomes the latest.
* `ImplementsHistory`: the tables implement `DeploymentHistory`, where each name
  has a history and a latest entry in it, a deployment adds one entry and may
  forget others, and a deletion forgets all.  It has no bound: overlapping PUTs
  leave more than `Keep`.

The history's join has no condition on the channel, so a revision published to
two channels is shown twice there; no property is about that.

Deadlock is not checked: when every request is answered and the clock and the
bound on management are used up, nothing happens.

**Refinement.**  The abstract `recorded` of a name is the set of pairs of
revision and overwrites in the rows of its deployment's id, which is 0 when the
name has none; `latest` is the pair of the row with the greatest id.
`CommitDeployment` is `Record`, or a stutter when its deployment was deleted
meanwhile; `DeleteDeployment` is `Forget`; all other steps stutter.  What this
says beyond the invariants is about steps and about names: no step of a request
changes the history of two names, a name deployed again does not find the
entries of the deployment it had before, and a request that is still running
for that one does not add to it.

## DashboardDeployments

**State.**  The page is followed at one deployment: `server` is what the server
has for it, `listed` and `row` the record of the page's list and the copy of the
row.  One dialog is open at a time (`edit` and `history` of the row, `create` of
the page), with what is selected in it (`filters`), the `template` it was
answered, the `overwrites` it computed for the row, and its `editor`, which is
kept as long as its key stays the same.  A document is a revision and the
overwrites of its spec.  `calls` are the requests in flight.

**Actions.**  The user opens and closes dialogs, selects a kubepkg, a channel or
a revision, chooses an entry of the history, edits, submits and deletes.  The
server serves a call, or the call fails before or after its effect; an answer is
an action of its own, one for each kind of request, or is ignored because its
component is gone or nobody listens for failures.

**Properties.**

* `EditorShowsSelection`: once answered, a dialog shows the template of what is
  selected, or that it could not be had.
* `SettingsKept`: a revision selected for a row comes with the row's settings.
* `HistoryShownIsChosen`: the editor of the history shows the marked entry.
* `RowAgrees`: when everything is answered the row is what the server has.

Each excepts what the code does otherwise, recorded in `noted` when it happens:
an answer overtook a later one's (nothing tells them apart); the row changed
under a dialog (its editor keeps the settings it had); a write was sent before
the lists were answered, whose answers revert the row; the dialog of the page
created the deployment (the list is not asked for again); the entry the history
opened with was chosen at once (it is shown without its overwrites); the template
of the row's own revision could not be had (`unfounded`, until the dialog is
closed: the settings are computed from it, so another revision comes without
them).

## DashboardPages

The router shows one page, so `DashboardPages` is a disjunction of four
specifications over their own variables; they share `DashboardRequests`, where a
request has a component it came from, an answer, and whether it is still heard.
A page that is left takes its subscriptions with it, and its writes reach the
server all the same.  Any request may fail.  A list that does is heard by nobody
(`FailUnseen`), and the page stays as it was.

**DashboardLists.**  Five pages are one module with five sets of switches: is a
record addressed by name or id, can it be edited, removed, renamed, and what may
an addition write.  `WriteReachesItsRow` and `RowsAgree`, as
`RowsReachTheirRecords` and `RowsShowTheirRecords`, except the addresses of
writes that were in flight together or beside a list, that failed, or that came
from a button with an old name, and what a list that failed was to show: all, or
the addition it was asked for after.  The buttons of a row keep the name it had when
they were made, so that after a rename they address whoever has that name by
then.  `Write` notes every address such a write concerns: that of the row, that
of the button, and the one a rename gives.  A group is deleted by a mark and
keeps its name (`removed`): an addition under that name changes the marked row
and is answered as any other, so the list asked for next does not have it.  Put
and deletion are those of `group_repository.go`, or of
`group_account_repository.go` for accounts, which are gone when deleted; the
rename is `ClusterRepository.Rename`.

**DashboardEnvs.**  The context keeps the data of the last answer while the
route is of another group already.  `EnvsOfTheirGroup`: what is shown is of the
group it is shown for, and so are its buttons.  `EnvsShowTheServers`: once all is
answered, environments and clusters shown are the server's.  Excepted are
environments of which two requests were in flight or one failed; what is put
under the name of a deleted one, which stays deleted (`deleted`) while the page
shows the answer; everything, after a list that failed and until another
arrives; and whatever was written while the route, the data and the form of the
page were not of one group: the form keeps the group it was made with, and a late
list of the old group stays.

**DashboardVersions.**  Rows are used again by their position, with their prompts:
a prompt means whatever version is in its row when it is confirmed, and nothing
is claimed of the one it was opened for.  `VersionsOfTheChannel`: once all is
answered, the page shows its channel.  Excepted are writes that cross another
request, where the answer to the second deletion takes away the wrong row, and a
list that failed: after a switch the versions of the channel before stay until
another list arrives, and are deleted from and published out of the new one.

**DashboardSession.**  Tokens are kept in the browser's storage, read when a tab
is loaded, and looked at when the token changes or a guard is mounted, so one
that expires stays in use until the server refuses it.  Paths carry how often
they are escaped.  `SessionOfOneAccount`: the user and the permissions a page
shows are those of the account of its token.  `LoginLeadsBack`: whoever logs in
gets to the page that was left; except when the login page is loaded again after
another tab had logged in, for the guard of the login page does not unescape.
`ControlsAreAllowed`: a control drawn since the group was answered is shown to
those the server lets use it and to nobody else; between the answer and the next
drawing it may be stale.  Excepted is a page whose group is another's
(`GroupIsAnothers`): `GroupContext` takes the group that was answered last, so
after an answer that overtook a later page's, after one that failed, and while
one is to come, the role in that other group decides, in the first case for as
long as the page is shown.  Paths have no characters that are escaped by
themselves, and roles do not change during a session.

## KubePkgEditor

`JSONValues` has both implementations of diff and merge: the editor's (lodash's
`merge` and `set`, the differences by pointer of `JSONDiff.ts`, and the walk of
the syntax tree that finds what to mark) and the server's `DiffObj` and
`MergeObj`.  `JSONSchemas` has validation (which failures there are, which of
them the linter keeps and finds a place for) and completion (the schema at a
cursor, through references, records, arrays and unions).  `KubePkgSchema` is a
cut of the client's schema with each kind of schema in it.  `KubePkgEditor`
composes them: a row is opened, read against its template for its settings, put
over the template chosen, edited at a path, half edited (`Break`: the text does
not parse), linted and submitted, decoded and stored by the server as a diff, and
shown merged by the editor, then merged by the server when the list comes.
Decoding is into Go structs that are encoded again before they are compared:
`Decoded` leaves out what no struct has a field for and what is optional and
empty (`omitempty`), and `Decodes` refuses what is of another type.  Lint and
submit are one step.  `execute` submits from a timer, so an edit between the two
would be submitted without having been linted, and the linter throws on some
failures that have no schema at their place; neither is modelled.

**State.**  A document is a function on the paths of its values, to nodes: an
object, an array, null, a text or a number.  Whatever is above a path of it is
an object or an array (`IsTree`), and the items of an array have their index
for a key.  What the code does by recursion over values is said of all paths at
once, by what is above them: two values differ where one has a path the other
has not, `MergeObj` keeps of the older document what no replaced value is above
of, and so on.  That is shorter than the recursion, and can be proved about,
which recursive operators cannot.  `deployed` has the template, its overwrites
and, for the properties, what was meant; `row` what the page shows; `editor`
the open editor.  The revisions, the places and values of edits and the
definitions of the schema are constants, for which is assumed:

* `TemplatesAssumption`: a revision is a document with a spec and without nulls.
  The server encodes it from its own type, which writes null for a few empty
  fields that are not optional (the rules of a service account without any, the
  spec of a workload): they are taken as not there.
* `EditsAssumption`: what an edit writes at a path is a document there.  An edit
  writes in an object that is there, or takes something out.
* `KeysAssumption`: the keys include the ones the code names, and one with a
  slash in each form escaping gives it.  `DefinitionsAssumption`: a spec is an
  object.  `BoundsAssumption`: the bounds are numbers.

**Properties.**

* `SubmittedIsDeployed`: every value submitted is in the deployment.  Excepted
  is what the server forgets when it decodes a document (`Forgotten`): what is
  not declared, such as `spec.replicas`, and what is optional and empty, such as
  `args: []`.  Taking a key out is not noticed, by design of the overwrites; and
  the server's diff loses changed objects in lists of the same length
  (`obj.go:39` compares the left value with itself) and an object in place of
  what was none, which are excepted too.
* `RowAsListed`: the row after a put is the row of the next list, except lists
  that became shorter or have objects or lists in them: lodash merges them by
  index, the server replaces them.
* `SettingsCarriedOver`: a revision chosen for a row keeps what the row says
  otherwise than its own template, and is as its template for the rest.  Except:
  the version; config keys of the old template, which are pinned; the end of a
  longer list; keys with a slash, whose pointer is split again where it was
  escaped; and what is an object in one of the three and none in another.
* `MarkedIsChanged`: what is marked is what differs, unless the document equals
  the template again or does not parse: then the last marks stay.
* `SubmittedIsValid`: a document the linter has nothing to say of is still one
  its schema accepts when its nulls are removed, but for undeclared properties,
  which the linter skips, and mistakes at keys with a slash, which have no place
  to be shown at.
* `CompletionsFit`: in an object only keys that are declared there and not there
  yet are offered, and those that are required are; not in items of lists.  In
  the root, for which completion has no object to look at, keys that are there
  are offered again.  On the name of a property (`NameCompletions`) the path
  leaves out all enclosing keys, so in an object of any depth the keys of the
  root are offered: nothing is claimed of names below the root.

The operators of the two lower modules have no runs of their own: the run of the
editor applies them to every document its edits reach, and the lemmas of
`KubePkgEditor_documents_proofs` say of each what it does to any document.

## Runs

| run | instance | why that is enough |
| --- | --- | --- |
| `operator_reload` | one workload, one external ConfigMap, workloads listed in two kinds, no failures, edits of the config and the spec and deletions of the workload | two writers of one annotation and two caches: enough for any order of one apply, two reloads and the edit between them |
| `operator_faults` | one workload, a ConfigMap and a Secret, one edit, one failure or restart | both controllers, with the failure at any of their calls |
| `operator_apply` | an owned ConfigMap and a workload, two edits, two orders of extraction, one failure or reordering | a second manifest is left behind when the first fails; two edits overtake a retry |
| `operator_settles` | one workload and its config, two orders of extraction, one failure, restart or reordering, fair | the cycle of wake-ups needs one of each |
| `operator_own_config` | an owned ConfigMap and its workload | a violation |
| `deployments_put` | three PUTs of one deployment, `Keep` = 2, two seconds, one failure or deletion | three deployments overflow the history and tie in a second; the third may be the same pair as the first |
| `deployments_two` | two PUTs on two names, two versions, two channels, two management steps | enough for one deployment's prune, settings or version to touch the other's |
| `dashboard_deployments` | two kubepkgs, two revisions of one of them, two overwrites, three requests of the dialogs, one failure | a dialog closed and opened again while two selections are in flight needs three requests |
| `dashboard_pages` | two of everything, three requests, one failure, of a list too | a row's write, one that races it and the list that overtakes both; a switch whose list fails |
| `kubepkg_editor` | two revisions that differ in every kind of value, two edits at nine paths, two puts | a setting made by one put, carried over by the next; a diff of two changes |
| `deployments_overlap` | three PUTs, two of which overlap on a full history of two | a violation |
| `deployments_late` | three overlapping PUTs | a violation |

`MaxEdits`, `MaxFaults`, `MaxClock`, `MaxManage`, `MaxSent` and `MaxPuts` bound
what users and the environment do; nothing else is bounded.  `MaxFaults` also bounds how often an
extraction orders a workload otherwise.  `Keep` is 10 in the code, and 2 or 3
here so that three requests overflow it.  `Crowded` says whether more than
`Keep` PUTs of a deployment may share a second: `FALSE` in the runs, because
then the prune may remove the row just written.  Two theorems assume it too
(below); the others hold with `TRUE`.
Symmetry is used for requests, names, versions and contents, which are only compared.

## Theorems

Each invariant and action property that is checked by a passing run is also
proved.  No theorem
assumes a bound: the sets of workloads, configs, requests, names, versions,
contents, accounts and records, the revisions, edits and definitions of the
editor are arbitrary, and so is the number of requests, subject to the `ASSUME`s of the modules, which TLC evaluates
in every run.  They say that parameters have their types (`ConfigsAssumption`,
`WorkloadsAssumption`, `ValuesAssumption`, `ParametersAssumption`,
`BoundsAssumption`, `RequestsAssumption`, `DashboardAssumption`,
`SessionAssumption`, `VersionsAssumption`: versions are finitely many numbers,
and there is a channel) and that the value for "none" is not among those it
stands beside (`RowsAssumption`, `NoneAssumption`, `EnvsAssumption`,
`ListsAssumption`, and the rest of the former).  Those of the editor are under
**KubePkgEditor** above.  Each invariant below was checked
by TLC on an instance before it was proved.

`KubePkgOperator_proofs`

* `TypeCorrect`: `Spec => []TypeOK`.  The part that is not typing is that caches
  never run ahead of the objects, and that the version a worker holds exists.
* `HashesArePast`: `Spec => []HashIsPastData`.  The property is not inductive: a
  worker that holds a hash writes it later.  The invariant adds that the hashes
  of `apply` and the data of `reload` are those of past contents too, which
  stay past contents because versions are only appended.
* `ReloadsKeepSpec`: every step of the specification satisfies
  `ReloadKeepsSpec`, because a reload patches a version only if it is the last.

* `AppliedAtTheEnd`: `Spec => []AppliedWhenQuiet`.  `ApplyInv` says of each
  manifest that it is live as the spec says, or there is a reason why the apply
  will come to it: an event that is not delivered, the queue, or the loop of an
  apply which is at it or before it.  The steps between must not lose the
  reason: an event during an apply queues another, a failed call does too, and a
  restart queues everything.
* `ReloadedAtTheEnd`: `Spec => []ReloadedWhenQuiet`.  `ReloadInv` says of each
  workload and each config it mounts (`PairOK`) that the workload has the hash
  of the latest data, or why it will get it: the reload is queued or its event is
  to come (`Coming`), a reload with that data is at work and has still to come to
  the workload (`Handled`), or the apply has still to write it (`Ahead`) or
  writes it with that hash.  It needs that whoever reads older data has a version
  to come that passes the predicate of the reload (`Noticed`), which the marks in
  the log of a config give (`LogOK`: a mark is of data the config had), and
  `ApplyInv`, because an apply may write back an old hash and then wakes on it.

`KubePkgDeployments_proofs`

* `TypeCorrect`, `HistoriesConsistent` (`Spec => []HistoryConsistent`) and
  `VersionsListedOnce` (`Spec => []ListedOnce`), from one invariant.
  Uniqueness of ids needs that ids are fresh: below `nextID`, and not held by
  two requests (`Fresh`).  Ownership needs that what a request refers to is
  stored (`Refers`).  Uniqueness of pairs needs nothing of what other
  transactions wrote, because an upsert replaces the row of its pair, and that a
  transaction drops other rows than its own.  `ListedOnce` needs that a
  version's name determines its revision in each channel (`VersionUnique`,
  `VersionOfRevision`): publication keeps the name, and a PUT names the version
  for the stored spec.

`KubePkgDeployments_effect_proofs`

* `LonePutTakesEffect` and `ClusterRunsWhatIsListed`, under `~ Crowded`.  That is
  a hypothesis and not an assumption of the module because the code does not
  ensure it: with more than `Keep` PUTs of a deployment in one second the prune,
  which orders by that second, may remove the row it was called after.  The
  invariant adds to the one above that an id of a deployment is of one name for
  ever (`Owned`), who may run beside a lone request (`Races`), that no row is of
  a later second (`Past`), that a request carries the overwrites its setting has
  (`Carried`), what a lone request finds at each transaction, and that its new
  row is the latest, survives the prune and leaves at most `Keep` (`LonePuts`),
  however many were there before, and what the cluster was last asked to run
  (`ClusterOK`).  That a lone request finds nobody else between its statements and
  its commit is in `Races`.

* `HistoryIsImplemented`: `Spec => ImplementsHistory`, step by step as under
  **Refinement** above.  `Owned` is what makes it work: `CommitDeployment` of a
  request whose deployment was deleted is a stutter because no name has its id.

`DashboardDeployments_proofs`

* `TypeCorrect`: besides types, `IInv` says what a call may carry, that those of
  a dialog go with it (`CallsOK`), that there is no row until the list has
  arrived, and nothing that needs one (`ListOK`),
  and how template and editor go together (`DialogOK`).
* `ChosenEntryIsShown`, `EditedKeepsSettings` (`SettingsInv`: the overwrites are
  not computed yet, or those of the row, and the editor was made with them;
  `FoundedInv`: until the template of the row's revision is answered nothing is
  shown and its request is the oldest one, or it failed, which is noted),
  `SelectionIsShown` (`NewestInv`: the newest request for a template is for what
  is selected, or none is left and its outcome is shown) and `RowFollowsServer`
  (`AgreeInv`: as long as nothing is noted one write is in flight, lists say what
  the server does, and the row either does too or has an answer coming).

`DashboardSession_proofs`

* `UserOfTheToken`, `LedBack` and `ControlsAllowed`, from `SInv`: a request in
  flight is of the page and of its token (`Pending`), which holds because the
  page's components, and their subscriptions, go when the token does; the path
  that is wanted is that of the route, in whatever form it is escaped
  (`PlaceOK`); the control is as drawn last, and what it goes by is there or
  asked for (`DrawnOK`, `AskedFor`); and so is the group of the page, unless its
  answer was overtaken or failed (`GroupFollows`), which is why nothing else than
  those makes a page go by the group of another.

`DashboardPages_proofs`

* `EnvsStayApart` and `EnvsAreTheServers`, from `EInv`: what is shown and what is
  waited for is of one group until a stray write (`Straight`); of an environment
  nothing is noted of there is one write at most, lists know it, and it is shown
  as on the server, or a list failed, or an answer is coming (`AllKnown`).
* `VersionsAreTheChannels`, from `VInv`: prompts and requests are of rows there
  are (`OfRows`), and in turn (`OneByOne`).  The rows are the versions of the table in order; that
  this is a bijection from the places to the versions (`Ranked`) is proved by
  the cardinalities of the newer ones, without induction, which is why `RowsOf`
  ranks versions: the prover cannot expand the library's sorting.
* `WritesReachTheirRows` and `RowsAreTheRecords`, from `LInv`.  Of an address that
  is not noted it says (`InOrder`) that one write concerns it at most, and no
  list is in flight beside that; that lists agree with the server, which has no
  record of a name that is marked as deleted (`Gone`); that the rows
  do, or that they miss what a list in flight will tell, or that a write was
  served whose answer makes them agree (`After`).  `Noticed` ties the addresses
  of one write together: with one of them all are noted.  The attempt to prove an earlier form
  of `noted`, which excepted only the name of the button, failed, and TLC then
  found the counterexample with three records and five names, beyond the
  instance of the run: a rename from a button with an old name gives another
  record a name that nothing was noted of, and a later write from a row that
  shows it is for the wrong record.  The exception now has all addresses of
  such a write.
* `PagesTypeCorrect`: `Spec => []TypeOK`, from the invariants of all four pages.

`KubePkgEditor_documents_proofs` has no theorem of the specification, but what
the next ones need of documents: what each operator has at each path and that it
makes a tree of trees, what a document fails by and what of that is reported,
and what `set` at pointers does to the paths the settings are said at.  Where the
code recurses over a value a proof would use induction, of which the library's
form is out of the prover's reach; `Shallowest` takes its place: if something
fails at a path of a document, there is a path where it fails and above which it
does not.  It comes from the least of a set of numbers (`Least`), and so does the
recursive function of `Along`, the schema at a path: that there is one for each
length (`ValidatedExists`), that it does not depend on what comes after
(`ValidatedAgree`), and hence what it is one key further (`ValidatedStep`).

`KubePkgEditor_proofs`

* `EditorInductive`: `Spec => []IInv`.  `DeployedOK` says that the overwrites are
  the diff of the template and what was meant, or that nothing was submitted yet;
  `RowOK` that the row is the one merge or the other of them; `EditorOK` that
  settings are those of the row and that a document not edited yet is what they
  make of its template (`OpenedOK`), and what is marked (`MarkedOK`).
* `EditorTypes` and `MarksAreChanges` follow at once.  That every change is
  visited by the walk (`ChangeVisited`) is what the latter is about.
* `OnlyValidSubmitted`: a document is cleared of its nulls after it was linted, so
  what is submitted is not what was found valid.  It still is: nothing that is
  required becomes missing but what failed as a null before, the object of a
  union stays the one it was, and each failure but `never` is reported at a place
  of the document that the walk visits.
* `WhatIsSubmittedIsDeployed`: each value the server decodes of what was submitted
  is in the diff, or equal to the template's, and what the merge has at it or
  below it comes from the same of the two.
* `RowIsAsListed`: a diff is a patch of the template, in which objects stay
  objects, and both merges do the same with a patch outside lists; in a list that
  is replaced they agree if no item of the old is left over.
* `SettingsAreCarriedOver`, the longest: what the row has
  otherwise than its template is settled (`Settled`), each path of it is said at
  its pointer (`Said`), `set` puts there what the row has (`StatedRow`) and keeps
  the config elsewhere (`StatedConfig`), the clone without nulls keeps both, and
  the merge puts them over the other template (`MergeKeeps`) and leaves it as it
  was where nothing is said (`MergeLeaves`); then by cases for the version, the
  config, lists and the rest.
* `OffersFit`: the lookup of completion and that of validation find the same
  schema outside lists, or the former finds none (`LookedUp`); so what is
  completed is declared by the object that validation will use, and a key that
  validation misses is one that completion knows.  In the root both use the schema
  as it is, and so do names there.

Only model-checked: `Settles`, a liveness property, which is out of the proof
system's reach, as are fairness and ENABLED in general.

## Plan

Written, in this order: the operator; deployments; each with its runs and first
theorems; the web dashboard's page of deployments, its other pages and its
session, the editor; the refinement of deployments; the proofs of all invariants,
the editor's last.  The whole stays within a
dozen runs, so what follows shares runs where it composes.  Next:

1. Publications of any name and revision, which `PutKubepkgVersion` does not
   refuse, and prompts that remember the version they were opened for, once the
   rows have keys.
2. `KubePkgImages`: origin, resolver, packer and import as one pipeline, with
   patches since an earlier package, interrupted and retried imports, and the
   proxy's tags, manifests and blobs in between.  Properties: a manifest in the
   target has its references; a finished import is complete; a patch completes
   what its base left.
3. `KubePkgClusters`: clusters, agents and environments: a registration against
   edits, renames and bindings.
4. `KubePkgStatus`: the status and cluster info controllers over the objects of
   the operator module, with the errors they swallow.
5. `KubePkgAccounts`: first logins and roles.
6. The dashboard's push as the edit of `KubePkgOperator`.

## Not modelled

Cryptography, tokens and role rules on the server, the command line's flags, the
CUE packages: they keep no state that other parts rely on.  Of the web
dashboard: the OpenAPI playground, components, layout and styles; the page that
creates deployments from files, the export, and dialogs that only show what they
asked for (agent resources, a robot's token, the ping of a cluster); most of the
generated client, which is types and one line per operation.  Kubernetes, the
database, the registry library, the router, the editor's text and the reactive
library are modelled only as the code uses them: resource versions and
conflicts, unique indexes and transactions, routes and subscriptions.
Transactions see each other's commits.  They are atomic but for the one that
records a deployment, which reads again what its own upsert and others' commits
made of the table; the rest write by upserts on unique indexes what they read or
were given before.

Not modelled yet, for want of room in the instances rather than of reasons: the
status and cluster info controllers, images and registries, the registration of
agents, and the server's tables of accounts, groups and clusters.
