---------------------- MODULE KubePkgDeployments_proofs ----------------------
(* Proofs about KubePkgDeployments, for all values of its constants. *)
EXTENDS KubePkgDeployments, FiniteSetTheorems, WellFoundedInduction, TLAPS

(* A non-empty set of naturals has a least element. *)
Below == {p \in Nat \X Nat : p[1] < p[2]}

LEMMA BelowWellFounded == IsWellFoundedOn(Below, Nat)
  BY NatLessThanWellFounded DEF OpToRel, Below

LEMMA Least ==
  ASSUME NEW T \in SUBSET Nat, T # {}
  PROVE  \E x \in T : \A y \in T : x <= y
<1>1. PICK x \in T : \A y \in T : ~ (<<y, x>> \in Below)
  BY BelowWellFounded, WFMin
<1>2. \A y \in T : ~ (y < x)
  BY <1>1 DEF Below
<1> QED BY <1>2

(* Rows whose ids are bounded have a latest one. *)
LEMMA LatestIsRow ==
  ASSUME NEW rows \in SUBSET History, rows # {}, NEW n \in Nat,
         \A h \in rows : h.id < n
  PROVE  LatestOf(rows) \in rows
<1> DEFINE T == {n - h.id : h \in rows}
<1>1. \A h \in rows : h.id \in Nat
  BY DEF History
<1>2. T \in SUBSET Nat /\ T # {}
  BY <1>1
<1>3. PICK x \in T : \A y \in T : x <= y
  BY <1>2, Least
<1>4. PICK h \in rows : x = n - h.id
  BY <1>3
<1>5. \A other \in rows : other.id <= h.id
  <2> TAKE other \in rows
  <2>1. x <= n - other.id
    BY <1>3
  <2> QED BY <2>1, <1>1, <1>4
<1> QED BY <1>5 DEF LatestOf

(* Overwrites and differences of specs. *)
LEMMA MergeType ==
  ASSUME NEW spec \in Specs, NEW over
  PROVE  Merge(spec, over) \in Specs
<1>1. CASE over \notin Changes
  BY <1>1 DEF Merge
<1>2. CASE over \in Changes
  <2>1. DOMAIN spec = {"version", "config"}
    BY DEF Specs
  <2>2. Merge(spec, over) =
          [version |-> IF over.version = None THEN spec.version ELSE over.version,
           config |-> IF over.config = None THEN spec.config ELSE over.config]
    BY <1>2, <2>1 DEF Merge
  <2> QED BY <1>2, <2>2 DEF Specs, Changes
<1> QED BY <1>1, <1>2

LEMMA DiffType ==
  ASSUME NEW from \in Specs, NEW to \in Specs
  PROVE  Diff(from, to) \in Changes
<1>1. DOMAIN from = {"version", "config"}
  BY DEF Specs
<1>2. Diff(from, to) =
        [version |-> IF to.version = from.version THEN None ELSE to.version,
         config |-> IF to.config = from.config THEN None ELSE to.config]
  BY <1>1 DEF Diff
<1> QED BY <1>2 DEF Specs, Changes

-----------------------------------------------------------------------------
(* The inductive invariant.  Stamped requests hold an id nobody else has   *)
(* or will get, and every request holds references to stored rows.         *)

Stamped(r) == req[r].pc \in {"time", "deploy", "commit"}
HasSetting(r) == req[r].pc \in {"id", "time", "deploy", "commit", "push"}

Fresh ==
  /\ \A h \in histories : h.id < nextID
  /\ \A r \in Requests :
       Stamped(r) =>
         /\ req[r].id < nextID
         /\ \A h \in histories : h.id # req[r].id
         /\ \A q \in Requests \ {r} : Stamped(q) => req[q].id # req[r].id

Refers ==
  \A r \in Requests :
    /\ Busy(r) => req[r].rev \in revisions
    /\ req[r].pc = "record" => req[r].over # None
    /\ HasSetting(r) => req[r].setting \in settings /\ req[r].setting.dep = req[r].dep
    /\ req[r].pc = "commit" => \A p \in req[r].dropped : p.setting.dep = req[r].dep

(* A request under way has the fields of one. *)
LEMMA BusyType ==
  ASSUME TypeOK, NEW r \in Requests, Busy(r)
  PROVE  req[r] \in RequestType
BY DEF TypeOK, Busy, Idle, Finished

(* What the dashboard lists is typed. *)
LEMMA LatestType ==
  ASSUME TypeOK, Fresh, NEW dep,
         LatestOf(HistoryOf(histories, dep)) # None
  PROVE  LatestOf(HistoryOf(histories, dep)) \in HistoryOf(histories, dep)
<1>1. HistoryOf(histories, dep) \in SUBSET History
  BY DEF HistoryOf, TypeOK
<1>2. HistoryOf(histories, dep) # {}
  BY DEF LatestOf
<1>3. nextID \in Nat /\ \A h \in HistoryOf(histories, dep) : h.id < nextID
  BY DEF TypeOK, Fresh, HistoryOf
<1> HIDE DEF HistoryOf
<1> QED BY <1>1, <1>2, <1>3, LatestIsRow

LEMMA StoredType ==
  ASSUME TypeOK, NEW pkg \in Pkgs, NEW spec \in Specs, NEW rev
  PROVE  Stored(pkg, spec, rev) \in Revision
BY DEF TypeOK, Stored, Found, Revision

LEMMA WantedType ==
  ASSUME TypeOK, Fresh, NEW n \in Names, NEW pkg \in Pkgs, NEW spec \in Specs, NEW rev,
         NEW over \in Overwrites \union {None}
  PROVE  Wanted(n, pkg, spec, rev, over) \in Specs
<1>1. Found(pkg, rev) => rev.spec \in Specs
  BY DEF Found, TypeOK, Revision
<1>3. CASE over # None
  <2>1. (IF Found(pkg, rev) THEN rev.spec ELSE spec) \in Specs
    BY <1>1
  <2> QED BY <1>3, <2>1, MergeType DEF Wanted
<1>4. CASE over = None /\ Found(pkg, rev)
  BY <1>1, <1>4 DEF Wanted, Specs
<1>5. CASE over = None /\ ~Found(pkg, rev) /\ Latest(n) = None
  BY <1>5 DEF Wanted
<1>6. CASE over = None /\ ~Found(pkg, rev) /\ Latest(n) # None
  BY <1>6, MergeType DEF Wanted
<1> QED BY <1>3, <1>4, <1>5, <1>6

-----------------------------------------------------------------------------
(* Type correctness. *)

LEMMA InitType == Init => TypeOK
BY ValuesAssumption, ParametersAssumption DEF Init, TypeOK, Idle

(* A request that starts, whatever it overlaps. *)
LEMMA ArriveType ==
  ASSUME TypeOK, NEW r \in Requests, NEW n \in Names, NEW record \in RequestType,
         Arrive(r, n, record)
  PROVE  /\ req' \in [Requests -> {Idle, Finished} \union RequestType]
         /\ deleting' \in [Names -> {"no", "lone", "raced"}]
         /\ raced' \subseteq Names
<1>1. ASSUME NEW q \in Requests
      PROVE  (IF q = r THEN record
              ELSE IF q \in BusyOn(n) THEN [req[q] EXCEPT !.lone = FALSE] ELSE req[q])
               \in {Idle, Finished} \union RequestType
  <2>1. CASE q = r
    BY <2>1
  <2>2. CASE q # r /\ q \in BusyOn(n)
    <3>1. req[q] \in RequestType
      BY <2>2, BusyType DEF BusyOn
    <3>2. [req[q] EXCEPT !.lone = FALSE] \in RequestType
      BY <3>1 DEF RequestType
    <3> QED BY <2>2, <3>2
  <2>3. CASE q # r /\ q \notin BusyOn(n)
    BY <2>3 DEF TypeOK
  <2> QED BY <2>1, <2>2, <2>3
<1> QED BY <1>1 DEF Arrive, TypeOK

LEMMA PutType ==
  ASSUME TypeOK, Fresh, NEW r \in Requests, PutKubepkg(r)
  PROVE  TypeOK'
<1> USE ValuesAssumption, ParametersAssumption
<1>1. PICK n \in Names, pkg \in Pkgs, spec \in Specs, channel \in Channels,
           rev \in revisions \union {None}, over \in Overwrites \union {None} :
             PutWith(r, n, pkg, spec, channel, rev, over)
  BY DEF PutKubepkg
<1> DEFINE stored == Stored(pkg, spec, rev)
           lone == BusyOn(n) = {} /\ deleting[n] = "no"
           record ==
             [pc |-> "bind", name |-> n, rev |-> stored, dep |-> 0,
              over |-> IF over = None /\ Found(pkg, rev)
                       THEN Diff(rev.spec, spec) ELSE over,
              setting |-> None, id |-> 0, at |-> 0, dropped |-> {}, lone |-> lone,
              wanted |-> IF lone THEN Wanted(n, pkg, spec, rev, over) ELSE None]
<1>2. stored \in Revision
  BY StoredType
<1>3. Wanted(n, pkg, spec, rev, over) \in Specs
  BY WantedType
<1>4. record.over \in Changes \union Plain \union {NoOverwrites, None}
  <2>1. Found(pkg, rev) => rev.spec \in Specs
    BY DEF Found, TypeOK, Revision
  <2> QED BY <2>1, DiffType
<1>5. record \in RequestType
  BY <1>2, <1>3, <1>4 DEF RequestType
<1>6. Arrive(r, n, record)
  BY <1>1 DEF PutWith
<1>7. /\ req' \in [Requests -> {Idle, Finished} \union RequestType]
      /\ deleting' \in [Names -> {"no", "lone", "raced"}]
      /\ raced' \subseteq Names
  <2> HIDE DEF record
  <2> QED BY <1>5, <1>6, ArriveType
<1>8. revisions' \subseteq Revision /\ versions' \subseteq Version
  <2>1. stored.spec.version \in Versions
    BY <1>2 DEF Revision, Specs
  <2> QED BY <1>1, <1>2, <2>1 DEF PutWith, UpsertVersion, VersionName, TypeOK, Version
<1>9. UNCHANGED <<deployments, settings, histories, cluster, nextID, bounds>>
  BY DEF PutKubepkg
<1> QED BY <1>7, <1>8, <1>9 DEF TypeOK, bounds

LEMMA BindType ==
  ASSUME TypeOK, NEW r \in Requests, BindKubepkg(r)
  PROVE  TypeOK'
<1> DEFINE id == IF deployments[req[r].name] = 0 THEN nextID
                 ELSE deployments[req[r].name]
<1>1. req[r] \in RequestType
  BY BusyType DEF BindKubepkg, Busy
<1>2. id \in Nat
  BY <1>1 DEF TypeOK, RequestType
<1>3. /\ deployments' = [deployments EXCEPT ![req[r].name] = id]
      /\ req' = [req EXCEPT ![r].dep = id,
           ![r].pc = IF req[r].over = None THEN "read" ELSE "record"]
      /\ nextID' \in {nextID, nextID + 1}
      /\ UNCHANGED <<revisions, versions, settings, histories, cluster, deleting,
                     bounds, raced>>
  BY DEF BindKubepkg
<1> HIDE DEF id
<1>4. req'[r] \in RequestType
  BY <1>1, <1>2, <1>3 DEF TypeOK, RequestType
<1>5. req' \in [Requests -> {Idle, Finished} \union RequestType]
  BY <1>3, <1>4 DEF TypeOK
<1>6. deployments' \in [Names -> Nat]
  BY <1>2, <1>3 DEF TypeOK
<1>7. nextID' \in Nat \ {0}
  BY <1>3 DEF TypeOK
<1>8. /\ UNCHANGED <<revisions, versions, settings, histories>>
      /\ UNCHANGED <<cluster, deleting, clock, managed, raced>>
  BY <1>3 DEF bounds
<1> QED BY <1>5, <1>6, <1>7, <1>8 DEF TypeOK

LEMMA ReadType ==
  ASSUME TypeOK, Fresh, NEW r \in Requests, GetSettingValues(r)
  PROVE  TypeOK'
<1> DEFINE source == LatestOf(HistoryOf(histories, req[r].dep))
<1>1. req[r] \in RequestType
  BY BusyType DEF GetSettingValues, Busy
<1>2. /\ UNCHANGED <<revisions, versions, deployments, settings, histories>>
      /\ UNCHANGED <<cluster, deleting, nextID, clock, managed, raced>>
  BY DEF GetSettingValues, tables, bounds
<1>3. req'[r] \in RequestType
  <2>1. CASE source = None
    <3>1. DefaultsOverwrites(req[r].rev.spec) \in Changes \union Plain \union {NoOverwrites}
      BY <1>1 DEF RequestType, Revision, Specs, DefaultsOverwrites, Changes
    <3>2. req'[r] = [req[r] EXCEPT !.pc = "record",
                       !.over = DefaultsOverwrites(req[r].rev.spec)]
      BY <2>1 DEF GetSettingValues, SettingSource, TypeOK
    <3> QED BY <1>1, <3>1, <3>2 DEF RequestType
  <2>2. CASE source # None
    <3>1. source \in History
      BY <2>2, LatestType DEF HistoryOf, TypeOK
    <3>2. source.setting \in Setting
      BY <3>1 DEF History
    <3>3. source.setting.values \in Changes \union Plain \union {NoOverwrites}
      BY <3>2 DEF Setting
    <3>4. req'[r] = [req[r] EXCEPT !.pc = "id", !.over = source.setting.values,
                                   !.setting = source.setting]
      BY <2>2 DEF GetSettingValues, SettingSource, TypeOK
    <3> HIDE DEF source
    <3> QED BY <1>1, <3>2, <3>3, <3>4 DEF RequestType
  <2> QED BY <2>1, <2>2
<1>4. \A q \in Requests \ {r} : req'[q] = req[q]
  BY DEF GetSettingValues, TypeOK
<1>5. req' \in [Requests -> {Idle, Finished} \union RequestType]
  BY <1>3, <1>4 DEF TypeOK, GetSettingValues
<1> HIDE DEF source
<1> QED BY <1>2, <1>5 DEF TypeOK

LEMMA RecordSettingType ==
  ASSUME TypeOK, Refers, NEW r \in Requests, RecordSetting(r)
  PROVE  TypeOK'
<1> DEFINE row == SettingRow(req[r].dep, req[r].over)
<1>1. req[r] \in RequestType
  BY BusyType DEF RecordSetting, Busy
<1>2. row \in Setting
  <2>1. req[r].over # None
    BY DEF Refers, RecordSetting
  <2> QED BY <1>1, <2>1 DEF SettingRow, RequestType, Setting
<1>3. /\ settings' = settings \union {row}
      /\ req' = [req EXCEPT ![r].pc = "id", ![r].setting = row]
      /\ UNCHANGED <<revisions, versions, deployments, histories, cluster,
                     deleting, nextID, clock, managed, raced>>
  BY DEF RecordSetting, bounds
<1> HIDE DEF row
<1>4. req'[r] \in RequestType
  BY <1>1, <1>2, <1>3 DEF TypeOK, RequestType
<1>5. req' \in [Requests -> {Idle, Finished} \union RequestType]
  BY <1>3, <1>4 DEF TypeOK
<1> QED BY <1>2, <1>3, <1>5 DEF TypeOK

LEMMA StampType ==
  ASSUME TypeOK, NEW r \in Requests, NewHistoryID(r) \/ MarkCreatedAt(r)
  PROVE  TypeOK'
<1>1. req[r] \in RequestType
  BY BusyType DEF NewHistoryID, MarkCreatedAt, Busy
<1>2. /\ UNCHANGED <<revisions, versions, deployments, settings, histories>>
      /\ UNCHANGED <<cluster, deleting, clock, managed, raced>>
      /\ nextID' \in {nextID, nextID + 1}
      /\ \/ req' = [req EXCEPT ![r].pc = "time", ![r].id = nextID]
         \/ req' = [req EXCEPT ![r].pc = "deploy", ![r].at = clock]
  BY DEF NewHistoryID, MarkCreatedAt, tables, bounds
<1>3. nextID \in Nat \ {0} /\ clock \in 0..MaxClock
  BY DEF TypeOK
<1>4. req'[r] \in RequestType
  BY <1>1, <1>2, <1>3 DEF TypeOK, RequestType
<1>5. req' \in [Requests -> {Idle, Finished} \union RequestType]
  BY <1>2, <1>4 DEF TypeOK
<1> QED BY <1>2, <1>3, <1>5 DEF TypeOK

LEMMA UpsertRows ==
  ASSUME NEW row \in History, histories \subseteq History
  PROVE  /\ UpsertHistory(row) \subseteq History
         /\ \A h \in UpsertHistory(row) :
              \/ h \in histories /\ ~ (h.rev = row.rev /\ h.setting = row.setting)
              \/ h = row
              \/ \E old \in histories :
                   /\ old.rev = row.rev /\ old.setting = row.setting
                   /\ h = [old EXCEPT !.id = row.id, !.at = row.at]
<1> DEFINE same == {h \in histories : h.rev = row.rev /\ h.setting = row.setting}
<1>1. ASSUME NEW old \in histories
      PROVE  [old EXCEPT !.id = row.id, !.at = row.at] \in History
  BY DEF History
<1>2. CASE same = {}
  BY <1>2 DEF UpsertHistory
<1>3. CASE same # {}
  <2>1. UpsertHistory(row) = (histories \ same) \union
          {[h EXCEPT !.id = row.id, !.at = row.at] : h \in same}
    BY <1>3 DEF UpsertHistory
  <2> QED BY <1>1, <2>1
<1> QED BY <1>2, <1>3

LEMMA UpsertIds ==
  ASSUME NEW row \in History, histories \subseteq History
  PROVE  \A h \in UpsertHistory(row) :
           h.id = row.id \/ \E old \in histories : h.id = old.id
<1>1. ASSUME NEW old \in histories
      PROVE  [old EXCEPT !.id = row.id, !.at = row.at].id = row.id
  BY DEF History
<1>2. ASSUME NEW h \in UpsertHistory(row)
      PROVE  \/ h \in histories
             \/ h = row
             \/ \E old \in histories : h = [old EXCEPT !.id = row.id, !.at = row.at]
  <2> DEFINE Updated(old) == [old EXCEPT !.id = row.id, !.at = row.at]
  <2>1. \/ h \in histories
        \/ h = row
        \/ \E old \in histories :
             (old.rev = row.rev /\ old.setting = row.setting) /\ h = Updated(old)
    BY UpsertRows
  <2> QED BY <2>1
<1> QED BY <1>1, <1>2

(* The row a transaction upserts is one of a deployment. *)
LEMMA RowType ==
  ASSUME TypeOK, Refers, NEW r \in Requests, req[r].pc \in {"deploy", "commit"}
  PROVE  Row(r) \in History
<1>1. req[r] \in RequestType
  BY BusyType DEF Busy
<1>2. req[r].setting \in Setting
  BY DEF Refers, HasSetting, TypeOK
<1> QED BY <1>1, <1>2 DEF Row, RequestType, History, Revision

LEMMA RecordDeploymentType ==
  ASSUME TypeOK, Refers, NEW r \in Requests, RecordDeployment(r)
  PROVE  TypeOK'
<1>1. req[r] \in RequestType
  BY BusyType DEF RecordDeployment, Busy
<1> DEFINE table == UpsertHistory(Row(r))
<1>2. /\ UNCHANGED <<revisions, versions, deployments, settings, histories>>
      /\ UNCHANGED <<cluster, deleting, nextID, clock, managed, raced>>
      /\ \E kept \in Newest(HistoryOf(table, req[r].dep)) :
           req' = [req EXCEPT ![r].pc = "commit",
             ![r].dropped = {Pair(h) : h \in Pruned(table, req[r].dep, kept)}]
  BY DEF RecordDeployment, tables, bounds
<1>3. PICK kept :
        req' = [req EXCEPT ![r].pc = "commit",
          ![r].dropped = {Pair(h) : h \in Pruned(table, req[r].dep, kept)}]
  BY <1>2
<1>4. table \subseteq History
  BY RowType, UpsertRows DEF RecordDeployment, TypeOK
<1> HIDE DEF table
<1> DEFINE gone == {Pair(h) : h \in Pruned(table, req[r].dep, kept)}
<1>5. gone \in SUBSET [rev: Revision, setting: Setting]
  BY <1>4 DEF Pruned, HistoryOf, Pair, History
<1> HIDE DEF gone
<1>6. req' = [req EXCEPT ![r].pc = "commit", ![r].dropped = gone]
  BY <1>3 DEF gone
<1>7. req'[r] \in RequestType
  BY <1>1, <1>5, <1>6 DEF TypeOK, RequestType
<1>8. req' \in [Requests -> {Idle, Finished} \union RequestType]
  BY <1>6, <1>7 DEF TypeOK
<1> QED BY <1>2, <1>8 DEF TypeOK

LEMMA CommitType ==
  ASSUME TypeOK, Refers, NEW r \in Requests, CommitDeployment(r)
  PROVE  TypeOK'
<1>1. req[r] \in RequestType
  BY BusyType DEF CommitDeployment, Busy
<1>2. histories' \subseteq History
  BY RowType, UpsertRows DEF CommitDeployment, Committed, TypeOK
<1>3. /\ UNCHANGED <<revisions, versions, deployments, settings, cluster, deleting>>
      /\ UNCHANGED <<nextID, clock, managed, raced>>
      /\ req' = [req EXCEPT ![r].pc = "push", ![r].dropped = {}]
  BY DEF CommitDeployment, bounds
<1>4. req'[r] \in RequestType
  BY <1>1, <1>3 DEF TypeOK, RequestType
<1>5. req' \in [Requests -> {Idle, Finished} \union RequestType]
  BY <1>3, <1>4 DEF TypeOK
<1> QED BY <1>2, <1>3, <1>5 DEF TypeOK

LEMMA AnswerType ==
  ASSUME TypeOK, NEW r \in Requests, PutGroupEnvDeployment(r) \/ PutFails(r)
  PROVE  TypeOK'
<1>1. req[r] \in RequestType
  BY BusyType DEF PutGroupEnvDeployment, PutFails, Busy
<1>2. req' \in [Requests -> {Idle, Finished} \union RequestType]
  BY DEF PutGroupEnvDeployment, PutFails, Done, TypeOK
<1>3. req[r].rev.spec \in Specs /\ req[r].name \in Names
  BY <1>1 DEF RequestType, Revision
<1>4. CASE PutGroupEnvDeployment(r)
  <2>1. Merge(req[r].rev.spec, req[r].over) \in Specs
    BY <1>1, <1>3, MergeType DEF RequestType
  <2>2. cluster' \in [Names -> Specs \union {None}] /\ raced' \subseteq Names
    BY <1>3, <1>4, <2>1 DEF PutGroupEnvDeployment, Pushed, TypeOK
  <2>3. /\ UNCHANGED <<revisions, versions, deployments, settings, histories>>
        /\ UNCHANGED <<deleting, nextID, clock, managed>>
    BY <1>4 DEF PutGroupEnvDeployment, tables, bounds
  <2> QED BY <1>2, <2>2, <2>3 DEF TypeOK
<1>5. CASE PutFails(r)
  <2>1. /\ UNCHANGED <<revisions, versions, deployments, settings, histories>>
        /\ UNCHANGED <<cluster, deleting, nextID, clock>>
        /\ managed' = managed + 1 /\ managed < MaxManage
        /\ raced' \subseteq Names
    BY <1>3, <1>5 DEF PutFails, Manage, tables, TypeOK
  <2>2. managed' \in 0..MaxManage
    BY <2>1, ParametersAssumption DEF TypeOK
  <2> QED BY <1>2, <2>1, <2>2 DEF TypeOK
<1> QED BY <1>4, <1>5

LEMMA DeleteType ==
  ASSUME TypeOK, NEW n \in Names, DeleteNext(n)
  PROVE  TypeOK'
<1>1. CASE DeleteBegin(n)
  <2>1. ASSUME NEW q \in Requests
        PROVE  (IF q \in BusyOn(n) THEN [req[q] EXCEPT !.lone = FALSE] ELSE req[q])
                 \in {Idle, Finished} \union RequestType
    <3>1. CASE q \in BusyOn(n)
      <4>1. req[q] \in RequestType
        BY <3>1, BusyType DEF BusyOn
      <4>2. [req[q] EXCEPT !.lone = FALSE] \in RequestType
        BY <4>1 DEF RequestType
      <4> QED BY <3>1, <4>2
    <3> QED BY <3>1 DEF TypeOK
  <2>2. /\ req' = [q \in Requests |->
             IF q \in BusyOn(n) THEN [req[q] EXCEPT !.lone = FALSE] ELSE req[q]]
        /\ cluster' \in {cluster, [cluster EXCEPT ![n] = None]}
        /\ \E d \in {"lone", "raced"} : deleting' = [deleting EXCEPT ![n] = d]
        /\ raced' \in {raced, raced \union {n}}
        /\ UNCHANGED <<revisions, versions, deployments, settings, histories, nextID, clock>>
        /\ managed' = managed + 1 /\ managed < MaxManage
    BY <1>1 DEF DeleteBegin, ClusterWithout, Manage, tables
  <2>3. req' \in [Requests -> {Idle, Finished} \union RequestType]
    BY <2>1, <2>2
  <2>4. managed' \in 0..MaxManage
    BY <2>2, ParametersAssumption DEF TypeOK
  <2> QED BY <2>2, <2>3, <2>4 DEF TypeOK
<1>2. CASE DeleteDeployment(n)
  BY <1>2 DEF DeleteDeployment, TypeOK, bounds
<1>3. CASE DeleteFails(n)
  <2>1. /\ UNCHANGED <<revisions, versions, deployments, settings, histories>>
        /\ UNCHANGED <<cluster, req, nextID, clock>>
        /\ deleting' = [deleting EXCEPT ![n] = "no"]
        /\ raced' = raced \union {n}
        /\ managed' = managed + 1 /\ managed < MaxManage
    BY <1>3 DEF DeleteFails, Manage, tables
  <2>2. managed' \in 0..MaxManage
    BY <2>1, ParametersAssumption DEF TypeOK
  <2> QED BY <2>1, <2>2 DEF TypeOK
<1> QED BY <1>1, <1>2, <1>3 DEF DeleteNext

LEMMA VersionType ==
  ASSUME TypeOK, VersionNext \/ Tick
  PROVE  TypeOK'
<1>1. CASE VersionNext
  <2>1. /\ UNCHANGED <<revisions, deployments, settings, histories, cluster, req>>
        /\ UNCHANGED <<deleting, nextID, raced, clock>>
        /\ managed' = managed + 1 /\ managed < MaxManage
    BY <1>1 DEF VersionNext, PutVersion, DeleteVersion, Manage
  <2>2. versions' \subseteq Version
    <3>1. ASSUME NEW v \in versions, NEW c \in Channels
          PROVE  [v EXCEPT !.channel = c] \in Version
      BY DEF TypeOK, Version
    <3> QED BY <1>1, <3>1 DEF VersionNext, PutVersion, DeleteVersion, TypeOK
  <2>3. managed' \in 0..MaxManage
    BY <2>1, ParametersAssumption DEF TypeOK
  <2> QED BY <2>1, <2>2, <2>3 DEF TypeOK
<1>2. CASE Tick
  <2>1. /\ UNCHANGED <<revisions, versions, deployments, settings, histories>>
        /\ UNCHANGED <<cluster, req, deleting, nextID, managed, raced>>
        /\ clock' = clock + 1 /\ clock < MaxClock
    BY <1>2 DEF Tick, tables
  <2>2. clock' \in 0..MaxClock
    BY <2>1, ParametersAssumption DEF TypeOK
  <2> QED BY <2>1, <2>2 DEF TypeOK, Version, History, RequestType
<1> QED BY <1>1, <1>2
LEMMA TypeStep ==
  ASSUME TypeOK, Fresh, Refers, [Next]_vars
  PROVE  TypeOK'
<1>1. ASSUME NEW r \in Requests, PutNext(r)
      PROVE  TypeOK'
  BY <1>1, PutType, BindType, ReadType, RecordSettingType, StampType,
     RecordDeploymentType, CommitType, AnswerType DEF PutNext
<1>2. CASE UNCHANGED vars
  BY <1>2 DEF vars, tables, bounds, TypeOK
<1> QED BY <1>1, <1>2, DeleteType, VersionType DEF Next

-----------------------------------------------------------------------------
(* What a step leaves of the requests it is not a step of. *)

Same(q) ==
  /\ req'[q].pc = req[q].pc /\ req'[q].rev = req[q].rev
  /\ req'[q].over = req[q].over /\ req'[q].dep = req[q].dep
  /\ req'[q].setting = req[q].setting /\ req'[q].id = req[q].id
  /\ req[q].pc = "commit" => req'[q].dropped = req[q].dropped

LEMMA LoneSame ==
  ASSUME TypeOK, NEW q \in Requests, Busy(q),
         req'[q] = [req[q] EXCEPT !.lone = FALSE]
  PROVE  Same(q)
BY BusyType DEF Same, RequestType

LEMMA OthersSame ==
  ASSUME TypeOK, NEW r \in Requests, PutNext(r), NEW q \in Requests \ {r}
  PROVE  Same(q)
<1>1. CASE PutKubepkg(r)
  <2>1. PICK n, record : Arrive(r, n, record)
    BY <1>1 DEF PutKubepkg, PutWith
  <2>2. req'[q] = IF q \in BusyOn(n) THEN [req[q] EXCEPT !.lone = FALSE] ELSE req[q]
    BY <2>1 DEF Arrive
  <2> QED BY <2>2, LoneSame DEF BusyOn, Same
<1>2. CASE ~ PutKubepkg(r)
  <2>1. req'[q] = req[q]
    BY <1>2 DEF PutNext, TypeOK, BindKubepkg, GetSettingValues, RecordSetting,
       NewHistoryID, MarkCreatedAt, RecordDeployment, CommitDeployment,
       PutGroupEnvDeployment, PutFails, Done
  <2> QED BY <2>1 DEF Same
<1> QED BY <1>1, <1>2

LEMMA ElsewhereSame ==
  ASSUME TypeOK, (\E n \in Names : DeleteNext(n)) \/ VersionNext \/ Tick \/ UNCHANGED vars
  PROVE  /\ UNCHANGED <<revisions, settings, histories, nextID>>
         /\ \A q \in Requests : Same(q)
<1>1. ASSUME NEW n \in Names, DeleteBegin(n)
      PROVE  /\ UNCHANGED <<revisions, settings, histories, nextID>>
             /\ \A q \in Requests : Same(q)
  <2>1. \A q \in Requests :
          req'[q] = IF q \in BusyOn(n) THEN [req[q] EXCEPT !.lone = FALSE] ELSE req[q]
    BY <1>1 DEF DeleteBegin
  <2>2. UNCHANGED <<revisions, settings, histories, nextID>>
    BY <1>1 DEF DeleteBegin, tables
  <2> QED BY <2>1, <2>2, LoneSame DEF BusyOn, Same
<1>2. ASSUME NEW n \in Names, DeleteDeployment(n) \/ DeleteFails(n)
      PROVE  UNCHANGED <<req, revisions, settings, histories, nextID>>
  BY <1>2 DEF DeleteDeployment, DeleteFails, tables
<1>3. CASE VersionNext \/ Tick \/ UNCHANGED vars
  <2>1. UNCHANGED <<req, revisions, settings, histories, nextID>>
    BY <1>3 DEF VersionNext, PutVersion, DeleteVersion, Tick, vars, tables
  <2> QED BY <2>1 DEF Same
<1> QED BY <1>1, <1>2, <1>3 DEF DeleteNext, Same

-----------------------------------------------------------------------------
(* Ids are never used twice. *)

LEMMA FreshKept ==
  ASSUME TypeOK, Fresh, histories' = histories, nextID' \in {nextID, nextID + 1},
         \A q \in Requests : Stamped(q)' => Stamped(q) /\ req'[q].id = req[q].id
  PROVE  Fresh'
<1>1. nextID \in Nat /\ \A h \in histories : h.id \in Nat
  BY DEF TypeOK, History
<1>2. \A q \in Requests : Stamped(q) => req[q].id \in Nat
  BY BusyType DEF Stamped, Busy, RequestType
<1>3. \A h \in histories' : h.id < nextID'
  BY <1>1 DEF Fresh
<1>4. ASSUME NEW q \in Requests, Stamped(q)'
      PROVE  /\ req'[q].id < nextID'
             /\ \A h \in histories' : h.id # req'[q].id
             /\ \A o \in Requests \ {q} : Stamped(o)' => req'[o].id # req'[q].id
  <2>1. Stamped(q) /\ req'[q].id = req[q].id /\ req[q].id < nextID /\ req[q].id \in Nat
    BY <1>2, <1>4 DEF Fresh
  <2>2. req'[q].id < nextID'
    BY <1>1, <2>1
  <2> QED BY <2>1, <2>2 DEF Fresh
<1> QED BY <1>3, <1>4 DEF Fresh

LEMMA FreshStamp ==
  ASSUME TypeOK, Fresh, NEW r \in Requests, NewHistoryID(r)
  PROVE  Fresh'
<1>1. /\ req' = [req EXCEPT ![r].pc = "time", ![r].id = nextID]
      /\ nextID' = nextID + 1 /\ histories' = histories
  BY DEF NewHistoryID, tables
<1>2. nextID \in Nat /\ \A h \in histories : h.id \in Nat /\ h.id < nextID
  BY DEF TypeOK, History, Fresh
<1>3. \A q \in Requests : Stamped(q) => req[q].id \in Nat /\ req[q].id < nextID
  BY BusyType DEF Stamped, Busy, RequestType, Fresh
<1>4. req[r] \in RequestType
  BY BusyType DEF NewHistoryID, Busy
<1>5. req'[r].id = nextID
  BY <1>1, <1>4 DEF TypeOK, RequestType
<1>6. \A q \in Requests \ {r} : req'[q] = req[q]
  BY <1>1 DEF TypeOK
<1>7. \A h \in histories' : h.id < nextID'
  BY <1>1, <1>2
<1>8. ASSUME NEW q \in Requests, Stamped(q)'
      PROVE  /\ req'[q].id < nextID'
             /\ \A h \in histories' : h.id # req'[q].id
             /\ \A o \in Requests \ {q} : Stamped(o)' => req'[o].id # req'[q].id
  <2>1. CASE q = r
    <3>1. \A o \in Requests \ {q} : Stamped(o)' => req'[o].id < nextID /\ req'[o].id \in Nat
      BY <1>3, <1>6, <2>1 DEF Stamped
    <3>2. nextID < nextID' /\ req'[q].id = nextID /\ nextID \in Nat
      BY <1>1, <1>2, <1>5, <2>1
    <3>3. \A h \in histories' : h.id # req'[q].id
      BY <1>1, <1>2, <3>2
    <3>4. \A o \in Requests \ {q} : Stamped(o)' => req'[o].id # req'[q].id
      BY <3>1, <3>2 DEF Stamped
    <3> QED BY <3>2, <3>3, <3>4
  <2>2. CASE q # r
    <3>1. req'[q] = req[q] /\ Stamped(q)
      BY <1>6, <1>8, <2>2 DEF Stamped
    <3>2. \A o \in Requests \ {q, r} : Stamped(o)' => req'[o].id # req'[q].id
      BY <1>6, <3>1 DEF Stamped, Fresh
    <3>3. req'[q].id \in Nat /\ req'[q].id < nextID
      BY <1>3, <3>1
    <3>4. \A h \in histories' : h.id # req'[q].id
      BY <1>1, <3>1 DEF Fresh
    <3>5. req'[q].id < nextID' /\ req'[r].id # req'[q].id
      BY <1>1, <1>2, <1>5, <3>3
    <3> QED BY <3>2, <3>4, <3>5 DEF Stamped
  <2> QED BY <2>1, <2>2
<1> QED BY <1>7, <1>8 DEF Fresh

LEMMA FreshRecord ==
  ASSUME TypeOK, Fresh, Refers, NEW r \in Requests, CommitDeployment(r)
  PROVE  Fresh'
<1>1. /\ req' = [req EXCEPT ![r].pc = "push", ![r].dropped = {}]
      /\ nextID' = nextID
  BY DEF CommitDeployment
<1>2. Stamped(r) /\ req[r] \in RequestType
  BY BusyType DEF CommitDeployment, Busy, Stamped
<1>3. ~ Stamped(r)'
  BY <1>1, <1>2 DEF Stamped, TypeOK, RequestType
<1>4. \A q \in Requests \ {r} : req'[q] = req[q]
  BY <1>1 DEF TypeOK
<1>5. \A h \in histories' : h.id = req[r].id \/ \E old \in histories : h.id = old.id
  <2>1. Row(r) \in History /\ histories \subseteq History
    BY RowType DEF CommitDeployment, TypeOK
  <2>2. histories' \subseteq UpsertHistory(Row(r))
    BY DEF CommitDeployment, Committed
  <2>3. Row(r).id = req[r].id
    BY DEF Row
  <2> QED BY <2>1, <2>2, <2>3, UpsertIds
<1>6. \A h \in histories' : h.id < nextID'
  BY <1>1, <1>2, <1>5 DEF Fresh
<1>7. ASSUME NEW q \in Requests, Stamped(q)'
      PROVE  /\ req'[q].id < nextID'
             /\ \A h \in histories' : h.id # req'[q].id
             /\ \A o \in Requests \ {q} : Stamped(o)' => req'[o].id # req'[q].id
  <2>1. q # r /\ req'[q] = req[q] /\ Stamped(q)
    BY <1>3, <1>4, <1>7 DEF Stamped
  <2>2. \A h \in histories' : h.id # req'[q].id
    BY <1>2, <1>5, <2>1 DEF Fresh
  <2>3. \A o \in Requests \ {q} : Stamped(o)' => req'[o].id # req'[q].id
    BY <1>3, <1>4, <2>1 DEF Stamped, Fresh
  <2> QED BY <1>1, <2>1, <2>2, <2>3 DEF Fresh
<1> QED BY <1>6, <1>7 DEF Fresh

LEMMA FreshStep ==
  ASSUME TypeOK, Fresh, Refers, [Next]_vars
  PROVE  Fresh'
<1>1. ASSUME NEW r \in Requests, PutNext(r), ~ NewHistoryID(r), ~ CommitDeployment(r)
      PROVE  Fresh'
  <2>1. histories' = histories /\ nextID' \in {nextID, nextID + 1}
    BY <1>1 DEF PutNext, PutKubepkg, BindKubepkg, GetSettingValues, RecordSetting,
       MarkCreatedAt, RecordDeployment, PutGroupEnvDeployment, PutFails, tables
  <2>2. \A q \in Requests \ {r} : Stamped(q)' => Stamped(q) /\ req'[q].id = req[q].id
    BY <1>1, OthersSame DEF Same, Stamped
  <2>3. Stamped(r)' => Stamped(r) /\ req'[r].id = req[r].id
    <3>1. CASE PutKubepkg(r)
      BY <3>1 DEF PutKubepkg, PutWith, Arrive, Stamped
    <3>2. CASE MarkCreatedAt(r)
      <4>1. req[r] \in RequestType
        BY <3>2, BusyType DEF MarkCreatedAt, Busy
      <4> QED BY <3>2, <4>1 DEF MarkCreatedAt, Stamped, RequestType, TypeOK
    <3>3. CASE PutGroupEnvDeployment(r) \/ PutFails(r)
      BY <3>3 DEF PutGroupEnvDeployment, PutFails, Done, Finished, Stamped, TypeOK
    <3>4. CASE BindKubepkg(r) \/ GetSettingValues(r) \/ RecordSetting(r)
      <4>1. req[r] \in RequestType
        BY <3>4, BusyType DEF BindKubepkg, GetSettingValues, RecordSetting, Busy
      <4>2. CASE BindKubepkg(r)
        BY <4>1, <4>2 DEF BindKubepkg, RequestType, TypeOK, Stamped
      <4>3. CASE GetSettingValues(r)
        BY <4>1, <4>3 DEF GetSettingValues, RequestType, TypeOK, Stamped
      <4>4. CASE RecordSetting(r)
        BY <4>1, <4>4 DEF RecordSetting, RequestType, TypeOK, Stamped
      <4> QED BY <3>4, <4>2, <4>3, <4>4
    <3>5. CASE RecordDeployment(r)
      <4>1. req[r] \in RequestType
        BY <3>5, BusyType DEF RecordDeployment, Busy
      <4> QED BY <3>5, <4>1 DEF RecordDeployment, Stamped, RequestType, TypeOK
    <3> QED BY <1>1, <3>1, <3>2, <3>3, <3>4, <3>5 DEF PutNext
  <2> QED BY <2>1, <2>2, <2>3, FreshKept
<1>2. CASE (\E n \in Names : DeleteNext(n)) \/ VersionNext \/ Tick \/ UNCHANGED vars
  BY <1>2, ElsewhereSame, FreshKept DEF Same, Stamped
<1> QED BY <1>1, <1>2, FreshStamp, FreshRecord DEF Next
-----------------------------------------------------------------------------
(* Requests refer to stored rows. *)

LEMMA TablesGrow ==
  ASSUME [Next]_vars
  PROVE  revisions \subseteq revisions' /\ settings \subseteq settings'
<1>1. ASSUME NEW r \in Requests, PutNext(r)
      PROVE  revisions \subseteq revisions' /\ settings \subseteq settings'
  <2>1. CASE PutKubepkg(r)
    BY <2>1 DEF PutKubepkg, PutWith
  <2>2. CASE RecordSetting(r)
    BY <2>2 DEF RecordSetting
  <2>3. CASE ~ (PutKubepkg(r) \/ RecordSetting(r))
    BY <1>1, <2>3 DEF PutNext, BindKubepkg, GetSettingValues, NewHistoryID,
       MarkCreatedAt, RecordDeployment, CommitDeployment, PutGroupEnvDeployment,
     PutFails, tables
  <2> QED BY <2>1, <2>2, <2>3
<1>2. ASSUME NEW n \in Names, DeleteNext(n)
      PROVE  revisions \subseteq revisions' /\ settings \subseteq settings'
  BY <1>2 DEF DeleteNext, DeleteBegin, DeleteDeployment, DeleteFails, tables
<1>3. CASE VersionNext \/ Tick \/ UNCHANGED vars
  BY <1>3 DEF VersionNext, PutVersion, DeleteVersion, Tick, vars, tables
<1> QED BY <1>1, <1>2, <1>3 DEF Next

LEMMA RefersSame ==
  ASSUME Refers, NEW q \in Requests, Same(q),
         revisions \subseteq revisions', settings \subseteq settings'
  PROVE  /\ Busy(q)' => req'[q].rev \in revisions'
         /\ req'[q].pc = "record" => req'[q].over # None
         /\ HasSetting(q)' => /\ req'[q].setting \in settings'
                              /\ req'[q].setting.dep = req'[q].dep
         /\ req'[q].pc = "commit" =>
              \A p \in req'[q].dropped : p.setting.dep = req'[q].dep
BY DEF Refers, Same, Busy, HasSetting

LEMMA RefersRead ==
  ASSUME TypeOK, Fresh, Refers, HistoryOwned, NEW r \in Requests, GetSettingValues(r)
  PROVE  /\ req'[r].rev = req[r].rev
         /\ req'[r].pc = "record" => req'[r].over # None
         /\ HasSetting(r)' => /\ req'[r].setting \in settings'
                              /\ req'[r].setting.dep = req'[r].dep
<1> DEFINE source == LatestOf(HistoryOf(histories, req[r].dep))
<1>1. req[r] \in RequestType /\ settings' = settings
  BY BusyType DEF GetSettingValues, Busy, tables
<1>2. CASE source = None
  <2>1. req'[r] = [req[r] EXCEPT !.pc = "record",
                     !.over = DefaultsOverwrites(req[r].rev.spec)]
    BY <1>2 DEF GetSettingValues, SettingSource, TypeOK
  <2>2. DefaultsOverwrites(req[r].rev.spec) # None
    <3>1. req[r].rev.spec.config \in Configs \union {None}
      BY <1>1 DEF RequestType, Revision, Specs
    <3>2. DefaultsOverwrites(req[r].rev.spec) \in Changes \union Plain \union {NoOverwrites}
      BY <3>1 DEF DefaultsOverwrites, Changes
    <3> QED BY <3>2, ValuesAssumption
  <2>3. req'[r].rev = req[r].rev /\ req'[r].pc = "record" /\ req'[r].over # None
    BY <1>1, <2>1, <2>2 DEF RequestType
  <2> QED BY <2>3 DEF HasSetting
<1>3. CASE source # None
  <2>1. source \in HistoryOf(histories, req[r].dep)
    BY <1>3, LatestType
  <2>2. source.setting \in settings /\ source.setting.dep = req[r].dep
    BY <2>1 DEF HistoryOf, HistoryOwned
  <2>3. req'[r] = [req[r] EXCEPT !.pc = "id", !.over = source.setting.values,
                                 !.setting = source.setting]
    BY <1>3 DEF GetSettingValues, SettingSource, TypeOK
  <2> HIDE DEF source
  <2>4. /\ req'[r].rev = req[r].rev /\ req'[r].pc = "id"
        /\ req'[r].setting = source.setting /\ req'[r].dep = req[r].dep
    BY <1>1, <2>3 DEF RequestType
  <2> QED BY <1>1, <2>2, <2>4
<1> QED BY <1>2, <1>3

(* An upsert replaces what has the same pair by the new row: an updated row *)
(* is the new one, for its setting and revision say whose it is.            *)
LEMMA UpsertIsRow ==
  ASSUME histories \subseteq History, HistoryOwned, NEW row \in History,
         row.setting.dep = row.dep, row.rev.pkg = row.pkg
  PROVE  UpsertHistory(row) =
           {h \in histories : ~ (h.rev = row.rev /\ h.setting = row.setting)}
             \union {row}
<1> DEFINE same == {h \in histories : h.rev = row.rev /\ h.setting = row.setting}
<1>1. CASE same = {}
  BY <1>1 DEF UpsertHistory
<1>2. CASE same # {}
  <2>1. ASSUME NEW old \in same
        PROVE  [old EXCEPT !.id = row.id, !.at = row.at] = row
    <3>1. old.dep = row.dep /\ old.pkg = row.pkg
      BY DEF HistoryOwned
    <3> QED BY <3>1 DEF History
  <2>2. {[h EXCEPT !.id = row.id, !.at = row.at] : h \in same} = {row}
    BY <1>2, <2>1
  <2>3. UpsertHistory(row) = (histories \ same) \union
          {[h EXCEPT !.id = row.id, !.at = row.at] : h \in same}
    BY <1>2 DEF UpsertHistory
  <2> QED BY <2>2, <2>3
<1> QED BY <1>1, <1>2

(* The rows a prune leaves out are of its deployment. *)
LEMMA DroppedOwn ==
  ASSUME TypeOK, Refers, HistoryOwned, NEW r \in Requests, RecordDeployment(r)
  PROVE  \A p \in req'[r].dropped : p.setting.dep = req[r].dep
<1>1. req[r] \in RequestType
  BY BusyType DEF RecordDeployment, Busy
<1>2. /\ Row(r) \in History /\ Row(r).dep = req[r].dep
      /\ Row(r).setting.dep = Row(r).dep /\ Row(r).rev.pkg = Row(r).pkg
  BY RowType DEF Row, RecordDeployment, Refers, HasSetting
<1>3. UpsertHistory(Row(r)) =
        {h \in histories : ~ (h.rev = Row(r).rev /\ h.setting = Row(r).setting)}
          \union {Row(r)}
  BY <1>2, UpsertIsRow DEF TypeOK
<1>4. \A h \in UpsertHistory(Row(r)) : h.setting.dep = h.dep
  BY <1>2, <1>3 DEF HistoryOwned
<1> DEFINE table == UpsertHistory(Row(r))
<1>5. PICK kept :
        req' = [req EXCEPT ![r].pc = "commit",
          ![r].dropped = {Pair(h) : h \in Pruned(table, req[r].dep, kept)}]
  BY DEF RecordDeployment
<1>6. req'[r].dropped = {Pair(h) : h \in Pruned(table, req[r].dep, kept)}
  BY <1>1, <1>5 DEF TypeOK, RequestType
<1> QED BY <1>4, <1>6 DEF Pruned, HistoryOf, Pair

LEMMA RefersOwn ==
  ASSUME TypeOK, Fresh, Refers, HistoryOwned, NEW r \in Requests, PutNext(r)
  PROVE  /\ Busy(r)' => req'[r].rev \in revisions'
         /\ req'[r].pc = "record" => req'[r].over # None
         /\ HasSetting(r)' => /\ req'[r].setting \in settings'
                              /\ req'[r].setting.dep = req'[r].dep
         /\ req'[r].pc = "commit" =>
              \A p \in req'[r].dropped : p.setting.dep = req'[r].dep
<1>1. CASE PutKubepkg(r)
  <2>1. PICK n \in Names, pkg \in Pkgs, spec \in Specs, channel \in Channels,
             rev \in revisions \union {None}, over \in Overwrites \union {None} :
               PutWith(r, n, pkg, spec, channel, rev, over)
    BY <1>1 DEF PutKubepkg
  <2>2. /\ req'[r].rev = Stored(pkg, spec, rev) /\ req'[r].pc = "bind"
        /\ Stored(pkg, spec, rev) \in revisions'
    BY <2>1 DEF PutWith, Arrive
  <2> QED BY <2>2 DEF HasSetting
<1>2. CASE BindKubepkg(r)
  <2>1. req[r] \in RequestType /\ req[r].rev \in revisions /\ revisions' = revisions
    BY <1>2, BusyType DEF BindKubepkg, Busy, Refers
  <2>2. /\ req'[r].rev = req[r].rev /\ req'[r].over = req[r].over
        /\ req'[r].pc = IF req[r].over = None THEN "read" ELSE "record"
    BY <1>2, <2>1 DEF BindKubepkg, TypeOK, RequestType
  <2> QED BY <2>1, <2>2 DEF HasSetting
<1>3. CASE GetSettingValues(r)
  <2>1. req[r].rev \in revisions /\ revisions' = revisions
    BY <1>3 DEF GetSettingValues, Busy, Refers, tables
  <2>2. req'[r].pc # "commit"
    <3>1. req[r] \in RequestType
      BY <1>3, BusyType DEF GetSettingValues, Busy
    <3> QED BY <1>3, <3>1 DEF GetSettingValues, TypeOK, RequestType
  <2> QED BY <1>3, <2>1, <2>2, RefersRead
<1>4. CASE RecordSetting(r)
  <2>1. req[r] \in RequestType /\ req[r].rev \in revisions /\ revisions' = revisions
    BY <1>4, BusyType DEF RecordSetting, Busy, Refers
  <2>2. /\ req'[r].rev = req[r].rev /\ req'[r].pc = "id" /\ req'[r].dep = req[r].dep
        /\ req'[r].setting = [dep |-> req[r].dep, values |-> req[r].over]
        /\ req'[r].setting \in settings'
    BY <1>4, <2>1 DEF RecordSetting, SettingRow, TypeOK, RequestType
  <2> QED BY <2>1, <2>2
<1>5. CASE \/ NewHistoryID(r) \/ MarkCreatedAt(r)
           \/ RecordDeployment(r) \/ CommitDeployment(r)
  <2>1. /\ req[r] \in RequestType /\ req[r].rev \in revisions /\ revisions' = revisions
        /\ req[r].setting \in settings /\ settings' = settings
        /\ req[r].setting.dep = req[r].dep
    BY <1>5, BusyType DEF NewHistoryID, MarkCreatedAt, RecordDeployment, CommitDeployment,
       Busy, Refers, HasSetting, tables
  <2>2. /\ req'[r].rev = req[r].rev /\ req'[r].pc \in {"time", "deploy", "commit", "push"}
        /\ req'[r].setting = req[r].setting /\ req'[r].dep = req[r].dep
    BY <1>5, <2>1 DEF NewHistoryID, MarkCreatedAt, RecordDeployment, CommitDeployment,
       TypeOK, RequestType
  <2>3. CASE RecordDeployment(r)
    BY <2>1, <2>2, <2>3, DroppedOwn
  <2>4. CASE ~ RecordDeployment(r)
    <3>1. req'[r].pc # "commit"
      BY <1>5, <2>1, <2>4 DEF NewHistoryID, MarkCreatedAt, CommitDeployment, TypeOK,
         RequestType
    <3> QED BY <2>1, <2>2, <3>1
  <2> QED BY <2>3, <2>4
<1>6. CASE PutGroupEnvDeployment(r) \/ PutFails(r)
  <2>1. req'[r] = Finished
    BY <1>6 DEF PutGroupEnvDeployment, PutFails, Done, TypeOK
  <2> QED BY <2>1 DEF Finished, Busy, HasSetting
<1> QED BY <1>1, <1>2, <1>3, <1>4, <1>5, <1>6 DEF PutNext

LEMMA RefersStep ==
  ASSUME TypeOK, Fresh, Refers, HistoryOwned, [Next]_vars
  PROVE  Refers'
<1>1. ASSUME NEW q \in Requests
      PROVE  /\ Busy(q)' => req'[q].rev \in revisions'
             /\ req'[q].pc = "record" => req'[q].over # None
             /\ HasSetting(q)' => /\ req'[q].setting \in settings'
                                  /\ req'[q].setting.dep = req'[q].dep
             /\ req'[q].pc = "commit" =>
                  \A p \in req'[q].dropped : p.setting.dep = req'[q].dep
  <2>1. CASE PutNext(q)
    BY <2>1, RefersOwn
  <2>2. CASE ~ PutNext(q)
    <3>1. Same(q)
      BY <2>2, OthersSame, ElsewhereSame DEF Next
    <3> QED BY <3>1, TablesGrow, RefersSame
  <2> QED BY <2>1, <2>2
<1> QED BY <1>1 DEF Refers, Busy, HasSetting
-----------------------------------------------------------------------------
(* The history. *)

(* What CommitDeployment leaves: rows of other pairs, and the new row unless *)
(* it is dropped.                                                           *)
LEMMA RecordedHistory ==
  ASSUME TypeOK, Refers, HistoryOwned, IsFiniteSet(histories),
         NEW r \in Requests, CommitDeployment(r)
  PROVE  /\ Row(r) \in History
         /\ Row(r).setting \in settings /\ Row(r).rev \in revisions
         /\ Row(r).setting.dep = Row(r).dep /\ Row(r).rev.pkg = Row(r).pkg
         /\ Row(r).id = req[r].id /\ Row(r).dep = req[r].dep
         /\ \A h \in histories' : h = Row(r) \/
              /\ h \in histories
              /\ ~ (h.rev = Row(r).rev /\ h.setting = Row(r).setting)
         /\ IsFiniteSet(histories')
<1>1. /\ Row(r) \in History
      /\ Row(r).setting \in settings /\ Row(r).rev \in revisions
      /\ Row(r).setting.dep = Row(r).dep /\ Row(r).rev.pkg = Row(r).pkg
      /\ Row(r).id = req[r].id /\ Row(r).dep = req[r].dep
  BY RowType DEF Row, CommitDeployment, Refers, HasSetting, Busy
<1> DEFINE others == {h \in histories : ~ (h.rev = Row(r).rev /\ h.setting = Row(r).setting)}
<1>2. UpsertHistory(Row(r)) = others \union {Row(r)}
  BY <1>1, UpsertIsRow DEF TypeOK
<1>3. histories' \subseteq others \union {Row(r)}
  BY <1>2 DEF CommitDeployment, Committed
<1>4. IsFiniteSet(histories')
  <2>1. IsFiniteSet(others)
    BY FS_Subset
  <2>2. IsFiniteSet(others \union {Row(r)})
    BY <2>1, FS_AddElement
  <2> QED BY <1>3, <2>2, FS_Subset
<1> QED BY <1>1, <1>3, <1>4

LEMMA HistoryRecord ==
  ASSUME TypeOK, Fresh, Refers, HistoryConsistent, IsFiniteSet(histories),
         NEW r \in Requests, CommitDeployment(r)
  PROVE  HistoryConsistent' /\ IsFiniteSet(histories')
<1> DEFINE row == Row(r)
<1>1. HistoryOwned /\ HistoryUnique
  BY DEF HistoryConsistent
<1>2. /\ row \in History /\ row.setting \in settings /\ row.rev \in revisions
      /\ row.setting.dep = row.dep /\ row.rev.pkg = row.pkg
      /\ row.id = req[r].id /\ row.dep = req[r].dep
      /\ \A h \in histories' : h = row \/
           /\ h \in histories
           /\ ~ (h.rev = row.rev /\ h.setting = row.setting)
      /\ IsFiniteSet(histories')
  BY <1>1, RecordedHistory
<1>3. settings' = settings /\ revisions' = revisions
  BY DEF CommitDeployment
<1>4. \A h \in histories : h.id # row.id
  BY <1>2 DEF Fresh, CommitDeployment, Stamped
<1> HIDE DEF row
<1>5. HistoryOwned'
  BY <1>1, <1>2, <1>3 DEF HistoryOwned
<1>6. HistoryUnique'
  <2> SUFFICES ASSUME NEW h \in histories', NEW other \in histories',
                      h.id = other.id \/ (h.rev = other.rev /\ h.setting = other.setting)
               PROVE  h = other
    BY DEF HistoryUnique
  <2>1. CASE h = row /\ other = row
    BY <2>1
  <2>2. CASE h = row /\ other # row
    BY <1>2, <1>4, <2>2
  <2>3. CASE h # row /\ other = row
    BY <1>2, <1>4, <2>3
  <2>4. CASE h # row /\ other # row
    BY <1>1, <1>2, <2>4 DEF HistoryUnique
  <2> QED BY <2>1, <2>2, <2>3, <2>4
<1> QED BY <1>2, <1>5, <1>6 DEF HistoryConsistent

LEMMA HistoryStep ==
  ASSUME TypeOK, Fresh, Refers, HistoryConsistent, IsFiniteSet(histories), [Next]_vars
  PROVE  HistoryConsistent' /\ IsFiniteSet(histories')
<1>1. ASSUME histories' = histories
      PROVE  HistoryConsistent' /\ IsFiniteSet(histories')
  BY <1>1, TablesGrow DEF HistoryConsistent, HistoryOwned, HistoryUnique
<1>2. ASSUME NEW r \in Requests, PutNext(r)
      PROVE  CommitDeployment(r) \/ histories' = histories
  BY <1>2 DEF PutNext, PutKubepkg, BindKubepkg, GetSettingValues, RecordSetting,
     NewHistoryID, MarkCreatedAt, RecordDeployment, PutGroupEnvDeployment, PutFails,
     tables
<1> QED BY <1>1, <1>2, HistoryRecord, ElsewhereSame DEF Next

-----------------------------------------------------------------------------
(* Versions. *)

VersionUnique ==
  \A v, w \in versions :
    v.pkg = w.pkg /\ v.channel = w.channel /\ v.version = w.version => v = w

VersionOfRevision ==
  \A v \in versions :
    v.rev \in revisions /\ v.rev.pkg = v.pkg /\ v.rev.spec.version = v.version

LEMMA VersionsStep ==
  ASSUME TypeOK, VersionUnique, VersionOfRevision, [Next]_vars
  PROVE  VersionUnique' /\ VersionOfRevision'
<1>1. ASSUME versions' \subseteq versions, revisions \subseteq revisions'
      PROVE  VersionUnique' /\ VersionOfRevision'
  BY <1>1 DEF VersionUnique, VersionOfRevision
<1>2. ASSUME NEW r \in Requests, PutKubepkg(r)
      PROVE  VersionUnique' /\ VersionOfRevision'
  <2>1. PICK n \in Names, pkg \in Pkgs, spec \in Specs, channel \in Channels,
             rev \in revisions \union {None}, over \in Overwrites \union {None} :
               PutWith(r, n, pkg, spec, channel, rev, over)
    BY <1>2 DEF PutKubepkg
  <2> DEFINE stored == Stored(pkg, spec, rev)
             row == [pkg |-> pkg, channel |-> channel, rev |-> stored,
                     version |-> stored.spec.version]
  <2>2. /\ revisions' = revisions \union {stored}
        /\ versions' = {v \in versions : ~ (/\ v.pkg = row.pkg /\ v.channel = row.channel
                                            /\ v.version = row.version)} \union {row}
    BY <2>1 DEF PutWith, UpsertVersion, VersionName
  <2>3. stored.pkg = pkg
    BY DEF Stored, Found
  <2> HIDE DEF stored
  <2>4. VersionUnique'
    BY <2>2 DEF VersionUnique
  <2>5. VersionOfRevision'
    BY <2>2, <2>3 DEF VersionOfRevision
  <2> QED BY <2>4, <2>5
<1>3. CASE VersionNext
  <2>1. CASE \E v \in versions : DeleteVersion(v)
    BY <1>1, <2>1 DEF DeleteVersion
  <2>2. ASSUME NEW v \in versions, NEW c \in Channels, PutVersion(v, c)
        PROVE  VersionUnique' /\ VersionOfRevision'
    <3>1. revisions' = revisions
      BY <2>2 DEF PutVersion
    <3>2. CASE versions' = versions
      BY <1>1, <3>1, <3>2
    <3>3. CASE versions' # versions
      <4> DEFINE moved == [v EXCEPT !.channel = c]
      <4>1. /\ versions' = versions \union {moved}
            /\ \A o \in versions : ~ (/\ o.pkg = v.pkg /\ o.channel = c
                                      /\ o.version = v.version)
        BY <2>2, <3>3 DEF PutVersion
      <4>2. /\ moved.pkg = v.pkg /\ moved.channel = c /\ moved.version = v.version
            /\ moved.rev = v.rev
        BY DEF TypeOK, Version
      <4> HIDE DEF moved
      <4>3. VersionUnique'
        BY <4>1, <4>2 DEF VersionUnique
      <4>4. VersionOfRevision'
        BY <3>1, <4>1, <4>2 DEF VersionOfRevision
      <4> QED BY <4>3, <4>4
    <3> QED BY <3>2, <3>3
  <2> QED BY <1>3, <2>1, <2>2 DEF VersionNext
<1>4. ASSUME NEW r \in Requests, PutNext(r), ~ PutKubepkg(r)
      PROVE  versions' = versions
  BY <1>4 DEF PutNext, BindKubepkg, GetSettingValues, RecordSetting, NewHistoryID,
     MarkCreatedAt, RecordDeployment, CommitDeployment, PutGroupEnvDeployment,
     PutFails, tables
<1>5. ASSUME NEW n \in Names, DeleteNext(n)
      PROVE  versions' = versions
  BY <1>5 DEF DeleteNext, DeleteBegin, DeleteDeployment, DeleteFails, tables
<1>6. CASE Tick \/ UNCHANGED vars
  BY <1>1, <1>6 DEF Tick, vars, tables
<1> QED BY <1>1, <1>2, <1>3, <1>4, <1>5, <1>6, TablesGrow DEF Next

(* A revision has one version in each channel, so the join finds one. *)
LEMMA JoinedOnce ==
  ASSUME VersionUnique, VersionOfRevision, NEW h, NEW channel
  PROVE  Cardinality(VersionsListed(h, {channel})) <= 1
<1>1. CASE VersionsListed(h, {channel}) = {}
  BY <1>1, FS_EmptySet
<1>2. CASE VersionsListed(h, {channel}) # {}
  <2>1. PICK v : v \in VersionsListed(h, {channel})
    BY <1>2
  <2>2. ASSUME NEW w \in VersionsListed(h, {channel})
        PROVE  w = v
    BY <2>1 DEF VersionsListed, VersionUnique, VersionOfRevision
  <2>3. VersionsListed(h, {channel}) = {v}
    BY <2>1, <2>2
  <2>4. Cardinality({v}) = 1
    BY FS_Singleton
  <2> QED BY <2>3, <2>4
<1> QED BY <1>1, <1>2

-----------------------------------------------------------------------------
IInv ==
  /\ TypeOK /\ Fresh /\ Refers
  /\ HistoryConsistent /\ IsFiniteSet(histories)
  /\ VersionUnique /\ VersionOfRevision

LEMMA InitIInv == Init => IInv
<1> SUFFICES ASSUME Init PROVE IInv
  OBVIOUS
<1>1. Fresh /\ Refers
  BY DEF Init, Fresh, Refers, Idle, Stamped, Busy, HasSetting
<1>2. HistoryConsistent /\ VersionUnique /\ VersionOfRevision
  BY DEF Init, HistoryConsistent, HistoryOwned, HistoryUnique, VersionUnique,
     VersionOfRevision
<1>3. IsFiniteSet(histories)
  BY FS_EmptySet DEF Init
<1> QED BY <1>1, <1>2, <1>3, InitType DEF IInv

LEMMA StepIInv == IInv /\ [Next]_vars => IInv'
<1> SUFFICES ASSUME IInv, [Next]_vars PROVE IInv'
  OBVIOUS
<1>1. HistoryOwned
  BY DEF IInv, HistoryConsistent
<1>2. TypeOK' /\ Fresh' /\ Refers'
  BY <1>1, TypeStep, FreshStep, RefersStep DEF IInv
<1>3. HistoryConsistent' /\ IsFiniteSet(histories')
  BY HistoryStep DEF IInv
<1>4. VersionUnique' /\ VersionOfRevision'
  BY VersionsStep DEF IInv
<1> QED BY <1>2, <1>3, <1>4 DEF IInv

LEMMA Invariance == Spec => []IInv
<1> QED BY InitIInv, StepIInv, PTL DEF Spec

(* The tables, the requests and the counters always have their types, for  *)
(* any number of requests, names, kubepkgs, versions, channels and          *)
(* overwrites: a request only ever holds values of the columns it writes.   *)
THEOREM TypeCorrect == Spec => []TypeOK
<1>1. IInv => TypeOK
  BY DEF IInv
<1> QED BY <1>1, Invariance, PTL

(* However PUTs, deletions and failures interleave, between transactions    *)
(* and between the statements and the commit of RecordDeployment, every     *)
(* history row pairs a stored revision of its kubepkg with a stored setting *)
(* of its deployment, and no pair and no id is in it twice.                 *)
THEOREM HistoriesConsistent == Spec => []HistoryConsistent
<1>1. IInv => HistoryConsistent
  BY DEF IInv
<1> QED BY <1>1, Invariance, PTL

(* Put, PutVersion and DeleteVersion keep every version row named for its   *)
(* revision, so ListKubepkg never shows a deployment twice.                 *)
THEOREM VersionsListedOnce == Spec => []ListedOnce
<1>1. IInv => ListedOnce
  BY JoinedOnce DEF IInv, ListedOnce, VersionOfRevision
<1> QED BY <1>1, Invariance, PTL
=============================================================================
