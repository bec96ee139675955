------------------- MODULE KubePkgDeployments_effect_proofs --------------------
(***************************************************************************)
(* Proofs about what a PUT has for effect: on what the dashboard lists     *)
(* (PutTakesEffect), on what the cluster runs (ClusterRunsListed), and on   *)
(* the history of each name (ImplementsHistory).  They rest on who owns an  *)
(* id of a deployment, on who may run beside a lone request, and on what a  *)
(* lone request finds in the history of its name.                           *)
(***************************************************************************)
EXTENDS KubePkgDeployments_proofs

Bound(r) == req[r].pc \in {"read", "record", "id", "time", "deploy", "commit", "push"}
Lone(r) == Busy(r) /\ req[r].lone
Rows(n) == HistoryOf(histories, deployments[n])

(* An id of a deployment is of one name for ever, also in requests that     *)
(* run on after the deployment was deleted, and in the rows it left.        *)
Owned ==
  /\ \A n \in Names : deployments[n] < nextID
  /\ \A m, n \in Names :
       m # n /\ deployments[m] = deployments[n] => deployments[m] = 0
  /\ \A h \in histories : 0 < h.dep /\ h.dep < nextID
  /\ \A r \in Requests : Bound(r) =>
       /\ 0 < req[r].dep /\ req[r].dep < nextID
       /\ \A n \in Names : deployments[n] = req[r].dep => n = req[r].name

-----------------------------------------------------------------------------
(* What a step leaves of the requests it is not a step of: all but lone.    *)

Still(q) ==
  req'[q] = req[q] \/ (Busy(q) /\ req'[q] = [req[q] EXCEPT !.lone = FALSE])

LEMMA OthersStill ==
  ASSUME TypeOK, NEW r \in Requests, PutNext(r), NEW q \in Requests \ {r}
  PROVE  Still(q)
<1>1. CASE PutKubepkg(r)
  <2>1. PICK n, record : Arrive(r, n, record)
    BY <1>1 DEF PutKubepkg, PutWith
  <2>2. req'[q] = IF q \in BusyOn(n) THEN [req[q] EXCEPT !.lone = FALSE] ELSE req[q]
    BY <2>1 DEF Arrive
  <2> QED BY <2>2 DEF BusyOn, Still
<1>2. CASE ~ PutKubepkg(r)
  <2>1. req'[q] = req[q]
    BY <1>2 DEF PutNext, TypeOK, BindKubepkg, GetSettingValues, RecordSetting,
       NewHistoryID, MarkCreatedAt, RecordDeployment, CommitDeployment,
       PutGroupEnvDeployment,
       PutFails, Done
  <2> QED BY <2>1 DEF Still
<1> QED BY <1>1, <1>2

LEMMA ElsewhereStill ==
  ASSUME (\E n \in Names : DeleteNext(n)) \/ VersionNext \/ Tick \/ UNCHANGED vars,
         NEW q \in Requests
  PROVE  Still(q)
<1>1. ASSUME NEW n \in Names, DeleteBegin(n)
      PROVE  Still(q)
  <2>1. req'[q] = IF q \in BusyOn(n) THEN [req[q] EXCEPT !.lone = FALSE] ELSE req[q]
    BY <1>1 DEF DeleteBegin
  <2> QED BY <2>1 DEF BusyOn, Still
<1>2. ASSUME NEW n \in Names, DeleteDeployment(n) \/ DeleteFails(n)
      PROVE  req' = req
  BY <1>2 DEF DeleteDeployment, DeleteFails
<1>3. CASE VersionNext \/ Tick \/ UNCHANGED vars
  BY <1>3 DEF VersionNext, PutVersion, DeleteVersion, Tick, vars, Still
<1> QED BY <1>1, <1>2, <1>3 DEF DeleteNext, Still

LEMMA StillFields ==
  ASSUME TypeOK, NEW q \in Requests, Still(q)
  PROVE  /\ req'[q].pc = req[q].pc /\ req'[q].name = req[q].name
         /\ req'[q].rev = req[q].rev /\ req'[q].dep = req[q].dep
         /\ req'[q].over = req[q].over /\ req'[q].setting = req[q].setting
         /\ req'[q].id = req[q].id /\ req'[q].at = req[q].at
         /\ req'[q].dropped = req[q].dropped
         /\ Lone(q)' => req'[q] = req[q]
BY BusyType DEF Still, RequestType, Lone

(* Of the request it is a step of, a step that is not its first keeps the   *)
(* name, the revision and what is wanted.                                   *)
LEMMA OwnKept ==
  ASSUME TypeOK, NEW r \in Requests, PutNext(r), ~ PutKubepkg(r)
  PROVE  /\ Busy(r)
         /\ Busy(r)' => /\ req'[r].name = req[r].name /\ req'[r].rev = req[r].rev
                        /\ req'[r].lone = req[r].lone
                        /\ req'[r].wanted = req[r].wanted
<1>1. CASE PutGroupEnvDeployment(r) \/ PutFails(r)
  BY <1>1 DEF PutGroupEnvDeployment, PutFails, Done, Finished, Busy, TypeOK
<1>2. CASE ~ (PutGroupEnvDeployment(r) \/ PutFails(r))
  <2>1. Busy(r)
    BY <1>2 DEF PutNext, BindKubepkg, GetSettingValues, RecordSetting, NewHistoryID,
       MarkCreatedAt, RecordDeployment, CommitDeployment, Busy
  <2>2. req[r] \in RequestType
    BY <2>1, BusyType
  <2>3. CASE BindKubepkg(r)
    BY <2>1, <2>2, <2>3 DEF BindKubepkg, TypeOK, RequestType
  <2>4. CASE GetSettingValues(r)
    BY <2>1, <2>2, <2>4 DEF GetSettingValues, TypeOK, RequestType
  <2>5. CASE RecordSetting(r)
    BY <2>1, <2>2, <2>5 DEF RecordSetting, TypeOK, RequestType
  <2>6. CASE NewHistoryID(r) \/ MarkCreatedAt(r) \/ RecordDeployment(r)
             \/ CommitDeployment(r)
    BY <2>1, <2>2, <2>6 DEF NewHistoryID, MarkCreatedAt, RecordDeployment,
       CommitDeployment, TypeOK,
       RequestType
  <2> QED BY <1>2, <2>3, <2>4, <2>5, <2>6 DEF PutNext
<1> QED BY <1>1, <1>2

-----------------------------------------------------------------------------
(* The history of a deployment. *)

(* What the upsert of a request makes of the rows of its deployment: its    *)
(* row takes the place of the one of the same pair.                         *)
SamePair(h, row) == h.rev = row.rev /\ h.setting = row.setting
NewRows(r) ==
  {h \in HistoryOf(histories, req[r].dep) : ~ SamePair(h, Row(r))} \union {Row(r)}

LEMMA UpsertOwn ==
  ASSUME TypeOK, Refers, HistoryOwned, NEW r \in Requests,
         req[r].pc \in {"deploy", "commit"}
  PROVE  /\ Row(r) \in History
         /\ Row(r).setting.dep = Row(r).dep /\ Row(r).dep = req[r].dep
         /\ UpsertHistory(Row(r)) = {h \in histories : ~ SamePair(h, Row(r))} \union {Row(r)}
         /\ HistoryOf(UpsertHistory(Row(r)), req[r].dep) = NewRows(r)
<1>1. /\ Row(r) \in History
      /\ Row(r).setting.dep = Row(r).dep /\ Row(r).rev.pkg = Row(r).pkg
      /\ Row(r).dep = req[r].dep
  BY RowType DEF Row, Refers, HasSetting
<1>2. UpsertHistory(Row(r)) = {h \in histories : ~ SamePair(h, Row(r))} \union {Row(r)}
  BY <1>1, UpsertIsRow DEF TypeOK, SamePair
<1>3. HistoryOf(UpsertHistory(Row(r)), req[r].dep) = NewRows(r)
  BY <1>1, <1>2 DEF HistoryOf, NewRows
<1> QED BY <1>1, <1>2, <1>3

(* CommitDeployment leaves of the deployment's rows, the new one among      *)
(* them, those it has not dropped; the rows of other deployments all stay.  *)
LEMMA RecordedOf ==
  ASSUME TypeOK, Refers, HistoryOwned, NEW r \in Requests, CommitDeployment(r)
  PROVE  /\ HistoryOf(histories', req[r].dep) =
              {h \in NewRows(r) : Pair(h) \notin req[r].dropped}
         /\ \A dep : dep # req[r].dep =>
              HistoryOf(histories', dep) = HistoryOf(histories, dep)
<1>1. /\ Row(r).dep = req[r].dep /\ Row(r).setting.dep = Row(r).dep
      /\ UpsertHistory(Row(r)) = {h \in histories : ~ SamePair(h, Row(r))} \union {Row(r)}
      /\ HistoryOf(UpsertHistory(Row(r)), req[r].dep) = NewRows(r)
  BY UpsertOwn DEF CommitDeployment
<1>2. histories' = {h \in UpsertHistory(Row(r)) : Pair(h) \notin req[r].dropped}
  BY DEF CommitDeployment, Committed
<1>3. \A p \in req[r].dropped : p.setting.dep = req[r].dep
  BY DEF Refers, CommitDeployment
<1>4. HistoryOf(histories', req[r].dep) = {h \in NewRows(r) : Pair(h) \notin req[r].dropped}
  BY <1>1, <1>2 DEF HistoryOf
<1>5. ASSUME NEW dep, dep # req[r].dep
      PROVE  HistoryOf(histories', dep) = HistoryOf(histories, dep)
  <2>1. \A h \in histories : h.dep = dep =>
          ~ SamePair(h, Row(r)) /\ Pair(h) \notin req[r].dropped
    BY <1>1, <1>3, <1>5 DEF HistoryOwned, SamePair, Pair
  <2> QED BY <1>1, <1>2, <1>5, <2>1 DEF HistoryOf
<1> QED BY <1>4, <1>5

(* RecordDeployment drops all but the newest of the rows it reads.          *)
Planned(r) ==
  \E kept \in Newest(NewRows(r)) :
    req[r].dropped = {Pair(h) : h \in NewRows(r) \ kept}

LEMMA RecordPlans ==
  ASSUME TypeOK, Refers, HistoryOwned, NEW r \in Requests, RecordDeployment(r)
  PROVE  Planned(r)'
<1>1. req[r] \in RequestType
  BY BusyType DEF RecordDeployment, Busy
<1>2. HistoryOf(UpsertHistory(Row(r)), req[r].dep) = NewRows(r)
  BY UpsertOwn DEF RecordDeployment
<1>3. PICK kept \in Newest(NewRows(r)) :
        req' = [req EXCEPT ![r].pc = "commit",
          ![r].dropped = {Pair(h) : h \in Pruned(UpsertHistory(Row(r)), req[r].dep, kept)}]
  BY <1>2 DEF RecordDeployment
<1> DEFINE gone == {Pair(h) : h \in Pruned(UpsertHistory(Row(r)), req[r].dep, kept)}
<1>4. gone = {Pair(h) : h \in NewRows(r) \ kept}
  BY <1>2 DEF Pruned
<1> HIDE DEF gone
<1>5. req' = [req EXCEPT ![r].pc = "commit", ![r].dropped = gone]
  BY <1>3 DEF gone
<1>6. /\ req'[r].dropped = gone /\ req'[r].dep = req[r].dep /\ req'[r].rev = req[r].rev
      /\ req'[r].setting = req[r].setting /\ req'[r].id = req[r].id
      /\ req'[r].at = req[r].at
  BY <1>1, <1>5 DEF TypeOK, RequestType
<1>7. NewRows(r)' = NewRows(r)
  BY <1>6 DEF RecordDeployment, tables, NewRows, Row, HistoryOf, SamePair
<1> QED BY <1>3, <1>4, <1>6, <1>7 DEF Planned, Newest, Pair

(* What a plan drops is what it does not keep: pairs are of one row.        *)
LEMMA PlanKeeps ==
  ASSUME HistoryUnique, NEW r \in Requests, NEW kept \in Newest(NewRows(r)),
         req[r].dropped = {Pair(h) : h \in NewRows(r) \ kept}
  PROVE  {h \in NewRows(r) : Pair(h) \notin req[r].dropped} = kept
<1>1. kept \subseteq NewRows(r)
  BY DEF Newest
<1>2. \A h, k \in NewRows(r) : Pair(h) = Pair(k) => h = k
  BY DEF NewRows, HistoryOf, HistoryUnique, Pair, SamePair
<1> QED BY <1>1, <1>2

(* The newest are at most Keep rows, one at least.                          *)
LEMMA KeptSize ==
  ASSUME NEW rows, IsFiniteSet(rows), rows # {}, NEW kept \in Newest(rows)
  PROVE  /\ kept # {} /\ kept \subseteq rows /\ IsFiniteSet(kept)
         /\ Cardinality(kept) <= Keep
<1>1. /\ kept \subseteq rows
      /\ Cardinality(kept) = IF Cardinality(rows) < Keep THEN Cardinality(rows) ELSE Keep
  BY DEF Newest
<1>2. IsFiniteSet(kept)
  BY <1>1, FS_Subset
<1>3. Cardinality(rows) \in Nat /\ Cardinality(rows) # 0 /\ Keep \in Nat /\ Keep # 0
  BY FS_EmptySet, FS_CardinalityType, ParametersAssumption
<1>4. Cardinality(kept) # 0 /\ Cardinality(kept) <= Keep
  BY <1>1, <1>3
<1>5. kept # {}
  BY <1>4, FS_EmptySet
<1> QED BY <1>1, <1>2, <1>4, <1>5

LEMMA HistoriesChange ==
  ASSUME TypeOK, [Next]_vars, \A r \in Requests : ~ CommitDeployment(r)
  PROVE  histories' = histories
<1>1. ASSUME NEW r \in Requests, PutNext(r), ~ CommitDeployment(r)
      PROVE  histories' = histories
  BY <1>1 DEF PutNext, PutKubepkg, BindKubepkg, GetSettingValues, RecordSetting,
     NewHistoryID, MarkCreatedAt, RecordDeployment, PutGroupEnvDeployment, PutFails, tables
<1> QED BY <1>1, ElsewhereSame DEF Next

LEMMA DeploymentsChange ==
  ASSUME TypeOK, [Next]_vars, NEW n \in Names, ~ DeleteDeployment(n),
         \A r \in Requests : BindKubepkg(r) => req[r].name # n
  PROVE  deployments'[n] = deployments[n]
<1>1. ASSUME NEW r \in Requests, PutNext(r)
      PROVE  deployments'[n] = deployments[n]
  <2>1. CASE BindKubepkg(r)
    BY <2>1 DEF BindKubepkg, TypeOK
  <2>2. CASE ~ BindKubepkg(r)
    BY <1>1, <2>2 DEF PutNext, PutKubepkg, GetSettingValues, RecordSetting, NewHistoryID,
       MarkCreatedAt, RecordDeployment, CommitDeployment, PutGroupEnvDeployment,
       PutFails, tables
  <2> QED BY <2>1, <2>2
<1>2. ASSUME NEW m \in Names, DeleteNext(m)
      PROVE  deployments'[n] = deployments[n]
  <2>1. CASE DeleteDeployment(m)
    BY <2>1 DEF DeleteDeployment, TypeOK
  <2>2. CASE DeleteBegin(m) \/ DeleteFails(m)
    BY <2>2 DEF DeleteBegin, DeleteFails, tables
  <2> QED BY <1>2, <2>1, <2>2 DEF DeleteNext
<1>3. CASE VersionNext \/ Tick \/ UNCHANGED vars
  BY <1>3 DEF VersionNext, PutVersion, DeleteVersion, Tick, vars, tables
<1> QED BY <1>1, <1>2, <1>3 DEF Next

(* What the dashboard lists of a name changes only when a request on the    *)
(* name records a deployment or the deployment is deleted: a deployment     *)
(* that is bound anew has no history yet, like none.                        *)
LEMMA RowsKept ==
  ASSUME TypeOK, Refers, HistoryOwned, Owned, [Next]_vars, NEW n \in Names,
         ~ DeleteDeployment(n),
         \A r \in Requests : CommitDeployment(r) => req[r].name # n
  PROVE  Rows(n)' = Rows(n)
<1>1. ASSUME NEW r \in Requests, CommitDeployment(r)
      PROVE  Rows(n)' = Rows(n)
  <2>1. deployments' = deployments
    BY <1>1 DEF CommitDeployment
  <2>2. deployments[n] # req[r].dep
    BY <1>1 DEF Owned, Bound, CommitDeployment
  <2> QED BY <1>1, <2>1, <2>2, RecordedOf DEF Rows
<1>2. ASSUME NEW r \in Requests, BindKubepkg(r), req[r].name = n
      PROVE  Rows(n)' = Rows(n)
  <2>1. histories' = histories
    BY <1>2 DEF BindKubepkg
  <2>2. deployments'[n] = IF deployments[n] = 0 THEN nextID ELSE deployments[n]
    BY <1>2 DEF BindKubepkg, TypeOK
  <2>3. CASE deployments[n] = 0
    <3>1. HistoryOf(histories, 0) = {}
      BY DEF Owned, HistoryOf
    <3>2. HistoryOf(histories, nextID) = {}
      <4>1. \A h \in histories : h.dep \in Nat /\ h.dep < nextID
        BY DEF Owned, TypeOK, History
      <4>2. \A h \in histories : h.dep # nextID
        BY <4>1 DEF TypeOK
      <4> QED BY <4>2 DEF HistoryOf
    <3> QED BY <2>1, <2>2, <2>3, <3>1, <3>2 DEF Rows
  <2>4. CASE deployments[n] # 0
    BY <2>1, <2>2, <2>4 DEF Rows
  <2> QED BY <2>3, <2>4
<1>3. CASE \A r \in Requests : ~ CommitDeployment(r) /\ (BindKubepkg(r) => req[r].name # n)
  BY <1>3, HistoriesChange, DeploymentsChange DEF Rows
<1> QED BY <1>1, <1>2, <1>3

(* The rows of a name are rows, with ids below the next one. *)
LEMMA RowsType ==
  ASSUME TypeOK, Fresh, NEW n \in Names
  PROVE  /\ Rows(n) \in SUBSET History
         /\ Rows(n) \subseteq histories
         /\ \A h \in Rows(n) : h.dep = deployments[n]
         /\ Latest(n) = LatestOf(Rows(n))
         /\ Rows(n) = {} <=> Latest(n) = None
         /\ Latest(n) # None => Latest(n) \in Rows(n)
<1>1. /\ Rows(n) \in SUBSET History /\ Rows(n) \subseteq histories
      /\ \A h \in Rows(n) : h.dep = deployments[n]
      /\ Latest(n) = LatestOf(Rows(n))
  BY DEF Rows, HistoryOf, TypeOK, Latest
<1>2. Latest(n) # None => Latest(n) \in Rows(n)
  BY LatestType DEF Latest, Rows
<1>3. Rows(n) = {} => Latest(n) = None
  BY <1>1 DEF LatestOf
<1>4. Rows(n) # {} => Latest(n) # None
  <2> SUFFICES ASSUME Rows(n) # {}, Latest(n) = None
               PROVE  FALSE
    OBVIOUS
  <2>1. nextID \in Nat /\ \A h \in Rows(n) : h.id < nextID
    BY <1>1 DEF Fresh, TypeOK
  <2>2. None \in Rows(n)
    BY <1>1, <2>1, LatestIsRow
  <2> QED BY <1>1, <2>2, RowsAssumption
<1> QED BY <1>1, <1>2, <1>3, <1>4

-----------------------------------------------------------------------------
(* Ids of deployments. *)

LEMMA OwnedKept ==
  ASSUME TypeOK, Owned, deployments' = deployments, nextID' \in {nextID, nextID + 1},
         \A h \in histories' :
           \/ \E old \in histories : h.dep = old.dep
           \/ \E r \in Requests : Bound(r) /\ h.dep = req[r].dep,
         \A q \in Requests : Bound(q)' =>
           Bound(q) /\ req'[q].dep = req[q].dep /\ req'[q].name = req[q].name
  PROVE  Owned'
<1>1. nextID \in Nat /\ deployments \in [Names -> Nat]
  BY DEF TypeOK
<1>2. \A h \in histories : h.dep \in Nat
  BY DEF TypeOK, History
<1>3. \A r \in Requests : Bound(r) => req[r].dep \in Nat
  BY BusyType DEF Bound, Busy, RequestType
<1>4. \A h \in histories' : h.dep \in Nat /\ 0 < h.dep /\ h.dep < nextID
  BY <1>2, <1>3 DEF Owned
<1>5. \A h \in histories' : 0 < h.dep /\ h.dep < nextID'
  BY <1>1, <1>4
<1>6. \A n \in Names : deployments'[n] < nextID'
  BY <1>1 DEF Owned
<1>7. ASSUME NEW r \in Requests, Bound(r)'
      PROVE  /\ 0 < req'[r].dep /\ req'[r].dep < nextID'
             /\ \A n \in Names : deployments'[n] = req'[r].dep => n = req'[r].name
  <2>1. Bound(r) /\ req'[r].dep = req[r].dep /\ req'[r].name = req[r].name
    BY <1>7
  <2>2. 0 < req[r].dep /\ req[r].dep < nextID /\ req[r].dep \in Nat
    BY <1>3, <2>1 DEF Owned
  <2>3. req'[r].dep < nextID'
    BY <1>1, <2>1, <2>2
  <2> QED BY <2>1, <2>2, <2>3 DEF Owned
<1> QED BY <1>5, <1>6, <1>7 DEF Owned, Bound

LEMMA OwnedBind ==
  ASSUME TypeOK, Owned, NEW r \in Requests, BindKubepkg(r)
  PROVE  Owned'
<1> DEFINE n == req[r].name
           id == IF deployments[n] = 0 THEN nextID ELSE deployments[n]
<1>1. req[r] \in RequestType
  BY BusyType DEF BindKubepkg, Busy
<1>2. /\ deployments' = [deployments EXCEPT ![n] = id]
      /\ req'[r].dep = id /\ req'[r].name = n
      /\ nextID' = IF id = nextID THEN nextID + 1 ELSE nextID
      /\ histories' = histories
      /\ \A q \in Requests \ {r} : req'[q] = req[q]
  BY <1>1 DEF BindKubepkg, TypeOK, RequestType
<1>3. n \in Names /\ nextID \in Nat \ {0} /\ deployments \in [Names -> Nat]
  BY <1>1 DEF TypeOK, RequestType
<1>4. \A h \in histories : h.dep \in Nat
  BY DEF TypeOK, History
<1>5. \A q \in Requests : Bound(q) => req[q].dep \in Nat
  BY BusyType DEF Bound, Busy, RequestType
<1>6. id \in Nat /\ 0 < id /\ id < nextID' /\ nextID <= nextID' /\ nextID' \in Nat
  BY <1>2, <1>3 DEF Owned
<1>7. \A m \in Names : m # n => deployments[m] # id \/ deployments[m] = 0
  BY <1>3 DEF Owned
<1>8. \A m \in Names : m # n => deployments[m] # id
  BY <1>6, <1>7
<1>9. \A q \in Requests : Bound(q) /\ req[q].dep = id => req[q].name = n
  BY <1>3, <1>5 DEF Owned
<1> HIDE DEF id, n
<1>10. \A m \in Names : deployments'[m] < nextID'
  BY <1>2, <1>3, <1>6 DEF Owned
<1>11. \A m, k \in Names : m # k /\ deployments'[m] = deployments'[k] => deployments'[m] = 0
  BY <1>2, <1>3, <1>8 DEF Owned
<1>12. \A h \in histories' : 0 < h.dep /\ h.dep < nextID'
  BY <1>2, <1>3, <1>4, <1>6 DEF Owned
<1>13. ASSUME NEW q \in Requests, Bound(q)'
       PROVE  /\ 0 < req'[q].dep /\ req'[q].dep < nextID'
              /\ \A m \in Names : deployments'[m] = req'[q].dep => m = req'[q].name
  <2>1. CASE q = r
    BY <1>2, <1>3, <1>6, <1>8, <2>1
  <2>2. CASE q # r
    <3>1. Bound(q) /\ req'[q] = req[q]
      BY <1>2, <1>13, <2>2 DEF Bound
    <3>2. 0 < req[q].dep /\ req[q].dep < nextID /\ req[q].dep \in Nat
      BY <1>5, <3>1 DEF Owned
    <3>3. req[q].dep < nextID'
      BY <1>3, <1>6, <3>2
    <3>4. \A m \in Names : deployments'[m] = req[q].dep => m = req[q].name
      BY <1>2, <1>3, <1>9, <3>1 DEF Owned
    <3> QED BY <3>1, <3>2, <3>3, <3>4
  <2> QED BY <2>1, <2>2
<1> QED BY <1>10, <1>11, <1>12, <1>13 DEF Owned, Bound

LEMMA OwnedStep ==
  ASSUME TypeOK, Refers, HistoryOwned, Owned, [Next]_vars
  PROVE  Owned'
<1>1. ASSUME NEW r \in Requests, PutNext(r), ~ BindKubepkg(r)
      PROVE  Owned'
  <2>1. deployments' = deployments /\ nextID' \in {nextID, nextID + 1}
    BY <1>1 DEF PutNext, PutKubepkg, GetSettingValues, RecordSetting, NewHistoryID,
       MarkCreatedAt, RecordDeployment, CommitDeployment, PutGroupEnvDeployment,
       PutFails, tables
  <2>2. \A q \in Requests \ {r} : Bound(q)' =>
          Bound(q) /\ req'[q].dep = req[q].dep /\ req'[q].name = req[q].name
    BY <1>1, OthersStill, StillFields DEF Bound
  <2>3. Bound(r)' => Bound(r) /\ req'[r].dep = req[r].dep /\ req'[r].name = req[r].name
    <3>1. CASE PutKubepkg(r)
      BY <3>1 DEF PutKubepkg, PutWith, Arrive, Bound
    <3>2. CASE PutGroupEnvDeployment(r) \/ PutFails(r)
      BY <3>2 DEF PutGroupEnvDeployment, PutFails, Done, Finished, Bound, TypeOK
    <3>3. CASE GetSettingValues(r)
      <4>1. req[r] \in RequestType
        BY <3>3, BusyType DEF GetSettingValues, Busy
      <4> QED BY <3>3, <4>1 DEF GetSettingValues, RequestType, TypeOK, Bound
    <3>4. CASE RecordSetting(r)
      <4>1. req[r] \in RequestType
        BY <3>4, BusyType DEF RecordSetting, Busy
      <4> QED BY <3>4, <4>1 DEF RecordSetting, RequestType, TypeOK, Bound
    <3>5. CASE NewHistoryID(r) \/ MarkCreatedAt(r) \/ RecordDeployment(r)
               \/ CommitDeployment(r)
      <4>1. req[r] \in RequestType
        BY <3>5, BusyType DEF NewHistoryID, MarkCreatedAt, RecordDeployment,
           CommitDeployment, Busy
      <4> QED BY <3>5, <4>1 DEF NewHistoryID, MarkCreatedAt, RecordDeployment,
             CommitDeployment,
                RequestType, TypeOK, Bound
    <3> QED BY <1>1, <3>1, <3>2, <3>3, <3>4, <3>5 DEF PutNext
  <2>4. \A h \in histories' :
          \/ \E old \in histories : h.dep = old.dep
          \/ \E q \in Requests : Bound(q) /\ h.dep = req[q].dep
    <3>1. CASE CommitDeployment(r)
      <4>1. Bound(r) /\ Row(r).dep = req[r].dep
        BY <3>1 DEF CommitDeployment, Bound, Row
      <4>2. \A h \in histories' : h.dep # req[r].dep => h \in HistoryOf(histories, h.dep)
        BY <3>1, RecordedOf DEF HistoryOf
      <4> QED BY <4>1, <4>2 DEF HistoryOf
    <3>2. CASE ~ CommitDeployment(r)
      BY <1>1, <3>2 DEF PutNext, PutKubepkg, GetSettingValues, RecordSetting,
         NewHistoryID, MarkCreatedAt, RecordDeployment, PutGroupEnvDeployment,
         PutFails, tables
    <3> QED BY <3>1, <3>2
  <2> QED BY <2>1, <2>2, <2>3, <2>4, OwnedKept
<1>2. ASSUME NEW n \in Names, DeleteDeployment(n)
      PROVE  Owned'
  BY <1>2 DEF DeleteDeployment, Owned, TypeOK, Bound
<1>3. CASE /\ (\E n \in Names : DeleteNext(n)) \/ VersionNext \/ Tick \/ UNCHANGED vars
           /\ \A n \in Names : ~ DeleteDeployment(n)
  <2>1. deployments' = deployments
    BY <1>3 DEF DeleteNext, DeleteBegin, DeleteFails, VersionNext, PutVersion,
       DeleteVersion, Tick, vars, tables
  <2>2. \A q \in Requests : Bound(q)' =>
          Bound(q) /\ req'[q].dep = req[q].dep /\ req'[q].name = req[q].name
    BY <1>3, ElsewhereStill, StillFields DEF Bound
  <2> QED BY <1>3, <2>1, <2>2, ElsewhereSame, OwnedKept
<1> QED BY <1>1, <1>2, <1>3, OwnedBind DEF Next

-----------------------------------------------------------------------------
(* Who runs beside whom: a lone request is alone on its name, and no        *)
(* deletion runs beside it; on a name without races every request is lone.  *)

Races ==
  /\ \A r, q \in Requests :
       Lone(r) /\ Busy(q) /\ req[q].name = req[r].name => q = r
  /\ \A r \in Requests : Lone(r) => deleting[req[r].name] = "no"
  /\ \A n \in Names : deleting[n] = "lone" => BusyOn(n) = {}
  /\ \A n \in Names \ raced :
       deleting[n] # "raced" /\ \A r \in BusyOn(n) : req[r].lone

LEMMA RacesPut ==
  ASSUME TypeOK, Races, NEW r \in Requests, PutKubepkg(r)
  PROVE  Races'
<1>1. PICK n \in Names, pkg \in Pkgs, spec \in Specs, channel \in Channels,
           rev \in revisions \union {None}, over \in Overwrites \union {None} :
             PutWith(r, n, pkg, spec, channel, rev, over)
  BY DEF PutKubepkg
<1> DEFINE lone == BusyOn(n) = {} /\ deleting[n] = "no"
           record ==
             [pc |-> "bind", name |-> n, rev |-> Stored(pkg, spec, rev), dep |-> 0,
              over |-> IF over = None /\ Found(pkg, rev)
                       THEN Diff(rev.spec, spec) ELSE over,
              setting |-> None, id |-> 0, at |-> 0, dropped |-> {}, lone |-> lone,
              wanted |-> IF lone THEN Wanted(n, pkg, spec, rev, over) ELSE None]
<1>2. /\ Arrive(r, n, record) /\ record.name = n /\ record.pc = "bind"
      /\ record.lone = lone
  BY <1>1 DEF PutWith
<1> HIDE DEF record
<1>3. /\ req'[r] = record
      /\ \A q \in Requests \ {r} :
           req'[q] = IF q \in BusyOn(n) THEN [req[q] EXCEPT !.lone = FALSE] ELSE req[q]
      /\ deleting' = [deleting EXCEPT ![n] = IF @ = "lone" THEN "raced" ELSE @]
      /\ raced' = IF record.lone THEN raced ELSE raced \union {n}
  BY <1>2 DEF Arrive
<1>4. ASSUME NEW q \in Requests \ {r}
      PROVE  /\ Busy(q)' <=> Busy(q)
             /\ req'[q].name = req[q].name
             /\ Lone(q)' => Lone(q) /\ req[q].name # n
             /\ q \notin BusyOn(n) => req'[q] = req[q]
  <2>1. CASE q \in BusyOn(n)
    <3>1. req[q] \in RequestType
      BY <2>1, BusyType DEF BusyOn
    <3> QED BY <1>3, <2>1, <3>1 DEF RequestType, Busy, Lone
  <2>2. CASE q \notin BusyOn(n)
    BY <1>3, <2>2 DEF Busy, Lone, BusyOn
  <2> QED BY <2>1, <2>2
<1>5. Busy(r)' /\ req'[r].name = n
  BY <1>2, <1>3 DEF Busy
<1>6. ~ Busy(r)
  BY DEF PutKubepkg, Busy
<1>7. Lone(r)' => BusyOn(n) = {} /\ deleting[n] = "no"
  BY <1>2, <1>3 DEF Lone
<1>8. ASSUME NEW p \in Requests, NEW q \in Requests,
             Lone(p)', Busy(q)', req'[q].name = req'[p].name
      PROVE  q = p
  <2>1. CASE p = r /\ q # r
    BY <1>4, <1>5, <1>7, <1>8, <2>1 DEF BusyOn
  <2>2. CASE p # r /\ q = r
    BY <1>4, <1>5, <1>8, <2>2
  <2>3. CASE p # r /\ q # r
    BY <1>4, <1>8, <2>3 DEF Races
  <2> QED BY <2>1, <2>2, <2>3
<1>9. ASSUME NEW p \in Requests, Lone(p)'
      PROVE  deleting'[req'[p].name] = "no"
  <2>1. CASE p = r
    BY <1>3, <1>5, <1>7, <1>9, <2>1 DEF TypeOK
  <2>2. CASE p # r
    BY <1>3, <1>4, <1>9, <2>2 DEF Races, TypeOK
  <2> QED BY <2>1, <2>2
<1>10. ASSUME NEW m \in Names, deleting'[m] = "lone"
       PROVE  BusyOn(m)' = {}
  <2>1. m # n /\ deleting[m] = "lone"
    BY <1>3, <1>10 DEF TypeOK
  <2> QED BY <1>4, <1>5, <2>1 DEF Races, BusyOn
<1>11. ASSUME NEW m \in Names, m \notin raced'
       PROVE  deleting'[m] # "raced" /\ \A q \in BusyOn(m)' : req'[q].lone
  <2>1. CASE m = n
    <3>1. record.lone /\ m \notin raced
      BY <1>3, <1>11, <2>1
    <3>2. BusyOn(n) = {} /\ deleting[n] = "no"
      BY <1>2, <3>1
    <3>3. BusyOn(m)' = {r}
      BY <1>4, <1>5, <2>1, <3>2 DEF BusyOn
    <3> QED BY <1>3, <2>1, <3>1, <3>2, <3>3 DEF TypeOK
  <2>2. CASE m # n
    <3>1. m \notin raced /\ deleting'[m] = deleting[m]
      BY <1>3, <1>11, <2>2 DEF TypeOK
    <3>2. \A q \in BusyOn(m)' : q \in BusyOn(m) /\ req'[q] = req[q]
      BY <1>4, <1>5, <2>2 DEF BusyOn
    <3> QED BY <3>1, <3>2 DEF Races
  <2> QED BY <2>1, <2>2
<1> QED BY <1>8, <1>9, <1>10, <1>11 DEF Races, Lone, Busy

LEMMA RacesKept ==
  ASSUME TypeOK, Races, deleting' = deleting, raced \subseteq raced',
         \A q \in Requests : Busy(q)' =>
           Busy(q) /\ req'[q].name = req[q].name /\ req'[q].lone = req[q].lone
  PROVE  Races'
<1>1. \A q \in Requests : Lone(q)' => Lone(q)
  BY DEF Lone
<1>2. \A n \in Names : BusyOn(n)' \subseteq BusyOn(n)
  BY DEF BusyOn
<1>3. \A p, q \in Requests : Lone(p)' /\ Busy(q)' /\ req'[q].name = req'[p].name => q = p
  BY <1>1 DEF Races, Lone
<1>4. \A p \in Requests : Lone(p)' => deleting'[req'[p].name] = "no"
  BY <1>1 DEF Races, Lone
<1>5. ASSUME NEW m \in Names, m \notin raced'
      PROVE  deleting'[m] # "raced" /\ \A q \in BusyOn(m)' : req'[q].lone
  <2>1. \A q \in BusyOn(m)' : q \in BusyOn(m) /\ req'[q].lone = req[q].lone
    BY DEF BusyOn
  <2> QED BY <1>5, <2>1 DEF Races
<1>6. \A n \in Names : deleting'[n] = "lone" => BusyOn(n)' = {}
  BY <1>2 DEF Races
<1> QED BY <1>3, <1>4, <1>5, <1>6 DEF Races, Lone, Busy

LEMMA RacesOwn ==
  ASSUME TypeOK, Races, NEW r \in Requests, PutNext(r), ~ PutKubepkg(r)
  PROVE  Races'
<1>1. deleting' = deleting
  BY DEF PutNext, BindKubepkg, GetSettingValues, RecordSetting, NewHistoryID,
     MarkCreatedAt, RecordDeployment, CommitDeployment, PutGroupEnvDeployment, PutFails
<1>2. \A q \in Requests \ {r} : req'[q] = req[q]
  BY DEF PutNext, TypeOK, BindKubepkg, GetSettingValues, RecordSetting,
     NewHistoryID, MarkCreatedAt, RecordDeployment, CommitDeployment,
     PutGroupEnvDeployment, PutFails, Done
<1>3. \A q \in Requests : Busy(q)' =>
        Busy(q) /\ req'[q].name = req[q].name /\ req'[q].lone = req[q].lone
  BY <1>2, OwnKept DEF Busy
<1>4. CASE PutGroupEnvDeployment(r) /\ req[r].lone
  <2>0. PICK n \in Names : n = req[r].name
    BY BusyType, OwnKept DEF RequestType
  <2>1. /\ Lone(r) /\ raced' = raced \ {n} /\ ~ Busy(r)'
        /\ \A q \in Requests : Busy(q)' => q # r /\ req'[q] = req[q]
    BY <1>2, <1>4, <2>0 DEF PutGroupEnvDeployment, Done, Finished, Busy, TypeOK, Lone
  <2>2. BusyOn(n)' = {} /\ deleting'[n] = "no"
    <3>1. \A q \in Requests : Busy(q)' => Busy(q) /\ q # r /\ req'[q].name = req[q].name
      BY <1>3, <2>1
    <3>2. \A q \in Requests : Busy(q) /\ req[q].name = n => q = r
      BY <2>0, <2>1 DEF Races
    <3>3. deleting[n] = "no"
      BY <2>0, <2>1 DEF Races
    <3> QED BY <1>1, <3>1, <3>2, <3>3 DEF BusyOn
  <2>3. \A q \in Requests : Lone(q)' => Lone(q)
    BY <1>3 DEF Lone
  <2>4. \A m \in Names : BusyOn(m)' \subseteq BusyOn(m)
    BY <1>3 DEF BusyOn
  <2>5. ASSUME NEW m \in Names, m \notin raced'
        PROVE  deleting'[m] # "raced" /\ \A q \in BusyOn(m)' : req'[q].lone
    <3>1. CASE m = n
      BY <2>2, <3>1
    <3>2. CASE m # n
      <4>1. m \notin raced
        BY <2>1, <2>5, <3>2
      <4>2. \A q \in BusyOn(m)' : q \in BusyOn(m) /\ req'[q].lone = req[q].lone
        BY <1>3 DEF BusyOn
      <4> QED BY <1>1, <4>1, <4>2 DEF Races
    <3> QED BY <3>1, <3>2
  <2>6. \A p, q \in Requests : Lone(p)' /\ Busy(q)' /\ req'[q].name = req'[p].name => q = p
    BY <1>3, <2>3 DEF Races, Lone
  <2>7. \A p \in Requests : Lone(p)' => deleting'[req'[p].name] = "no"
    BY <1>1, <1>3, <2>3 DEF Races, Lone
  <2>8. \A m \in Names : deleting'[m] = "lone" => BusyOn(m)' = {}
    BY <1>1, <2>4 DEF Races
  <2> QED BY <2>5, <2>6, <2>7, <2>8 DEF Races, Lone, Busy
<1>5. CASE ~ (PutGroupEnvDeployment(r) /\ req[r].lone)
  <2>1. raced \subseteq raced'
    BY <1>5 DEF PutNext, BindKubepkg, GetSettingValues, RecordSetting, NewHistoryID,
       MarkCreatedAt, RecordDeployment, CommitDeployment, PutGroupEnvDeployment, PutFails
  <2> QED BY <1>1, <1>3, <2>1, RacesKept
<1> QED BY <1>4, <1>5

LEMMA RacesDelete ==
  ASSUME TypeOK, Races, NEW n \in Names, DeleteNext(n)
  PROVE  Races'
<1>1. CASE DeleteBegin(n)
  <2>1. /\ deleting[n] = "no"
        /\ \A q \in Requests :
             req'[q] = IF q \in BusyOn(n) THEN [req[q] EXCEPT !.lone = FALSE] ELSE req[q]
        /\ \/ /\ BusyOn(n) = {} /\ raced' = raced
              /\ deleting' = [deleting EXCEPT ![n] = "lone"]
           \/ /\ raced' = raced \union {n}
              /\ deleting' = [deleting EXCEPT ![n] = "raced"]
    BY <1>1 DEF DeleteBegin
  <2>2. ASSUME NEW q \in Requests
        PROVE  /\ Busy(q)' <=> Busy(q)
               /\ req'[q].name = req[q].name
               /\ Lone(q)' => Lone(q) /\ req[q].name # n
               /\ q \notin BusyOn(n) => req'[q] = req[q]
    <3>1. CASE q \in BusyOn(n)
      <4>1. req[q] \in RequestType
        BY <3>1, BusyType DEF BusyOn
      <4> QED BY <2>1, <3>1, <4>1 DEF RequestType, Busy, Lone
    <3>2. CASE q \notin BusyOn(n)
      BY <2>1, <3>2 DEF Busy, Lone, BusyOn
    <3> QED BY <3>1, <3>2
  <2>3. \A m \in Names : BusyOn(m)' = BusyOn(m)
    BY <2>2 DEF BusyOn
  <2>4. \A m \in Names \ {n} : deleting'[m] = deleting[m]
    BY <2>1 DEF TypeOK
  <2>5. \A p, q \in Requests : Lone(p)' /\ Busy(q)' /\ req'[q].name = req'[p].name => q = p
    BY <2>2 DEF Races
  <2>6. ASSUME NEW p \in Requests, Lone(p)'
        PROVE  deleting'[req'[p].name] = "no"
    <3>1. Lone(p) /\ req'[p].name = req[p].name /\ req[p].name # n
      BY <2>2, <2>6
    <3>2. req[p].name \in Names
      BY <3>1, BusyType DEF Lone, RequestType
    <3> QED BY <2>4, <3>1, <3>2 DEF Races
  <2>7. \A m \in Names : deleting'[m] = "lone" => BusyOn(m)' = {}
    BY <2>1, <2>3, <2>4 DEF Races, TypeOK
  <2>8. ASSUME NEW m \in Names, m \notin raced'
        PROVE  deleting'[m] # "raced" /\ \A q \in BusyOn(m)' : req'[q].lone
    <3>1. CASE m = n
      <4>1. BusyOn(n) = {} /\ deleting'[n] = "lone"
        BY <2>1, <2>8, <3>1 DEF TypeOK
      <4> QED BY <2>3, <3>1, <4>1
    <3>2. CASE m # n
      <4>1. m \notin raced /\ deleting'[m] = deleting[m]
        BY <2>1, <2>4, <2>8, <3>2
      <4>2. \A q \in BusyOn(m)' : q \in BusyOn(m) /\ req'[q] = req[q]
        BY <2>2, <2>3, <3>2 DEF BusyOn
      <4> QED BY <4>1, <4>2 DEF Races
    <3> QED BY <3>1, <3>2
  <2> QED BY <2>5, <2>6, <2>7, <2>8 DEF Races, Lone, Busy
<1>2. CASE DeleteDeployment(n) \/ DeleteFails(n)
  <2>1. /\ req' = req /\ deleting[n] # "no"
        /\ deleting' = [deleting EXCEPT ![n] = "no"]
        /\ raced' \in {raced, raced \union {n}} \/ (deleting[n] = "lone" /\ raced' = raced \ {n})
    BY <1>2 DEF DeleteDeployment, DeleteFails
  <2>2. \A q \in Requests : (Busy(q)' <=> Busy(q)) /\ (Lone(q)' <=> Lone(q))
    BY <2>1 DEF Busy, Lone
  <2>3. \A m \in Names : BusyOn(m)' = BusyOn(m)
    BY <2>1, <2>2 DEF BusyOn
  <2>4. /\ deleting'[n] = "no"
        /\ \A m \in Names \ {n} : deleting'[m] = deleting[m]
    BY <2>1 DEF TypeOK
  <2>5. \A p \in Requests : Lone(p)' => deleting'[req'[p].name] = "no"
    <3>1. \A p \in Requests : Lone(p) => req[p].name \in Names
      BY BusyType DEF Lone, RequestType
    <3> QED BY <2>1, <2>2, <2>4, <3>1 DEF Races
  <2>6. ASSUME NEW m \in Names, m \notin raced'
        PROVE  deleting'[m] # "raced" /\ \A q \in BusyOn(m)' : req'[q].lone
    <3>1. CASE m \notin raced
      BY <2>1, <2>3, <2>4, <3>1 DEF Races
    <3>2. CASE m \in raced
      <4>1. m = n /\ deleting[n] = "lone"
        BY <2>1, <2>6, <3>2
      <4> QED BY <2>3, <2>4, <4>1 DEF Races
    <3> QED BY <3>1, <3>2
  <2> QED BY <2>1, <2>2, <2>3, <2>4, <2>5, <2>6 DEF Races, Lone, Busy
<1> QED BY <1>1, <1>2 DEF DeleteNext

LEMMA RacesStep ==
  ASSUME TypeOK, Races, [Next]_vars
  PROVE  Races'
<1>1. CASE VersionNext \/ Tick \/ UNCHANGED vars
  <2>1. deleting' = deleting /\ raced' = raced /\ req' = req
    BY <1>1 DEF VersionNext, PutVersion, DeleteVersion, Tick, vars
  <2> QED BY <2>1, RacesKept DEF Busy
<1> QED BY <1>1, RacesPut, RacesOwn, RacesDelete DEF Next

-----------------------------------------------------------------------------
(* No row and no stamp is of the future, and a request that has a setting   *)
(* carries its values.                                                      *)

Timed(r) == req[r].pc \in {"deploy", "commit"}

Past ==
  /\ \A h \in histories : h.at <= clock
  /\ \A r \in Requests : Timed(r) => req[r].at <= clock

Carried ==
  \A r \in Requests :
    /\ req[r].pc = "read" => req[r].over = None
    /\ HasSetting(r) => req[r].over # None /\ req[r].setting.values = req[r].over

LEMMA PastStep ==
  ASSUME TypeOK, Refers, HistoryOwned, Past, [Next]_vars
  PROVE  Past'
<1>1. clock \in Nat /\ clock' \in {clock, clock + 1}
  <2>1. clock \in Nat
    BY ParametersAssumption DEF TypeOK
  <2>2. ASSUME NEW r \in Requests, PutNext(r)
        PROVE  clock' = clock
    BY <2>2 DEF PutNext, PutKubepkg, BindKubepkg, GetSettingValues, RecordSetting,
       NewHistoryID, MarkCreatedAt, RecordDeployment, CommitDeployment,
       PutGroupEnvDeployment, PutFails,
       Manage, bounds
  <2>3. ASSUME NEW n \in Names, DeleteNext(n)
        PROVE  clock' = clock
    BY <2>3 DEF DeleteNext, DeleteBegin, DeleteDeployment, DeleteFails, Manage, bounds
  <2>4. CASE VersionNext \/ UNCHANGED vars
    BY <2>1, <2>4 DEF VersionNext, PutVersion, DeleteVersion, Manage, vars, bounds
  <2>5. CASE Tick
    BY <2>1, <2>5 DEF Tick
  <2> QED BY <2>1, <2>2, <2>3, <2>4, <2>5 DEF Next
<1>2. /\ \A h \in histories : h.at \in Nat
      /\ \A r \in Requests : Timed(r) => req[r].at \in Nat
  BY BusyType, ParametersAssumption DEF TypeOK, History, Busy, RequestType, Timed
<1>3. \A r \in Requests : Timed(r)' =>
        (Timed(r) /\ req'[r].at = req[r].at) \/ req'[r].at = clock
  <2>1. ASSUME NEW r \in Requests, PutNext(r), Timed(r)'
        PROVE  (Timed(r) /\ req'[r].at = req[r].at) \/ req'[r].at = clock
    <3>1. CASE PutKubepkg(r)
      BY <2>1, <3>1 DEF PutKubepkg, PutWith, Arrive, Timed
    <3>2. CASE PutGroupEnvDeployment(r) \/ PutFails(r)
      BY <2>1, <3>2 DEF PutGroupEnvDeployment, PutFails, Done, Finished, TypeOK, Timed
    <3>3. CASE ~ (PutKubepkg(r) \/ PutGroupEnvDeployment(r) \/ PutFails(r))
      <4>1. req[r] \in RequestType
        BY <2>1, <3>3, OwnKept, BusyType
      <4>2. CASE MarkCreatedAt(r)
        BY <4>1, <4>2 DEF MarkCreatedAt, TypeOK, RequestType
      <4>3. CASE GetSettingValues(r)
        BY <2>1, <4>1, <4>3 DEF GetSettingValues, TypeOK, RequestType, Timed
      <4>4. CASE BindKubepkg(r) \/ RecordSetting(r) \/ NewHistoryID(r)
                 \/ CommitDeployment(r)
        BY <2>1, <4>1, <4>4 DEF BindKubepkg, RecordSetting, NewHistoryID, CommitDeployment,
           TypeOK, RequestType, Timed
      <4>5. CASE RecordDeployment(r)
        BY <4>1, <4>5 DEF RecordDeployment, TypeOK, RequestType, Timed
      <4> QED BY <2>1, <3>3, <4>2, <4>3, <4>4, <4>5 DEF PutNext
    <3> QED BY <3>1, <3>2, <3>3
  <2>2. ASSUME NEW r \in Requests, ~ PutNext(r), Timed(r)'
        PROVE  Timed(r) /\ req'[r].at = req[r].at
    <3>1. Still(r)
      BY <2>2, OthersStill, ElsewhereStill DEF Next
    <3> QED BY <2>2, <3>1, StillFields DEF Timed
  <2> QED BY <2>1, <2>2
<1>4. ASSUME NEW h \in histories'
      PROVE  h \in histories \/ \E r \in Requests : Timed(r) /\ h.at = req[r].at
  <2>1. ASSUME NEW r \in Requests, CommitDeployment(r), h \notin histories
        PROVE  Timed(r) /\ h.at = req[r].at
    <3>1. h.dep = req[r].dep
      BY <2>1, RecordedOf DEF HistoryOf
    <3>2. h \in NewRows(r)
      BY <2>1, <3>1, RecordedOf DEF HistoryOf
    <3>3. h = Row(r)
      BY <2>1, <3>2 DEF NewRows, HistoryOf
    <3> QED BY <2>1, <3>3 DEF CommitDeployment, Row, Timed
  <2>2. (\A r \in Requests : ~ CommitDeployment(r)) => histories' = histories
    BY HistoriesChange
  <2> QED BY <2>1, <2>2
<1>5. \A h \in histories' : h.at <= clock /\ h.at \in Nat
  BY <1>2, <1>4 DEF Past
<1>6. \A r \in Requests : Timed(r)' => req'[r].at <= clock /\ req'[r].at \in Nat
  BY <1>1, <1>2, <1>3 DEF Past
<1> QED BY <1>1, <1>5, <1>6 DEF Past, Timed

LEMMA CarriedOwn ==
  ASSUME TypeOK, Fresh, Refers, Carried, NEW r \in Requests, PutNext(r)
  PROVE  /\ req'[r].pc = "read" => req'[r].over = None
         /\ HasSetting(r)' => req'[r].over # None /\ req'[r].setting.values = req'[r].over
<1>1. CASE PutKubepkg(r)
  BY <1>1 DEF PutKubepkg, PutWith, Arrive, HasSetting
<1>2. CASE PutGroupEnvDeployment(r) \/ PutFails(r)
  BY <1>2 DEF PutGroupEnvDeployment, PutFails, Done, Finished, HasSetting, TypeOK
<1>3. CASE GetSettingValues(r)
  <2> DEFINE source == LatestOf(HistoryOf(histories, req[r].dep))
  <2>1. req[r] \in RequestType
    BY <1>3, BusyType DEF GetSettingValues, Busy
  <2>2. CASE source = None
    BY <1>3, <2>1, <2>2 DEF GetSettingValues, SettingSource, TypeOK, RequestType, HasSetting
  <2>3. CASE source # None
    <3>1. source \in History
      BY <2>3, LatestType DEF HistoryOf, TypeOK
    <3>2. source.setting.values \in Changes \union Plain \union {NoOverwrites}
      BY <3>1 DEF History, Setting
    <3>3. req'[r] = [req[r] EXCEPT !.pc = "id", !.over = source.setting.values,
                                   !.setting = source.setting]
      BY <1>3, <2>3 DEF GetSettingValues, SettingSource, TypeOK
    <3> HIDE DEF source
    <3>4. /\ req'[r].pc = "id" /\ req'[r].over = source.setting.values
          /\ req'[r].setting = source.setting
      BY <2>1, <3>3 DEF RequestType
    <3> QED BY <3>2, <3>4, ValuesAssumption
  <2> QED BY <2>2, <2>3
<1>4. CASE BindKubepkg(r) \/ RecordSetting(r)
  <2>1. req[r] \in RequestType
    BY <1>4, BusyType DEF BindKubepkg, RecordSetting, Busy
  <2>2. CASE BindKubepkg(r)
    BY <2>1, <2>2 DEF BindKubepkg, TypeOK, RequestType, HasSetting
  <2>3. CASE RecordSetting(r)
    <3>1. req[r].over # None
      BY <2>3 DEF Refers, RecordSetting
    <3>2. /\ req'[r].pc = "id" /\ req'[r].over = req[r].over
          /\ req'[r].setting = [dep |-> req[r].dep, values |-> req[r].over]
      BY <2>1, <2>3 DEF RecordSetting, SettingRow, TypeOK, RequestType
    <3> QED BY <3>1, <3>2
  <2> QED BY <1>4, <2>2, <2>3
<1>5. CASE NewHistoryID(r) \/ MarkCreatedAt(r) \/ RecordDeployment(r) \/ CommitDeployment(r)
  <2>1. req[r] \in RequestType /\ HasSetting(r)
    BY <1>5, BusyType DEF NewHistoryID, MarkCreatedAt, RecordDeployment,
       CommitDeployment, Busy, HasSetting
  <2>2. /\ req'[r].pc \in {"time", "deploy", "commit", "push"} /\ req'[r].over = req[r].over
        /\ req'[r].setting = req[r].setting
    BY <1>5, <2>1 DEF NewHistoryID, MarkCreatedAt, RecordDeployment, CommitDeployment,
       TypeOK, RequestType
  <2> QED BY <2>1, <2>2 DEF Carried
<1> QED BY <1>1, <1>2, <1>3, <1>4, <1>5 DEF PutNext

LEMMA CarriedStep ==
  ASSUME TypeOK, Fresh, Refers, Carried, [Next]_vars
  PROVE  Carried'
<1>1. ASSUME NEW q \in Requests
      PROVE  /\ req'[q].pc = "read" => req'[q].over = None
             /\ HasSetting(q)' => /\ req'[q].over # None
                                  /\ req'[q].setting.values = req'[q].over
  <2>1. CASE PutNext(q)
    BY <2>1, CarriedOwn
  <2>2. CASE ~ PutNext(q)
    <3>1. Still(q)
      BY <2>2, OthersStill, ElsewhereStill DEF Next
    <3> QED BY <3>1, StillFields DEF Carried, HasSetting
  <2> QED BY <2>1, <2>2
<1> QED BY <1>1 DEF Carried, HasSetting

-----------------------------------------------------------------------------
(* A lone request.  What it is to deploy stays what was wanted of it when   *)
(* it started, whatever the dashboard lists by then; its row is to be the   *)
(* newest and the latest of its name; then the dashboard lists it.          *)

Aim(r) ==
  IF req[r].over # None THEN Merge(req[r].rev.spec, Resolved(req[r].over))
  ELSE IF Latest(req[r].name) = None THEN req[r].rev.spec
  ELSE Merge(req[r].rev.spec, Resolved(Latest(req[r].name).setting.values))

SecondsOf(n, at) == {h \in Rows(n) : h.at = at}

Live(r, n) ==
  /\ Latest(n) # None
  /\ Latest(n).rev = req[r].rev /\ Latest(n).setting.values = req[r].over
  /\ Cardinality(Rows(n)) <= Keep

LoneOK(r) ==
  /\ Bound(r) => req[r].dep = deployments[req[r].name]
  /\ req[r].wanted = Aim(r)
  /\ Stamped(r) => \A h \in Rows(req[r].name) : h.id < req[r].id
  /\ Timed(r) =>
       /\ \A h \in Rows(req[r].name) : h.at <= req[r].at
       /\ Cardinality(SecondsOf(req[r].name, req[r].at)) < Keep
  /\ req[r].pc = "commit" => Planned(r)
  /\ req[r].pc = "push" => Live(r, req[r].name)

LonePuts == \A r \in Requests : Lone(r) => LoneOK(r)

LEMMA ListedKept ==
  ASSUME NEW n \in Names, Rows(n)' = Rows(n)
  PROVE  /\ Latest(n)' = Latest(n) /\ Listed(n)' = Listed(n)
         /\ ListedPlain(n)' = ListedPlain(n)
<1>1. Latest(n) = LatestOf(Rows(n)) /\ Latest(n)' = LatestOf(Rows(n)')
  BY DEF Latest, Rows
<1> QED BY <1>1 DEF Listed, ListedPlain

LEMMA LoneKept ==
  ASSUME NEW r \in Requests, LoneOK(r), req'[r] = req[r], NEW n \in Names,
         req[r].name = n, deployments'[n] = deployments[n], Rows(n)' = Rows(n)
  PROVE  LoneOK(r)'
<1>1. Latest(n)' = Latest(n) /\ Listed(n)' = Listed(n)
  BY ListedKept
<1>2. req'[r].name = n
  OBVIOUS
<1>3. (Bound(r) => req[r].dep = deployments[n])'
  BY <1>2 DEF LoneOK, Bound
<1>4. (req[r].wanted = Aim(r))'
  BY <1>1, <1>2 DEF LoneOK, Aim
<1>5. (Stamped(r) => \A h \in Rows(n) : h.id < req[r].id)'
  BY DEF LoneOK, Stamped
<1>6. (Timed(r) =>
         /\ \A h \in Rows(n) : h.at <= req[r].at
         /\ Cardinality(SecondsOf(n, req[r].at)) < Keep)'
  BY DEF LoneOK, SecondsOf, Timed
<1>7. (req[r].pc = "push" => Live(r, n))'
  BY <1>1 DEF LoneOK, Live
<1>8. (req[r].pc = "commit" => Planned(r))'
  <2> SUFFICES ASSUME req[r].pc = "commit"
               PROVE  Planned(r)'
    OBVIOUS
  <2>1. req[r].dep = deployments[n] /\ Planned(r)
    BY DEF LoneOK, Bound
  <2>2. HistoryOf(histories', req[r].dep) = HistoryOf(histories, req[r].dep)
    BY <2>1 DEF Rows
  <2>3. NewRows(r)' = NewRows(r)
    BY <2>2 DEF NewRows, Row, SamePair
  <2> QED BY <2>1, <2>3 DEF Planned, Newest, Pair
<1> QED BY <1>2, <1>3, <1>4, <1>5, <1>6, <1>7, <1>8 DEF LoneOK

(* Nobody else's step disturbs a lone request.                              *)
LEMMA LoneOthers ==
  ASSUME TypeOK, Refers, HistoryOwned, Owned, Races, LonePuts, [Next]_vars,
         NEW q \in Requests, ~ PutNext(q), Lone(q)'
  PROVE  LoneOK(q)'
<1>1. Still(q)
  BY OthersStill, ElsewhereStill DEF Next
<1>2. req'[q] = req[q] /\ Lone(q)
  BY <1>1, StillFields DEF Lone, Busy
<1>3. PICK n \in Names : n = req[q].name
  BY <1>2, BusyType DEF Lone, RequestType
<1>4. ~ DeleteDeployment(n)
  BY <1>2, <1>3 DEF Races, DeleteDeployment
<1>5. ASSUME NEW r \in Requests, BindKubepkg(r) \/ CommitDeployment(r)
      PROVE  req[r].name # n
  <2>1. Busy(r) /\ r # q
    BY <1>5 DEF BindKubepkg, CommitDeployment, Busy, PutNext
  <2> QED BY <1>2, <1>3, <2>1 DEF Races
<1>6. Rows(n)' = Rows(n)
  BY <1>4, <1>5, RowsKept
<1>7. deployments'[n] = deployments[n]
  BY <1>4, <1>5, DeploymentsChange
<1> QED BY <1>2, <1>3, <1>6, <1>7, LoneKept DEF LonePuts

(* Only a setting without "spec" is listed other than it is pushed.         *)
LEMMA PlainApart ==
  ASSUME NEW values \in Plain
  PROVE  values \notin Changes
<1>1. DOMAIN values = {"plain"}
  BY DEF Plain
<1>2. \A over \in Changes : "version" \in DOMAIN over
  BY DEF Changes
<1> QED BY <1>1, <1>2

LEMMA ResolvedSame ==
  ASSUME NEW over \in Changes \union {NoOverwrites}
  PROVE  Resolved(over) = over
BY PlainApart, ValuesAssumption DEF Resolved

LEMMA PushedIsListed ==
  ASSUME NEW spec, NEW values
  PROVE  Merge(spec, values) = IF values \in Plain THEN spec
                               ELSE Merge(spec, Resolved(values))
BY PlainApart DEF Merge, Resolved

(* What is wanted, of a request that starts.                                *)
LEMMA DiffMerges ==
  ASSUME NEW from \in Specs, NEW to \in Specs
  PROVE  Merge(from, Diff(from, to)) =
           [to EXCEPT !.config = IF @ = None THEN from.config ELSE @]
<1>1. /\ from = [version |-> from.version, config |-> from.config]
      /\ to = [version |-> to.version, config |-> to.config]
      /\ to.version \in Versions
  BY DEF Specs
<1>2. Diff(from, to) =
        [version |-> IF to.version = from.version THEN None ELSE to.version,
         config |-> IF to.config = from.config THEN None ELSE to.config]
  BY DEF Diff, Specs
<1>3. Diff(from, to) \in Changes
  BY DiffType
<1>4. Merge(from, Diff(from, to)) =
        [f \in {"version", "config"} |->
           IF Diff(from, to)[f] = None THEN from[f] ELSE Diff(from, to)[f]]
  BY <1>3 DEF Merge, Specs
<1>5. Merge(from, Diff(from, to)) =
        [version |-> to.version, config |-> IF to.config = None THEN from.config ELSE to.config]
  BY <1>1, <1>2, <1>4, ValuesAssumption
<1>6. [to EXCEPT !.config = IF @ = None THEN from.config ELSE @] =
        [version |-> to.version, config |-> IF to.config = None THEN from.config ELSE to.config]
  BY DEF Specs
<1> QED BY <1>5, <1>6

LEMMA LonePut ==
  ASSUME TypeOK, Fresh, Refers, HistoryOwned, Owned, [Next]_vars,
         NEW r \in Requests, PutKubepkg(r), Lone(r)'
  PROVE  LoneOK(r)'
<1>1. PICK n \in Names, pkg \in Pkgs, spec \in Specs, channel \in Channels,
           rev \in revisions \union {None}, over \in Overwrites \union {None} :
             PutWith(r, n, pkg, spec, channel, rev, over)
  BY DEF PutKubepkg
<1> DEFINE lone == BusyOn(n) = {} /\ deleting[n] = "no"
           record ==
             [pc |-> "bind", name |-> n, rev |-> Stored(pkg, spec, rev), dep |-> 0,
              over |-> IF over = None /\ Found(pkg, rev)
                       THEN Diff(rev.spec, spec) ELSE over,
              setting |-> None, id |-> 0, at |-> 0, dropped |-> {}, lone |-> lone,
              wanted |-> IF lone THEN Wanted(n, pkg, spec, rev, over) ELSE None]
<1>2. req'[r] = record
  BY <1>1 DEF PutWith, Arrive
<1>3. lone
  <2>1. req'[r].lone = lone
    BY <1>2
  <2> HIDE DEF lone
  <2> QED BY <2>1 DEF Lone
<1>4. /\ req'[r].pc = "bind" /\ req'[r].name = n /\ req'[r].rev = Stored(pkg, spec, rev)
      /\ req'[r].over = IF over = None /\ Found(pkg, rev) THEN Diff(rev.spec, spec) ELSE over
      /\ req'[r].wanted = Wanted(n, pkg, spec, rev, over)
  BY <1>2, <1>3
<1> HIDE DEF record, lone
<1>5. Latest(n)' = Latest(n)
  BY DEF PutKubepkg, Latest
<1>6. Found(pkg, rev) => rev.spec \in Specs /\ Stored(pkg, spec, rev).spec = rev.spec
  BY DEF Found, TypeOK, Revision, Stored
<1>7. ~ Found(pkg, rev) => Stored(pkg, spec, rev).spec = spec
  BY DEF Stored
<1>8. req'[r].wanted = Aim(r)'
  <2>1. CASE over # None
    BY <1>4, <1>6, <1>7, <2>1 DEF Aim, Wanted
  <2>2. CASE over = None /\ Found(pkg, rev)
    <3>1. Diff(rev.spec, spec) # None
      BY <1>6, <2>2, DiffType, ValuesAssumption
    <3>2. Aim(r)' = Merge(rev.spec, Diff(rev.spec, spec))
      <4>1. Resolved(Diff(rev.spec, spec)) = Diff(rev.spec, spec)
        BY <1>6, <2>2, DiffType, ResolvedSame
      <4> QED BY <1>4, <1>6, <2>2, <3>1, <4>1 DEF Aim
    <3> QED BY <1>4, <1>6, <2>2, <3>2, DiffMerges DEF Wanted
  <2>3. CASE over = None /\ ~ Found(pkg, rev)
    BY <1>4, <1>5, <1>7, <2>3 DEF Aim, Wanted
  <2> QED BY <2>1, <2>2, <2>3
<1> QED BY <1>4, <1>8 DEF LoneOK, Bound, Stamped, Timed

(* A step of a lone request that records no deployment leaves the history   *)
(* of its name.                                                             *)
LEMMA LoneRows ==
  ASSUME TypeOK, Refers, HistoryOwned, Owned, Races, [Next]_vars,
         NEW r \in Requests, Lone(r), ~ CommitDeployment(r)
  PROVE  /\ req[r].name \in Names
         /\ \A n \in Names : n = req[r].name =>
              Rows(n)' = Rows(n) /\ Latest(n)' = Latest(n) /\ Listed(n)' = Listed(n)
<1>1. req[r].name \in Names
  BY BusyType DEF Lone, RequestType
<1>2. ~ DeleteDeployment(req[r].name)
  BY DEF Races, DeleteDeployment
<1>3. \A q \in Requests : CommitDeployment(q) => req[q].name # req[r].name
  BY DEF Races, CommitDeployment, Busy
<1>4. \A n \in Names : n = req[r].name => Rows(n)' = Rows(n)
  BY <1>2, <1>3, RowsKept
<1> QED BY <1>1, <1>4, ListedKept

LEMMA LoneBind ==
  ASSUME TypeOK, Refers, HistoryOwned, Owned, Races, [Next]_vars,
         NEW r \in Requests, BindKubepkg(r), Lone(r), LoneOK(r)
  PROVE  LoneOK(r)'
<1>1. req[r] \in RequestType
  BY BusyType DEF Lone
<1>2. PICK n \in Names : n = req[r].name
  BY <1>1 DEF RequestType
<1>3. Latest(n)' = Latest(n)
  BY <1>2, LoneRows DEF BindKubepkg, CommitDeployment
<1>4. /\ req'[r].name = n /\ req'[r].rev = req[r].rev /\ req'[r].over = req[r].over
      /\ req'[r].wanted = req[r].wanted /\ req'[r].pc \in {"read", "record"}
      /\ req'[r].dep = deployments'[n]
  BY <1>1, <1>2 DEF BindKubepkg, TypeOK, RequestType
<1>5. req'[r].wanted = Aim(r)'
  BY <1>2, <1>3, <1>4 DEF LoneOK, Aim
<1> QED BY <1>4, <1>5 DEF LoneOK, Stamped, Timed

(* A request without overwrites takes those of the latest deployment, or    *)
(* the defaults, which change nothing.                                      *)
LEMMA DefaultsMerge ==
  ASSUME NEW spec \in Specs
  PROVE  Merge(spec, Resolved(DefaultsOverwrites(spec))) = spec
<1>1. CASE spec.config = None
  BY <1>1, ResolvedSame, ValuesAssumption DEF Merge, DefaultsOverwrites
<1>2. CASE spec.config # None
  <2> DEFINE over == [version |-> None, config |-> spec.config]
  <2>1. DefaultsOverwrites(spec) = over /\ over \in Changes
    BY <1>2 DEF DefaultsOverwrites, Specs, Changes
  <2>2. Resolved(over) = over
    BY <2>1, ResolvedSame
  <2>3. Merge(spec, over) =
          [f \in {"version", "config"} |-> IF over[f] = None THEN spec[f] ELSE over[f]]
    BY <2>1 DEF Merge, Specs
  <2>4. spec = [f \in {"version", "config"} |-> spec[f]]
    BY DEF Specs
  <2> QED BY <2>1, <2>2, <2>3, <2>4
<1> QED BY <1>1, <1>2

LEMMA LoneRead ==
  ASSUME TypeOK, Fresh, Refers, HistoryOwned, Owned, Races, Carried, [Next]_vars,
         NEW r \in Requests, GetSettingValues(r), Lone(r), LoneOK(r)
  PROVE  LoneOK(r)'
<1>1. req[r] \in RequestType
  BY BusyType DEF Lone
<1>2. PICK n \in Names : n = req[r].name
  BY <1>1 DEF RequestType
<1>3. /\ req[r].over = None /\ req[r].dep = deployments[n] /\ deployments' = deployments
      /\ req[r].pc = "read"
  BY <1>2 DEF GetSettingValues, Carried, LoneOK, Bound, tables
<1>4. LatestOf(HistoryOf(histories, req[r].dep)) = Latest(n)
  BY <1>3 DEF Latest
<1>5. req[r].wanted = IF Latest(n) = None THEN req[r].rev.spec
                      ELSE Merge(req[r].rev.spec, Resolved(Latest(n).setting.values))
  BY <1>2, <1>3 DEF LoneOK, Aim
<1>6. CASE Latest(n) = None
  <2>1. req[r].rev.spec \in Specs
    BY <1>1 DEF RequestType, Revision
  <2>2. req'[r] = [req[r] EXCEPT !.pc = "record",
                     !.over = DefaultsOverwrites(req[r].rev.spec)]
    BY <1>4, <1>6 DEF GetSettingValues, SettingSource, TypeOK
  <2>3. /\ req'[r].name = n /\ req'[r].rev = req[r].rev /\ req'[r].pc = "record"
        /\ req'[r].over = DefaultsOverwrites(req[r].rev.spec)
        /\ req'[r].wanted = req[r].wanted /\ req'[r].dep = req[r].dep
    BY <1>1, <1>2, <2>2 DEF RequestType
  <2>4. req'[r].over # None
    <3>1. DefaultsOverwrites(req[r].rev.spec) \in Changes \union {NoOverwrites}
      BY <2>1 DEF DefaultsOverwrites, Changes, Specs
    <3> QED BY <2>3, <3>1, ValuesAssumption
  <2>5. req'[r].wanted = Aim(r)'
    BY <1>5, <1>6, <2>1, <2>3, <2>4, DefaultsMerge DEF Aim
  <2> QED BY <1>3, <2>3, <2>5 DEF LoneOK, Stamped, Timed
<1>7. CASE Latest(n) # None
  <2>1. Latest(n).setting.values \in Changes \union Plain \union {NoOverwrites}
    BY <1>7, RowsType DEF History, Setting
  <2>2. req'[r] = [req[r] EXCEPT !.pc = "id", !.over = Latest(n).setting.values,
                                 !.setting = Latest(n).setting]
    BY <1>4, <1>7 DEF GetSettingValues, SettingSource, TypeOK
  <2>3. /\ req'[r].name = n /\ req'[r].rev = req[r].rev /\ req'[r].pc = "id"
        /\ req'[r].over = Latest(n).setting.values
        /\ req'[r].wanted = req[r].wanted /\ req'[r].dep = req[r].dep
    BY <1>1, <1>2, <2>2 DEF RequestType
  <2>4. req'[r].over # None
    BY <2>1, <2>3, ValuesAssumption
  <2>5. req'[r].wanted = Aim(r)'
    BY <1>5, <1>7, <2>3, <2>4 DEF Aim
  <2> QED BY <1>3, <2>3, <2>5 DEF LoneOK, Stamped, Timed
<1> QED BY <1>6, <1>7

LEMMA LoneSetting ==
  ASSUME TypeOK, Refers, NEW r \in Requests, RecordSetting(r), Lone(r), LoneOK(r)
  PROVE  LoneOK(r)'
<1>1. req[r] \in RequestType
  BY BusyType DEF Lone
<1>2. req[r].over # None /\ req[r].dep = deployments[req[r].name]
  BY DEF RecordSetting, Refers, LoneOK, Bound
<1>3. /\ req'[r].name = req[r].name /\ req'[r].rev = req[r].rev /\ req'[r].pc = "id"
      /\ req'[r].over = req[r].over /\ req'[r].wanted = req[r].wanted
      /\ req'[r].dep = req[r].dep /\ deployments' = deployments
  BY <1>1 DEF RecordSetting, TypeOK, RequestType
<1>4. req'[r].wanted = Aim(r)'
  BY <1>2, <1>3 DEF LoneOK, Aim
<1> QED BY <1>2, <1>3, <1>4 DEF LoneOK, Stamped, Timed

(* Its id is above those of the rows of its name.                           *)
LEMMA LoneStamp ==
  ASSUME TypeOK, Fresh, Carried, NEW r \in Requests, NewHistoryID(r), Lone(r), LoneOK(r)
  PROVE  LoneOK(r)'
<1>1. req[r] \in RequestType
  BY BusyType DEF Lone
<1>2. PICK n \in Names : n = req[r].name
  BY <1>1 DEF RequestType
<1>3. req[r].over # None /\ req[r].dep = deployments[n]
  BY <1>2 DEF NewHistoryID, Carried, HasSetting, LoneOK, Bound
<1>4. /\ req'[r].name = n /\ req'[r].rev = req[r].rev /\ req'[r].pc = "time"
      /\ req'[r].over = req[r].over /\ req'[r].wanted = req[r].wanted
      /\ req'[r].dep = req[r].dep /\ req'[r].id = nextID
  BY <1>1, <1>2 DEF NewHistoryID, TypeOK, RequestType
<1>5. deployments' = deployments /\ histories' = histories
  BY DEF NewHistoryID, tables
<1>6. req'[r].wanted = Aim(r)'
  BY <1>3, <1>4 DEF LoneOK, Aim
<1>7. \A h \in Rows(n)' : h.id < req'[r].id
  BY <1>4, <1>5, RowsType DEF Fresh, Rows
<1> QED BY <1>3, <1>4, <1>5, <1>6, <1>7 DEF LoneOK, Timed

(* Its time is no earlier than that of a row, and fewer than Keep rows of   *)
(* its name share its second: nobody else has one to record.                *)
LEMMA LoneMark ==
  ASSUME ~ Crowded, TypeOK, Owned, Races, Past, Carried,
         NEW r \in Requests, MarkCreatedAt(r), Lone(r), LoneOK(r)
  PROVE  LoneOK(r)'
<1>1. req[r] \in RequestType
  BY BusyType DEF Lone
<1>2. PICK n \in Names : n = req[r].name
  BY <1>1 DEF RequestType
<1>3. req[r].over # None /\ req[r].dep = deployments[n]
  BY <1>2 DEF MarkCreatedAt, Carried, HasSetting, LoneOK, Bound
<1>4. /\ req'[r].name = n /\ req'[r].rev = req[r].rev /\ req'[r].pc = "deploy"
      /\ req'[r].over = req[r].over /\ req'[r].wanted = req[r].wanted
      /\ req'[r].dep = req[r].dep /\ req'[r].id = req[r].id /\ req'[r].at = clock
  BY <1>1, <1>2 DEF MarkCreatedAt, TypeOK, RequestType
<1>5. deployments' = deployments /\ histories' = histories
  BY DEF MarkCreatedAt, tables
<1>6. req'[r].wanted = Aim(r)'
  BY <1>3, <1>4 DEF LoneOK, Aim
<1>7. \A h \in Rows(n)' : h.id < req'[r].id /\ h.at <= req'[r].at
  BY <1>2, <1>4, <1>5 DEF LoneOK, Stamped, MarkCreatedAt, Rows, HistoryOf, Past
<1>8. ASSUME NEW q \in Requests
      PROVE  ~ (req[q].pc \in {"deploy", "commit"} /\ req[q].dep = deployments[n])
  <2> SUFFICES ASSUME req[q].pc \in {"deploy", "commit"}, req[q].dep = deployments[n]
               PROVE  FALSE
    OBVIOUS
  <2>1. Busy(q) /\ req[q].name = n
    BY DEF Owned, Bound, Busy
  <2>2. q = r
    BY <1>2, <2>1 DEF Races
  <2> QED BY <2>2 DEF MarkCreatedAt
<1>9. SameSecond(req[r].dep) = SecondsOf(n, clock)
  BY <1>3, <1>8 DEF SameSecond, SecondsOf, Rows
<1>10. Cardinality(SecondsOf(n, req[r].at)') < Keep
  BY <1>4, <1>5, <1>9 DEF MarkCreatedAt, SecondsOf, Rows
<1>11. n = req'[r].name /\ (req'[r].pc = "deploy") /\ req'[r].dep = deployments'[n]
  BY <1>3, <1>4, <1>5
<1>12. (Timed(r) =>
         /\ \A h \in Rows(n) : h.at <= req[r].at
         /\ Cardinality(SecondsOf(n, req[r].at)) < Keep)'
  BY <1>7, <1>10
<1> QED BY <1>6, <1>7, <1>11, <1>12 DEF LoneOK

(* Its row is among the newest: otherwise as many as are kept were of its   *)
(* second, or none was dropped.                                             *)
LEMMA NewestHasRow ==
  ASSUME NEW rows, IsFiniteSet(rows), NEW row \in rows, NEW kept \in Newest(rows),
         row.at \in Nat, Keep \in Nat \ {0},
         \A h \in rows : h.at \in Nat /\ h.at <= row.at,
         Cardinality({h \in rows \ {row} : h.at = row.at}) < Keep
  PROVE  row \in kept
<1> SUFFICES ASSUME row \notin kept
             PROVE  FALSE
  OBVIOUS
<1> DEFINE second == {h \in rows \ {row} : h.at = row.at}
<1>1. /\ kept \subseteq rows
      /\ Cardinality(kept) = IF Cardinality(rows) < Keep THEN Cardinality(rows) ELSE Keep
      /\ \A k \in kept : k.at >= row.at
  BY DEF Newest
<1>2. kept \subseteq second
  BY <1>1
<1>3. second \subseteq rows \ {row} /\ IsFiniteSet(rows \ {row})
  BY FS_Subset
<1>4. IsFiniteSet(second)
  BY <1>3, FS_Subset
<1>5. /\ Cardinality(kept) <= Cardinality(second)
      /\ Cardinality(second) <= Cardinality(rows \ {row})
  BY <1>2, <1>3, <1>4, FS_Subset
<1>6. /\ Cardinality(rows \ {row}) = Cardinality(rows) - 1
      /\ Cardinality(rows) \in Nat /\ Cardinality(second) \in Nat
  BY <1>4, FS_RemoveElement, FS_CardinalityType
<1> HIDE DEF second
<1>7. Cardinality(second) < Keep
  BY DEF second
<1> QED BY <1>1, <1>5, <1>6, <1>7

LEMMA LatestIsGreatest ==
  ASSUME NEW rows \in SUBSET History, NEW row \in rows,
         \A h \in rows \ {row} : h.id < row.id
  PROVE  LatestOf(rows) = row
<1>1. \A h \in rows : h.id \in Nat
  BY DEF History
<1>2. \A other \in rows : other.id <= row.id
  BY <1>1
<1>3. ASSUME NEW h \in rows, \A other \in rows : other.id <= h.id
      PROVE  h = row
  <2> SUFFICES ASSUME h # row PROVE FALSE
    OBVIOUS
  <2>1. h.id < row.id /\ row.id <= h.id
    BY <1>3
  <2> QED BY <1>1, <2>1
<1> QED BY <1>2, <1>3 DEF LatestOf

LEMMA LoneRecord ==
  ASSUME TypeOK, Refers, HistoryOwned, Carried,
         NEW r \in Requests, RecordDeployment(r), Lone(r), LoneOK(r)
  PROVE  LoneOK(r)'
<1>1. req[r] \in RequestType
  BY BusyType DEF Lone
<1>2. PICK n \in Names : n = req[r].name
  BY <1>1 DEF RequestType
<1>3. /\ req[r].over # None /\ req[r].dep = deployments[n]
      /\ \A h \in Rows(n) : h.id < req[r].id /\ h.at <= req[r].at
      /\ Cardinality(SecondsOf(n, req[r].at)) < Keep
  BY <1>2 DEF RecordDeployment, Carried, HasSetting, LoneOK, Bound, Stamped, Timed
<1>4. /\ req'[r].name = n /\ req'[r].rev = req[r].rev /\ req'[r].pc = "commit"
      /\ req'[r].over = req[r].over /\ req'[r].wanted = req[r].wanted
      /\ req'[r].dep = req[r].dep /\ req'[r].id = req[r].id /\ req'[r].at = req[r].at
  BY <1>1, <1>2 DEF RecordDeployment, TypeOK, RequestType
<1>5. deployments' = deployments /\ histories' = histories
  BY DEF RecordDeployment, tables
<1>6. Rows(n)' = Rows(n)
  BY <1>5 DEF Rows
<1>7. req'[r].wanted = Aim(r)'
  BY <1>3, <1>4 DEF LoneOK, Aim
<1>8. (\A h \in Rows(n) : h.id < req[r].id /\ h.at <= req[r].at)'
      /\ (Cardinality(SecondsOf(n, req[r].at)) < Keep)'
  BY <1>3, <1>4, <1>6 DEF SecondsOf
<1>9. Planned(r)'
  BY RecordPlans
<1> QED BY <1>3, <1>4, <1>5, <1>7, <1>8, <1>9 DEF LoneOK

LEMMA LoneCommit ==
  ASSUME TypeOK, Refers, HistoryOwned, HistoryUnique, IsFiniteSet(histories), Carried,
         NEW r \in Requests, CommitDeployment(r), Lone(r), LoneOK(r)
  PROVE  LoneOK(r)'
<1>1. req[r] \in RequestType
  BY BusyType DEF Lone
<1>2. PICK n \in Names : n = req[r].name
  BY <1>1 DEF RequestType
<1>3. /\ req[r].over # None /\ req[r].setting.values = req[r].over
      /\ req[r].dep = deployments[n] /\ Planned(r)
      /\ req[r].wanted = Merge(req[r].rev.spec, Resolved(req[r].over))
  BY <1>2 DEF CommitDeployment, Carried, HasSetting, LoneOK, Bound, Aim
<1>4. /\ req'[r].name = n /\ req'[r].rev = req[r].rev /\ req'[r].pc = "push"
      /\ req'[r].over = req[r].over /\ req'[r].wanted = req[r].wanted
      /\ req'[r].dep = req[r].dep /\ deployments' = deployments
  BY <1>1, <1>2 DEF CommitDeployment, TypeOK, RequestType
<1>5. Row(r) \in History
  BY RowType DEF CommitDeployment
<1>6. /\ Row(r).id = req[r].id /\ Row(r).at = req[r].at
      /\ Row(r).rev = req[r].rev /\ Row(r).setting = req[r].setting
  BY DEF Row
<1> DEFINE row == Row(r)
           rows == {h \in Rows(n) : ~ SamePair(h, row)} \union {row}
<1>7. NewRows(r) = rows
  BY <1>3 DEF NewRows, Rows
<1> HIDE DEF row
<1>8. Rows(n)' \in Newest(rows)
  <2>1. PICK kept \in Newest(NewRows(r)) : req[r].dropped = {Pair(h) : h \in NewRows(r) \ kept}
    BY <1>3 DEF Planned
  <2>2. HistoryOf(histories', req[r].dep) = kept
    BY <2>1, RecordedOf, PlanKeeps
  <2> QED BY <1>3, <1>4, <1>7, <2>1, <2>2 DEF Rows
<1>9. /\ \A h \in Rows(n) : h.id < req[r].id /\ h.at <= req[r].at
      /\ Cardinality(SecondsOf(n, req[r].at)) < Keep
  BY <1>2 DEF CommitDeployment, LoneOK, Stamped, Timed
<1>10. Rows(n) \subseteq histories /\ Rows(n) \in SUBSET History
  BY DEF Rows, HistoryOf, TypeOK
<1>11. IsFiniteSet(Rows(n)) /\ IsFiniteSet(rows)
  <2>1. IsFiniteSet(Rows(n))
    BY <1>10, FS_Subset
  <2>2. IsFiniteSet({h \in Rows(n) : ~ SamePair(h, row)})
    BY <2>1, FS_Subset
  <2> QED BY <2>1, <2>2, FS_AddElement
<1>12. rows \in SUBSET History /\ row \in History /\ row \in rows
  BY <1>5, <1>10 DEF row
<1>13. Cardinality({h \in rows \ {row} : h.at = row.at}) < Keep
  <2>1. {h \in rows \ {row} : h.at = row.at} \subseteq SecondsOf(n, req[r].at)
    BY <1>6 DEF SecondsOf, row
  <2>2. IsFiniteSet(SecondsOf(n, req[r].at))
    BY <1>11, FS_Subset DEF SecondsOf
  <2>3. /\ Cardinality({h \in rows \ {row} : h.at = row.at})
             <= Cardinality(SecondsOf(n, req[r].at))
        /\ Cardinality({h \in rows \ {row} : h.at = row.at}) \in Nat
        /\ Cardinality(SecondsOf(n, req[r].at)) \in Nat
    BY <2>1, <2>2, FS_Subset, FS_CardinalityType
  <2> HIDE DEF rows
  <2> QED BY <1>9, <2>3, ParametersAssumption
<1>14. /\ row.at \in Nat /\ Keep \in Nat \ {0}
       /\ \A h \in rows : h.at \in Nat /\ h.at <= row.at
  <2>1. \A h \in History : h.at \in Nat
    BY ParametersAssumption DEF History
  <2>2. \A h \in Rows(n) : h.at <= row.at
    BY <1>6, <1>9 DEF row
  <2>3. \A h \in rows : h.at \in Nat
    BY <1>12, <2>1
  <2> QED BY <1>12, <2>2, <2>3, ParametersAssumption
<1>15. row \in Rows(n)' /\ Rows(n)' \subseteq rows /\ Cardinality(Rows(n)') <= Keep
  <2>1. rows # {}
    BY <1>12
  <2> HIDE DEF rows
  <2> QED BY <1>8, <1>11, <1>12, <1>13, <1>14, <2>1, NewestHasRow, KeptSize
<1>16. Latest(n)' = row
  <2>1. \A h \in rows \ {row} : h.id < row.id
    BY <1>6, <1>9 DEF row
  <2>2. Rows(n)' \in SUBSET History /\ \A h \in Rows(n)' \ {row} : h.id < row.id
    BY <1>12, <1>15, <2>1
  <2>3. LatestOf(Rows(n)') = row
    BY <1>15, <2>2, LatestIsGreatest
  <2> QED BY <2>3 DEF Latest, Rows
<1>17. Live(r, n)'
  <2>1. row # None
    BY <1>12, RowsAssumption
  <2> QED BY <1>3, <1>4, <1>6, <1>15, <1>16, <2>1 DEF Live, row
<1>18. req'[r].wanted = Aim(r)'
  BY <1>3, <1>4 DEF Aim
<1> QED BY <1>3, <1>4, <1>17, <1>18 DEF LoneOK, Stamped, Timed

LEMMA LoneStep ==
  ASSUME ~ Crowded, TypeOK, Fresh, Refers, HistoryOwned, HistoryUnique,
         IsFiniteSet(histories), Owned, Races, Past, Carried, LonePuts, [Next]_vars
  PROVE  LonePuts'
<1> SUFFICES ASSUME NEW r \in Requests, Lone(r)'
             PROVE  LoneOK(r)'
  BY DEF LonePuts, Lone, Busy
<1>1. CASE ~ PutNext(r)
  BY <1>1, LoneOthers
<1>2. CASE PutKubepkg(r)
  BY <1>2, LonePut
<1>3. CASE PutGroupEnvDeployment(r) \/ PutFails(r)
  <2>1. ~ Busy(r)'
    BY <1>3 DEF PutGroupEnvDeployment, PutFails, Done, Finished, Busy, TypeOK
  <2> QED BY <2>1 DEF Lone
<1>4. CASE PutNext(r) /\ ~ (PutKubepkg(r) \/ PutGroupEnvDeployment(r) \/ PutFails(r))
  <2>1. Lone(r) /\ LoneOK(r)
    BY <1>4, OwnKept DEF Lone, LonePuts
  <2> QED BY <1>4, <2>1, LoneBind, LoneRead, LoneSetting, LoneStamp, LoneMark, LoneRecord,
               LoneCommit DEF PutNext
<1> QED BY <1>1, <1>2, <1>3, <1>4

-----------------------------------------------------------------------------
(* The cluster.  Between what a lone request records and what it pushes the *)
(* cluster is behind; a deletion alone on its name has emptied it.          *)

Pushing(n) == \E r \in BusyOn(n) : req[r].pc = "push"

Running(n) == IF ListedPlain(n) THEN Latest(n).rev.spec ELSE Listed(n)

ClusterOf(n) ==
  /\ deleting[n] = "lone" => cluster[n] = None
  /\ n \notin raced /\ deleting[n] = "no" /\ ~ Pushing(n) => cluster[n] = Running(n)

ClusterOK == Linked => \A n \in Names : ClusterOf(n)

LEMMA ClusterKept ==
  ASSUME NEW n \in Names, ClusterOf(n), cluster'[n] = cluster[n], Rows(n)' = Rows(n),
         n \notin raced' => n \notin raced,
         deleting'[n] # "raced" => deleting'[n] = deleting[n],
         \A q \in Requests : Busy(q) /\ req[q].name = n /\ req[q].pc = "push" =>
           Busy(q)' /\ req'[q].name = n /\ req'[q].pc = "push"
  PROVE  ClusterOf(n)'
<1>1. Running(n)' = Running(n)
  BY ListedKept DEF Running
<1>2. Pushing(n) => Pushing(n)'
  BY DEF Pushing, BusyOn
<1> QED BY <1>1, <1>2 DEF ClusterOf

LEMMA ClusterPush ==
  ASSUME TypeOK, Owned, Refers, HistoryOwned, Races, Carried, LonePuts, Linked,
         NEW n \in Names, ClusterOf(n), [Next]_vars,
         NEW r \in Requests, PutGroupEnvDeployment(r)
  PROVE  ClusterOf(n)'
<1>1. req[r] \in RequestType /\ Busy(r) /\ req[r].pc = "push"
  BY BusyType DEF PutGroupEnvDeployment, Busy
<1>2. Rows(n)' = Rows(n) /\ deleting' = deleting
  BY DEF PutGroupEnvDeployment, tables, Rows
<1>3. \A q \in Requests \ {r} : req'[q] = req[q]
  BY DEF PutGroupEnvDeployment, Done, TypeOK
<1>4. CASE req[r].name # n
  <2>1. cluster'[n] = cluster[n]
    BY <1>1, <1>4 DEF PutGroupEnvDeployment, TypeOK, RequestType
  <2>2. n \notin raced' => n \notin raced
    BY <1>4 DEF PutGroupEnvDeployment
  <2> QED BY <1>2, <1>3, <1>4, <2>1, <2>2, ClusterKept DEF Busy
<1>5. CASE req[r].name = n /\ req[r].lone
  <2>1. Lone(r) /\ LoneOK(r)
    BY <1>1, <1>5 DEF Lone, LonePuts
  <2>2. Running(n) = Merge(req[r].rev.spec, req[r].over)
    <3>1. Live(r, n)
      BY <1>1, <1>5, <2>1 DEF LoneOK
    <3> QED BY <3>1, PushedIsListed DEF Live, Running, ListedPlain, Listed
  <2>3. cluster'[n] = Merge(req[r].rev.spec, req[r].over)
    BY <1>5 DEF PutGroupEnvDeployment, Pushed, TypeOK
  <2>4. Running(n)' = Running(n)
    BY <1>2, ListedKept DEF Running
  <2>5. deleting[n] = "no"
    BY <1>5, <2>1 DEF Races
  <2> QED BY <1>2, <2>2, <2>3, <2>4, <2>5 DEF ClusterOf
<1>6. CASE req[r].name = n /\ ~ req[r].lone
  <2>1. n \in raced /\ raced' = raced
    BY <1>1, <1>6 DEF Races, BusyOn, PutGroupEnvDeployment
  <2>2. deleting[n] = "lone" => BusyOn(n) = {}
    BY DEF Races
  <2>3. deleting[n] # "lone"
    BY <1>1, <1>6, <2>2 DEF BusyOn
  <2> QED BY <1>2, <2>1, <2>3 DEF ClusterOf
<1> QED BY <1>4, <1>5, <1>6

(* A step of a request is not one of another or of a deletion. *)
LEMMA OneStep ==
  ASSUME TypeOK, NEW r \in Requests, PutNext(r)
  PROVE  /\ \A q \in Requests \ {r} : ~ CommitDeployment(q)
         /\ \A n \in Names : ~ DeleteDeployment(n)
<1>1. req'[r].pc # req[r].pc
  <2>1. CASE PutKubepkg(r)
    BY <2>1 DEF PutKubepkg, PutWith, Arrive
  <2>2. CASE PutGroupEnvDeployment(r) \/ PutFails(r)
    BY <2>2 DEF PutGroupEnvDeployment, PutFails, Done, Finished, Busy, TypeOK
  <2>3. CASE PutNext(r) /\ ~ (PutKubepkg(r) \/ PutGroupEnvDeployment(r) \/ PutFails(r))
    <3>1. req[r] \in RequestType
      BY <2>3, OwnKept, BusyType
    <3>2. CASE GetSettingValues(r)
      BY <3>1, <3>2 DEF GetSettingValues, TypeOK, RequestType
    <3>3. CASE ~ GetSettingValues(r)
      BY <2>3, <3>1, <3>3 DEF PutNext, BindKubepkg, RecordSetting, NewHistoryID,
         MarkCreatedAt, RecordDeployment, CommitDeployment, TypeOK, RequestType
    <3> QED BY <3>2, <3>3
  <2> QED BY <2>1, <2>2, <2>3
<1>2. ASSUME NEW q \in Requests \ {r}, CommitDeployment(q)
      PROVE  FALSE
  BY <1>1, <1>2 DEF CommitDeployment, TypeOK
<1>3. ASSUME NEW n \in Names, DeleteDeployment(n)
      PROVE  FALSE
  BY <1>1, <1>3 DEF DeleteDeployment
<1> QED BY <1>2, <1>3

LEMMA ClusterPut ==
  ASSUME TypeOK, Owned, Refers, HistoryOwned, NEW n \in Names, ClusterOf(n), [Next]_vars,
         NEW r \in Requests, PutNext(r), ~ PutGroupEnvDeployment(r)
  PROVE  ClusterOf(n)'
<1>1. cluster' = cluster /\ raced \subseteq raced'
  <2>1. CASE PutKubepkg(r)
    BY <2>1 DEF PutKubepkg, PutWith, Arrive
  <2>2. CASE ~ PutKubepkg(r)
    BY <2>2 DEF PutNext, BindKubepkg, GetSettingValues, RecordSetting, NewHistoryID,
       MarkCreatedAt, RecordDeployment, CommitDeployment, PutFails
  <2> QED BY <2>1, <2>2
<1>2. deleting'[n] # "raced" => deleting'[n] = deleting[n]
  <2>1. CASE PutKubepkg(r)
    <3>1. PICK m, record : Arrive(r, m, record)
      BY <2>1 DEF PutKubepkg, PutWith
    <3> QED BY <3>1 DEF Arrive, TypeOK
  <2>2. CASE ~ PutKubepkg(r)
    BY <2>2 DEF PutNext, BindKubepkg, GetSettingValues, RecordSetting, NewHistoryID,
       MarkCreatedAt, RecordDeployment, CommitDeployment, PutFails
  <2> QED BY <2>1, <2>2
<1>3. ASSUME NEW q \in Requests \ {r}, Busy(q)
      PROVE  Busy(q)' /\ req'[q].name = req[q].name /\ req'[q].pc = req[q].pc
  BY <1>3, OthersStill, StillFields DEF Busy
<1>4. CASE CommitDeployment(r) /\ req[r].name = n
  <2>1. req[r] \in RequestType
    BY <1>4, BusyType DEF CommitDeployment, Busy
  <2>2. req'[r].pc = "push" /\ req'[r].name = n
    BY <1>4, <2>1 DEF CommitDeployment, TypeOK, RequestType
  <2>3. Pushing(n)' /\ deleting' = deleting
    BY <1>4, <2>2 DEF Pushing, BusyOn, Busy, CommitDeployment
  <2> QED BY <1>1, <2>3 DEF ClusterOf
<1>5. CASE PutFails(r) /\ req[r].pc = "push" /\ req[r].name = n
  <2>1. n \in raced' /\ deleting' = deleting
    BY <1>5 DEF PutFails
  <2> QED BY <1>1, <2>1 DEF ClusterOf
<1>6. CASE ~ (CommitDeployment(r) /\ req[r].name = n)
           /\ ~ (PutFails(r) /\ req[r].pc = "push" /\ req[r].name = n)
  <2>1. Rows(n)' = Rows(n)
    <3>1. \A q \in Requests : CommitDeployment(q) => req[q].name # n
      BY <1>6, OneStep
    <3> QED BY <3>1, OneStep, RowsKept
  <2>2. ~ (req[r].pc = "push" /\ req[r].name = n)
    BY <1>6 DEF PutNext, PutKubepkg, BindKubepkg, GetSettingValues, RecordSetting,
       NewHistoryID, MarkCreatedAt, RecordDeployment, CommitDeployment
  <2> QED BY <1>1, <1>2, <1>3, <2>1, <2>2, ClusterKept
<1> QED BY <1>4, <1>5, <1>6

LEMMA ClusterDelete ==
  ASSUME TypeOK, Owned, Refers, HistoryOwned, Races, Linked, NEW n \in Names,
         ClusterOf(n), NEW m \in Names, DeleteNext(m)
  PROVE  ClusterOf(n)'
<1>0. histories' = histories
  BY DEF DeleteNext, DeleteBegin, DeleteDeployment, DeleteFails, tables
<1>1. CASE m # n
  <2>1. /\ cluster'[n] = cluster[n] /\ deployments'[n] = deployments[n]
        /\ n \notin raced' => n \notin raced
        /\ deleting'[n] = deleting[n]
    <3>1. CASE DeleteBegin(m)
      BY <1>1, <3>1 DEF DeleteBegin, ClusterWithout, TypeOK, tables
    <3>2. CASE DeleteDeployment(m)
      BY <1>1, <3>2 DEF DeleteDeployment, TypeOK
    <3>3. CASE DeleteFails(m)
      BY <1>1, <3>3 DEF DeleteFails, TypeOK, tables
    <3> QED BY <3>1, <3>2, <3>3 DEF DeleteNext
  <2>2. Rows(n)' = Rows(n)
    BY <1>0, <2>1 DEF Rows
  <2>3. \A q \in Requests : Busy(q) =>
          Busy(q)' /\ req'[q].name = req[q].name /\ req'[q].pc = req[q].pc
    BY ElsewhereStill, StillFields DEF Busy
  <2> QED BY <2>1, <2>2, <2>3, ClusterKept
<1>2. CASE m = n /\ DeleteBegin(n)
  <2>1. \/ cluster' = ClusterWithout(n) /\ deleting'[n] = "lone"
        \/ deleting'[n] = "raced"
    BY <1>2 DEF DeleteBegin, TypeOK
  <2> QED BY <2>1 DEF ClusterOf, ClusterWithout, TypeOK
<1>3. CASE m = n /\ DeleteDeployment(n)
  <2>1. deleting'[n] = "no" /\ deployments'[n] = 0 /\ cluster' = cluster
    BY <1>3 DEF DeleteDeployment, TypeOK
  <2>2. CASE deleting[n] = "lone"
    <3>1. Rows(n)' = {}
      BY <1>0, <2>1 DEF Rows, HistoryOf, Owned
    <3>2. Running(n)' = None
      BY <3>1 DEF Running, ListedPlain, Listed, Latest, LatestOf, Rows
    <3> QED BY <2>1, <2>2, <3>2 DEF ClusterOf
  <2>3. CASE deleting[n] # "lone"
    <3>1. n \in raced /\ raced' = raced
      BY <1>3, <2>3 DEF DeleteDeployment, Races, TypeOK
    <3> QED BY <2>1, <3>1 DEF ClusterOf
  <2> QED BY <2>2, <2>3
<1>4. CASE m = n /\ DeleteFails(n)
  BY <1>4 DEF DeleteFails, ClusterOf, TypeOK
<1> QED BY <1>1, <1>2, <1>3, <1>4 DEF DeleteNext

LEMMA ClusterStep ==
  ASSUME TypeOK, Owned, Refers, HistoryOwned, Races, Carried, LonePuts, ClusterOK, [Next]_vars
  PROVE  ClusterOK'
<1> SUFFICES ASSUME Linked, NEW n \in Names
             PROVE  ClusterOf(n)'
  BY DEF ClusterOK
<1>1. ClusterOf(n)
  BY DEF ClusterOK
<1>2. CASE VersionNext \/ Tick \/ UNCHANGED vars
  <2>1. UNCHANGED <<cluster, deployments, histories, req, deleting, raced>>
    BY <1>2 DEF VersionNext, PutVersion, DeleteVersion, Tick, vars, tables
  <2> QED BY <1>1, <2>1, ClusterKept DEF Rows, Busy
<1> QED BY <1>1, <1>2, ClusterPush, ClusterPut, ClusterDelete DEF Next

-----------------------------------------------------------------------------
EInv == IInv /\ Owned /\ Races /\ Past /\ Carried /\ LonePuts /\ ClusterOK

LEMMA InitEInv == Init => EInv
<1> SUFFICES ASSUME Init PROVE EInv
  OBVIOUS
<1>1. \A r \in Requests : req[r].pc = "idle" /\ ~ Busy(r)
  BY DEF Init, Idle, Busy
<1>2. histories = {} /\ \A n \in Names : deployments[n] = 0 /\ deleting[n] = "no"
  BY DEF Init
<1>3. Owned /\ Past
  BY <1>1, <1>2 DEF Init, Owned, Past, Timed, Bound
<1>4. Races /\ Carried /\ LonePuts
  BY <1>1, <1>2 DEF Races, Carried, LonePuts, Lone, BusyOn, HasSetting
<1>5. ClusterOK
  BY <1>2 DEF Init, ClusterOK, ClusterOf, Running, ListedPlain, Listed, Latest, LatestOf,
     HistoryOf
<1> QED BY <1>3, <1>4, <1>5, InitIInv DEF EInv

LEMMA StepEInv ==
  ASSUME ~ Crowded, EInv, [Next]_vars
  PROVE  EInv'
<1>1. /\ TypeOK /\ Fresh /\ Refers /\ HistoryOwned /\ HistoryUnique
      /\ IsFiniteSet(histories) /\ Owned /\ Races /\ Past /\ Carried /\ LonePuts /\ ClusterOK
  BY DEF EInv, IInv, HistoryConsistent
<1>2. IInv'
  BY StepIInv DEF EInv
<1>3. Owned' /\ Races' /\ Past'
  BY <1>1, OwnedStep, RacesStep, PastStep
<1>4. Carried' /\ LonePuts' /\ ClusterOK'
  BY <1>1, CarriedStep, LoneStep, ClusterStep
<1> QED BY <1>2, <1>3, <1>4 DEF EInv

(* A PUT that no other request on its name overlaps has what it asked for   *)
(* listed once its deployment is recorded, and no more than Keep rows left, *)
(* whatever other puts, deletions and failures came before and however many *)
(* run on other names, if no more than Keep deployments of a name are       *)
(* recorded in one second (BindKubepkg to CommitDeployment, ListKubepkg).   *)
THEOREM LonePutTakesEffect ==
  ASSUME ~ Crowded
  PROVE  Spec => []PutTakesEffect
<1>1. Init => EInv
  BY InitEInv
<1>2. EInv /\ [Next]_vars => EInv'
  BY StepEInv
<1>3. ASSUME EInv
      PROVE  PutTakesEffect
  <2> SUFFICES ASSUME NEW r \in Requests, req[r].pc = "push", req[r].lone
               PROVE  /\ Listed(req[r].name) = req[r].wanted
                      /\ Cardinality(HistoryOf(histories, req[r].dep)) <= Keep
    BY DEF PutTakesEffect
  <2>1. LoneOK(r)
    BY <1>3 DEF EInv, LonePuts, Lone, Busy
  <2>2. /\ Live(r, req[r].name) /\ req[r].dep = deployments[req[r].name]
        /\ req[r].wanted = Aim(r)
    BY <2>1 DEF LoneOK, Bound
  <2>3. req[r].over # None
    BY <1>3 DEF EInv, Carried, HasSetting
  <2> QED BY <2>2, <2>3 DEF Live, Listed, Aim, Rows
<1> QED BY <1>1, <1>2, <1>3, PTL DEF Spec

(* Of a name that no request is under way on, and where none raced or       *)
(* failed since the last lone one, the cluster runs what ListKubepkg lists, *)
(* or the stored spec when its setting has no "spec", under the same        *)
(* condition (PutGroupEnvDeployment, DeleteGroupEnvDeployment).             *)
THEOREM ClusterRunsWhatIsListed ==
  ASSUME ~ Crowded
  PROVE  Spec => []ClusterRunsListed
<1>1. Init => EInv
  BY InitEInv
<1>2. EInv /\ [Next]_vars => EInv'
  BY StepEInv
<1>3. EInv => ClusterRunsListed
  BY DEF EInv, ClusterOK, ClusterOf, Running, Pushing, ClusterRunsListed
<1> QED BY <1>1, <1>2, <1>3, PTL DEF Spec

-----------------------------------------------------------------------------
(* The abstract state, as Abstract instantiates it. *)
LatestEntry(n) == IF Latest(n) = None THEN None ELSE Entry(Latest(n))
AllRecorded == [n \in Names |-> Recorded(n)]
AllLatest == [n \in Names |-> LatestEntry(n)]

LEMMA RecordedOfRows ==
  ASSUME NEW n \in Names
  PROVE  /\ Recorded(n) = {Entry(h) : h \in Rows(n)}
         /\ Recorded(n)' = {Entry(h) : h \in Rows(n)'}
BY DEF Recorded, Rows, Entry

LEMMA NameKept ==
  ASSUME NEW n \in Names, Rows(n)' = Rows(n)
  PROVE  Recorded(n)' = Recorded(n) /\ LatestEntry(n)' = LatestEntry(n)
BY ListedKept, RecordedOfRows DEF LatestEntry, Entry

(* What is left of the others is what the abstract steps ask for. *)
LEMMA OnlyOne ==
  ASSUME NEW n \in Names, \A m \in Names \ {n} : Rows(m)' = Rows(m)
  PROVE  Abstract!Only(n)
<1>1. \A m \in Names \ {n} :
        Recorded(m)' = Recorded(m) /\ LatestEntry(m)' = LatestEntry(m)
  BY NameKept
<1>2. AllRecorded' = [AllRecorded EXCEPT ![n] = AllRecorded'[n]]
  BY <1>1 DEF AllRecorded
<1>3. AllLatest' = [AllLatest EXCEPT ![n] = AllLatest'[n]]
  BY <1>1 DEF AllLatest
<1> QED BY <1>2, <1>3 DEF Abstract!Only, AllRecorded, AllLatest, LatestEntry

LEMMA ForgetStep ==
  ASSUME Owned, NEW n \in Names, DeleteDeployment(n), TypeOK
  PROVE  Abstract!Forget(n)
<1>1. histories' = histories /\ deployments' = [deployments EXCEPT ![n] = 0]
  BY DEF DeleteDeployment
<1>2. Rows(n)' = {}
  BY <1>1 DEF Rows, HistoryOf, Owned, TypeOK
<1>3. \A m \in Names \ {n} : Rows(m)' = Rows(m)
  BY <1>1 DEF Rows, HistoryOf, TypeOK
<1>4. Recorded(n)' = {}
  BY <1>2, RecordedOfRows
<1>5. LatestEntry(n)' = None
  BY <1>2 DEF LatestEntry, Latest, LatestOf, Rows
<1>6. AllRecorded'[n] = {} /\ AllLatest'[n] = None
  BY <1>4, <1>5 DEF AllRecorded, AllLatest
<1>7. Abstract!Only(n)
  BY <1>3, OnlyOne
<1> QED BY <1>6, <1>7 DEF Abstract!Forget, AllRecorded, AllLatest, LatestEntry

(* A commit records an entry, or forgets them all when it drops its row and *)
(* others have dropped the rest.                                            *)
LEMMA RecordStep ==
  ASSUME IInv, IInv', Owned, NEW r \in Requests, CommitDeployment(r), NEW n \in Names,
         deployments[n] = req[r].dep
  PROVE  Abstract!Record(n) \/ Abstract!Forget(n)
<1>1. /\ TypeOK /\ Refers /\ HistoryOwned /\ TypeOK' /\ Fresh'
  BY DEF IInv, HistoryConsistent
<1>2. deployments' = deployments
  BY DEF CommitDeployment
<1>3. /\ Rows(n)' \subseteq Rows(n) \union {Row(r)}
      /\ \A m \in Names \ {n} : deployments[m] # deployments[n] => Rows(m)' = Rows(m)
  BY <1>1, <1>2, RecordedOf DEF Rows, NewRows
<1>4. Abstract!Only(n)
  <2>1. \A m \in Names \ {n} : deployments[m] # deployments[n]
    <3>1. 0 < req[r].dep
      BY DEF Owned, Bound, CommitDeployment
    <3>2. \A m \in Names : deployments[m] \in Nat
      BY <1>1 DEF TypeOK
    <3> QED BY <3>1, <3>2 DEF Owned
  <2>2. \A m \in Names \ {n} : Rows(m)' = Rows(m)
    BY <1>3, <2>1
  <2> QED BY <2>2, OnlyOne
<1>5. AllRecorded'[n] = Recorded(n)' /\ AllRecorded[n] = Recorded(n)
      /\ AllLatest'[n] = LatestEntry(n)'
  BY DEF AllRecorded, AllLatest
<1>6. (Rows(n) = {} <=> Latest(n) = None)' /\ (Latest(n) # None => Latest(n) \in Rows(n))'
  BY <1>1, RowsType, PTL
<1>7. CASE Rows(n)' = {}
  <2>1. Recorded(n)' = {} /\ LatestEntry(n)' = None
    BY <1>6, <1>7, RecordedOfRows DEF LatestEntry
  <2> QED BY <1>4, <1>5, <2>1 DEF Abstract!Forget, AllRecorded, AllLatest, LatestEntry
<1>8. CASE Rows(n)' # {}
  <2>1. LatestEntry(n)' \in Recorded(n)'
    <3>1. Latest(n)' # None /\ Latest(n)' \in Rows(n)'
      BY <1>6, <1>8
    <3>2. LatestEntry(n)' = Entry(Latest(n)')
      BY <3>1 DEF LatestEntry, Entry
    <3> QED BY <3>1, <3>2, RecordedOfRows
  <2>2. \E e \in Recorded(n)' : Recorded(n)' \subseteq Recorded(n) \union {e}
    <3>1. CASE Row(r) \in Rows(n)'
      <4>1. Entry(Row(r)) \in Recorded(n)'
        BY <3>1, RecordedOfRows
      <4>2. Recorded(n)' \subseteq Recorded(n) \union {Entry(Row(r))}
        BY <1>3, RecordedOfRows
      <4> QED BY <4>1, <4>2
    <3>2. CASE Row(r) \notin Rows(n)'
      <4>1. Rows(n)' \subseteq Rows(n)
        BY <1>3, <3>2
      <4>2. Recorded(n)' \subseteq Recorded(n)
        BY <4>1, RecordedOfRows
      <4> QED BY <2>1, <4>2
    <3> QED BY <3>1, <3>2
  <2>3. /\ AllLatest'[n] \in AllRecorded'[n]
        /\ \E e \in AllRecorded'[n] : AllRecorded'[n] \subseteq AllRecorded[n] \union {e}
    BY <1>5, <2>1, <2>2
  <2> QED BY <1>4, <2>3 DEF Abstract!Record, AllRecorded, AllLatest, LatestEntry
<1> QED BY <1>7, <1>8

(* Every step is an abstract one or a stutter. *)
LEMMA StepRefines ==
  ASSUME IInv, IInv', Owned, [Next]_vars
  PROVE  [Abstract!Next]_<<AllRecorded, AllLatest>>
<1>1. TypeOK /\ Refers /\ HistoryOwned
  BY DEF IInv, HistoryConsistent
<1>2. ASSUME NEW n \in Names, DeleteDeployment(n)
      PROVE  Abstract!Next
  BY <1>1, <1>2, ForgetStep DEF Abstract!Next
<1>3. ASSUME NEW r \in Requests, CommitDeployment(r), NEW n \in Names,
             deployments[n] = req[r].dep
      PROVE  Abstract!Next
  BY <1>3, RecordStep DEF Abstract!Next
<1>4. ASSUME \A n \in Names : Rows(n)' = Rows(n)
      PROVE  UNCHANGED <<AllRecorded, AllLatest>>
  BY <1>4, NameKept DEF AllRecorded, AllLatest
<1>5. CASE \E r \in Requests : /\ CommitDeployment(r)
                               /\ \A n \in Names : deployments[n] # req[r].dep
  BY <1>1, <1>4, <1>5, RecordedOf DEF CommitDeployment, Rows
<1>6. CASE /\ \A r \in Requests : ~ CommitDeployment(r)
           /\ \A n \in Names : ~ DeleteDeployment(n)
  BY <1>1, <1>4, <1>6, RowsKept
<1> QED BY <1>2, <1>3, <1>5, <1>6

LEMMA OwnedIsInvariant == Spec => [](IInv /\ Owned)
<1>1. Init => IInv /\ Owned
  BY InitEInv DEF EInv
<1>2. IInv /\ Owned /\ [Next]_vars => (IInv /\ Owned)'
  BY StepIInv, OwnedStep DEF IInv, HistoryConsistent
<1> QED BY <1>1, <1>2, PTL DEF Spec

(* However the transactions of PUTs and deletions interleave and fail, the  *)
(* history of a name changes as DeploymentHistory allows: a recorded entry  *)
(* comes with a latest one, a deletion forgets all, a name is never given   *)
(* the history of another, nor what was recorded for it before its deletion *)
(* (BindKubepkg, CommitDeployment, DeleteDeployment).                       *)
THEOREM HistoryIsImplemented == Spec => ImplementsHistory
<1>1. Init => Abstract!Init
  BY DEF Init, Abstract!Init, Recorded, Latest, LatestOf, HistoryOf
<1>2. IInv /\ Owned /\ (IInv /\ Owned)' /\ [Next]_vars =>
        [Abstract!Next]_<<AllRecorded, AllLatest>>
  BY StepRefines
<1>3. [Abstract!Next]_<<AllRecorded, AllLatest>> =>
        [Abstract!Next]_<<[n \in Names |-> Recorded(n)],
                          [n \in Names |-> IF Latest(n) = None THEN None
                                           ELSE Entry(Latest(n))]>>
  BY DEF AllRecorded, AllLatest, LatestEntry
<1> QED BY <1>1, <1>2, <1>3, OwnedIsInvariant, PTL
      DEF Spec, ImplementsHistory, Abstract!Spec
================================================================================
