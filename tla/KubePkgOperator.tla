--------------------------- MODULE KubePkgOperator ---------------------------
(***************************************************************************)
(* The KubePkg operator (src/pkg/kubepkg/controller) around one KubePkg:   *)
(* the apply reconciler that turns its spec into configs and workloads,    *)
(* and the two reload reconcilers that stamp the hash of a ConfigMap's or  *)
(* Secret's data on the pod template of every workload that mounts it.     *)
(*                                                                         *)
(* An object of the API server is the sequence of its resource versions:   *)
(* the last one is the live object, and an informer cache is an index into *)
(* the sequence, which deliveries move one version at a time.  A           *)
(* reconciler reads either the live object or a cache, and acts on what it *)
(* read some steps later.                                                  *)
(*                                                                         *)
(* A config's data stands for its own hash: the hash of the code is        *)
(* SHA-256 of the data, and only equality of hashes is ever used.          *)
(***************************************************************************)
EXTENDS Naturals, Sequences, FiniteSets

CONSTANTS
  Workloads,    \* workloads the KubePkg's manifests contain
  Configs,      \* ConfigMaps and Secrets the workloads mount
  Secrets,      \* the configs that are Secrets
  Owned,        \* the configs that are manifests of the KubePkg itself
  SelfNamed,    \* owned configs that have the KubePkg's own name
  Watched,      \* configs annotated reload.octohelm.tech: "enabled"
  UserLabels,   \* app-name labels users create their configs with
  Refs,         \* [Workloads -> SUBSET Configs], the mounts
  WorkloadKinds,\* the kinds of workloads, in the order they are listed
  KindOf,       \* [Workloads -> kind]
  Images,       \* what, besides config data, a new KubePkg spec changes
  Orders,       \* orders an extraction may list volumes and mounts in
  Data,         \* contents of a config
  EmptyData,    \* the content whose hash Extract computes for a Secret
  None,         \* no hash, no object
  MaxEdits,     \* bound on what users do: edits and deletions
  MaxFaults     \* bound on failed calls, operator restarts and extractions in
                \* an order other than the live object's

ReloadKinds == {"ConfigMap", "Secret"}
Labels == {"none", "self", "other"}
KindNames == {"Deployment", "StatefulSet", "DaemonSet"}

Manifests == Owned \union Workloads
External == Configs \ Owned

ASSUME ConfigsAssumption ==
  /\ Secrets \subseteq Configs /\ Owned \subseteq Configs
  /\ SelfNamed \subseteq Owned /\ Watched \subseteq Configs
  /\ Workloads \intersect Configs = {}
  /\ UserLabels \subseteq Labels

ASSUME WorkloadsAssumption ==
  /\ Refs \in [Workloads -> SUBSET Configs]
  /\ WorkloadKinds \in Seq(KindNames)
  /\ \A w \in Workloads : \E i \in DOMAIN WorkloadKinds : WorkloadKinds[i] = KindOf[w]

ASSUME ValuesAssumption ==
  /\ EmptyData \notin Data /\ None \notin Data /\ EmptyData # None
  /\ None \notin Configs \union Workloads
  /\ Images # {} /\ Data # {} /\ Orders # {}

ASSUME BoundsAssumption == MaxEdits \in Nat /\ MaxFaults \in Nat

VARIABLES
  kpkg,        \* generations of the KubePkg's spec
  kpkgSeen,    \* the generation in the operator's cache
  config,      \* [Configs -> resource versions]
  configSeen,  \* [Configs -> the version in the typed cache]
  workload,    \* [Workloads -> resource versions]
  typedSeen,   \* [Workloads -> the version in the typed cache]
  metaSeen,    \* [Manifests -> the version in the metadata-only cache]
  applyQueue,  \* is the KubePkg in the apply controller's work queue
  reloadQueue, \* configs in the reload controllers' work queues
  apply,       \* the worker of the apply controller
  reload,      \* [ReloadKinds -> the worker of that reload controller]
  edits,       \* user actions so far
  faults,      \* failures so far
  behind       \* history: <<w, c>> whose last reload listed a stale w

store == <<kpkg, config, workload>>
caches == <<kpkgSeen, configSeen, typedSeen, metaSeen>>
queues == <<applyQueue, reloadQueue>>
workers == <<apply, reload>>
bounds == <<edits, faults>>
vars == <<store, caches, queues, workers, bounds, behind>>

-----------------------------------------------------------------------------
(* Values. *)

Hashes == Data \union {EmptyData, None}
SpecValue == [image: Images, data: [Owned -> Data]]

\* mark is the annotation reload.octohelm.tech/hash; label is the app-name
\* label: the config's own name, another one, or absent.  Another one is the
\* KubePkg's name on a config of its own, and a name nothing has on a user's.
ConfigValue == [data: Data, mark: Data \union {None}, label: Labels]

\* hash[c] is the annotation hash.<kind>.octohelm.tech/<c> of the pod template;
\* order is that of its volumes, mounts and annotations of names to reload.
WorkloadValue ==
  [live: BOOLEAN, image: Images, hash: [Configs -> Hashes], order: Orders]

NoHashes == [c \in Configs |-> None]

ApplyIdle ==
  [pc |-> "idle", spec |-> 0, todo |-> {}, on |-> None, hash |-> NoHashes,
   order |-> None]

ReloadIdle ==
  [pc |-> "idle", on |-> None, data |-> None, version |-> 0,
   kinds |-> <<>>, items |-> {}]

Latest(log) == log[Len(log)]
Exists(log) == Len(log) > 0
KindOfConfig(c) == IF c \in Secrets THEN "Secret" ELSE "ConfigMap"

MetaLog(m) == IF m \in Workloads THEN workload[m] ELSE config[m]

\* A write that changes nothing makes no resource version and no event.
Write(log, value) ==
  IF Exists(log) /\ Latest(log) = value THEN log ELSE Append(log, value)

-----------------------------------------------------------------------------
(* The initial state: the KubePkg was just created, users' own configs     *)
(* exist, the operator has started with synced caches.                     *)

Init ==
  /\ kpkg \in {<<s>> : s \in SpecValue}
  /\ kpkgSeen = 1
  /\ config \in [Configs -> {<<>>} \union {<<v>> : v \in ConfigValue}]
  /\ \A c \in Owned : config[c] = <<>>
  /\ \A c \in External : /\ Exists(config[c]) /\ config[c][1].mark = None
                          /\ config[c][1].label \in UserLabels
  /\ configSeen = [c \in Configs |-> Len(config[c])]
  /\ workload = [w \in Workloads |-> <<>>]
  /\ typedSeen = [w \in Workloads |-> 0]
  /\ metaSeen = [m \in Manifests |-> 0]
  /\ applyQueue = TRUE
  /\ reloadQueue = External
  /\ apply = ApplyIdle
  /\ reload = [k \in ReloadKinds |-> ReloadIdle]
  /\ edits = 0 /\ faults = 0 /\ behind = {}

-----------------------------------------------------------------------------
(* Users. *)

EditKubePkg(s) ==
  /\ edits < MaxEdits
  /\ s # Latest(kpkg)
  /\ kpkg' = Append(kpkg, s)
  /\ edits' = edits + 1
  /\ UNCHANGED <<config, workload, caches, queues, workers, faults, behind>>

EditConfig(c, d) ==
  /\ edits < MaxEdits
  /\ d # Latest(config[c]).data
  /\ config' = [config EXCEPT ![c] = Append(@, [Latest(@) EXCEPT !.data = d])]
  /\ edits' = edits + 1
  /\ UNCHANGED <<kpkg, workload, caches, queues, workers, faults, behind>>

DeleteWorkload(w) ==
  /\ edits < MaxEdits
  /\ Exists(workload[w]) /\ Latest(workload[w]).live
  /\ workload' = [workload EXCEPT ![w] =
       Append(@, [Latest(@) EXCEPT !.live = FALSE, !.hash = NoHashes])]
  /\ edits' = edits + 1
  /\ UNCHANGED <<kpkg, config, caches, queues, workers, faults, behind>>

-----------------------------------------------------------------------------
(* Informers.  A delivery updates the cache, then offers the event to the  *)
(* predicates of the controllers that watch the kind.                      *)

DeliverKubePkg ==
  /\ kpkgSeen < Len(kpkg)
  /\ kpkgSeen' = kpkgSeen + 1
  /\ applyQueue' = TRUE
  /\ UNCHANGED <<store, configSeen, typedSeen, metaSeen, reloadQueue, workers, bounds, behind>>

\* Mutant: updates never pass, only creations do.
ReloadPredicate_CreationsOnly(c, new) == FALSE

\* The update predicate of the reload controllers; creations always pass.
ReloadPredicate(c, new) == c \in Watched /\ new.data # new.mark

DeliverConfig(c) ==
  /\ configSeen[c] < Len(config[c])
  /\ configSeen' = [configSeen EXCEPT ![c] = @ + 1]
  /\ reloadQueue' =
       IF configSeen[c] = 0 \/ ReloadPredicate(c, config[c][configSeen[c] + 1])
       THEN reloadQueue \union {c} ELSE reloadQueue
  /\ UNCHANGED <<store, kpkgSeen, typedSeen, metaSeen, applyQueue, workers, bounds, behind>>

DeliverTyped(w) ==
  /\ typedSeen[w] < Len(workload[w])
  /\ typedSeen' = [typedSeen EXCEPT ![w] = @ + 1]
  /\ UNCHANGED <<store, kpkgSeen, configSeen, metaSeen, queues, workers, bounds, behind>>

\* Every version of a workload is a creation, a deletion or a new generation,
\* so the owner is queued; a config has no generation, so only its creation
\* queues the owner, and its later versions pass unnoticed, in one step here.
DeliverMeta(m) ==
  /\ metaSeen[m] < Len(MetaLog(m))
  /\ metaSeen' = [metaSeen EXCEPT ![m] =
       IF m \in Workloads \/ @ = 0 THEN @ + 1 ELSE Len(MetaLog(m))]
  /\ applyQueue' = (applyQueue \/ m \in Workloads \/ metaSeen[m] = 0)
  /\ UNCHANGED <<store, kpkgSeen, configSeen, typedSeen, reloadQueue, workers, bounds, behind>>

-----------------------------------------------------------------------------
(* KubePkgApplyReconciler.                                                 *)

\* Mutant: works on a generation the cache does not have yet.
ApplyBegin_Ahead ==
  /\ apply.pc = "idle" /\ applyQueue
  /\ applyQueue' = FALSE
  /\ apply' = [ApplyIdle EXCEPT !.pc = "loop", !.spec = kpkgSeen + 1, !.todo = Manifests]
  /\ UNCHANGED <<store, caches, reloadQueue, reload, bounds, behind>>

\* Get the KubePkg from the cache and extract its manifests.
ApplyBegin ==
  /\ apply.pc = "idle" /\ applyQueue
  /\ applyQueue' = FALSE
  /\ apply' = [ApplyIdle EXCEPT !.pc = "loop", !.spec = kpkgSeen, !.todo = Manifests]
  /\ UNCHANGED <<store, caches, reloadQueue, reload, bounds, behind>>

\* Mutant: configs that are not manifests are hashed as empty ones.
ExtractedHash_External(w, s) ==
  [c \in Configs |->
    IF c \notin Refs[w] THEN None
    ELSE IF c \in Owned \ Secrets THEN s.data[c] ELSE EmptyData]

\* Extract hashes the configs among the KubePkg's own manifests: a ConfigMap
\* by its data, a Secret by its Data field, which is empty because the
\* manifest only has StringData.
ExtractedHash(w, s) ==
  [c \in Configs |->
    IF c \notin Refs[w] \intersect Owned THEN None
    ELSE IF c \in Secrets THEN EmptyData ELSE s.data[c]]

\* A cached config is selected when it is labelled with the name of one the
\* workload mounts: its own, or the KubePkg's.
Selected(w, c) ==
  \/ config[c][configSeen[c]].label = "self"
  \/ c \in Owned /\ \E o \in Refs[w] \intersect SelfNamed : KindOfConfig(o) = KindOfConfig(c)

\* patchExternalConfigMapOrSecretIfNeed overrides it by a selected config.
PatchedHash(w, s) ==
  [c \in Configs |->
    IF c \in Refs[w] /\ configSeen[c] > 0 /\ Selected(w, c)
    THEN config[c][configSeen[c]].data
    ELSE ExtractedHash(w, s)[c]]

\* The extraction ranged over maps: the lists of a workload are in any order,
\* and MaxFaults bounds how often in another than the live one's.
ExtractedOrder(m, order) ==
  IF m \notin Workloads THEN order = None /\ UNCHANGED faults
  ELSE /\ order \in Orders
       /\ IF Exists(workload[m]) /\ order # Latest(workload[m]).order
          THEN faults < MaxFaults /\ faults' = faults + 1
          ELSE UNCHANGED faults

\* Take the next manifest, in the random order of the manifests map.
ApplyNext(m) ==
  /\ apply.pc = "loop" /\ m \in apply.todo
  /\ \E order \in Orders \union {None} :
       /\ ExtractedOrder(m, order)
       /\ apply' = [apply EXCEPT
            !.pc = "write", !.on = m, !.todo = @ \ {m}, !.order = order,
            !.hash = IF m \in Workloads THEN PatchedHash(m, kpkg[apply.spec]) ELSE NoHashes]
  /\ UNCHANGED <<store, caches, queues, reload, edits, behind>>

\* Server-side apply, with forced ownership: what the manifest says is set,
\* hashes and marks it does not mention are kept.
AppliedConfig(c, s) ==
  [data |-> s.data[c],
   mark |-> IF Exists(config[c]) THEN Latest(config[c]).mark ELSE None,
   label |-> IF c \in SelfNamed THEN "self" ELSE "other"]

AppliedWorkload(w, s, hash, order) ==
  [live |-> TRUE, image |-> s.image, order |-> order,
   hash |-> [c \in Configs |->
     IF hash[c] # None THEN hash[c]
     ELSE IF Exists(workload[w]) THEN Latest(workload[w]).hash[c] ELSE None]]

ApplyEffect ==
  LET m == apply.on
      s == kpkg[apply.spec] IN
  IF m \in Workloads
  THEN /\ workload' = [workload EXCEPT ![m] = Write(@, AppliedWorkload(m, s, apply.hash, apply.order))]
       /\ UNCHANGED config
  ELSE /\ config' = [config EXCEPT ![m] = Write(@, AppliedConfig(m, s))]
       /\ UNCHANGED workload

ApplyWrite ==
  /\ apply.pc = "write"
  /\ ApplyEffect
  /\ apply' = [apply EXCEPT !.pc = "loop", !.on = None, !.hash = NoHashes, !.order = None]
  /\ UNCHANGED <<kpkg, caches, queues, reload, bounds, behind>>

\* Mutant: a failed call is not tried again.
ApplyFail_Forgotten ==
  /\ apply.pc = "write"
  /\ faults < MaxFaults /\ faults' = faults + 1
  /\ ApplyEffect \/ UNCHANGED <<config, workload>>
  /\ apply' = ApplyIdle
  /\ UNCHANGED <<kpkg, caches, queues, reload, edits, behind>>

\* The call fails, before or after its effect: the remaining manifests are
\* abandoned and the KubePkg is queued again.
ApplyFail ==
  /\ apply.pc = "write"
  /\ faults < MaxFaults /\ faults' = faults + 1
  /\ ApplyEffect \/ UNCHANGED <<config, workload>>
  /\ apply' = ApplyIdle
  /\ applyQueue' = TRUE
  /\ UNCHANGED <<kpkg, caches, reloadQueue, reload, edits, behind>>

\* Mutant: an event that arrived meanwhile is taken as handled.
ApplyEnd_Forgetful ==
  /\ apply.pc = "loop" /\ apply.todo = {}
  /\ apply' = ApplyIdle
  /\ applyQueue' = FALSE
  /\ UNCHANGED <<store, caches, reloadQueue, reload, bounds, behind>>

ApplyEnd ==
  /\ apply.pc = "loop" /\ apply.todo = {}
  /\ apply' = ApplyIdle
  /\ UNCHANGED <<store, caches, queues, reload, bounds, behind>>

-----------------------------------------------------------------------------
(* ConfigMapReloadReconciler and SecretReloadReconciler, one worker each.  *)

Worker(k, w) == reload' = [reload EXCEPT ![k] = w]
\* Mutant: a failed reload is not tried again.
Requeue_Never(k) == UNCHANGED reloadQueue

Requeue(k) == reloadQueue' = reloadQueue \union {reload[k].on}

\* Read the live config; one without the label is left alone.  (The hash key
\* compared with the new hash is one nobody writes on a config, so the early
\* return of the code is never taken.)
ReloadBegin(k, c) ==
  /\ reload[k].pc = "idle" /\ c \in reloadQueue /\ KindOfConfig(c) = k
  /\ reloadQueue' = reloadQueue \ {c}
  /\ IF Exists(config[c]) /\ Latest(config[c]).label # "none"
     THEN Worker(k, [ReloadIdle EXCEPT !.pc = "patch", !.on = c,
                       !.data = Latest(config[c]).data, !.version = Len(config[c])])
     ELSE UNCHANGED reload
  /\ UNCHANGED <<store, caches, applyQueue, apply, bounds, behind>>

\* Record the hash on the config, and label a ConfigMap with its own name.
MarkedConfig(k, c, d) ==
  [Latest(config[c]) EXCEPT
    !.mark = d, !.label = IF k = "ConfigMap" THEN "self" ELSE @]

ReloadMark(k) ==
  LET r == reload[k] IN
  /\ r.pc = "patch" /\ r.version = Len(config[r.on])
  /\ config' = [config EXCEPT ![r.on] = Write(@, MarkedConfig(k, r.on, r.data))]
  /\ Worker(k, [r EXCEPT !.pc = "range", !.kinds = WorkloadKinds])
  /\ UNCHANGED <<kpkg, workload, caches, queues, apply, bounds, behind>>

\* The patch carries the resource version it was read at: a conflict.
ReloadMarkConflict(k) ==
  LET r == reload[k] IN
  /\ r.pc = "patch" /\ r.version # Len(config[r.on])
  /\ Requeue(k) /\ Worker(k, ReloadIdle)
  /\ UNCHANGED <<store, caches, applyQueue, apply, bounds, behind>>

\* RangeWorkload lists one kind from the typed cache, and keeps what matches.
ListedItems(c, kind) ==
  {<<w, typedSeen[w]>> : w \in {v \in Workloads :
    /\ KindOf[v] = kind /\ c \in Refs[v]
    /\ typedSeen[v] > 0 /\ workload[v][typedSeen[v]].live}}

ReloadList(k) ==
  LET r == reload[k]
      kind == Head(r.kinds) IN
  /\ r.pc = "range" /\ r.items = {} /\ r.kinds # <<>>
  /\ Worker(k, [r EXCEPT !.kinds = Tail(@), !.items = ListedItems(r.on, kind)])
  /\ behind' = {p \in behind : p[2] # r.on \/ KindOf[p[1]] # kind}
                 \union {<<w, r.on>> : w \in {v \in Workloads :
                            KindOf[v] = kind /\ typedSeen[v] < Len(workload[v])}}
  /\ UNCHANGED <<store, caches, queues, apply, bounds>>

\* The hash is put on the listed workload, which is patched if that changes it.
Rehashed(r, i) == [workload[i[1]][i[2]] EXCEPT !.hash[r.on] = r.data]
NeedsPatch(r, i) == Rehashed(r, i) # workload[i[1]][i[2]]
\* Mutant: the patch does not carry the resource version it was listed at.
IsLatest_Unchecked(i) == TRUE

IsLatest(i) == i[2] = Len(workload[i[1]])

ReloadSkip(k, i) ==
  /\ i \in reload[k].items /\ ~NeedsPatch(reload[k], i)
  /\ Worker(k, [reload[k] EXCEPT !.items = @ \ {i}])
  /\ UNCHANGED <<store, caches, queues, apply, bounds, behind>>

ReloadPatch(k, i) ==
  /\ i \in reload[k].items /\ NeedsPatch(reload[k], i) /\ IsLatest(i)
  /\ workload' = [workload EXCEPT ![i[1]] = Append(@, Rehashed(reload[k], i))]
  /\ Worker(k, [reload[k] EXCEPT !.items = @ \ {i}])
  /\ UNCHANGED <<kpkg, config, caches, queues, apply, bounds, behind>>

\* The listed workload is not the live one any more: a conflict, or not found.
ReloadPatchConflict(k, i) ==
  /\ i \in reload[k].items /\ NeedsPatch(reload[k], i) /\ ~IsLatest(i)
  /\ Requeue(k) /\ Worker(k, ReloadIdle)
  /\ UNCHANGED <<store, caches, applyQueue, apply, bounds, behind>>

\* Mutant: the config is queued again after every reload.
ReloadEnd_Again(k) ==
  /\ reload[k].pc = "range" /\ reload[k].items = {} /\ reload[k].kinds = <<>>
  /\ Requeue(k) /\ Worker(k, ReloadIdle)
  /\ UNCHANGED <<store, caches, applyQueue, apply, bounds, behind>>

ReloadEnd(k) ==
  /\ reload[k].pc = "range" /\ reload[k].items = {} /\ reload[k].kinds = <<>>
  /\ Worker(k, ReloadIdle)
  /\ UNCHANGED <<store, caches, queues, apply, bounds, behind>>

\* A patch fails, before or after its effect.
ReloadFail(k) ==
  LET r == reload[k] IN
  /\ faults < MaxFaults /\ faults' = faults + 1
  /\ \/ /\ r.pc = "patch"
        /\ \/ UNCHANGED config
           \/ /\ r.version = Len(config[r.on])
              /\ config' = [config EXCEPT ![r.on] = Write(@, MarkedConfig(k, r.on, r.data))]
        /\ UNCHANGED workload
     \/ \E i \in r.items :
        /\ NeedsPatch(r, i)
        /\ \/ UNCHANGED workload
           \/ /\ IsLatest(i)
              /\ workload' = [workload EXCEPT ![i[1]] = Append(@, Rehashed(r, i))]
        /\ UNCHANGED config
  /\ Requeue(k) /\ Worker(k, ReloadIdle)
  /\ UNCHANGED <<kpkg, caches, applyQueue, apply, edits, behind>>

-----------------------------------------------------------------------------
(* The operator restarts: workers and queues are lost, the caches are      *)
(* listed afresh, and every object found is a creation to the controllers. *)

Restart ==
  /\ faults < MaxFaults /\ faults' = faults + 1
  /\ kpkgSeen' = Len(kpkg)
  /\ configSeen' = [c \in Configs |-> Len(config[c])]
  /\ typedSeen' = [w \in Workloads |-> Len(workload[w])]
  /\ metaSeen' = [m \in Manifests |-> Len(MetaLog(m))]
  /\ applyQueue' = TRUE
  /\ reloadQueue' = {c \in Configs : Exists(config[c])}
  /\ apply' = ApplyIdle
  /\ reload' = [k \in ReloadKinds |-> ReloadIdle]
  /\ UNCHANGED <<store, edits, behind>>

-----------------------------------------------------------------------------
Users ==
  \/ \E s \in SpecValue : EditKubePkg(s)
  \/ \E c \in External, d \in Data : EditConfig(c, d)
  \/ \E w \in Workloads : DeleteWorkload(w)

Informers ==
  \/ DeliverKubePkg
  \/ \E c \in Configs : DeliverConfig(c)
  \/ \E w \in Workloads : DeliverTyped(w)
  \/ \E m \in Manifests : DeliverMeta(m)

ApplyStep ==
  \/ ApplyBegin
  \/ \E m \in Manifests : ApplyNext(m)
  \/ ApplyWrite
  \/ ApplyEnd

ReloadStep(k) ==
  \/ \E c \in Configs : ReloadBegin(k, c)
  \/ ReloadMark(k)
  \/ ReloadMarkConflict(k)
  \/ ReloadList(k)
  \/ \E i \in reload[k].items :
       ReloadSkip(k, i) \/ ReloadPatch(k, i) \/ ReloadPatchConflict(k, i)
  \/ ReloadEnd(k)

Faults ==
  \/ ApplyFail
  \/ \E k \in ReloadKinds : ReloadFail(k)
  \/ Restart

Next ==
  \/ Users
  \/ Informers
  \/ ApplyStep
  \/ \E k \in ReloadKinds : ReloadStep(k)
  \/ Faults

Spec == Init /\ [][Next]_vars

\* Informers deliver and workers run; nothing obliges users or failures.
FairSpec ==
  /\ Spec
  /\ WF_vars(DeliverKubePkg)
  /\ \A c \in Configs : WF_vars(DeliverConfig(c))
  /\ \A w \in Workloads : WF_vars(DeliverTyped(w))
  /\ \A m \in Manifests : WF_vars(DeliverMeta(m))
  /\ WF_vars(ApplyStep)
  /\ \A k \in ReloadKinds : WF_vars(ReloadStep(k))

-----------------------------------------------------------------------------
(* Properties.                                                             *)

StoreType ==
  /\ kpkg \in Seq(SpecValue)
  /\ config \in [Configs -> Seq(ConfigValue)]
  /\ \A c \in External : Exists(config[c])
  /\ workload \in [Workloads -> Seq(WorkloadValue)]

CacheType ==
  /\ kpkgSeen \in 1..Len(kpkg)
  /\ configSeen \in [Configs -> Nat]
  /\ \A c \in Configs : configSeen[c] <= Len(config[c])
  /\ typedSeen \in [Workloads -> Nat]
  /\ \A w \in Workloads : typedSeen[w] <= Len(workload[w])
  /\ metaSeen \in [Manifests -> Nat]

QueueType == applyQueue \in BOOLEAN /\ reloadQueue \subseteq Configs

ApplyType ==
  /\ apply \in [pc: {"idle", "loop", "write"}, spec: 0..Len(kpkg),
                todo: SUBSET Manifests, on: Manifests \union {None},
                hash: [Configs -> Hashes], order: Orders \union {None}]
  /\ apply.pc # "idle" => apply.spec > 0
  /\ apply.pc = "write" =>
       apply.on \in Manifests /\ (apply.on \in Workloads => apply.order \in Orders)

ReloadType(k) ==
  LET r == reload[k] IN
  /\ r \in [pc: {"idle", "patch", "range"}, on: Configs \union {None},
            data: Data \union {None}, version: Nat, kinds: Seq(KindNames),
            items: SUBSET (Workloads \X (Nat \ {0}))]
  /\ r.pc # "idle" => r.on \in Configs /\ r.version \in 1..Len(config[r.on])
  /\ r.pc # "range" => r.items = {}
  /\ \A i \in r.items : i[2] <= Len(workload[i[1]])

BoundType ==
  /\ edits \in 0..MaxEdits /\ faults \in 0..MaxFaults
  /\ behind \subseteq Workloads \X Configs

\* The variables hold what the code's types hold, and a cache or a worker
\* refers only to versions that exist.
TypeOK ==
  /\ StoreType /\ CacheType /\ QueueType
  /\ ApplyType /\ DOMAIN reload = ReloadKinds /\ \A k \in ReloadKinds : ReloadType(k)
  /\ BoundType

\* Nothing is left to deliver or to do: only a user or a restart can move.
Quiet ==
  /\ kpkgSeen = Len(kpkg)
  /\ \A c \in Configs : configSeen[c] = Len(config[c])
  /\ \A w \in Workloads : typedSeen[w] = Len(workload[w])
  /\ \A m \in Manifests : metaSeen[m] = Len(MetaLog(m))
  /\ ~applyQueue /\ reloadQueue = {}
  /\ apply.pc = "idle" /\ \A k \in ReloadKinds : reload[k].pc = "idle"

\* Once the operator has nothing left to do, every manifest of the latest spec
\* is live as the spec says, whatever was edited, deleted, half applied, lost
\* or restarted on the way (kubepkg_apply.go: first failure aborts the loop).
AppliedWhenQuiet ==
  Quiet =>
    /\ \A w \in Workloads : /\ Exists(workload[w]) /\ Latest(workload[w]).live
                            /\ Latest(workload[w]).image = Latest(kpkg).image
    /\ \A c \in Owned : /\ Exists(config[c])
                        /\ Latest(config[c]).data = Latest(kpkg).data[c]

InSync(w, c) == Latest(workload[w]).hash[c] = Latest(config[c]).data

\* The data of c never came back to an earlier value.
NeverReverted(c) ==
  \A i, j, k \in DOMAIN config[c] :
    i < j /\ j < k /\ config[c][i].data = config[c][k].data
      => config[c][j].data = config[c][i].data

\* Once the operator has nothing left to do, a workload carries the hash of
\* the data of each config it mounts that users manage and enabled for reload:
\* the apply that stamps a stale cached hash, and the mark recorded before the
\* workloads are patched, never lose a reload.  Three cases are outside: the
\* config was not labelled with its own name from the start, its data was
\* reverted, or the typed workload cache lagged when the reload listed it.
ReloadedWhenQuiet ==
  Quiet => \A w \in Workloads : \A c \in Refs[w] \intersect External \intersect Watched :
    config[c][1].label = "self" /\ NeverReverted(c)
      => InSync(w, c) \/ <<w, c>> \in behind

\* A hash on a live workload is that of a content the config really had.
HashIsPastData ==
  \A w \in Workloads, c \in External : Exists(workload[w]) =>
    Latest(workload[w]).hash[c] \in {None} \union {config[c][i].data : i \in DOMAIN config[c]}

\* A reload never undoes an apply: only the apply worker's own write changes
\* what the spec says of a workload, and only users delete it.
ReloadKeepsSpec ==
  [][\A w \in Workloads :
       /\ Exists(workload[w]) /\ workload'[w] # workload[w]
       /\ Latest(workload[w]').image # Latest(workload[w]).image
            \/ (Latest(workload[w]').live /\ ~Latest(workload[w]).live)
       => apply.pc = "write" /\ apply.on = w]_vars

\* The two controllers never keep each other busy: once users and failures
\* stop, and extractions list volumes as the live object does, the apply's
\* stamp and the reload's patch agree and work ends.  That second condition is
\* an exception the code does not secure: toContainer ranges over a map, so an
\* apply of an unchanged spec may reorder the object, which is a new generation
\* and wakes the apply again; only the odds end that.
Settles == <>[]Quiet

\* An edit of the KubePkg's own ConfigMap reaches the pods of the workloads
\* that mount it: patchExternalConfigMapOrSecretIfNeed, being for external
\* configs, leaves the hash Extract computed from the new spec.
OwnConfigRollsOut ==
  Quiet => \A w \in Workloads : \A c \in (Refs[w] \intersect Owned) \ Secrets :
             InSync(w, c) \/ <<w, c>> \in behind
=============================================================================
