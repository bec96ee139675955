------------------------ MODULE KubePkgOperator_proofs -------------------------
(***************************************************************************)
(* Proofs about KubePkgOperator, for all values of its constants: its types *)
(* and what each write of a hash or a spec respects, then what it leaves    *)
(* behind when it has nothing left to do: that the latest spec is applied   *)
(* (AppliedWhenQuiet), and that no edit of a config is lost on its          *)
(* workloads (ReloadedWhenQuiet).                                           *)
(***************************************************************************)
EXTENDS KubePkgOperator, TLAPS

(* A log only grows, and keeps the versions it had. *)
LEMMA AppendGrows ==
  ASSUME NEW S, NEW log \in Seq(S), NEW v \in S
  PROVE  /\ Append(log, v) \in Seq(S)
         /\ Len(Append(log, v)) = Len(log) + 1
         /\ \A i \in 1..Len(log) : Append(log, v)[i] = log[i]
         /\ Append(log, v)[Len(log) + 1] = v
  OBVIOUS

(* TypeOK holds in the initial states. *)
LEMMA InitType == Init => TypeOK
<1> SUFFICES ASSUME Init PROVE TypeOK
  OBVIOUS
<1> USE ConfigsAssumption, BoundsAssumption, ValuesAssumption
<1>1. kpkg \in Seq(SpecValue) /\ kpkgSeen \in 1..Len(kpkg)
  <2>1. PICK s \in SpecValue : kpkg = <<s>>
    BY DEF Init
  <2>2. kpkgSeen = 1
    BY DEF Init
  <2> QED BY <2>1, <2>2
<1>2. config \in [Configs -> Seq(ConfigValue)]
  <2>1. config \in [Configs -> {<<>>} \union {<<v>> : v \in ConfigValue}]
    BY DEF Init
  <2>2. ASSUME NEW c \in Configs PROVE config[c] \in Seq(ConfigValue)
    <3>1. CASE config[c] = <<>>
      BY <3>1
    <3>2. CASE \E v \in ConfigValue : config[c] = <<v>>
      BY <3>2
    <3> QED BY <2>1, <3>1, <3>2
  <2> QED BY <2>1, <2>2
<1>3. StoreType
  BY <1>1, <1>2 DEF StoreType, Init
<1>4. CacheType
  <2>1. \A c \in Configs : Len(config[c]) \in Nat
    BY <1>2
  <2> QED BY <1>1, <2>1 DEF CacheType, Init
<1>5. QueueType
  BY DEF Init, QueueType, External
<1>6. ApplyType
  BY <1>1 DEF Init, ApplyType, ApplyIdle, NoHashes, Hashes
<1>7. DOMAIN reload = ReloadKinds /\ \A k \in ReloadKinds : ReloadType(k)
  BY DEF Init, ReloadType, ReloadIdle
<1>8. BoundType
  BY DEF Init, BoundType
<1> QED BY <1>3, <1>4, <1>5, <1>6, <1>7, <1>8 DEF TypeOK

-----------------------------------------------------------------------------
(* What is done to the API server: objects are never rewritten.            *)

Grows ==
  /\ Len(kpkg) <= Len(kpkg')
  /\ \A c \in Configs :
       /\ Len(config[c]) <= Len(config'[c])
       /\ \A i \in 1..Len(config[c]) : config'[c][i] = config[c][i]
  /\ \A w \in Workloads :
       /\ Len(workload[w]) <= Len(workload'[w])
       /\ \A i \in 1..Len(workload[w]) : workload'[w][i] = workload[w][i]

(* A step that writes nothing. *)
LEMMA StoreUnchanged ==
  ASSUME StoreType, UNCHANGED store
  PROVE  StoreType' /\ Grows
<1>1. /\ Len(kpkg) \in Nat
      /\ \A c \in Configs : Len(config[c]) \in Nat
      /\ \A w \in Workloads : Len(workload[w]) \in Nat
  BY DEF StoreType
<1> QED BY <1>1 DEF StoreType, Grows, store

(* A step that writes one version of one config. *)
LEMMA ConfigWritten ==
  ASSUME StoreType, NEW c \in Configs, NEW v \in ConfigValue,
         config' = [config EXCEPT ![c] = Append(@, v)]
           \/ config' = [config EXCEPT ![c] = Write(@, v)],
         UNCHANGED <<kpkg, workload>>
  PROVE  StoreType' /\ Grows
<1>1. config[c] \in Seq(ConfigValue)
  BY DEF StoreType
<1>2. /\ config'[c] \in Seq(ConfigValue) /\ Exists(config'[c])
      /\ Len(config[c]) <= Len(config'[c])
      /\ \A i \in 1..Len(config[c]) : config'[c][i] = config[c][i]
  <2>1. config'[c] = Append(config[c], v) \/ config'[c] = Write(config[c], v)
    BY DEF StoreType
  <2>2. Len(config[c]) \in Nat
    BY <1>1
  <2>3. CASE config'[c] = Append(config[c], v)
    BY <1>1, <2>2, <2>3, AppendGrows DEF Exists
  <2>4. CASE config'[c] = Write(config[c], v)
    <3>1. CASE config'[c] = config[c] /\ Exists(config[c])
      BY <1>1, <2>2, <3>1
    <3>2. (config'[c] = config[c] /\ Exists(config[c]))
            \/ config'[c] = Append(config[c], v)
      BY <2>4 DEF Write
    <3> QED BY <2>3, <3>1, <3>2
  <2> QED BY <2>1, <2>3, <2>4
<1>3. /\ config' \in [Configs -> Seq(ConfigValue)]
      /\ \A d \in Configs \ {c} : config'[d] = config[d]
  BY <1>2 DEF StoreType
<1>4. StoreType'
  BY <1>2, <1>3 DEF StoreType, External
<1>5. /\ Len(kpkg) \in Nat
      /\ \A d \in Configs : Len(config[d]) \in Nat
      /\ \A w \in Workloads : Len(workload[w]) \in Nat
  BY DEF StoreType
<1> QED BY <1>2, <1>3, <1>4, <1>5 DEF Grows

(* A step that writes one version of one workload. *)
LEMMA WorkloadWritten ==
  ASSUME StoreType, NEW w \in Workloads, NEW v \in WorkloadValue,
         workload' = [workload EXCEPT ![w] = Append(@, v)]
           \/ workload' = [workload EXCEPT ![w] = Write(@, v)],
         UNCHANGED <<kpkg, config>>
  PROVE  StoreType' /\ Grows
<1>1. workload[w] \in Seq(WorkloadValue)
  BY DEF StoreType
<1>2. /\ workload'[w] \in Seq(WorkloadValue)
      /\ Len(workload[w]) <= Len(workload'[w])
      /\ \A i \in 1..Len(workload[w]) : workload'[w][i] = workload[w][i]
  <2>1. workload'[w] = Append(workload[w], v) \/ workload'[w] = Write(workload[w], v)
    BY DEF StoreType
  <2>2. Len(workload[w]) \in Nat
    BY <1>1
  <2>3. CASE workload'[w] = Append(workload[w], v)
    BY <1>1, <2>2, <2>3, AppendGrows
  <2>4. CASE workload'[w] = Write(workload[w], v)
    <3>1. CASE workload'[w] = workload[w] /\ Exists(workload[w])
      BY <1>1, <2>2, <3>1
    <3>2. (workload'[w] = workload[w] /\ Exists(workload[w]))
            \/ workload'[w] = Append(workload[w], v)
      BY <2>4 DEF Write
    <3> QED BY <2>3, <3>1, <3>2
  <2> QED BY <2>1, <2>3, <2>4
<1>3. /\ workload' \in [Workloads -> Seq(WorkloadValue)]
      /\ \A x \in Workloads \ {w} : workload'[x] = workload[x]
  BY <1>2 DEF StoreType
<1>4. StoreType'
  BY <1>2, <1>3 DEF StoreType
<1>5. /\ Len(kpkg) <= Len(kpkg')
      /\ \A c \in Configs : Len(config[c]) <= Len(config'[c])
      /\ \A c \in Configs : \A i \in 1..Len(config[c]) : config'[c][i] = config[c][i]
  BY DEF StoreType
<1>6. ASSUME NEW x \in Workloads
      PROVE  /\ Len(workload[x]) <= Len(workload'[x])
             /\ \A i \in 1..Len(workload[x]) : workload'[x][i] = workload[x][i]
  <2>1. Len(workload[x]) \in Nat
    BY DEF StoreType
  <2>2. CASE x = w
    BY <1>2, <2>2
  <2>3. CASE x # w
    BY <1>3, <2>1, <2>3
  <2> QED BY <2>2, <2>3
<1>7. Grows
  BY <1>5, <1>6 DEF Grows
<1> QED BY <1>4, <1>7

(* What the apply worker writes is of the type of the object. *)
LEMMA ApplyEffectType ==
  ASSUME TypeOK, apply.pc = "write", ApplyEffect, UNCHANGED kpkg
  PROVE  StoreType' /\ Grows
<1> DEFINE m == apply.on
           s == kpkg[apply.spec]
<1> USE ConfigsAssumption, ValuesAssumption
<1>1. StoreType /\ m \in Manifests /\ apply.hash \in [Configs -> Hashes]
      /\ apply.spec \in 1..Len(kpkg) /\ (m \in Workloads => apply.order \in Orders)
  BY DEF TypeOK, ApplyType, StoreType
<1>2. s \in SpecValue
  BY <1>1 DEF StoreType
<1>3. CASE m \in Workloads
  <2>1. AppliedWorkload(m, s, apply.hash, apply.order) \in WorkloadValue
    <3>1. workload[m] \in Seq(WorkloadValue)
      BY <1>1, <1>3 DEF StoreType
    <3>2. Exists(workload[m]) => Latest(workload[m]).hash \in [Configs -> Hashes]
      <4>1. Exists(workload[m]) => Latest(workload[m]) \in WorkloadValue
        BY <3>1 DEF Exists, Latest
      <4> QED BY <4>1 DEF WorkloadValue
    <3>3. None \in Hashes
      BY DEF Hashes
    <3> QED BY <1>1, <1>2, <1>3, <3>2, <3>3 DEF AppliedWorkload, WorkloadValue, SpecValue
  <2>2. /\ workload' = [workload EXCEPT ![m] = Write(@, AppliedWorkload(m, s, apply.hash, apply.order))]
        /\ UNCHANGED <<kpkg, config>>
    BY <1>3 DEF ApplyEffect
  <2> QED BY <1>1, <1>3, <2>1, <2>2, WorkloadWritten
<1>4. CASE m \in Owned /\ m \notin Workloads
  <2>1. AppliedConfig(m, s) \in ConfigValue
    <3>1. config[m] \in Seq(ConfigValue)
      BY <1>1, <1>4 DEF StoreType
    <3>2. Exists(config[m]) => Latest(config[m]).mark \in Data \union {None}
      <4>1. Exists(config[m]) => Latest(config[m]) \in ConfigValue
        BY <3>1 DEF Exists, Latest
      <4> QED BY <4>1 DEF ConfigValue
    <3> QED BY <1>2, <1>4, <3>2 DEF AppliedConfig, ConfigValue, SpecValue, Labels
  <2>2. /\ config' = [config EXCEPT ![m] = Write(@, AppliedConfig(m, s))]
        /\ UNCHANGED <<kpkg, workload>>
    BY <1>4 DEF ApplyEffect
  <2> QED BY <1>1, <1>4, <2>1, <2>2, ConfigWritten
<1> QED BY <1>1, <1>3, <1>4 DEF Manifests

(* What a reload records on a config is of the type of a config. *)
LEMMA MarkType ==
  ASSUME TypeOK, NEW k \in ReloadKinds, reload[k].pc = "patch",
         config' = [config EXCEPT ![reload[k].on] =
                      Write(@, MarkedConfig(k, reload[k].on, reload[k].data))],
         UNCHANGED <<kpkg, workload>>
  PROVE  StoreType' /\ Grows
<1> DEFINE r == reload[k]
<1>1. /\ StoreType /\ r.on \in Configs /\ r.data \in Data \union {None}
      /\ Exists(config[r.on])
  BY DEF TypeOK, ReloadType, StoreType, Exists
<1>2. Latest(config[r.on]) \in ConfigValue
  BY <1>1 DEF StoreType, Exists, Latest
<1>3. MarkedConfig(k, r.on, r.data) \in ConfigValue
  BY <1>1, <1>2 DEF MarkedConfig, ConfigValue, Labels
<1> QED BY <1>1, <1>3, ConfigWritten

(* What a reload puts on a workload is of the type of a workload. *)
LEMMA RehashType ==
  ASSUME TypeOK, NEW k \in ReloadKinds, NEW i \in reload[k].items,
         workload' = [workload EXCEPT ![i[1]] = Append(@, Rehashed(reload[k], i))],
         UNCHANGED <<kpkg, config>>
  PROVE  StoreType' /\ Grows
<1> DEFINE r == reload[k]
<1>1. /\ StoreType /\ r.on \in Configs /\ r.data \in Data \union {None}
      /\ i[1] \in Workloads /\ i[2] \in 1..Len(workload[i[1]])
  BY DEF TypeOK, ReloadType
<1>2. workload[i[1]][i[2]] \in WorkloadValue
  BY <1>1 DEF StoreType
<1>3. Rehashed(r, i) \in WorkloadValue
  BY <1>1, <1>2 DEF Rehashed, WorkloadValue, Hashes
<1> QED BY <1>1, <1>3, WorkloadWritten

(* Every step leaves the store well typed, and only adds to it. *)
LEMMA StoreKept ==
  ASSUME TypeOK, [Next]_vars
  PROVE  StoreType' /\ Grows
<1> USE ConfigsAssumption
<1>0. StoreType
  BY DEF TypeOK
<1>1. CASE Users
  <2>1. ASSUME NEW s \in SpecValue, EditKubePkg(s) PROVE StoreType' /\ Grows
    <3>1. kpkg' \in Seq(SpecValue) /\ Len(kpkg) <= Len(kpkg')
      BY <1>0, <2>1, AppendGrows DEF EditKubePkg, StoreType
    <3>2. /\ \A c \in Configs : Len(config[c]) \in Nat
          /\ \A w \in Workloads : Len(workload[w]) \in Nat
      BY <1>0 DEF StoreType
    <3> QED BY <1>0, <2>1, <3>1, <3>2 DEF EditKubePkg, StoreType, Grows
  <2>2. ASSUME NEW c \in External, NEW d \in Data, EditConfig(c, d)
        PROVE  StoreType' /\ Grows
    <3>1. c \in Configs /\ config[c] \in Seq(ConfigValue) /\ Exists(config[c])
      BY <1>0 DEF StoreType, External
    <3>2. Latest(config[c]) \in ConfigValue
      BY <3>1 DEF Exists, Latest
    <3>3. [Latest(config[c]) EXCEPT !.data = d] \in ConfigValue
      BY <3>2 DEF ConfigValue
    <3> QED BY <1>0, <2>2, <3>1, <3>3, ConfigWritten DEF EditConfig
  <2>3. ASSUME NEW w \in Workloads, DeleteWorkload(w) PROVE StoreType' /\ Grows
    <3>1. workload[w] \in Seq(WorkloadValue) /\ Exists(workload[w])
      BY <1>0, <2>3 DEF StoreType, DeleteWorkload
    <3>2. Latest(workload[w]) \in WorkloadValue
      BY <3>1 DEF Exists, Latest
    <3>3. [Latest(workload[w]) EXCEPT !.live = FALSE, !.hash = NoHashes] \in WorkloadValue
      BY <3>2 DEF WorkloadValue, NoHashes, Hashes
    <3> QED BY <1>0, <2>3, <3>3, WorkloadWritten DEF DeleteWorkload
  <2> QED BY <1>1, <2>1, <2>2, <2>3 DEF Users
<1>2. CASE Informers
  BY <1>0, <1>2, StoreUnchanged
     DEF Informers, DeliverKubePkg, DeliverConfig, DeliverTyped, DeliverMeta
<1>3. CASE ApplyStep
  <2>1. CASE ApplyWrite
    BY <2>1, ApplyEffectType DEF ApplyWrite
  <2>2. CASE ApplyBegin \/ (\E m \in Manifests : ApplyNext(m)) \/ ApplyEnd
    BY <1>0, <2>2, StoreUnchanged DEF ApplyBegin, ApplyNext, ApplyEnd
  <2> QED BY <1>3, <2>1, <2>2 DEF ApplyStep
<1>4. ASSUME NEW k \in ReloadKinds, ReloadStep(k) PROVE StoreType' /\ Grows
  <2>1. CASE ReloadMark(k)
    BY <2>1, MarkType DEF ReloadMark
  <2>2. ASSUME NEW i \in reload[k].items, ReloadPatch(k, i) PROVE StoreType' /\ Grows
    BY <2>2, RehashType DEF ReloadPatch
  <2>3. CASE \/ \E c \in Configs : ReloadBegin(k, c)
             \/ ReloadMarkConflict(k) \/ ReloadList(k) \/ ReloadEnd(k)
             \/ \E i \in reload[k].items : ReloadSkip(k, i) \/ ReloadPatchConflict(k, i)
    BY <1>0, <2>3, StoreUnchanged
       DEF ReloadBegin, ReloadMarkConflict, ReloadList, ReloadEnd, ReloadSkip,
           ReloadPatchConflict, store
  <2> QED BY <1>4, <2>1, <2>2, <2>3 DEF ReloadStep
<1>5. CASE Faults
  <2>1. CASE ApplyFail
    <3>1. CASE ApplyEffect
      BY <2>1, <3>1, ApplyEffectType DEF ApplyFail
    <3>2. CASE UNCHANGED <<config, workload>>
      BY <1>0, <2>1, <3>2, StoreUnchanged DEF ApplyFail, store
    <3> QED BY <2>1, <3>1, <3>2 DEF ApplyFail
  <2>2. ASSUME NEW k \in ReloadKinds, ReloadFail(k) PROVE StoreType' /\ Grows
    <3>1. CASE UNCHANGED <<config, workload>>
      BY <1>0, <2>2, <3>1, StoreUnchanged DEF ReloadFail, store
    <3>2. CASE ~UNCHANGED config
      BY <2>2, <3>2, MarkType DEF ReloadFail
    <3>3. CASE ~UNCHANGED workload
      BY <2>2, <3>3, RehashType DEF ReloadFail
    <3> QED BY <3>1, <3>2, <3>3
  <2>3. CASE Restart
    BY <1>0, <2>3, StoreUnchanged DEF Restart
  <2> QED BY <1>5, <2>1, <2>2, <2>3 DEF Faults
<1>6. CASE UNCHANGED vars
  BY <1>0, <1>6, StoreUnchanged DEF vars
<1> QED BY <1>1, <1>2, <1>3, <1>4, <1>5, <1>6 DEF Next

-----------------------------------------------------------------------------
(* The operator's own state.                                               *)

(* Caches that do not move stay behind a store that only grows. *)
LEMMA CachesUnchanged ==
  ASSUME TypeOK, StoreType', Grows, UNCHANGED caches
  PROVE  CacheType'
<1>1. StoreType /\ CacheType
  BY DEF TypeOK
<1>2. /\ Len(kpkg) \in Nat /\ Len(kpkg') \in Nat
      /\ \A c \in Configs : Len(config[c]) \in Nat /\ Len(config'[c]) \in Nat
      /\ \A w \in Workloads : Len(workload[w]) \in Nat /\ Len(workload'[w]) \in Nat
  BY <1>1 DEF StoreType
<1>3. kpkgSeen' \in 1..Len(kpkg')
  BY <1>1, <1>2 DEF CacheType, Grows, caches
<1>4. ASSUME NEW c \in Configs
      PROVE  configSeen'[c] <= Len(config'[c])
  <2>1. configSeen'[c] = configSeen[c] /\ configSeen[c] \in Nat
    BY <1>1 DEF CacheType, caches
  <2>2. configSeen[c] <= Len(config[c])
    BY <1>1 DEF CacheType
  <2>3. Len(config[c]) <= Len(config'[c])
    BY DEF Grows
  <2> QED BY <1>2, <2>1, <2>2, <2>3
<1>5. ASSUME NEW w \in Workloads
      PROVE  typedSeen'[w] <= Len(workload'[w])
  <2>1. typedSeen'[w] = typedSeen[w] /\ typedSeen[w] \in Nat
    BY <1>1 DEF CacheType, caches
  <2>2. typedSeen[w] <= Len(workload[w])
    BY <1>1 DEF CacheType
  <2>3. Len(workload[w]) <= Len(workload'[w])
    BY DEF Grows
  <2> QED BY <1>2, <2>1, <2>2, <2>3
<1> QED BY <1>1, <1>3, <1>4, <1>5 DEF CacheType, caches

(* Every step leaves the caches well typed and behind the store. *)
LEMMA CachesKept ==
  ASSUME TypeOK, [Next]_vars, StoreType', Grows
  PROVE  CacheType'
<1>0. StoreType /\ CacheType
  BY DEF TypeOK
<1>1. /\ Len(kpkg) \in Nat
      /\ \A c \in Configs : Len(config[c]) \in Nat
      /\ \A w \in Workloads : Len(workload[w]) \in Nat
      /\ \A m \in Manifests : Len(MetaLog(m)) \in Nat
  BY <1>0, ConfigsAssumption DEF StoreType, MetaLog, Manifests
<1>2. CASE UNCHANGED caches
  BY <1>2, CachesUnchanged
<1>3. CASE Informers
  <2>1. CASE DeliverKubePkg
    BY <1>0, <1>1, <2>1 DEF DeliverKubePkg, CacheType, store
  <2>2. ASSUME NEW c \in Configs, DeliverConfig(c) PROVE CacheType'
    BY <1>0, <1>1, <2>2 DEF DeliverConfig, CacheType, store
  <2>3. ASSUME NEW w \in Workloads, DeliverTyped(w) PROVE CacheType'
    BY <1>0, <1>1, <2>3 DEF DeliverTyped, CacheType, store
  <2>4. ASSUME NEW m \in Manifests, DeliverMeta(m) PROVE CacheType'
    <3>1. metaSeen' \in [Manifests -> Nat]
      BY <1>0, <1>1, <2>4 DEF DeliverMeta, CacheType
    <3> QED BY <1>0, <2>4, <3>1 DEF DeliverMeta, CacheType, store
  <2> QED BY <1>3, <2>1, <2>2, <2>3, <2>4 DEF Informers
<1>4. CASE Restart
  <2>1. Len(kpkg) > 0
    BY <1>0, <1>1 DEF CacheType
  <2> QED BY <1>0, <1>1, <1>4, <2>1 DEF Restart, CacheType, store
<1>5. Users \/ ApplyStep \/ (\E k \in ReloadKinds : ReloadStep(k))
        \/ ApplyFail \/ (\E k \in ReloadKinds : ReloadFail(k)) \/ UNCHANGED vars
      => UNCHANGED caches
  BY DEF Users, EditKubePkg, EditConfig, DeleteWorkload, ApplyStep, ApplyBegin,
         ApplyNext, ApplyWrite, ApplyEnd, ReloadStep, ReloadBegin, ReloadMark,
         ReloadMarkConflict, ReloadList, ReloadSkip, ReloadPatch,
         ReloadPatchConflict, ReloadEnd, ApplyFail, ReloadFail, vars
<1> QED BY <1>2, <1>3, <1>4, <1>5 DEF Next, Faults

(* Every step leaves the work queues, the bounds and the history well typed. *)
LEMMA QueuesKept ==
  ASSUME TypeOK, [Next]_vars
  PROVE  QueueType' /\ BoundType'
<1> USE ConfigsAssumption, BoundsAssumption
<1>0. /\ QueueType /\ BoundType
      /\ \A k \in ReloadKinds : reload[k].pc # "idle" => reload[k].on \in Configs
      /\ \A k \in ReloadKinds : reload[k].items # {} => reload[k].pc # "idle"
  BY DEF TypeOK, ReloadType
<1>1. CASE Users
  <2>1. queues' = queues /\ behind' = behind /\ faults' = faults
    BY <1>1 DEF Users, EditKubePkg, EditConfig, DeleteWorkload
  <2>2. edits < MaxEdits /\ edits' = edits + 1
    BY <1>1 DEF Users, EditKubePkg, EditConfig, DeleteWorkload
  <2> QED BY <1>0, <2>1, <2>2 DEF QueueType, BoundType, queues
<1>2. CASE Informers
  BY <1>0, <1>2 DEF Informers, DeliverKubePkg, DeliverConfig, DeliverTyped, DeliverMeta,
                    QueueType, BoundType, queues, bounds
<1>3. CASE ApplyStep
  <2>1. ASSUME NEW m \in Manifests, ApplyNext(m) PROVE QueueType' /\ BoundType'
    <3>1. /\ UNCHANGED <<queues, edits, behind>>
          /\ \/ UNCHANGED faults
             \/ faults < MaxFaults /\ faults' = faults + 1
      BY <2>1 DEF ApplyNext, ExtractedOrder
    <3> QED BY <1>0, <3>1 DEF QueueType, BoundType, queues
  <2>2. CASE ApplyBegin \/ ApplyWrite \/ ApplyEnd
    BY <1>0, <2>2 DEF ApplyBegin, ApplyWrite, ApplyEnd, QueueType, BoundType, queues, bounds
  <2> QED BY <1>3, <2>1, <2>2 DEF ApplyStep
<1>4. ASSUME NEW k \in ReloadKinds, ReloadStep(k) PROVE QueueType' /\ BoundType'
  <2>1. CASE ReloadList(k)
    <3>1. PICK c : c = reload[k].on /\ c \in Configs
      BY <1>0, <2>1 DEF ReloadList
    <3>2. behind' \subseteq behind \union (Workloads \X {c})
      BY <2>1, <3>1 DEF ReloadList
    <3> QED BY <1>0, <2>1, <3>1, <3>2 DEF ReloadList, QueueType, BoundType, queues, bounds
  <2>2. CASE ReloadMarkConflict(k)
    BY <1>0, <2>2 DEF ReloadMarkConflict, Requeue, QueueType, BoundType, bounds
  <2>3. CASE \E i \in reload[k].items : ReloadPatchConflict(k, i)
    BY <1>0, <2>3 DEF ReloadPatchConflict, Requeue, QueueType, BoundType, bounds
  <2>4. CASE \/ \E c \in Configs : ReloadBegin(k, c)
             \/ ReloadMark(k) \/ ReloadEnd(k)
             \/ \E i \in reload[k].items : ReloadSkip(k, i) \/ ReloadPatch(k, i)
    BY <1>0, <2>4 DEF ReloadBegin, ReloadMark, ReloadEnd, ReloadSkip, ReloadPatch,
                      QueueType, BoundType, queues, bounds
  <2> QED BY <1>4, <2>1, <2>2, <2>3, <2>4 DEF ReloadStep
<1>5. CASE Faults
  <2>1. CASE ApplyFail
    BY <1>0, <2>1 DEF ApplyFail, QueueType, BoundType
  <2>2. ASSUME NEW k \in ReloadKinds, ReloadFail(k) PROVE QueueType' /\ BoundType'
    <3>1. reload[k].on \in Configs
      BY <1>0, <2>2 DEF ReloadFail
    <3> QED BY <1>0, <2>2, <3>1 DEF ReloadFail, Requeue, QueueType, BoundType
  <2>3. CASE Restart
    BY <1>0, <2>3 DEF Restart, QueueType, BoundType
  <2> QED BY <1>5, <2>1, <2>2, <2>3 DEF Faults
<1>6. CASE UNCHANGED vars
  BY <1>0, <1>6 DEF vars, QueueType, BoundType, queues, bounds
<1> QED BY <1>1, <1>2, <1>3, <1>4, <1>5, <1>6 DEF Next

(* An apply worker that does not move stays well typed. *)
LEMMA ApplyUnchanged ==
  ASSUME TypeOK, StoreType', Grows, UNCHANGED apply
  PROVE  ApplyType'
<1>1. StoreType /\ ApplyType
  BY DEF TypeOK
<1>2. Len(kpkg) \in Nat /\ Len(kpkg') \in Nat /\ Len(kpkg) <= Len(kpkg')
  BY <1>1 DEF StoreType, Grows
<1> QED BY <1>1, <1>2 DEF ApplyType

(* A worker that is done is well typed. *)
LEMMA ApplyIdleType ==
  ASSUME StoreType', apply' = ApplyIdle
  PROVE  ApplyType'
<1>1. Len(kpkg') \in Nat
  BY DEF StoreType
<1> QED BY <1>1 DEF ApplyType, ApplyIdle, NoHashes, Hashes

(* Every step leaves the apply worker well typed. *)
LEMMA ApplyKept ==
  ASSUME TypeOK, [Next]_vars, StoreType', Grows
  PROVE  ApplyType'
<1>0. StoreType /\ CacheType /\ ApplyType
  BY DEF TypeOK
<1>1. Len(kpkg) \in Nat
  BY <1>0 DEF StoreType
<1>2. CASE UNCHANGED apply
  BY <1>2, ApplyUnchanged
<1>3. CASE apply' = ApplyIdle
  BY <1>3, ApplyIdleType
<1>4. CASE ApplyBegin
  <2>1. apply' = [pc |-> "loop", spec |-> kpkgSeen, todo |-> Manifests, on |-> None,
                  hash |-> NoHashes, order |-> None]
    BY <1>4 DEF ApplyBegin, ApplyIdle
  <2>2. kpkg' = kpkg /\ kpkgSeen \in 1..Len(kpkg) /\ NoHashes \in [Configs -> Hashes]
    BY <1>0, <1>4 DEF ApplyBegin, CacheType, store, NoHashes, Hashes
  <2> QED BY <1>1, <2>1, <2>2 DEF ApplyType
<1>5. ASSUME NEW m \in Manifests, ApplyNext(m) PROVE ApplyType'
  <2>1. kpkg[apply.spec] \in SpecValue
    BY <1>0, <1>5 DEF ApplyNext, ApplyType, StoreType
  <2>2. \A c \in Configs : configSeen[c] > 0 => config[c][configSeen[c]].data \in Data
    <3>1. \A c \in Configs : configSeen[c] > 0 => config[c][configSeen[c]] \in ConfigValue
      BY <1>0 DEF StoreType, CacheType
    <3> QED BY <3>1 DEF ConfigValue
  <2>3. NoHashes \in [Configs -> Hashes]
    BY DEF NoHashes, Hashes
  <2>4. m \in Workloads => PatchedHash(m, kpkg[apply.spec]) \in [Configs -> Hashes]
    BY <2>1, <2>2 DEF PatchedHash, ExtractedHash, Hashes, SpecValue
  <2>5. apply'.hash \in [Configs -> Hashes]
    BY <1>0, <1>5, <2>3, <2>4 DEF ApplyNext, ApplyType
  <2>6. \E order \in Orders \union {None} :
          /\ m \in Workloads => order \in Orders
          /\ apply' = [apply EXCEPT !.pc = "write", !.on = m, !.todo = @ \ {m},
                                    !.order = order, !.hash = apply'.hash]
    BY <1>0, <1>5 DEF ApplyNext, ApplyType, ExtractedOrder
  <2>7. kpkg' = kpkg /\ apply.spec > 0
    BY <1>0, <1>5 DEF ApplyNext, ApplyType, store
  <2>8. PICK order \in Orders \union {None} :
          /\ m \in Workloads => order \in Orders
          /\ apply' = [apply EXCEPT !.pc = "write", !.on = m, !.todo = @ \ {m},
                                    !.order = order, !.hash = apply'.hash]
    BY <2>6
  <2> DEFINE hash == apply'.hash
  <2>9. /\ apply' = [pc |-> "write", spec |-> apply.spec, todo |-> apply.todo \ {m}, on |-> m,
                     hash |-> hash, order |-> order]
        /\ apply.spec \in 0..Len(kpkg) /\ apply.todo \in SUBSET Manifests
        /\ hash \in [Configs -> Hashes]
    BY <1>0, <2>5, <2>8 DEF ApplyType
  <2> HIDE DEF hash
  <2> QED BY <2>7, <2>8, <2>9 DEF ApplyType
<1>6. CASE ApplyWrite
  BY <1>0, <1>1, <1>6 DEF ApplyWrite, ApplyType, NoHashes, Hashes
<1>7. Users \/ Informers \/ (\E k \in ReloadKinds : ReloadStep(k) \/ ReloadFail(k))
        \/ UNCHANGED vars => UNCHANGED apply
  BY DEF Users, EditKubePkg, EditConfig, DeleteWorkload, Informers, DeliverKubePkg,
         DeliverConfig, DeliverTyped, DeliverMeta, ReloadStep, ReloadBegin, ReloadMark,
         ReloadMarkConflict, ReloadList, ReloadSkip, ReloadPatch, ReloadPatchConflict,
         ReloadEnd, ReloadFail, vars, workers
<1>8. ApplyEnd \/ ApplyFail \/ Restart => apply' = ApplyIdle
  BY DEF ApplyEnd, ApplyFail, Restart
<1> QED BY <1>2, <1>3, <1>4, <1>5, <1>6, <1>7, <1>8 DEF Next, ApplyStep, Faults

(* A reload worker that does not move stays well typed. *)
LEMMA ReloadUnchanged ==
  ASSUME TypeOK, StoreType', Grows, NEW k \in ReloadKinds, reload'[k] = reload[k]
  PROVE  ReloadType(k)'
<1>1. StoreType /\ ReloadType(k)
  BY DEF TypeOK
<1>2. /\ \A c \in Configs : Len(config[c]) \in Nat /\ Len(config'[c]) \in Nat
      /\ \A w \in Workloads : Len(workload[w]) \in Nat /\ Len(workload'[w]) \in Nat
  BY <1>1 DEF StoreType
<1>3. reload[k].pc # "idle" => reload[k].version \in 1..Len(config'[reload[k].on])
  BY <1>1, <1>2 DEF ReloadType, Grows
<1>4. \A i \in reload[k].items : i[2] <= Len(workload'[i[1]])
  BY <1>1, <1>2 DEF ReloadType, Grows
<1> QED BY <1>1, <1>3, <1>4 DEF ReloadType

(* Every step of a reload worker leaves it well typed, and the other as it was. *)
LEMMA ReloadStepType ==
  ASSUME TypeOK, StoreType', Grows, NEW k \in ReloadKinds, ReloadStep(k) \/ ReloadFail(k)
  PROVE  /\ DOMAIN reload' = ReloadKinds
         /\ ReloadType(k)'
         /\ \A j \in ReloadKinds \ {k} : reload'[j] = reload[j]
<1>0. /\ StoreType /\ CacheType /\ QueueType /\ ReloadType(k)
      /\ DOMAIN reload = ReloadKinds
  BY DEF TypeOK
<1>1. ASSUME NEW w, Worker(k, w)
      PROVE  /\ DOMAIN reload' = ReloadKinds /\ reload'[k] = w
             /\ \A j \in ReloadKinds \ {k} : reload'[j] = reload[j]
  BY <1>0, <1>1 DEF Worker
<1>2. ReloadType(k)'
  <2>1. CASE Worker(k, ReloadIdle)
    <3>1. reload'[k] = [pc |-> "idle", on |-> None, data |-> None, version |-> 0,
                        kinds |-> <<>>, items |-> {}]
      BY <1>0, <2>1 DEF Worker, ReloadIdle
    <3> QED BY <3>1 DEF ReloadType
  <2>2. ASSUME NEW c \in Configs, ReloadBegin(k, c) PROVE ReloadType(k)'
    <3>1. CASE UNCHANGED reload
      BY <3>1, ReloadUnchanged
    <3>2. CASE ~UNCHANGED reload
      <4>1. config' = config /\ config[c] \in Seq(ConfigValue) /\ Exists(config[c])
        BY <1>0, <2>2, <3>2 DEF ReloadBegin, StoreType, store
      <4>2. Latest(config[c]) \in ConfigValue /\ Len(config[c]) \in 1..Len(config[c])
        BY <4>1 DEF Exists, Latest
      <4>3. Latest(config[c]).data \in Data
        BY <4>2 DEF ConfigValue
      <4>4. reload'[k] = [pc |-> "patch", on |-> c, data |-> Latest(config[c]).data,
                          version |-> Len(config[c]), kinds |-> <<>>, items |-> {}]
        BY <1>0, <2>2, <3>2 DEF ReloadBegin, ReloadIdle, Worker
      <4> QED BY <4>1, <4>2, <4>3, <4>4 DEF ReloadType
    <3> QED BY <3>1, <3>2
  <2>3. CASE ReloadMark(k)
    <3>1. PICK c \in Configs : c = reload[k].on
      BY <1>0, <2>3 DEF ReloadMark, ReloadType
    <3>2. Len(config[c]) \in Nat /\ Len(config'[c]) \in Nat /\ Len(config[c]) <= Len(config'[c])
      BY <1>0 DEF StoreType, Grows
    <3>3. Worker(k, [reload[k] EXCEPT !.pc = "range", !.kinds = WorkloadKinds])
      BY <2>3 DEF ReloadMark
    <3>4. reload'[k] = [reload[k] EXCEPT !.pc = "range", !.kinds = WorkloadKinds]
      BY <1>1, <3>3
    <3>5. reload[k].version \in 1..Len(config'[c]) /\ reload[k].items = {}
      BY <1>0, <2>3, <3>1, <3>2 DEF ReloadMark, ReloadType
    <3> QED BY <1>0, <3>1, <3>4, <3>5, WorkloadsAssumption DEF ReloadType
  <2>4. CASE ReloadList(k)
    <3>1. Worker(k, [reload[k] EXCEPT !.kinds = Tail(@),
                       !.items = ListedItems(reload[k].on, Head(reload[k].kinds))])
      BY <2>4 DEF ReloadList
    <3>2. \A w \in Workloads : typedSeen[w] \in Nat /\ typedSeen[w] <= Len(workload[w])
      BY <1>0 DEF CacheType
    <3>3. /\ ListedItems(reload[k].on, Head(reload[k].kinds)) \subseteq Workloads \X (Nat \ {0})
          /\ \A i \in ListedItems(reload[k].on, Head(reload[k].kinds)) :
               i[2] <= Len(workload[i[1]])
      BY <3>2 DEF ListedItems
    <3>4. Tail(reload[k].kinds) \in Seq(KindNames)
      BY <1>0, <2>4 DEF ReloadList, ReloadType
    <3>5. config' = config /\ workload' = workload /\ reload[k].pc = "range"
      BY <2>4 DEF ReloadList, store
    <3>6. reload'[k] = [reload[k] EXCEPT !.kinds = Tail(@),
                          !.items = ListedItems(reload[k].on, Head(reload[k].kinds))]
      BY <1>1, <3>1
    <3> QED BY <1>0, <3>3, <3>4, <3>5, <3>6 DEF ReloadType
  <2>5. ASSUME NEW i \in reload[k].items, ReloadSkip(k, i) \/ ReloadPatch(k, i)
        PROVE  ReloadType(k)'
    <3>1. Worker(k, [reload[k] EXCEPT !.items = @ \ {i}]) /\ config' = config
      BY <2>5 DEF ReloadSkip, ReloadPatch, store
    <3>2. \A j \in reload[k].items :
            /\ j \in Workloads \X (Nat \ {0})
            /\ Len(workload[j[1]]) \in Nat /\ Len(workload'[j[1]]) \in Nat
            /\ Len(workload[j[1]]) <= Len(workload'[j[1]])
      BY <1>0 DEF ReloadType, StoreType, Grows
    <3>3. \A j \in reload[k].items : j[2] <= Len(workload'[j[1]])
      BY <1>0, <3>2 DEF ReloadType
    <3>4. reload'[k] = [reload[k] EXCEPT !.items = @ \ {i}]
      BY <1>1, <3>1
    <3> QED BY <1>0, <3>1, <3>3, <3>4 DEF ReloadType
  <2>6. ReloadMarkConflict(k) \/ ReloadEnd(k) \/ ReloadFail(k)
          \/ (\E i \in reload[k].items : ReloadPatchConflict(k, i)) => Worker(k, ReloadIdle)
    BY DEF ReloadMarkConflict, ReloadEnd, ReloadFail, ReloadPatchConflict
  <2> QED BY <2>1, <2>2, <2>3, <2>4, <2>5, <2>6 DEF ReloadStep
<1>3. UNCHANGED reload \/ \E w : Worker(k, w)
  BY DEF ReloadStep, ReloadBegin, ReloadMark, ReloadMarkConflict, ReloadList,
         ReloadSkip, ReloadPatch, ReloadPatchConflict, ReloadEnd, ReloadFail
<1> QED BY <1>0, <1>1, <1>2, <1>3

(* Every step leaves the reload workers well typed. *)
LEMMA ReloadKept ==
  ASSUME TypeOK, [Next]_vars, StoreType', Grows
  PROVE  DOMAIN reload' = ReloadKinds /\ \A k \in ReloadKinds : ReloadType(k)'
<1>1. DOMAIN reload = ReloadKinds
  BY DEF TypeOK
<1>2. CASE UNCHANGED reload
  BY <1>1, <1>2, ReloadUnchanged
<1>3. ASSUME NEW k \in ReloadKinds, ReloadStep(k) \/ ReloadFail(k)
      PROVE  DOMAIN reload' = ReloadKinds /\ \A j \in ReloadKinds : ReloadType(j)'
  BY <1>3, ReloadStepType, ReloadUnchanged
<1>4. CASE Restart
  BY <1>4 DEF Restart, ReloadType, ReloadIdle
<1>5. Users \/ Informers \/ ApplyStep \/ ApplyFail \/ UNCHANGED vars => UNCHANGED reload
  BY DEF Users, EditKubePkg, EditConfig, DeleteWorkload, Informers, DeliverKubePkg,
         DeliverConfig, DeliverTyped, DeliverMeta, ApplyStep, ApplyBegin, ApplyNext,
         ApplyWrite, ApplyEnd, ApplyFail, vars, workers
<1> QED BY <1>2, <1>3, <1>4, <1>5 DEF Next, Faults

LEMMA NextType == TypeOK /\ [Next]_vars => TypeOK'
  BY StoreKept, CachesKept, QueuesKept, ApplyKept, ReloadKept DEF TypeOK

(* Whatever the users do and whatever fails, the operator works on versions  *)
(* that exist: no cache is ahead of the API server, and no worker holds an   *)
(* object that was never there (kubepkg_apply.go, reload_configmap.go).      *)
THEOREM TypeCorrect == Spec => []TypeOK
  BY InitType, NextType, PTL DEF Spec

-----------------------------------------------------------------------------
(* Where hashes come from.                                                 *)

(* The hashes a config that users manage may have left: every content it had. *)
Past(c) == {None} \union {config[c][i].data : i \in 1..Len(config[c])}

(* The inductive invariant: a hash is a past content wherever it is on its  *)
(* way, in the apply worker, in a reload worker and in every version of a   *)
(* workload, because a reload writes back an older version's other hashes.  *)
HashInv ==
  /\ \A w \in Workloads, c \in External :
       \A i \in 1..Len(workload[w]) : workload[w][i].hash[c] \in Past(c)
  /\ \A c \in External : apply.hash[c] \in Past(c)
  /\ \A k \in ReloadKinds, c \in External : reload[k].on = c => reload[k].data \in Past(c)

LEMMA InitHash == Init => HashInv
<1> SUFFICES ASSUME Init PROVE HashInv
  OBVIOUS
<1>1. \A c \in External : NoHashes[c] = None
  BY DEF NoHashes, External
<1> QED BY <1>1, ValuesAssumption
        DEF Init, HashInv, Past, ApplyIdle, ReloadIdle, External

(* No content of a config is forgotten. *)
LEMMA PastGrows ==
  ASSUME StoreType, StoreType', Grows, NEW c \in External
  PROVE  Past(c) \subseteq Past(c)'
<1>1. Len(config[c]) \in Nat /\ Len(config'[c]) \in Nat /\ c \in Configs
  BY DEF StoreType, External
<1> QED BY <1>1 DEF Grows, Past

(* A version that is added carries past contents. *)
LEMMA VersionAdded ==
  ASSUME TypeOK, HashInv, StoreType', Grows, NEW w \in Workloads, NEW v,
         workload' = [workload EXCEPT ![w] = Append(@, v)]
           \/ workload' = [workload EXCEPT ![w] = Write(@, v)],
         \A c \in External : v.hash[c] \in Past(c)
  PROVE  \A x \in Workloads, c \in External :
           \A i \in 1..Len(workload'[x]) : workload'[x][i].hash[c] \in Past(c)'
<1>0. StoreType
  BY DEF TypeOK
<1>1. workload'[w] = workload[w] \/ workload'[w] = Append(workload[w], v)
  BY <1>0 DEF StoreType, Write
<1>2. \A x \in Workloads \ {w} : workload'[x] = workload[x]
  BY <1>0 DEF StoreType
<1> SUFFICES ASSUME NEW x \in Workloads, NEW c \in External, NEW i \in 1..Len(workload'[x])
             PROVE  workload'[x][i].hash[c] \in Past(c)
  BY <1>0, PastGrows
<1>3. CASE workload'[x] = workload[x]
  BY <1>3 DEF HashInv
<1>4. CASE x = w /\ workload'[x] = Append(workload[x], v)
  <2>1. workload[x] \in Seq(WorkloadValue) /\ Len(workload'[x]) = Len(workload[x]) + 1
    BY <1>0, <1>4 DEF StoreType
  <2>2. CASE i \in 1..Len(workload[x])
    <3>1. workload'[x][i] = workload[x][i]
      BY <1>4, <2>1, <2>2
    <3> QED BY <2>2, <3>1 DEF HashInv
  <2>3. CASE i = Len(workload[x]) + 1
    <3>1. workload'[x][i] = v
      BY <1>4, <2>1, <2>3
    <3> QED BY <3>1
  <2>4. i \in 1..Len(workload[x]) \/ i = Len(workload[x]) + 1
    BY <2>1
  <2> QED BY <2>2, <2>3, <2>4
<1> QED BY <1>1, <1>2, <1>3, <1>4

(* A step that leaves the workloads alone. *)
LEMMA VersionsUnchanged ==
  ASSUME TypeOK, HashInv, StoreType', Grows, UNCHANGED workload
  PROVE  \A x \in Workloads, c \in External :
           \A i \in 1..Len(workload'[x]) : workload'[x][i].hash[c] \in Past(c)'
<1>0. StoreType
  BY DEF TypeOK
<1> QED BY <1>0, PastGrows DEF HashInv

(* What the apply worker writes carries past contents. *)
LEMMA AppliedHashes ==
  ASSUME TypeOK, HashInv, StoreType', Grows, apply.pc = "write", ApplyEffect
  PROVE  \A x \in Workloads, c \in External :
           \A i \in 1..Len(workload'[x]) : workload'[x][i].hash[c] \in Past(c)'
<1> DEFINE m == apply.on
           v == AppliedWorkload(m, kpkg[apply.spec], apply.hash, apply.order)
<1>1. CASE m \notin Workloads
  BY <1>1, VersionsUnchanged DEF ApplyEffect
<1>2. CASE m \in Workloads
  <2>1. workload' = [workload EXCEPT ![m] = Write(@, v)]
    BY <1>2 DEF ApplyEffect
  <2>2. ASSUME NEW c \in External PROVE v.hash[c] \in Past(c)
    <3>1. v.hash[c] \in {apply.hash[c], None}
            \/ (Exists(workload[m]) /\ v.hash[c] = Latest(workload[m]).hash[c])
      BY <1>2 DEF AppliedWorkload, External
    <3>2. Exists(workload[m]) => Latest(workload[m]).hash[c] \in Past(c)
      <4>1. Exists(workload[m]) => Len(workload[m]) \in 1..Len(workload[m])
        BY <1>2 DEF Exists, TypeOK, StoreType
      <4> QED BY <1>2, <4>1 DEF HashInv, Latest
    <3>3. apply.hash[c] \in Past(c) /\ None \in Past(c)
      BY DEF HashInv, Past
    <3> QED BY <3>1, <3>2, <3>3
  <2> QED BY <1>2, <2>1, <2>2, VersionAdded
<1> QED BY <1>1, <1>2

(* What a reload worker writes carries past contents. *)
LEMMA ReloadedHashes ==
  ASSUME TypeOK, HashInv, StoreType', Grows, NEW k \in ReloadKinds, NEW i \in reload[k].items,
         workload' = [workload EXCEPT ![i[1]] = Append(@, Rehashed(reload[k], i))]
  PROVE  \A x \in Workloads, c \in External :
           \A j \in 1..Len(workload'[x]) : workload'[x][j].hash[c] \in Past(c)'
<1> DEFINE v == Rehashed(reload[k], i)
<1>1. /\ i[1] \in Workloads /\ i[2] \in 1..Len(workload[i[1]])
      /\ workload[i[1]] \in Seq(WorkloadValue)
  BY DEF TypeOK, ReloadType, StoreType
<1>2. workload[i[1]][i[2]] \in WorkloadValue
  BY <1>1
<1>3. ASSUME NEW c \in External PROVE v.hash[c] \in Past(c)
  <2>1. v.hash[c] = IF c = reload[k].on THEN reload[k].data ELSE workload[i[1]][i[2]].hash[c]
    BY <1>2 DEF Rehashed, WorkloadValue, External
  <2> QED BY <1>1, <2>1 DEF HashInv
<1> QED BY <1>1, <1>3, VersionAdded

LEMMA NextVersions ==
  ASSUME TypeOK, HashInv, [Next]_vars, StoreType', Grows
  PROVE  \A x \in Workloads, c \in External :
           \A i \in 1..Len(workload'[x]) : workload'[x][i].hash[c] \in Past(c)'
<1>1. CASE UNCHANGED workload
  BY <1>1, VersionsUnchanged
<1>2. ASSUME NEW w \in Workloads, DeleteWorkload(w)
      PROVE  \A x \in Workloads, c \in External :
               \A i \in 1..Len(workload'[x]) : workload'[x][i].hash[c] \in Past(c)'
  <2> DEFINE v == [Latest(workload[w]) EXCEPT !.live = FALSE, !.hash = NoHashes]
  <2>1. workload' = [workload EXCEPT ![w] = Append(@, v)]
    BY <1>2 DEF DeleteWorkload
  <2>2. \A c \in External : v.hash[c] \in Past(c)
    BY DEF NoHashes, External, Past
  <2> QED BY <2>1, <2>2, VersionAdded
<1>3. CASE ApplyWrite \/ ApplyFail
  <2>1. apply.pc = "write" /\ (ApplyEffect \/ UNCHANGED workload)
    BY <1>3 DEF ApplyWrite, ApplyFail
  <2> QED BY <1>1, <2>1, AppliedHashes
<1>4. ASSUME NEW k \in ReloadKinds, NEW i \in reload[k].items, ReloadPatch(k, i)
      PROVE  \A x \in Workloads, c \in External :
               \A j \in 1..Len(workload'[x]) : workload'[x][j].hash[c] \in Past(c)'
  BY <1>4, ReloadedHashes DEF ReloadPatch
<1>5. ASSUME NEW k \in ReloadKinds, ReloadFail(k)
      PROVE  \A x \in Workloads, c \in External :
               \A j \in 1..Len(workload'[x]) : workload'[x][j].hash[c] \in Past(c)'
  BY <1>1, <1>5, ReloadedHashes DEF ReloadFail
<1>6. \/ UNCHANGED workload
      \/ \E w \in Workloads : DeleteWorkload(w)
      \/ ApplyWrite \/ ApplyFail
      \/ \E k \in ReloadKinds : ReloadFail(k) \/ \E i \in reload[k].items : ReloadPatch(k, i)
  BY DEF Next, Users, EditKubePkg, EditConfig, Informers, DeliverKubePkg, DeliverConfig,
         DeliverTyped, DeliverMeta, ApplyStep, ApplyBegin, ApplyNext, ApplyEnd, ReloadStep,
         ReloadBegin, ReloadMark, ReloadMarkConflict, ReloadList, ReloadSkip,
         ReloadPatchConflict, ReloadEnd, Faults, Restart, vars, store
<1> QED BY <1>1, <1>2, <1>3, <1>4, <1>5, <1>6

LEMMA NextApplyHash ==
  ASSUME TypeOK, HashInv, [Next]_vars, StoreType', Grows
  PROVE  \A c \in External : apply'.hash[c] \in Past(c)'
<1>0. StoreType /\ CacheType /\ ApplyType
  BY DEF TypeOK
<1>1. CASE apply'.hash = apply.hash
  BY <1>0, <1>1, PastGrows DEF HashInv
<1>2. CASE apply'.hash = NoHashes
  BY <1>2 DEF NoHashes, External, Past
<1>3. ASSUME NEW m \in Workloads, ApplyNext(m)
      PROVE  \A c \in External : apply'.hash[c] \in Past(c)'
  <2>1. apply'.hash = PatchedHash(m, kpkg[apply.spec])
    BY <1>0, <1>3 DEF ApplyNext, ApplyType
  <2>2. ASSUME NEW c \in External PROVE PatchedHash(m, kpkg[apply.spec])[c] \in Past(c)
    <3>1. \/ PatchedHash(m, kpkg[apply.spec])[c] = None
          \/ /\ configSeen[c] > 0
             /\ PatchedHash(m, kpkg[apply.spec])[c] = config[c][configSeen[c]].data
      BY DEF PatchedHash, ExtractedHash, External
    <3>2. configSeen[c] > 0 => configSeen[c] \in 1..Len(config[c])
      BY <1>0 DEF CacheType, StoreType, External
    <3> QED BY <3>1, <3>2 DEF Past
  <2> QED BY <1>0, <2>1, <2>2, PastGrows
<1>4. \/ apply'.hash = apply.hash
      \/ apply'.hash = NoHashes
      \/ \E m \in Workloads : ApplyNext(m)
  <2>1. UNCHANGED apply => apply'.hash = apply.hash
    OBVIOUS
  <2>2. ApplyBegin \/ ApplyWrite \/ ApplyEnd \/ ApplyFail \/ Restart => apply'.hash = NoHashes
    <3>1. CASE ApplyBegin
      BY <3>1 DEF ApplyBegin, ApplyIdle
    <3>2. CASE ApplyWrite
      BY <1>0, <3>2 DEF ApplyWrite, ApplyType
    <3>3. CASE ApplyEnd \/ ApplyFail \/ Restart
      BY <3>3 DEF ApplyEnd, ApplyFail, Restart, ApplyIdle
    <3> QED BY <3>1, <3>2, <3>3
  <2>3. ASSUME NEW m \in Manifests, ApplyNext(m)
        PROVE  m \in Workloads \/ apply'.hash = NoHashes
    BY <1>0, <2>3 DEF ApplyNext, ApplyType
  <2>4. Users \/ Informers \/ (\E k \in ReloadKinds : ReloadStep(k) \/ ReloadFail(k))
          \/ UNCHANGED vars => UNCHANGED apply
    BY DEF Users, EditKubePkg, EditConfig, DeleteWorkload, Informers, DeliverKubePkg,
           DeliverConfig, DeliverTyped, DeliverMeta, ReloadStep, ReloadBegin, ReloadMark,
           ReloadMarkConflict, ReloadList, ReloadSkip, ReloadPatch, ReloadPatchConflict,
           ReloadEnd, ReloadFail, vars, workers
  <2> QED BY <2>1, <2>2, <2>3, <2>4 DEF Next, ApplyStep, Faults
<1> QED BY <1>1, <1>2, <1>3, <1>4

LEMMA NextReloadHash ==
  ASSUME TypeOK, HashInv, [Next]_vars, StoreType', Grows
  PROVE  \A k \in ReloadKinds, c \in External :
           reload'[k].on = c => reload'[k].data \in Past(c)'
<1>0. /\ StoreType /\ DOMAIN reload = ReloadKinds
      /\ \A k \in ReloadKinds : ReloadType(k)
  BY DEF TypeOK
<1>1. ASSUME NEW k \in ReloadKinds,
             /\ reload'[k].on = reload[k].on /\ reload'[k].data = reload[k].data
      PROVE  \A d \in External : reload'[k].on = d => reload'[k].data \in Past(d)'
  BY <1>0, <1>1, PastGrows DEF HashInv
<1>2. ASSUME NEW k \in ReloadKinds, reload'[k] = ReloadIdle
      PROVE  \A d \in External : reload'[k].on = d => reload'[k].data \in Past(d)'
  BY <1>2 DEF ReloadIdle, Past
<1>3. ASSUME NEW k \in ReloadKinds, NEW c \in Configs, ReloadBegin(k, c), ~UNCHANGED reload
      PROVE  \A d \in External : reload'[k].on = d => reload'[k].data \in Past(d)'
  <2>1. /\ Exists(config[c])
        /\ reload'[k].on = c /\ reload'[k].data = Latest(config[c]).data
    BY <1>0, <1>3 DEF ReloadBegin, Worker, ReloadIdle
  <2>2. Len(config[c]) \in 1..Len(config[c])
    BY <1>0, <2>1 DEF Exists, StoreType
  <2>3. Latest(config[c]).data \in Past(c)
    BY <2>2 DEF Past, Latest
  <2> QED BY <1>0, <2>1, <2>3, PastGrows
<1>4. ASSUME NEW k \in ReloadKinds, ReloadStep(k) \/ ReloadFail(k)
      PROVE  /\ \A j \in ReloadKinds \ {k} : reload'[j] = reload[j]
             /\ \/ /\ reload'[k].on = reload[k].on /\ reload'[k].data = reload[k].data
                \/ reload'[k] = ReloadIdle
                \/ (\E c \in Configs : ReloadBegin(k, c)) /\ ~UNCHANGED reload
  <2>1. UNCHANGED reload \/ \E w : Worker(k, w)
    BY <1>4 DEF ReloadStep, ReloadBegin, ReloadMark, ReloadMarkConflict, ReloadList,
                ReloadSkip, ReloadPatch, ReloadPatchConflict, ReloadEnd, ReloadFail
  <2>2. \A j \in ReloadKinds \ {k} : reload'[j] = reload[j]
    BY <1>0, <2>1 DEF Worker
  <2>3. ReloadMarkConflict(k) \/ ReloadEnd(k) \/ ReloadFail(k)
          \/ (\E i \in reload[k].items : ReloadPatchConflict(k, i)) => reload'[k] = ReloadIdle
    BY <1>0 DEF ReloadMarkConflict, ReloadEnd, ReloadFail, ReloadPatchConflict, Worker
  <2>4. ReloadMark(k) \/ ReloadList(k)
          \/ (\E i \in reload[k].items : ReloadSkip(k, i) \/ ReloadPatch(k, i))
          \/ UNCHANGED reload
        => reload'[k].on = reload[k].on /\ reload'[k].data = reload[k].data
    <3>1. reload[k] = [pc |-> reload[k].pc, on |-> reload[k].on, data |-> reload[k].data,
                       version |-> reload[k].version, kinds |-> reload[k].kinds,
                       items |-> reload[k].items]
      BY <1>0 DEF ReloadType
    <3>2. CASE ReloadMark(k)
      BY <1>0, <3>1, <3>2 DEF ReloadMark, Worker
    <3>3. CASE ReloadList(k)
      BY <1>0, <3>1, <3>3 DEF ReloadList, Worker
    <3>4. ASSUME NEW i, ReloadSkip(k, i) \/ ReloadPatch(k, i)
          PROVE  reload'[k].on = reload[k].on /\ reload'[k].data = reload[k].data
      BY <1>0, <3>1, <3>4 DEF ReloadSkip, ReloadPatch, Worker
    <3> QED BY <3>2, <3>3, <3>4
  <2> QED BY <1>4, <2>2, <2>3, <2>4 DEF ReloadStep
<1>5. \/ UNCHANGED reload
      \/ \A k \in ReloadKinds : reload'[k] = ReloadIdle
      \/ \E k \in ReloadKinds : ReloadStep(k) \/ ReloadFail(k)
  BY DEF Next, Users, EditKubePkg, EditConfig, DeleteWorkload, Informers, DeliverKubePkg,
         DeliverConfig, DeliverTyped, DeliverMeta, ApplyStep, ApplyBegin, ApplyNext,
         ApplyWrite, ApplyEnd, Faults, ApplyFail, Restart, vars, workers
<1> QED BY <1>1, <1>2, <1>3, <1>4, <1>5

LEMMA NextHash == TypeOK /\ HashInv /\ [Next]_vars => HashInv'
  BY StoreKept, NextVersions, NextApplyHash, NextReloadHash DEF HashInv

LEMMA HashInvImplies == TypeOK /\ HashInv => HashIsPastData
<1> SUFFICES ASSUME TypeOK, HashInv, NEW w \in Workloads, NEW c \in External,
                    Exists(workload[w])
             PROVE  Latest(workload[w]).hash[c]
                      \in {None} \union {config[c][i].data : i \in DOMAIN config[c]}
  BY DEF HashIsPastData
<1>1. Len(workload[w]) \in 1..Len(workload[w]) /\ DOMAIN config[c] = 1..Len(config[c])
  BY DEF TypeOK, StoreType, Exists, External
<1> QED BY <1>1 DEF HashInv, Latest, Past

(* No reload and no apply makes up a hash: what a workload carries for a     *)
(* config is the hash of a content that config had, whichever stale cache    *)
(* the apply read and whichever read the reload acted on later.              *)
THEOREM HashesArePast == Spec => []HashIsPastData
  BY TypeCorrect, InitHash, NextHash, HashInvImplies, PTL DEF Spec

-----------------------------------------------------------------------------
(* A reload never undoes an apply: it writes back a listed workload only if  *)
(* that is still the live one, so what it keeps is what was last applied     *)
(* (the resource version a merge patch carries, reload_configmap.go:73).     *)
THEOREM ReloadsKeepSpec == Spec => ReloadKeepsSpec
<1> DEFINE Kept == \A w \in Workloads :
       /\ Exists(workload[w]) /\ workload'[w] # workload[w]
       /\ Latest(workload[w]').image # Latest(workload[w]).image
            \/ (Latest(workload[w]').live /\ ~Latest(workload[w]).live)
       => apply.pc = "write" /\ apply.on = w
<1>1. ASSUME TypeOK, Next PROVE Kept
  <2> SUFFICES ASSUME NEW w \in Workloads, Exists(workload[w]), workload'[w] # workload[w],
                      ~(apply.pc = "write" /\ apply.on = w)
               PROVE  /\ Latest(workload[w]').image = Latest(workload[w]).image
                      /\ Latest(workload[w]').live => Latest(workload[w]).live
    OBVIOUS
  <2>0. StoreType /\ workload[w] \in Seq(WorkloadValue) /\ Len(workload[w]) \in 1..Len(workload[w])
    <3>1. StoreType
      BY <1>1 DEF TypeOK
    <3>2. workload[w] \in Seq(WorkloadValue)
      BY <3>1 DEF StoreType
    <3> QED BY <3>1, <3>2 DEF Exists
  <2>1. CASE DeleteWorkload(w)
    BY <2>0, <2>1, AppendGrows DEF DeleteWorkload, Latest, StoreType
  <2>2. ASSUME NEW k \in ReloadKinds, NEW i \in reload[k].items, i[1] = w, IsLatest(i),
               workload' = [workload EXCEPT ![i[1]] = Append(@, Rehashed(reload[k], i))]
        PROVE  /\ Latest(workload[w]').image = Latest(workload[w]).image
               /\ Latest(workload[w]').live => Latest(workload[w]).live
    <3>1. Latest(workload[w]) \in WorkloadValue
      BY <2>0 DEF Latest
    <3>2. workload'[w] = Append(workload[w],
                           [Latest(workload[w]) EXCEPT !.hash[reload[k].on] = reload[k].data])
      BY <2>0, <2>2 DEF StoreType, Rehashed, IsLatest, Latest
    <3>3. Latest(workload[w]') = [Latest(workload[w]) EXCEPT !.hash[reload[k].on] = reload[k].data]
      BY <2>0, <3>2 DEF Latest
    <3> QED BY <3>1, <3>3 DEF WorkloadValue
  <2>3. \/ DeleteWorkload(w)
        \/ \E k \in ReloadKinds : \E i \in reload[k].items :
             /\ i[1] = w /\ IsLatest(i)
             /\ workload' = [workload EXCEPT ![i[1]] = Append(@, Rehashed(reload[k], i))]
    <3>1. ~UNCHANGED workload
      OBVIOUS
    <3>2. CASE ApplyWrite \/ ApplyFail
      BY <2>0, <3>1, <3>2 DEF ApplyWrite, ApplyFail, ApplyEffect, StoreType
    <3>3. CASE Users
      BY <2>0, <3>1, <3>3 DEF Users, EditKubePkg, EditConfig, DeleteWorkload, StoreType
    <3>4. ASSUME NEW k \in ReloadKinds, ReloadStep(k) \/ ReloadFail(k)
          PROVE  \E i \in reload[k].items :
                   /\ i[1] = w /\ IsLatest(i)
                   /\ workload' = [workload EXCEPT ![i[1]] = Append(@, Rehashed(reload[k], i))]
      BY <2>0, <3>1, <3>4
         DEF ReloadStep, ReloadBegin, ReloadMark, ReloadMarkConflict, ReloadList, ReloadSkip,
             ReloadPatch, ReloadPatchConflict, ReloadEnd, ReloadFail, store, StoreType
    <3>5. ASSUME Informers \/ ApplyBegin \/ (\E m \in Manifests : ApplyNext(m)) \/ ApplyEnd \/ Restart
          PROVE  FALSE
      BY <3>1, <3>5 DEF Informers, DeliverKubePkg, DeliverConfig, DeliverTyped, DeliverMeta,
                        ApplyBegin, ApplyNext, ApplyEnd, Restart, store
    <3> QED BY <1>1, <3>2, <3>3, <3>4, <3>5 DEF Next, ApplyStep, Faults
  <2> QED BY <2>1, <2>2, <2>3
<1>2. TypeOK /\ [Next]_vars => [Kept]_vars
  BY <1>1
<1> QED BY <1>2, TypeCorrect, PTL DEF Spec, ReloadKeepsSpec

-----------------------------------------------------------------------------
(* What a step writes.                                                     *)

(* A version is added to one workload, or none is; no cache moves then. *)
LEMMA WorkloadStep ==
  ASSUME TypeOK, [Next]_vars, NEW w \in Workloads
  PROVE  \/ workload'[w] = workload[w]
         \/ Len(workload'[w]) = Len(workload[w]) + 1 /\ UNCHANGED caches
<1>0. StoreType /\ workload[w] \in Seq(WorkloadValue)
  BY DEF TypeOK, StoreType
<1>1. ASSUME NEW x \in Workloads, NEW v, UNCHANGED caches,
             workload' = [workload EXCEPT ![x] = Append(@, v)]
               \/ workload' = [workload EXCEPT ![x] = Write(@, v)]
      PROVE  \/ workload'[w] = workload[w]
             \/ Len(workload'[w]) = Len(workload[w]) + 1 /\ UNCHANGED caches
  <2>1. workload'[w] = workload[w] \/ workload'[w] = Append(workload[w], v)
    BY <1>0, <1>1 DEF StoreType, Write
  <2>2. Len(Append(workload[w], v)) = Len(workload[w]) + 1
    BY <1>0
  <2> QED BY <1>1, <2>1, <2>2
<1>2. ASSUME NEW x \in Workloads, DeleteWorkload(x)
      PROVE  \/ workload'[w] = workload[w]
             \/ Len(workload'[w]) = Len(workload[w]) + 1 /\ UNCHANGED caches
  BY <1>1, <1>2 DEF DeleteWorkload
<1>3. CASE ApplyWrite \/ ApplyFail
  <2>1. UNCHANGED caches /\ (ApplyEffect \/ UNCHANGED workload)
    BY <1>3 DEF ApplyWrite, ApplyFail
  <2> QED BY <1>1, <2>1 DEF ApplyEffect
<1>4. ASSUME NEW k \in ReloadKinds,
             ReloadFail(k) \/ \E i \in reload[k].items : ReloadPatch(k, i)
      PROVE  \/ workload'[w] = workload[w]
             \/ Len(workload'[w]) = Len(workload[w]) + 1 /\ UNCHANGED caches
  <2>1. \A i \in reload[k].items : i[1] \in Workloads
    BY DEF TypeOK, ReloadType
  <2>2. /\ UNCHANGED caches
        /\ \/ UNCHANGED workload
           \/ \E i \in reload[k].items :
                workload' = [workload EXCEPT ![i[1]] = Append(@, Rehashed(reload[k], i))]
    BY <1>4 DEF ReloadFail, ReloadPatch
  <2> QED BY <1>1, <2>1, <2>2
<1>5. \/ UNCHANGED workload
      \/ \E x \in Workloads : DeleteWorkload(x)
      \/ ApplyWrite \/ ApplyFail
      \/ \E k \in ReloadKinds : ReloadFail(k) \/ \E i \in reload[k].items : ReloadPatch(k, i)
  BY DEF Next, Users, EditKubePkg, EditConfig, Informers, DeliverKubePkg, DeliverConfig,
         DeliverTyped, DeliverMeta, ApplyStep, ApplyBegin, ApplyNext, ApplyEnd, ReloadStep,
         ReloadBegin, ReloadMark, ReloadMarkConflict, ReloadList, ReloadSkip,
         ReloadPatchConflict, ReloadEnd, Faults, Restart, vars, store
<1> QED BY <1>2, <1>3, <1>4, <1>5

(* A version is added to a config by a user, by a reload that has read the  *)
(* live one, or by the apply of one of the KubePkg's own.                   *)
Marks(c) ==
  \E k \in ReloadKinds :
    /\ reload[k].pc = "patch" /\ reload[k].on = c /\ reload[k].version = Len(config[c])
    /\ config'[c] = Append(config[c], MarkedConfig(k, c, reload[k].data))

Edits(c) ==
  \E d \in Data : d # Latest(config[c]).data
                  /\ config'[c] = Append(config[c], [Latest(config[c]) EXCEPT !.data = d])

Applies(c) == apply.pc = "write" /\ apply.on = c /\ ApplyEffect

LEMMA ConfigStep ==
  ASSUME TypeOK, [Next]_vars, NEW c \in Configs
  PROVE  \/ config'[c] = config[c]
         \/ c \in External /\ Edits(c) /\ UNCHANGED caches
         \/ Marks(c) /\ UNCHANGED caches
         \/ c \in Owned /\ Applies(c)
<1> USE ConfigsAssumption
<1>0. StoreType
  BY DEF TypeOK
<1>1. ASSUME NEW d \in External, NEW v \in Data, EditConfig(d, v)
      PROVE  config'[c] = config[c] \/ (c \in External /\ Edits(c) /\ UNCHANGED caches)
  BY <1>0, <1>1 DEF EditConfig, Edits, StoreType
<1>2. ASSUME NEW k \in ReloadKinds, ReloadMark(k) \/ ReloadFail(k)
      PROVE  config'[c] = config[c] \/ (Marks(c) /\ UNCHANGED caches)
  <2>1. /\ UNCHANGED caches
        /\ \/ UNCHANGED config
           \/ /\ reload[k].pc = "patch" /\ reload[k].version = Len(config[reload[k].on])
              /\ config' = [config EXCEPT ![reload[k].on] =
                              Write(@, MarkedConfig(k, reload[k].on, reload[k].data))]
    BY <1>2 DEF ReloadMark, ReloadFail
  <2> QED BY <1>0, <2>1 DEF Marks, Write, StoreType
<1>3. CASE ApplyWrite \/ ApplyFail
  <2>1. apply.pc = "write" /\ (ApplyEffect \/ UNCHANGED config)
    BY <1>3 DEF ApplyWrite, ApplyFail
  <2>2. apply.on \in Manifests
    BY <2>1 DEF TypeOK, ApplyType
  <2>3. ApplyEffect => config'[c] = config[c] \/ (c \in Owned /\ Applies(c))
    BY <1>0, <2>1, <2>2 DEF ApplyEffect, Applies, StoreType, Manifests
  <2> QED BY <2>1, <2>3
<1>4. \/ UNCHANGED config
      \/ \E d \in External, v \in Data : EditConfig(d, v)
      \/ ApplyWrite \/ ApplyFail
      \/ \E k \in ReloadKinds : ReloadMark(k) \/ ReloadFail(k)
  BY DEF Next, Users, EditKubePkg, DeleteWorkload, Informers, DeliverKubePkg, DeliverConfig,
         DeliverTyped, DeliverMeta, ApplyStep, ApplyBegin, ApplyNext, ApplyEnd, ReloadStep,
         ReloadBegin, ReloadPatch, ReloadMarkConflict, ReloadList, ReloadSkip,
         ReloadPatchConflict, ReloadEnd, Faults, Restart, vars, store
<1> QED BY <1>1, <1>2, <1>3, <1>4

-----------------------------------------------------------------------------
(* The apply controller.  A manifest is as the latest spec says, or an      *)
(* apply is still to come to it, or it is being written.                    *)

Live(w) == Exists(workload[w]) /\ Latest(workload[w]).live

AsSpec(m) ==
  IF m \in Workloads
  THEN Live(m) /\ Latest(workload[m]).image = Latest(kpkg).image
  ELSE Exists(config[m]) /\ Latest(config[m]).data = Latest(kpkg).data[m]

Ahead(m) ==
  \/ applyQueue
  \/ kpkgSeen < Len(kpkg)
  \/ m \in Workloads /\ metaSeen[m] < Len(workload[m])
  \/ apply.pc # "idle" /\ m \in apply.todo

Writing(m) == apply.pc = "write" /\ apply.on = m

MetaBound == \A w \in Workloads : metaSeen[w] <= Len(workload[w])
ApplySpec == apply.pc # "idle" => apply.spec = kpkgSeen \/ applyQueue
ApplyInv ==
  MetaBound /\ ApplySpec /\ \A m \in Manifests : AsSpec(m) \/ Ahead(m) \/ Writing(m)

LEMMA InitApply == Init => ApplyInv
<1> SUFFICES ASSUME Init PROVE ApplyInv
  OBVIOUS
<1>1. MetaBound /\ ApplySpec
  BY DEF Init, MetaBound, ApplySpec, ApplyIdle, Manifests
<1>2. \A m \in Manifests : Ahead(m)
  BY DEF Init, Ahead
<1> QED BY <1>1, <1>2 DEF ApplyInv

LEMMA MetaStep ==
  ASSUME TypeOK, MetaBound, [Next]_vars
  PROVE  MetaBound'
<1> SUFFICES ASSUME NEW w \in Workloads
             PROVE  metaSeen'[w] <= Len(workload'[w])
  BY DEF MetaBound
<1>0. /\ Len(workload[w]) \in Nat /\ metaSeen[w] \in Nat /\ metaSeen[w] <= Len(workload[w])
      /\ w \in Manifests /\ metaSeen \in [Manifests -> Nat] /\ w \notin Configs
  BY ConfigsAssumption DEF TypeOK, StoreType, CacheType, Manifests, MetaBound
<1>1. CASE metaSeen'[w] = metaSeen[w]
  BY <1>0, <1>1, WorkloadStep
<1>2. CASE Restart
  BY <1>0, <1>2 DEF Restart, MetaLog, store
<1>3. ASSUME NEW m \in Manifests, DeliverMeta(m)
      PROVE  metaSeen'[w] <= Len(workload'[w])
  BY <1>0, <1>3 DEF DeliverMeta, MetaLog, store
<1>4. metaSeen' = metaSeen \/ Restart \/ \E m \in Manifests : DeliverMeta(m)
  BY DEF Next, Users, EditKubePkg, EditConfig, DeleteWorkload, Informers, DeliverKubePkg,
         DeliverConfig, DeliverTyped, ApplyStep, ApplyBegin, ApplyNext, ApplyWrite, ApplyEnd,
         ReloadStep, ReloadBegin, ReloadMark, ReloadMarkConflict, ReloadList, ReloadSkip,
         ReloadPatch, ReloadPatchConflict, ReloadEnd, Faults, ApplyFail, ReloadFail, vars, caches
<1> QED BY <1>1, <1>2, <1>3, <1>4

(* What becomes of the worker, its queue and the generation it is to see. *)
LEMMA ApplyMoves ==
  ASSUME TypeOK, [Next]_vars
  PROVE  /\ \/ apply' = apply
            \/ ApplyBegin \/ (\E m \in Manifests : ApplyNext(m)) \/ ApplyWrite \/ ApplyEnd
            \/ apply' = ApplyIdle /\ applyQueue'
         /\ applyQueue => applyQueue' \/ ApplyBegin
         /\ kpkgSeen' = kpkgSeen \/ applyQueue'
<1>1. ASSUME UNCHANGED <<apply, applyQueue, kpkgSeen>>
      PROVE  /\ apply' = apply
             /\ applyQueue => applyQueue' \/ ApplyBegin
             /\ kpkgSeen' = kpkgSeen \/ applyQueue'
  BY <1>1
<1>2. CASE Users \/ UNCHANGED vars
  <2>1. UNCHANGED <<apply, applyQueue, kpkgSeen>>
    BY <1>2 DEF Users, EditKubePkg, EditConfig, DeleteWorkload, vars, workers, queues, caches
  <2> QED BY <1>1, <2>1
<1>3. CASE Informers
  <2>1. CASE DeliverKubePkg
    BY <2>1 DEF DeliverKubePkg, workers
  <2>2. ASSUME NEW m \in Manifests, DeliverMeta(m)
        PROVE  apply' = apply /\ kpkgSeen' = kpkgSeen /\ (applyQueue => applyQueue')
    BY <2>2 DEF DeliverMeta, workers
  <2>3. CASE (\E c \in Configs : DeliverConfig(c)) \/ (\E w \in Workloads : DeliverTyped(w))
    <3>1. UNCHANGED <<apply, applyQueue, kpkgSeen>>
      BY <2>3 DEF DeliverConfig, DeliverTyped, workers, queues
    <3> QED BY <1>1, <3>1
  <2> QED BY <1>3, <2>1, <2>2, <2>3 DEF Informers
<1>4. CASE ApplyStep
  <2>1. CASE ApplyBegin
    BY <2>1 DEF ApplyBegin, caches
  <2>2. CASE ApplyWrite \/ ApplyEnd \/ \E m \in Manifests : ApplyNext(m)
    <3>1. UNCHANGED <<applyQueue, kpkgSeen>>
      BY <2>2 DEF ApplyNext, ApplyWrite, ApplyEnd, caches, queues
    <3> QED BY <2>2, <3>1
  <2> QED BY <1>4, <2>1, <2>2 DEF ApplyStep
<1>5. ASSUME NEW k \in ReloadKinds, ReloadStep(k) \/ ReloadFail(k)
      PROVE  UNCHANGED <<apply, applyQueue, kpkgSeen>>
  BY <1>5 DEF ReloadStep, ReloadBegin, ReloadMark, ReloadMarkConflict, ReloadList, ReloadSkip,
     ReloadPatch, ReloadPatchConflict, ReloadEnd, ReloadFail, caches, queues
<1>6. CASE ApplyFail \/ Restart
  BY <1>6 DEF ApplyFail, Restart
<1> QED BY <1>1, <1>2, <1>3, <1>4, <1>5, <1>6 DEF Next, Faults

LEMMA SpecStep ==
  ASSUME TypeOK, ApplySpec, [Next]_vars
  PROVE  ApplySpec'
<1>0. apply.pc \in {"idle", "loop", "write"} /\ ApplyType
  BY DEF TypeOK, ApplyType
<1>1. CASE apply' = apply
  <2>1. applyQueue => applyQueue' \/ (ApplyBegin /\ apply'.pc = "loop")
    BY ApplyMoves DEF ApplyBegin, ApplyIdle
  <2>2. ApplyBegin => apply.pc = "idle"
    BY DEF ApplyBegin
  <2> QED BY <1>1, <2>1, <2>2, ApplyMoves DEF ApplySpec
<1>2. CASE ApplyBegin
  BY <1>2 DEF ApplyBegin, ApplyIdle, ApplySpec, caches
<1>3. CASE ApplyEnd \/ apply' = ApplyIdle
  BY <1>3 DEF ApplyEnd, ApplyIdle, ApplySpec
<1>4. CASE ApplyWrite \/ \E m \in Manifests : ApplyNext(m)
  BY <1>0, <1>4 DEF ApplyWrite, ApplyNext, ApplyType, ApplySpec, caches, queues
<1> QED BY <1>1, <1>2, <1>3, <1>4, ApplyMoves

(* An apply to come is to come until it takes the manifest. *)
LEMMA AheadKept ==
  ASSUME TypeOK, [Next]_vars, NEW m \in Manifests, Ahead(m)
  PROVE  Ahead(m)' \/ ApplyNext(m)
<1>0. /\ StoreType /\ CacheType /\ ApplyType /\ Grows /\ StoreType'
      /\ Len(kpkg) \in Nat /\ kpkgSeen \in Nat /\ Len(kpkg') \in Nat
  BY StoreKept DEF TypeOK, StoreType, CacheType
<1>1. CASE applyQueue
  <2>1. ApplyBegin => apply'.pc = "loop" /\ apply'.todo = Manifests
    BY DEF ApplyBegin, ApplyIdle
  <2> QED BY <1>1, <2>1, ApplyMoves DEF Ahead
<1>2. CASE kpkgSeen < Len(kpkg)
  <2>1. Len(kpkg) <= Len(kpkg')
    BY <1>0 DEF Grows
  <2>2. kpkgSeen' = kpkgSeen => kpkgSeen' < Len(kpkg')
    BY <1>0, <1>2, <2>1
  <2> QED BY <2>2, ApplyMoves DEF Ahead
<1>3. CASE m \in Workloads /\ metaSeen[m] < Len(workload[m])
  <2>1. /\ Len(workload[m]) \in Nat /\ metaSeen[m] \in Nat
        /\ Len(workload'[m]) \in Nat /\ Len(workload[m]) <= Len(workload'[m])
    BY <1>0, <1>3 DEF StoreType, CacheType, Grows
  <2>2. metaSeen'[m] = metaSeen[m] \/ applyQueue'
    <3>1. metaSeen' = metaSeen \/ Restart \/ \E x \in Manifests : DeliverMeta(x)
      BY DEF Next, Users, EditKubePkg, EditConfig, DeleteWorkload, Informers, DeliverKubePkg,
         DeliverConfig, DeliverTyped, ApplyStep, ApplyBegin, ApplyNext, ApplyWrite, ApplyEnd,
         ReloadStep, ReloadBegin, ReloadMark, ReloadMarkConflict, ReloadList, ReloadSkip,
         ReloadPatch, ReloadPatchConflict, ReloadEnd, Faults, ApplyFail, ReloadFail, vars, caches
    <3>2. ASSUME NEW x \in Manifests, DeliverMeta(x)
          PROVE  metaSeen'[m] = metaSeen[m] \/ applyQueue'
      BY <1>0, <1>3, <3>2 DEF DeliverMeta, CacheType
    <3> QED BY <3>1, <3>2 DEF Restart
  <2>3. metaSeen'[m] = metaSeen[m] => metaSeen'[m] < Len(workload'[m])
    BY <1>3, <2>1
  <2> QED BY <1>3, <2>2, <2>3 DEF Ahead
<1>4. CASE apply.pc # "idle" /\ m \in apply.todo
  <2>1. ASSUME NEW x \in Manifests, ApplyNext(x), x # m
        PROVE  apply'.pc # "idle" /\ m \in apply'.todo
    BY <1>0, <1>4, <2>1 DEF ApplyNext, ApplyType
  <2>2. ApplyWrite => apply'.pc # "idle" /\ m \in apply'.todo
    BY <1>0, <1>4 DEF ApplyWrite, ApplyType
  <2>3. ~ ApplyBegin /\ ~ ApplyEnd
    BY <1>4 DEF ApplyBegin, ApplyEnd
  <2> QED BY <1>4, <2>1, <2>2, <2>3, ApplyMoves DEF Ahead
<1> QED BY <1>1, <1>2, <1>3, <1>4 DEF Ahead

(* A manifest being written stays so, until it is, or its apply fails. *)
LEMMA WritingKept ==
  ASSUME TypeOK, [Next]_vars, NEW m \in Manifests, Writing(m)
  PROVE  apply' = apply \/ ApplyWrite \/ Ahead(m)'
<1>1. ~ ApplyBegin /\ ~ ApplyEnd /\ \A x \in Manifests : ~ ApplyNext(x)
  BY DEF Writing, ApplyBegin, ApplyEnd, ApplyNext
<1> QED BY <1>1, ApplyMoves DEF Ahead

(* What a workload or a config of the KubePkg is does not change unless an  *)
(* apply writes it or one is to come.                                       *)
LEMMA VersionAhead ==
  ASSUME TypeOK, MetaBound, [Next]_vars, NEW w \in Workloads, workload'[w] # workload[w]
  PROVE  Ahead(w)'
<1>1. Len(workload'[w]) = Len(workload[w]) + 1 /\ metaSeen' = metaSeen
  BY WorkloadStep DEF caches
<1>2. /\ metaSeen[w] \in Nat /\ Len(workload[w]) \in Nat /\ metaSeen[w] <= Len(workload[w])
  BY DEF MetaBound, TypeOK, CacheType, StoreType, Manifests
<1>3. metaSeen'[w] < Len(workload'[w])
  BY <1>1, <1>2
<1> QED BY <1>3 DEF Ahead

(* A mark says nothing of what a config contains. *)
LEMMA MarkKeepsData ==
  ASSUME TypeOK, NEW c \in Configs, Marks(c)
  PROVE  /\ Exists(config'[c]) /\ Exists(config[c])
         /\ Latest(config'[c]).data = Latest(config[c]).data
         /\ Latest(config[c]) \in ConfigValue
<1>1. PICK k \in ReloadKinds :
        /\ reload[k].pc = "patch" /\ reload[k].on = c
        /\ config'[c] = Append(config[c], MarkedConfig(k, c, reload[k].data))
  BY DEF Marks
<1>2. config[c] \in Seq(ConfigValue) /\ Exists(config[c])
  BY <1>1 DEF TypeOK, StoreType, ReloadType, Exists
<1>3. Latest(config[c]) \in ConfigValue
  BY <1>2 DEF Exists, Latest
<1>4. MarkedConfig(k, c, reload[k].data).data = Latest(config[c]).data
  BY <1>3 DEF MarkedConfig, ConfigValue
<1>5. Latest(config'[c]) = MarkedConfig(k, c, reload[k].data) /\ Exists(config'[c])
  <2> DEFINE v == MarkedConfig(k, c, reload[k].data)
  <2> HIDE DEF v
  <2>1. config'[c] = Append(config[c], v)
    BY <1>1 DEF v
  <2>2. Len(config'[c]) = Len(config[c]) + 1 /\ config'[c][Len(config[c]) + 1] = v
    BY <1>2, <2>1
  <2> QED BY <1>2, <2>2 DEF Latest, Exists, v
<1> QED BY <1>2, <1>3, <1>4, <1>5

LEMMA WriteLatest ==
  ASSUME NEW S, NEW log \in Seq(S), NEW v \in S
  PROVE  Exists(Write(log, v)) /\ Latest(Write(log, v)) = v
<1>1. CASE Exists(log) /\ Latest(log) = v
  BY <1>1 DEF Write
<1>2. CASE ~ (Exists(log) /\ Latest(log) = v)
  <2>1. Write(log, v) = Append(log, v) /\ Len(log) \in Nat
    BY <1>2 DEF Write
  <2> QED BY <2>1, AppendGrows DEF Exists, Latest
<1> QED BY <1>1, <1>2

LEMMA SpecChange ==
  ASSUME TypeOK, [Next]_vars
  PROVE  kpkg' = kpkg \/ kpkgSeen' < Len(kpkg')
<1>1. ASSUME NEW s \in SpecValue, EditKubePkg(s)
      PROVE  kpkgSeen' < Len(kpkg')
  BY <1>1, AppendGrows DEF EditKubePkg, caches, TypeOK, StoreType, CacheType
<1>2. kpkg' = kpkg \/ \E s \in SpecValue : EditKubePkg(s)
  BY DEF Next, Users, EditConfig, DeleteWorkload, Informers, DeliverKubePkg, DeliverConfig,
     DeliverTyped, DeliverMeta, ApplyStep, ApplyBegin, ApplyNext, ApplyWrite, ApplyEnd,
     ReloadStep, ReloadBegin, ReloadMark, ReloadMarkConflict, ReloadList, ReloadSkip,
     ReloadPatch, ReloadPatchConflict, ReloadEnd, Faults, ApplyFail, ReloadFail, Restart,
     vars, store
<1> QED BY <1>1, <1>2

(* An apply of the latest spec that writes a manifest makes it so. *)
LEMMA ApplyMakes ==
  ASSUME TypeOK, ApplyWrite, apply.spec = Len(kpkg), NEW m \in Manifests, apply.on = m
  PROVE  AsSpec(m)'
<1> DEFINE s == kpkg[apply.spec]
<1>1. /\ StoreType /\ apply.hash \in [Configs -> Hashes] /\ s \in SpecValue
      /\ kpkg' = kpkg /\ s = Latest(kpkg) /\ ApplyEffect
  <2>1. apply.spec \in 1..Len(kpkg)
    BY DEF TypeOK, ApplyType, ApplyWrite, StoreType
  <2> QED BY <2>1 DEF TypeOK, ApplyType, StoreType, ApplyWrite, Latest
<1>2. CASE m \in Workloads
  <2> DEFINE v == AppliedWorkload(m, s, apply.hash, apply.order)
  <2>1. workload[m] \in Seq(WorkloadValue)
    BY <1>1, <1>2 DEF StoreType
  <2>2. v \in WorkloadValue
    <3>1. Exists(workload[m]) => Latest(workload[m]).hash \in [Configs -> Hashes]
      <4>1. Exists(workload[m]) => Latest(workload[m]) \in WorkloadValue
        BY <2>1 DEF Exists, Latest
      <4> QED BY <4>1 DEF WorkloadValue
    <3>2. apply.order \in Orders
      BY <1>2 DEF TypeOK, ApplyType, ApplyWrite
    <3> QED BY <1>1, <3>1, <3>2 DEF AppliedWorkload, WorkloadValue, SpecValue, Hashes
  <2>3. workload'[m] = Write(workload[m], v)
    BY <1>1, <1>2 DEF ApplyEffect, StoreType
  <2>4. v.live /\ v.image = s.image
    BY DEF AppliedWorkload
  <2> HIDE DEF v
  <2>5. Exists(workload'[m]) /\ Latest(workload'[m]) = v
    BY <2>1, <2>2, <2>3, WriteLatest
  <2> QED BY <1>1, <1>2, <2>4, <2>5 DEF AsSpec, Live
<1>3. CASE m \notin Workloads
  <2> DEFINE v == AppliedConfig(m, s)
  <2>1. m \in Configs /\ m \in Owned /\ config[m] \in Seq(ConfigValue)
    BY <1>1, <1>3, ConfigsAssumption DEF StoreType, Manifests
  <2>2. v \in ConfigValue
    <3>1. Exists(config[m]) => Latest(config[m]) \in ConfigValue
      BY <2>1 DEF Exists, Latest
    <3>2. Exists(config[m]) => Latest(config[m]).mark \in Data \union {None}
      BY <3>1 DEF ConfigValue
    <3> QED BY <1>1, <2>1, <3>2 DEF AppliedConfig, ConfigValue, SpecValue, Labels
  <2>3. config'[m] = Write(config[m], v)
    BY <1>1, <1>3, <2>1 DEF ApplyEffect, StoreType
  <2>4. v.data = s.data[m]
    BY DEF AppliedConfig
  <2> HIDE DEF v
  <2>5. Exists(config'[m]) /\ Latest(config'[m]) = v
    BY <2>1, <2>2, <2>3, WriteLatest
  <2> QED BY <1>1, <1>3, <2>4, <2>5 DEF AsSpec
<1> QED BY <1>2, <1>3

LEMMA ManifestStep ==
  ASSUME TypeOK, MetaBound, ApplySpec, [Next]_vars, NEW m \in Manifests,
         AsSpec(m) \/ Ahead(m) \/ Writing(m)
  PROVE  AsSpec(m)' \/ Ahead(m)' \/ Writing(m)'
<1>1. CASE Ahead(m)
  <2>1. ApplyNext(m) => Writing(m)'
    BY DEF ApplyNext, Writing, TypeOK, ApplyType
  <2> QED BY <1>1, <2>1, AheadKept
<1>2. CASE Writing(m) /\ ~ Ahead(m)
  <2>1. apply.pc = "write" /\ apply.on = m
    BY <1>2 DEF Writing
  <2>2. apply.spec = kpkgSeen /\ kpkgSeen = Len(kpkg)
    <3>1. kpkgSeen \in 1..Len(kpkg) /\ ~ (kpkgSeen < Len(kpkg))
      BY <1>2 DEF Ahead, TypeOK, CacheType
    <3>2. Len(kpkg) \in Nat
      BY DEF TypeOK, StoreType
    <3> QED BY <1>2, <2>1, <3>1, <3>2 DEF ApplySpec, Ahead
  <2>3. ApplyWrite => AsSpec(m)'
    BY <2>1, <2>2, ApplyMakes
  <2>4. apply' = apply => Writing(m)'
    BY <1>2 DEF Writing
  <2> QED BY <1>2, <2>3, <2>4, WritingKept
<1>3. CASE AsSpec(m) /\ ~ Writing(m)
  <2>1. kpkg' # kpkg => Ahead(m)'
    BY SpecChange DEF Ahead
  <2>2. CASE kpkg' = kpkg /\ m \in Workloads
    BY <1>3, <2>2, VersionAhead DEF AsSpec, Live
  <2>3. CASE kpkg' = kpkg /\ m \notin Workloads
    <3>1. m \in Configs /\ m \notin External
      BY <2>3, ConfigsAssumption DEF Manifests, External
    <3>2. config'[m] = config[m] \/ Marks(m)
      BY <1>3, <3>1, ConfigStep DEF Applies, Writing
    <3> QED BY <1>3, <2>3, <3>1, <3>2, MarkKeepsData DEF AsSpec
  <2> QED BY <2>1, <2>2, <2>3
<1> QED BY <1>1, <1>2, <1>3

LEMMA ApplyInvStep == TypeOK /\ ApplyInv /\ [Next]_vars => ApplyInv'
BY MetaStep, SpecStep, ManifestStep DEF ApplyInv

LEMMA ApplyInvariance == Spec => []ApplyInv
BY TypeCorrect, InitApply, ApplyInvStep, PTL DEF Spec

(* When the operator has nothing left to do, every manifest of the latest   *)
(* spec is live as the spec says, for any number of workloads, configs,     *)
(* edits, deletions, failed calls and restarts: an event that arrives       *)
(* during an apply queues another, and a call that fails does               *)
(* (KubePkgApplyReconciler).                                                *)
THEOREM AppliedAtTheEnd == Spec => []AppliedWhenQuiet
<1>1. ASSUME TypeOK, ApplyInv
      PROVE  AppliedWhenQuiet
  <2> SUFFICES ASSUME Quiet
               PROVE  \A m \in Manifests : AsSpec(m)
    BY ConfigsAssumption DEF AppliedWhenQuiet, AsSpec, Live, Manifests
  <2>1. \A m \in Manifests : ~ Writing(m)
    BY DEF Quiet, Writing
  <2>2. kpkgSeen \in Nat /\ Len(kpkg) \in Nat
    BY <1>1 DEF TypeOK, CacheType, StoreType
  <2>3. \A w \in Workloads : metaSeen[w] = Len(workload[w]) /\ Len(workload[w]) \in Nat
    BY <1>1 DEF Quiet, MetaLog, Manifests, TypeOK, StoreType
  <2>4. \A m \in Manifests : ~ Ahead(m)
    BY <2>2, <2>3 DEF Quiet, Ahead
  <2> QED BY <1>1, <2>1, <2>4 DEF ApplyInv
<1> QED BY <1>1, TypeCorrect, ApplyInvariance, PTL

-----------------------------------------------------------------------------
(* The reload controllers.  A workload that mounts a config of the users    *)
(* carries the hash of its latest content, or something is still to give it *)
(* that hash.                                                               *)

Content(c) == Latest(config[c]).data

News(c, i) == config[c][i].data # config[c][i].mark

Told(c) == config[c][1].label = "self" /\ NeverReverted(c)

LogOK(c) ==
  /\ configSeen[c] >= 1
  /\ \A i \in 1..Len(config[c]) :
       /\ config[c][1].label = "self" => config[c][i].label = "self"
       /\ \/ config[c][i].mark = None
          \/ \E j \in 1..Len(config[c]) : config[c][i].mark = config[c][j].data

(* Whoever reads an older content has a version to come that passes the     *)
(* predicate of the reload controllers.                                     *)
Noticed(c) ==
  \A j \in 1..Len(config[c]) : config[c][j].data # Content(c) =>
    \E i \in (j + 1)..Len(config[c]) : News(c, i)

Coming(c) ==
  c \in reloadQueue \/ \E i \in (configSeen[c] + 1)..Len(config[c]) : News(c, i)

WorkerOf(c) == reload[KindOfConfig(c)]

ReloadOK(k) ==
  reload[k].pc # "idle" =>
    /\ KindOfConfig(reload[k].on) = k
    /\ reload[k].data = config[reload[k].on][reload[k].version].data

RangeOK(c) ==
  WorkerOf(c).pc = "range" /\ WorkerOf(c).on = c /\ WorkerOf(c).data # Content(c)
    => Coming(c)

HasKind(kinds, kind) == \E i \in 1..Len(kinds) : kinds[i] = kind

Handled(w, c) ==
  /\ WorkerOf(c).on = c
  /\ \/ WorkerOf(c).pc = "patch"
     \/ WorkerOf(c).pc = "range" /\ HasKind(WorkerOf(c).kinds, KindOf[w])
     \/ <<w, Len(workload[w])>> \in WorkerOf(c).items

PairOK(w, c) ==
  \/ Exists(workload[w]) /\ InSync(w, c)
  \/ <<w, c>> \in behind
  \/ Ahead(w)
  \/ Writing(w) /\ (apply.hash[c] = Content(c) \/ ~ Live(w))
  \/ Coming(c)
  \/ Handled(w, c)

ConfigInv(c) ==
  /\ Noticed(c) /\ RangeOK(c)
  /\ \A w \in Workloads : c \in Refs[w] => PairOK(w, c)

ReloadInv ==
  /\ \A k \in ReloadKinds : ReloadOK(k)
  /\ \A c \in External : LogOK(c)
  /\ \A c \in External \intersect Watched : Told(c) => ConfigInv(c)

LEMMA InitReload == Init => ReloadInv
<1> SUFFICES ASSUME Init PROVE ReloadInv
  OBVIOUS
<1>1. \A k \in ReloadKinds : ReloadOK(k)
  BY DEF Init, ReloadOK, ReloadIdle
<1>2. ASSUME NEW c \in External
      PROVE  /\ Len(config[c]) = 1 /\ configSeen[c] = 1
             /\ config[c][1].mark = None /\ c \in reloadQueue
  BY <1>2 DEF Init, Exists, External
<1>3. \A c \in External : LogOK(c)
  BY <1>2 DEF LogOK
<1>4. ASSUME NEW c \in External PROVE ConfigInv(c)
  <2>1. Noticed(c)
    BY <1>2 DEF Noticed, Content, Latest
  <2> QED BY <1>2, <2>1 DEF ConfigInv, RangeOK, PairOK, Coming
<1> QED BY <1>1, <1>3, <1>4 DEF ReloadInv

(* The versions of a config of the users. *)
LEMMA ExternalLog ==
  ASSUME TypeOK, NEW c \in External
  PROVE  /\ c \in Configs /\ config[c] \in Seq(ConfigValue)
         /\ Len(config[c]) \in Nat \ {0} /\ configSeen[c] \in 0..Len(config[c])
         /\ \A i \in 1..Len(config[c]) : config[c][i] \in ConfigValue /\ config[c][i].data \in Data
         /\ Latest(config[c]) = config[c][Len(config[c])] /\ Content(c) \in Data
<1>1. /\ c \in Configs /\ config[c] \in Seq(ConfigValue) /\ Len(config[c]) > 0
      /\ configSeen[c] \in Nat /\ configSeen[c] <= Len(config[c])
  BY DEF TypeOK, StoreType, CacheType, External, Exists
<1>2. Len(config[c]) \in Nat \ {0} /\ configSeen[c] \in 0..Len(config[c])
  BY <1>1
<1>3. \A i \in 1..Len(config[c]) : config[c][i] \in ConfigValue
  BY <1>1
<1>4. \A i \in 1..Len(config[c]) : config[c][i].data \in Data
  BY <1>3 DEF ConfigValue
<1> QED BY <1>1, <1>2, <1>3, <1>4 DEF Latest, Content

(* What a step does to a config of the users: nothing, or a version with    *)
(* another content, or one with another mark.                               *)
LEMMA ExternalStep ==
  ASSUME TypeOK, [Next]_vars, NEW c \in External
  PROVE  \/ config'[c] = config[c]
         \/ /\ Edits(c) /\ configSeen' = configSeen
            /\ Len(config'[c]) = Len(config[c]) + 1
            /\ Content(c)' # Content(c)
            /\ config'[c][Len(config'[c])].mark = Latest(config[c]).mark
            /\ config'[c][Len(config'[c])].label = Latest(config[c]).label
         \/ /\ Marks(c) /\ configSeen' = configSeen
            /\ Len(config'[c]) = Len(config[c]) + 1
            /\ Content(c)' = Content(c)
            /\ config'[c][Len(config'[c])].label \in {"self", Latest(config[c]).label}
            /\ \E k \in ReloadKinds :
                 /\ reload[k].pc = "patch" /\ reload[k].on = c
                 /\ reload[k].version = Len(config[c])
                 /\ config'[c][Len(config'[c])].mark = reload[k].data
<1>0. /\ c \in Configs /\ c \notin Owned /\ config[c] \in Seq(ConfigValue)
      /\ Latest(config[c]) \in ConfigValue
  BY ExternalLog DEF External
<1>1. CASE Edits(c) /\ UNCHANGED caches
  <2>1. PICK d \in Data : /\ d # Latest(config[c]).data
                          /\ config'[c] = Append(config[c], [Latest(config[c]) EXCEPT !.data = d])
    BY <1>1 DEF Edits
  <2>2. /\ Len(config'[c]) = Len(config[c]) + 1
        /\ config'[c][Len(config'[c])] = [Latest(config[c]) EXCEPT !.data = d]
    BY <1>0, <2>1
  <2> QED BY <1>0, <1>1, <2>1, <2>2 DEF ConfigValue, Content, Latest, caches
<1>2. CASE Marks(c) /\ UNCHANGED caches
  <2>1. PICK k \in ReloadKinds :
          /\ reload[k].pc = "patch" /\ reload[k].on = c /\ reload[k].version = Len(config[c])
          /\ config'[c] = Append(config[c], MarkedConfig(k, c, reload[k].data))
    BY <1>2 DEF Marks
  <2>2. /\ Len(config'[c]) = Len(config[c]) + 1
        /\ config'[c][Len(config'[c])] = MarkedConfig(k, c, reload[k].data)
    BY <1>0, <2>1
  <2>3. /\ MarkedConfig(k, c, reload[k].data).mark = reload[k].data
        /\ MarkedConfig(k, c, reload[k].data).label \in {"self", Latest(config[c]).label}
    BY <1>0 DEF MarkedConfig, ConfigValue
  <2>4. Content(c)' = Content(c)
    BY <1>0, <1>2, MarkKeepsData DEF Content
  <2> QED BY <1>2, <2>1, <2>2, <2>3, <2>4 DEF caches
<1> QED BY <1>0, <1>1, <1>2, ConfigStep

(* What becomes of a reload worker. *)
LEMMA ReloadMoves ==
  ASSUME TypeOK, [Next]_vars, NEW k \in ReloadKinds
  PROVE  \/ reload'[k] = reload[k]
         \/ reload'[k] = ReloadIdle /\ (Restart \/ ReloadFail(k))
         \/ ReloadStep(k)
<1>0. DOMAIN reload = ReloadKinds
  BY DEF TypeOK
<1>1. ASSUME NEW j \in ReloadKinds, ReloadStep(j) \/ ReloadFail(j), j # k
      PROVE  reload'[k] = reload[k]
  <2>1. UNCHANGED reload \/ \E r : Worker(j, r)
    BY <1>1 DEF ReloadStep, ReloadBegin, ReloadMark, ReloadMarkConflict, ReloadList,
       ReloadSkip, ReloadPatch, ReloadPatchConflict, ReloadEnd, ReloadFail
  <2> QED BY <1>0, <1>1, <2>1 DEF Worker
<1>2. Restart => reload'[k] = ReloadIdle
  BY DEF Restart
<1>3. ReloadFail(k) => reload'[k] = ReloadIdle
  BY <1>0 DEF ReloadFail, Worker
<1>4. \/ reload' = reload \/ Restart
      \/ \E j \in ReloadKinds : ReloadStep(j) \/ ReloadFail(j)
  BY DEF Next, Users, EditKubePkg, EditConfig, DeleteWorkload, Informers, DeliverKubePkg,
     DeliverConfig, DeliverTyped, DeliverMeta, ApplyStep, ApplyBegin, ApplyNext, ApplyWrite,
     ApplyEnd, Faults, ApplyFail, vars, workers
<1> QED BY <1>1, <1>2, <1>3, <1>4

(* What a worker begins with, and keeps. *)
LEMMA WorkerStep ==
  ASSUME TypeOK, [Next]_vars, NEW k \in ReloadKinds
  PROVE  LET r == reload[k] IN LET s == reload'[k] IN
         \/ s = r
         \/ s = ReloadIdle /\ s.pc = "idle"
         \/ \E c \in Configs :
              /\ s.pc = "patch" /\ s.on = c /\ ReloadBegin(k, c) /\ KindOfConfig(c) = k /\ r.pc = "idle" /\ Exists(config[c])
              /\ s = [ReloadIdle EXCEPT !.pc = "patch", !.on = c,
                        !.data = Latest(config[c]).data, !.version = Len(config[c])]
         \/ ReloadMark(k) /\ s = [r EXCEPT !.pc = "range", !.kinds = WorkloadKinds]
         \/ ReloadList(k) /\ s = [r EXCEPT !.kinds = Tail(@),
                                    !.items = ListedItems(r.on, Head(r.kinds))]
         \/ \E i \in r.items : /\ ReloadSkip(k, i) \/ ReloadPatch(k, i)
                               /\ s = [r EXCEPT !.items = @ \ {i}]
<1> DEFINE r == reload[k]
           s == reload'[k]
<1>0. \A x : Worker(k, x) => s = x
  BY DEF TypeOK, Worker
<1>1. ASSUME NEW c \in Configs, ReloadBegin(k, c)
      PROVE  \/ s = r
             \/ /\ s.pc = "patch" /\ s.on = c
                /\ KindOfConfig(c) = k /\ r.pc = "idle" /\ Exists(config[c])
                /\ s = [ReloadIdle EXCEPT !.pc = "patch", !.on = c,
                          !.data = Latest(config[c]).data, !.version = Len(config[c])]
  <2>1. CASE Exists(config[c]) /\ Latest(config[c]).label # "none"
    <3>1. s = [ReloadIdle EXCEPT !.pc = "patch", !.on = c,
                 !.data = Latest(config[c]).data, !.version = Len(config[c])]
      BY <1>0, <1>1, <2>1 DEF ReloadBegin
    <3>2. s.pc = "patch" /\ s.on = c
      BY <3>1 DEF ReloadIdle
    <3> QED BY <1>1, <2>1, <3>1, <3>2 DEF ReloadBegin
  <2> QED BY <1>1, <2>1 DEF ReloadBegin
<1>2. ReloadMark(k) => s = [r EXCEPT !.pc = "range", !.kinds = WorkloadKinds]
  BY <1>0 DEF ReloadMark
<1>3. ReloadList(k) => s = [r EXCEPT !.kinds = Tail(@),
                                     !.items = ListedItems(r.on, Head(r.kinds))]
  BY <1>0 DEF ReloadList
<1>4. \A i \in r.items : ReloadSkip(k, i) \/ ReloadPatch(k, i) => s = [r EXCEPT !.items = @ \ {i}]
  BY <1>0 DEF ReloadSkip, ReloadPatch
<1>5. ReloadMarkConflict(k) \/ ReloadEnd(k)
        \/ (\E i \in r.items : ReloadPatchConflict(k, i)) => s = ReloadIdle
  BY <1>0 DEF ReloadMarkConflict, ReloadEnd, ReloadPatchConflict
<1>6. ReloadIdle.pc = "idle"
  BY DEF ReloadIdle
<1> QED BY <1>1, <1>2, <1>3, <1>4, <1>5, <1>6, ReloadMoves DEF ReloadStep

LEMMA ReloadOKStep ==
  ASSUME TypeOK, [Next]_vars, NEW k \in ReloadKinds, ReloadOK(k)
  PROVE  ReloadOK(k)'
<1> DEFINE r == reload[k]
           s == reload'[k]
<1>0. ReloadType(k) /\ StoreType /\ Grows
  BY StoreKept DEF TypeOK
<1>1. r.pc # "idle" =>
        config'[r.on][r.version] = config[r.on][r.version]
  BY <1>0 DEF ReloadType, Grows
<1>2. CASE s = r
  BY <1>1, <1>2 DEF ReloadOK
<1>3. CASE s = ReloadIdle
  BY <1>3 DEF ReloadIdle, ReloadOK
<1>4. ASSUME NEW c \in Configs, ReloadBegin(k, c), KindOfConfig(c) = k,
             s = [ReloadIdle EXCEPT !.pc = "patch", !.on = c,
                    !.data = Latest(config[c]).data, !.version = Len(config[c])]
      PROVE  ReloadOK(k)'
  BY <1>4 DEF ReloadBegin, ReloadIdle, ReloadOK, Latest, store
<1>5. CASE /\ r.pc # "idle"
           /\ s.on = r.on /\ s.data = r.data /\ s.version = r.version
  BY <1>1, <1>5 DEF ReloadOK
<1>6. CASE /\ ReloadMark(k) \/ ReloadList(k)
                \/ \E i \in r.items : ReloadSkip(k, i) \/ ReloadPatch(k, i)
           /\ \/ s = [r EXCEPT !.pc = "range", !.kinds = WorkloadKinds]
              \/ s = [r EXCEPT !.kinds = Tail(@), !.items = ListedItems(r.on, Head(r.kinds))]
              \/ \E i \in r.items : s = [r EXCEPT !.items = @ \ {i}]
  <2>1. r.pc # "idle"
    BY <1>0, <1>6 DEF ReloadMark, ReloadList, ReloadType
  <2>2. s.on = r.on /\ s.data = r.data /\ s.version = r.version
    BY <1>0, <1>6 DEF ReloadType
  <2> QED BY <1>5, <2>1, <2>2
<1> QED BY <1>2, <1>3, <1>4, <1>6, WorkerStep

LEMMA LogStep ==
  ASSUME TypeOK, [Next]_vars, \A k \in ReloadKinds : ReloadOK(k),
         NEW c \in External, LogOK(c)
  PROVE  LogOK(c)'
<1> DEFINE n == Len(config[c])
<1>0. /\ c \in Configs /\ n \in Nat \ {0} /\ Len(config'[c]) \in Nat \ {0}
      /\ configSeen[c] \in Nat /\ Grows
      /\ Latest(config[c]) = config[c][n]
  <2>1. StoreType' /\ Grows
    BY StoreKept
  <2> QED BY <2>1, ExternalLog DEF StoreType, Grows, Exists
<1> HIDE DEF n
<1>g. n <= Len(config'[c]) /\ \A i \in 1..n : config'[c][i] = config[c][i]
  BY <1>0 DEF Grows, n
<1>1. configSeen'[c] >= 1
  <2>1. CASE configSeen'[c] = configSeen[c]
    BY <2>1 DEF LogOK
  <2>2. ASSUME NEW d \in Configs, DeliverConfig(d)
        PROVE  configSeen'[c] >= 1
    BY <1>0, <2>2 DEF DeliverConfig, LogOK, TypeOK, CacheType
  <2>3. CASE Restart
    BY <1>0, <2>3 DEF Restart, store
  <2>4. configSeen' = configSeen \/ Restart \/ \E d \in Configs : DeliverConfig(d)
    BY DEF Next, Users, EditKubePkg, EditConfig, DeleteWorkload, Informers, DeliverKubePkg,
       DeliverTyped, DeliverMeta, ApplyStep, ApplyBegin, ApplyNext, ApplyWrite, ApplyEnd,
       ReloadStep, ReloadBegin, ReloadMark, ReloadMarkConflict, ReloadList, ReloadSkip,
       ReloadPatch, ReloadPatchConflict, ReloadEnd, Faults, ApplyFail, ReloadFail, vars, caches
  <2> QED BY <2>1, <2>2, <2>3, <2>4
<1>2. config'[c] = config[c] \/ Len(config'[c]) = n + 1
  BY ExternalStep DEF n
<1>3. ASSUME config[c][1].label = "self", NEW i \in 1..Len(config'[c])
      PROVE  config'[c][i].label = "self"
  <2>1. i \in 1..n => config'[c][i].label = "self"
    BY <1>g, <1>3 DEF LogOK, n
  <2>2. i = n + 1 => config'[c][i].label \in {"self", Latest(config[c]).label}
    BY <1>0, <1>3, ExternalStep DEF n
  <2>3. Latest(config[c]).label = "self"
    BY <1>0, <1>3 DEF LogOK, n
  <2> QED BY <1>0, <1>2, <2>1, <2>2, <2>3 DEF n
<1>4. ASSUME NEW i \in 1..Len(config'[c])
      PROVE  \/ config'[c][i].mark = None
             \/ \E j \in 1..Len(config'[c]) : config'[c][i].mark = config'[c][j].data
  <2>1. \A x : (\E j \in 1..n : x = config[c][j].data)
                 => \E j \in 1..Len(config'[c]) : x = config'[c][j].data
    BY <1>0, <1>g
  <2>2. i \in 1..n => \/ config'[c][i].mark = None
                      \/ \E j \in 1..n : config'[c][i].mark = config[c][j].data
    BY <1>g DEF LogOK, n
  <2>3. i = n + 1 => \/ config'[c][i].mark = None
                     \/ \E j \in 1..n : config'[c][i].mark = config[c][j].data
    <3>1. CASE config'[c][i].mark = Latest(config[c]).mark
      BY <1>0, <3>1 DEF LogOK, n
    <3>2. ASSUME NEW k \in ReloadKinds, reload[k].pc = "patch", reload[k].on = c,
                 reload[k].version = n, config'[c][i].mark = reload[k].data
          PROVE  \E j \in 1..n : config'[c][i].mark = config[c][j].data
      BY <1>0, <3>2 DEF ReloadOK
    <3> QED BY <1>0, <1>4, <3>1, <3>2, ExternalStep DEF n
  <2>4. i \in 1..n \/ i = n + 1
    BY <1>0, <1>2 DEF n
  <2> QED BY <2>1, <2>2, <2>3, <2>4
<1>5. config'[c][1] = config[c][1]
  BY <1>0, <1>g
<1> QED BY <1>1, <1>3, <1>4, <1>5 DEF LogOK

(* The versions of a config of the users, before and after a step. *)
LEMMA ExternalGrows ==
  ASSUME TypeOK, [Next]_vars, NEW c \in External
  PROVE  /\ Len(config[c]) \in Nat \ {0} /\ Len(config'[c]) \in Nat \ {0}
         /\ Len(config[c]) <= Len(config'[c])
         /\ \A i \in 1..Len(config[c]) : config'[c][i] = config[c][i]
         /\ config'[c] \in Seq(ConfigValue)
<1>1. StoreType' /\ Grows
  BY StoreKept
<1> QED BY <1>1, ExternalLog DEF StoreType, Grows, Exists

LEMMA ToldStep ==
  ASSUME TypeOK, [Next]_vars, NEW c \in External, Told(c)'
  PROVE  Told(c)
<1>1. /\ Len(config[c]) \in Nat \ {0} /\ Len(config'[c]) \in Nat
      /\ Len(config[c]) <= Len(config'[c])
      /\ \A i \in 1..Len(config[c]) : config'[c][i] = config[c][i]
      /\ config[c] \in Seq(ConfigValue) /\ config'[c] \in Seq(ConfigValue)
  BY ExternalGrows, ExternalLog
<1>2. config[c][1].label = "self"
  BY <1>1 DEF Told
<1>3. /\ DOMAIN config[c] \subseteq DOMAIN config'[c]
      /\ \A i \in DOMAIN config[c] : config'[c][i] = config[c][i]
  BY <1>1
<1> QED BY <1>2, <1>3 DEF Told, NeverReverted

(* A user who does not come back to an earlier content makes news of it: no *)
(* mark holds that content yet.                                             *)
LEMMA EditIsNews ==
  ASSUME TypeOK, [Next]_vars, NEW c \in External, LogOK(c), Told(c)',
         Content(c)' # Content(c)
  PROVE  /\ Len(config'[c]) = Len(config[c]) + 1 /\ configSeen' = configSeen
         /\ Latest(config'[c]).data # Latest(config'[c]).mark /\ Coming(c)'
<1> DEFINE n == Len(config[c])
<1>0. /\ n \in Nat \ {0} /\ Latest(config[c]) = config[c][n] /\ configSeen[c] \in 0..n
      /\ \A i \in 1..n : config'[c][i] = config[c][i] /\ config[c][i].data \in Data
      /\ config'[c] \in Seq(ConfigValue)
  BY ExternalGrows, ExternalLog
<1>1. /\ Len(config'[c]) = n + 1 /\ configSeen' = configSeen
      /\ config'[c][n + 1].mark = config[c][n].mark
  <2>1. Edits(c) \/ Marks(c)
    BY ExternalStep DEF Content
  <2> QED BY <1>0, ExternalStep DEF Content
<1>2. Content(c)' = config'[c][n + 1].data /\ Content(c) = config[c][n].data
  BY <1>0, <1>1 DEF Content, Latest
<1>3. config'[c][n + 1] \in ConfigValue
  BY <1>0, <1>1
<1>4. config'[c][n + 1].data \in Data
  BY <1>3 DEF ConfigValue
<1> HIDE DEF n
<1>5. ASSUME config'[c][n + 1].data = config'[c][n + 1].mark
      PROVE  FALSE
  <2>1. config[c][n].mark # None
    BY <1>1, <1>4, <1>5, ValuesAssumption
  <2>2. PICK j \in 1..n : config[c][n].mark = config[c][j].data
    BY <1>0, <2>1 DEF LogOK, n
  <2>3. config'[c][j].data = config'[c][n + 1].data /\ config'[c][n].data # config'[c][n + 1].data
    <3>1. config'[c][j] = config[c][j] /\ config'[c][n] = config[c][n]
      BY <1>0, <2>2
    <3>2. config'[c][j].data = config'[c][n + 1].mark
      BY <1>1, <2>2, <3>1
    <3> QED BY <1>2, <1>5, <3>1, <3>2
  <2>4. j < n /\ n < n + 1
    BY <1>0, <2>2, <2>3
  <2>5. {j, n, n + 1} \subseteq DOMAIN config'[c]
    BY <1>0, <1>1, <2>2
  <2> QED BY <2>3, <2>4, <2>5 DEF Told, NeverReverted
<1>6. Latest(config'[c]).data # Latest(config'[c]).mark
  BY <1>1, <1>5 DEF Latest
<1>7. Len(config'[c]) \in (configSeen'[c] + 1)..Len(config'[c])
  BY <1>0, <1>1
<1>8. Coming(c)'
  BY <1>6, <1>7 DEF Coming, News, Latest
<1> QED BY <1>1, <1>6, <1>8 DEF n

LEMMA NoticedStep ==
  ASSUME TypeOK, [Next]_vars, NEW c \in External, LogOK(c), Told(c)', Noticed(c)
  PROVE  Noticed(c)'
<1> DEFINE n == Len(config[c])
           m == Len(config'[c])
<1>0. /\ n \in Nat \ {0} /\ m \in Nat /\ n <= m
      /\ \A i \in 1..n : config'[c][i] = config[c][i]
  BY ExternalGrows
<1> SUFFICES ASSUME NEW j \in 1..m, config'[c][j].data # Content(c)'
             PROVE  \E i \in (j + 1)..m : config'[c][i].data # config'[c][i].mark
  BY DEF Noticed, News
<1>1. CASE Content(c)' # Content(c)
  <2>1. m = n + 1 /\ config'[c][m].data # config'[c][m].mark
    BY <1>1, EditIsNews DEF Latest
  <2>2. Content(c)' = config'[c][m].data
    BY DEF Content, Latest
  <2>3. m \in (j + 1)..m
    BY <1>0, <2>2
  <2> QED BY <2>1, <2>3
<1>2. CASE Content(c)' = Content(c)
  <2>1. j \in 1..n
    <3>1. m = n \/ m = n + 1
      BY ExternalStep
    <3>2. Content(c)' = config'[c][m].data
      BY DEF Content, Latest
    <3> QED BY <1>0, <3>1, <3>2
  <2>2. PICK i \in (j + 1)..n : News(c, i)
    BY <1>0, <1>2, <2>1 DEF Noticed
  <2>3. i \in (j + 1)..m /\ i \in 1..n
    BY <1>0, <2>1, <2>2
  <2> QED BY <1>0, <2>2, <2>3 DEF News
<1> QED BY <1>1, <1>2

(* A config leaves its queue when its worker takes it, and a version that   *)
(* passes the predicate puts it there.                                      *)
LEMMA QueueStep ==
  ASSUME TypeOK, [Next]_vars, NEW c \in External, c \in reloadQueue
  PROVE  c \in reloadQueue' \/ ReloadBegin(KindOfConfig(c), c)
<1>1. CASE Restart
  BY <1>1, ExternalLog DEF Restart, Exists
<1>2. ASSUME NEW k \in ReloadKinds, NEW d \in Configs, ReloadBegin(k, d)
      PROVE  c \in reloadQueue' \/ ReloadBegin(KindOfConfig(c), c)
  BY <1>2 DEF ReloadBegin
<1>3. \/ reloadQueue \subseteq reloadQueue' \/ Restart
      \/ \E k \in ReloadKinds, d \in Configs : ReloadBegin(k, d)
  <2>1. CASE Users \/ ApplyStep \/ ApplyFail \/ UNCHANGED vars
    BY <2>1 DEF Users, EditKubePkg, EditConfig, DeleteWorkload, ApplyStep, ApplyBegin,
       ApplyNext, ApplyWrite, ApplyEnd, ApplyFail, vars, queues
  <2>2. CASE Informers
    BY <2>2 DEF Informers, DeliverKubePkg, DeliverConfig, DeliverTyped, DeliverMeta, queues
  <2>3. ASSUME NEW k \in ReloadKinds, ReloadStep(k) \/ ReloadFail(k),
               ~ \E d \in Configs : ReloadBegin(k, d)
        PROVE  reloadQueue \subseteq reloadQueue'
    BY <2>3 DEF ReloadStep, ReloadMark, ReloadMarkConflict, ReloadList, ReloadSkip,
       ReloadPatch, ReloadPatchConflict, ReloadEnd, ReloadFail, Requeue, queues
  <2> QED BY <2>1, <2>2, <2>3 DEF Next, Faults
<1> QED BY <1>1, <1>2, <1>3

LEMMA ComingStep ==
  ASSUME TypeOK, [Next]_vars, NEW c \in External, c \in Watched, Coming(c)
  PROVE  Coming(c)' \/ ReloadBegin(KindOfConfig(c), c)
<1>1. CASE c \in reloadQueue
  BY <1>1, QueueStep DEF Coming
<1>2. ASSUME NEW i \in (configSeen[c] + 1)..Len(config[c]), News(c, i)
      PROVE  Coming(c)'
  <2>0. /\ c \in Configs /\ configSeen[c] \in Nat /\ configSeen \in [Configs -> Nat]
        /\ Len(config[c]) \in Nat /\ Len(config'[c]) \in Nat
        /\ Len(config[c]) <= Len(config'[c]) /\ i \in 1..Len(config[c])
    BY ExternalLog, ExternalGrows DEF TypeOK, CacheType
  <2>1. config'[c][i].data # config'[c][i].mark
    BY <1>2, <2>0, ExternalGrows DEF News
  <2>2. CASE configSeen'[c] = configSeen[c]
    BY <2>0, <2>1, <2>2 DEF Coming, News
  <2>3. ASSUME NEW d \in Configs, DeliverConfig(d)
        PROVE  Coming(c)'
    <3>1. CASE d # c
      BY <2>0, <2>2, <2>3, <3>1 DEF DeliverConfig
    <3>2. CASE d = c /\ i = configSeen[c] + 1
      <4>1. ReloadPredicate(c, config[c][configSeen[c] + 1])
        BY <1>2, <3>2 DEF ReloadPredicate, News
      <4> QED BY <2>3, <3>2, <4>1 DEF DeliverConfig, Coming
    <3>3. CASE d = c /\ i # configSeen[c] + 1
      <4>1. configSeen'[c] = configSeen[c] + 1
        BY <2>0, <2>3, <3>3 DEF DeliverConfig
      <4>2. i \in (configSeen'[c] + 1)..Len(config'[c])
        BY <2>0, <3>3, <4>1
      <4> QED BY <2>1, <4>2 DEF Coming, News
    <3> QED BY <3>1, <3>2, <3>3
  <2>4. CASE Restart
    BY <2>4, ExternalLog DEF Restart, Exists, Coming
  <2>5. configSeen' = configSeen \/ Restart \/ \E d \in Configs : DeliverConfig(d)
    BY DEF Next, Users, EditKubePkg, EditConfig, DeleteWorkload, Informers, DeliverKubePkg,
       DeliverTyped, DeliverMeta, ApplyStep, ApplyBegin, ApplyNext, ApplyWrite, ApplyEnd,
       ReloadStep, ReloadBegin, ReloadMark, ReloadMarkConflict, ReloadList, ReloadSkip,
       ReloadPatch, ReloadPatchConflict, ReloadEnd, Faults, ApplyFail, ReloadFail, vars, caches
  <2> QED BY <2>2, <2>3, <2>4, <2>5
<1> QED BY <1>1, <1>2 DEF Coming

(* A worker that gives the workloads an older content is to start again. *)
LEMMA RangeStep ==
  ASSUME TypeOK, [Next]_vars, \A k \in ReloadKinds : ReloadOK(k),
         NEW c \in External, c \in Watched, LogOK(c), Told(c)', RangeOK(c)
  PROVE  RangeOK(c)'
<1> DEFINE k == KindOfConfig(c)
           r == reload[k]
           s == reload'[k]
<1>0. k \in ReloadKinds /\ ReloadType(k)
  BY DEF KindOfConfig, ReloadKinds, TypeOK
<1> SUFFICES ASSUME s.pc = "range", s.on = c, s.data # Content(c)'
             PROVE  Coming(c)'
  BY DEF RangeOK, WorkerOf, KindOfConfig
<1>1. CASE Content(c)' # Content(c)
  BY <1>1, EditIsNews
<1>2. CASE Content(c)' = Content(c)
  <2>1. ASSUME r.pc = "range", r.on = s.on, r.data = s.data
        PROVE  Coming(c)'
    <3>1. Coming(c)
      BY <1>2, <2>1 DEF RangeOK, WorkerOf
    <3>2. ~ ReloadBegin(k, c)
      BY <2>1 DEF ReloadBegin
    <3> QED BY <3>1, <3>2, ComingStep
  <2>2. CASE ReloadMark(k) /\ s = [r EXCEPT !.pc = "range", !.kinds = WorkloadKinds]
    <3>1. r.on = c /\ r.data = s.data /\ r.pc = "patch" /\ r.version = Len(config[c])
      BY <1>0, <2>2 DEF ReloadMark, ReloadType
    <3>2. r.data = Content(c)
      BY <1>0, <3>1 DEF ReloadOK, Content, Latest
    <3> QED BY <1>2, <3>1, <3>2
  <2>4. CASE s = r
    BY <2>1, <2>4
  <2>5. CASE s = [r EXCEPT !.kinds = Tail(@), !.items = ListedItems(r.on, Head(r.kinds))]
    BY <1>0, <2>1, <2>5 DEF ReloadType
  <2>6. CASE \E i \in r.items : s = [r EXCEPT !.items = @ \ {i}]
    BY <1>0, <2>1, <2>6 DEF ReloadType
  <2>7. s.pc # "idle" /\ s.pc # "patch"
    OBVIOUS
  <2> HIDE DEF s
  <2> QED BY <1>0, <2>2, <2>4, <2>5, <2>6, <2>7, WorkerStep DEF s
<1> QED BY <1>1, <1>2

(* When its kind is listed, a workload that is behind is put down so, and a *)
(* live one is to be given the hash.                                        *)
LEMMA PairListed ==
  ASSUME TypeOK, ApplyInv, NEW c \in External, NEW w \in Workloads, c \in Refs[w],
         ReloadList(KindOfConfig(c)), WorkerOf(c).on = c,
         Head(WorkerOf(c).kinds) = KindOf[w]
  PROVE  PairOK(w, c)'
<1> DEFINE k == KindOfConfig(c)
           r == reload[k]
<1>0. /\ k \in ReloadKinds /\ ReloadType(k) /\ DOMAIN reload = ReloadKinds
      /\ typedSeen[w] \in Nat /\ typedSeen[w] <= Len(workload[w]) /\ Len(workload[w]) \in Nat
      /\ w \in Manifests /\ r.on = c /\ Head(r.kinds) = KindOf[w]
  BY DEF KindOfConfig, ReloadKinds, TypeOK, CacheType, StoreType, WorkerOf, Manifests
<1>1. UNCHANGED <<store, caches, queues, apply>>
  BY DEF ReloadList
<1>2. CASE typedSeen[w] < Len(workload[w])
  <2>1. <<w, c>> \in behind'
    BY <1>0, <1>2 DEF ReloadList
  <2> QED BY <2>1 DEF PairOK
<1>3. CASE typedSeen[w] = Len(workload[w]) /\ Live(w)
  <2>1. <<w, Len(workload[w])>> \in ListedItems(c, KindOf[w])
    BY <1>0, <1>3 DEF ListedItems, Live, Exists, Latest
  <2>2. reload'[k] = [r EXCEPT !.kinds = Tail(@), !.items = ListedItems(c, KindOf[w])]
    BY <1>0 DEF ReloadList, Worker
  <2>3. reload'[k].on = c /\ reload'[k].items = ListedItems(c, KindOf[w])
    BY <1>0, <2>2 DEF ReloadType
  <2>4. Handled(w, c)'
    BY <1>1, <2>1, <2>3 DEF Handled, WorkerOf, KindOfConfig, store
  <2> QED BY <2>4 DEF PairOK
<1>4. CASE ~ Live(w)
  <2>1. Ahead(w) \/ Writing(w)
    BY <1>0, <1>4 DEF ApplyInv, AsSpec
  <2>2. Ahead(w) => Ahead(w)'
    BY <1>1 DEF Ahead, store, caches, queues
  <2>3. Writing(w) => Writing(w)' /\ ~ Live(w)'
    BY <1>1, <1>4 DEF Writing, Live, store
  <2> QED BY <2>1, <2>2, <2>3 DEF PairOK
<1> QED BY <1>0, <1>2, <1>3, <1>4

(* The apply of a workload stamps the hash of the config it has in its      *)
(* cache, and an older one is to be noticed.                                *)
LEMMA PairApplied ==
  ASSUME TypeOK, NEW c \in External, LogOK(c), Told(c), Noticed(c),
         NEW w \in Workloads, c \in Refs[w], ApplyNext(w)
  PROVE  PairOK(w, c)'
<1>0. /\ c \in Configs /\ configSeen[c] \in 1..Len(config[c]) /\ Len(config[c]) \in Nat
      /\ w \in Manifests /\ ApplyType
  <2>1. /\ c \in Configs /\ configSeen[c] \in 0..Len(config[c]) /\ Len(config[c]) \in Nat
    BY ExternalLog
  <2> QED BY <2>1 DEF LogOK, TypeOK, Manifests
<1>1. /\ apply'.pc = "write" /\ apply'.on = w
      /\ apply'.hash = PatchedHash(w, kpkg[apply.spec])
      /\ UNCHANGED <<store, caches, queues>>
  BY <1>0 DEF ApplyNext, ApplyType
<1>2. PatchedHash(w, kpkg[apply.spec])[c] = config[c][configSeen[c]].data
  <2>1. config[c][configSeen[c]].label = "self" /\ configSeen[c] > 0
    BY <1>0 DEF LogOK, Told
  <2> QED BY <1>0, <2>1 DEF PatchedHash, Selected
<1>3. CASE config[c][configSeen[c]].data = Content(c)
  <2>1. Writing(w)' /\ apply'.hash[c] = Content(c)'
    BY <1>1, <1>2, <1>3 DEF Writing, Content, store
  <2> QED BY <2>1 DEF PairOK
<1>4. CASE config[c][configSeen[c]].data # Content(c)
  <2>1. Coming(c)
    BY <1>0, <1>4 DEF Noticed, Coming
  <2>2. Coming(c)'
    BY <1>1, <2>1 DEF Coming, News, store, caches, queues
  <2> QED BY <2>2 DEF PairOK
<1> QED BY <1>3, <1>4

(* A write that adds no version found the workload as it would leave it.    *)
LEMMA PairWritten ==
  ASSUME TypeOK, NEW c \in External, NEW w \in Workloads, Writing(w), ApplyWrite,
         workload'[w] = workload[w], apply.hash[c] = Content(c) \/ ~ Live(w)
  PROVE  Exists(workload[w]) /\ InSync(w, c)
<1> DEFINE v == AppliedWorkload(w, kpkg[apply.spec], apply.hash, apply.order)
<1>1. /\ workload'[w] = Write(workload[w], v) /\ workload[w] \in Seq(WorkloadValue)
      /\ c \in Configs
  BY DEF TypeOK, StoreType, Writing, ApplyWrite, ApplyEffect, External
<1>2. v.live /\ v.hash[c] = IF apply.hash[c] # None THEN apply.hash[c]
                            ELSE IF Exists(workload[w]) THEN Latest(workload[w]).hash[c] ELSE None
  BY <1>1 DEF AppliedWorkload
<1> HIDE DEF v
<1>3. Exists(workload[w]) /\ Latest(workload[w]) = v
  <2>1. Append(workload[w], v) # workload[w]
    <3>1. Len(Append(workload[w], v)) = Len(workload[w]) + 1
      BY <1>1
    <3> QED BY <1>1, <3>1
  <2> QED BY <1>1, <2>1 DEF Write
<1>4. Live(w)
  BY <1>2, <1>3 DEF Live
<1>5. Content(c) # None
  BY ExternalLog, ValuesAssumption
<1> QED BY <1>2, <1>3, <1>4, <1>5 DEF InSync, Content

(* A config that is taken from its queue is handled. *)
LEMMA PairTaken ==
  ASSUME TypeOK, NEW c \in External, LogOK(c), Told(c), NEW w \in Workloads,
         ReloadBegin(KindOfConfig(c), c)
  PROVE  PairOK(w, c)'
<1> DEFINE k == KindOfConfig(c)
<1>1. Exists(config[c]) /\ Latest(config[c]).label # "none"
  BY ExternalLog DEF LogOK, Told, Exists
<1>2. reload'[k] = [ReloadIdle EXCEPT !.pc = "patch", !.on = c,
                      !.data = Latest(config[c]).data, !.version = Len(config[c])]
  BY <1>1 DEF ReloadBegin, Worker, TypeOK, KindOfConfig, ReloadKinds
<1>3. reload'[k].pc = "patch" /\ reload'[k].on = c
  BY <1>2 DEF ReloadIdle
<1>4. Handled(w, c)'
  BY <1>3 DEF Handled, WorkerOf, KindOfConfig
<1> QED BY <1>4 DEF PairOK

(* A worker that is to give a workload the hash gives it, or starts again.  *)
LEMMA PairHandled ==
  ASSUME TypeOK, ApplyInv, [Next]_vars, NEW c \in External, c \in Watched, RangeOK(c),
         NEW w \in Workloads, c \in Refs[w],
         workload'[w] = workload[w], Content(c)' = Content(c), Handled(w, c)
  PROVE  PairOK(w, c)'
<1> DEFINE k == KindOfConfig(c)
           r == reload[k]
           s == reload'[k]
           item == <<w, Len(workload[w])>>
<1>0. /\ k \in ReloadKinds /\ ReloadType(k) /\ DOMAIN reload = ReloadKinds
      /\ r.on = c /\ workload[w] \in Seq(WorkloadValue) /\ c \in Configs
  BY DEF KindOfConfig, ReloadKinds, TypeOK, Handled, WorkerOf, StoreType, External
<1>1. r.pc # "idle" /\ (item \in r.items => r.pc = "range")
  BY <1>0 DEF Handled, WorkerOf, ReloadType
<1>2. c \in reloadQueue' => PairOK(w, c)'
  BY DEF PairOK, Coming
<1>3. ASSUME /\ s.on = c
             /\ \/ s.pc = "patch"
                \/ s.pc = "range" /\ HasKind(s.kinds, KindOf[w])
                \/ item \in s.items
      PROVE  PairOK(w, c)'
  <2>1. Handled(w, c)'
    BY <1>3 DEF Handled, WorkerOf, KindOfConfig, HasKind
  <2> QED BY <2>1 DEF PairOK
<1>4. CASE s = r
  BY <1>0, <1>3, <1>4 DEF Handled, WorkerOf
<1>5. CASE Restart \/ ReloadFail(k) \/ ReloadMarkConflict(k)
             \/ \E i \in r.items : ReloadPatchConflict(k, i)
  <2>1. c \in reloadQueue'
    BY <1>0, <1>5, ExternalLog DEF Restart, Exists, ReloadFail, ReloadMarkConflict,
       ReloadPatchConflict, Requeue
  <2> QED BY <1>2, <2>1
<1>6. CASE ReloadMark(k)
  <2>1. s = [r EXCEPT !.pc = "range", !.kinds = WorkloadKinds]
    BY <1>0, <1>6 DEF ReloadMark, Worker
  <2>2. s.on = c /\ s.pc = "range" /\ s.kinds = WorkloadKinds
    BY <1>0, <2>1 DEF ReloadType
  <2>3. HasKind(WorkloadKinds, KindOf[w])
    BY WorkloadsAssumption DEF HasKind
  <2> QED BY <1>3, <2>2, <2>3
<1>7. CASE ReloadList(k)
  <2>1. CASE Head(r.kinds) = KindOf[w]
    BY <1>0, <1>7, <2>1, PairListed DEF WorkerOf
  <2>2. CASE Head(r.kinds) # KindOf[w]
    <3>1. s = [r EXCEPT !.kinds = Tail(@), !.items = ListedItems(r.on, Head(r.kinds))]
      BY <1>0, <1>7 DEF ReloadList, Worker
    <3>2. s.on = c /\ s.pc = "range" /\ s.kinds = Tail(r.kinds)
      BY <1>0, <1>7, <3>1 DEF ReloadList, ReloadType
    <3>3. PICK i \in 1..Len(r.kinds) : r.kinds[i] = KindOf[w]
      BY <1>7 DEF ReloadList, Handled, WorkerOf, HasKind
    <3>4. r.kinds \in Seq(KindNames) /\ r.kinds # <<>> /\ i # 1
      BY <1>0, <1>7, <2>2, <3>3 DEF ReloadList, ReloadType
    <3>5. i - 1 \in 1..Len(Tail(r.kinds)) /\ Tail(r.kinds)[i - 1] = r.kinds[i]
      BY <3>3, <3>4
    <3>6. HasKind(s.kinds, KindOf[w])
      BY <3>2, <3>3, <3>5 DEF HasKind
    <3> QED BY <1>3, <3>2, <3>6
  <2> QED BY <2>1, <2>2
<1>8. ASSUME NEW i \in r.items, ReloadSkip(k, i) \/ ReloadPatch(k, i)
      PROVE  PairOK(w, c)'
  <2>1. s = [r EXCEPT !.items = @ \ {i}]
    BY <1>0, <1>8 DEF ReloadSkip, ReloadPatch, Worker
  <2>2. s.on = c /\ s.pc = r.pc /\ s.kinds = r.kinds /\ s.items = r.items \ {i}
    BY <1>0, <2>1 DEF ReloadType
  <2>3. CASE i # item
    BY <1>3, <2>2, <2>3 DEF Handled, WorkerOf
  <2>4. CASE i = item /\ ReloadSkip(k, i)
    <3>1. Len(workload[w]) \in 1..Len(workload[w]) /\ r.pc = "range"
      BY <1>0, <1>1, <1>8, <2>4 DEF ReloadType
    <3>2. Latest(workload[w]) \in WorkloadValue /\ Exists(workload[w])
      BY <1>0, <3>1 DEF Latest, Exists
    <3>3. [Latest(workload[w]) EXCEPT !.hash[c] = r.data] = Latest(workload[w])
      BY <1>0, <2>4 DEF ReloadSkip, NeedsPatch, Rehashed, Latest
    <3>4. Latest(workload[w]).hash[c] = r.data
      BY <1>0, <3>2, <3>3 DEF WorkloadValue
    <3>5. CASE r.data = Content(c)
      <4>1. (Exists(workload[w]) /\ InSync(w, c))'
        BY <3>2, <3>4, <3>5 DEF InSync, Content
      <4> QED BY <4>1 DEF PairOK
    <3>6. CASE r.data # Content(c)
      <4>1. Coming(c) /\ ~ ReloadBegin(k, c)
        BY <1>0, <3>1, <3>6 DEF RangeOK, WorkerOf, ReloadBegin
      <4> QED BY <4>1, ComingStep DEF PairOK
    <3> QED BY <3>5, <3>6
  <2>5. ~ (i = item /\ ReloadPatch(k, i))
    <3> SUFFICES ASSUME i = item, ReloadPatch(k, i)
                 PROVE  FALSE
      OBVIOUS
    <3>1. workload'[w] = Append(workload[w], Rehashed(r, i))
      BY DEF ReloadPatch, TypeOK, StoreType
    <3>2. Len(workload'[w]) = Len(workload[w]) + 1 /\ Len(workload[w]) \in Nat
      BY <1>0, <3>1
    <3> QED BY <3>2
  <2> QED BY <1>8, <2>3, <2>4, <2>5
<1>9. /\ ~ ReloadEnd(k) /\ \A d \in Configs : ~ ReloadBegin(k, d)
  <2>1. ~ ReloadEnd(k)
    BY <1>0 DEF ReloadEnd, Handled, WorkerOf, HasKind
  <2> QED BY <1>1, <2>1 DEF ReloadBegin
<1> QED BY <1>0, <1>4, <1>5, <1>6, <1>7, <1>8, <1>9, ReloadMoves DEF ReloadStep

LEMMA PairBehind ==
  ASSUME TypeOK, ApplyInv, \A k \in ReloadKinds : ReloadOK(k), [Next]_vars,
         NEW c \in External, NEW w \in Workloads, c \in Refs[w], <<w, c>> \in behind
  PROVE  PairOK(w, c)'
<1>1. ASSUME NEW k \in ReloadKinds, ReloadList(k), <<w, c>> \notin behind'
      PROVE  PairOK(w, c)'
  <2>1. reload[k].on = c /\ KindOf[w] = Head(reload[k].kinds) /\ reload[k].pc = "range"
    BY <1>1 DEF ReloadList
  <2>2. KindOfConfig(c) = k
    BY <2>1 DEF ReloadOK
  <2> QED BY <1>1, <2>1, <2>2, PairListed DEF WorkerOf
<1>2. behind' = behind \/ \E k \in ReloadKinds : ReloadList(k)
  BY DEF Next, Users, EditKubePkg, EditConfig, DeleteWorkload, Informers, DeliverKubePkg,
     DeliverConfig, DeliverTyped, DeliverMeta, ApplyStep, ApplyBegin, ApplyNext, ApplyWrite,
     ApplyEnd, ReloadStep, ReloadBegin, ReloadMark, ReloadMarkConflict, ReloadSkip,
     ReloadPatch, ReloadPatchConflict, ReloadEnd, Faults, ApplyFail, ReloadFail, Restart, vars
<1> QED BY <1>1, <1>2 DEF PairOK

LEMMA PairStep ==
  ASSUME TypeOK, ApplyInv, \A k \in ReloadKinds : ReloadOK(k), [Next]_vars,
         NEW c \in External, c \in Watched, LogOK(c), Told(c), Told(c)', Noticed(c), RangeOK(c),
         NEW w \in Workloads, c \in Refs[w], PairOK(w, c)
  PROVE  PairOK(w, c)'
<1>0. w \in Manifests /\ MetaBound
  BY DEF Manifests, ApplyInv
<1>1. CASE workload'[w] # workload[w]
  BY <1>0, <1>1, VersionAhead DEF PairOK
<1>2. CASE Content(c)' # Content(c)
  BY <1>2, EditIsNews DEF PairOK
<1>3. CASE workload'[w] = workload[w] /\ Content(c)' = Content(c)
  <2>1. CASE Exists(workload[w]) /\ InSync(w, c)
    <3>1. (Exists(workload[w]) /\ InSync(w, c))'
      BY <1>3, <2>1 DEF InSync, Content
    <3> QED BY <3>1 DEF PairOK
  <2>2. CASE <<w, c>> \in behind
    BY <2>2, PairBehind
  <2>3. CASE Ahead(w)
    BY <1>0, <2>3, AheadKept, PairApplied DEF PairOK
  <2>4. CASE Writing(w) /\ (apply.hash[c] = Content(c) \/ ~ Live(w))
    <3>1. apply' = apply => Writing(w)' /\ (apply.hash[c] = Content(c) \/ ~ Live(w))'
      BY <1>3, <2>4 DEF Writing, Live
    <3>2. ASSUME ApplyWrite
          PROVE  PairOK(w, c)'
      <4>1. Exists(workload[w]) /\ InSync(w, c)
        BY <1>3, <2>4, <3>2, PairWritten
      <4> QED BY <2>1, <4>1
    <3> QED BY <1>0, <2>4, <3>1, <3>2, WritingKept DEF PairOK
  <2>5. CASE Coming(c)
    BY <2>5, ComingStep, PairTaken DEF PairOK
  <2>6. CASE Handled(w, c)
    BY <1>3, <2>6, PairHandled
  <2> QED BY <2>1, <2>2, <2>3, <2>4, <2>5, <2>6 DEF PairOK
<1> QED BY <1>1, <1>2, <1>3

LEMMA ReloadInvStep == TypeOK /\ ApplyInv /\ ReloadInv /\ [Next]_vars => ReloadInv'
<1> SUFFICES ASSUME TypeOK, ApplyInv, ReloadInv, [Next]_vars
             PROVE  ReloadInv'
  OBVIOUS
<1>0. /\ \A k \in ReloadKinds : ReloadOK(k)
      /\ \A c \in External : LogOK(c)
  BY DEF ReloadInv
<1>1. \A k \in ReloadKinds : ReloadOK(k)'
  BY <1>0, ReloadOKStep
<1>2. \A c \in External : LogOK(c)'
  BY <1>0, LogStep
<1>3. ASSUME NEW c \in External \intersect Watched, Told(c)'
      PROVE  ConfigInv(c)'
  <2>1. Told(c)
    BY <1>3, ToldStep
  <2>2. Noticed(c) /\ RangeOK(c) /\ \A w \in Workloads : c \in Refs[w] => PairOK(w, c)
    BY <2>1 DEF ReloadInv, ConfigInv
  <2>3. Noticed(c)' /\ RangeOK(c)'
    BY <1>0, <1>3, <2>2, NoticedStep, RangeStep
  <2>4. \A w \in Workloads : c \in Refs[w] => PairOK(w, c)'
    BY <1>0, <1>3, <2>1, <2>2, PairStep
  <2> QED BY <2>3, <2>4 DEF ConfigInv
<1> QED BY <1>1, <1>2, <1>3 DEF ReloadInv

LEMMA ReloadInvariance == Spec => []ReloadInv
BY TypeCorrect, ApplyInvariance, InitReload, ReloadInvStep, PTL DEF Spec

(* When the operator has nothing left to do, every workload that mounts a   *)
(* config of the users enabled for reload carries the hash of its latest    *)
(* content, however the apply, the reloads, the edits, the failed calls and *)
(* the restarts interleaved, for any number of configs and workloads; the   *)
(* three cases outside are those of ReloadedWhenQuiet (reload_configmap.go, *)
(* kubepkg_apply.go: patchExternalConfigMapOrSecretIfNeed).                 *)
THEOREM ReloadedAtTheEnd == Spec => []ReloadedWhenQuiet
<1>1. ASSUME TypeOK, ReloadInv
      PROVE  ReloadedWhenQuiet
  <2> SUFFICES ASSUME Quiet, NEW w \in Workloads,
                      NEW c \in Refs[w] \intersect External \intersect Watched, Told(c)
               PROVE  InSync(w, c) \/ <<w, c>> \in behind
    BY DEF ReloadedWhenQuiet, Told
  <2>1. PairOK(w, c)
    BY <1>1 DEF ReloadInv, ConfigInv
  <2>2. kpkgSeen \in Nat /\ Len(kpkg) \in Nat
    BY <1>1 DEF TypeOK, CacheType, StoreType
  <2>3. metaSeen[w] = Len(workload[w]) /\ Len(workload[w]) \in Nat
    BY <1>1 DEF Quiet, MetaLog, Manifests, TypeOK, StoreType
  <2>4. ~ Ahead(w) /\ ~ Writing(w)
    BY <2>2, <2>3 DEF Quiet, Ahead, Writing
  <2>5. c \in Configs /\ configSeen[c] = Len(config[c]) /\ Len(config[c]) \in Nat
    BY <1>1, ExternalLog DEF Quiet
  <2>6. ~ Coming(c)
    BY <2>5 DEF Quiet, Coming
  <2>7. ~ Handled(w, c)
    <3>1. /\ WorkerOf(c).pc = "idle" /\ WorkerOf(c).items = {}
      BY <1>1 DEF Quiet, TypeOK, ReloadType, WorkerOf, KindOfConfig, ReloadKinds
    <3> QED BY <3>1 DEF Handled
  <2> QED BY <2>1, <2>4, <2>6, <2>7 DEF PairOK
<1> QED BY <1>1, TypeCorrect, ReloadInvariance, PTL
================================================================================
