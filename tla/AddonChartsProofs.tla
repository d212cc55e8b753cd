--------------------------- MODULE AddonChartsProofs ---------------------------
(* Theorems about AddonCharts, for any charts, releases, faults and number of  *)
(* installations.                                                              *)
EXTENDS AddonCharts, TLAPS

-------------------------------------------------------------------------------
(* Types                                                                       *)

CallType == [step : {"idle", "copy", "lookup", "read", "secret", "done"},
             meta : Meta \cup {"", "error", "uncopied"}]
SeenType == [config : Lists, charts : [Charts -> Objects \cup {Absent}]]
RecType  == [step : {"idle", "k0s", "charts", "save"}, in : Installations, state : States]

\* A reconcile has a call while it waits for metadata, and only one that makes
\* the config map may end without looking for it.
CallInv ==
    /\ rec.step \in {"idle", "save"} => call = NoCall
    /\ rec.step \in {"k0s", "charts"} => call.step # "idle"
    /\ call.step = "done" => call.meta # ""
    /\ rec.step = "charts" => call.step # "copy" /\ call.meta # "uncopied"

TypeInv == TypeOK /\ CallInv

LEMMA FirstInstallation == 1 \in Installations
BY ChartsAssumption DEF ChartsAssumption, Installations

LEMMA IdleFields ==
    /\ NoCall.step = "idle" /\ NoCall.meta = ""
    /\ LookUp.step = "lookup" /\ LookUp.meta = ""
    /\ Idle.step = "idle" /\ Idle.in = 1 /\ Idle.state = ""
BY DEF NoCall, LookUp, Idle

LEMMA IdleType == Idle \in RecType /\ NoCall \in CallType /\ LookUp \in CallType
<1>1. "" \in States
  BY DEF States
<1> QED
  BY <1>1, FirstInstallation DEF Idle, RecType, NoCall, LookUp, CallType

\* The variables with a type of their own, as facts to cite.
LEMMA Types ==
    ASSUME TypeOK
    PROVE  /\ airgap \in BOOLEAN /\ tlsSecret \in BOOLEAN
           /\ configMaps \in SUBSET Versions /\ copying \in SUBSET Versions
           /\ cache \in [Versions -> Meta \cup {"miss"}]
           /\ call \in CallType
           /\ unread \in SUBSET Versions
           /\ newest \in Installations
           /\ state \in States
           /\ config \in Lists
           /\ charts \in [Charts -> Objects \cup {Absent}]
           /\ seen \in SeenType
           /\ rec \in RecType
           /\ faults \in 0..MaxFaults
BY DEF TypeOK, MetadataTypeOK, CallType, SeenType, RecType

LEMMA FromTypes ==
    ASSUME airgap' \in BOOLEAN, tlsSecret' \in BOOLEAN,
           configMaps' \in SUBSET Versions, copying' \in SUBSET Versions,
           cache' \in [Versions -> Meta \cup {"miss"}],
           call' \in CallType,
           unread' \in SUBSET Versions,
           newest' \in Installations,
           state' \in States,
           config' \in Lists,
           charts' \in [Charts -> Objects \cup {Absent}],
           seen' \in SeenType,
           rec' \in RecType,
           faults' \in 0..MaxFaults
    PROVE  TypeOK'
BY DEF TypeOK, MetadataTypeOK, CallType, SeenType, RecType

LEMMA FaultType == ASSUME TypeOK, Fault PROVE faults' \in 0..MaxFaults
BY ChartsAssumption DEF TypeOK, Fault, ChartsAssumption

\* The version of the embedded cluster that a reconcile works on.
LEMMA VersionType == ASSUME NEW i \in Installations PROVE VersionOf[i] \in Versions
BY ChartsAssumption DEF ChartsAssumption

LEMMA WantedType ==
    ASSUME NEW i \in Installations, NEW meta \in Meta PROVE Wanted(i, meta) \in Lists
<1>1. ASSUME NEW c \in Charts PROVE Release[i][c] \in ChartVersions
  BY DEF ChartVersions
<1>2. "plain" \in Meta
  BY DEF Meta
<1> QED
  BY <1>1, <1>2 DEF Wanted, Lists, Contents

\* A chart that a release has, and that can be installed where the cluster runs, is
\* wanted in the release's version.
LEMMA WantedChart ==
    ASSUME NEW i \in Installations, NEW meta \in Meta, NEW c \in Charts
    PROVE  /\ Release[i][c] # 0 /\ (c = Registry => airgap) =>
                /\ Wanted(i, meta)[c] # Absent
                /\ Wanted(i, meta)[c].version = Release[i][c]
                /\ c = Registry => Wanted(i, meta)[c].values = meta
           /\ Wanted(i, meta)[c] # Absent =>
                /\ Release[i][c] # 0 /\ (c = Registry => airgap)
                /\ Wanted(i, meta)[c].values \in {meta, "plain"}
<1>1. Release[i][c] \in ChartVersions
  BY DEF ChartVersions
<1>2. [version |-> Release[i][c], values |-> IF c = Registry THEN meta ELSE "plain"] \in Contents
  BY <1>1 DEF Contents, Meta
<1>3. [version |-> Release[i][c], values |-> IF c = Registry THEN meta ELSE "plain"] # Absent
  BY <1>2, AbsentAssumption DEF AbsentAssumption
<1> QED
  BY <1>3 DEF Wanted

-------------------------------------------------------------------------------
(* What the actions do                                                         *)

\* The metadata part of a call changes the config maps, the cache and the call.
LEMMA MetadataForType ==
    ASSUME TypeOK, NEW v \in Versions, MetadataFor(v)
    PROVE  /\ configMaps' \in SUBSET Versions
           /\ cache' \in [Versions -> Meta \cup {"miss"}]
           /\ call' \in CallType
           /\ call'.step # "idle" /\ call.step # "idle"
           /\ call'.step = "done" => call'.meta # ""
           /\ call.step # "copy" => call'.meta \in Meta \cup {"error", call.meta}
           /\ call'.step # "copy"
           /\ UNCHANGED <<airgap, copying, tlsSecret, unread>>
<1>1. UNCHANGED <<airgap, copying, tlsSecret, unread>>
  BY DEF MetadataFor
<1>2. /\ call \in CallType /\ cache \in [Versions -> Meta \cup {"miss"}]
      /\ configMaps \in SUBSET Versions
  BY Types
<1>3. ASSUME NEW meta \in (Meta \cup {"", "error", "uncopied"}) \ {""}, Return(meta)
      PROVE  call' \in CallType /\ call'.step = "done" /\ call'.meta = meta
  BY <1>3 DEF Return, CallType
<1>4. ASSUME NEW step \in {"lookup", "read", "secret"}, Continue(step)
      PROVE  call' \in CallType /\ call'.step = step /\ call'.meta = call.meta
  BY <1>2, <1>4 DEF Continue, CallType
<1>5. CASE CopyVersionMetadataToCluster(v)
  <2>1. CASE configMaps' = configMaps \cup {v} /\ Continue("lookup")
    <3>1. call' \in CallType /\ call'.step = "lookup" /\ call'.meta = call.meta
      BY <1>4, <2>1
    <3> QED
      BY <1>1, <1>2, <1>5, <2>1, <3>1 DEF CopyVersionMetadataToCluster
  <2>2. CASE Return("uncopied") /\ UNCHANGED configMaps
    <3>1. call' \in CallType /\ call'.step = "done" /\ call'.meta = "uncopied"
      BY <1>3, <2>2
    <3> QED
      BY <1>1, <1>2, <1>5, <2>2, <3>1 DEF CopyVersionMetadataToCluster
  <2> QED
    BY <1>5, <2>1, <2>2 DEF CopyVersionMetadataToCluster
<1>6. CASE MetaFromCache(v)
  <2>0. call.step = "lookup" /\ UNCHANGED <<cache, configMaps>>
    BY <1>6 DEF MetaFromCache
  <2>1. CASE \E w \in Cached(v) : Return(cache[w])
    <3>1. cache[v] \in Meta /\ Return(cache[v])
      BY <1>2, <2>1 DEF Cached
    <3>2. cache[v] # ""
      BY <3>1 DEF Meta
    <3>3. call' \in CallType /\ call'.step = "done" /\ call'.meta = cache[v]
      BY <1>3, <3>1, <3>2
    <3> QED
      BY <1>1, <1>2, <2>0, <3>1, <3>2, <3>3
  <2>2. CASE Continue("read")
    <3>1. call' \in CallType /\ call'.step = "read" /\ call'.meta = call.meta
      BY <1>4, <2>2
    <3> QED
      BY <1>1, <1>2, <2>0, <3>1
  <2> QED
    BY <1>6, <2>1, <2>2 DEF MetaFromCache
<1>7. CASE RemoteMetadataFor(v)
  <2>1. call' \in CallType /\ call'.step = "done" /\ call'.meta = "plain"
    BY <1>3, <1>7 DEF RemoteMetadataFor, Meta
  <2> QED
    BY <1>1, <1>2, <1>7, <2>1 DEF RemoteMetadataFor, Meta
<1>8. CASE LocalMetadataFor(v)
  <2>1. CASE Continue("secret") /\ cache' = [cache EXCEPT ![v] = "plain"]
    <3>1. call' \in CallType /\ call'.step = "secret" /\ call'.meta = call.meta
      BY <1>4, <2>1
    <3> QED
      BY <1>1, <1>2, <1>8, <2>1, <3>1 DEF LocalMetadataFor, Meta
  <2>2. CASE Return("error") /\ UNCHANGED cache
    <3>1. call' \in CallType /\ call'.step = "done" /\ call'.meta = "error"
      BY <1>3, <2>2
    <3> QED
      BY <1>1, <1>2, <1>8, <2>2, <3>1 DEF LocalMetadataFor
  <2> QED
    BY <1>8, <2>1, <2>2 DEF LocalMetadataFor
<1>9. CASE ConfigureRegistryTLS(v)
  <2>1. call' \in CallType /\ call'.step = "done" /\ call'.meta \in Meta
    BY <1>3, <1>9 DEF ConfigureRegistryTLS, Meta
  <2> QED
    BY <1>1, <1>2, <1>9, <2>1 DEF ConfigureRegistryTLS, Configured, Meta
<1> QED
  BY <1>5, <1>6, <1>7, <1>8, <1>9 DEF MetadataFor

\* What a reconcile of the charts may do to the list and what it then stands for.
LEMMA ReconcileHelmChartsFacts ==
    ASSUME TypeInv, ReconcileHelmCharts
    PROVE  /\ rec.step = "charts" /\ call.step = "done" /\ call' = NoCall
           /\ \/ config' = config
              \/ call.meta \in Meta /\ config' = Wanted(rec.in, call.meta)
           /\ rec' \in RecType
           /\ rec'.step \in {"idle", "save"}
           /\ rec'.step = "save" => rec'.in = rec.in
           /\ rec'.step = "save" /\ rec'.state = "Installed" =>
                /\ call.meta \in Meta
                /\ config' = config
                /\ Drifted(Wanted(rec.in, call.meta), seen.config) = {}
                /\ InError(seen.config, seen.charts) = {}
                /\ PendingCharts(seen.config, seen.charts) = {}
           /\ UNCHANGED <<airgap, configMaps, copying, tlsSecret, cache, unread,
                          newest, state, charts, seen, faults>>
<1> DEFINE wanted  == Wanted(rec.in, call.meta)
           drift   == Drift(wanted, seen.config)
           errors  == InError(seen.config, seen.charts) # {}
           pending == PendingCharts(seen.config, seen.charts) # {}
<1>1. /\ rec.step = "charts" /\ call.step = "done" /\ call' = NoCall
      /\ UNCHANGED <<airgap, configMaps, copying, tlsSecret, cache, unread,
                     newest, state, charts, seen, faults>>
      /\ \/ call.meta = "error" /\ SetState("HelmChartUpdateFailure") /\ UNCHANGED config
         \/ /\ call.meta # "error" /\ UNCHANGED config
            /\ \/ SetState("HelmChartUpdateFailure")
               \/ ~errors /\ ~pending /\ ~drift /\ SetState("Installed")
               \/ SetState("PendingChartCreation")
         \/ /\ call.meta # "error"
            /\ InstallCharts(wanted)
  BY Zenon DEF ReconcileHelmCharts
<1>2. call.meta # "error" => call.meta \in Meta
  BY <1>1, Types DEF TypeInv, CallInv, CallType
<1>3. rec \in RecType
  BY Types DEF TypeInv
<1> HIDE DEF wanted, drift, errors, pending
<1>4. ASSUME NEW s \in States, SetState(s)
      PROVE  rec' \in RecType /\ rec'.step = "save" /\ rec'.in = rec.in /\ rec'.state = s
  BY <1>3, <1>4 DEF SetState, RecType
<1>5. Idle \in RecType /\ Idle.step = "idle"
  BY IdleType DEF Idle
<1>6. CASE SetState("HelmChartUpdateFailure") /\ UNCHANGED config
  BY <1>1, <1>4, <1>6 DEF States
<1>7. CASE SetState("PendingChartCreation") /\ UNCHANGED config
  BY <1>1, <1>4, <1>7 DEF States
<1>8. CASE /\ call.meta # "error" /\ UNCHANGED config
           /\ ~errors /\ ~pending /\ ~drift /\ SetState("Installed")
  BY <1>1, <1>2, <1>4, <1>8 DEF States, wanted, errors, pending, drift, Drift
<1>9. CASE call.meta # "error" /\ InstallCharts(wanted)
  <2>1. \/ config' = wanted /\ SetState("AddonsInstalling")
        \/ rec' = Idle /\ UNCHANGED config
    BY <1>9 DEF InstallCharts
  <2>2. CASE config' = wanted /\ SetState("AddonsInstalling")
    BY <1>1, <1>2, <1>4, <1>9, <2>2 DEF States, wanted
  <2>3. CASE rec' = Idle /\ UNCHANGED config
    BY <1>1, <1>5, <2>3
  <2> QED
    BY <2>1, <2>2, <2>3
<1> QED
  BY <1>1, <1>6, <1>7, <1>8, <1>9

\* K0s makes, updates or deletes one Chart object.
LEMMA K0sAppliesFacts ==
    ASSUME TypeOK, NEW c \in Charts, K0sApplies(c)
    PROVE  /\ charts' \in [Charts -> Objects \cup {Absent}]
           /\ \A d \in Charts \ {c} : charts'[d] = charts[d]
           /\ \/ /\ config[c] # Absent /\ charts[c] = Absent /\ charts'[c] # Absent
                 /\ charts'[c].spec = config[c] /\ charts'[c].applied = Absent
              \/ /\ config[c] # Absent /\ charts[c] # Absent /\ charts'[c] # Absent
                 /\ charts'[c].spec = config[c] /\ charts'[c].applied = charts[c].applied
              \/ config[c] = Absent /\ charts[c] # Absent /\ charts'[c] = Absent
           /\ UNCHANGED <<metadataVars, newest, state, config, seen, rec, faults>>
<1>0. config[c] \in Contents \cup {Absent} /\ charts[c] \in Objects \cup {Absent}
  BY Types DEF Lists
<1>1. ASSUME NEW o \in Objects PROVE o # Absent
  BY AbsentAssumption DEF AbsentAssumption
<1>2. CASE /\ config[c] # Absent /\ charts[c] = Absent
           /\ charts' = [charts EXCEPT ![c] =
                  [spec |-> config[c], applied |-> Absent, error |-> FALSE]]
  <2>1. [spec |-> config[c], applied |-> Absent, error |-> FALSE] \in Objects
    BY <1>0, <1>2 DEF Objects
  <2> QED
    BY <1>1, <1>2, <2>1, Types DEF K0sApplies
<1>3. CASE /\ config[c] # Absent /\ charts[c] # Absent
           /\ charts' = [charts EXCEPT ![c].spec = config[c]]
  <2>1. charts'[c] = [charts[c] EXCEPT !.spec = config[c]]
    BY <1>3, Types
  <2>2. charts'[c] \in Objects /\ charts'[c].spec = config[c]
        /\ charts'[c].applied = charts[c].applied
    BY <1>0, <1>3, <2>1 DEF Objects
  <2>3. charts' = [charts EXCEPT ![c] = charts'[c]]
    BY <1>3, <2>1, Types
  <2> QED
    BY <1>1, <1>3, <2>2, <2>3, Types DEF K0sApplies
<1>4. CASE config[c] = Absent /\ charts[c] # Absent /\ charts' = [charts EXCEPT ![c] = Absent]
  BY <1>4, Types DEF K0sApplies
<1> QED
  BY <1>2, <1>3, <1>4 DEF K0sApplies

\* Helm applies one Chart object or leaves an error.
LEMMA HelmAppliesFacts ==
    ASSUME TypeOK, NEW c \in Charts, HelmApplies(c)
    PROVE  /\ charts' \in [Charts -> Objects \cup {Absent}]
           /\ \A d \in Charts \ {c} : charts'[d] = charts[d]
           /\ charts[c] # Absent /\ charts'[c] # Absent
           /\ charts'[c].spec = charts[c].spec
           /\ charts'[c].applied \in {charts[c].spec, charts[c].applied}
           /\ faults' \in 0..MaxFaults
           /\ UNCHANGED <<metadataVars, newest, state, config, seen, rec>>
<1>0. charts[c] \in Objects
  BY Types DEF HelmApplies
<1>1. ASSUME NEW o \in Objects PROVE o # Absent
  BY AbsentAssumption DEF AbsentAssumption
<1>2. CASE /\ charts' = [charts EXCEPT ![c].applied = charts[c].spec, ![c].error = FALSE]
           /\ UNCHANGED faults
  <2>1. charts'[c] = [charts[c] EXCEPT !.applied = charts[c].spec, !.error = FALSE]
    BY <1>2, Types
  <2>2. charts'[c] \in Objects /\ charts'[c].spec = charts[c].spec
        /\ charts'[c].applied = charts[c].spec
    BY <1>0, <2>1 DEF Objects
  <2>3. charts' = [charts EXCEPT ![c] = charts'[c]]
    BY <1>2, <2>1, Types
  <2> QED
    BY <1>0, <1>1, <1>2, <2>2, <2>3, Types DEF HelmApplies
<1>3. CASE /\ charts' = [charts EXCEPT ![c].error = TRUE]
           /\ UNCHANGED faults \/ Fault
  <2>1. charts'[c] = [charts[c] EXCEPT !.error = TRUE]
    BY <1>3, Types
  <2>2. charts'[c] \in Objects /\ charts'[c].spec = charts[c].spec
        /\ charts'[c].applied = charts[c].applied
    BY <1>0, <2>1 DEF Objects
  <2>3. charts' = [charts EXCEPT ![c] = charts'[c]]
    BY <1>3, <2>1, Types
  <2> QED
    BY <1>0, <1>1, <1>3, <2>2, <2>3, FaultType, Types DEF HelmApplies
<1> QED
  BY <1>2, <1>3, Zenon DEF HelmApplies

-------------------------------------------------------------------------------
(* Type correctness                                                            *)

LEMMA InitType == Init => TypeInv
<1> SUFFICES ASSUME Init PROVE TypeInv
  OBVIOUS
<1>1. /\ airgap \in BOOLEAN /\ tlsSecret \in BOOLEAN
      /\ configMaps \in SUBSET Versions /\ copying \in SUBSET Versions
      /\ cache \in [Versions -> Meta \cup {"miss"}] /\ unread \in SUBSET Versions
  BY FirstInstallation, VersionType DEF Init, MetadataInit, Miss
<1>2. call \in CallType /\ call = NoCall /\ rec \in RecType /\ rec = Idle
  BY IdleType DEF Init, MetadataInit
<1>3. config \in Lists
  BY FirstInstallation, WantedType DEF Init, Meta
<1>4. ASSUME NEW c \in Charts
      PROVE  (IF config[c] = Absent THEN Absent
              ELSE [spec |-> config[c], applied |-> config[c], error |-> FALSE])
                 \in Objects \cup {Absent}
  BY <1>3 DEF Lists, Objects
<1>5. charts \in [Charts -> Objects \cup {Absent}] /\ seen \in SeenType
  BY <1>3, <1>4 DEF Init, SeenType
<1>6. newest \in Installations /\ state \in States /\ faults \in 0..MaxFaults
  <2>1. 1 \in Installations /\ "" \in States /\ 0 \in 0..MaxFaults
    BY FirstInstallation, ChartsAssumption DEF States, ChartsAssumption
  <2> QED
    BY <2>1 DEF Init
<1>7. CallInv
  BY <1>2, IdleFields DEF CallInv
<1> QED
  BY <1>1, <1>2, <1>3, <1>5, <1>6, <1>7
     DEF TypeInv, TypeOK, MetadataTypeOK, CallType, SeenType, RecType

LEMMA NextType == TypeInv /\ [Next]_vars => TypeInv'
<1> SUFFICES ASSUME TypeInv, [Next]_vars PROVE TypeOK' /\ CallInv'
  BY DEF TypeInv
<1> USE DEF metadataVars, chartVars
<1>0. TypeOK /\ CallInv
  BY DEF TypeInv
<1>1. CASE Reconcile
  <2>1. /\ call' \in CallType
        /\ call'.step \in {"copy", "lookup"} /\ call'.meta = ""
    <3>1. CASE call' = LookUp
      BY <3>1, IdleType, IdleFields
    <3>2. CASE call' = CopyThenLookUp(VersionOf[newest])
      BY <3>2 DEF CopyThenLookUp, CallType
    <3> QED
      BY <1>1, <3>1, <3>2 DEF Reconcile
  <2>2. /\ rec' \in RecType
        /\ rec'.step \in {"k0s", "charts"}
        /\ rec'.step = "charts" => call'.step = "lookup"
    <3>1. newest \in Installations /\ state \in States /\ "KubernetesInstalled" \in States
      BY <1>0, Types DEF States
    <3>2. CASE /\ rec' = [step |-> "charts", in |-> newest, state |-> "KubernetesInstalled"]
               /\ call' = LookUp
      BY <3>1, <3>2, IdleFields DEF RecType
    <3>3. CASE rec' = [step |-> "k0s", in |-> newest, state |-> state]
      BY <3>1, <3>3 DEF RecType
    <3> QED
      BY <1>1, <3>2, <3>3 DEF Reconcile
  <2>3. TypeOK'
    BY <1>0, <1>1, <2>1, <2>2, Types, FromTypes DEF Reconcile
  <2>4. CallInv'
    BY <2>1, <2>2 DEF CallInv
  <2> QED
    BY <2>3, <2>4
<1>2. CASE ReadMetadata
  <2>1. MetadataFor(VersionOf[rec.in]) /\ VersionOf[rec.in] \in Versions
        /\ UNCHANGED chartVars
    BY <1>0, <1>2, VersionType, Types DEF ReadMetadata, RecType
  <2>2. /\ configMaps' \in SUBSET Versions
        /\ cache' \in [Versions -> Meta \cup {"miss"}]
        /\ call' \in CallType
        /\ call'.step # "idle" /\ call.step # "idle"
        /\ call'.step = "done" => call'.meta # ""
        /\ call.step # "copy" => call'.meta \in Meta \cup {"error", call.meta}
        /\ call'.step # "copy"
        /\ UNCHANGED <<airgap, copying, tlsSecret, unread>>
    BY <1>0, <2>1, MetadataForType
  <2>3. TypeOK'
    BY <1>0, <2>1, <2>2, Types, FromTypes
  <2>4. CallInv'
    BY <1>0, <2>1, <2>2, IdleFields DEF CallInv, Meta
  <2> QED
    BY <2>3, <2>4
<1>3. CASE MetadataUnavailable
  <2>1. /\ call.step \in {"copy", "read", "secret"}
        /\ call' \in {[step |-> "done", meta |-> "uncopied"], [step |-> "done", meta |-> "error"]}
        /\ call.step # "copy" => call'.meta = "error"
    BY <1>3 DEF MetadataUnavailable, MetadataFails, Return
  <2>2. call' \in CallType /\ call'.step = "done" /\ call'.meta # ""
    <3>1. CASE call' = [step |-> "done", meta |-> "uncopied"]
      BY <3>1 DEF CallType
    <3>2. CASE call' = [step |-> "done", meta |-> "error"]
      BY <3>2 DEF CallType
    <3> QED
      BY <2>1, <3>1, <3>2
  <2>3. /\ UNCHANGED <<airgap, configMaps, copying, tlsSecret, cache,
                       newest, state, config, charts, seen, rec>>
        /\ faults' \in 0..MaxFaults
        /\ unread' \in {unread, unread \cup {VersionOf[rec.in]}}
    BY <1>0, <1>3, FaultType DEF MetadataUnavailable, MetadataFails
  <2>6. unread' \in SUBSET Versions
    BY <1>0, <2>3, VersionType, Types DEF RecType
  <2>4. TypeOK'
    BY <1>0, <2>2, <2>3, <2>6, Types, FromTypes
  <2>5. CallInv'
    BY <1>0, <2>1, <2>2, <2>3, IdleFields DEF CallInv
  <2> QED
    BY <2>4, <2>5
<1>4. CASE ReconcileK0sVersion
  <2>1. rec' \in RecType /\ call' \in CallType
    BY <1>0, <1>4, IdleType, Types DEF ReconcileK0sVersion, SetState, RecType, States
  <2>2. \/ rec'.step \in {"idle", "save"} /\ call' = NoCall
        \/ rec'.step = "charts" /\ call' = LookUp
    BY <1>0, <1>4, IdleFields, Types DEF ReconcileK0sVersion, SetState, RecType
  <2>3. TypeOK'
    BY <1>0, <1>4, <2>1, Types, FromTypes DEF ReconcileK0sVersion
  <2>4. CallInv'
    BY <2>2, IdleFields DEF CallInv
  <2> QED
    BY <2>3, <2>4
<1>5. CASE ReconcileHelmCharts
  <2>1. config' \in Lists
    BY <1>0, <1>5, ReconcileHelmChartsFacts, WantedType, Types DEF RecType
  <2>2. TypeOK'
    BY <1>0, <1>5, <2>1, ReconcileHelmChartsFacts, IdleType, Types, FromTypes
  <2>3. CallInv'
    BY <1>5, ReconcileHelmChartsFacts, IdleFields DEF CallInv
  <2> QED
    BY <2>2, <2>3
<1>6. CASE UpdateStatus
  <2>1. state' \in States /\ rec' \in RecType
    BY <1>0, <1>6, IdleType, Types DEF UpdateStatus, RecType
  <2>2. TypeOK'
    BY <1>0, <1>6, <2>1, Types, FromTypes DEF UpdateStatus
  <2>3. CallInv'
    BY <1>0, <1>6, IdleFields DEF UpdateStatus, CallInv
  <2> QED
    BY <2>2, <2>3
<1>7. CASE Abort
  <2>1. rec' = Idle /\ call' = NoCall /\ faults' \in 0..MaxFaults
        /\ UNCHANGED <<airgap, configMaps, copying, tlsSecret, newest, state, config, charts>>
    BY <1>0, <1>7, FaultType DEF Abort, RestartMetadata
  <2>2. seen' \in SeenType /\ cache' \in [Versions -> Meta \cup {"miss"}]
        /\ unread' \in SUBSET Versions
    BY <1>0, <1>7, Types DEF Abort, RestartMetadata, Miss, SeenType
  <2>3. TypeOK'
    BY <1>0, <2>1, <2>2, IdleType, Types, FromTypes
  <2>4. CallInv'
    BY <2>1, IdleFields DEF CallInv
  <2> QED
    BY <2>3, <2>4
<1>8. CASE Sync
  <2>1. seen' \in SeenType
    BY <1>0, <1>8, Types DEF Sync, SeenType
  <2>2. TypeOK'
    BY <1>0, <1>8, <2>1, Types, FromTypes DEF Sync
  <2> QED
    BY <1>0, <1>8, <2>2 DEF Sync, CallInv
<1>9. ASSUME NEW c \in Charts, K0sApplies(c)
      PROVE  TypeOK' /\ CallInv'
  <2>1. TypeOK'
    BY <1>0, <1>9, K0sAppliesFacts, Types, FromTypes
  <2> QED
    BY <1>0, <1>9, <2>1, K0sAppliesFacts DEF CallInv
<1>10. ASSUME NEW c \in Charts, HelmApplies(c)
       PROVE  TypeOK' /\ CallInv'
  <2>1. TypeOK'
    BY <1>0, <1>10, HelmAppliesFacts, Types, FromTypes
  <2> QED
    BY <1>0, <1>10, <2>1, HelmAppliesFacts DEF CallInv
<1>11. CASE NewInstallation
  <2>1. newest' \in Installations
    <3>1. newest \in Installations /\ newest < Last /\ newest' = newest + 1
      BY <1>0, <1>11, Types DEF NewInstallation
    <3> QED
      BY <3>1, ChartsAssumption DEF Installations, ChartsAssumption
  <2>2. /\ state' \in States
        /\ UNCHANGED <<metadataVars, config, charts, seen, rec, faults>>
    BY <1>11, Zenon DEF NewInstallation, States
  <2>3. TypeOK'
    BY <1>0, <2>1, <2>2, Types, FromTypes
  <2> QED
    BY <1>0, <1>11, <2>3 DEF NewInstallation, CallInv
<1>12. CASE Command
  <2>1. configMaps' \in SUBSET Versions /\ copying' \in SUBSET Versions
        /\ UNCHANGED <<airgap, tlsSecret, cache, call, unread, chartVars>>
    BY <1>0, <1>12, Types DEF Command, CommandFindsNoMetadata, CommandCopies
  <2>2. TypeOK'
    BY <1>0, <2>1, Types, FromTypes
  <2> QED
    BY <1>0, <2>1, <2>2 DEF CallInv
<1>13. CASE UNCHANGED vars
  <2>1. TypeOK'
    BY <1>0, <1>13, Types, FromTypes DEF vars
  <2> QED
    BY <1>0, <1>13, <2>1 DEF vars, CallInv
<1> QED
  BY <1>1, <1>2, <1>3, <1>4, <1>5, <1>6, <1>7, <1>8, <1>9, <1>10, <1>11, <1>12, <1>13
     DEF Next, Operator

\* The lists, the Chart objects, the informers' copies and the metadata have their types:
\* what is wanted of a release is never computed from metadata that a call did not return
\* (MetadataFor, ReconcileHelmCharts).
THEOREM ChartsTypeCorrect == Spec => []TypeOK
<1>1. TypeInv => TypeOK
  BY DEF TypeInv
<1> QED
  BY InitType, NextType, <1>1, PTL DEF Spec

-------------------------------------------------------------------------------
(* The inductive invariants                                                    *)

\* No release takes a chart back to a version that another one has replaced.
NoReturn ==
    \A i, j, k \in Installations, c \in Charts :
        i < j /\ j < k /\ Release[i][c] = Release[k][c] /\ Release[i][c] # 0
            => Release[j][c] = Release[i][c]

\* The charts that may be installed where the cluster runs.
Fitting == {c \in Charts : c = Registry => airgap}

\* The installation that is reconciled, or will be next.
Working == IF rec.step = "idle" THEN newest ELSE rec.in

\* The list holds charts that a release up to that one has.
ListInv ==
    /\ rec.step # "idle" => rec.in <= newest
    /\ \A c \in Charts : config[c] # Absent =>
        /\ c \in Fitting
        /\ \E k \in Installations :
              k <= Working /\ Release[k][c] # 0 /\ Release[k][c] = config[c].version

\* What is customised for TLS is so because the registry has the secret; where it has,
\* metadata as it was released is in the cache only until the secret has been read, or
\* when it could not be read.
CacheInv ==
    /\ \A v \in Versions : cache[v] = "tls" => tlsSecret
    /\ call.meta = "tls" => tlsSecret
    /\ tlsSecret =>
        /\ \A v \in Versions : cache[v] = "plain" =>
              v \in unread \/ (call.step = "secret" /\ v = VersionOf[rec.in])
        /\ call.meta = "plain" => VersionOf[rec.in] \in unread

SecretInv ==
    /\ tlsSecret => airgap
    /\ \A c \in Charts : config[c] # Absent /\ config[c].values = "tls" => tlsSecret
    /\ CacheInv

TLSInv == TypeInv /\ ListInv /\ SecretInv

\* Neither installation w nor a later one has version v of chart c.
Gone(w, c, v) == \A m \in Installations : m >= w => Release[m][c] # v

\* Helm has applied version v.
Has(object, v) == object # Absent /\ object.applied # Absent /\ object.applied.version = v

\* A Chart object has the list's version, or one that no release will want again.
ObjectInv ==
    \A c \in Fitting : charts[c] # Absent =>
        \/ config[c] # Absent /\ config[c].version = charts[c].spec.version
        \/ Gone(Working, c, charts[c].spec.version)

\* So it is with what helm has applied and the object,
HelmInv ==
    \A c \in Fitting : charts[c] # Absent /\ charts[c].applied # Absent =>
        \/ charts[c].applied.version = charts[c].spec.version
        \/ Gone(Working, c, charts[c].applied.version)

\* and with what the informer shows as applied and what is.
SeenInv ==
    \A c \in Fitting : seen.charts[c] # Absent /\ seen.charts[c].applied # Absent =>
        \/ Has(charts[c], seen.charts[c].applied.version)
        \/ Gone(Working, c, seen.charts[c].applied.version)

\* A reconcile that is about to declare its installation installed is right.
DecidedInv ==
    rec.step = "save" /\ rec.state = "Installed" =>
        \A c \in Fitting : Release[rec.in][c] # 0 => Has(charts[c], Release[rec.in][c])

VersionsInv == ObjectInv /\ HelmInv /\ SeenInv /\ DecidedInv

AppliedInv == TypeInv /\ ListInv /\ VersionsInv

-------------------------------------------------------------------------------
(* The list, and the installation that is worked on                            *)

\* The reconciles work on ever newer installations.
LEMMA WorkingGrows ==
    ASSUME TypeInv, ListInv, [Next]_vars
    PROVE  /\ UNCHANGED <<airgap, tlsSecret>>
           /\ rec'.step # "idle" => rec'.in <= newest'
           /\ Working \in Installations /\ Working' \in Installations
           /\ Working <= Working'
<1> USE DEF metadataVars, chartVars
<1>0. /\ newest \in Int /\ rec.in \in Int /\ newest \in Installations /\ rec.in \in Installations
      /\ rec.step # "idle" => rec.in <= newest
  BY Types DEF TypeInv, ListInv, RecType, Installations
<1>1. TypeInv'
  BY NextType
<1>2. newest' \in Int /\ rec'.in \in Int /\ newest' \in Installations /\ rec'.in \in Installations
  BY <1>1, NextType DEF TypeInv, TypeOK, Installations
<1>3. /\ UNCHANGED <<airgap, tlsSecret>>
      /\ newest <= newest'
      /\ \/ rec' = rec
         \/ rec'.step = "idle"
         \/ rec.step = "idle" /\ rec'.step # "idle" /\ rec'.in = newest
         \/ rec.step # "idle" /\ rec'.step # "idle" /\ rec'.in = rec.in
  <2>1. CASE Reconcile
    <3>1. \/ rec' = [step |-> "charts", in |-> newest, state |-> "KubernetesInstalled"]
          \/ rec' = [step |-> "k0s", in |-> newest, state |-> state]
      BY <2>1 DEF Reconcile
    <3>2. rec'.step # "idle" /\ rec'.in = newest
      BY <3>1
    <3> QED
      BY <1>0, <2>1, <3>2 DEF Reconcile
  <2>2. CASE ReadMetadata
    BY <1>0, <2>2 DEF ReadMetadata, MetadataFor
  <2>3. CASE MetadataUnavailable
    BY <1>0, <2>3 DEF MetadataUnavailable, MetadataFails
  <2>4. CASE ReconcileK0sVersion
    <3>1. rec.step # "idle" /\ UNCHANGED <<airgap, tlsSecret, newest>>
      BY <2>4 DEF ReconcileK0sVersion
    <3>2. \/ rec' = Idle
          \/ rec' = [rec EXCEPT !.step = "save", !.state = "Failed"]
          \/ rec' = [rec EXCEPT !.step = "charts", !.state = "KubernetesInstalled"]
      BY <2>4 DEF ReconcileK0sVersion, SetState
    <3>3. rec'.step = "idle" \/ rec'.in = rec.in
      BY <3>2, IdleFields, Types DEF TypeInv, RecType
    <3> QED
      BY <1>0, <3>1, <3>3
  <2>5. CASE ReconcileHelmCharts
    BY <1>0, <2>5, ReconcileHelmChartsFacts
  <2>6. CASE UpdateStatus
    <3>1. rec'.step = "idle" /\ UNCHANGED <<airgap, tlsSecret, newest>>
      BY <2>6, IdleFields DEF UpdateStatus
    <3> QED
      BY <1>0, <3>1
  <2>7. CASE Abort
    <3>1. rec'.step = "idle" /\ UNCHANGED <<airgap, tlsSecret, newest>>
      BY <2>7, IdleFields DEF Abort, RestartMetadata
    <3> QED
      BY <1>0, <3>1
  <2>8. CASE Sync
    BY <1>0, <2>8 DEF Sync
  <2>9. ASSUME NEW c \in Charts, K0sApplies(c) \/ HelmApplies(c)
        PROVE  UNCHANGED <<airgap, tlsSecret, newest, rec>>
    BY <2>9 DEF K0sApplies, HelmApplies
  <2>10. CASE NewInstallation
    <3>1. newest' = newest + 1 /\ UNCHANGED <<airgap, tlsSecret, rec>>
      BY <2>10, Zenon DEF NewInstallation
    <3> QED
      BY <1>0, <3>1
  <2>11. CASE Command
    BY <1>0, <2>11 DEF Command, CommandFindsNoMetadata, CommandCopies
  <2>12. CASE UNCHANGED vars
    BY <1>0, <2>12 DEF vars
  <2> QED
    BY <1>0, <2>1, <2>2, <2>3, <2>4, <2>5, <2>6, <2>7, <2>8, <2>9, <2>10, <2>11, <2>12
       DEF Next, Operator
<1>4. rec'.step # "idle" => rec'.in <= newest'
  BY <1>0, <1>2, <1>3
<1>5. Working \in Installations /\ Working' \in Installations
  BY <1>0, <1>2 DEF Working
<1>6. Working <= Working'
  BY <1>0, <1>2, <1>3, <1>4 DEF Working
<1> QED
  BY <1>3, <1>4, <1>5, <1>6

\* Only a reconcile of the charts writes the list.
LEMMA ListChange ==
    ASSUME TypeInv, [Next]_vars
    PROVE  \/ config' = config
           \/ ReconcileHelmCharts /\ call.meta \in Meta /\ config' = Wanted(rec.in, call.meta)
<1> USE DEF metadataVars, chartVars
<1>1. CASE ReconcileHelmCharts
  BY <1>1, ReconcileHelmChartsFacts
<1>2. CASE Command
  BY <1>2 DEF Command
<1>3. ASSUME NEW c \in Charts, K0sApplies(c) \/ HelmApplies(c) PROVE config' = config
  BY <1>3 DEF K0sApplies, HelmApplies
<1>4. CASE Reconcile \/ ReadMetadata \/ ReconcileK0sVersion \/ UpdateStatus
  BY <1>4 DEF Reconcile, ReadMetadata, ReconcileK0sVersion, UpdateStatus
<1>5. CASE MetadataUnavailable \/ Abort \/ Sync \/ NewInstallation \/ UNCHANGED vars
  BY <1>5 DEF MetadataUnavailable, Abort, Sync, NewInstallation, vars
<1> QED
  BY <1>1, <1>2, <1>3, <1>4, <1>5 DEF Next, Operator

LEMMA ListInit == Init => ListInv
<1> SUFFICES ASSUME Init PROVE ListInv
  OBVIOUS
<1>1. 1 \in Installations /\ Working = 1 /\ rec.step = "idle"
  BY FirstInstallation, IdleFields DEF Init, Working
<1>2. PICK meta \in Meta : config = Wanted(1, meta)
  BY DEF Init, Meta
<1>3. ASSUME NEW c \in Charts, config[c] # Absent
      PROVE  c \in Fitting /\ Release[1][c] # 0 /\ Release[1][c] = config[c].version
  BY <1>1, <1>2, <1>3, WantedChart DEF Fitting
<1> QED
  BY <1>1, <1>3 DEF ListInv, Installations

LEMMA ListStep == TypeInv /\ ListInv /\ [Next]_vars => ListInv'
<1> SUFFICES ASSUME TypeInv, ListInv, [Next]_vars
             PROVE  /\ rec'.step # "idle" => rec'.in <= newest'
                    /\ \A c \in Charts : config'[c] # Absent =>
                          /\ c \in Fitting'
                          /\ \E k \in Installations :
                                /\ k <= Working' /\ Release[k][c] # 0
                                /\ Release[k][c] = config'[c].version
  BY DEF ListInv
<1>1. /\ airgap' = airgap
      /\ rec'.step # "idle" => rec'.in <= newest'
      /\ Working \in Int /\ Working' \in Int /\ Working <= Working'
  BY WorkingGrows DEF Installations
<1>2. Fitting' = Fitting
  BY <1>1 DEF Fitting
<1>3. ASSUME NEW c \in Charts, config'[c] # Absent
      PROVE  /\ c \in Fitting
             /\ \E k \in Installations :
                   k <= Working' /\ Release[k][c] # 0 /\ Release[k][c] = config'[c].version
  <2>1. CASE config' = config
    <3>1. PICK k \in Installations :
             k <= Working /\ Release[k][c] # 0 /\ Release[k][c] = config[c].version
      BY <1>3, <2>1 DEF ListInv
    <3>2. k <= Working'
      BY <1>1, <3>1 DEF Installations
    <3> QED
      BY <1>3, <2>1, <3>1, <3>2 DEF ListInv
  <2>2. CASE ReconcileHelmCharts /\ call.meta \in Meta /\ config' = Wanted(rec.in, call.meta)
    <3>1. rec.in \in Installations /\ rec.in = Working
      BY <2>2, Types DEF TypeInv, RecType, ReconcileHelmCharts, Working
    <3>2. c \in Fitting /\ Release[rec.in][c] # 0 /\ Release[rec.in][c] = config'[c].version
      BY <1>3, <2>2, <3>1, WantedChart DEF Fitting
    <3> QED
      BY <1>1, <3>1, <3>2
  <2> QED
    BY <2>1, <2>2, ListChange
<1> QED
  BY <1>1, <1>2, <1>3

-------------------------------------------------------------------------------
(* TLS                                                                         *)

LEMMA SecretInit == Init => SecretInv
<1> SUFFICES ASSUME Init PROVE SecretInv
  OBVIOUS
<1>1. /\ tlsSecret => airgap
      /\ call.meta = ""
      /\ \A v \in Versions : cache[v] = "miss"
  <2>1. /\ airgap \in BOOLEAN /\ tlsSecret \in {airgap, FALSE}
        /\ call = NoCall /\ cache = Miss
    BY DEF Init, MetadataInit
  <2>2. tlsSecret => airgap
    BY <2>1, Zenon
  <2> QED
    BY <2>1, <2>2, IdleFields DEF Miss
<1>2. CacheInv
  BY <1>1 DEF CacheInv
<1>3. ASSUME NEW c \in Charts, config[c] # Absent, config[c].values = "tls" PROVE tlsSecret
  <2>1. CASE ~tlsSecret
    <3>1. config = Wanted(1, "plain") /\ "plain" \in Meta /\ 1 \in Installations
      BY <2>1, FirstInstallation DEF Init, Meta
    <3>2. config[c].values = "plain"
      BY <1>3, <3>1, WantedChart
    <3> QED
      BY <1>3, <3>2
  <2> QED
    BY <2>1
<1> QED
  BY <1>1, <1>2, <1>3 DEF SecretInv

\* The cache while a call looks for metadata.
LEMMA CacheRead ==
    ASSUME TypeInv, SecretInv, ReadMetadata
    PROVE  CacheInv'
<1> DEFINE v0 == VersionOf[rec.in]
<1>1. /\ MetadataFor(v0) /\ rec' = rec /\ tlsSecret' = tlsSecret /\ unread' = unread
      /\ tlsSecret => airgap
      /\ \A v \in Versions : cache[v] = "tls" => tlsSecret
      /\ call.meta = "tls" => tlsSecret
      /\ tlsSecret =>
          /\ \A v \in Versions : cache[v] = "plain" =>
                v \in unread \/ (call.step = "secret" /\ v = v0)
          /\ call.meta = "plain" => v0 \in unread
  BY DEF ReadMetadata, chartVars, MetadataFor, SecretInv, CacheInv
<1>2. v0 \in Versions /\ call \in CallType /\ cache \in [Versions -> Meta \cup {"miss"}]
      /\ tlsSecret \in BOOLEAN
  BY VersionType, Types DEF TypeInv, RecType
<1> SUFFICES /\ \A v \in Versions : cache'[v] = "tls" => tlsSecret
             /\ call'.meta = "tls" => tlsSecret
             /\ tlsSecret =>
                 /\ \A v \in Versions : cache'[v] = "plain" =>
                       v \in unread \/ (call'.step = "secret" /\ v = v0)
                 /\ call'.meta = "plain" => v0 \in unread
  BY <1>1 DEF CacheInv
<1> HIDE DEF v0
<1>3. ASSUME NEW meta, Return(meta) PROVE call'.step = "done" /\ call'.meta = meta
  BY <1>3 DEF Return
<1>4. ASSUME NEW step, Continue(step) PROVE call'.step = step /\ call'.meta = call.meta
  BY <1>2, <1>4 DEF Continue, CallType
<1>5. CASE CopyVersionMetadataToCluster(v0)
  <2>1. call'.meta \in {call.meta, "uncopied"}
    BY <1>3, <1>4, <1>5 DEF CopyVersionMetadataToCluster
  <2> QED
    BY <1>1, <1>5, <2>1 DEF CopyVersionMetadataToCluster
<1>6. CASE MetaFromCache(v0)
  <2>1. call'.meta \in {call.meta, cache[v0]} /\ call.step = "lookup" /\ cache' = cache
    BY <1>3, <1>4, <1>6 DEF MetaFromCache, Cached
  <2> QED
    BY <1>1, <1>2, <2>1
<1>7. CASE RemoteMetadataFor(v0)
  <2>1. call'.meta = "plain" /\ cache' = [cache EXCEPT ![v0] = "plain"] /\ ~tlsSecret
    BY <1>1, <1>3, <1>7 DEF RemoteMetadataFor
  <2> QED
    BY <1>1, <1>2, <2>1
<1>8. CASE LocalMetadataFor(v0)
  <2>1. CASE Continue("secret") /\ cache' = [cache EXCEPT ![v0] = "plain"]
    <3>1. call'.step = "secret" /\ call'.meta = call.meta
      BY <1>4, <2>1
    <3>2. \A v \in Versions : cache'[v] = IF v = v0 THEN "plain" ELSE cache[v]
      BY <1>2, <2>1
    <3> QED
      BY <1>1, <1>2, <1>8, <2>1, <3>1, <3>2 DEF LocalMetadataFor
  <2>2. CASE Return("error") /\ UNCHANGED cache
    <3>1. call'.meta = "error" /\ call.step = "read"
      BY <1>3, <1>8, <2>2 DEF LocalMetadataFor
    <3> QED
      BY <1>1, <2>2, <3>1
  <2> QED
    BY <1>8, <2>1, <2>2 DEF LocalMetadataFor
<1>9. CASE ConfigureRegistryTLS(v0)
  <2>1. CASE tlsSecret
    <3>1. call'.meta = "tls" /\ cache' = [cache EXCEPT ![v0] = "tls"]
      BY <1>3, <1>9, <2>1 DEF ConfigureRegistryTLS, Configured
    <3>2. \A v \in Versions : cache'[v] = IF v = v0 THEN "tls" ELSE cache[v]
      BY <1>2, <3>1
    <3> QED
      BY <1>1, <1>2, <2>1, <3>1, <3>2
  <2>2. CASE ~tlsSecret
    <3>1. call'.meta = "plain" /\ cache' = cache
      BY <1>3, <1>9, <2>2 DEF ConfigureRegistryTLS
    <3> QED
      BY <1>1, <2>2, <3>1
  <2> QED
    BY <2>1, <2>2
<1> QED
  BY <1>1, <1>5, <1>6, <1>7, <1>8, <1>9 DEF MetadataFor

\* A step that leaves the cache, or empties it, and that does not end a call before the
\* secret has been read.
LEMMA CacheKept ==
    ASSUME CacheInv, tlsSecret' = tlsSecret,
           \/ cache' = cache /\ unread' = unread
           \/ cache' = Miss /\ call'.meta \notin Meta,
           \/ call' = call /\ rec'.in = rec.in
           \/ call'.meta \notin Meta /\ (call.step # "secret" \/ cache' = Miss)
    PROVE  CacheInv'
BY DEF CacheInv, Miss, Meta

\* A call that fails, also after the metadata has been put into the cache.
LEMMA CacheFails ==
    ASSUME TypeInv, CacheInv, MetadataUnavailable
    PROVE  CacheInv'
<1>1. /\ UNCHANGED <<rec, cache, tlsSecret>>
      /\ Return("uncopied") \/ Return("error")
      /\ \/ unread' = unread /\ call.step # "secret"
         \/ unread' = unread \cup {VersionOf[rec.in]}
  BY DEF MetadataUnavailable, MetadataFails
<1>2. call'.meta \in {"uncopied", "error"}
  <2>1. ASSUME NEW meta, Return(meta) PROVE call'.meta = meta
    BY <2>1 DEF Return
  <2> QED
    BY <1>1, <2>1
<1> QED
  BY <1>1, <1>2 DEF CacheInv

LEMMA SecretStep == TypeInv /\ SecretInv /\ [Next]_vars => SecretInv'
<1> SUFFICES ASSUME TypeInv, SecretInv, [Next]_vars PROVE SecretInv'
  OBVIOUS
<1> USE DEF metadataVars, chartVars
<1>0. CacheInv /\ CallInv
  BY DEF SecretInv, TypeInv
<1>1. UNCHANGED <<airgap, tlsSecret>>
  <2>1. CASE Operator
    BY <2>1 DEF Operator, Reconcile, ReadMetadata, MetadataFor, ReconcileK0sVersion,
                ReconcileHelmCharts, UpdateStatus
  <2>2. CASE MetadataUnavailable \/ Abort \/ Sync \/ NewInstallation \/ Command \/ UNCHANGED vars
    BY <2>2 DEF MetadataUnavailable, MetadataFails, Abort, RestartMetadata, Sync, NewInstallation,
                Command, CommandFindsNoMetadata, CommandCopies, vars
  <2>3. ASSUME NEW c \in Charts, K0sApplies(c) \/ HelmApplies(c)
        PROVE  UNCHANGED <<airgap, tlsSecret>>
    BY <2>3 DEF K0sApplies, HelmApplies
  <2> QED
    BY <2>1, <2>2, <2>3 DEF Next
<1>2. ASSUME NEW c \in Charts, config'[c] # Absent, config'[c].values = "tls" PROVE tlsSecret
  <2>1. CASE config' = config
    BY <1>2, <2>1 DEF SecretInv
  <2>2. CASE call.meta \in Meta /\ config' = Wanted(rec.in, call.meta)
    <3>1. config'[c].values \in {call.meta, "plain"}
      BY <1>2, <2>2, WantedChart, Types DEF TypeInv, RecType
    <3> QED
      BY <1>0, <1>2, <3>1 DEF CacheInv
  <2> QED
    BY <2>1, <2>2, ListChange
<1>3. CacheInv'
  <2>1. CASE Reconcile
    <3>1. cache' = cache /\ unread' = unread /\ call = NoCall
          /\ (call' = LookUp \/ call' = CopyThenLookUp(VersionOf[newest]))
      <4>1. rec.step = "idle" /\ cache' = cache /\ unread' = unread
            /\ (call' = LookUp \/ call' = CopyThenLookUp(VersionOf[newest]))
        BY <2>1, Zenon DEF Reconcile
      <4> QED
        BY <1>0, <4>1 DEF CallInv
    <3>2. call'.meta = ""
      <4>1. ASSUME NEW v PROVE CopyThenLookUp(v).meta = ""
        BY DEF CopyThenLookUp
      <4> QED
        BY <3>1, <4>1, IdleFields
    <3> QED
      <4>1. call'.meta \notin Meta /\ call.step # "secret"
        BY <3>1, <3>2, IdleFields DEF Meta
      <4> QED
        BY <1>0, <1>1, <3>1, <4>1, CacheKept
  <2>2. CASE ReadMetadata
    BY <2>2, CacheRead
  <2>3. CASE MetadataUnavailable
    BY <1>0, <2>3, CacheFails DEF CacheInv, TypeInv
  <2>4. CASE ReconcileK0sVersion
    <3>1. cache' = cache /\ unread' = unread /\ call'.meta = "" /\ call.step = "done"
      BY <2>4, IdleFields DEF ReconcileK0sVersion
    <3> QED
      BY <1>0, <1>1, <3>1, CacheKept DEF Meta
  <2>5. CASE ReconcileHelmCharts
    <3>1. cache' = cache /\ unread' = unread /\ call'.meta = "" /\ call.step = "done"
      BY <2>5, IdleFields, ReconcileHelmChartsFacts
    <3> QED
      BY <1>0, <1>1, <3>1, CacheKept DEF Meta
  <2>6. CASE UpdateStatus
    <3>1. cache' = cache /\ unread' = unread /\ call' = call /\ rec.step = "save"
      BY <2>6, Zenon DEF UpdateStatus
    <3>2. call = NoCall
      BY <1>0, <3>1 DEF CallInv
    <3> QED
      <4>1. call'.meta \notin Meta /\ call.step # "secret"
        BY <3>1, <3>2, IdleFields DEF Meta
      <4> QED
        BY <1>0, <1>1, <3>1, <4>1, CacheKept
  <2>7. CASE Abort
    <3>1. /\ call' = NoCall
          /\ \/ cache' = Miss
             \/ cache' = cache /\ unread' = unread /\ call.step # "secret"
      BY <1>0, <2>7, IdleFields DEF Abort, RestartMetadata, CallInv
    <3>2. call'.meta \notin Meta
      BY <3>1, IdleFields DEF Meta
    <3>3. CASE cache' = Miss
      BY <1>0, <1>1, <3>2, <3>3, CacheKept
    <3>4. CASE cache' = cache /\ unread' = unread /\ call.step # "secret"
      BY <1>0, <1>1, <3>2, <3>4, CacheKept
    <3> QED
      BY <3>1, <3>3, <3>4
  <2>8. CASE Sync \/ NewInstallation \/ Command \/ UNCHANGED vars
    <3>1. UNCHANGED <<cache, unread, call, rec>>
      BY <2>8 DEF Sync, NewInstallation, Command, CommandFindsNoMetadata, CommandCopies, vars
    <3> QED
      BY <1>0, <1>1, <3>1, CacheKept
  <2>9. ASSUME NEW c \in Charts, K0sApplies(c) \/ HelmApplies(c) PROVE CacheInv'
    <3>1. UNCHANGED <<cache, unread, call, rec>>
      BY <2>9 DEF K0sApplies, HelmApplies
    <3> QED
      BY <1>0, <1>1, <3>1, CacheKept
  <2> QED
    BY <2>1, <2>2, <2>3, <2>4, <2>5, <2>6, <2>7, <2>8, <2>9 DEF Next, Operator
<1> QED
  BY <1>1, <1>2, <1>3 DEF SecretInv

TLSIsKeptStep ==
    /\ config[Registry] # Absent /\ config[Registry].values = "tls"
    /\ config'[Registry] # Absent /\ config'[Registry].values = "plain"
    => VersionOf[rec.in] \in unread

\* Whatever order upgrades, restarts, failed calls and the copying of metadata come in, the
\* operator takes TLS from a registry that serves it only for a release for which the secret
\* could not be read since it has started (localMetadataFor, configureRegistryTLS,
\* mergeHelmConfigs).
THEOREM RegistryKeepsTLS == Spec => TLSIsKept
<1>1. Init => TLSInv
  BY InitType, ListInit, SecretInit DEF TLSInv
<1>2. TLSInv /\ [Next]_vars => TLSInv'
  BY NextType, ListStep, SecretStep DEF TLSInv
<1>3. TLSInv /\ [Next]_vars => [TLSIsKeptStep]_vars
  <2> SUFFICES ASSUME TLSInv, [Next]_vars,
                      config[Registry] # Absent, config[Registry].values = "tls",
                      config'[Registry] # Absent, config'[Registry].values = "plain"
               PROVE  VersionOf[rec.in] \in unread
    BY DEF TLSIsKeptStep
  <2>1. Registry \in Charts
    BY ChartsAssumption DEF ChartsAssumption
  <2>2. tlsSecret /\ airgap
    BY <2>1 DEF TLSInv, SecretInv
  <2>3. CASE call.meta \in Meta /\ config' = Wanted(rec.in, call.meta)
    <3>1. rec.in \in Installations
      BY Types DEF TLSInv, TypeInv, RecType
    <3>2. call.meta = "plain"
      BY <2>1, <2>3, <3>1, WantedChart
    <3> QED
      BY <2>2, <3>2 DEF TLSInv, SecretInv, CacheInv
  <2> QED
    BY <2>3, ListChange DEF TLSInv
<1>4. Spec => [][TLSIsKeptStep]_vars
  BY <1>1, <1>2, <1>3, PTL DEF Spec
<1> QED
  BY <1>4 DEF TLSIsKept, TLSIsKeptStep

-------------------------------------------------------------------------------
(* Versions                                                                    *)

\* What no release wants any more it will not want later.
LEMMA GoneForGood ==
    ASSUME NEW w \in Installations, NEW later \in Installations, w <= later,
           NEW c, NEW v, Gone(w, c, v)
    PROVE  Gone(later, c, v)
BY DEF Gone, Installations

\* A version that a release has replaced is gone, if none returns.
LEMMA ReplacedIsGone ==
    ASSUME NoReturn,
           NEW c \in Charts, NEW w \in Installations, NEW k \in Installations, k <= w,
           Release[k][c] # 0, Release[w][c] # Release[k][c]
    PROVE  Gone(w, c, Release[k][c])
<1> SUFFICES ASSUME NEW m \in Installations, m >= w, Release[m][c] = Release[k][c]
             PROVE  FALSE
  BY DEF Gone
<1>1. k < w /\ w < m
  BY DEF Installations
<1> QED
  BY <1>1 DEF NoReturn

LEMMA VersionsInit == Init => VersionsInv
<1> SUFFICES ASSUME Init PROVE VersionsInv
  OBVIOUS
<1>1. config \in Lists
  BY InitType DEF TypeInv, TypeOK
<1>2. ASSUME NEW c \in Charts, charts[c] # Absent
      PROVE  /\ config[c] # Absent
             /\ charts[c] = [spec |-> config[c], applied |-> config[c], error |-> FALSE]
  BY <1>2 DEF Init
<1>3. seen.charts = charts /\ rec.step = "idle"
  BY IdleFields DEF Init
<1>4. ASSUME NEW c \in Charts, charts[c] # Absent
      PROVE  /\ config[c] # Absent
             /\ charts[c].spec = config[c] /\ charts[c].applied = config[c]
  <2>1. ASSUME NEW content, NEW object,
               object = [spec |-> content, applied |-> content, error |-> FALSE]
        PROVE  object.spec = content /\ object.applied = content
    BY <2>1
  <2> QED
    BY <1>2, <1>4, <2>1
<1>5. ObjectInv /\ HelmInv
  BY <1>4 DEF ObjectInv, HelmInv, Fitting
<1>6. SeenInv
  BY <1>3, <1>4 DEF SeenInv, Has, Fitting
<1> QED
  BY <1>3, <1>5, <1>6 DEF DecidedInv, VersionsInv

\* The parts of the invariant that only follow the growth of Working.
LEMMA ObjectsKept ==
    ASSUME TypeInv, ListInv, ObjectInv, HelmInv, SeenInv, [Next]_vars,
           UNCHANGED <<config, charts>>, seen'.charts \in {seen.charts, charts}
    PROVE  ObjectInv' /\ HelmInv' /\ SeenInv'
<1>1. /\ Fitting' = Fitting
      /\ Working \in Installations /\ Working' \in Installations /\ Working <= Working'
  BY WorkingGrows DEF Fitting
<1>2. ASSUME NEW c, NEW v, Gone(Working, c, v) PROVE Gone(Working', c, v)
  BY <1>1, <1>2, GoneForGood
<1>3. ObjectInv'
  BY <1>1, <1>2 DEF ObjectInv
<1>4. HelmInv'
  BY <1>1, <1>2 DEF HelmInv
<1>5. SeenInv'
  <2>1. CASE seen'.charts = seen.charts
    BY <1>1, <1>2, <2>1 DEF SeenInv, Has
  <2>2. CASE seen'.charts = charts
    BY <2>2 DEF SeenInv, Has
  <2> QED
    BY <2>1, <2>2
<1> QED
  BY <1>3, <1>4, <1>5

\* A new list: what it replaces is gone.
LEMMA NewList ==
    ASSUME NoReturn, TypeInv, ListInv, ObjectInv, HelmInv, SeenInv, ReconcileHelmCharts
    PROVE  ObjectInv' /\ HelmInv' /\ SeenInv'
<1>1. /\ UNCHANGED <<charts, seen, airgap, newest>>
      /\ \/ config' = config
         \/ call.meta \in Meta /\ config' = Wanted(rec.in, call.meta)
  BY ReconcileHelmChartsFacts
<1>2. [Next]_vars
  BY DEF Next, Operator
<1>3. CASE config' = config
  BY <1>1, <1>2, <1>3, ObjectsKept
<1>4. CASE call.meta \in Meta /\ config' = Wanted(rec.in, call.meta)
  <2>1. /\ Fitting' = Fitting
        /\ Working \in Installations /\ Working' \in Installations /\ Working <= Working'
    BY <1>2, WorkingGrows DEF Fitting
  <2>2. ASSUME NEW c, NEW v, Gone(Working, c, v) PROVE Gone(Working', c, v)
    BY <2>1, <2>2, GoneForGood
  <2>3. rec.in = Working /\ rec.in \in Installations
    BY <2>1, ReconcileHelmChartsFacts DEF Working
  <2>4. ASSUME NEW c \in Fitting, charts[c] # Absent
        PROVE  \/ config'[c] # Absent /\ config'[c].version = charts[c].spec.version
               \/ Gone(Working, c, charts[c].spec.version)
    <3>1. CASE Gone(Working, c, charts[c].spec.version)
      BY <3>1
    <3>2. CASE config[c] # Absent /\ config[c].version = charts[c].spec.version
      <4>1. PICK k \in Installations :
               k <= Working /\ Release[k][c] # 0 /\ Release[k][c] = charts[c].spec.version
        BY <3>2 DEF ListInv, Fitting
      <4>2. CASE Release[rec.in][c] = Release[k][c]
        <5>1. config'[c] # Absent /\ config'[c].version = Release[rec.in][c]
          BY <1>4, <2>3, <4>1, <4>2, WantedChart DEF Fitting
        <5> QED
          BY <4>1, <4>2, <5>1
      <4>3. CASE Release[rec.in][c] # Release[k][c]
        BY <2>1, <2>3, <4>1, <4>3, ReplacedIsGone DEF Fitting
      <4> QED
        BY <4>2, <4>3
    <3> QED
      BY <2>4, <3>1, <3>2 DEF ObjectInv
  <2>5. ObjectInv'
    BY <1>1, <2>1, <2>2, <2>4 DEF ObjectInv
  <2>6. HelmInv'
    BY <1>1, <2>1, <2>2 DEF HelmInv
  <2>7. SeenInv'
    BY <1>1, <2>1, <2>2 DEF SeenInv, Has
  <2> QED
    BY <2>5, <2>6, <2>7
<1> QED
  BY <1>1, <1>3, <1>4

\* The decision: the charts that are wanted are neither drifted nor pending in the copies,
\* and what the copies show as applied is applied, because it is not gone.
LEMMA Decision ==
    ASSUME TypeInv, SeenInv, ReconcileHelmCharts, rec'.step = "save", rec'.state = "Installed",
           NEW c \in Fitting, Release[rec.in][c] # 0
    PROVE  Has(charts[c], Release[rec.in][c])
<1> DEFINE wanted == Wanted(rec.in, call.meta)
<1>1. /\ call.meta \in Meta /\ rec.in \in Installations /\ c \in Charts
      /\ rec.in = Working
      /\ Drifted(wanted, seen.config) = {}
      /\ InError(seen.config, seen.charts) = {}
      /\ PendingCharts(seen.config, seen.charts) = {}
  BY ReconcileHelmChartsFacts, Types DEF TypeInv, RecType, Fitting, Working
<1>2. wanted[c] # Absent /\ wanted[c].version = Release[rec.in][c]
  BY <1>1, WantedChart DEF Fitting
<1> HIDE DEF wanted
<1>3. seen.config[c] = wanted[c]
  BY <1>1, <1>2 DEF Drifted
<1>4. seen.charts[c] # Absent /\ ~Lags(seen.config[c], seen.charts[c])
  BY <1>1, <1>2, <1>3 DEF PendingCharts
<1>5. /\ seen.charts[c].applied # Absent
      /\ seen.charts[c].applied.version = Release[rec.in][c]
  BY <1>2, <1>3, <1>4 DEF Lags
<1>6. ~Gone(Working, c, Release[rec.in][c])
  BY <1>1 DEF Gone, Installations
<1> QED
  BY <1>4, <1>5, <1>6 DEF SeenInv

\* A step of k0s or helm on one chart.
LEMMA ChartChange ==
    ASSUME TypeInv, VersionsInv, NEW c \in Charts, K0sApplies(c) \/ HelmApplies(c)
    PROVE  VersionsInv'
<1>1. /\ UNCHANGED <<airgap, newest, rec, config, seen>>
      /\ \A d \in Charts \ {c} : charts'[d] = charts[d]
  BY K0sAppliesFacts, HelmAppliesFacts DEF TypeInv, metadataVars
<1>2. Working' = Working /\ Fitting' = Fitting /\ Fitting \subseteq Charts
  BY <1>1 DEF Working, Fitting
<1>3. \/ /\ config[c] # Absent /\ charts[c] = Absent /\ charts'[c] # Absent
         /\ charts'[c].spec = config[c] /\ charts'[c].applied = Absent
      \/ /\ config[c] # Absent /\ charts[c] # Absent /\ charts'[c] # Absent
         /\ charts'[c].spec = config[c] /\ charts'[c].applied = charts[c].applied
      \/ config[c] = Absent /\ charts[c] # Absent /\ charts'[c] = Absent
      \/ /\ charts[c] # Absent /\ charts'[c] # Absent /\ charts'[c].spec = charts[c].spec
         /\ charts'[c].applied \in {charts[c].spec, charts[c].applied}
  BY K0sAppliesFacts, HelmAppliesFacts DEF TypeInv
<1>4. ASSUME c \in Fitting, charts'[c] # Absent
      PROVE  \/ config[c] # Absent /\ config[c].version = charts'[c].spec.version
             \/ Gone(Working, c, charts'[c].spec.version)
  BY <1>3, <1>4 DEF VersionsInv, ObjectInv
<1>5. ASSUME c \in Fitting, charts'[c] # Absent, charts'[c].applied # Absent
      PROVE  \/ charts'[c].applied.version = charts'[c].spec.version
             \/ Gone(Working, c, charts'[c].applied.version)
  <2>1. CASE charts'[c].spec = config[c] /\ charts'[c].applied = charts[c].applied
             /\ charts[c] # Absent /\ config[c] # Absent
    BY <1>5, <2>1 DEF VersionsInv, ObjectInv, HelmInv
  <2>2. CASE /\ charts[c] # Absent /\ charts'[c].spec = charts[c].spec
             /\ charts'[c].applied \in {charts[c].spec, charts[c].applied}
    BY <1>5, <2>2 DEF VersionsInv, HelmInv
  <2> QED
    BY <1>3, <1>5, <2>1, <2>2
\* What helm has applied is replaced or removed only when it is gone.
<1>6. ASSUME c \in Fitting, NEW v, Has(charts[c], v), ~Has(charts'[c], v)
      PROVE  Gone(Working, c, v)
  <2>1. charts[c] # Absent /\ charts[c].applied # Absent /\ charts[c].applied.version = v
    BY <1>6 DEF Has
  <2>2. CASE charts[c].spec.version = v
    <3>1. charts[c].spec # Absent
      BY <2>1, Types, AbsentAssumption DEF TypeInv, Objects, AbsentAssumption
    <3>2. config[c] = Absent \/ config[c].version # charts[c].spec.version
      BY <1>3, <1>6, <2>1, <2>2, <3>1 DEF Has
    <3> QED
      BY <1>6, <2>1, <2>2, <3>2 DEF VersionsInv, ObjectInv
  <2>3. CASE charts[c].spec.version # v
    BY <1>6, <2>1, <2>3 DEF VersionsInv, HelmInv
  <2> QED
    BY <2>2, <2>3
<1>7. ObjectInv'
  BY <1>1, <1>2, <1>4 DEF VersionsInv, ObjectInv
<1>8. HelmInv'
  BY <1>1, <1>2, <1>5 DEF VersionsInv, HelmInv
<1>9. SeenInv'
  <2> SUFFICES ASSUME NEW d \in Fitting, seen.charts[d] # Absent, seen.charts[d].applied # Absent
               PROVE  \/ Has(charts'[d], seen.charts[d].applied.version)
                      \/ Gone(Working, d, seen.charts[d].applied.version)
    BY <1>1, <1>2 DEF SeenInv
  <2>1. \/ Has(charts[d], seen.charts[d].applied.version)
        \/ Gone(Working, d, seen.charts[d].applied.version)
    BY DEF VersionsInv, SeenInv
  <2>2. CASE d = c
    BY <1>6, <2>1, <2>2
  <2>3. CASE d # c
    BY <1>1, <1>2, <2>1, <2>3
  <2> QED
    BY <2>2, <2>3
<1>10. DecidedInv'
  <2> SUFFICES ASSUME rec.step = "save", rec.state = "Installed",
                      NEW d \in Fitting, Release[rec.in][d] # 0
               PROVE  Has(charts'[d], Release[rec.in][d])
    BY <1>1, <1>2 DEF DecidedInv
  <2>1. Has(charts[d], Release[rec.in][d]) /\ rec.in \in Installations /\ Working = rec.in
    BY Types DEF VersionsInv, DecidedInv, TypeInv, RecType, Working
  <2>2. ~Gone(Working, d, Release[rec.in][d])
    BY <2>1 DEF Gone, Installations
  <2>3. CASE d = c
    BY <1>6, <2>1, <2>2, <2>3
  <2>4. CASE d # c
    BY <1>1, <1>2, <2>1, <2>4
  <2> QED
    BY <2>3, <2>4
<1> QED
  BY <1>7, <1>8, <1>9, <1>10 DEF VersionsInv

LEMMA DecidedKept ==
    ASSUME DecidedInv, UNCHANGED <<airgap, charts>>,
           \/ rec' = rec
           \/ rec'.step # "save"
           \/ rec'.state # "Installed"
    PROVE  DecidedInv'
BY DEF DecidedInv, Fitting, Has

LEMMA VersionsStep ==
    ASSUME NoReturn
    PROVE  TypeInv /\ ListInv /\ VersionsInv /\ [Next]_vars => VersionsInv'
<1> SUFFICES ASSUME TypeInv, ListInv, VersionsInv, [Next]_vars PROVE VersionsInv'
  OBVIOUS
<1> USE DEF metadataVars, chartVars
<1>0. ObjectInv /\ HelmInv /\ SeenInv /\ DecidedInv /\ airgap' = airgap
  BY WorkingGrows DEF VersionsInv
<1>1. CASE Reconcile
  <2>1. /\ UNCHANGED <<config, charts, seen>>
        /\ \/ rec' = [step |-> "charts", in |-> newest, state |-> "KubernetesInstalled"]
           \/ rec' = [step |-> "k0s", in |-> newest, state |-> state]
    BY <1>1 DEF Reconcile
  <2>2. rec'.step # "save"
    BY <2>1
  <2> QED
    BY <1>0, <2>1, <2>2, ObjectsKept, DecidedKept DEF VersionsInv
<1>2. CASE ReadMetadata \/ MetadataUnavailable \/ NewInstallation \/ Command \/ UNCHANGED vars
  <2>1. UNCHANGED <<config, charts, seen, rec>>
    BY <1>2 DEF ReadMetadata, MetadataUnavailable, NewInstallation, Command, vars
  <2> QED
    BY <1>0, <2>1, ObjectsKept, DecidedKept DEF VersionsInv
<1>3. CASE ReconcileK0sVersion
  <2>1. /\ UNCHANGED <<config, charts, seen>>
        /\ \/ rec' = Idle
           \/ rec' = [rec EXCEPT !.step = "save", !.state = "Failed"]
           \/ rec' = [rec EXCEPT !.step = "charts", !.state = "KubernetesInstalled"]
    BY <1>3 DEF ReconcileK0sVersion, SetState
  <2>2. rec'.step # "save" \/ rec'.state # "Installed"
    BY <2>1, IdleFields, Types DEF TypeInv, RecType
  <2> QED
    BY <1>0, <2>1, <2>2, ObjectsKept, DecidedKept DEF VersionsInv
<1>4. CASE ReconcileHelmCharts
  <2>1. ObjectInv' /\ HelmInv' /\ SeenInv'
    BY <1>0, <1>4, NoReturn, NewList
  <2>2. DecidedInv'
    <3> SUFFICES ASSUME rec'.step = "save", rec'.state = "Installed",
                        NEW c \in Fitting, Release[rec.in][c] # 0
                 PROVE  Has(charts[c], Release[rec.in][c])
      BY <1>0, <1>4, ReconcileHelmChartsFacts DEF DecidedInv, Fitting, Has
    <3> QED
      BY <1>0, <1>4, Decision
  <2> QED
    BY <2>1, <2>2 DEF VersionsInv
<1>5. CASE UpdateStatus \/ Abort
  <2>1. /\ UNCHANGED <<config, charts>> /\ rec' = Idle
        /\ seen'.charts \in {seen.charts, charts}
    BY <1>5 DEF UpdateStatus, Abort
  <2>2. rec'.step # "save"
    BY <2>1, IdleFields
  <2> QED
    BY <1>0, <2>1, <2>2, ObjectsKept, DecidedKept DEF VersionsInv
<1>6. CASE Sync
  <2>1. UNCHANGED <<config, charts, rec>> /\ seen'.charts \in {seen.charts, charts}
    BY <1>6, Types DEF Sync, TypeInv, SeenType
  <2> QED
    BY <1>0, <2>1, ObjectsKept, DecidedKept DEF VersionsInv
<1>7. ASSUME NEW c \in Charts, K0sApplies(c) \/ HelmApplies(c) PROVE VersionsInv'
  BY <1>7, ChartChange
<1> QED
  BY <1>1, <1>2, <1>3, <1>4, <1>5, <1>6, <1>7 DEF Next, Operator

InstalledStep ==
    state' = "Installed" /\ state # "Installed" =>
        \A c \in Charts :
            (Release[newest][c] # 0 /\ (c = Registry => airgap)) =>
                /\ charts[c] # Absent
                /\ charts[c].applied # Absent
                /\ charts[c].applied.version = Release[newest][c]

\* An installation is declared installed only when helm has applied every chart of its
\* release, for any releases and however far the informers lag, as long as no release takes
\* a chart back to a version that another one has replaced and the operator alone writes
\* the list (detectChartCompletion, detectChartDrift, ReconcileHelmCharts).
THEOREM InstalledIsApplied ==
    ASSUME NoReturn
    PROVE  Spec => InstalledMeansApplied
<1>1. Init => AppliedInv
  BY InitType, ListInit, VersionsInit DEF AppliedInv
<1>2. AppliedInv /\ [Next]_vars => AppliedInv'
  BY NextType, ListStep, VersionsStep, NoReturn DEF AppliedInv
<1>3. AppliedInv /\ [Next]_vars => [InstalledStep]_vars
  <2> SUFFICES ASSUME AppliedInv, [Next]_vars, state' = "Installed", state # "Installed",
                      NEW c \in Charts, Release[newest][c] # 0, c = Registry => airgap
               PROVE  Has(charts[c], Release[newest][c])
    BY DEF InstalledStep, Has
  <2> USE DEF metadataVars, chartVars
  <2>1. CASE UpdateStatus
    BY <2>1 DEF UpdateStatus, AppliedInv, VersionsInv, DecidedInv, Fitting
  <2>2. CASE Reconcile \/ ReadMetadata \/ ReconcileK0sVersion \/ ReconcileHelmCharts
    BY <2>2 DEF Reconcile, ReadMetadata, ReconcileK0sVersion, ReconcileHelmCharts
  <2>3. CASE MetadataUnavailable \/ Abort \/ Sync \/ Command \/ UNCHANGED vars
    BY <2>3 DEF MetadataUnavailable, Abort, Sync, Command, vars
  <2>4. CASE NewInstallation
    BY <2>4 DEF NewInstallation
  <2>5. ASSUME NEW d \in Charts, K0sApplies(d) \/ HelmApplies(d) PROVE state' = state
    BY <2>5 DEF K0sApplies, HelmApplies
  <2> QED
    BY <2>1, <2>2, <2>3, <2>4, <2>5 DEF Next, Operator
<1>4. Spec => [][InstalledStep]_vars
  BY <1>1, <1>2, <1>3, PTL DEF Spec
<1> QED
  BY <1>4 DEF InstalledMeansApplied, InstalledStep
===============================================================================
