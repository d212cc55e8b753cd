----------------------------- MODULE AddonCharts -----------------------------
(***************************************************************************)
(* How the operator brings the helm charts of the newest installation into *)
(* the cluster (ReconcileHelmCharts): it takes the release's metadata from *)
(* ReleaseMetadata, computes the charts that are wanted, compares them     *)
(* with the chart list of the ClusterConfig and with the Chart objects,    *)
(* and replaces the list when nothing is pending.  The environment is k0s, *)
(* which makes Chart objects of the list, and helm, which applies them.    *)
(*                                                                         *)
(* Simplifications: the state is KubernetesInstalled when the charts are   *)
(* reconciled (K0sUpgrade has the rest); the operator's own chart is left  *)
(* out, and with it the upgrade command's patch of the list, which may put *)
(* back what the operator has replaced meanwhile (K0sUpgrade,              *)
(* RegistryMigration): here the operator is the only writer of the list;   *)
(* an air gapped cluster is not highly available (RegistryMigration); of a *)
(* chart's values only the TLS setting of the registry's changes; the      *)
(* chart list and the Chart objects are read, and the list written, in one *)
(* step; the repositories of a release are those of its charts.            *)
(***************************************************************************)
EXTENDS ReleaseMetadata, Integers, FiniteSets

CONSTANTS
    Charts,
    Registry,       \* the chart "docker-registry"
    Last,           \* installations 1..Last may come to exist
    VersionOf,      \* VersionOf[i]: embedded cluster version of installation i
    Release,        \* Release[i][c]: version of chart c in installation i, 0 if it has none
    Repository,     \* Repository[c]: where chart c comes from
    Broken,         \* <<chart, version>> pairs that helm cannot apply
    MaxFaults,      \* bound on failed calls, crashes and transient errors of helm
    Absent          \* no such chart

Installations == 1..Last

ASSUME ChartsAssumption ==
    /\ Registry \in Charts
    /\ Last \in Nat \ {0}
    /\ VersionOf \in [Installations -> Versions]
    /\ Release \in [Installations -> [Charts -> Nat]]
    /\ MaxFaults \in Nat

VARIABLES
    newest,         \* the newest installation
    state,          \* its status.state
    config,         \* the chart list of the ClusterConfig
    charts,         \* the Chart objects
    seen,           \* the operator's informer copies of these two
    rec,            \* the reconcile in progress: step, installation, its state
    faults

chartVars == <<newest, state, config, charts, seen, rec, faults>>
vars == <<metadataVars, chartVars>>

ChartVersions == {Release[i][c] : i \in Installations, c \in Charts}
Contents == [version : ChartVersions, values : Meta]
Objects == [spec : Contents, applied : Contents \cup {Absent}, error : BOOLEAN]
States == {"", "Failed", "HelmChartUpdateFailure", "PendingChartCreation",
           "AddonsInstalling", "KubernetesInstalled", "Installed"}
Lists == [Charts -> Contents \cup {Absent}]

ASSUME AbsentAssumption == Absent \notin Contents \cup Objects

TypeOK ==
    /\ MetadataTypeOK
    /\ newest \in Installations
    /\ state \in States
    /\ config \in Lists
    /\ charts \in [Charts -> Objects \cup {Absent}]
    /\ seen \in [config : Lists, charts : [Charts -> Objects \cup {Absent}]]
    /\ rec \in [step : {"idle", "k0s", "charts", "save"}, in : Installations, state : States]
    /\ faults \in 0..MaxFaults

\* mergeHelmConfigs: the release's charts and the vendor's; the registry, with the
\* values that the metadata has for it, only without access to the internet.
Wanted(i, meta) ==
    [c \in Charts |->
        IF Release[i][c] = 0 \/ (c = Registry /\ ~airgap) THEN Absent
        ELSE [version |-> Release[i][c], values |-> IF c = Registry THEN meta ELSE "plain"]]

Idle == [step |-> "idle", in |-> 1, state |-> ""]

\* The installer has installed the charts of the first installation.
Init ==
    /\ MetadataInit(VersionOf[1])
    /\ newest = 1
    /\ state = ""
    /\ config = Wanted(1, IF tlsSecret THEN "tls" ELSE "plain")
    /\ charts = [c \in Charts |-> IF config[c] = Absent THEN Absent
                                  ELSE [spec |-> config[c], applied |-> config[c], error |-> FALSE]]
    /\ seen = [config |-> config, charts |-> charts]
    /\ rec = Idle
    /\ faults = 0

Fault == faults < MaxFaults /\ faults' = faults + 1

-------------------------------------------------------------------------------
(* The operator                                                            *)

\* patchExtensionsForAirGap leaves none.
RepositoriesOf(list) ==
    IF airgap THEN {} ELSE {Repository[c] : c \in {d \in Charts : list[d] # Absent}}

\* detectChartDrift: charts that are no longer wanted are no drift, unless the number of
\* repositories changes with them.
Drifted(wanted, list) == {c \in Charts : wanted[c] \notin {Absent, list[c]}}
Drift(wanted, list) ==
    \/ Drifted(wanted, list) # {}
    \/ Cardinality(RepositoriesOf(wanted)) # Cardinality(RepositoriesOf(list))

\* The Chart object has not caught up with the list, or helm not with the object.
Lags(content, object) ==
    \/ object.spec.values # content.values
    \/ object.applied = Absent
    \/ /\ object.applied # Absent
       /\ \/ object.spec.values # object.applied.values
          \/ object.applied.version # content.version

\* detectChartCompletion: a chart with an error is not pending.
InError(list, objects) ==
    {c \in Charts : list[c] # Absent /\ objects[c] # Absent /\ objects[c].error}
MutantPendingCharts(list, objects) ==
    {c \in Charts : list[c] # Absent /\ (objects[c] # Absent => Lags(list[c], objects[c]))}
MutantMissing(list, objects) ==
    {c \in Charts \ InError(list, objects) :
        list[c] # Absent /\ objects[c] # Absent /\ Lags(list[c], objects[c])}
PendingCharts(list, objects) ==
    {c \in Charts \ InError(list, objects) :
        list[c] # Absent /\ (objects[c] # Absent => Lags(list[c], objects[c]))}

\* The k0s version of the only installation is not reconciled.
Reconcile ==
    /\ rec.step = "idle"
    /\ \/ /\ newest = 1
          /\ call' = LookUp
          /\ rec' = [step |-> "charts", in |-> newest, state |-> "KubernetesInstalled"]
       \/ /\ newest > 1
          /\ call' = CopyThenLookUp(VersionOf[newest])
          /\ rec' = [step |-> "k0s", in |-> newest, state |-> state]
    /\ UNCHANGED <<airgap, configMaps, copying, tlsSecret, cache, unread,
                   newest, state, config, charts, seen, faults>>

ReadMetadata ==
    /\ MetadataFor(VersionOf[rec.in])
    /\ UNCHANGED chartVars

MetadataUnavailable ==
    /\ Fault
    /\ MetadataFails(VersionOf[rec.in])
    /\ UNCHANGED <<newest, state, config, charts, seen, rec>>

SetState(s) == rec' = [rec EXCEPT !.step = "save", !.state = s]

\* Of ReconcileK0sVersion only what it makes of the metadata: the charts wait for k0s to
\* be upgraded, and the metadata is looked up again for them.
ReconcileK0sVersion ==
    /\ rec.step = "k0s"
    /\ call.step = "done"
    /\ \/ call.meta = "uncopied" /\ rec' = Idle /\ call' = NoCall
       \/ call.meta = "error" /\ SetState("Failed") /\ call' = NoCall
       \/ /\ call.meta \in Meta
          /\ rec' = [rec EXCEPT !.step = "charts", !.state = "KubernetesInstalled"]
          /\ call' = LookUp
    /\ UNCHANGED <<airgap, configMaps, copying, tlsSecret, cache, unread,
                   newest, state, config, charts, seen, faults>>

\* The whole list is replaced, unless it is not the one that was read.
InstallCharts(wanted) ==
    \/ /\ config = seen.config
       /\ config' = wanted
       /\ SetState("AddonsInstalling")
    \/ config # seen.config /\ rec' = Idle /\ UNCHANGED config

ReconcileHelmCharts ==
    /\ rec.step = "charts"
    /\ call.step = "done"
    /\ call' = NoCall
    /\ LET wanted  == Wanted(rec.in, call.meta)
           drift   == Drift(wanted, seen.config)
           errors  == InError(seen.config, seen.charts) # {}
           pending == PendingCharts(seen.config, seen.charts) # {}
       IN  \/ /\ call.meta = "error"
              /\ SetState("HelmChartUpdateFailure") /\ UNCHANGED config
           \/ /\ call.meta # "error"
              /\ \/ /\ UNCHANGED config
                    /\ \/ errors /\ ~drift /\ SetState("HelmChartUpdateFailure")
                       \/ ~errors /\ ~pending /\ ~drift /\ SetState("Installed")
                       \/ pending /\ (drift \/ ~errors) /\ SetState("PendingChartCreation")
                 \/ ~pending /\ drift /\ InstallCharts(wanted)
    /\ UNCHANGED <<airgap, configMaps, copying, tlsSecret, cache, unread,
                   newest, state, charts, seen, faults>>

\* The state is the newest installation's; the status of an older one is of no account.
UpdateStatus ==
    /\ rec.step = "save"
    /\ state' = IF rec.in = newest THEN rec.state ELSE state
    /\ rec' = Idle
    /\ UNCHANGED <<metadataVars, newest, config, charts, seen, faults>>

Operator ==
    \/ Reconcile
    \/ ReadMetadata
    \/ ReconcileK0sVersion
    \/ ReconcileHelmCharts
    \/ UpdateStatus

\* The update of the list or of the status fails, or the operator restarts.
Abort ==
    /\ Fault
    /\ rec' = Idle
    /\ \/ RestartMetadata /\ seen' = [config |-> config, charts |-> charts]
       \/ /\ rec.step = "save" \/ call.step = "done"
          /\ call' = NoCall
          /\ UNCHANGED <<airgap, configMaps, copying, tlsSecret, cache, unread, seen>>
    /\ UNCHANGED <<newest, state, config, charts>>

-------------------------------------------------------------------------------
(* The environment                                                         *)

\* Each of the two informers catches up in its own time.
Sync ==
    /\ \/ seen.config # config /\ seen' = [seen EXCEPT !.config = config]
       \/ seen.charts # charts /\ seen' = [seen EXCEPT !.charts = charts]
    /\ UNCHANGED <<metadataVars, newest, state, config, charts, rec, faults>>

\* k0s creates, updates and deletes the Chart objects.
K0sApplies(c) ==
    /\ \/ /\ config[c] # Absent /\ charts[c] = Absent
          /\ charts' = [charts EXCEPT ![c] =
                 [spec |-> config[c], applied |-> Absent, error |-> FALSE]]
       \/ /\ config[c] # Absent /\ charts[c] # Absent
          /\ charts[c].spec # config[c]
          /\ charts' = [charts EXCEPT ![c].spec = config[c]]
       \/ /\ config[c] = Absent /\ charts[c] # Absent
          /\ charts' = [charts EXCEPT ![c] = Absent]
    /\ UNCHANGED <<metadataVars, newest, state, config, seen, rec, faults>>

Works(c) == <<c, charts[c].spec.version>> \notin Broken

\* An error stays until helm succeeds.
HelmApplies(c) ==
    /\ charts[c] # Absent
    /\ \/ /\ Works(c)
          /\ charts[c].applied # charts[c].spec \/ charts[c].error
          /\ charts' = [charts EXCEPT ![c].applied = charts[c].spec, ![c].error = FALSE]
          /\ UNCHANGED faults
       \/ /\ charts[c].applied # charts[c].spec /\ ~charts[c].error
          /\ charts' = [charts EXCEPT ![c].error = TRUE]
          /\ IF Works(c) THEN Fault ELSE UNCHANGED faults
    /\ UNCHANGED <<metadataVars, newest, state, config, seen, rec>>

\* An upgrade: a new object, without a state.
NewInstallation ==
    /\ newest < Last
    /\ newest' = newest + 1
    /\ state' = ""
    /\ UNCHANGED <<metadataVars, config, charts, seen, rec, faults>>

Command ==
    /\ \E v \in Versions : CommandFindsNoMetadata(v) \/ CommandCopies(v)
    /\ UNCHANGED chartVars

Next ==
    \/ Operator
    \/ MetadataUnavailable
    \/ Abort
    \/ Sync
    \/ \E c \in Charts : K0sApplies(c) \/ HelmApplies(c)
    \/ NewInstallation
    \/ Command

Spec == Init /\ [][Next]_vars

\* Reconciles recur (every hour, and at a change); k0s and helm keep trying.
Fairness ==
    /\ WF_vars(Operator)
    /\ WF_vars(Sync)
    /\ \A c \in Charts : WF_vars(K0sApplies(c)) /\ WF_vars(HelmApplies(c))

FairSpec == Spec /\ Fairness

-------------------------------------------------------------------------------
(* Properties                                                              *)

\* When an installation is declared installed, every chart of its release has been
\* applied by helm as the release has it, whatever the informers still show and
\* whichever release the charts came from, if nobody else writes the list
\* (detectChartCompletion, detectChartDrift).
InstalledMeansApplied ==
    [][state' = "Installed" /\ state # "Installed" =>
        \A c \in Charts :
            (Release[newest][c] # 0 /\ (c = Registry => airgap)) =>
                /\ charts[c] # Absent
                /\ charts[c].applied # Absent
                /\ charts[c].applied.version = Release[newest][c]]_vars

\* Once the registry of the cluster serves TLS the operator replaces its chart by one that
\* does not only in a reconcile of a release for which the secret could not be read since
\* it has started; not for another release, after a restart or another failed call
\* (localMetadataFor, ReconcileHelmCharts).
TLSIsKept ==
    [][/\ config[Registry] # Absent /\ config[Registry].values = "tls"
       /\ config'[Registry] # Absent /\ config'[Registry].values = "plain"
       => VersionOf[rec.in] \in unread]_vars

\* Every chart of installation i can be installed.
Installable(i) == \A c \in Charts : <<c, Release[i][c]>> \notin Broken

\* installation_controller.go:636 "we should update the cluster instead of letting
\* chart errors stop deployment permanently": an installation whose charts can all be
\* installed ends up Installed, or is superseded, whatever errors the charts before it
\* have left.
ErrorsDoNotStopDeployment ==
    \A i \in Installations :
        newest = i /\ Installable(i) ~> newest > i \/ state = "Installed"

\* release.go:71 "if running on airgap environment this function also assess if the
\* registry requires tls or not and customize the release metadata accordingly".
MetadataIsCustomised ==
    call.step = "done" /\ call.meta = "plain" /\ airgap => ~tlsSecret
===============================================================================
