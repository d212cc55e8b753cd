------------------------------ MODULE K0sUpgrade ------------------------------
(***************************************************************************)
(* The upgrade of the k0s binaries of a cluster: the installation          *)
(* controller of the operator, the `upgrade` command that the admin        *)
(* console runs, and, as the environment of both, k0s autopilot, the k0s   *)
(* helm controller and the API server.                                     *)
(*                                                                         *)
(* One action is one API call with the local computation around it, so     *)
(* that whatever may happen between two API calls of a reconcile may       *)
(* happen here.  Simplifications:                                          *)
(*                                                                         *)
(*  - installations are numbered in the order of their names, which are    *)
(*    timestamps; a cluster ID and spec.config.version are always set;     *)
(*  - the six failure states of a plan, and an unknown state, are the one  *)
(*    state "ApplyFailed" (the code treats them alike), and Schedulable    *)
(*    and SchedulableWait are the one state "SchedulableWait";             *)
(*  - the reads of the server version, the plan and the installations in   *)
(*    ReconcileK0sVersion, and the one write that follows them, are a      *)
(*    single step; the plan read is the informer's copy;                   *)
(*  - charts other than the operator's may be pending, failing or drifted  *)
(*    at any time; node statuses, preflights, openebs and the registry     *)
(*    are left out, but the error they may end a reconcile with is not.    *)
(***************************************************************************)
EXTENDS Integers

CONSTANTS
    Versions,       \* embedded cluster versions
    K0s,            \* K0s[v]: the k0s release in the metadata of version v
    Controllers,    \* nodes with the control-plane role label
    Workers,        \* the other nodes
    Last,           \* installations 1..Last may come to exist
    AirGap,         \* spec.airGap of the installations of this cluster
    Overlap,        \* may an upgrade be requested while one is in progress?
    MaxFaults,      \* bound on failures, crashes and repeated commands
    NoPlan          \* "there is no autopilot plan"

Installations == 1..Last
Nodes == Controllers \cup Workers
K0sVersions == {K0s[v] : v \in Versions}
PlanStates == {"", "SchedulableWait", "Completed", "ApplyFailed"}
Plans == [owner : Installations, airgap : BOOLEAN, state : PlanStates]

ASSUME ConstantsAssumption ==
    /\ K0s \in [Versions -> [kube : Nat, build : Nat]]
    /\ Last \in Nat \ {0}
    /\ Controllers # {}
    /\ Controllers \cap Workers = {}
    /\ AirGap \in BOOLEAN
    /\ Overlap \in BOOLEAN
    /\ MaxFaults \in Nat
    /\ NoPlan \notin Plans
    /\ NoPlan \notin K0sVersions

VARIABLES
    exists,         \* the Installation objects in the API server
    version,        \* spec.config.version of every installation; never changes
    state,          \* status.state of every installation, as saved
    plan,           \* the Plan object "autopilot", or NoPlan
    planCache,      \* the operator's informer copy of it
    k0s,            \* the k0s release every node runs
    images,         \* installations whose images are on every node (air gap)
    operatorChart,  \* operator chart in the ClusterConfig, by the version it brings
    chartApplied,   \* operator chart that helm has applied, as its Chart reports
    operator,       \* EMBEDDEDCLUSTER_VERSION of the running operator
    rec,            \* the reconcile in progress: step, installation, list, states
    cli,            \* step of the upgrade command of every installation
    sent,           \* kinds of events received by the metrics server so far
    faults          \* how many faults have happened

installVars == <<exists, version, state>>
planVars    == <<plan, planCache>>
nodeVars    == <<k0s, images>>
chartVars   == <<operatorChart, chartApplied, operator>>
vars == <<installVars, planVars, nodeVars, chartVars, rec, cli, sent, faults>>

States == {"", "Waiting", "Enqueued", "Installing", "Failed", "KubernetesInstalled",
           "AddonsInstalling", "PendingChartCreation", "HelmChartUpdateFailure",
           "Installed", "Obsolete"}

Events == {"UpgradeStarted", "UpgradeSucceeded", "UpgradeFailed"}

RecSteps == {"idle", "k0sVersion", "saveUpgrade", "addons", "saveFinal",
             "disable", "disableFailed", "report"}

CliSteps == {"idle", "ensurePlan", "deletePlan", "waitDelete", "createPlan",
             "waitPlan", "chart", "waitChart", "create", "done", "failed"}

Idle == [step |-> "idle", in |-> 1, items |-> {}, state |-> "", before |-> ""]

TypeOK ==
    /\ exists \in SUBSET Installations
    /\ version \in [Installations -> Versions]
    /\ state \in [Installations -> States]
    /\ plan \in Plans \cup {NoPlan}
    /\ planCache \in Plans \cup {NoPlan}
    /\ k0s \in [Nodes -> K0sVersions]
    /\ images \in SUBSET Installations
    /\ operatorChart \in Versions
    /\ chartApplied \in Versions
    /\ operator \in Versions
    /\ rec \in [step : RecSteps, in : Installations, items : SUBSET Installations,
                state : States, before : States]
    /\ cli \in [Installations -> CliSteps]
    /\ sent \in SUBSET Events
    /\ faults \in 0..MaxFaults

Init ==
    /\ exists = {1}
    /\ version \in [Installations -> Versions]
    /\ state = [i \in Installations |-> ""]
    /\ plan = NoPlan
    /\ planCache = NoPlan
    /\ k0s = [n \in Nodes |-> K0s[version[1]]]
    /\ images = {1}
    /\ operatorChart = version[1]
    /\ chartApplied = version[1]
    /\ operator = version[1]
    /\ rec = Idle
    /\ cli = [i \in Installations |-> IF i = 1 THEN "done" ELSE "idle"]
    /\ sent = {}
    /\ faults = 0

-------------------------------------------------------------------------------
(* What the code computes from what it has read.                           *)

Fault == faults < MaxFaults /\ faults' = faults + 1

Desired(i) == K0s[version[i]]

\* items[0] of a list sorted by descending name
IsNewest(i, items) == i \in items /\ \A j \in items : j <= i

ActiveInstallations == {i \in exists : state[i] # "Obsolete"}

MutantOldInstallations == rec.items
OldInstallations == rec.items \ {rec.in}

NeedsUpgrade(i) == operator # version[i]

MutantHasThePlanEnded(p) == p.state = "Completed"
MutantEndedWhenScheduled(p) == p.state # ""
HasThePlanEnded(p) == p.state \notin {"", "SchedulableWait"}

MutantHasPlanSucceeded(p) == HasThePlanEnded(p)
HasPlanSucceeded(p) == p.state = "Completed"

HasPlanFailed(p) == HasThePlanEnded(p) /\ ~HasPlanSucceeded(p)

NewPlan(i, airgap) == [owner |-> i, airgap |-> airgap, state |-> ""]

PlanVersion(p) == Desired(p.owner)

MutantIsAutopilotUpgradeToVersion(p, v) == PlanVersion(p) = v
IsAutopilotUpgradeToVersion(p, v) == ~p.airgap /\ PlanVersion(p) = v

IsPlanOf(p, i) == p.owner = i /\ IsAutopilotUpgradeToVersion(p, Desired(i))

MutantStateBasedOnPlan(p) == p.state
MutantStateOfFailedPlan(p) ==
    CASE p.state = "" -> "Enqueued"
      [] p.state = "SchedulableWait" -> "Installing"
      [] OTHER -> "KubernetesInstalled"
StateBasedOnPlan(p) ==
    CASE p.state = "" -> "Enqueued"
      [] p.state = "SchedulableWait" -> "Installing"
      [] p.state = "Completed" -> "KubernetesInstalled"
      [] OTHER -> "Failed"

\* Any API server may answer a request for the server version.
MutantServerVersions == {k0s[n].kube : n \in Workers}
ServerVersions == {k0s[c].kube : c \in Controllers}

ShouldUpgradeK0s(server, i) ==
    \/ server < Desired(i).kube
    \/ /\ server = Desired(i).kube
       /\ \E j \in exists : IsNewest(j, exists \ {i}) /\ Desired(j) # Desired(i)

MutantUpgradeTargets == [controllers |-> Workers, workers |-> Controllers]
UpgradeTargets == [controllers |-> Controllers, workers |-> Workers]

EventFor(s) ==
    CASE s = "Installing" -> {"UpgradeStarted"}
      [] s = "Installed" -> {"UpgradeSucceeded"}
      [] s = "Failed" -> {"UpgradeFailed"}
      [] OTHER -> {}

-------------------------------------------------------------------------------
(* The installation controller.  One reconcile at a time: a controller has *)
(* one worker and the managers elect a leader.                             *)

\* List, coalesce, and refuse to work for another version of the operator.
Reconcile ==
    /\ rec.step = "idle"
    /\ \E i \in exists :
        /\ IsNewest(i, ActiveInstallations)
        /\ rec' = IF NeedsUpgrade(i) THEN rec
                  ELSE [step |-> "k0sVersion", in |-> i, items |-> ActiveInstallations,
                        state |-> state[i], before |-> state[i]]
    /\ UNCHANGED <<installVars, planVars, nodeVars, chartVars, cli, sent, faults>>

\* The config secret cannot be read: Failed is saved at once.
ReadClusterConfigFails ==
    /\ rec.step = "k0sVersion"
    /\ Fault
    /\ state' = [state EXCEPT ![rec.in] = "Failed"]
    /\ rec' = [rec EXCEPT !.state = "Failed", !.step = "disableFailed"]
    /\ UNCHANGED <<exists, version, planVars, nodeVars, chartVars, cli, sent>>

\* Where Reconcile goes once ReconcileK0sVersion has set the state to s.
Decide(s) ==
    rec' = [rec EXCEPT !.state = s,
                       !.step = IF s = "KubernetesInstalled" THEN "addons" ELSE "saveUpgrade"]

HasOnlyOneInstallation == exists = {rec.in}

SingleInstallation ==
    /\ HasOnlyOneInstallation
    /\ Decide("KubernetesInstalled")
    /\ UNCHANGED <<plan, faults>>

MetadataUnavailable ==
    /\ ~HasOnlyOneInstallation
    /\ Fault
    /\ Decide("Failed")
    /\ UNCHANGED plan

RefuseDowngrade ==
    /\ ~HasOnlyOneInstallation
    /\ \E running \in ServerVersions : running > Desired(rec.in).kube
    /\ Decide("Failed")
    /\ UNCHANGED <<plan, faults>>

\* ReconcileK0sVersion got past the downgrade check.
NotADowngrade ==
    /\ ~HasOnlyOneInstallation
    /\ \E running \in ServerVersions : running <= Desired(rec.in).kube
    /\ UNCHANGED faults

\* The server version is read a second time in ShouldUpgradeK0s.  The
\* informer may have missed a plan: then Create fails and so does the reconcile.
StartAutopilotUpgrade ==
    /\ NotADowngrade
    /\ planCache = NoPlan
    /\ \E server \in ServerVersions : ShouldUpgradeK0s(server, rec.in)
    /\ \/ /\ plan = NoPlan
          /\ plan' = NewPlan(rec.in, FALSE)
          /\ Decide("Enqueued")
       \/ /\ plan # NoPlan
          /\ rec' = Idle
          /\ UNCHANGED plan

K0sUpToDate ==
    /\ NotADowngrade
    /\ planCache = NoPlan
    /\ \E server \in ServerVersions : ~ShouldUpgradeK0s(server, rec.in)
    /\ Decide("KubernetesInstalled")
    /\ UNCHANGED plan

SetStateBasedOnPlan ==
    /\ NotADowngrade
    /\ planCache # NoPlan
    /\ IsPlanOf(planCache, rec.in)
    /\ Decide(StateBasedOnPlan(planCache))
    /\ UNCHANGED plan

WaitForOtherPlan ==
    /\ NotADowngrade
    /\ planCache # NoPlan
    /\ ~IsPlanOf(planCache, rec.in)
    /\ ~HasThePlanEnded(planCache)
    /\ Decide("Waiting")
    /\ UNCHANGED plan

\* Delete goes by name: it removes whatever plan is there by now.  The state
\* stays as it was.
DeleteEndedPlan ==
    /\ NotADowngrade
    /\ planCache # NoPlan
    /\ ~IsPlanOf(planCache, rec.in)
    /\ HasThePlanEnded(planCache)
    /\ \/ /\ plan # NoPlan
          /\ plan' = NoPlan
          /\ Decide(rec.state)
       \/ /\ plan = NoPlan
          /\ rec' = Idle
          /\ UNCHANGED plan

ReconcileK0sVersion ==
    /\ rec.step = "k0sVersion"
    /\ \/ SingleInstallation
       \/ MetadataUnavailable
       \/ RefuseDowngrade
       \/ StartAutopilotUpgrade
       \/ K0sUpToDate
       \/ SetStateBasedOnPlan
       \/ WaitForOtherPlan
       \/ DeleteEndedPlan
    /\ UNCHANGED <<installVars, planCache, nodeVars, chartVars, cli, sent>>

\* The openebs clean-up or the registry migration fails: the state is saved
\* as it is, and the reconcile ends with an error.
PrepareAddonsFails ==
    /\ rec.step = "addons"
    /\ Fault
    /\ state' = [state EXCEPT ![rec.in] = rec.state]
    /\ rec' = Idle
    /\ UNCHANGED <<exists, version, planVars, nodeVars, chartVars, cli, sent>>

\* ReconcileHelmCharts.  Charts other than the operator's may be pending,
\* failing or drifted whatever the state of the operator's.
ChartMetadataUnavailable ==
    /\ Fault
    /\ rec' = [rec EXCEPT !.state = "HelmChartUpdateFailure", !.step = "saveFinal"]
    /\ UNCHANGED operatorChart

ChartErrors ==
    /\ operatorChart = version[rec.in]
    /\ rec' = [rec EXCEPT !.state = "HelmChartUpdateFailure", !.step = "saveFinal"]
    /\ UNCHANGED <<operatorChart, faults>>

ChartsInstalled ==
    /\ operatorChart = version[rec.in]
    /\ chartApplied = operatorChart
    /\ rec' = [rec EXCEPT !.state = "Installed", !.step = "saveFinal"]
    /\ UNCHANGED <<operatorChart, faults>>

ChartsPending ==
    /\ rec' = [rec EXCEPT !.state = "PendingChartCreation", !.step = "saveFinal"]
    /\ UNCHANGED <<operatorChart, faults>>

\* The charts of the whole ClusterConfig are replaced, the operator's included.
InstallCharts ==
    /\ chartApplied = operatorChart
    /\ operatorChart' = version[rec.in]
    /\ rec' = [rec EXCEPT !.state = "AddonsInstalling", !.step = "saveFinal"]
    /\ UNCHANGED faults

ReconcileHelmCharts ==
    /\ rec.step = "addons"
    /\ \/ ChartMetadataUnavailable
       \/ ChartErrors
       \/ ChartsInstalled
       \/ ChartsPending
       \/ InstallCharts
    /\ UNCHANGED <<installVars, planVars, nodeVars, chartApplied, operator, cli, sent>>

UpdateStatus ==
    /\ rec.step \in {"saveUpgrade", "saveFinal"}
    /\ state' = [state EXCEPT ![rec.in] = rec.state]
    /\ rec' = IF rec.step = "saveUpgrade" THEN Idle ELSE [rec EXCEPT !.step = "disable"]
    /\ UNCHANGED <<exists, version, planVars, nodeVars, chartVars, cli, sent, faults>>

\* A status update that fails is not retried here.
DisableOldInstallations ==
    /\ rec.step \in {"disable", "disableFailed"}
    /\ \E updated \in SUBSET OldInstallations :
        /\ \/ updated = OldInstallations /\ UNCHANGED faults
           \/ updated # OldInstallations /\ Fault
        /\ state' = [i \in Installations |-> IF i \in updated THEN "Obsolete" ELSE state[i]]
    /\ rec' = IF rec.step = "disable" THEN [rec EXCEPT !.step = "report"] ELSE Idle
    /\ UNCHANGED <<exists, version, planVars, nodeVars, chartVars, cli, sent>>

ReportInstallationChanges ==
    /\ rec.step = "report"
    /\ sent' = IF AirGap \/ rec.before \in {"", rec.state} THEN sent
               ELSE sent \cup EventFor(rec.state)
    /\ rec' = Idle
    /\ UNCHANGED <<installVars, planVars, nodeVars, chartVars, cli, faults>>

\* An API call of the reconcile fails, or the operator crashes.
Abort ==
    /\ rec.step # "idle"
    /\ Fault
    /\ rec' = Idle
    /\ UNCHANGED <<installVars, planVars, nodeVars, chartVars, cli, sent>>

SyncPlanCache ==
    /\ planCache # plan
    /\ planCache' = plan
    /\ UNCHANGED <<installVars, plan, nodeVars, chartVars, rec, cli, sent, faults>>

-------------------------------------------------------------------------------
(* The upgrade command of installation i, a process of its own that reads  *)
(* the API server directly.                                                *)

GoTo(i, step) == cli' = [cli EXCEPT ![i] = step]

CliUnchanged == UNCHANGED <<planCache, images, k0s, chartApplied, operator, version, state,
                            rec, sent>>

Settled == {"Installed", "Failed", "HelmChartUpdateFailure"}

\* The admin console starts a command for the next name, or, after a failure,
\* the same one again.
CliBegin(i) ==
    /\ \/ /\ cli[i] = "idle"
          /\ \A j \in Installations : j < i => cli[j] # "idle"
          /\ UNCHANGED faults
       \/ cli[i] = "failed" /\ Fault
    /\ \/ Overlap
       \/ /\ \A j \in Installations : cli[j] \in {"idle", "done", "failed"}
          /\ \E j \in exists : IsNewest(j, exists) /\ state[j] \in Settled
    /\ GoTo(i, IF AirGap THEN "ensurePlan" ELSE "chart")
    /\ UNCHANGED <<exists, plan, operatorChart>> /\ CliUnchanged

\* EnsureObject keeps a plan of installation i and deletes any other.
CliEnsurePlan(i) ==
    /\ cli[i] = "ensurePlan"
    /\ GoTo(i, IF plan = NoPlan THEN "createPlan"
               ELSE IF plan.owner = i THEN "waitPlan" ELSE "deletePlan")
    /\ UNCHANGED <<exists, plan, operatorChart, faults>> /\ CliUnchanged

CliDeletePlan(i) ==
    /\ cli[i] = "deletePlan"
    /\ plan' = NoPlan
    /\ GoTo(i, IF plan = NoPlan THEN "failed" ELSE "waitDelete")
    /\ UNCHANGED <<exists, operatorChart, faults>> /\ CliUnchanged

\* Polls for as long as there is a plan, whoever created it.
CliWaitDelete(i) ==
    /\ cli[i] = "waitDelete"
    /\ plan = NoPlan
    /\ GoTo(i, "createPlan")
    /\ UNCHANGED <<exists, plan, operatorChart, faults>> /\ CliUnchanged

CliCreatePlan(i) ==
    /\ cli[i] = "createPlan"
    /\ \/ plan = NoPlan /\ plan' = NewPlan(i, TRUE) /\ GoTo(i, "waitPlan")
       \/ plan # NoPlan /\ GoTo(i, "failed") /\ UNCHANGED plan
    /\ UNCHANGED <<exists, operatorChart, faults>> /\ CliUnchanged

LivePlanOf(i) == plan # NoPlan /\ plan.owner = i

CliWaitPlan(i) ==
    /\ cli[i] = "waitPlan"
    /\ \/ ~LivePlanOf(i) /\ GoTo(i, "failed")
       \/ /\ LivePlanOf(i)
          /\ \/ HasPlanSucceeded(plan) /\ GoTo(i, "chart")
             \/ HasPlanFailed(plan) /\ GoTo(i, "failed")
    /\ UNCHANGED <<exists, plan, operatorChart, faults>> /\ CliUnchanged

CliPatchOperatorChart(i) ==
    /\ cli[i] = "chart"
    /\ operatorChart' = version[i]
    /\ GoTo(i, "waitChart")
    /\ UNCHANGED <<exists, plan, faults>> /\ CliUnchanged

CliWaitForOperatorChart(i) ==
    /\ cli[i] = "waitChart"
    /\ chartApplied = version[i]
    /\ GoTo(i, "create")
    /\ UNCHANGED <<exists, plan, operatorChart, faults>> /\ CliUnchanged

CliCreateInstallation(i) ==
    /\ cli[i] = "create"
    /\ exists' = exists \cup {i}
    /\ GoTo(i, IF i \in exists THEN "failed" ELSE "done")
    /\ UNCHANGED <<plan, operatorChart, faults>> /\ CliUnchanged

CliAbort(i) ==
    /\ cli[i] \notin {"idle", "done", "failed"}
    /\ Fault
    /\ GoTo(i, "failed")
    /\ UNCHANGED <<exists, plan, operatorChart>> /\ CliUnchanged

Cli(i) ==
    \/ CliBegin(i)
    \/ CliEnsurePlan(i)
    \/ CliDeletePlan(i)
    \/ CliWaitDelete(i)
    \/ CliCreatePlan(i)
    \/ CliWaitPlan(i)
    \/ CliPatchOperatorChart(i)
    \/ CliWaitForOperatorChart(i)
    \/ CliCreateInstallation(i)
    \/ CliAbort(i)

-------------------------------------------------------------------------------
(* The environment.  Autopilot executes the plan that exists, the helm     *)
(* controller applies the ClusterConfig, a new chart brings a new operator.*)

PlanRuns == plan # NoPlan /\ plan.state = "SchedulableWait"

SetPlanState(s) == plan' = [plan EXCEPT !.state = s]

AutopilotUnchanged == UNCHANGED <<installVars, planCache, chartVars, rec, cli, sent>>

AutopilotSchedule ==
    /\ plan # NoPlan /\ plan.state = ""
    /\ SetPlanState("SchedulableWait")
    /\ UNCHANGED <<nodeVars, faults>> /\ AutopilotUnchanged

\* Controllers one by one, then workers.
AutopilotUpgradeNode(n) ==
    /\ PlanRuns /\ ~plan.airgap
    /\ k0s[n] # PlanVersion(plan)
    /\ \/ n \in UpgradeTargets.controllers
       \/ \A c \in UpgradeTargets.controllers : k0s[c] = PlanVersion(plan)
    /\ k0s' = [k0s EXCEPT ![n] = PlanVersion(plan)]
    /\ UNCHANGED <<plan, images, faults>> /\ AutopilotUnchanged

AutopilotComplete ==
    /\ PlanRuns
    /\ \/ plan.airgap /\ images' = images \cup {plan.owner}
       \/ /\ ~plan.airgap /\ \A n \in Nodes : k0s[n] = PlanVersion(plan)
          /\ UNCHANGED images
    /\ SetPlanState("Completed")
    /\ UNCHANGED <<k0s, faults>> /\ AutopilotUnchanged

AutopilotFail ==
    /\ plan # NoPlan /\ plan.state \in {"", "SchedulableWait"}
    /\ Fault
    /\ SetPlanState("ApplyFailed")
    /\ UNCHANGED nodeVars /\ AutopilotUnchanged

Autopilot ==
    \/ AutopilotSchedule
    \/ \E n \in Nodes : AutopilotUpgradeNode(n)
    \/ AutopilotComplete

HelmApply ==
    /\ chartApplied # operatorChart
    /\ chartApplied' = operatorChart
    /\ UNCHANGED <<installVars, planVars, nodeVars, operatorChart, operator, rec, cli, sent,
                   faults>>

\* The chart's pod replaces the old operator, whose reconcile is cut short;
\* the informer of the new one starts with a fresh list.
OperatorRollout ==
    /\ operator # chartApplied
    /\ operator' = chartApplied
    /\ planCache' = plan
    /\ rec' = Idle
    /\ UNCHANGED <<installVars, plan, nodeVars, operatorChart, chartApplied, cli, sent, faults>>

-------------------------------------------------------------------------------
OperatorStep ==
    \/ Reconcile
    \/ ReconcileK0sVersion
    \/ ReconcileHelmCharts
    \/ UpdateStatus
    \/ DisableOldInstallations
    \/ ReportInstallationChanges

Next ==
    \/ OperatorStep
    \/ ReadClusterConfigFails
    \/ PrepareAddonsFails
    \/ Abort
    \/ SyncPlanCache
    \/ \E i \in Installations : Cli(i)
    \/ Autopilot
    \/ AutopilotFail
    \/ HelmApply
    \/ OperatorRollout

Spec == Init /\ [][Next]_vars

\* A reconcile that has begun ends, and another begins: kubelets keep updating
\* node statuses and the controller watches nodes.  Nothing is assumed of the
\* upgrade command.
Fairness ==
    /\ WF_vars(OperatorStep)
    /\ WF_vars(SyncPlanCache)
    /\ WF_vars(Autopilot)
    /\ WF_vars(HelmApply)
    /\ WF_vars(OperatorRollout)

FairSpec == Spec /\ Fairness

-------------------------------------------------------------------------------
(* Safety                                                                  *)

\* The newest installation is never flagged obsolete: Reconcile skips obsolete
\* installations and only ever works on the newest of the others, so the
\* cluster would be left without anybody to reconcile
\* (Reconcile:935-946, DisableOldInstallations).
NewestNeverObsolete ==
    \A i \in exists : IsNewest(i, exists) => state[i] # "Obsolete"

\* A kubelet is never newer than any API server, whatever fails and in
\* whatever order upgrades are asked for (downgrade check of
\* ReconcileK0sVersion, ShouldUpgradeK0s, targets of the plan).
WorkersNeverAhead ==
    \A w \in Workers, c \in Controllers : k0s[w].kube <= k0s[c].kube

\* No API server is ever taken back to an older kubernetes version
\* ("Downgrades not supported", ReconcileK0sVersion:348-353).  It holds for a
\* single controller: see HaDowngrade in the README for several.
NoKubeDowngrade ==
    [][\A c \in Controllers : k0s'[c].kube >= k0s[c].kube]_vars

AddonSteps == {"addons", "saveFinal", "disable", "report"}

\* The add-ons of an installation are reconciled, and its success is reported,
\* only while the API server runs the kubernetes version of its release,
\* although that is concluded from a copy of a plan or from the version of
\* another installation (Reconcile:996-1006).  For a single controller.
AddonsOnDesiredServer ==
    rec.step \in AddonSteps => \A c \in Controllers : k0s[c].kube = Desired(rec.in).kube

Running(p) == p # NoPlan /\ p.state \in {"", "SchedulableWait"}

\* A plan is deleted only once it has ended, although the operator decides on
\* a copy of it and deletes by name (autopilot.HasThePlanEnded,
\* ReconcileK0sVersion:400-415).
RunningPlanNotDeleted ==
    [][Running(plan) => plan' # NoPlan]_vars

\* An installation of an air gapped cluster appears only when its images are on
\* the nodes: the new operator may come from them (Upgrade, EnsureObject).
ImagesBeforeInstallation ==
    AirGap => exists \subseteq images

-------------------------------------------------------------------------------
(* The promise about nodes, as a refinement                                *)

Rollout == INSTANCE K0sRollout WITH
    None <- NoPlan,
    requested <- {Desired(i) : i \in exists},
    target <- IF Running(plan) /\ ~plan.airgap THEN PlanVersion(plan) ELSE NoPlan

\* The operator, the command and autopilot together implement K0sRollout.
ImplementsRollout == Rollout!Spec

-------------------------------------------------------------------------------
(* Liveness                                                                *)

InQueue(i) ==
    /\ i \in exists
    /\ IsNewest(i, exists)
    /\ operator = version[i]
    /\ state[i] \in {"", "Waiting", "Enqueued", "Installing"}

\* An upgrade that the operator has accepted gets an outcome: it is not left
\* waiting for a plan, its own or another's, unless a newer installation or
\* another operator takes over (Reconcile, ReconcileK0sVersion).
UpgradeLeavesQueue ==
    \A i \in Installations : []<>~InQueue(i)

-------------------------------------------------------------------------------
(* What comments of the code say, and the code does not do: each of these  *)
(* is refuted by a run of its own (see the README).                        *)

\* installation_controller.go:377 "if we are here it means that the k0s version
\* has not changed".
AddonsOnDesiredK0s ==
    rec.step = "addons" => \A n \in Nodes : k0s[n] = Desired(rec.in)

\* metrics.go:46 "UpgradeFailedEvent is send back home when the upgrade fails".
FailureReported ==
    \A i \in Installations :
        ~AirGap /\ state[i] = "Failed" ~> "UpgradeFailed" \in sent

\* upgrade.go:37-41: the command pushes the images, updates the operator and
\* creates the installation; with the images on the nodes nothing makes it fail.
CommandSurvivesUpload ==
    \A i \in images : cli[i] # "failed"

\* upgrade.go:74 "once the new operator is running, it will take care of the
\* rest of the upgrade".
NewOperatorTakesOver ==
    \A i \in Installations :
        i \in exists /\ state[i] = "" ~> state[i] # "" \/ ~IsNewest(i, exists)
===============================================================================
