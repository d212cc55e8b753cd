# Embedded cluster operator: specifications, checks and proofs

A TLA+ model of the operator in this repository: the installation controller,
the `upgrade` command with its artifact jobs, release metadata and charts, node
statuses, the clean-up of volumes, the registry migration, and what they rely on. References
such as `IC:350` are to `src/controllers/installation_controller.go`; other files
are named.

## 1. The system

| Part | State it keeps | Operations | Talks to |
|---|---|---|---|
| Installation controller (IC) | `Installation` objects: state, reason, node statuses, conditions | `Reconcile` and its steps | API server through informers; autopilot through the `Plan` "autopilot"; helm through the `ClusterConfig`; metrics server |
| k0s version decision (`controllers/k0s.go`) | none; reads the server version and the release metadata | `shouldUpgradeK0s` | discovery, metadata |
| Upgrade command (`pkg/upgrade`) | none; a process that the admin console starts | metadata, artifacts, plan, chart patch, `Installation` | API server directly |
| `EnsureObject`, chart health (`pkg/k8sutil`) | none | get, delete, wait, create; poll a chart | API server |
| Autopilot (`pkg/autopilot`, external) | the `Plan` and its state | schedules and executes plans | nodes |
| Helm controller (external) | `Chart` objects | applies the `ClusterConfig` | operator Deployment |
| Chart drift (`controllers/helm.go`, `pkg/charts`) | none | `detectChartDrift`, `detectChartCompletion` | ClusterConfig, Charts |
| Artifact distribution (`pkg/artifacts`) | one job per node, with a hash | create, list, wait | nodes |
| Release metadata (`pkg/release`, `pkg/metadata`) | an in-process cache; config maps | `MetadataFor` | metrics server or config map |
| Registry migration (`pkg/registry`, `pkg/migrations`) | a job, a secret, the registry's scale, a condition | migrate, mark as done | job, S3 |
| Openebs clean-up (`pkg/openebs`) | none | delete claims and pods of removed nodes | API server |
| Metrics (`pkg/metrics`) | none | node and installation events | metrics server |
| Utilities (`pkg/util`) | none | names with a length limit, CIDR bands | - |

What is hard here is that nothing is atomic: a reconcile is a chain of API calls
over copies that the informers keep; there is one plan name for every
installation and for two programs; any call may fail, the operator may be
replaced in the middle of a reconcile, and a plan may fail with the nodes half
way. The list under `hazards` in `PROJECT.json` has each of these at its line.

## 2. Modules

| Module | What it is |
|---|---|
| `K0sRollout` | abstract: nodes change version only in a rollout, one rollout at a time, workers after controllers, never older than every API server |
| `K0sUpgrade` | the installation controller, the upgrade command and their environment |
| `MCK0sUpgrade` | values of the constants for TLC |
| `K0sUpgradeProofs`, `K0sServerProofs` | theorems about `K0sUpgrade`, checked by TLAPS; the second is about the add-ons and the API server |
| `RegistryMigration` | the move of an air gapped cluster's registry to S3: operator, job, upgrade command, helm, registry, clients |
| `RegistryMigrationProofs` | theorems about `RegistryMigration`, checked by TLAPS |
| `ReleaseMetadata` | where the metadata of a release come from, and the cache in front of it; composed into `AddonCharts` |
| `AddonCharts`, `MCAddonCharts` | the charts of a release: wanted, listed, made into objects and applied, next to k0s and helm |
| `AddonChartsProofs` | theorems about `AddonCharts` and the metadata behind it, checked by TLAPS |
| `NodeStatuses` | node statuses, preflight jobs, node events and the retirement of old installations |
| `NodeStatusesProofs` | theorems about `NodeStatuses`, checked by TLAPS |
| `ArtifactDistribution`, `MCArtifactDistribution` | the upgrade command's artifact jobs and air gap plan, next to the job controller, autopilot and nodes that come and go |
| `ArtifactDistributionProofs` | theorems about `ArtifactDistribution`, checked by TLAPS |
| `OpenebsCleanup` | the clean-up of pods and claims of nodes that have left, next to the controllers that make new ones |
| `OpenebsCleanupProofs` | theorems about `OpenebsCleanup`, checked by TLAPS |

The modules share the installation controller: each has the reconcile as a chain of
steps of its own, in which the steps of the others are a choice among their outcomes.
`K0sUpgrade` decides whether an upgrade of k0s ends the reconcile early; in
`NodeStatuses` that is a free choice, in `AddonCharts` and `RegistryMigration` the
reconcile has passed it.

### K0sUpgrade: state and code

| Variable | In the code |
|---|---|
| `exists`, `version`, `state` | the `Installation` objects, `spec.config.version`, `status.state` |
| `plan`, `planCache` | the `Plan` "autopilot" in the API server, and as the operator's informer has it |
| `k0s` | the release each node runs; the API server of a controller reports its `kube` part |
| `images` | the installations whose images an air gap plan has put on the nodes |
| `operatorChart`, `chartApplied`, `operator` | the operator's chart in the `ClusterConfig`, as helm has applied it, and `EMBEDDEDCLUSTER_VERSION` of the pod that runs |
| `rec` | the local variables of the reconcile in progress: its step, `in`, the list read at the start, `in.Status.State` as not yet saved, and `before` |
| `cli` | where the upgrade command of every installation is |
| `sent` | the kinds of events the metrics server has received |
| `faults` | how many things have gone wrong |

A reconcile is the chain `Reconcile` (IC:926-977), `ReconcileK0sVersion`
(IC:286-416, one disjunct per way out of it), `ReconcileHelmCharts`
(IC:567-682), `UpdateStatus`, `DisableOldInstallations`,
`ReportInstallationChanges`; between any two of them any other process may act,
and `Abort` (a call that fails, a conflict, a crash) or `OperatorRollout` (the pod
is replaced) may end it. The command is `CliBegin` ... `CliCreateInstallation`,
one action per API call of `upgrade.go` and `ensure.go`.

The state is kept in the local variable until `UpdateStatus`, as in the code:
several properties turn on what is saved when. A status update that meets a
conflict is `Abort`.

Simplifications, also listed at the head of the module: installations are
numbered in the order of their names; six failure states of a plan are one, and
`Schedulable` and `SchedulableWait` are one; the reads of `ReconcileK0sVersion`
and the write after them are one step, of which the plan comes from the
informer's copy and each of the two version reads from any API server; charts
other than the operator's are free to be pending, failing or drifted. A release
without charts (IC:590, "should not happen in production") and an installation
without a version or cluster ID are left out. The guard at IC:661-665 is never
reached through `Reconcile`, which sets the state to `KubernetesInstalled` first.

External parts are modelled from how the code uses them: autopilot schedules
the plan that exists, upgrades its nodes, controllers before workers, and ends it
as completed or failed; helm makes `chartApplied` follow `operatorChart`; the
Deployment of an applied chart replaces the operator's pod at some later moment
(nothing in this repository waits for the old one to be gone).

### RegistryMigration: state and code

| Variable | In the code |
|---|---|
| `newest`, `condition`, `ha` | the newest `Installation`; `RegistryMigrationStatus` and the HA condition of each, as saved |
| `rec` | the reconcile in progress: its step, its installation, the two conditions not yet saved, whether the charts step set the state to `Installed` |
| `secret`, `secretCache` | the "migration complete" secret, and as the operator's informer has it |
| `job`, `jobCache` | the migration job and its status, and as the informer has it |
| `list` | seaweedfs and the registry in the chart list of the `ClusterConfig` |
| `command` | the upgrade command: where it is, and the chart list it has read |
| `seaweedReady` | whether helm has installed seaweedfs |
| `chartSpec`, `applied` | the registry's `Chart` object, and what helm has applied, that is, the store the registry uses |
| `pod` | the process of the job: where it is in `RegistryData`, the files still to upload, how often its container was restarted |
| `replicas`, `serving` | of the registry's Deployment; whether a process answers |
| `disk`, `s3` | blobs in the two stores |
| `late` | history: blobs that came to the disk when the last walk over its files had begun and were not met by it, or when the secret existed |

A reconcile is `Reconcile`, `MigrateRegistryData` (one disjunct per way out of it),
`ReconcileHelmCharts`, `ReconcileHAStatus` (IC:473-564) and `UpdateStatus`; the
process of the job is `ScaleDown`, `Upload` (one file), `Uploaded`, `CreateSecret`,
`Exit`, with `ScaleUp` as the deferred function. `RegistryDataFails` ends an
attempt with the deferred function (an error) or without (a killed container), and
`Restart` is the kubelet's. `HasRegistryMigrated` deletes the job as a side effect
(`CleanUp`), on a copy that may be stale (`CanCleanUp`).

The command is `GetExistingClusterConfig`, `PatchClusterConfig` and `NewInstallation`
(`upgrade.go:96-114`, `142-176` and `79-94`). Its merge patch carries the whole `charts`
array, made of what was read, and no `resourceVersion`: it may put back a list from before
the operator's switch. The operator's own write is an update that carries one, so reading
and writing are one step.

The steps of `Reconcile` before the registry, and the k0s upgrade, are left to
`K0sUpgrade`; the installation that the command makes is an object without conditions.
Charts other than seaweedfs and the registry may be pending or drifted at any time. The
registry stops at any time after it has been scaled down (nobody waits for that,
`migrations/registry.go:37`), and an attempt may fail or be killed at any of its calls,
also after the Create of the secret has been carried out.

The job's image and arguments are taken as given; reading the files in order is
abstracted to a set, with a file that is pushed during the walk met or not. k0s
keeps a `Chart` that is no longer listed, and helm sets the replicas back to one
when it applies the chart of the registry on S3.

### NodeStatuses: state and code

| Variable | In the code |
|---|---|
| `nodes` | the nodes as the informer has them, each with the hash of its event (`metrics.go`) |
| `newest`, `saved`, `obsolete` | the `Installation` objects: `status.nodesStatus` of each, and which are obsolete |
| `cache`, `behind` | these as the operator's informer has them, and the objects that have changed since: an update of one is a conflict |
| `rec` | the reconcile: its step, `in`, `items`, `in.Status.NodesStatus` before and now, the jobs still to create |
| `jobs` | the nodes whose preflight job exists |
| `changes`, `events` | changes of every node, and events about it that the metrics server has received |
| `without` | history: the installation whose save last took the node out of the statuses, until its next job has been created |
| `blind` | history: installations that began without statuses of their own on a list in which an older one was behind |

A reconcile is `Reconcile` (IC:926-977, with `CoalesceInstallations`),
`ReconcileNodeStatuses`, `CopyHostPreflightResultsFromNodes` (one job per step),
`ReconcileK0sVersion`, then `SaveUnreported` (the early return, or an error of openebs
or the registry that has saved the status) or `UpdateStatus`,
`DisableOldInstallations` and `ReportNodesChanges`. `ConfigSecretFails` is
IC:960-972. The list of installations is the informer's (IC:797), which may be behind what
the operator itself has just written: an installation that has been made obsolete is then
listed with the statuses it no longer has, which `CoalesceInstallations` (IC:807-827) takes
over for a newer one that has none. Events of nodes, plans and installations requeue at
once, so this is a matter of ordinary timing, and the properties say what it can lead to
and what not.

### ArtifactDistribution: state and code

| Variable | In the code |
|---|---|
| `cmd` | every upgrade command: where it is in `airgapDistributeArtifacts`, the nodes it listed and has still to see to, the nodes it saw ready |
| `jobs`, `pods` | the `copy-artifacts-` jobs by name, with the installation and hash they are annotated with (`owner`); where the script of each is |
| `download`, `files` | `images-amd64.tar` and `images-amd64-<installation>.tar` on the disk of every node |
| `plan` | the plan "autopilot" of an air gap update |
| `members`, `left` | the nodes |
| `overlap` | whether two commands may run at once; fixed in each behaviour |

One action per API call of `EnsureObject` (`GetJob`, `DeleteJob`, `WaitDelete`,
`CreateJob`), `Poll` for the wait of `upgrade.go:284-319`, `EnsureAirgapPlan` and
`WaitPlan`. `Pull` and `Move` are the two halves of the script that another job's
script can come between. A job of the same installation is kept whatever has become of
it, so a command that is run again over a failed job fails again.

### ReleaseMetadata and AddonCharts: state and code

| Variable | In the code |
|---|---|
| `airgap`, `tlsSecret` | `spec.airGap`; the secret `registry-tls` |
| `configMaps`, `copying` | the `version-metadata-` config maps; versions whose map the upgrade command has not found |
| `cache`, `call` | `release.cache`; the operator's call of `MetadataFor`, and `CopyVersionMetadataToCluster` before it |
| `newest`, `state` | the newest installation and its `status.state` |
| `config`, `charts` | the chart list of the `ClusterConfig`; the `Chart` objects: spec, what helm has applied, an error |
| `seen` | the operator's informer copies of both, which catch up one by one |
| `rec` | the reconcile: its step, installation and unsaved state |

The call is a chain of its own (`CopyVersionMetadataToCluster`, `MetaFromCache`,
`LocalMetadataFor`, `ConfigureRegistryTLS` or `RemoteMetadataFor`), which the k0s step and
the charts step of `AddonCharts` make one after the other. Its two errors differ: a copy
that fails ends the reconcile without a state, a lookup that fails makes it `Failed` at
the k0s step and `HelmChartUpdateFailure` at the charts step. `ReconcileHelmCharts` has
one disjunct per way out of IC:567-682; `Wanted`, `Drift`, `PendingCharts` and
`InError` are `mergeHelmConfigs`, `detectChartDrift` and `detectChartCompletion`. The
repositories, of which the drift compares the number (`helm.go:15-18`), are those of the
charts in the list, and none in an air gapped cluster (`charts.go:258`). Any call that
reads or copies metadata may fail; a read of the TLS secret that does (`release.go:101-105`)
leaves the metadata in the cache as it was released, and `unread` remembers for which
versions that has happened.

Here the operator is the only writer of the chart list. The upgrade command's patch of the
whole list is in `RegistryMigration` (what it does to the registry) and in `K0sUpgrade`
(the operator's own chart); the properties of `AddonCharts` are of an upgrade whose command
has patched a list that the operator did not change meanwhile.

### OpenebsCleanup: state and code

| Variable | In the code |
|---|---|
| `nodes` | the nodes |
| `pods`, `claims` | the pods; the claims with the annotation `selected-node`, whether bound, whether being deleted |
| `seen` | the operator's informer copies of the three kinds, which catch up one by one |
| `rec` | the clean-up: its step, the claims as listed, those stuck, the pods to delete |
| `remade` | history: pods whose first claim has gone |
| `steady` | history: the nodes that have not left since the informer's copy of the nodes was made (`copy`), and since the one that the clean-up has read was made (`list`) |

`ListClaims`, `FindStuckPVCs` (the nodes are listed after the claims), `ListPods`,
`DeletePod` and `DeletePVC` are the calls of `CleanupStatefulPods`; an error ends the
clean-up, and the next reconcile begins anew. `VolumeLookup` is the volume's Get and
Delete, of which a volume that does not exist is no error (`openebs.go:115`).
`Controllers` are the stateful set, the scheduler, the provisioner, garbage collection
and claim protection. The three informers are independent and may be behind at any time
(`openebs.go:56` lists nodes from the cache like every other kind), and a node that has left
may return under its name.

## 3. Runs

Every run of `K0sUpgrade` has one worker node. `Last` bounds the installations (the first one
and `Last - 1` upgrades); `MaxFaults` bounds failed calls, crashes, failed plans
and repeated commands, all together; `Overlap` says whether an upgrade may be
requested while another is in progress (the console normally waits for the
newest installation to settle).

| Run | Bounds | Shows |
|---|---|---|
| `online` | 3 releases (two differ in the build only), 1 controller, 2 upgrades, overlap, 1 fault | all the safety properties and the refinement |
| `airgap` | 2 releases, 1 controller, 2 upgrades, overlap, 1 fault | images before the installation, add-ons on the right server, the refinement, with plans deleted by two programs |
| `ha` | 2 releases, 2 controllers, 2 upgrades, overlap, 1 fault, fairness | with API servers that disagree: workers stay behind, the refinement, an accepted upgrade leaves the queue |
| `registry` | 1 blob, 2 installations, 1 restart of the job's container, 2 faults, fairness | nothing is lost but what came late, only a command undoes the switch, the migration ends |
| `nodes` | 2 nodes, 4 changes, 2 installations, 1 fault, fairness | a change is repeated only from an old list, preflights before statuses, statuses follow the nodes, old installations are retired |
| `artifacts` | 2 nodes with a job name each, 2 installations, 1 retry of a pod, 1 fault, overlap or not, fairness | a succeeded job means its images, the plan finds them, a lone command ends |
| `addons` | 3 charts, 3 installations of 2 versions, 2 faults, air gap or not, TLS or not, fairness | installed means applied, TLS is kept but where the secret is not read, errors of the charts before do not stop an upgrade |
| `openebs` | 3 nodes that leave, join and return, 1 pod, 2 faults, fairness | first claims on steady nodes kept, pods recover |

Three installations are the least for one upgrade to meet the plan of another
and a third list entry to be stale; a second upgrade back to the first release
is a downgrade. One fault is enough for a plan that fails half way, an operator
that crashes between two calls, or a command that is run twice; the proofs hold
for any number of them. The two releases that differ in the build only are needed
where `shouldUpgradeK0s` falls back on the previous installation.

For the registry, one blob is pushed at any moment: before an attempt, during the walk, between
two attempts or after the last (blobs do not depend on each other, and the theorem is of any
number). With one restart a second attempt runs over the remains of the first, and two faults
exhaust the restarts, so that a job that has failed for good is met. The second installation
begins without a condition, and its command may have read the chart list before the switch
and write it after.

For node statuses, four changes are a node that joins, leaves, returns and leaves again, next
to another that stays, or two that take turns; nodes look all the same, as a node that reports
something new is saved and reported like one that joins, only without a job. A second
installation takes the statuses over from a list that may be behind; one fault is a failed
call or a crash at any step (conflicts are not counted).

The artifacts need two nodes for a
plan that one of them is not ready for, and two installations to delete each other's
jobs; a fault is a command that fails or is run again, or a node that leaves. Of the
charts one is the registry, one is updated, and one cannot be installed, comes with the
second installation and goes with the third; the first two installations share a version
and so an entry of the cache. One pod is enough for the clean-up because an error on the
claim of another would end it, which is what `Abort` does; three nodes let it move twice,
and let one of the two it has left return.

**Properties.** `NewestNeverObsolete`: the newest installation is never flagged
obsolete, though the list of old ones was read at the start of the reconcile;
`Reconcile` would skip it for ever. `WorkersNeverAhead`: no worker is newer than
an API server. `NoKubeDowngrade`: the API server never goes back (one controller).
`AddonsOnDesiredServer`: add-ons of a release are worked on, and success is
reported, only while the server runs the kubernetes of that release.
`RunningPlanNotDeleted`: the operator deletes, by name and on a stale copy, and
still never hits a plan in progress (online). `ImagesBeforeInstallation`: air gap.
`UpgradeLeavesQueue`: no upgrade waits for ever. `ImplementsRollout`: refinement
of `K0sRollout`, with the rollout being the live k0s plan that has not ended.
`ImagesSurviveSwitch`: when helm has switched the registry to S3, what is on the
disk is there too, however often the copy was begun, but for blobs that were pushed when the
last walk over the files had begun and that this walk did not meet, or when the secret
existed: the code promises no more, as it waits for no registry to stop
(`migrations/registry.go:37`) and may fail after the secret (`:121`). `OperatorKeepsS3`: the
registry on S3 leaves the chart list only by a command's patch with a list from before the
switch; no reconcile takes it out, for an installation without a condition neither.
`MigrationEnds`: the registry comes to serve from S3 for ever, also when such a patch has
undone the switch, because every later reconcile makes it again; unless the job fails for
good (a failed job is never recreated, `migrate.go:85`, and if its containers were killed
the deferred function has not run and the registry stays at 0 replicas), or its container
is lost after the secret was created.
`RepeatedOnlyFromOldLists`, `PreflightsBeforeStatus`: the job, the saved status and the
report of a node's change are three steps with a crash or conflict between any two, and the
list may be behind. A change may go unreported; it is reported again only by an installation
that took the statuses over from an old list, and at most once for each. No status is saved
before the node has had its job, and one that an installation has dropped is not among the
last statuses again without another job, unless a *later* installation took it over.
`StatusesFollowNodes`: the statuses end up as the nodes are, whatever becomes of the k0s
upgrade: the early return (IC:998-1005) saves them too. `OldInstallationsRetired`: if
reconciles get past that return again and again, the newest installation ends up as the
only one that is not obsolete; while a plan has failed they do not, and the older ones stay
as they are. `SucceededMeansImages`: though two commands delete
each other's jobs and each script removes the other's file, a job that has succeeded
means its images are there (the foreground deletion at `artifacts/upgrade.go:183` is
what makes it so). `ReadyNodesHaveImages`: the plan of a lone command finds the images on
every node that it saw ready. `EveryCommandEnds`: no wait of a lone command is for ever.
`InstalledMeansApplied`: two informers' copies, a list that is replaced as a whole and
errors that count as not pending, and still `Installed` is only declared when helm has
applied every chart in the version of the release. `TLSIsKept`: the operator replaces the
registry's chart by one without TLS only for a release whose secret it could not read since
it started, though the cache is filled before it is customised.
`ErrorsDoNotStopDeployment`: an installation that can be installed is, whatever the charts before it have left; it holds in `addons`, where
the upgrade that removes the broken chart updates another too, and fails when it does
nothing else and the number of repositories is the same (`removed_chart`, which is air
gapped). `SteadyNodesKeepClaims`: the data of a pod is safe
on a node that the clean-up's copy of the nodes shows and that stays, whatever nodes leave,
join and return, and however old the copies of claims and pods are. It says nothing of a node
that is newer than the copy or has left since (`OpenebsNodesLag`). `PodsRecover`: the pod runs again.

**Fairness.** Weak fairness of the reconcile as a whole: a step of a reconcile
that has begun is taken, and reconciles recur because the controller watches
nodes (IC:1065), whose status kubelets keep updating; the requeue at IC:1049 alone
would not do, as the early return has none. Weak fairness of the informer, of
autopilot (not of its failing), of helm and of the pod's replacement. None of
the command: an administrator's process may stop anywhere. For the migration,
also of the kubelet and the job controller, which run the job; and strong fairness
of the charts step finding nothing pending, since other charts (free in the model)
are not pending at every reconcile.
For node statuses, strong fairness of a reconcile that begins when no preflight job is
left, since Create fails while the job of the node exists (IC:885) and the work queue
retries at growing intervals, up to many minutes, which outlast a job that is deleted when it
finishes (IC:83). Nothing is assumed of the k0s step: a plan that has failed ends every
reconcile at IC:998-1005, so `OldInstallationsRetired` has reconciles that get past it as its
premise. For the
artifacts, of each command (its polls), of the job controller and of autopilot. For
charts and claims, of the reconcile, of every informer and of the controllers of the
cluster.

### Where the code differs from what it says

Each of these runs refutes one sentence of the repository; `findings` quotes it.

| Run | Refuted | What happens |
|---|---|---|
| `ha_downgrade` | `NoKubeDowngrade` | two controllers, a plan that failed between them: the downgrade check asks the one left behind, and the other is taken back |
| `operator_reverted` | `NewOperatorTakesOver` | a reconcile of the old operator in flight while its chart is replaced writes the old chart back; it then refuses the new installation for ever |
| `metadata_plain` | `MetadataIsCustomised` | the metadata is in the cache before the TLS secret is read (`release.go:97`); if that read fails, all later calls get it without the TLS setting |
| `removed_chart` | `ErrorsDoNotStopDeployment` | air gapped, a chart that a release removes is no drift (`helm.go:22`): if it is in error, the installation stays in `HelmChartUpdateFailure` |

In `addons` the read of the secret may fail as well, and the metadata that `metadata_plain`
shows is what the next chart list is made of; `TLSIsKept` says that this is the only way in
which the operator takes TLS back.

These configurations are further counterexamples, to be run on demand (with TLC
reporting the property as violated); the properties are beside the others.

| Configuration, module | Refuted | What happens |
|---|---|---|
| `AirgapCommandFails`, `MCK0sUpgrade` | `CommandSurvivesUpload` | the operator deletes the command's finished air gap plan (IC:412) before the command polls again (`upgrade.go:337`); the command fails with nothing wrong |
| `AirgapPlanDeleted`, `MCK0sUpgrade` | `RunningPlanNotDeleted` | `EnsureObject` (`ensure.go:43`) deletes another installation's plan while it runs |
| `StaleK0sVersion`, `MCK0sUpgrade` | `AddonsOnDesiredK0s` | a retry of a failed build upgrade is compared with the failed installation, found up to date, and goes on to the add-ons |
| `FailureUnreported`, `MCK0sUpgrade` | `FailureReported` | a failure is saved by the early return (IC:998), which sends no event |
| `RegistryDrains`, `RegistryMigration` | `UploadFollowsScaleDown` | the job does not wait for the registry to stop (`migrations/registry.go:37`): a push behind its walk is not uploaded |
| `HaTooEarly`, `RegistryMigration` | `HAMeansRegistryOnS3` | the secret appears within a reconcile, between the charts and the HA step: HA is reported with the registry on the disk, scaled to 0 |
| `NodeEventsLost`, `NodeStatuses` | `NodeEventsAreSent` | statuses saved by the early return: the changes are never reported |
| `ArtifactsMissing`, `MCArtifactDistribution` | `AssetsInPlace` | a node joins after the last poll: the plan, made for all the nodes there are, has a node without images and fails |
| `SharedJobName`, `MCArtifactDistribution` | `ReadyNodesHaveImages` | two long node names that differ in the middle only are shortened to one job name (`name.go:13`): the job runs on one node, and both count as ready |
| `AddonsHalfWay`, `MCK0sUpgrade` | `AddonsOnDesiredServer` | two controllers, a plan that the operator's copy does not show yet: the one that is upgraded already answers, the release counts as installed and the add-ons follow, with the other still to come |
| `ReturningChart`, `MCAddonCharts` | `InstalledMeansApplied` | a chart is in version 1, 2 and 1 again in three releases: the informer's copy of the first time matches the third list, and `Installed` is declared with helm at version 2 |
| `StaleLists`, `NodeStatuses` | `NoChangeReportedTwice` | an installation that has just been made obsolete is listed with its old statuses (IC:816), and the change since is reported again |
| `StalePreflights`, `NodeStatuses` | `JobSinceLastWithout` | an upgrade starts while a reconcile removes the status of a node that is gone; the next reconcile still lists the old installation with that status, and a node that returns with the same name gets a status with no new job |
| `OpenebsByName`, `OpenebsCleanup` | `RunningPodsKept` | pods are deleted by name (`openebs.go:99`): one that has been made anew, and runs on another node by then, is deleted |
| `OpenebsNodesLag`, `OpenebsCleanup` | `FirstClaimsKept` | the claims' informer is ahead of the nodes': a claim of a node that has just joined counts as stuck, and so does one of a node that has come back since |
| `RegistrySwitchedBack`, `RegistryMigration` | `SwitchIsFinal` | a command reads the chart list before the operator has put the registry on S3 in and patches it after (`upgrade.go:169`): the switch is undone until a later reconcile makes it again |

Of all of these only `HaDowngrade`, `StaleK0sVersion` and `MetadataPlain` need a fault.
The downgrade check compares kubernetes versions only, so an older k0s build of the same kubernetes is rolled
out; `NoKubeDowngrade` says no more than that.

## 4. Proofs

`K0sUpgradeProofs` proves, for all constants that satisfy `ConstantsAssumption`
(any nodes, releases, installations and number of faults):

| Theorem | States | Assuming |
|---|---|---|
| `TypeCorrect` | `Spec => []TypeOK` | |
| `NewestStaysVisible` | `Spec => []NewestNeverObsolete` | |
| `WorkersStayBehind` | `Spec => []WorkersNeverAhead` | |
| `NoDowngrade` | `Spec => NoKubeDowngrade` | a single controller |
| `RolloutImplemented` | `Spec => ImplementsRollout` | |
| `OnlinePlansRunToTheirEnd` | `Spec => RunningPlanNotDeleted` | not air gapped |
| `ImagesComeFirst` | `Spec => []ImagesBeforeInstallation` | |
| `AddonsFollowTheServer` (in `K0sServerProofs`) | `Spec => []AddonsOnDesiredServer` | a single controller |

The assumptions are needed: `ha_downgrade`, `AirgapPlanDeleted` and `AddonsHalfWay`
refute the statements without them.

The argument. Type correctness is inductive, with the record `rec` typed by its
fields. For the others a lemma (`EveryStepIsAPlanStep`) first reduces every step
of the system to what it can do to plan and nodes: nothing, a new state for the
plan, a plan created after a downgrade check, a plan deleted, or a node moved.

- `NewestNeverObsolete` is not inductive by itself. `ListInv` adds that the list of
  the reconcile in progress contains `rec.in`, all its members exist, and none is
  newer than `rec.in`; installations are never deleted, so whatever is flagged has a
  newer one for ever.
- `WorkersNeverAhead` is strengthened by `WorkersInv`: no worker is ahead of any
  controller, and a live k0s plan is to a version no older than the workers'. A plan
  is created only if *some* API server is no newer than its target, and workers are
  behind every one, so this survives half-failed plans with several controllers.
- `NoKubeDowngrade` adds `ControllersInv`: the live plan is no older than the
  controller; with one controller the server version read is its own.
- `RunningPlanNotDeleted` needs that a copy of a plan that shows an ended plan is
  of the plan that is still there or of none (`EndedCopyInv`): only the operator
  creates plans online, and only when its copy shows none.
- The refinement maps `target` to the live k0s plan; each plan step is a step of
  `K0sRollout` or a stutter. `DeleteEndedPlan` on an air gap plan and the state
  changes of a plan are stutters.
- `ImagesBeforeInstallation`: a command goes on after any completed plan of its
  installation, not only the one it made. `ImagesInv` covers both: a completed air gap
  plan has put the images of its owner there, and the owner of a k0s plan exists already.
- `AddonsOnDesiredServer`: the operator goes on to the add-ons for one of four reasons,
  and each has its invariant. There is one installation only: then it is the first, and
  nothing has been rolled out (`FirstInv`). No plan is in its copy and the server has the
  version: a rollout that the copy does not show was started by this operator, for its own
  version (`OperatorInv`). The copy shows a completed plan: that plan reached every node,
  and no other one starts until the copy is gone (`RolledOutInv`). An ended plan of
  another kind is deleted and the saved state kept: if it was `KubernetesInstalled`, saved
  when the add-ons could not be prepared, the server still has that version, because only
  reconciles of the same installation have run since (`NewestInv`). `ServerInv` puts them
  together, with the target of any rollout in progress being that version too.

`RegistryMigrationProofs` proves, under `MigrationAssumption` (any blobs, number of
installations, restarts and faults):

| Theorem | States | Assuming |
|---|---|---|
| `MigrationTypeCorrect` | `Spec => []TypeOK` | |
| `OnlyACommandTakesS3Out` | `Spec => OperatorKeepsS3` | |
| `ImagesSurvive` | `Spec => []ImagesSurviveSwitch` | |

- `OperatorKeepsS3` follows from `SwitchInv`: nobody asks for the registry on S3 before
  the operator has seen the secret, and then `MigrateRegistryData` sets the condition
  again in every reconcile, for an object without conditions too, before the charts
  are merged; the secret is never deleted. A command's patch may bring the registry on S3
  back in, and a list that has it was read after the secret was seen.
- `ImagesSurviveSwitch` follows from `CopyInv`: in the middle of a walk, what is on the disk
  and not late is on S3 or still to be uploaded, and from its end on it is on S3. Every
  attempt that may still create the secret begins with a new walk, and later ones, over a
  secret that exists, take nothing away. That helm switches only when the secret exists is
  `SwitchInv`.

`ArtifactDistributionProofs` proves, under `ArtifactsAssumption` (any nodes, job names
shared or not, installations, attempts and faults, commands that overlap or not):

| Theorem | States | Assuming |
|---|---|---|
| `ArtifactsTypeCorrect` | `Spec => []TypeOK` | |
| `ImagesOfSucceededJobs` | `Spec => []SucceededMeansImages` | |
| `ImagesStayInPlace` | `Spec => []ReadyNodesHaveImages` | `OwnJobNames`: no two nodes share a job name |

The assumption is needed: see `SharedJobName`.

- `TypeOK` is inductive with `TypeInv`: a command about to delete, await or create a job
  knows for which node.
- `SucceededMeansImages` needs `PodInv`. A pod belongs to an active job (`PodsHaveJobs`),
  since the foreground deletion keeps the name taken until the pod is gone; so a node has
  one pod at a time, what it renames is its own download (`OwnDownload`), and whoever
  removes images takes them from no succeeded job. The images are stated for all nodes,
  as a job outlives the membership of its node.
- `ReadyNodesHaveImages` adds that a lone command stays alone (`LoneInv`), that a job runs
  for the node it is named after (`NamesInv`), and that a node counted as ready is
  `Settled` until the plan has ended: its images are there, and its job has succeeded or
  is gone, so no script is left to remove them (`ReadyInv`). Success alone would not do,
  as the job of a node that leaves may be removed.

`NodeStatusesProofs` proves, under `NodesAssumption` (any nodes, looks of a node,
installations, changes and faults, and lists that are behind at any time):

| Theorem | States | Assuming |
|---|---|---|
| `StatusesTypeCorrect` | `Spec => []TypeOK` | |
| `ChangesRepeatedOnlyFromOldLists` | `Spec => []RepeatedOnlyFromOldLists` | |
| `PreflightsComeFirst` | `Spec => []PreflightsBeforeStatus` | |

The bound `MaxChanges` is on a sum over the nodes, so `TypeOK` has `changes` as natural
numbers.

- Both rest on which statuses are *held*: what an up-to-date list would have
  `CoalesceInstallations` take over. `ViewInv` relates the views of them: the informer's
  copy, which is right about what it does not lag behind (`CopyInv`); the reconcile in
  progress, whose installation is newer than every obsolete one and than any with statuses
  (`RecInv`); and what it has compared (`NowInv`).
- `RepeatedOnlyFromOldLists` is then a matter of counting (`CountInv`): the events of a node,
  one more if what is held is not what the node is, and one more for a change that the
  reconcile in progress may still report, are never more than its changes and the blind
  installations together. A blind installation is counted when its reconcile begins, before
  it can have reported anything.
- `PreflightsBeforeStatus` follows from `JobInv`: an installation that takes a node out of
  the statuses keeps some, and later ones compare with it or with something newer; so a
  status without a new job is always that of a later installation.

`AddonChartsProofs` proves, under `ChartsAssumption` and `AbsentAssumption` (any charts,
releases, installations and faults):

| Theorem | States | Assuming |
|---|---|---|
| `ChartsTypeCorrect` | `Spec => []TypeOK` | |
| `RegistryKeepsTLS` | `Spec => TLSIsKept` | |
| `InstalledIsApplied` | `Spec => InstalledMeansApplied` | `NoReturn` |

`NoReturn` (no release takes a chart back to a version that another has replaced) is needed
because of `ReturningChart`.

- `TypeOK` is inductive with `CallInv`: where the reconcile waits for metadata there is a
  call of `MetadataFor`, and only one that makes the config map may end without it.
- `TLSIsKept` follows from `SecretInv`: values for TLS are only ever made when the secret
  exists, and once it does, metadata as it was released is in the cache only while the
  call that put it there is about to read the secret, or when a call for that version has
  failed to (`CacheInv`); so it is with what a call returns.
- `InstalledMeansApplied` compares a list, objects and what helm has applied, at two
  moments. `VersionsInv` says of each link of that chain, from the list to the objects, to
  what is applied, to the copies of both, that the versions at its two ends agree or that
  the older one is `Gone`: neither the installation being worked on nor any later one wants
  it. So a copy that shows the wanted version shows the present, and `DecidedInv` carries
  that to the status update.

`OpenebsCleanupProofs` proves, under `CleanupAssumption` (any nodes, pods and faults):

| Theorem | States | Assuming |
|---|---|---|
| `CleanupTypeCorrect` | `Spec => []TypeOK` | |
| `FirstClaimsAreKept` | `Spec => SteadyNodesKeepClaims` | |

`SteadyNodesKeepClaims` follows from `FirstInv`: the informer's copy of the nodes shows those
that are steady since it was made; a copy of a first claim, the informer's or the
reconcile's, is empty, has no node, or shows the node it still has (`CopyOf`); so a first
claim taken for stuck is on none of the nodes that are steady since the copy that the
clean-up has read, and the steady nodes only get fewer until the deletion comes.

With these every type invariant, safety invariant and action property of the passing runs,
and the refinement, is proved. The inductive invariants were checked by TLC on the constants of
the runs before they were proved. Model-checked only: `UpgradeLeavesQueue`,
`MigrationEnds`, `StatusesFollowNodes`, `OldInstallationsRetired`, `EveryCommandEnds`, `ErrorsDoNotStopDeployment` and
`PodsRecover`, since liveness under fairness is beyond the prover.

## 5. Plan

In this order, the most important behaviour first; all but the last are done.

1. `K0sRollout`, `K0sUpgrade`, `MCK0sUpgrade`: done.
2. `K0sUpgradeProofs`: types, newest installation, workers, downgrades,
   refinement, plans online: done.
3. Findings of the first component as runs of their own: done.
4. `RegistryMigration`, `RegistryMigrationProofs`: the operator's side, the job and
   the restarts of both; no switch before the copy is complete, proved: done.
5. `AddonCharts` over `ReleaseMetadata`: drift and completion of all charts, next to
   k0s and helm, on metadata from a cache: done.
6. `NodeStatuses`: across early returns, failed saves and old lists; which changes are
   reported again: done.
7. `ArtifactDistribution`: jobs per node, over a changing node list: done.
8. `OpenebsCleanup`: deletes decided on copies of the cluster: done.
9. Proofs of the safety properties of all components: `K0sServerProofs`,
   `NodeStatusesProofs`, `AddonChartsProofs`, `ArtifactDistributionProofs`,
   `OpenebsCleanupProofs`: done.
10. What the liveness properties rest on, as theorems: that a plan that is seen to have ended
    is deleted or taken for success, that a completed migration is never begun anew.

## 6. Not modelled

Generated schemas, manifests, charts and templates, `main.go` and command line
wiring, logging and reasons (wording), HTTP and S3 transport, RBAC: no behaviour of
their own, or plain I/O. The values of charts (`charts.go:128-300`) are templates, of which
the TLS setting of the registry is followed. Of the pure helpers, the length limit of names
is the constant `JobOf` of `ArtifactDistribution`: in the runs every node has a job name
of its own, and `SharedJobName` shows what a shared one does. The arithmetic on CIDRs
(`net.go`, `cidr.go`) has no state, and unit tests reach its cases. Overrides of charts that
a vendor or an administrator gives are part of what a release wants; edits of the
`ClusterConfig` by hand are left out.

## Running

    tlc -workers 2 -config K0sOnline.cfg MCK0sUpgrade
    tlapm K0sUpgradeProofs.tla
    tlapm K0sServerProofs.tla
    tlc -workers 2 -config Registry.cfg RegistryMigration
    tlapm RegistryMigrationProofs.tla
    tlc -workers 2 -config NodeStatuses.cfg NodeStatuses
    tlapm NodeStatusesProofs.tla
    tlc -workers 2 -config Artifacts.cfg MCArtifactDistribution
    tlapm ArtifactDistributionProofs.tla
    tlc -workers 2 -config Addons.cfg MCAddonCharts
    tlapm AddonChartsProofs.tla
    tlc -workers 2 -config Openebs.cfg OpenebsCleanup
    tlapm OpenebsCleanupProofs.tla
