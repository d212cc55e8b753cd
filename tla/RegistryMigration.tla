--------------------------- MODULE RegistryMigration ---------------------------
(***************************************************************************)
(* The move of the registry of an air gapped cluster from a disk to the    *)
(* seaweedfs S3 store, when high availability is enabled: the operator     *)
(* (ReconcileRegistry, ReconcileHAStatus and the chart list in between),   *)
(* the job that copies the data (pkg/migrations), the chart list that the  *)
(* upgrade command writes, and, as their environment, the job controller,  *)
(* helm, the registry and its clients.                                     *)
(*                                                                         *)
(* Simplifications: the cluster is air gapped and highly available from    *)
(* the start; the reads of MigrateRegistryData, all from the informers, and*)
(* its one write are one step; charts other than seaweedfs and the registry*)
(* may be pending or drifted at any time; a chart becomes healthy at once  *)
(* when helm has applied it; a chart that is no longer listed stays        *)
(* deployed; the operator reads and writes the chart list in one step, for *)
(* its update carries the list's resourceVersion; one command runs at a    *)
(* time; the switch of the registry's Deployment to S3 is one step.        *)
(***************************************************************************)
EXTENDS Integers

CONSTANTS
    Blobs,          \* what clients push
    Last,           \* installations 1..Last may come to exist
    Backoff,        \* restarts of the job's container before the job fails
    MaxFaults       \* bound on failed calls, crashes and killed containers

ASSUME MigrationAssumption ==
    /\ Last \in Nat \ {0}
    /\ Backoff \in Nat
    /\ MaxFaults \in Nat

VARIABLES
    newest,         \* the newest installation
    condition,      \* RegistryMigrationStatus of every installation, as saved
    ha,             \* HA condition of every installation, as saved
    rec,            \* the reconcile in progress and its unsaved conditions
    secret,         \* does the "migration complete" secret exist?
    secretCache,    \* the operator's informer copy of that
    job,            \* the migration job
    jobCache,       \* the operator's informer copy of it
    list,           \* seaweedfs and the registry in the ClusterConfig's chart list
    command,        \* the upgrade command: its step, and the list it has read
    seaweedReady,   \* has helm installed seaweedfs?
    chartSpec,      \* the registry's Chart object: what helm should apply
    applied,        \* what helm has applied: the store the registry uses
    pod,            \* the job's process: step, files still to upload, restarts
    replicas,       \* of the registry's Deployment
    serving,        \* does a registry process answer?
    disk, s3,       \* blobs in the two stores
    faults

\* An auxiliary variable, for the properties.
VARIABLE
    late            \* blobs that came to the disk when the last walk over its files had
                    \* begun, and were not met by it, or when the secret existed

statusVars   == <<newest, condition, ha>>
secretVars   == <<secret, secretCache>>
jobVars      == <<job, jobCache>>
helmVars     == <<seaweedReady, chartSpec, applied>>
chartVars    == <<list, command, helmVars>>
registryVars == <<replicas, serving, disk, s3, late>>
vars == <<statusVars, rec, secretVars, jobVars, chartVars, pod, registryVars, faults>>

Installations == 1..Last
Conditions == {"", "False", "True"}
Jobs == {"none", "created", "active", "failed", "complete"}
RecSteps == {"idle", "migrate", "charts", "ha", "save"}
PodSteps == {"none", "scaleDown", "upload", "secret", "exit", "scaleUp", "crashed"}

Lists == [seaweed : BOOLEAN, registry : {"disk", "none", "s3"}]
OldList == [seaweed |-> FALSE, registry |-> "disk"]

Idle == [step |-> "idle", in |-> 1, migrated |-> "", ha |-> "", installed |-> FALSE]
NoPod == [step |-> "none", todo |-> {}, restarts |-> 0]
NoCommand == [step |-> "none", list |-> OldList]

TypeOK ==
    /\ newest \in Installations
    /\ condition \in [Installations -> Conditions]
    /\ ha \in [Installations -> Conditions]
    /\ rec \in [step : RecSteps, in : Installations, migrated : Conditions,
                ha : Conditions, installed : BOOLEAN]
    /\ secret \in BOOLEAN /\ secretCache \in BOOLEAN
    /\ job \in Jobs /\ jobCache \in Jobs
    /\ list \in Lists
    /\ command \in [step : {"none", "patch", "create"}, list : Lists]
    /\ command.step # "none" => newest < Last
    /\ seaweedReady \in BOOLEAN
    /\ chartSpec \in {"disk", "s3"}
    /\ applied \in {"disk", "s3"}
    /\ pod \in [step : PodSteps, todo : SUBSET Blobs, restarts : 0..Backoff]
    /\ replicas \in 0..1
    /\ serving \in BOOLEAN
    /\ disk \in SUBSET Blobs /\ s3 \in SUBSET Blobs /\ late \in SUBSET Blobs
    /\ faults \in 0..MaxFaults

Init ==
    /\ newest = 1
    /\ condition = [i \in Installations |-> ""]
    /\ ha = [i \in Installations |-> ""]
    /\ rec = Idle
    /\ secret = FALSE /\ secretCache = FALSE
    /\ job = "none" /\ jobCache = "none"
    /\ list = OldList /\ command = NoCommand
    /\ seaweedReady = FALSE /\ chartSpec = "disk" /\ applied = "disk"
    /\ pod = NoPod
    /\ replicas = 1 /\ serving = TRUE
    /\ disk = {} /\ s3 = {} /\ late = {}
    /\ faults = 0

Fault == faults < MaxFaults /\ faults' = faults + 1

-------------------------------------------------------------------------------
(* The operator                                                            *)

Reconcile ==
    /\ rec.step = "idle"
    /\ rec' = [step |-> "migrate", in |-> newest, migrated |-> condition[newest],
               ha |-> ha[newest], installed |-> FALSE]
    /\ UNCHANGED <<statusVars, secretVars, jobVars, chartVars, pod, registryVars, faults>>

SetMigrated(c) == rec' = [rec EXCEPT !.migrated = c, !.step = "charts"]

\* An error of MigrateRegistryData: the condition is saved, the reconcile ends.
MigrationError(c) ==
    /\ condition' = [condition EXCEPT ![rec.in] = c]
    /\ rec' = Idle

\* Delete leaves the pods of the job to themselves.
DeleteJob ==
    /\ job' = "none"
    /\ pod' \in {pod, NoPod}

\* maybeDeleteRegistryJob fails when the job it has a copy of is gone.
CanCleanUp == jobCache = "none" \/ job # "none"
CleanUp ==
    IF jobCache = "none" THEN UNCHANGED <<job, pod>> ELSE DeleteJob

AlreadyMigrated ==
    /\ rec.migrated = "True"
    /\ SetMigrated("True")
    /\ UNCHANGED <<condition, job, pod>>

MigrationComplete ==
    /\ rec.migrated # "True"
    /\ secretCache
    /\ \/ CanCleanUp /\ CleanUp /\ SetMigrated("True") /\ UNCHANGED condition
       \/ ~CanCleanUp /\ MigrationError(rec.migrated) /\ UNCHANGED <<job, pod>>

\* HasRegistryMigrated and the chart's health let the migration start or go on.
Migrating == rec.migrated # "True" /\ ~secretCache /\ seaweedReady

WaitForSeaweed ==
    /\ rec.migrated # "True" /\ ~secretCache /\ ~seaweedReady
    /\ SetMigrated("False")
    /\ UNCHANGED <<condition, job, pod>>

WaitForJob ==
    /\ Migrating
    /\ \/ jobCache = "active" /\ SetMigrated("False")
       \/ jobCache \in {"created", "complete"} /\ SetMigrated(rec.migrated)
    /\ UNCHANGED <<condition, job, pod>>

JobHasFailed ==
    /\ Migrating
    /\ jobCache = "failed"
    /\ MigrationError("False")
    /\ UNCHANGED <<job, pod>>

CreateJob ==
    /\ Migrating
    /\ jobCache = "none"
    /\ \/ job = "none" /\ job' = "created" /\ SetMigrated("False") /\ UNCHANGED condition
       \/ job # "none" /\ MigrationError("False") /\ UNCHANGED job
    /\ UNCHANGED pod

MigrateRegistryData ==
    /\ rec.step = "migrate"
    /\ \/ AlreadyMigrated
       \/ MigrationComplete
       \/ WaitForSeaweed
       \/ WaitForJob
       \/ JobHasFailed
       \/ CreateJob
    /\ UNCHANGED <<newest, ha, secretVars, jobCache, chartVars, registryVars, faults>>

-------------------------------------------------------------------------------
MutantRegistryOf(migrated) == migrated
MutantSavedRegistryOf(migrated) == IF condition[rec.in] = "True" THEN "s3" ELSE "none"
\* mergeHelmConfigs: no registry at all until the migration is complete.
RegistryOf(migrated) == IF migrated = "True" THEN "s3" ELSE "none"

MutantDrift == list.registry # "none" /\ RegistryOf(rec.migrated) \notin {"none", list.registry}
\* A chart that is no longer wanted is no drift.
Drift ==
    \/ ~list.seaweed
    \/ RegistryOf(rec.migrated) \notin {"none", list.registry}

Pending ==
    \/ list.seaweed /\ ~seaweedReady
    \/ list.registry # "none" /\ (chartSpec # list.registry \/ applied # chartSpec)

\* The whole chart list is replaced when any chart has drifted.
InstallCharts ==
    /\ ~Pending
    /\ list' = [seaweed |-> TRUE, registry |-> RegistryOf(rec.migrated)]
    /\ rec' = [rec EXCEPT !.step = "ha", !.installed = FALSE]

ChartsInstalled ==
    /\ ~Pending /\ ~Drift
    /\ rec' = [rec EXCEPT !.step = "ha", !.installed = TRUE]
    /\ UNCHANGED list

ChartsPending ==
    /\ rec' = [rec EXCEPT !.step = "ha", !.installed = FALSE]
    /\ UNCHANGED list

ReconcileHelmCharts ==
    /\ rec.step = "charts"
    /\ InstallCharts \/ ChartsInstalled \/ ChartsPending
    /\ UNCHANGED <<statusVars, secretVars, jobVars, command, helmVars, pod, registryVars,
                   faults>>

RegistryHealthy == applied = chartSpec

SetHA(c) == rec' = [rec EXCEPT !.ha = c, !.step = "save"]

NotReadyForHA ==
    /\ ~seaweedReady \/ ~secretCache
    /\ SetHA("False")
    /\ UNCHANGED <<job, pod>>

HAStatus ==
    /\ seaweedReady /\ secretCache
    /\ \/ /\ CanCleanUp /\ CleanUp
          /\ SetHA(IF RegistryHealthy /\ rec.installed THEN "True" ELSE "False")
       \/ ~CanCleanUp /\ rec' = Idle /\ UNCHANGED <<job, pod>>

ReconcileHAStatus ==
    /\ rec.step = "ha"
    /\ NotReadyForHA \/ HAStatus
    /\ UNCHANGED <<statusVars, secretVars, jobCache, chartVars, registryVars, faults>>

UpdateStatus ==
    /\ rec.step = "save"
    /\ condition' = [condition EXCEPT ![rec.in] = rec.migrated]
    /\ ha' = [ha EXCEPT ![rec.in] = rec.ha]
    /\ rec' = Idle
    /\ UNCHANGED <<newest, secretVars, jobVars, chartVars, pod, registryVars, faults>>

\* A call of the reconcile fails, or the operator crashes or is replaced by the chart of a
\* new release.
Abort ==
    /\ rec.step # "idle"
    /\ Fault
    /\ rec' = Idle
    /\ UNCHANGED <<statusVars, secretVars, jobVars, chartVars, pod, registryVars>>

SyncSecret ==
    /\ secretCache # secret
    /\ secretCache' = secret
    /\ UNCHANGED <<statusVars, rec, secret, jobVars, chartVars, pod, registryVars, faults>>

SyncJob ==
    /\ jobCache # job
    /\ jobCache' = job
    /\ UNCHANGED <<statusVars, rec, secretVars, job, chartVars, pod, registryVars, faults>>

Operator == Reconcile \/ MigrateRegistryData \/ ReconcileHelmCharts \/ ReconcileHAStatus
            \/ UpdateStatus

-------------------------------------------------------------------------------
(* The upgrade command                                                     *)

CommandVars == UNCHANGED <<condition, ha, rec, secretVars, jobVars, helmVars, pod, registryVars>>

GetExistingClusterConfig ==
    /\ command.step = "none"
    /\ newest < Last
    /\ command' = [step |-> "patch", list |-> list]
    /\ UNCHANGED <<newest, list, faults>> /\ CommandVars

\* A merge patch of the whole charts array, without resourceVersion, unless the list
\* that was read has the new operator's chart already.
PatchClusterConfig ==
    /\ command.step = "patch"
    /\ list' \in {list, command.list}
    /\ command' = [command EXCEPT !.step = "create"]
    /\ UNCHANGED <<newest, faults>> /\ CommandVars

\* The new operator is up: a new object, without conditions.
NewInstallation ==
    /\ command.step = "create"
    /\ newest' = newest + 1
    /\ command' = NoCommand
    /\ UNCHANGED <<list, faults>> /\ CommandVars

CommandFails ==
    /\ command.step # "none"
    /\ Fault
    /\ command' = NoCommand
    /\ UNCHANGED <<newest, list>> /\ CommandVars

Upgrade == GetExistingClusterConfig \/ PatchClusterConfig \/ NewInstallation \/ CommandFails

-------------------------------------------------------------------------------
(* RegistryData, the process of the job                                    *)

AtStep(step) == pod.step = step
GoTo(step) == pod' = [pod EXCEPT !.step = step]
PodUnchanged == UNCHANGED <<statusVars, rec, secretCache, jobCache, chartVars>>

StartPod ==
    /\ job = "created" /\ AtStep("none")
    /\ job' = "active"
    /\ GoTo("scaleDown")
    /\ UNCHANGED <<secret, registryVars, faults>> /\ PodUnchanged

MutantScaleDown ==
    /\ AtStep("scaleDown")
    /\ replicas' = 0
    /\ pod' = [pod EXCEPT !.step = "upload", !.todo = IF pod.restarts = 0 THEN disk ELSE @]
    /\ late' = IF secret THEN late ELSE {}
\* The walk over the files begins once the Deployment is scaled, whether or not the
\* registry has stopped.
ScaleDown ==
    /\ AtStep("scaleDown")
    /\ replicas' = 0
    /\ pod' = [pod EXCEPT !.step = "upload", !.todo = disk]
    /\ late' = IF secret THEN late ELSE {}

Upload ==
    /\ AtStep("upload")
    /\ \E b \in pod.todo :
        /\ s3' = s3 \cup {b}
        /\ pod' = [pod EXCEPT !.todo = @ \ {b}]

Uploaded ==
    /\ AtStep("upload")
    /\ pod.todo = {}
    /\ GoTo("secret")

\* Create fails when an earlier attempt has created the secret.
CreateSecret ==
    /\ AtStep("secret")
    /\ \/ ~secret /\ secret' = TRUE /\ GoTo("exit")
       \/ secret /\ GoTo("scaleUp") /\ UNCHANGED secret

Exit ==
    /\ AtStep("exit")
    /\ pod' = NoPod
    /\ job' = IF job = "none" THEN job ELSE "complete"

\* The deferred function of a failed attempt.
ScaleUp ==
    /\ AtStep("scaleUp")
    /\ replicas' = 1
    /\ GoTo("crashed")

\* The kubelet restarts the container, up to the job's limit.
Restart ==
    /\ AtStep("crashed")
    /\ \/ /\ pod.restarts < Backoff
          /\ pod' = [pod EXCEPT !.step = "scaleDown", !.restarts = @ + 1]
          /\ UNCHANGED job
       \/ /\ pod.restarts = Backoff
          /\ pod' = NoPod
          /\ job' = IF job = "none" THEN job ELSE "failed"

RegistryData ==
    \/ StartPod
    \/ /\ \/ ScaleDown /\ UNCHANGED <<s3, secret, job>>
          \/ Upload /\ UNCHANGED <<replicas, late, secret, job>>
          \/ Uploaded /\ UNCHANGED <<replicas, late, s3, secret, job>>
          \/ CreateSecret /\ UNCHANGED <<replicas, late, s3, job>>
          \/ Exit /\ UNCHANGED <<replicas, late, s3, secret>>
          \/ ScaleUp /\ UNCHANGED <<late, s3, secret, job>>
          \/ Restart /\ UNCHANGED <<replicas, late, s3, secret>>
       /\ UNCHANGED <<serving, disk, faults>> /\ PodUnchanged

Steps == {"scaleDown", "upload", "secret", "exit"}

\* An error ends the attempt by way of the deferred function; a container that
\* is killed, or a deferred call that fails, does without.  The command's
\* context is not tied to signals.
RegistryDataFails ==
    /\ Fault
    /\ \/ pod.step \in Steps /\ GoTo("scaleUp")
       \/ pod.step \in Steps \cup {"scaleUp"} /\ GoTo("crashed")
    /\ UNCHANGED <<secret, job, registryVars>> /\ PodUnchanged

-------------------------------------------------------------------------------
(* The environment                                                         *)

SeaweedDeployed ==
    /\ list.seaweed /\ ~seaweedReady
    /\ seaweedReady' = TRUE
    /\ UNCHANGED <<chartSpec, applied, replicas>>

ChartUpdated ==
    /\ list.registry \notin {"none", chartSpec}
    /\ chartSpec' = list.registry
    /\ UNCHANGED <<seaweedReady, applied, replicas>>

HelmApplies ==
    /\ applied # chartSpec
    /\ applied' = chartSpec
    /\ replicas' = 1
    /\ UNCHANGED <<seaweedReady, chartSpec>>

Helm ==
    /\ SeaweedDeployed \/ ChartUpdated \/ HelmApplies
    /\ UNCHANGED <<statusVars, rec, secretVars, jobVars, list, command, pod, serving, disk, s3,
                   late, faults>>

RegistryFollows ==
    /\ serving # (replicas = 1)
    /\ serving' = (replicas = 1)
    /\ UNCHANGED <<statusVars, rec, secretVars, jobVars, chartVars, pod, replicas, disk, s3,
                   late, faults>>

\* A walk over the files may or may not meet one that is new.
PushToDisk(b) ==
    /\ applied = "disk"
    /\ disk' = disk \cup {b}
    /\ \E met \in {AtStep("upload"), FALSE} :
          /\ pod' = IF met THEN [pod EXCEPT !.todo = @ \cup {b}] ELSE pod
          /\ late' = IF secret \/ (pod.step \in {"upload", "secret"} /\ ~met)
                     THEN late \cup {b} ELSE late
    /\ UNCHANGED s3

PushToS3(b) ==
    /\ applied = "s3"
    /\ s3' = s3 \cup {b}
    /\ UNCHANGED <<disk, late, pod>>

Push(b) ==
    /\ serving
    /\ b \notin disk \cup s3
    /\ PushToDisk(b) \/ PushToS3(b)
    /\ UNCHANGED <<statusVars, rec, secretVars, jobVars, chartVars, replicas, serving, faults>>

-------------------------------------------------------------------------------
Next ==
    \/ Operator
    \/ Abort
    \/ SyncSecret
    \/ SyncJob
    \/ Upgrade
    \/ RegistryData
    \/ RegistryDataFails
    \/ Helm
    \/ RegistryFollows
    \/ \E b \in Blobs : Push(b)

Spec == Init /\ [][Next]_vars

\* As in K0sUpgrade, reconciles recur; the kubelet and the job controller run
\* the job, helm applies what it is given; the other charts are not found pending
\* at every reconcile.
Fairness ==
    /\ WF_vars(Operator)
    /\ SF_vars(ReconcileHelmCharts /\ (InstallCharts \/ ChartsInstalled))
    /\ WF_vars(SyncSecret)
    /\ WF_vars(SyncJob)
    /\ WF_vars(RegistryData)
    /\ WF_vars(Helm)
    /\ WF_vars(RegistryFollows)

FairSpec == Spec /\ Fairness

-------------------------------------------------------------------------------
(* Properties                                                              *)

\* Of all that was pushed only what came after the last walk over the files had begun
\* may be missing once the registry is on S3, however often the copy failed, was killed
\* or restarted, and although clients push between attempts and while the registry winds
\* down (MigrateRegistryData, RegistryData).
ImagesSurviveSwitch ==
    applied = "s3" => disk \ late \subseteq s3

\* Only a command takes the registry on S3 out of the chart list, with a list that it has
\* read before the switch; the operator never does, not for a new installation either,
\* whose object has no condition yet (mergeHelmConfigs, MigrateRegistryData).
OperatorKeepsS3 ==
    [][list.registry = "s3" /\ list'.registry # "s3" =>
           command.step = "patch" /\ command.list.registry # "s3" /\ list' = command.list]_vars

\* The migration ends with a registry that serves from S3, also when a command has taken
\* it out of the chart list, unless the job has failed more often than it is restarted or
\* has failed after its last call (RegistryData, MigrateRegistryData).
MigrationEnds ==
    \/ <>[](applied = "s3" /\ serving)
    \/ <>(job = "failed")
    \/ <>(secret /\ pod.step = "crashed")

\* Once the chart list has the registry on S3 it keeps it.
SwitchIsFinal ==
    [][list.registry = "s3" => list'.registry = "s3"]_vars

\* migrate.go:29 "this function creates a job that will scale down the
\* registry deployment then upload the data to s3": what is pushed while the
\* registry winds down is uploaded too.
UploadFollowsScaleDown ==
    secret /\ applied = "disk" => disk \subseteq s3

\* installation_controller.go:470-472: the HA condition is based on "the Registry
\* deployment having two running + healthy replicas", which only the registry on
\* S3 has.
HAMeansRegistryOnS3 ==
    \A i \in Installations : ha[i] = "True" => applied = "s3"
===============================================================================
