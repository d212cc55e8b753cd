----------------------- MODULE RegistryMigrationProofs -----------------------
(* Theorems about RegistryMigration, for any blobs, installations, restarts  *)
(* and number of faults.                                                      *)
EXTENDS RegistryMigration, TLAPS

RecType == [step : RecSteps, in : Installations, migrated : Conditions,
            ha : Conditions, installed : BOOLEAN]
PodType == [step : PodSteps, todo : SUBSET Blobs, restarts : 0..Backoff]
CommandType == [step : {"none", "patch", "create"}, list : Lists]

LEMMA FaultType ==
    ASSUME TypeOK, Fault
    PROVE  faults' \in 0..MaxFaults
BY MigrationAssumption DEF TypeOK, Fault, MigrationAssumption

LEMMA IdleTypes == Idle \in RecType /\ NoPod \in PodType /\ NoCommand \in CommandType
BY MigrationAssumption
   DEF Idle, NoPod, NoCommand, OldList, RecType, PodType, CommandType, Lists, RecSteps, PodSteps,
       Conditions, Installations, MigrationAssumption

LEMMA InitType == Init => TypeOK
<1> SUFFICES ASSUME Init PROVE TypeOK
  OBVIOUS
<1>1. 1 \in Installations /\ 0 \in 0..MaxFaults /\ 1 \in 0..1
  BY MigrationAssumption DEF Installations, MigrationAssumption
<1>2. newest \in Installations /\ faults \in 0..MaxFaults /\ replicas \in 0..1
  BY <1>1 DEF Init
<1>3. condition \in [Installations -> Conditions] /\ ha \in [Installations -> Conditions]
  BY DEF Init, Conditions
<1>4. rec \in RecType /\ pod \in PodType
  BY IdleTypes DEF Init
<1>5. /\ secret \in BOOLEAN /\ secretCache \in BOOLEAN /\ serving \in BOOLEAN
      /\ job \in Jobs /\ jobCache \in Jobs
  BY DEF Init, Jobs
<1>6. /\ seaweedReady \in BOOLEAN
      /\ chartSpec \in {"disk", "s3"} /\ applied \in {"disk", "s3"}
      /\ disk \in SUBSET Blobs /\ s3 \in SUBSET Blobs /\ late \in SUBSET Blobs
  BY DEF Init
<1>7. list \in Lists /\ command \in CommandType /\ command.step = "none"
  BY IdleTypes DEF Init, NoCommand, OldList, Lists
<1> QED
  BY <1>2, <1>3, <1>4, <1>5, <1>6, <1>7 DEF TypeOK, RecType, PodType, CommandType

LEMMA CleanUpType ==
    ASSUME TypeOK, CleanUp
    PROVE  job' \in Jobs /\ pod' \in PodType
BY IdleTypes DEF TypeOK, CleanUp, DeleteJob, Jobs, PodType

LEMMA MigrateRegistryDataType ==
    ASSUME TypeOK, MigrateRegistryData
    PROVE  /\ rec' \in RecType
           /\ condition' \in [Installations -> Conditions]
           /\ job' \in Jobs
           /\ pod' \in PodType
<1> USE DEF SetMigrated, MigrationError
<1>0. rec \in RecType /\ pod \in PodType /\ rec.migrated \in Conditions
  BY DEF TypeOK, RecType, PodType
<1>1. CASE AlreadyMigrated
  BY <1>0, <1>1 DEF AlreadyMigrated, TypeOK, RecType, RecSteps, Conditions
<1>2. CASE MigrationComplete
  BY <1>0, <1>2, IdleTypes, CleanUpType
     DEF MigrationComplete, TypeOK, RecType, RecSteps, Conditions
<1>3. CASE WaitForSeaweed
  BY <1>0, <1>3 DEF WaitForSeaweed, TypeOK, RecType, RecSteps, Conditions
<1>4. CASE WaitForJob
  BY <1>0, <1>4 DEF WaitForJob, TypeOK, RecType, RecSteps, Conditions
<1>5. CASE JobHasFailed
  BY <1>0, <1>5, IdleTypes DEF JobHasFailed, TypeOK, Conditions
<1>6. CASE CreateJob
  BY <1>0, <1>6, IdleTypes DEF CreateJob, TypeOK, RecType, RecSteps, Conditions, Jobs
<1> QED
  BY <1>1, <1>2, <1>3, <1>4, <1>5, <1>6 DEF MigrateRegistryData

LEMMA ReconcileHelmChartsType ==
    ASSUME TypeOK, ReconcileHelmCharts
    PROVE  /\ rec' \in RecType /\ rec'.step = "ha" /\ rec'.migrated = rec.migrated
           /\ list' \in Lists
           /\ list' = list \/ (list'.registry = "s3" <=> rec.migrated = "True")
<1>0. rec \in RecType /\ list \in Lists
  BY DEF TypeOK, RecType
<1>1. /\ RegistryOf(rec.migrated) \in {"disk", "none", "s3"}
      /\ RegistryOf(rec.migrated) = "s3" <=> rec.migrated = "True"
  BY DEF RegistryOf
<1>2. \E b \in BOOLEAN : rec' = [rec EXCEPT !.step = "ha", !.installed = b]
  BY DEF ReconcileHelmCharts, InstallCharts, ChartsInstalled, ChartsPending
<1>3. list' = list \/ list' = [seaweed |-> TRUE, registry |-> RegistryOf(rec.migrated)]
  BY DEF ReconcileHelmCharts, InstallCharts, ChartsInstalled, ChartsPending
<1>4. /\ list' \in Lists
      /\ list' = list \/ (list'.registry = "s3" <=> rec.migrated = "True")
  <2>1. CASE list' = list
    BY <1>0, <2>1
  <2> DEFINE new == [seaweed |-> TRUE, registry |-> RegistryOf(rec.migrated)]
  <2>2. CASE list' = new
    <3>1. new \in Lists /\ new.registry = RegistryOf(rec.migrated)
      BY <1>1 DEF Lists
    <3> HIDE DEF new
    <3> QED
      BY <1>1, <2>2, <3>1, Zenon
  <2> QED
    BY <1>3, <2>1, <2>2
<1>5. rec' \in RecType /\ rec'.step = "ha" /\ rec'.migrated = rec.migrated
  BY <1>0, <1>2 DEF RecType, RecSteps
<1> QED
  BY <1>4, <1>5

LEMMA UpgradeType ==
    ASSUME TypeOK, Upgrade
    PROVE  /\ newest' \in Installations /\ list' \in Lists
           /\ command' \in CommandType /\ faults' \in 0..MaxFaults
           /\ command'.step # "none" => newest' < Last
           /\ CommandVars
<1>0. command \in CommandType /\ newest \in Installations /\ Last \in Nat
  BY MigrationAssumption DEF TypeOK, CommandType, MigrationAssumption
<1>1. CASE GetExistingClusterConfig
  BY <1>0, <1>1 DEF GetExistingClusterConfig, TypeOK, CommandType
<1>2. CASE PatchClusterConfig
  <2>1. command.list \in Lists /\ list \in Lists
    BY <1>0 DEF CommandType, TypeOK
  <2>2. list' \in Lists
    <3>1. list' = list \/ list' = command.list
      BY <1>2 DEF PatchClusterConfig
    <3> QED
      BY <2>1, <3>1
  <2>3. command' \in CommandType
    BY <1>0, <1>2 DEF PatchClusterConfig, CommandType
  <2> QED
    BY <1>2, <2>2, <2>3 DEF PatchClusterConfig, TypeOK
<1>3. CASE NewInstallation
  <2>1. newest < Last
    BY <1>3 DEF NewInstallation, TypeOK
  <2>2. newest + 1 \in Installations
    BY <1>0, <2>1 DEF Installations
  <2>3. command' \in CommandType /\ command'.step = "none"
    BY <1>3, IdleTypes DEF NewInstallation, NoCommand
  <2> QED
    BY <1>3, <2>2, <2>3 DEF NewInstallation, TypeOK
<1>4. CASE CommandFails
  <2>1. command' \in CommandType /\ command'.step = "none"
    BY <1>4, IdleTypes DEF CommandFails, NoCommand
  <2> QED
    BY <1>4, <2>1, FaultType DEF CommandFails, TypeOK
<1> QED
  BY <1>1, <1>2, <1>3, <1>4 DEF Upgrade

\* The process of the job, without the variables it leaves alone.
LEMMA RegistryDataType ==
    ASSUME TypeOK, RegistryData
    PROVE  /\ pod' \in PodType /\ job' \in Jobs /\ secret' \in BOOLEAN
           /\ replicas' \in 0..1 /\ s3' \in SUBSET Blobs /\ late' \in SUBSET Blobs
<1> USE DEF AtStep, GoTo, registryVars
<1>0. pod \in PodType /\ Backoff \in Nat
  BY MigrationAssumption DEF TypeOK, PodType, MigrationAssumption
<1>1. CASE StartPod
  BY <1>0, <1>1 DEF StartPod, TypeOK, PodType, PodSteps, Jobs
<1>2. CASE ScaleDown /\ UNCHANGED <<s3, secret, job>>
  <2>1. pod' \in PodType
    BY <1>0, <1>2 DEF ScaleDown, TypeOK, PodType, PodSteps
  <2> QED
    BY <1>2, <2>1 DEF ScaleDown, TypeOK
<1>3. CASE Upload /\ UNCHANGED <<replicas, late, secret, job>>
  BY <1>0, <1>3 DEF Upload, TypeOK, PodType, PodSteps
<1>4. CASE Uploaded /\ UNCHANGED <<replicas, late, s3, secret, job>>
  BY <1>0, <1>4 DEF Uploaded, TypeOK, PodType, PodSteps
<1>5. CASE CreateSecret /\ UNCHANGED <<replicas, late, s3, job>>
  BY <1>0, <1>5 DEF CreateSecret, TypeOK, PodType, PodSteps
<1>6. CASE Exit /\ UNCHANGED <<replicas, late, s3, secret>>
  BY <1>6, IdleTypes DEF Exit, TypeOK, Jobs
<1>7. CASE ScaleUp /\ UNCHANGED <<late, s3, secret, job>>
  BY <1>0, <1>7 DEF ScaleUp, TypeOK, PodType, PodSteps
<1>8. CASE Restart /\ UNCHANGED <<replicas, late, s3, secret>>
  <2>1. CASE pod.restarts < Backoff
    <3>1. pod' = [pod EXCEPT !.step = "scaleDown", !.restarts = @ + 1] /\ UNCHANGED job
      BY <1>0, <1>8, <2>1 DEF Restart, PodType
    <3>2. pod.restarts + 1 \in 0..Backoff
      BY <1>0, <2>1 DEF PodType
    <3>3. pod' \in PodType
      BY <1>0, <3>1, <3>2 DEF PodType, PodSteps
    <3> QED
      BY <1>8, <3>1, <3>3 DEF TypeOK
  <2>2. CASE pod.restarts = Backoff
    BY <1>0, <1>8, <2>2, IdleTypes DEF Restart, TypeOK, Jobs
  <2> QED
    BY <1>8, <2>1, <2>2 DEF Restart
<1> QED
  BY <1>1, <1>2, <1>3, <1>4, <1>5, <1>6, <1>7, <1>8 DEF RegistryData

LEMMA TypeStep == TypeOK /\ [Next]_vars => TypeOK'
<1> SUFFICES ASSUME TypeOK, [Next]_vars PROVE TypeOK'
  OBVIOUS
<1> USE DEF vars, statusVars, secretVars, jobVars, helmVars, chartVars, registryVars,
           PodUnchanged, CommandVars
<1>0. rec \in RecType /\ pod \in PodType /\ command \in CommandType /\ list \in Lists
  BY DEF TypeOK, RecType, PodType, CommandType
<1>1. CASE Reconcile
  BY <1>1 DEF Reconcile, TypeOK, RecSteps
<1>2. CASE MigrateRegistryData
  BY <1>2, MigrateRegistryDataType DEF MigrateRegistryData, TypeOK, RecType, PodType
<1>3. CASE ReconcileHelmCharts
  BY <1>3, ReconcileHelmChartsType DEF ReconcileHelmCharts, TypeOK, RecType
<1>4. CASE ReconcileHAStatus
  <2>1. rec' \in RecType /\ job' \in Jobs /\ pod' \in PodType
    BY <1>0, <1>4, IdleTypes, CleanUpType
       DEF ReconcileHAStatus, NotReadyForHA, HAStatus, SetHA, TypeOK, RecType, RecSteps,
           Conditions
  <2> QED
    BY <1>4, <2>1 DEF ReconcileHAStatus, TypeOK, RecType, PodType
<1>5. CASE UpdateStatus
  BY <1>5, IdleTypes DEF UpdateStatus, TypeOK, RecType
<1>6. CASE Abort
  BY <1>6, IdleTypes, FaultType DEF Abort, TypeOK, RecType
<1>7. CASE SyncSecret \/ SyncJob
  BY <1>7 DEF SyncSecret, SyncJob, TypeOK
<1>8. CASE Upgrade
  BY <1>8, UpgradeType DEF TypeOK, CommandType
<1>9. CASE RegistryData
  <2>1. /\ UNCHANGED <<newest, condition, ha, rec, secretCache, jobCache, list, command,
                       seaweedReady, chartSpec, applied, serving, disk, faults>>
    BY <1>9 DEF RegistryData, StartPod
  <2> QED
    BY <2>1, <1>9, RegistryDataType DEF TypeOK, PodType
<1>10. CASE RegistryDataFails
  <2>1. pod' \in PodType
    BY <1>0, <1>10 DEF RegistryDataFails, GoTo, PodType, PodSteps
  <2> QED
    BY <1>10, <2>1, FaultType DEF RegistryDataFails, TypeOK, PodType
<1>11. CASE Helm
  <2>0. list.registry \in {"disk", "none", "s3"}
    BY <1>0 DEF Lists
  <2>1. chartSpec' \in {"disk", "s3"} /\ applied' \in {"disk", "s3"}
    BY <2>0, <1>11 DEF Helm, SeaweedDeployed, ChartUpdated, HelmApplies, TypeOK
  <2>2. replicas' \in 0..1
    BY <1>11 DEF Helm, SeaweedDeployed, ChartUpdated, HelmApplies, TypeOK
  <2>3. seaweedReady' \in BOOLEAN
    BY <1>11, Zenon DEF Helm, SeaweedDeployed, ChartUpdated, HelmApplies, TypeOK
  <2> QED
    BY <1>11, <2>1, <2>2, <2>3 DEF Helm, TypeOK
<1>12. CASE RegistryFollows
  <2>1. serving' \in BOOLEAN
    BY <1>12 DEF RegistryFollows
  <2> QED
    BY <1>12, <2>1 DEF RegistryFollows, TypeOK
<1>13. ASSUME NEW b \in Blobs, Push(b) PROVE TypeOK'
  <2>1. disk' \in SUBSET Blobs /\ s3' \in SUBSET Blobs /\ late' \in SUBSET Blobs
    BY <1>13 DEF Push, PushToDisk, PushToS3, TypeOK
  <2>2. pod' \in PodType
    BY <1>0, <1>13 DEF Push, PushToDisk, PushToS3, AtStep, PodType
  <2> QED
    BY <1>13, <2>1, <2>2 DEF Push, PushToDisk, PushToS3, TypeOK, PodType
<1>14. CASE UNCHANGED vars
  BY <1>14 DEF TypeOK
<1> QED
  BY <1>1, <1>2, <1>3, <1>4, <1>5, <1>6, <1>7, <1>8, <1>9, <1>10, <1>11, <1>12, <1>13, <1>14
     DEF Next, Operator

\* Every variable of the migration keeps its type, in particular the job's
\* process never restarts more often than the job allows (newMigrationJob).
THEOREM MigrationTypeCorrect == Spec => []TypeOK
BY InitType, TypeStep, PTL DEF Spec

-------------------------------------------------------------------------------
(* The switch to S3                                                        *)

\* Nobody asks for the registry on S3 before the secret has been seen, and the operator
\* asks for it at every reconcile from then on, also when the list it updates has it by
\* the patch of a command.
SwitchInv ==
    /\ secretCache => secret
    /\ list.registry = "s3" => secretCache
    /\ command.list.registry = "s3" => secretCache
    /\ chartSpec = "s3" => secretCache
    /\ applied = "s3" => secretCache
    /\ rec.migrated = "True" => secretCache
    /\ \A i \in Installations : condition[i] = "True" => secretCache
    /\ rec.step = "charts" /\ (list.registry = "s3" \/ command.list.registry = "s3")
         => rec.migrated = "True"

LEMMA SwitchInit == Init => SwitchInv
<1> SUFFICES ASSUME Init PROVE SwitchInv
  OBVIOUS
<1>1. ~secretCache /\ ~secret /\ rec.step = "idle" /\ rec.migrated = ""
  BY DEF Init, Idle
<1>2. \A i \in Installations : condition[i] = ""
  BY DEF Init
<1>3. /\ list.registry = "disk" /\ command.list.registry = "disk"
      /\ chartSpec = "disk" /\ applied = "disk"
  BY DEF Init, NoCommand, OldList
<1> QED
  BY <1>1, <1>2, <1>3 DEF SwitchInv

LEMMA SwitchMigrate ==
    ASSUME TypeOK, SwitchInv, MigrateRegistryData
    PROVE  SwitchInv'
<1> USE DEF SwitchInv, MigrateRegistryData, SetMigrated, MigrationError, Idle, secretVars,
            helmVars, chartVars
<1>0. rec \in RecType /\ condition \in [Installations -> Conditions]
  BY DEF TypeOK, RecType
<1>1. CASE AlreadyMigrated
  BY <1>0, <1>1 DEF AlreadyMigrated, RecType
<1>2. CASE MigrationComplete
  <2>1. CASE rec' = [rec EXCEPT !.migrated = "True", !.step = "charts"] /\ UNCHANGED condition
    BY <1>0, <1>2, <2>1 DEF MigrationComplete, RecType
  <2>2. CASE MigrationError(rec.migrated)
    BY <1>0, <1>2, <2>2 DEF MigrationComplete, RecType
  <2> QED
    BY <1>2, <2>1, <2>2 DEF MigrationComplete
<1>3. CASE WaitForSeaweed
  BY <1>0, <1>3 DEF WaitForSeaweed, RecType
<1>4. CASE WaitForJob
  BY <1>0, <1>4 DEF WaitForJob, Migrating, RecType
<1>5. CASE JobHasFailed
  BY <1>0, <1>5 DEF JobHasFailed, RecType
<1>6. CASE CreateJob
  <2>1. CASE rec' = [rec EXCEPT !.migrated = "False", !.step = "charts"] /\ UNCHANGED condition
    BY <1>0, <1>6, <2>1 DEF CreateJob, Migrating, RecType
  <2>2. CASE MigrationError("False")
    BY <1>0, <1>6, <2>2 DEF CreateJob, Migrating, RecType
  <2> QED
    BY <1>6, <2>1, <2>2 DEF CreateJob
<1> QED
  BY <1>1, <1>2, <1>3, <1>4, <1>5, <1>6

\* The command brings no list with the registry on S3 but the one it has read.
LEMMA SwitchUpgrade ==
    ASSUME TypeOK, SwitchInv, Upgrade
    PROVE  SwitchInv'
<1> USE DEF SwitchInv, CommandVars, secretVars, helmVars
<1>1. UNCHANGED <<condition, rec, secret, secretCache, chartSpec, applied>>
  BY DEF Upgrade, GetExistingClusterConfig, PatchClusterConfig, NewInstallation, CommandFails
<1>2. CASE GetExistingClusterConfig
  <2>1. command'.list = list /\ list' = list
    BY <1>2 DEF GetExistingClusterConfig
  <2> QED
    BY <1>1, <2>1
<1>3. CASE PatchClusterConfig
  <2>1. command'.list = command.list /\ list' \in {list, command.list}
    BY <1>3 DEF PatchClusterConfig, TypeOK
  <2> QED
    BY <1>1, <2>1
<1>4. CASE NewInstallation \/ CommandFails
  <2>1. command'.list.registry = "disk" /\ list' = list
    BY <1>4 DEF NewInstallation, CommandFails, NoCommand, OldList
  <2> QED
    BY <1>1, <2>1
<1> QED
  BY <1>2, <1>3, <1>4 DEF Upgrade

LEMMA SwitchStep == TypeOK /\ SwitchInv /\ [Next]_vars => SwitchInv'
<1> SUFFICES ASSUME TypeOK, SwitchInv, [Next]_vars PROVE SwitchInv'
  OBVIOUS
<1> USE DEF SwitchInv, vars, statusVars, secretVars, helmVars, chartVars, PodUnchanged
<1>0. /\ rec \in RecType /\ condition \in [Installations -> Conditions]
      /\ list \in Lists /\ chartSpec \in {"disk", "s3"} /\ applied \in {"disk", "s3"}
  BY DEF TypeOK, RecType
<1>1. CASE Reconcile
  BY <1>0, <1>1 DEF Reconcile, TypeOK
<1>2. CASE MigrateRegistryData
  BY <1>2, SwitchMigrate
<1>3. CASE ReconcileHelmCharts
  BY <1>3, ReconcileHelmChartsType DEF ReconcileHelmCharts
<1>4. CASE ReconcileHAStatus
  <2>1. /\ UNCHANGED <<statusVars, secretVars, chartVars>>
        /\ \/ rec' = Idle
           \/ \E c \in Conditions : rec' = [rec EXCEPT !.ha = c, !.step = "save"]
    BY <1>4 DEF ReconcileHAStatus, NotReadyForHA, HAStatus, SetHA, Conditions
  <2>2. CASE rec' = Idle
    BY <2>1, <2>2 DEF Idle
  <2>3. ASSUME NEW c \in Conditions, rec' = [rec EXCEPT !.ha = c, !.step = "save"]
        PROVE  SwitchInv'
    <3>1. rec'.step = "save" /\ rec'.migrated = rec.migrated
      BY <1>0, <2>3 DEF RecType
    <3> QED
      BY <2>1, <3>1
  <2> QED
    BY <2>1, <2>2, <2>3
<1>5. CASE UpdateStatus
  BY <1>0, <1>5 DEF UpdateStatus, Idle, RecType
<1>6. CASE Abort
  BY <1>6 DEF Abort, Idle
<1>7. CASE SyncSecret \/ SyncJob
  BY <1>7 DEF SyncSecret, SyncJob
<1>8. CASE Upgrade
  BY <1>8, SwitchUpgrade
<1>9. CASE RegistryData
  <2>1. /\ UNCHANGED <<condition, rec, secretCache, chartVars>>
        /\ secret => secret'
    BY <1>9 DEF RegistryData, StartPod, CreateSecret
  <2> QED
    BY <2>1
<1>10. CASE RegistryDataFails
  BY <1>10 DEF RegistryDataFails
<1>11. CASE Helm
  BY <1>0, <1>11 DEF Helm, SeaweedDeployed, ChartUpdated, HelmApplies, Lists
<1>12. CASE RegistryFollows \/ UNCHANGED vars
  BY <1>12 DEF RegistryFollows
<1>13. ASSUME NEW b \in Blobs, Push(b) PROVE SwitchInv'
  BY <1>13 DEF Push
<1> QED
  BY <1>1, <1>2, <1>3, <1>4, <1>5, <1>6, <1>7, <1>8, <1>9, <1>10, <1>11, <1>12, <1>13
     DEF Next, Operator

LEMMA OnlyTheCommand ==
    ASSUME TypeOK, SwitchInv, [Next]_vars, list.registry = "s3", list'.registry # "s3"
    PROVE  command.step = "patch" /\ command.list.registry # "s3" /\ list' = command.list
<1> USE DEF vars, chartVars, PodUnchanged
<1>1. CASE ReconcileHelmCharts
  BY <1>1 DEF ReconcileHelmCharts, InstallCharts, ChartsInstalled, ChartsPending, RegistryOf,
              SwitchInv
<1>2. CASE Upgrade
  BY <1>2 DEF Upgrade, GetExistingClusterConfig, PatchClusterConfig, NewInstallation,
              CommandFails
<1>3. CASE ~ReconcileHelmCharts /\ ~Upgrade
  BY <1>3 DEF Next, Operator, Reconcile, MigrateRegistryData, ReconcileHAStatus, UpdateStatus,
              Abort, SyncSecret, SyncJob, RegistryData, StartPod, RegistryDataFails, Helm,
              SeaweedDeployed, ChartUpdated, HelmApplies, RegistryFollows, Push
<1> QED
  BY <1>1, <1>2, <1>3

\* The operator never takes the registry on S3 out of the chart list, whatever new
\* installation comes without a condition, whatever calls fail and however stale its
\* caches are; what does is the patch of a command that has read the list before the
\* switch (mergeHelmConfigs, MigrateRegistryData, patchClusterConfigOperatorChart).
THEOREM OnlyACommandTakesS3Out == Spec => OperatorKeepsS3
<1>1. TypeOK /\ SwitchInv /\ [Next]_vars
        => [list.registry = "s3" /\ list'.registry # "s3" =>
               command.step = "patch" /\ command.list.registry # "s3" /\ list' = command.list]_vars
  BY OnlyTheCommand
<1> QED
  BY <1>1, InitType, TypeStep, SwitchInit, SwitchStep, PTL DEF Spec, OperatorKeepsS3

-------------------------------------------------------------------------------
(* The copy                                                                *)

\* What a walk over the files has met is uploaded or yet to be uploaded, until the secret
\* exists; it is uploaded from then on, whatever later attempts do.
CopyInv ==
    /\ ~secret /\ pod.step = "upload" => disk \ late \subseteq s3 \cup pod.todo
    /\ ~secret /\ pod.step = "secret" => disk \ late \subseteq s3
    /\ secret => disk \ late \subseteq s3

LEMMA CopyInit == Init => CopyInv
BY DEF Init, NoPod, CopyInv

\* An attempt of the job, from the walk over the files to the secret.
LEMMA CopyJob ==
    ASSUME TypeOK, CopyInv, RegistryData
    PROVE  CopyInv'
<1> USE DEF AtStep, GoTo, CopyInv
<1>0. pod \in PodType /\ UNCHANGED disk
  BY DEF TypeOK, PodType, RegistryData, StartPod, registryVars
<1>1. CASE StartPod
  BY <1>0, <1>1 DEF StartPod, registryVars, PodType
<1>2. CASE ScaleDown /\ UNCHANGED <<s3, secret, job>>
  <2>1. pod'.step = "upload" /\ pod'.todo = disk /\ (secret => late' = late)
    BY <1>0, <1>2 DEF ScaleDown, PodType
  <2> QED
    BY <1>0, <1>2, <2>1
<1>3. CASE Upload /\ UNCHANGED <<replicas, late, secret, job>>
  <2>1. pod'.step = pod.step /\ s3 \cup pod.todo = s3' \cup pod'.todo /\ s3 \subseteq s3'
    BY <1>0, <1>3 DEF Upload, PodType
  <2> QED
    BY <1>0, <1>3, <2>1
<1>4. CASE Uploaded /\ UNCHANGED <<replicas, late, s3, secret, job>>
  <2>1. pod.step = "upload" /\ pod'.step = "secret" /\ pod.todo = {}
    BY <1>0, <1>4 DEF Uploaded, PodType
  <2> QED
    BY <1>0, <1>4, <2>1
<1>5. CASE CreateSecret /\ UNCHANGED <<replicas, late, s3, job>>
  BY <1>0, <1>5 DEF CreateSecret, PodType
<1>6. CASE Exit /\ UNCHANGED <<replicas, late, s3, secret>>
  BY <1>0, <1>6 DEF Exit, NoPod
<1>7. CASE ScaleUp /\ UNCHANGED <<late, s3, secret, job>>
  BY <1>0, <1>7 DEF ScaleUp, PodType
<1>8. CASE Restart /\ UNCHANGED <<replicas, late, s3, secret>>
  <2>1. pod'.step \in {"scaleDown", "none"}
    <3>1. CASE pod' = NoPod
      BY <3>1 DEF NoPod
    <3>2. CASE pod' = [pod EXCEPT !.step = "scaleDown", !.restarts = @ + 1]
      BY <1>0, <3>2 DEF PodType
    <3> QED
      BY <1>8, <3>1, <3>2 DEF Restart
  <2> QED
    BY <1>0, <1>8, <2>1
<1> QED
  BY <1>1, <1>2, <1>3, <1>4, <1>5, <1>6, <1>7, <1>8 DEF RegistryData

\* A client pushes to the disk while nothing, a walk or the secret is there.
LEMMA CopyPush ==
    ASSUME TypeOK, CopyInv, NEW b \in Blobs, Push(b)
    PROVE  CopyInv'
<1> USE DEF AtStep, CopyInv
<1>0. pod \in PodType /\ secret' = secret
  BY DEF TypeOK, PodType, Push, secretVars
<1>1. CASE PushToS3(b)
  BY <1>0, <1>1 DEF PushToS3
<1>2. CASE PushToDisk(b)
  <2>1. PICK met \in {pod.step = "upload", FALSE} :
            /\ pod' = IF met THEN [pod EXCEPT !.todo = @ \cup {b}] ELSE pod
            /\ late' = IF secret \/ (pod.step \in {"upload", "secret"} /\ ~met)
                       THEN late \cup {b} ELSE late
    BY <1>2 DEF PushToDisk
  <2>2. disk' = disk \cup {b} /\ s3' = s3
    BY <1>2 DEF PushToDisk
  <2>3. CASE met
    <3>1. pod.step = "upload" /\ pod'.step = "upload" /\ pod'.todo = pod.todo \cup {b}
      BY <1>0, <2>1, <2>3 DEF PodType
    <3> QED
      BY <1>0, <2>1, <2>2, <2>3, <3>1
  <2>4. CASE ~met
    <3>1. pod' = pod
      BY <2>1, <2>4
    <3> QED
      BY <1>0, <2>1, <2>2, <2>4, <3>1
  <2> QED
    BY <2>3, <2>4
<1> QED
  BY <1>1, <1>2 DEF Push

LEMMA CopyStep == TypeOK /\ CopyInv /\ [Next]_vars => CopyInv'
<1> SUFFICES ASSUME TypeOK, CopyInv, [Next]_vars PROVE CopyInv'
  OBVIOUS
<1> USE DEF vars, secretVars, jobVars, registryVars, PodUnchanged, CopyInv
<1>0. pod \in PodType
  BY DEF TypeOK, PodType
<1>1. CASE /\ UNCHANGED <<secret, disk, s3, late>>
           /\ pod' = pod \/ pod' = NoPod
  BY <1>1 DEF NoPod
<1>2. CASE MigrateRegistryData
  BY <1>1, <1>2
     DEF MigrateRegistryData, AlreadyMigrated, MigrationComplete, WaitForSeaweed, WaitForJob,
         JobHasFailed, CreateJob, CleanUp, DeleteJob
<1>3. CASE ReconcileHAStatus
  BY <1>1, <1>3 DEF ReconcileHAStatus, NotReadyForHA, HAStatus, CleanUp, DeleteJob
<1>4. CASE Upgrade
  BY <1>1, <1>4 DEF Upgrade, GetExistingClusterConfig, PatchClusterConfig, NewInstallation,
                    CommandFails, CommandVars
<1>5. CASE RegistryData
  BY <1>5, CopyJob
<1>6. CASE RegistryDataFails
  <2>1. pod'.step \in {"scaleUp", "crashed"} /\ UNCHANGED <<secret, disk, s3, late>>
    BY <1>0, <1>6 DEF RegistryDataFails, GoTo, PodType
  <2> QED
    BY <2>1
<1>7. CASE Helm \/ RegistryFollows
  BY <1>1, <1>7 DEF Helm, SeaweedDeployed, ChartUpdated, HelmApplies, RegistryFollows
<1>8. ASSUME NEW b \in Blobs, Push(b) PROVE CopyInv'
  BY <1>8, CopyPush
<1> QED
  BY <1>1, <1>2, <1>3, <1>4, <1>5, <1>6, <1>7, <1>8
     DEF Next, Operator, Reconcile, ReconcileHelmCharts, UpdateStatus, Abort, SyncSecret, SyncJob

\* Nothing that clients pushed before the last walk over the files began, or that this walk
\* met, is missing once the registry is on S3, however many blobs, restarts, failures and
\* installations there are, whether or not the registry stops before the walk, and whatever
\* lists a command writes (RegistryData, MigrateRegistryData).
THEOREM ImagesSurvive == Spec => []ImagesSurviveSwitch
<1>1. Init => TypeOK /\ SwitchInv /\ CopyInv
  BY InitType, SwitchInit, CopyInit
<1>2. TypeOK /\ SwitchInv /\ CopyInv /\ [Next]_vars => TypeOK' /\ SwitchInv' /\ CopyInv'
  BY TypeStep, SwitchStep, CopyStep
<1>3. SwitchInv /\ CopyInv => ImagesSurviveSwitch
  BY DEF SwitchInv, CopyInv, ImagesSurviveSwitch
<1> QED
  BY <1>1, <1>2, <1>3, PTL DEF Spec
===============================================================================
