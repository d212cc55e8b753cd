---------------------------- MODULE K0sServerProofs ----------------------------
(* With one controller, the add-ons of an installation are reconciled only *)
(* while the API server runs the kubernetes version of its release.  The   *)
(* operator concludes that from a copy of a plan, from the absence of one, *)
(* from a state it saved earlier, or from there being one installation     *)
(* only; each of the invariants below justifies one of these.              *)
EXTENDS K0sUpgradeProofs

-------------------------------------------------------------------------------
(* The inductive invariant                                                 *)

HasState(i) == state[i] # ""

\* An obsolete installation is older than one that is not, and the reconcile
\* in progress works on the newest installation with a state.
NewestInv ==
    /\ \A i \in exists : state[i] = "Obsolete" =>
           \E j \in exists : i < j /\ state[j] # "Obsolete"
    /\ rec.step # "idle" =>
        /\ state[rec.in] # "Obsolete"
        /\ \A i \in exists : HasState(i) => i <= rec.in

\* The operator works for its own version only, and overlooks only rollouts
\* that it has started itself.
OperatorInv ==
    /\ rec.step # "idle" => version[rec.in] = operator
    /\ planCache = NoPlan /\ RollsOut(plan) => PlanVersion(plan) = K0s[operator]

\* Until there is a second installation there is no rollout.
FirstInv ==
    /\ 1 \in exists
    /\ exists = {1} => /\ plan # NoPlan => plan.airgap
                       /\ \A n \in Nodes : k0s[n] = Desired(1)

RolledOut(p) == p # NoPlan /\ ~p.airgap /\ p.state = "Completed"

\* A completed rollout has reached every node, and no other one starts before
\* the operator has forgotten it.
RolledOutInv ==
    /\ RolledOut(plan) => \A n \in Nodes : k0s[n] = PlanVersion(plan)
    /\ RolledOut(planCache) => /\ ~RollsOut(plan)
                               /\ \A n \in Nodes : k0s[n] = PlanVersion(planCache)

\* The API server runs the kubernetes version of installation i, and will still
\* run it at the end of the rollout in progress.
OnServer(i) ==
    /\ \A c \in Controllers : k0s[c].kube = Desired(i).kube
    /\ RollsOut(plan) => PlanVersion(plan).kube = Desired(i).kube

\* The state that was saved when the add-ons could not be prepared is taken up
\* again when an ended plan is deleted.
ServerInv ==
    /\ rec.step \in AddonSteps => OnServer(rec.in)
    /\ rec.step = "k0sVersion" /\ rec.state = "KubernetesInstalled" => OnServer(rec.in)
    /\ rec.step = "saveUpgrade" => rec.state # "KubernetesInstalled"
    /\ \A i \in exists :
           IsNewest(i, exists) /\ state[i] = "KubernetesInstalled" => OnServer(i)

-------------------------------------------------------------------------------
(* What a step may do to the operator's view of the plan                   *)

CopyStep ==
    \/ UNCHANGED <<planCache, operator>>
    \/ planCache' = plan /\ UNCHANGED <<plan, k0s, exists>>

LEMMA EveryStepIsACopyStep == [Next]_vars => CopyStep
<1> SUFFICES ASSUME [Next]_vars PROVE CopyStep
  OBVIOUS
<1> USE DEF vars, installVars, planVars, nodeVars, chartVars
<1>1. CASE SyncPlanCache \/ OperatorRollout
  BY <1>1 DEF SyncPlanCache, OperatorRollout, CopyStep
<1>2. CASE Autopilot \/ AutopilotFail
  BY <1>2 DEF Autopilot, AutopilotSchedule, AutopilotUpgradeNode, AutopilotComplete,
              AutopilotFail, AutopilotUnchanged, CopyStep
<1>3. ASSUME NEW i \in Installations, Cli(i) PROVE CopyStep
  <2>1. CliUnchanged
    BY <1>3 DEF Cli, CliBegin, CliEnsurePlan, CliDeletePlan, CliWaitDelete, CliCreatePlan,
                CliWaitPlan, CliPatchOperatorChart, CliWaitForOperatorChart,
                CliCreateInstallation, CliAbort
  <2> QED
    BY <2>1 DEF CliUnchanged, CopyStep
<1>4. CASE \/ Reconcile \/ ReconcileK0sVersion \/ ReconcileHelmCharts \/ UpdateStatus
           \/ DisableOldInstallations \/ ReportInstallationChanges
           \/ ReadClusterConfigFails \/ PrepareAddonsFails \/ Abort \/ HelmApply
           \/ UNCHANGED vars
  BY <1>4 DEF Reconcile, ReconcileK0sVersion, ReconcileHelmCharts, UpdateStatus,
              DisableOldInstallations, ReportInstallationChanges, ReadClusterConfigFails,
              PrepareAddonsFails, Abort, HelmApply, CopyStep
<1> QED
  BY <1>1, <1>2, <1>3, <1>4 DEF Next, OperatorStep

\* A plan that has just been made neither has completed nor, if it is an air
\* gap plan, rolls anything out.
LEMMA NewPlanIsNotRolledOut ==
    ASSUME NEW i \in Installations, NEW a \in BOOLEAN
    PROVE  /\ ~RolledOut(NewPlan(i, a))
           /\ a => ~RollsOut(NewPlan(i, a))
<1>1. "" # "Completed"
  BY Zenon
<1>2. NewPlan(i, a).state # "Completed" /\ NewPlan(i, a).airgap = a
  BY <1>1, NewPlanType, Zenon
<1> QED
  BY <1>2 DEF RolledOut, RollsOut

LEMMA RunningIsNotRolledOut ==
    ASSUME NEW p, Running(p)
    PROVE  ~RolledOut(p)
<1>1. "Completed" \notin {"", "SchedulableWait"}
  BY Zenon
<1> QED
  BY <1>1, Zenon DEF Running, RolledOut

-------------------------------------------------------------------------------
(* The newest installation                                                 *)

LEMMA Stateless ==
    ASSUME ListInv, NEW i \in Installations \ exists
    PROVE  ~HasState(i) /\ state[i] # "Obsolete" /\ state[i] # "KubernetesInstalled"
<1>1. state[i] = ""
  BY DEF ListInv
<1> QED
  BY <1>1, Zenon DEF HasState

LEMMA InitStateless ==
    ASSUME Init, NEW i \in Installations
    PROVE  ~HasState(i) /\ state[i] # "Obsolete" /\ state[i] # "KubernetesInstalled"
<1>1. state[i] = ""
  BY Zenon DEF Init
<1> QED
  BY <1>1, Zenon DEF HasState

LEMMA IdleStep == Idle.step = "idle"
BY DEF Idle

LEMMA InProgress ==
    ASSUME ListInv, rec.step # "idle"
    PROVE  /\ rec.in \in exists /\ rec.items \subseteq exists
           /\ \A i \in rec.items : i <= rec.in
           /\ rec.state # "Obsolete"
<1>1. rec.items \subseteq exists /\ IsNewest(rec.in, rec.items) /\ rec.state # "Obsolete"
  BY Zenon DEF ListInv
<1> QED
  BY <1>1 DEF IsNewest

LEMMA NewestInit == Init => NewestInv
<1> SUFFICES ASSUME Init PROVE NewestInv
  OBVIOUS
<1>1. rec.step = "idle" /\ exists \subseteq Installations
  <2>1. rec.step = "idle"
    BY IdleStep, Zenon DEF Init
  <2> QED
    BY <2>1, InitType DEF TypeOK
<1> QED
  BY <1>1, InitStateless DEF NewestInv

\* A step that saves no state and leaves the reconcile on its installation.
LEMMA KeepsNewest ==
    ASSUME TypeOK, ListInv, NewestInv, state' = state,
           exists \subseteq exists', exists' \subseteq Installations,
           \/ rec'.step = "idle"
           \/ rec.step # "idle" /\ rec'.in = rec.in
    PROVE  NewestInv'
<1>1. \A i \in exists' : HasState(i)' \/ state'[i] = "Obsolete" => i \in exists
  BY Stateless DEF HasState
<1> QED
  BY <1>1 DEF NewestInv, HasState

\* A step that saves the state of the reconcile in progress.
LEMMA SavesNewest ==
    ASSUME TypeOK, ListInv, NewestInv, rec.step # "idle", NEW s \in States \ {"Obsolete"},
           state' = [state EXCEPT ![rec.in] = s], exists' = exists,
           rec'.step = "idle" \/ rec'.in = rec.in
    PROVE  NewestInv'
<1>1. rec.in \in exists /\ exists \subseteq Installations /\ rec.in \in Int
  BY InProgress, ConstantsAssumption DEF ConstantsAssumption, TypeOK, Installations
<1>2. \A i \in exists : state'[i] = IF i = rec.in THEN s ELSE state[i]
  BY <1>1 DEF TypeOK
<1>3. \A i \in exists : i # rec.in /\ HasState(i)' => HasState(i)
  BY <1>2, Zenon DEF HasState
<1>4. \A i \in exists : HasState(i)' => i <= rec.in
  BY <1>1, <1>3 DEF NewestInv
<1>5. \A i \in exists : state'[i] = "Obsolete" => \E j \in exists : i < j /\ state'[j] # "Obsolete"
  BY <1>2 DEF NewestInv
<1> QED
  BY <1>1, <1>2, <1>4, <1>5 DEF NewestInv

\* The newest of the installations that are not obsolete is the newest of all.
LEMMA NewestActiveIsNewest ==
    ASSUME TypeOK, NewestInv, NEW i \in exists, IsNewest(i, ActiveInstallations)
    PROVE  IsNewest(i, exists) /\ state[i] # "Obsolete"
<1>1. state[i] # "Obsolete"
  BY DEF IsNewest, ActiveInstallations
<1>2. \A j \in exists : j \in Int
  BY ConstantsAssumption DEF ConstantsAssumption, TypeOK, Installations
<1>3. ASSUME NEW j \in exists PROVE j <= i
  <2>1. CASE state[j] # "Obsolete"
    BY <2>1 DEF IsNewest, ActiveInstallations
  <2>2. CASE state[j] = "Obsolete"
    <3>1. PICK k \in exists : j < k /\ state[k] # "Obsolete"
      BY <2>2 DEF NewestInv
    <3>2. k <= i
      BY <3>1 DEF IsNewest, ActiveInstallations
    <3> QED
      BY <1>2, <3>1, <3>2
  <2> QED
    BY <2>1, <2>2
<1> QED
  BY <1>1, <1>3 DEF IsNewest

LEMMA ReconcileInPlace ==
    ASSUME TypeOK, ListInv, ReconcileK0sVersion
    PROVE  rec.step = "k0sVersion" /\ (rec'.step = "idle" \/ rec'.in = rec.in)
<1>1. rec.step = "k0sVersion"
  BY DEF ReconcileK0sVersion
<1>2. rec.state # "Obsolete"
  BY <1>1 DEF ListInv
<1> QED
  BY <1>1, <1>2, ReconcileK0sVersionKeepsList, IdleStep

LEMMA NewestStep == TypeOK /\ ListInv /\ NewestInv /\ [Next]_vars => NewestInv'
<1> SUFFICES ASSUME TypeOK, ListInv, NewestInv, [Next]_vars PROVE NewestInv'
  OBVIOUS
<1> USE DEF vars, installVars, planVars, nodeVars, chartVars
<1>0. exists \subseteq Installations /\ exists' \subseteq Installations
  BY TypeStep DEF TypeOK
<1>1. CASE Reconcile
  <2>1. PICK i \in exists : IsNewest(i, ActiveInstallations) /\ (rec' = rec \/ rec'.in = i)
    BY <1>1 DEF Reconcile
  <2>2. IsNewest(i, exists) /\ state[i] # "Obsolete"
    BY <2>1, NewestActiveIsNewest
  <2>3. rec.step = "idle" /\ exists' = exists /\ state' = state
    BY <1>1 DEF Reconcile
  <2> QED
    BY <2>1, <2>2, <2>3 DEF NewestInv, IsNewest, HasState
<1>2. CASE ReconcileK0sVersion
  <2>1. exists' = exists /\ state' = state
    BY <1>2 DEF ReconcileK0sVersion
  <2> QED
    BY <1>0, <1>2, <2>1, ReconcileInPlace, KeepsNewest
<1>3. CASE ReconcileHelmCharts
  <2>1. rec.step = "addons" /\ rec'.in = rec.in /\ exists' = exists /\ state' = state
    BY <1>3 DEF ReconcileHelmCharts, ChartMetadataUnavailable, ChartErrors, ChartsInstalled,
                ChartsPending, InstallCharts, TypeOK
  <2> QED
    BY <1>0, <2>1, KeepsNewest
<1>4. CASE UpdateStatus
  <2>1. /\ rec.step # "idle" /\ rec.state \in States \ {"Obsolete"}
        /\ rec'.step = "idle" \/ rec'.in = rec.in
    BY <1>4, IdleStep DEF UpdateStatus, ListInv, TypeOK
  <2> QED
    BY <1>4, <2>1, SavesNewest DEF UpdateStatus
<1>5. CASE DisableOldInstallations
  <2>1. /\ rec.step # "idle" /\ exists' = exists
        /\ rec'.step = "idle" \/ rec'.in = rec.in
    BY <1>5, IdleStep DEF DisableOldInstallations, TypeOK
  <2>2. PICK updated \in SUBSET OldInstallations :
            state' = [i \in Installations |-> IF i \in updated THEN "Obsolete" ELSE state[i]]
    BY <1>5 DEF DisableOldInstallations
  <2>3. \A i \in exists : i \in Int
    BY <1>0, ConstantsAssumption DEF ConstantsAssumption, Installations
  <2>4. rec.in \in exists /\ rec.in \notin updated /\ \A i \in updated : i < rec.in
    BY <2>1, <2>2, <2>3, InProgress DEF OldInstallations
  <2>5. \A i \in exists : state'[i] = IF i \in updated THEN "Obsolete" ELSE state[i]
    BY <1>0, <2>2
  <2>6. state[rec.in] # "Obsolete" /\ state'[rec.in] # "Obsolete"
    BY <2>1, <2>4, <2>5 DEF NewestInv
  <2>7. \A i \in exists : HasState(i)' => i <= rec.in
    <3> SUFFICES ASSUME NEW i \in exists, HasState(i)' PROVE i <= rec.in
      OBVIOUS
    <3>1. CASE i \in updated
      BY <2>3, <2>4, <3>1
    <3>2. CASE i \notin updated
      BY <2>1, <2>5, <3>2 DEF NewestInv, HasState
    <3> QED
      BY <3>1, <3>2
  <2>8. ASSUME NEW i \in exists, state'[i] = "Obsolete"
        PROVE  \E j \in exists : i < j /\ state'[j] # "Obsolete"
    <3>1. CASE i \in updated
      BY <2>4, <2>6, <3>1
    <3>2. CASE i \notin updated
      <4>1. PICK j \in exists : i < j /\ state[j] # "Obsolete"
        BY <2>5, <2>8, <3>2 DEF NewestInv
      <4>2. CASE j \in updated
        BY <2>3, <2>4, <2>6, <4>1, <4>2
      <4>3. CASE j \notin updated
        BY <2>5, <4>1, <4>3
      <4> QED
        BY <4>2, <4>3
    <3> QED
      BY <3>1, <3>2
  <2> QED
    BY <2>1, <2>6, <2>7, <2>8 DEF NewestInv
<1>6. CASE ReadClusterConfigFails
  <2>1. rec.step # "idle" /\ "Failed" \in States \ {"Obsolete"} /\ rec'.in = rec.in
    BY <1>6 DEF ReadClusterConfigFails, States, TypeOK
  <2> QED
    BY <1>6, <2>1, SavesNewest DEF ReadClusterConfigFails
<1>7. CASE PrepareAddonsFails
  <2>1. rec.step # "idle" /\ rec.state \in States \ {"Obsolete"} /\ rec'.step = "idle"
    BY <1>7, IdleStep DEF PrepareAddonsFails, ListInv, TypeOK
  <2> QED
    BY <1>7, <2>1, SavesNewest DEF PrepareAddonsFails
<1>8. ASSUME NEW i \in Installations, Cli(i) PROVE NewestInv'
  <2>1. exists \subseteq exists' /\ CliUnchanged
    BY <1>8 DEF Cli, CliBegin, CliEnsurePlan, CliDeletePlan, CliWaitDelete, CliCreatePlan,
                CliWaitPlan, CliPatchOperatorChart, CliWaitForOperatorChart,
                CliCreateInstallation, CliAbort
  <2> QED
    BY <1>0, <2>1, KeepsNewest DEF CliUnchanged
<1>9. CASE Autopilot \/ AutopilotFail
  <2>1. AutopilotUnchanged
    BY <1>9 DEF Autopilot, AutopilotSchedule, AutopilotUpgradeNode, AutopilotComplete,
                AutopilotFail
  <2> QED
    BY <1>0, <2>1, KeepsNewest DEF AutopilotUnchanged
<1>10. CASE ReportInstallationChanges \/ Abort \/ OperatorRollout
  BY <1>0, <1>10, IdleStep, KeepsNewest DEF ReportInstallationChanges, Abort, OperatorRollout
<1>11. CASE SyncPlanCache \/ HelmApply \/ UNCHANGED vars
  BY <1>0, <1>11, KeepsNewest DEF SyncPlanCache, HelmApply
<1> QED
  BY <1>1, <1>2, <1>3, <1>4, <1>5, <1>6, <1>7, <1>8, <1>9, <1>10, <1>11 DEF Next, OperatorStep

-------------------------------------------------------------------------------
(* The operator's version and the rollouts that it overlooks               *)

LEMMA OperatorInit == Init => OperatorInv
<1> SUFFICES ASSUME Init PROVE OperatorInv
  OBVIOUS
<1>1. plan = NoPlan /\ rec = Idle
  BY Zenon DEF Init
<1> QED
  BY <1>1, IdleStep DEF OperatorInv, RollsOut, Running

\* A reconcile begins for the running operator's version and ends with it.
LEMMA OperatorIsReconciled ==
    ASSUME TypeOK, ListInv, OperatorInv, [Next]_vars
    PROVE  rec'.step # "idle" => version'[rec'.in] = operator'
<1> USE DEF vars, installVars, planVars, nodeVars, chartVars
<1>0. rec.step # "idle" => version[rec.in] = operator
  BY DEF OperatorInv
<1>1. CASE Reconcile
  BY <1>0, <1>1 DEF Reconcile, NeedsUpgrade
<1>2. CASE ReconcileK0sVersion
  <2>1. UNCHANGED <<version, operator>>
    BY <1>2 DEF ReconcileK0sVersion
  <2> QED
    BY <1>0, <1>2, <2>1, ReconcileInPlace
<1>3. CASE ReconcileHelmCharts
  BY <1>0, <1>3 DEF ReconcileHelmCharts, ChartMetadataUnavailable, ChartErrors,
                    ChartsInstalled, ChartsPending, InstallCharts, TypeOK
<1>4. CASE UpdateStatus \/ DisableOldInstallations \/ ReadClusterConfigFails
  BY <1>0, <1>4, IdleStep DEF UpdateStatus, DisableOldInstallations, ReadClusterConfigFails,
                              TypeOK
<1>5. CASE ReportInstallationChanges \/ PrepareAddonsFails \/ Abort \/ OperatorRollout
  BY <1>5, IdleStep DEF ReportInstallationChanges, PrepareAddonsFails, Abort, OperatorRollout
<1>6. ASSUME NEW i \in Installations, Cli(i) PROVE UNCHANGED <<version, operator, rec>>
  <2>1. CliUnchanged
    BY <1>6 DEF Cli, CliBegin, CliEnsurePlan, CliDeletePlan, CliWaitDelete, CliCreatePlan,
                CliWaitPlan, CliPatchOperatorChart, CliWaitForOperatorChart,
                CliCreateInstallation, CliAbort
  <2> QED
    BY <2>1 DEF CliUnchanged
<1>7. CASE Autopilot \/ AutopilotFail
  <2>1. AutopilotUnchanged
    BY <1>7 DEF Autopilot, AutopilotSchedule, AutopilotUpgradeNode, AutopilotComplete,
                AutopilotFail
  <2> QED
    BY <1>0, <2>1 DEF AutopilotUnchanged
<1>8. CASE SyncPlanCache \/ HelmApply \/ UNCHANGED vars
  BY <1>0, <1>8 DEF SyncPlanCache, HelmApply
<1> QED
  BY <1>0, <1>1, <1>2, <1>3, <1>4, <1>5, <1>6, <1>7, <1>8 DEF Next, OperatorStep

LEMMA OperatorInvStep == TypeOK /\ ListInv /\ OperatorInv /\ [Next]_vars => OperatorInv'
<1> SUFFICES ASSUME TypeOK, ListInv, OperatorInv, [Next]_vars PROVE OperatorInv'
  OBVIOUS
<1>0. PlanStep /\ CopyStep
  BY EveryStepIsAPlanStep, EveryStepIsACopyStep
<1>a. planCache = NoPlan /\ RollsOut(plan) => PlanVersion(plan) = K0s[operator]
  BY DEF OperatorInv
<1>1. planCache' = NoPlan /\ RollsOut(plan') => PlanVersion(plan)' = K0s[operator']
  <2>1. CASE planCache' = plan /\ UNCHANGED plan
    BY <2>1 DEF RollsOut, Running
  <2>2. CASE UNCHANGED <<planCache, operator>>
    <3>1. CASE KeepsPlan
      BY <1>0, <1>a, <2>2, <3>1 DEF PlanStep, KeepsPlan, PlanVersion, Desired
    <3>2. CASE RemovesPlan
      BY <3>2 DEF RemovesPlan, RollsOut, Running
    <3>3. CASE StartsRollout
      <4>1. PlanVersion(plan)' = K0s[version[rec.in]]
        BY <1>0, <3>3, NewPlanType DEF StartsRollout, PlanStep, PlanVersion, Desired
      <4> QED
        BY <2>2, <3>3, <4>1 DEF StartsRollout, OperatorInv
    <3>4. CASE StartsUpload
      BY <3>4, NewPlanIsNotRolledOut DEF StartsUpload
    <3>5. CASE MovesPlan
      BY <1>0, <1>a, <2>2, <3>5, MovedPlan DEF PlanStep, MovesPlan, RollsOut
    <3>6. CASE UpgradesNode
      BY <1>0, <1>a, <2>2, <3>6 DEF PlanStep, UpgradesNode, PlanVersion, Desired
    <3> QED
      BY <1>0, <3>1, <3>2, <3>3, <3>4, <3>5, <3>6 DEF PlanStep
  <2> QED
    BY <1>0, <2>1, <2>2 DEF CopyStep
<1>2. rec'.step # "idle" => version'[rec'.in] = operator'
  BY OperatorIsReconciled
<1> QED
  BY <1>1, <1>2 DEF OperatorInv

-------------------------------------------------------------------------------
(* One installation, no rollout                                            *)

LEMMA FirstInit == Init => FirstInv
<1> SUFFICES ASSUME Init PROVE FirstInv
  OBVIOUS
<1>1. exists = {1} /\ plan = NoPlan /\ k0s = [n \in Nodes |-> K0s[version[1]]]
  BY Zenon DEF Init
<1> QED
  BY <1>1 DEF FirstInv, Desired

LEMMA FirstStep == TypeOK /\ ListInv /\ FirstInv /\ [Next]_vars => FirstInv'
<1> SUFFICES ASSUME TypeOK, ListInv, FirstInv, [Next]_vars PROVE FirstInv'
  OBVIOUS
<1>0. PlanStep
  BY EveryStepIsAPlanStep
<1>1. exists \subseteq exists'
  BY <1>0 DEF PlanStep, KeepsPlan, RemovesPlan, StartsRollout, StartsUpload, MovesPlan,
              UpgradesNode
<1> SUFFICES ASSUME exists' = {1}
             PROVE  (plan' # NoPlan => plan'.airgap) /\ \A n \in Nodes : k0s'[n] = Desired(1)'
  BY <1>1 DEF FirstInv
<1>2. /\ exists = {1}
      /\ plan # NoPlan => plan.airgap
      /\ \A n \in Nodes : k0s[n] = Desired(1)
  BY <1>1 DEF FirstInv
<1>3. Desired(1)' = Desired(1)
  BY <1>0 DEF PlanStep, Desired
<1>4. CASE KeepsPlan
  BY <1>2, <1>3, <1>4 DEF KeepsPlan
<1>5. CASE RemovesPlan
  BY <1>2, <1>3, <1>5 DEF RemovesPlan
<1>6. CASE StartsRollout
  BY <1>2, <1>6, InProgress DEF StartsRollout
<1>7. CASE StartsUpload
  BY <1>2, <1>3, <1>7, NewPlanType DEF StartsUpload
<1>8. CASE MovesPlan
  <2>1. plan # NoPlan /\ UNCHANGED k0s
    BY <1>8 DEF MovesPlan, Running
  <2> QED
    BY <1>0, <1>2, <1>3, <1>8, <2>1, MovedPlan DEF PlanStep
<1>9. CASE UpgradesNode
  BY <1>2, <1>9 DEF UpgradesNode, Running
<1> QED
  BY <1>0, <1>4, <1>5, <1>6, <1>7, <1>8, <1>9 DEF PlanStep

-------------------------------------------------------------------------------
(* Completed rollouts                                                      *)

LEMMA RolledOutInit == Init => RolledOutInv
<1> SUFFICES ASSUME Init PROVE RolledOutInv
  OBVIOUS
<1>1. plan = NoPlan /\ planCache = NoPlan
  BY Zenon DEF Init
<1> QED
  BY <1>1 DEF RolledOutInv, RolledOut

LEMMA RolledOutStep == TypeOK /\ RolledOutInv /\ [Next]_vars => RolledOutInv'
<1> SUFFICES ASSUME TypeOK, RolledOutInv, [Next]_vars PROVE RolledOutInv'
  OBVIOUS
<1>0. PlanStep /\ CopyStep
  BY EveryStepIsAPlanStep, EveryStepIsACopyStep
<1>v. version' = version
  BY <1>0 DEF PlanStep
<1>a. RolledOut(plan) => \A n \in Nodes : k0s[n] = PlanVersion(plan)
  BY DEF RolledOutInv
<1>b. RolledOut(planCache) => ~RollsOut(plan) /\ \A n \in Nodes : k0s[n] = PlanVersion(planCache)
  BY DEF RolledOutInv
<1>c. ~(RolledOut(plan) /\ RollsOut(plan))
  BY RunningIsNotRolledOut DEF RollsOut
<1>1. RolledOut(plan') => \A n \in Nodes : k0s'[n] = PlanVersion(plan)'
  <2>1. CASE KeepsPlan
    BY <1>a, <1>v, <2>1 DEF KeepsPlan, PlanVersion, Desired
  <2>2. CASE RemovesPlan
    BY <2>2 DEF RemovesPlan, RolledOut
  <2>3. CASE StartsRollout \/ StartsUpload
    BY <2>3, NewPlanIsNotRolledOut DEF StartsRollout, StartsUpload
  <2>4. CASE MovesPlan
    <3>1. plan \in Plans /\ UNCHANGED k0s
      BY <2>4, PlanVersionType DEF MovesPlan
    <3>2. plan'.state = "Completed" /\ ~plan.airgap => \A n \in Nodes : k0s[n] = PlanVersion(plan)
      BY <2>4, <3>1 DEF MovesPlan, Plans
    <3> QED
      BY <1>v, <2>4, <3>1, <3>2, MovedPlan DEF RolledOut
  <2>5. CASE UpgradesNode
    BY <1>c, <2>5 DEF UpgradesNode, RollsOut
  <2> QED
    BY <1>0, <2>1, <2>2, <2>3, <2>4, <2>5 DEF PlanStep
<1>2. RolledOut(planCache') =>
          ~RollsOut(plan') /\ \A n \in Nodes : k0s'[n] = PlanVersion(planCache)'
  <2>1. CASE planCache' = plan /\ UNCHANGED <<plan, k0s>>
    BY <1>1, <1>c, <2>1 DEF PlanVersion, Desired
  <2>2. CASE planCache' = planCache
    <3> SUFFICES ASSUME RolledOut(planCache)
                 PROVE  ~RollsOut(plan') /\ \A n \in Nodes : k0s'[n] = PlanVersion(planCache)'
      BY <2>2
    <3>0. PlanVersion(planCache)' = PlanVersion(planCache)
      BY <1>v, <2>2 DEF PlanVersion, Desired
    <3>1. ~RollsOut(plan) /\ \A n \in Nodes : k0s[n] = PlanVersion(planCache)
      BY <1>b
    <3>2. CASE KeepsPlan
      BY <3>0, <3>1, <3>2 DEF KeepsPlan
    <3>3. CASE RemovesPlan
      BY <3>0, <3>1, <3>3 DEF RemovesPlan, RollsOut, Running
    <3>4. CASE StartsRollout
      BY <3>4 DEF StartsRollout, RolledOut
    <3>5. CASE StartsUpload
      BY <3>0, <3>1, <3>5, NewPlanIsNotRolledOut DEF StartsUpload
    <3>6. CASE MovesPlan
      BY <1>v, <3>0, <3>1, <3>6, MovedPlan DEF MovesPlan, RollsOut
    <3>7. CASE UpgradesNode
      BY <3>1, <3>7 DEF UpgradesNode, RollsOut
    <3> QED
      BY <1>0, <3>2, <3>3, <3>4, <3>5, <3>6, <3>7 DEF PlanStep
  <2> QED
    BY <1>0, <2>1, <2>2 DEF CopyStep
<1> QED
  BY <1>1, <1>2 DEF RolledOutInv

-------------------------------------------------------------------------------
(* The API server runs the version of the release                          *)

\* Every step but the start of a rollout.
QuietStep ==
    /\ version' = version
    /\ KeepsPlan \/ RemovesPlan \/ StartsUpload \/ MovesPlan \/ UpgradesNode

LEMMA OnServerStays ==
    ASSUME TypeOK, QuietStep, NEW i \in Installations, OnServer(i)
    PROVE  OnServer(i)'
<1>1. Desired(i)' = Desired(i)
  BY DEF QuietStep, Desired
<1>2. /\ \A c \in Controllers : k0s[c].kube = Desired(i).kube
      /\ RollsOut(plan) => PlanVersion(plan).kube = Desired(i).kube
  BY DEF OnServer
<1>3. CASE KeepsPlan
  BY <1>1, <1>2, <1>3 DEF QuietStep, KeepsPlan, OnServer, PlanVersion, Desired
<1>4. CASE RemovesPlan
  BY <1>1, <1>2, <1>4 DEF RemovesPlan, OnServer, RollsOut, Running
<1>5. CASE StartsUpload
  BY <1>1, <1>2, <1>5, NewPlanIsNotRolledOut DEF StartsUpload, OnServer
<1>6. CASE MovesPlan
  BY <1>1, <1>2, <1>6, MovedPlan DEF QuietStep, MovesPlan, OnServer, RollsOut
<1>7. CASE UpgradesNode
  <2>1. RollsOut(plan) /\ UNCHANGED plan /\ PlanVersion(plan)' = PlanVersion(plan)
    BY <1>7 DEF QuietStep, UpgradesNode, RollsOut, PlanVersion, Desired
  <2>2. \A c \in Controllers : k0s'[c] \in {PlanVersion(plan), k0s[c]}
    BY <1>7 DEF UpgradesNode, TypeOK, Nodes
  <2>3. \A c \in Controllers : k0s'[c].kube = Desired(i).kube
    BY <1>2, <2>1, <2>2
  <2> QED
    BY <1>1, <1>2, <2>1, <2>3 DEF OnServer
<1> QED
  BY <1>3, <1>4, <1>5, <1>6, <1>7 DEF QuietStep

LEMMA ServerInit == Init => ServerInv
<1> SUFFICES ASSUME Init PROVE ServerInv
  OBVIOUS
<1>1. rec.step = "idle"
  BY IdleStep, Zenon DEF Init
<1>2. exists \subseteq Installations
  BY InitType DEF TypeOK
<1> QED
  BY <1>1, <1>2, InitStateless DEF ServerInv, AddonSteps

\* A step of somebody else, or the end of a reconcile.
LEMMA KeepsServer ==
    ASSUME TypeOK, ListInv, ServerInv, QuietStep, UNCHANGED state,
           exists \subseteq exists', exists' \subseteq Installations,
           rec' = rec \/ rec'.step = "idle"
    PROVE  ServerInv'
<1>1. ASSUME NEW i \in exists', IsNewest(i, exists'), state[i] = "KubernetesInstalled"
      PROVE  OnServer(i)'
  <2>1. i \in exists
    BY <1>1, Stateless
  <2>2. OnServer(i)
    BY <1>1, <2>1 DEF ServerInv, IsNewest
  <2> QED
    BY <2>2, OnServerStays
<1>2. rec.in \in Installations
  BY DEF TypeOK
<1> QED
  BY <1>1, <1>2, OnServerStays DEF ServerInv, AddonSteps

\* A step that saves the state of the reconcile in progress.
LEMMA SavesServer ==
    ASSUME TypeOK, ListInv, ServerInv, QuietStep, rec.step # "idle", NEW s \in States,
           state' = [state EXCEPT ![rec.in] = s], exists' = exists,
           s = "KubernetesInstalled" => rec.step \in AddonSteps,
           \/ rec'.step \in {"idle", "disableFailed"}
           \/ rec.step \in AddonSteps /\ rec'.in = rec.in /\ rec'.step = "disable"
    PROVE  ServerInv'
<1>0. rec.in \in Installations /\ exists \subseteq Installations
  BY DEF TypeOK
<1>1. ASSUME NEW i \in exists', IsNewest(i, exists'), state'[i] = "KubernetesInstalled"
      PROVE  OnServer(i)'
  <2>1. OnServer(i)
    <3>1. CASE i = rec.in
      BY <1>0, <1>1, <3>1 DEF ServerInv, TypeOK
    <3>2. CASE i # rec.in
      BY <1>0, <1>1, <3>2 DEF ServerInv, TypeOK, IsNewest
    <3> QED
      BY <3>1, <3>2
  <2> QED
    BY <1>0, <2>1, OnServerStays
<1>2. rec'.step # "k0sVersion" /\ rec'.step # "saveUpgrade"
  OBVIOUS
<1>3. ASSUME rec'.step \in AddonSteps PROVE OnServer(rec.in)'
  <2>1. rec'.in = rec.in /\ rec.step \in AddonSteps
    BY <1>3 DEF AddonSteps
  <2>2. PICK i \in Installations : i = rec.in
    BY <1>0
  <2>3. OnServer(i)'
    BY <2>1, <2>2, OnServerStays DEF ServerInv
  <2> QED
    BY <2>1, <2>2, <2>3 DEF OnServer, Desired
<1> QED
  BY <1>1, <1>2, <1>3 DEF ServerInv

LEMMA SingleServer ==
    ASSUME SingleController, TypeOK, NEW c \in Controllers
    PROVE  ServerVersions = {k0s[c].kube}
BY SingleController DEF ServerVersions, SingleController

\* What ReconcileK0sVersion may lead to.
Concludes ==
    /\ rec'.step \in {"idle", "addons", "saveUpgrade"}
    /\ rec'.step = "addons" =>
           OnServer(rec.in) /\ rec'.in = rec.in /\ plan' \in {plan, NoPlan}
    /\ rec'.step = "saveUpgrade" => rec'.state # "KubernetesInstalled"

LEMMA Decided ==
    ASSUME TypeOK, NEW s \in States, Decide(s), plan' \in {plan, NoPlan},
           s = "KubernetesInstalled" => OnServer(rec.in)
    PROVE  Concludes
<1>1. /\ rec'.in = rec.in /\ rec'.state = s
      /\ rec'.step = IF s = "KubernetesInstalled" THEN "addons" ELSE "saveUpgrade"
  BY DEF TypeOK, Decide
<1> QED
  BY <1>1 DEF Concludes

LEMMA NamesOfStates ==
    /\ {"Enqueued", "Installing", "Failed", "Waiting", "KubernetesInstalled"} \subseteq States
    /\ "KubernetesInstalled" \notin {"Enqueued", "Installing", "Failed", "Waiting"}
BY Zenon DEF States

LEMMA SingleInstallationConcludes ==
    ASSUME TypeOK, FirstInv, SingleInstallation
    PROVE  Concludes
<1>1. rec.in = 1 /\ exists = {1}
  BY DEF SingleInstallation, HasOnlyOneInstallation, FirstInv
<1>2. OnServer(rec.in)
  BY <1>1 DEF FirstInv, OnServer, RollsOut, Running, Nodes
<1> QED
  BY <1>2, NamesOfStates, Decided DEF SingleInstallation

\* The server runs the release that the operator wants, and so does a rollout
\* that it knows nothing of.
LEMMA UpToDateConcludes ==
    ASSUME SingleController, TypeOK, OperatorInv, rec.step # "idle", K0sUpToDate
    PROVE  Concludes
<1>1. PICK c \in Controllers : Controllers = {c}
  BY SingleController DEF SingleController
<1>2. ServerVersions = {k0s[c].kube}
  BY <1>1, SingleServer, SingleController
<1>3. k0s[c].kube \in Nat /\ Desired(rec.in).kube \in Nat
  BY ServerVersionsType, DesiredType DEF TypeOK
<1>4. k0s[c].kube = Desired(rec.in).kube
  BY <1>2, <1>3 DEF K0sUpToDate, NotADowngrade, ShouldUpgradeK0s
<1>5. RollsOut(plan) => PlanVersion(plan) = Desired(rec.in)
  BY DEF K0sUpToDate, OperatorInv, Desired
<1>6. OnServer(rec.in)
  BY <1>1, <1>4, <1>5 DEF OnServer
<1> QED
  BY <1>6, NamesOfStates, Decided DEF K0sUpToDate

LEMMA PlanConcludes ==
    ASSUME TypeOK, RolledOutInv, SetStateBasedOnPlan
    PROVE  Concludes
<1>1. planCache \in Plans
  BY DEF SetStateBasedOnPlan, TypeOK
<1>2. StateBasedOnPlan(planCache) \in States
  BY <1>1, StateBasedOnPlanType
<1>3. StateBasedOnPlan(planCache) = "KubernetesInstalled" => planCache.state = "Completed"
  BY <1>1, Zenon DEF StateBasedOnPlan
<1>4. planCache # NoPlan /\ ~planCache.airgap /\ PlanVersion(planCache) = Desired(rec.in)
  BY DEF SetStateBasedOnPlan, IsPlanOf, IsAutopilotUpgradeToVersion
<1>5. planCache.state = "Completed" => OnServer(rec.in)
  BY <1>4 DEF RolledOut, RolledOutInv, OnServer, Nodes
<1> QED
  BY <1>2, <1>3, <1>5, Decided DEF SetStateBasedOnPlan

LEMMA ReconcileConcludes ==
    ASSUME SingleController, TypeOK, OperatorInv, FirstInv, RolledOutInv, ServerInv,
           ReconcileK0sVersion
    PROVE  Concludes
<1>1. rec.step = "k0sVersion" /\ rec.state \in States
  BY DEF ReconcileK0sVersion, TypeOK
<1>2. CASE SingleInstallation
  BY <1>2, SingleInstallationConcludes
<1>3. CASE MetadataUnavailable \/ RefuseDowngrade \/ WaitForOtherPlan
  BY <1>3, NamesOfStates, Decided DEF MetadataUnavailable, RefuseDowngrade, WaitForOtherPlan
<1>4. CASE StartAutopilotUpgrade
  <2>1. CASE Decide("Enqueued")
    BY <2>1, NamesOfStates DEF TypeOK, Decide, Concludes
  <2>2. CASE rec' = Idle
    BY <2>2, IdleStep DEF Concludes
  <2> QED
    BY <1>4, <2>1, <2>2 DEF StartAutopilotUpgrade
<1>5. CASE K0sUpToDate
  BY <1>1, <1>5, UpToDateConcludes, SingleController
<1>6. CASE SetStateBasedOnPlan
  BY <1>6, PlanConcludes
<1>7. CASE DeleteEndedPlan
  <2>1. CASE plan' = NoPlan /\ Decide(rec.state)
    BY <1>1, <2>1, Decided DEF ServerInv
  <2>2. CASE rec' = Idle
    BY <2>2, IdleStep DEF Concludes
  <2> QED
    BY <1>7, <2>1, <2>2 DEF DeleteEndedPlan
<1> QED
  BY <1>2, <1>3, <1>4, <1>5, <1>6, <1>7 DEF ReconcileK0sVersion

\* A rollout that starts is one of the newest installation with a state.
LEMMA RolloutKeepsServer ==
    ASSUME TypeOK, ListInv, NewestInv, PlanStep, StartsRollout,
           NEW i \in exists, IsNewest(i, exists), HasState(i), OnServer(i)
    PROVE  OnServer(i)'
<1>1. rec.in \in exists /\ i <= rec.in /\ rec.in <= i
  BY InProgress DEF StartsRollout, NewestInv, IsNewest
<1>2. i = rec.in
  BY <1>1, ConstantsAssumption DEF ConstantsAssumption, TypeOK, Installations
<1>3. i \in Installations /\ Desired(i)' = Desired(i) /\ PlanVersion(plan)' = Desired(i)
  BY <1>2, NewPlanType DEF PlanStep, StartsRollout, PlanVersion, Desired, TypeOK
<1> QED
  BY <1>3 DEF StartsRollout, OnServer

LEMMA ReconcileKeepsServer ==
    ASSUME SingleController, TypeOK, ListInv, NewestInv, OperatorInv, FirstInv, RolledOutInv,
           ServerInv, ReconcileK0sVersion, PlanStep
    PROVE  ServerInv'
<1>1. Concludes
  BY ReconcileConcludes, SingleController
<1>2. UNCHANGED <<exists, state, k0s>> /\ rec.in \in Installations /\ exists \subseteq Installations
  BY DEF ReconcileK0sVersion, nodeVars, installVars, TypeOK
<1>3. ASSUME NEW i \in exists, IsNewest(i, exists), state[i] = "KubernetesInstalled"
      PROVE  OnServer(i)'
  <2>1. HasState(i)
    BY <1>3, Zenon DEF HasState
  <2>2. OnServer(i)
    BY <1>3 DEF ServerInv
  <2> QED
    BY <1>2, <1>3, <2>1, <2>2, RolloutKeepsServer, OnServerStays DEF PlanStep, QuietStep
<1>4. ASSUME rec'.step = "addons" PROVE OnServer(rec.in)'
  <2>1. OnServer(rec.in) /\ rec'.in = rec.in /\ plan' \in {plan, NoPlan}
    BY <1>1, <1>4 DEF Concludes
  <2>2. QuietStep
    BY <1>2, <2>1 DEF QuietStep, PlanStep, KeepsPlan, RemovesPlan
  <2>3. PICK i \in Installations : i = rec.in
    BY <1>2
  <2>4. OnServer(i)'
    BY <2>1, <2>2, <2>3, OnServerStays
  <2> QED
    BY <2>1, <2>3, <2>4 DEF OnServer, Desired
<1>5. rec'.step \in AddonSteps => rec'.step = "addons"
  BY <1>1 DEF Concludes, AddonSteps
<1> QED
  BY <1>1, <1>2, <1>3, <1>4, <1>5 DEF ServerInv, Concludes, IsNewest

LEMMA ServerStep ==
    ASSUME SingleController
    PROVE  /\ TypeOK /\ ListInv /\ NewestInv /\ OperatorInv /\ FirstInv /\ RolledOutInv
           /\ ServerInv /\ [Next]_vars
           => ServerInv'
<1> SUFFICES ASSUME TypeOK, ListInv, NewestInv, OperatorInv, FirstInv, RolledOutInv, ServerInv,
                    [Next]_vars
             PROVE  ServerInv'
  OBVIOUS
<1> USE DEF vars, installVars, planVars, nodeVars, chartVars
<1>0. /\ exists \subseteq Installations /\ exists' \subseteq Installations
      /\ rec.in \in Installations /\ PlanStep /\ version' = version
  BY TypeStep, EveryStepIsAPlanStep DEF TypeOK, PlanStep
<1>q. ASSUME UNCHANGED <<plan, k0s, exists>> PROVE QuietStep
  BY <1>0, <1>q DEF QuietStep, KeepsPlan
<1>1. CASE Reconcile
  <2>1. UNCHANGED <<plan, k0s, exists, state>> /\ rec.step = "idle"
    BY <1>1 DEF Reconcile
  <2>2. CASE rec' = rec
    BY <1>0, <1>q, <2>1, <2>2, KeepsServer
  <2>3. ASSUME NEW i \in exists, IsNewest(i, ActiveInstallations), rec'.in = i,
               rec'.step = "k0sVersion", rec'.state = state[i]
        PROVE  ServerInv'
    <3>1. IsNewest(i, exists)
      BY <2>3, NewestActiveIsNewest
    <3>2. rec'.state = "KubernetesInstalled" => OnServer(i)
      BY <2>3, <3>1 DEF ServerInv
    <3>3. rec'.state = "KubernetesInstalled" => OnServer(i)'
      BY <1>0, <1>q, <2>1, <3>2, OnServerStays
    <3>4. \A j \in exists : IsNewest(j, exists) /\ state[j] = "KubernetesInstalled" => OnServer(j)'
      BY <1>0, <1>q, <2>1, OnServerStays DEF ServerInv
    <3>5. rec'.state = "KubernetesInstalled" => OnServer(rec.in)'
      BY <2>3, <3>3 DEF OnServer, Desired
    <3> QED
      BY <2>1, <2>3, <3>4, <3>5 DEF ServerInv, AddonSteps, IsNewest
  <2> QED
    BY <1>1, <2>2, <2>3 DEF Reconcile
<1>2. CASE ReconcileK0sVersion
  BY <1>0, <1>2, ReconcileKeepsServer, SingleController
<1>3. CASE ReconcileHelmCharts
  <2>1. /\ rec.step = "addons" /\ rec'.in = rec.in /\ rec'.step = "saveFinal"
        /\ UNCHANGED <<plan, k0s, exists, state>>
    BY <1>3 DEF ReconcileHelmCharts, ChartMetadataUnavailable, ChartErrors, ChartsInstalled,
                ChartsPending, InstallCharts, TypeOK
  <2>2. OnServer(rec.in)'
    <3>1. PICK i \in Installations : i = rec.in
      BY <1>0
    <3>2. OnServer(i)'
      BY <1>q, <2>1, <3>1, OnServerStays DEF ServerInv, AddonSteps
    <3> QED
      BY <2>1, <3>1, <3>2 DEF OnServer, Desired
  <2>3. \A j \in exists : IsNewest(j, exists) /\ state[j] = "KubernetesInstalled" => OnServer(j)'
    BY <1>0, <1>q, <2>1, OnServerStays DEF ServerInv
  <2> QED
    BY <2>1, <2>2, <2>3 DEF ServerInv, IsNewest
<1>4. CASE UpdateStatus
  <2>1. QuietStep /\ rec.state \in States /\ rec.step \in {"saveUpgrade", "saveFinal"}
    BY <1>4, <1>q DEF UpdateStatus, TypeOK
  <2>2. rec.state = "KubernetesInstalled" => rec.step \in AddonSteps
    BY <2>1 DEF ServerInv, AddonSteps
  <2>3. \/ rec'.step \in {"idle", "disableFailed"}
        \/ rec.step \in AddonSteps /\ rec'.in = rec.in /\ rec'.step = "disable"
    BY <1>4, IdleStep DEF UpdateStatus, AddonSteps, TypeOK
  <2> QED
    BY <1>4, <2>1, <2>2, <2>3, SavesServer DEF UpdateStatus
<1>5. CASE DisableOldInstallations
  <2>1. QuietStep /\ exists' = exists
    BY <1>5, <1>q DEF DisableOldInstallations
  <2>2. \A i \in exists : state'[i] \in {"Obsolete", state[i]}
    BY <1>0, <1>5 DEF DisableOldInstallations
  <2>3. \A j \in exists : IsNewest(j, exists) /\ state'[j] = "KubernetesInstalled" => OnServer(j)'
    BY <1>0, <2>1, <2>2, OnServerStays DEF ServerInv
  <2>4. CASE rec' = Idle
    BY <2>1, <2>3, <2>4, IdleStep DEF ServerInv, AddonSteps, IsNewest
  <2>5. CASE rec.step = "disable" /\ rec' = [rec EXCEPT !.step = "report"]
    <3>1. rec'.in = rec.in /\ rec'.step = "report"
      BY <2>5 DEF TypeOK
    <3>2. PICK i \in Installations : i = rec.in
      BY <1>0
    <3>3. OnServer(i)'
      BY <2>1, <2>5, <3>2, OnServerStays DEF ServerInv, AddonSteps
    <3>4. OnServer(rec.in)'
      BY <3>1, <3>2, <3>3 DEF OnServer, Desired
    <3> QED
      BY <2>1, <2>3, <3>1, <3>4 DEF ServerInv, IsNewest
  <2> QED
    BY <1>5, <2>4, <2>5 DEF DisableOldInstallations
<1>6. CASE ReadClusterConfigFails
  <2>1. QuietStep /\ "Failed" \in States /\ rec.step # "idle" /\ rec'.step = "disableFailed"
    BY <1>6, <1>q, NamesOfStates DEF ReadClusterConfigFails, TypeOK
  <2> QED
    BY <1>6, <2>1, SavesServer DEF ReadClusterConfigFails
<1>7. CASE PrepareAddonsFails
  <2>1. /\ QuietStep /\ rec.state \in States /\ rec.step # "idle"
        /\ rec.step \in AddonSteps /\ rec'.step = "idle"
    BY <1>7, <1>q, IdleStep DEF PrepareAddonsFails, AddonSteps, TypeOK
  <2> QED
    BY <1>7, <2>1, SavesServer DEF PrepareAddonsFails
<1>8. ASSUME NEW i \in Installations, Cli(i) PROVE ServerInv'
  <2>1. exists \subseteq exists' /\ CliUnchanged
    BY <1>8 DEF Cli, CliBegin, CliEnsurePlan, CliDeletePlan, CliWaitDelete, CliCreatePlan,
                CliWaitPlan, CliPatchOperatorChart, CliWaitForOperatorChart,
                CliCreateInstallation, CliAbort
  <2>2. QuietStep
    BY <1>0, <1>8, CliPlan DEF QuietStep
  <2> QED
    BY <1>0, <2>1, <2>2, KeepsServer DEF CliUnchanged
<1>9. CASE Autopilot \/ AutopilotFail
  <2>1. AutopilotUnchanged
    BY <1>9 DEF Autopilot, AutopilotSchedule, AutopilotUpgradeNode, AutopilotComplete,
                AutopilotFail
  <2>2. QuietStep
    BY <1>0, <1>9, AutopilotPlan DEF QuietStep
  <2> QED
    BY <1>0, <2>1, <2>2, KeepsServer DEF AutopilotUnchanged
<1>10. CASE ReportInstallationChanges \/ Abort \/ OperatorRollout
  BY <1>0, <1>10, <1>q, IdleStep, KeepsServer
     DEF ReportInstallationChanges, Abort, OperatorRollout
<1>11. CASE SyncPlanCache \/ HelmApply \/ UNCHANGED vars
  BY <1>0, <1>11, <1>q, KeepsServer DEF SyncPlanCache, HelmApply
<1> QED
  BY <1>1, <1>2, <1>3, <1>4, <1>5, <1>6, <1>7, <1>8, <1>9, <1>10, <1>11 DEF Next, OperatorStep

\* With one controller, the add-ons of an installation are reconciled, and its
\* success is reported, only while the API server runs the kubernetes version
\* of its release: however stale the operator's copy of the plan is, whatever
\* fails, and however upgrades overlap.
THEOREM AddonsFollowTheServer ==
    ASSUME SingleController
    PROVE  Spec => []AddonsOnDesiredServer
<1>1. ServerInv => AddonsOnDesiredServer
  BY DEF ServerInv, OnServer, AddonsOnDesiredServer
<1>2. /\ TypeOK /\ ListInv /\ NewestInv /\ OperatorInv /\ FirstInv /\ RolledOutInv
      /\ ServerInv /\ [Next]_vars
      => ServerInv'
  BY ServerStep, SingleController
<1>3. Spec => [](TypeOK /\ ListInv)
  BY TypeCorrect, ListInit, ListStep, PTL DEF Spec
<1>4. Spec => [](NewestInv /\ OperatorInv /\ FirstInv /\ RolledOutInv)
  BY <1>3, NewestInit, NewestStep, OperatorInit, OperatorInvStep, FirstInit, FirstStep,
     RolledOutInit, RolledOutStep, PTL DEF Spec
<1> QED
  BY <1>1, <1>2, <1>3, <1>4, ServerInit, PTL DEF Spec
===============================================================================
