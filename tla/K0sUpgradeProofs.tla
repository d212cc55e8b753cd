--------------------------- MODULE K0sUpgradeProofs ---------------------------
(* Theorems about K0sUpgrade for every value of its constants.             *)
EXTENDS K0sUpgrade, TLAPS

-------------------------------------------------------------------------------
(* Type correctness                                                        *)

\* The state that a plan puts an installation in is one of its states, and is
\* never the one that hides the installation from Reconcile.
LEMMA StateBasedOnPlanType ==
    ASSUME NEW p \in Plans
    PROVE  StateBasedOnPlan(p) \in States \ {"Obsolete"}
BY DEF Plans, PlanStates, StateBasedOnPlan, States

LEMMA DesiredType ==
    ASSUME TypeOK, NEW i \in Installations
    PROVE  /\ Desired(i) \in K0sVersions
           /\ Desired(i).kube \in Nat
           /\ Desired(i).build \in Nat
BY ConstantsAssumption DEF ConstantsAssumption, TypeOK, Desired, K0sVersions

LEMMA NewPlanType ==
    ASSUME NEW i \in Installations, NEW a \in BOOLEAN
    PROVE  /\ NewPlan(i, a) \in Plans
           /\ NewPlan(i, a) # NoPlan
           /\ NewPlan(i, a).owner = i
           /\ NewPlan(i, a).airgap = a
           /\ NewPlan(i, a).state = ""
<1>1. NewPlan(i, a) \in Plans
  BY DEF NewPlan, Plans, PlanStates
<1>2. NewPlan(i, a) # NoPlan
  BY <1>1, ConstantsAssumption DEF ConstantsAssumption
<1> QED
  BY <1>1, <1>2 DEF NewPlan

RecType == [step : RecSteps, in : Installations, items : SUBSET Installations,
            state : States, before : States]

LEMMA DecideType ==
    ASSUME TypeOK, NEW s \in States, Decide(s)
    PROVE  /\ rec' \in RecType
           /\ rec'.in = rec.in
           /\ rec'.items = rec.items
           /\ rec'.state = s
           /\ rec'.step \in {"addons", "saveUpgrade"}
BY DEF TypeOK, RecType, Decide, RecSteps

LEMMA IdleType == Idle \in RecType /\ Idle.step = "idle"
BY ConstantsAssumption DEF ConstantsAssumption, Idle, RecType, RecSteps, States, Installations

LEMMA InitType == Init => TypeOK
<1> SUFFICES ASSUME Init PROVE TypeOK
  OBVIOUS
<1>1. 1 \in Installations
  BY ConstantsAssumption DEF ConstantsAssumption, Installations
<1>2. version[1] \in Versions /\ K0s[version[1]] \in K0sVersions
  BY <1>1 DEF Init, K0sVersions
<1>3. rec \in RecType
  BY IdleType DEF Init
<1>4. state \in [Installations -> States] /\ cli \in [Installations -> CliSteps]
  BY DEF Init, States, CliSteps
<1>5. k0s \in [Nodes -> K0sVersions]
  BY <1>2 DEF Init
<1>6. exists \in SUBSET Installations /\ images \in SUBSET Installations
  BY <1>1 DEF Init
<1>7. plan \in Plans \cup {NoPlan} /\ planCache \in Plans \cup {NoPlan}
  BY DEF Init
<1>8. operatorChart \in Versions /\ chartApplied \in Versions /\ operator \in Versions
  BY <1>2 DEF Init
<1>9. version \in [Installations -> Versions]
  BY DEF Init
<1>10. sent \in SUBSET Events
  BY DEF Init
<1>11. faults \in 0..MaxFaults
  <2>1. 0 \in 0..MaxFaults
    BY ConstantsAssumption DEF ConstantsAssumption
  <2> QED
    BY <2>1 DEF Init
<1> QED
  BY <1>3, <1>4, <1>5, <1>6, <1>7, <1>8, <1>9, <1>10, <1>11 DEF TypeOK, RecType
-------------------------------------------------------------------------------
LEMMA FaultType ==
    ASSUME TypeOK, Fault
    PROVE  faults' \in 0..MaxFaults
BY ConstantsAssumption DEF TypeOK, Fault, ConstantsAssumption

\* One step of the actions that a reconcile consists of.
LEMMA ReconcileK0sVersionType ==
    ASSUME TypeOK, ReconcileK0sVersion
    PROVE  /\ rec' \in RecType
           /\ plan' \in Plans \cup {NoPlan}
           /\ faults' \in 0..MaxFaults
<1> USE DEF ReconcileK0sVersion
<1>0. rec.in \in Installations /\ rec.state \in States
  BY DEF TypeOK
<1>1. CASE SingleInstallation
  BY <1>1, DecideType DEF SingleInstallation, TypeOK, States
<1>2. CASE MetadataUnavailable
  BY <1>2, DecideType, FaultType DEF MetadataUnavailable, TypeOK, States
<1>3. CASE RefuseDowngrade
  BY <1>3, DecideType DEF RefuseDowngrade, TypeOK, States
<1>4. CASE StartAutopilotUpgrade
  BY <1>0, <1>4, DecideType, IdleType, NewPlanType
     DEF StartAutopilotUpgrade, NotADowngrade, TypeOK, States
<1>5. CASE K0sUpToDate
  BY <1>5, DecideType DEF K0sUpToDate, NotADowngrade, TypeOK, States
<1>6. CASE SetStateBasedOnPlan
  <2>1. planCache \in Plans
    BY <1>6 DEF SetStateBasedOnPlan, TypeOK
  <2> QED
    BY <1>6, <2>1, DecideType, StateBasedOnPlanType
       DEF SetStateBasedOnPlan, NotADowngrade, TypeOK
<1>7. CASE WaitForOtherPlan
  BY <1>7, DecideType DEF WaitForOtherPlan, NotADowngrade, TypeOK, States
<1>8. CASE DeleteEndedPlan
  BY <1>0, <1>8, DecideType, IdleType DEF DeleteEndedPlan, NotADowngrade, TypeOK
<1> QED
  BY <1>1, <1>2, <1>3, <1>4, <1>5, <1>6, <1>7, <1>8

LEMMA TypeStep == TypeOK /\ [Next]_vars => TypeOK'
<1> SUFFICES ASSUME TypeOK, [Next]_vars PROVE TypeOK'
  OBVIOUS
<1> USE DEF vars, installVars, planVars, nodeVars, chartVars
<1>1. CASE Reconcile
  BY <1>1 DEF Reconcile, TypeOK, ActiveInstallations, RecSteps
<1>2. CASE ReconcileK0sVersion
  BY <1>2, ReconcileK0sVersionType DEF ReconcileK0sVersion, TypeOK, RecType
<1>3. CASE ReconcileHelmCharts
  <2>0. version[rec.in] \in Versions
    BY DEF TypeOK
  <2>1. rec' \in RecType /\ operatorChart' \in Versions /\ faults' \in 0..MaxFaults
    <3>1. CASE ChartErrors
      BY <3>1 DEF ChartErrors, TypeOK, RecType, RecSteps, States
    <3>2. CASE ChartsInstalled
      BY <3>2 DEF ChartsInstalled, TypeOK, RecType, RecSteps, States
    <3>3. CASE ChartsPending
      BY <3>3 DEF ChartsPending, TypeOK, RecType, RecSteps, States
    <3>4. CASE InstallCharts
      BY <2>0, <3>4 DEF InstallCharts, TypeOK, RecType, RecSteps, States
    <3>5. CASE ChartMetadataUnavailable
      BY <3>5, FaultType DEF ChartMetadataUnavailable, TypeOK, RecType, RecSteps, States
    <3> QED
      BY <1>3, <3>1, <3>2, <3>3, <3>4, <3>5 DEF ReconcileHelmCharts
  <2> QED
    BY <1>3, <2>1 DEF ReconcileHelmCharts, TypeOK, RecType
<1>4. CASE UpdateStatus
  <2>1. rec' \in RecType /\ state' \in [Installations -> States]
    BY <1>4, IdleType DEF UpdateStatus, TypeOK, RecType, RecSteps
  <2> QED
    BY <1>4, <2>1 DEF UpdateStatus, TypeOK, RecType
<1>5. CASE DisableOldInstallations
  <2>1. rec' \in RecType
    BY <1>5, IdleType DEF DisableOldInstallations, TypeOK, RecType, RecSteps
  <2>2. state' \in [Installations -> States]
    BY <1>5 DEF DisableOldInstallations, TypeOK, States
  <2>3. faults' \in 0..MaxFaults
    BY <1>5, FaultType DEF DisableOldInstallations, TypeOK
  <2> QED
    BY <1>5, <2>1, <2>2, <2>3 DEF DisableOldInstallations, TypeOK, RecType
<1>6. CASE ReportInstallationChanges
  <2>1. EventFor(rec.state) \subseteq Events
    BY DEF TypeOK, EventFor, Events
  <2>2. sent' \in SUBSET Events
    BY <1>6, <2>1 DEF ReportInstallationChanges, TypeOK
  <2> QED
    BY <1>6, <2>2, IdleType DEF ReportInstallationChanges, TypeOK, RecType
<1>7. CASE ReadClusterConfigFails
  <2>1. rec' \in RecType /\ state' \in [Installations -> States]
    BY <1>7 DEF ReadClusterConfigFails, TypeOK, RecType, RecSteps, States
  <2> QED
    BY <1>7, <2>1, FaultType DEF ReadClusterConfigFails, TypeOK, RecType
<1>8. CASE PrepareAddonsFails
  BY <1>8, IdleType, FaultType DEF PrepareAddonsFails, TypeOK, RecType
<1>9. CASE Abort
  BY <1>9, IdleType, FaultType DEF Abort, TypeOK, RecType
<1>10. CASE SyncPlanCache
  BY <1>10 DEF SyncPlanCache, TypeOK
<1>11. ASSUME NEW i \in Installations, Cli(i) PROVE TypeOK'
  <2> USE DEF CliUnchanged, GoTo
  <2>1. cli' \in [Installations -> CliSteps]
    BY <1>11 DEF Cli, CliBegin, CliEnsurePlan, CliDeletePlan, CliWaitDelete, CliCreatePlan,
                 CliWaitPlan, CliPatchOperatorChart, CliWaitForOperatorChart,
                 CliCreateInstallation, CliAbort, TypeOK, CliSteps
  <2>2. plan' \in Plans \cup {NoPlan}
    BY <1>11, NewPlanType
       DEF Cli, CliBegin, CliEnsurePlan, CliDeletePlan, CliWaitDelete, CliCreatePlan,
           CliWaitPlan, CliPatchOperatorChart, CliWaitForOperatorChart,
           CliCreateInstallation, CliAbort, TypeOK
  <2>0. version[i] \in Versions /\ exists \cup {i} \in SUBSET Installations
    BY DEF TypeOK
  <2>3. operatorChart' \in Versions /\ exists' \in SUBSET Installations
    BY <1>11, <2>0 DEF Cli, CliBegin, CliEnsurePlan, CliDeletePlan, CliWaitDelete, CliCreatePlan,
                 CliWaitPlan, CliPatchOperatorChart, CliWaitForOperatorChart,
                 CliCreateInstallation, CliAbort, TypeOK
  <2>4. faults' \in 0..MaxFaults
    BY <1>11, FaultType
       DEF Cli, CliBegin, CliEnsurePlan, CliDeletePlan, CliWaitDelete, CliCreatePlan,
           CliWaitPlan, CliPatchOperatorChart, CliWaitForOperatorChart,
           CliCreateInstallation, CliAbort, TypeOK
  <2>5. CliUnchanged
    BY <1>11 DEF Cli, CliBegin, CliEnsurePlan, CliDeletePlan, CliWaitDelete, CliCreatePlan,
                 CliWaitPlan, CliPatchOperatorChart, CliWaitForOperatorChart,
                 CliCreateInstallation, CliAbort
  <2> QED
    BY <2>1, <2>2, <2>3, <2>4, <2>5 DEF TypeOK
<1>12. CASE Autopilot \/ AutopilotFail
  <2> USE DEF AutopilotUnchanged, SetPlanState, PlanRuns
  <2>1. plan' \in Plans
    BY <1>12 DEF Autopilot, AutopilotSchedule, AutopilotUpgradeNode, AutopilotComplete,
                 AutopilotFail, TypeOK, Plans, PlanStates
  <2>0. plan # NoPlan => plan \in Plans /\ PlanVersion(plan) \in K0sVersions
    BY DesiredType DEF TypeOK, Plans, PlanVersion
  <2>2. k0s' \in [Nodes -> K0sVersions]
    BY <1>12, <2>0 DEF Autopilot, AutopilotSchedule, AutopilotUpgradeNode,
       AutopilotComplete, AutopilotFail, TypeOK
  <2>3. images' \in SUBSET Installations
    BY <1>12 DEF Autopilot, AutopilotSchedule, AutopilotUpgradeNode, AutopilotComplete,
                 AutopilotFail, TypeOK, Plans
  <2>4. faults' \in 0..MaxFaults
    BY <1>12, FaultType DEF Autopilot, AutopilotSchedule, AutopilotUpgradeNode,
                            AutopilotComplete, AutopilotFail, TypeOK
  <2>5. AutopilotUnchanged
    BY <1>12 DEF Autopilot, AutopilotSchedule, AutopilotUpgradeNode, AutopilotComplete,
                 AutopilotFail
  <2> QED
    BY <2>1, <2>2, <2>3, <2>4, <2>5 DEF TypeOK
<1>13. CASE HelmApply
  BY <1>13 DEF HelmApply, TypeOK
<1>14. CASE OperatorRollout
  BY <1>14, IdleType DEF OperatorRollout, TypeOK, RecType
<1>15. CASE UNCHANGED vars
  BY <1>15 DEF TypeOK
<1> QED
  BY <1>1, <1>2, <1>3, <1>4, <1>5, <1>6, <1>7, <1>8, <1>9, <1>10, <1>11, <1>12, <1>13,
     <1>14, <1>15 DEF Next, OperatorStep

\* Every variable keeps its type.
THEOREM TypeCorrect == Spec => []TypeOK
BY InitType, TypeStep, PTL DEF Spec

-------------------------------------------------------------------------------
(* The newest installation is never obsolete.  The reconcile in progress   *)
(* works on the newest of a list that it has read and that can only have   *)
(* been extended since; what does not exist yet has no state.              *)

ListInv ==
    /\ \A i \in Installations \ exists : state[i] = ""
    /\ rec.step # "idle" =>
        /\ rec.items \subseteq exists
        /\ IsNewest(rec.in, rec.items)
        /\ rec.state # "Obsolete"
    /\ NewestNeverObsolete

LEMMA ReconcileK0sVersionKeepsList ==
    ASSUME TypeOK, ReconcileK0sVersion, rec.state # "Obsolete"
    PROVE  \/ rec' = Idle
           \/ rec'.in = rec.in /\ rec'.items = rec.items /\ rec'.state # "Obsolete"
<1> USE DEF ReconcileK0sVersion
<1>0. rec.state \in States
  BY DEF TypeOK
<1>1. CASE SingleInstallation
  BY <1>1, DecideType DEF SingleInstallation, States
<1>2. CASE MetadataUnavailable
  BY <1>2, DecideType DEF MetadataUnavailable, States
<1>3. CASE RefuseDowngrade
  BY <1>3, DecideType DEF RefuseDowngrade, States
<1>4. CASE StartAutopilotUpgrade
  BY <1>4, DecideType DEF StartAutopilotUpgrade, States
<1>5. CASE K0sUpToDate
  BY <1>5, DecideType DEF K0sUpToDate, States
<1>6. CASE SetStateBasedOnPlan
  <2>1. planCache \in Plans
    BY <1>6 DEF SetStateBasedOnPlan, TypeOK
  <2> QED
    BY <1>6, <2>1, DecideType, StateBasedOnPlanType DEF SetStateBasedOnPlan
<1>7. CASE WaitForOtherPlan
  BY <1>7, DecideType DEF WaitForOtherPlan, States
<1>8. CASE DeleteEndedPlan
  BY <1>0, <1>8, DecideType DEF DeleteEndedPlan
<1> QED
  BY <1>1, <1>2, <1>3, <1>4, <1>5, <1>6, <1>7, <1>8

LEMMA ListInit == Init => ListInv
<1> SUFFICES ASSUME Init PROVE ListInv
  OBVIOUS
<1>1. 1 \in Installations
  BY ConstantsAssumption DEF ConstantsAssumption, Installations
<1>2. \A i \in Installations : state[i] = ""
  BY DEF Init
<1>3. NewestNeverObsolete
  BY <1>1, <1>2 DEF Init, NewestNeverObsolete
<1>4. rec.step = "idle"
  BY DEF Init, Idle
<1> QED
  BY <1>2, <1>3, <1>4 DEF ListInv

\* A status update of the installation being reconciled keeps the newest one
\* out of the obsolete state.
LEMMA SaveKeepsList ==
    ASSUME TypeOK, ListInv, rec.step # "idle", NEW s \in States \ {"Obsolete"},
           state' = [state EXCEPT ![rec.in] = s], exists' = exists
    PROVE  NewestNeverObsolete' /\ \A i \in Installations \ exists' : state'[i] = ""
<1>1. rec.in \in exists
  BY DEF ListInv, IsNewest
<1> QED
  BY <1>1 DEF TypeOK, ListInv, NewestNeverObsolete, IsNewest

LEMMA ListStep == TypeOK /\ ListInv /\ [Next]_vars => ListInv'
<1> SUFFICES ASSUME TypeOK, ListInv, [Next]_vars PROVE ListInv'
  OBVIOUS
<1> USE DEF vars, installVars, planVars, nodeVars, chartVars
<1>0. Idle.step = "idle"
  BY DEF Idle
<1>1. CASE Reconcile
  <2>1. PICK i \in exists :
            /\ IsNewest(i, ActiveInstallations)
            /\ \/ rec' = rec
               \/ /\ rec'.in = i
                  /\ rec'.items = ActiveInstallations
                  /\ rec'.state = state[i]
    BY <1>1 DEF Reconcile
  <2>2. ActiveInstallations \subseteq exists /\ state[i] # "Obsolete"
    BY <2>1 DEF ActiveInstallations, IsNewest
  <2>3. exists' = exists /\ state' = state
    BY <1>1 DEF Reconcile
  <2>4. rec'.step # "idle" => /\ rec'.items \subseteq exists
                              /\ IsNewest(rec'.in, rec'.items)
                              /\ rec'.state # "Obsolete"
    BY <1>1, <2>1, <2>2 DEF Reconcile, ListInv
  <2> QED
    BY <2>3, <2>4 DEF ListInv, NewestNeverObsolete, IsNewest
<1>2. CASE ReconcileK0sVersion
  BY <1>0, <1>2, ReconcileK0sVersionKeepsList
     DEF ReconcileK0sVersion, ListInv, NewestNeverObsolete, IsNewest
<1>3. CASE ReconcileHelmCharts
  <2>1. /\ rec'.in = rec.in /\ rec'.items = rec.items /\ rec'.state # "Obsolete"
        /\ rec.step # "idle"
    BY <1>3 DEF ReconcileHelmCharts, ChartMetadataUnavailable, ChartErrors, ChartsInstalled,
                ChartsPending, InstallCharts, TypeOK
  <2> QED
    BY <1>3, <2>1 DEF ReconcileHelmCharts, ListInv, NewestNeverObsolete, IsNewest
<1>4. CASE UpdateStatus
  <2>1. rec.step # "idle" /\ rec.state \in States \ {"Obsolete"}
    BY <1>4 DEF UpdateStatus, ListInv, TypeOK
  <2>2. NewestNeverObsolete' /\ \A i \in Installations \ exists' : state'[i] = ""
    BY <1>4, <2>1, SaveKeepsList DEF UpdateStatus
  <2> QED
    BY <1>0, <1>4, <2>1, <2>2 DEF UpdateStatus, ListInv, IsNewest, TypeOK
<1>5. CASE DisableOldInstallations
  <2>1. rec.step # "idle"
    BY <1>5 DEF DisableOldInstallations
  <2>2. PICK updated \in SUBSET OldInstallations :
            state' = [i \in Installations |-> IF i \in updated THEN "Obsolete" ELSE state[i]]
    BY <1>5 DEF DisableOldInstallations
  <2>3. updated \subseteq exists /\ \A i \in updated : i # rec.in /\ i <= rec.in
    BY <2>1, <2>2 DEF OldInstallations, ListInv, IsNewest
  <2>4. rec.in \in exists
    BY <2>1 DEF ListInv, IsNewest
  <2>5. NewestNeverObsolete'
    <3> SUFFICES ASSUME NEW n \in exists, IsNewest(n, exists)
                 PROVE  state'[n] # "Obsolete"
      BY <1>5 DEF DisableOldInstallations, NewestNeverObsolete, IsNewest
    <3>1. n \in Int /\ rec.in \in Int
      BY ConstantsAssumption DEF ConstantsAssumption, TypeOK, Installations
    <3>2. n \notin updated
      BY <2>3, <2>4, <3>1 DEF IsNewest
    <3>3. n \in Installations
      BY DEF TypeOK
    <3> QED
      BY <2>2, <3>2, <3>3 DEF ListInv, NewestNeverObsolete
  <2>6. \A i \in Installations \ exists' : state'[i] = ""
    BY <1>5, <2>2, <2>3 DEF DisableOldInstallations, ListInv
  <2> QED
    BY <1>0, <1>5, <2>5, <2>6 DEF DisableOldInstallations, ListInv, IsNewest, TypeOK
<1>6. CASE ReportInstallationChanges
  BY <1>0, <1>6 DEF ReportInstallationChanges, ListInv, NewestNeverObsolete, IsNewest
<1>7. CASE ReadClusterConfigFails
  <2>1. rec.step # "idle" /\ "Failed" \in States \ {"Obsolete"}
    BY <1>7 DEF ReadClusterConfigFails, States
  <2>2. NewestNeverObsolete' /\ \A i \in Installations \ exists' : state'[i] = ""
    BY <1>7, <2>1, SaveKeepsList DEF ReadClusterConfigFails
  <2> QED
    BY <1>7, <2>1, <2>2 DEF ReadClusterConfigFails, ListInv, IsNewest, TypeOK
<1>8. CASE PrepareAddonsFails
  <2>1. rec.step # "idle" /\ rec.state \in States \ {"Obsolete"}
    BY <1>8 DEF PrepareAddonsFails, ListInv, TypeOK
  <2>2. NewestNeverObsolete' /\ \A i \in Installations \ exists' : state'[i] = ""
    BY <1>8, <2>1, SaveKeepsList DEF PrepareAddonsFails
  <2> QED
    BY <1>0, <1>8, <2>2 DEF PrepareAddonsFails, ListInv
<1>9. CASE Abort
  BY <1>0, <1>9 DEF Abort, ListInv, NewestNeverObsolete, IsNewest
<1>10. CASE SyncPlanCache
  BY <1>10 DEF SyncPlanCache, ListInv, NewestNeverObsolete, IsNewest
<1>11. ASSUME NEW i \in Installations, Cli(i) PROVE ListInv'
  <2>1. CliUnchanged /\ exists \subseteq exists' /\ exists' \subseteq exists \cup {i}
    BY <1>11 DEF Cli, CliBegin, CliEnsurePlan, CliDeletePlan, CliWaitDelete, CliCreatePlan,
                 CliWaitPlan, CliPatchOperatorChart, CliWaitForOperatorChart,
                 CliCreateInstallation, CliAbort
  <2> QED
    BY <2>1 DEF CliUnchanged, ListInv, NewestNeverObsolete, IsNewest, TypeOK
<1>12. CASE Autopilot \/ AutopilotFail
  <2>1. AutopilotUnchanged
    BY <1>12 DEF Autopilot, AutopilotSchedule, AutopilotUpgradeNode, AutopilotComplete,
                 AutopilotFail
  <2> QED
    BY <2>1 DEF AutopilotUnchanged, ListInv, NewestNeverObsolete, IsNewest
<1>13. CASE HelmApply
  BY <1>13 DEF HelmApply, ListInv, NewestNeverObsolete, IsNewest
<1>14. CASE OperatorRollout
  BY <1>0, <1>14 DEF OperatorRollout, ListInv, NewestNeverObsolete, IsNewest
<1>15. CASE UNCHANGED vars
  BY <1>15 DEF ListInv, NewestNeverObsolete, IsNewest
<1> QED
  BY <1>1, <1>2, <1>3, <1>4, <1>5, <1>6, <1>7, <1>8, <1>9, <1>10, <1>11, <1>12, <1>13,
     <1>14, <1>15 DEF Next, OperatorStep

\* Whatever upgrades are asked for, whatever fails and wherever the operator is
\* cut short, the newest installation stays visible to Reconcile.
THEOREM NewestStaysVisible == Spec => []NewestNeverObsolete
<1>1. ListInv => NewestNeverObsolete
  BY DEF ListInv
<1> QED
  BY <1>1, TypeCorrect, ListInit, ListStep, PTL DEF Spec

-------------------------------------------------------------------------------
(* What a step may do to the plan and to the nodes.                        *)

KeepsPlan ==
    /\ UNCHANGED <<plan, k0s>>
    /\ exists' = exists \/ \E i \in Installations : exists' = exists \cup {i}

RemovesPlan == plan' = NoPlan /\ UNCHANGED <<k0s, exists>>

StartsRollout ==
    /\ plan = NoPlan /\ planCache = NoPlan
    /\ exists # {rec.in}
    /\ rec.in \in Installations /\ plan' = NewPlan(rec.in, FALSE)
    /\ \E c \in Controllers : k0s[c].kube <= Desired(rec.in).kube
    /\ rec.step # "idle"
    /\ UNCHANGED <<k0s, exists>>

StartsUpload ==
    /\ plan = NoPlan
    /\ \E i \in Installations : plan' = NewPlan(i, TRUE)
    /\ UNCHANGED <<k0s, exists>>

MovesPlan ==
    /\ Running(plan)
    /\ \E s \in PlanStates \ {""} :
        /\ plan' = [plan EXCEPT !.state = s]
        /\ s = "Completed" /\ ~plan.airgap => \A n \in Nodes : k0s[n] = PlanVersion(plan)
    /\ UNCHANGED <<k0s, exists>>

UpgradesNode ==
    /\ Running(plan) /\ ~plan.airgap
    /\ \E n \in Nodes :
        /\ n \in Controllers \/ \A c \in Controllers : k0s[c] = PlanVersion(plan)
        /\ k0s' = [k0s EXCEPT ![n] = PlanVersion(plan)]
    /\ UNCHANGED <<plan, exists>>

PlanStep ==
    /\ version' = version
    /\ \/ KeepsPlan
       \/ RemovesPlan
       \/ StartsRollout
       \/ StartsUpload
       \/ MovesPlan
       \/ UpgradesNode

LEMMA ServerVersionsType ==
    ASSUME TypeOK, NEW c \in Controllers
    PROVE  k0s[c].kube \in Nat
BY ConstantsAssumption DEF ConstantsAssumption, TypeOK, Nodes, K0sVersions

\* A plan is started only when some API server is not newer than it.
LEMMA StartIsNoDowngrade ==
    ASSUME TypeOK, NEW server \in ServerVersions, ShouldUpgradeK0s(server, rec.in)
    PROVE  \E c \in Controllers : k0s[c].kube <= Desired(rec.in).kube
<1>1. PICK c \in Controllers : server = k0s[c].kube
  BY DEF ServerVersions
<1>2. server \in Nat /\ Desired(rec.in).kube \in Nat
  BY <1>1, ServerVersionsType, DesiredType DEF TypeOK
<1> QED
  BY <1>1, <1>2 DEF ShouldUpgradeK0s

LEMMA ReconcileK0sVersionPlan ==
    ASSUME TypeOK, ReconcileK0sVersion
    PROVE  KeepsPlan \/ RemovesPlan \/ StartsRollout
<1> USE DEF ReconcileK0sVersion, installVars, nodeVars
<1>1. CASE StartAutopilotUpgrade
  <2>1. CASE plan = NoPlan /\ plan' = NewPlan(rec.in, FALSE)
    BY <1>1, <2>1, StartIsNoDowngrade
       DEF StartAutopilotUpgrade, NotADowngrade, HasOnlyOneInstallation, StartsRollout, TypeOK
  <2>2. CASE UNCHANGED plan
    BY <2>2 DEF KeepsPlan
  <2> QED
    BY <1>1, <2>1, <2>2 DEF StartAutopilotUpgrade
<1>2. CASE DeleteEndedPlan
  BY <1>2 DEF DeleteEndedPlan, RemovesPlan, KeepsPlan
<1>3. CASE SingleInstallation \/ MetadataUnavailable \/ RefuseDowngrade \/ K0sUpToDate
           \/ SetStateBasedOnPlan \/ WaitForOtherPlan
  BY <1>3 DEF SingleInstallation, MetadataUnavailable, RefuseDowngrade, K0sUpToDate,
              SetStateBasedOnPlan, WaitForOtherPlan, KeepsPlan
<1> QED
  BY <1>1, <1>2, <1>3

LEMMA CliPlan ==
    ASSUME TypeOK, NEW i \in Installations, Cli(i)
    PROVE  KeepsPlan \/ RemovesPlan \/ StartsUpload
<1> USE DEF CliUnchanged
<1>1. CASE CliDeletePlan(i)
  BY <1>1 DEF CliDeletePlan, RemovesPlan
<1>2. CASE CliCreatePlan(i)
  BY <1>2 DEF CliCreatePlan, StartsUpload, KeepsPlan
<1>3. CASE CliCreateInstallation(i)
  BY <1>3 DEF CliCreateInstallation, KeepsPlan
<1>4. CASE CliBegin(i) \/ CliEnsurePlan(i) \/ CliWaitDelete(i) \/ CliWaitPlan(i)
           \/ CliPatchOperatorChart(i) \/ CliWaitForOperatorChart(i) \/ CliAbort(i)
  BY <1>4 DEF CliBegin, CliEnsurePlan, CliWaitDelete, CliWaitPlan, CliPatchOperatorChart,
              CliWaitForOperatorChart, CliAbort, KeepsPlan
<1> QED
  BY <1>1, <1>2, <1>3, <1>4 DEF Cli

LEMMA AutopilotPlan ==
    ASSUME TypeOK, Autopilot \/ AutopilotFail
    PROVE  MovesPlan \/ UpgradesNode
<1> USE DEF AutopilotUnchanged, SetPlanState, PlanRuns, Running, installVars, nodeVars
<1>0. /\ {"SchedulableWait", "Completed", "ApplyFailed"} \subseteq PlanStates \ {""}
      /\ "SchedulableWait" # "Completed" /\ "ApplyFailed" # "Completed"
  BY Zenon DEF PlanStates
<1>1. CASE AutopilotSchedule
  BY <1>0, <1>1, Zenon DEF AutopilotSchedule, MovesPlan
<1>2. ASSUME NEW n \in Nodes, AutopilotUpgradeNode(n) PROVE UpgradesNode
  BY <1>2 DEF AutopilotUpgradeNode, UpgradesNode, UpgradeTargets
<1>3. CASE AutopilotComplete
  BY <1>3 DEF AutopilotComplete, MovesPlan, PlanStates
<1>4. CASE AutopilotFail
  BY <1>0, <1>4, Zenon DEF AutopilotFail, MovesPlan
<1> QED
  BY <1>1, <1>2, <1>3, <1>4 DEF Autopilot

LEMMA EveryStepIsAPlanStep == TypeOK /\ [Next]_vars => PlanStep
<1> SUFFICES ASSUME TypeOK, [Next]_vars PROVE PlanStep
  OBVIOUS
<1> USE DEF vars, installVars, planVars, nodeVars, chartVars, PlanStep
<1>1. CASE ReconcileK0sVersion
  BY <1>1, ReconcileK0sVersionPlan DEF ReconcileK0sVersion
<1>2. CASE Autopilot \/ AutopilotFail
  <2>1. UNCHANGED version
    BY <1>2 DEF Autopilot, AutopilotSchedule, AutopilotUpgradeNode, AutopilotComplete,
                AutopilotFail, AutopilotUnchanged
  <2> QED
    BY <1>2, <2>1, AutopilotPlan
<1>3. ASSUME NEW i \in Installations, Cli(i) PROVE PlanStep
  <2>1. UNCHANGED version
    BY <1>3 DEF Cli, CliBegin, CliEnsurePlan, CliDeletePlan, CliWaitDelete, CliCreatePlan,
                CliWaitPlan, CliPatchOperatorChart, CliWaitForOperatorChart,
                CliCreateInstallation, CliAbort, CliUnchanged
  <2> QED
    BY <1>3, <2>1, CliPlan
<1>4. CASE \/ Reconcile \/ ReconcileHelmCharts \/ UpdateStatus \/ DisableOldInstallations
           \/ ReportInstallationChanges \/ ReadClusterConfigFails \/ PrepareAddonsFails
           \/ Abort \/ SyncPlanCache \/ HelmApply \/ OperatorRollout \/ UNCHANGED vars
  BY <1>4 DEF Reconcile, ReconcileHelmCharts, UpdateStatus, DisableOldInstallations,
              ReportInstallationChanges, ReadClusterConfigFails, PrepareAddonsFails,
              Abort, SyncPlanCache, HelmApply, OperatorRollout, KeepsPlan
<1> QED
  BY <1>1, <1>2, <1>3, <1>4 DEF Next, OperatorStep

-------------------------------------------------------------------------------
(* Kubelets never run ahead of the API servers.                            *)

RollsOut(p) == Running(p) /\ ~p.airgap

\* The strengthening: no worker is newer than the release being rolled out.
WorkersInv ==
    /\ WorkersNeverAhead
    /\ RollsOut(plan) => \A w \in Workers : k0s[w].kube <= PlanVersion(plan).kube

LEMMA KubeType ==
    ASSUME TypeOK, NEW n \in Nodes
    PROVE  k0s[n] \in K0sVersions /\ k0s[n].kube \in Nat
BY ConstantsAssumption DEF ConstantsAssumption, TypeOK, K0sVersions

LEMMA PlanVersionType ==
    ASSUME TypeOK, Running(plan)
    PROVE  /\ plan \in Plans
           /\ plan.owner \in Installations
           /\ PlanVersion(plan) \in K0sVersions
           /\ PlanVersion(plan).kube \in Nat
<1>1. plan \in Plans
  BY DEF Running, TypeOK
<1>2. plan.owner \in Installations
  BY <1>1 DEF Plans
<1> QED
  BY <1>1, <1>2, DesiredType DEF PlanVersion

\* A plan keeps its release while autopilot changes its state.
LEMMA MovedPlan ==
    ASSUME TypeOK, version' = version, MovesPlan
    PROVE  /\ plan'.owner = plan.owner
           /\ plan'.airgap = plan.airgap
           /\ PlanVersion(plan)' = PlanVersion(plan)
<1>1. plan \in Plans
  BY PlanVersionType DEF MovesPlan
<1>2. plan'.owner = plan.owner /\ plan'.airgap = plan.airgap
  BY <1>1 DEF MovesPlan, Plans
<1> QED
  BY <1>2 DEF PlanVersion, Desired

LEMMA WorkersInit == Init => WorkersInv
<1> SUFFICES ASSUME Init PROVE WorkersInv
  OBVIOUS
<1>1. TypeOK
  BY InitType
<1>2. \A m, n \in Nodes : k0s[m].kube = k0s[n].kube
  BY DEF Init
<1>3. \A w \in Workers, c \in Controllers : k0s[w].kube <= k0s[c].kube
  BY <1>1, <1>2, KubeType DEF Nodes
<1> QED
  BY <1>3 DEF Init, WorkersInv, WorkersNeverAhead, RollsOut, Running

LEMMA WorkersStep == TypeOK /\ WorkersInv /\ [Next]_vars => WorkersInv'
<1> SUFFICES ASSUME TypeOK, WorkersInv, [Next]_vars PROVE WorkersInv'
  OBVIOUS
<1>0. PlanStep
  BY EveryStepIsAPlanStep
<1>1. CASE KeepsPlan
  BY <1>0, <1>1 DEF PlanStep, KeepsPlan, WorkersInv, WorkersNeverAhead, RollsOut, Running,
                    PlanVersion, Desired
<1>2. CASE RemovesPlan
  BY <1>2 DEF RemovesPlan, WorkersInv, WorkersNeverAhead, RollsOut, Running
<1>3. CASE StartsRollout
  <2>1. PICK c \in Controllers : k0s[c].kube <= Desired(rec.in).kube
    BY <1>3 DEF StartsRollout
  <2>2. PlanVersion(plan)' = Desired(rec.in)
    BY <1>0, <1>3, NewPlanType DEF StartsRollout, PlanStep, PlanVersion, Desired
  <2>3. Desired(rec.in).kube \in Nat
    BY <1>3, DesiredType DEF StartsRollout
  <2>4. \A w \in Workers : k0s[w].kube <= Desired(rec.in).kube
    BY <2>1, <2>3, KubeType DEF WorkersInv, WorkersNeverAhead, Nodes
  <2> QED
    BY <1>3, <2>2, <2>4 DEF StartsRollout, WorkersInv, WorkersNeverAhead
<1>4. CASE StartsUpload
  <2>1. plan'.airgap
    BY <1>4, NewPlanType DEF StartsUpload
  <2> QED
    BY <1>4, <2>1 DEF StartsUpload, WorkersInv, WorkersNeverAhead, RollsOut
<1>5. CASE MovesPlan
  BY <1>0, <1>5, MovedPlan DEF PlanStep, MovesPlan, WorkersInv, WorkersNeverAhead, RollsOut
<1>6. CASE UpgradesNode
  <2> DEFINE v == PlanVersion(plan)
  <2>1. PICK n \in Nodes : /\ n \in Controllers \/ \A c \in Controllers : k0s[c] = v
                           /\ k0s' = [k0s EXCEPT ![n] = v]
    BY <1>6 DEF UpgradesNode
  <2>2. v' = v /\ RollsOut(plan)
    BY <1>0, <1>6 DEF PlanStep, UpgradesNode, PlanVersion, Desired, RollsOut
  <2>3. v.kube \in Nat
    BY <1>6, PlanVersionType DEF UpgradesNode
  <2>4. \A m \in Nodes : k0s'[m] = IF m = n THEN v ELSE k0s[m]
    BY <2>1 DEF TypeOK
  <2> HIDE DEF v
  <2>5. \A w \in Workers : k0s'[w].kube <= v.kube
    BY <2>2, <2>3, <2>4 DEF WorkersInv, Nodes, v
  <2>6. ASSUME NEW w \in Workers, NEW c \in Controllers
        PROVE  k0s'[w].kube <= k0s'[c].kube
    <3>1. CASE n \in Controllers
      <4>1. w # n
        BY <3>1, ConstantsAssumption DEF ConstantsAssumption
      <4> QED
        BY <2>4, <2>5, <4>1, KubeType DEF WorkersInv, WorkersNeverAhead, Nodes
    <3>2. CASE n \notin Controllers
      BY <2>1, <2>4, <2>5, <3>2 DEF Nodes
    <3> QED
      BY <3>1, <3>2
  <2> QED
    BY <2>2, <2>5, <2>6 DEF WorkersInv, WorkersNeverAhead, v
<1> QED
  BY <1>0, <1>1, <1>2, <1>3, <1>4, <1>5, <1>6 DEF PlanStep

\* No kubelet is ever newer than an API server, with any number of nodes and
\* of installations, connected to the network or not, whatever fails.
THEOREM WorkersStayBehind == Spec => []WorkersNeverAhead
<1>1. WorkersInv => WorkersNeverAhead
  BY DEF WorkersInv
<1> QED
  BY <1>1, TypeCorrect, WorkersInit, WorkersStep, PTL DEF Spec

-------------------------------------------------------------------------------
(* With one controller, its kubernetes version never goes down.  With more *)
(* it may: the downgrade check asks one API server, and a plan that failed *)
(* half way leaves them with different versions.                           *)

SingleController == \E c : Controllers = {c}

\* The strengthening: no controller is newer than the release being rolled out.
ControllersInv == RollsOut(plan) => \A c \in Controllers : k0s[c].kube <= PlanVersion(plan).kube

NoKubeDowngradeStep == \A c \in Controllers : k0s'[c].kube >= k0s[c].kube

LEMMA ControllersInit == Init => ControllersInv
BY DEF Init, ControllersInv, RollsOut, Running

LEMMA ControllersStep ==
    ASSUME SingleController
    PROVE  TypeOK /\ ControllersInv /\ [Next]_vars => ControllersInv' /\ NoKubeDowngradeStep
<1> SUFFICES ASSUME TypeOK, ControllersInv, [Next]_vars
             PROVE  ControllersInv' /\ NoKubeDowngradeStep
  OBVIOUS
<1>0. PlanStep
  BY EveryStepIsAPlanStep
<1>a. ASSUME UNCHANGED k0s PROVE NoKubeDowngradeStep
  BY <1>a, ServerVersionsType DEF NoKubeDowngradeStep
<1>1. CASE KeepsPlan
  BY <1>0, <1>1, <1>a DEF PlanStep, KeepsPlan, ControllersInv, RollsOut, Running,
                          PlanVersion, Desired
<1>2. CASE RemovesPlan
  BY <1>2, <1>a DEF RemovesPlan, ControllersInv, RollsOut, Running
<1>3. CASE StartsRollout
  <2>1. \A c \in Controllers : k0s[c].kube <= Desired(rec.in).kube
    BY <1>3, SingleController DEF StartsRollout, SingleController
  <2>2. PlanVersion(plan)' = Desired(rec.in)
    BY <1>0, <1>3, NewPlanType DEF StartsRollout, PlanStep, PlanVersion, Desired
  <2> QED
    BY <1>3, <1>a, <2>1, <2>2 DEF StartsRollout, ControllersInv
<1>4. CASE StartsUpload
  <2>1. plan'.airgap
    BY <1>4, NewPlanType DEF StartsUpload
  <2> QED
    BY <1>4, <1>a, <2>1 DEF StartsUpload, ControllersInv, RollsOut
<1>5. CASE MovesPlan
  BY <1>0, <1>5, <1>a, MovedPlan DEF PlanStep, MovesPlan, ControllersInv, RollsOut
<1>6. CASE UpgradesNode
  <2> DEFINE v == PlanVersion(plan)
  <2>1. PICK n \in Nodes : k0s' = [k0s EXCEPT ![n] = v]
    BY <1>6 DEF UpgradesNode
  <2>2. v' = v /\ RollsOut(plan)
    BY <1>0, <1>6 DEF PlanStep, UpgradesNode, PlanVersion, Desired, RollsOut
  <2>3. v.kube \in Nat
    BY <1>6, PlanVersionType DEF UpgradesNode
  <2>4. \A c \in Controllers : k0s'[c] \in {v, k0s[c]}
    BY <2>1 DEF TypeOK, Nodes
  <2>5. \A c \in Controllers : k0s[c].kube <= v.kube
    BY <2>2 DEF ControllersInv
  <2> HIDE DEF v
  <2>6. \A c \in Controllers : k0s'[c].kube <= v.kube /\ k0s'[c].kube >= k0s[c].kube
    BY <2>3, <2>4, <2>5, ServerVersionsType
  <2> QED
    BY <2>2, <2>6 DEF ControllersInv, NoKubeDowngradeStep, v
<1> QED
  BY <1>0, <1>1, <1>2, <1>3, <1>4, <1>5, <1>6 DEF PlanStep

\* With one controller no step takes the API server back to an older
\* kubernetes version, whatever is asked for and whatever fails.
THEOREM NoDowngrade ==
    ASSUME SingleController
    PROVE  Spec => NoKubeDowngrade
<1>1. TypeOK /\ ControllersInv /\ [Next]_vars => [NoKubeDowngradeStep]_vars
  BY ControllersStep, SingleController
<1>2. TypeOK /\ ControllersInv /\ [Next]_vars => ControllersInv'
  BY ControllersStep, SingleController
<1>3. Spec => [][NoKubeDowngradeStep]_vars
  BY <1>1, <1>2, TypeCorrect, ControllersInit, PTL DEF Spec
<1> QED
  BY <1>3 DEF NoKubeDowngrade, NoKubeDowngradeStep

-------------------------------------------------------------------------------
(* K0sUpgrade implements K0sRollout.                                       *)

LEMMA RolloutInit == Init => Rollout!Init
<1> SUFFICES ASSUME Init PROVE Rollout!Init
  OBVIOUS
<1>1. {Desired(i) : i \in exists} = {Desired(1)}
  BY DEF Init
<1>2. Desired(1) \in K0sVersions
  BY InitType, DesiredType, ConstantsAssumption DEF ConstantsAssumption, Installations
<1>3. k0s = [n \in Controllers \cup Workers |-> Desired(1)]
  BY DEF Init, Desired, Nodes
<1>4. ~Running(plan)
  BY DEF Init, Running
<1> QED
  BY <1>1, <1>2, <1>3, <1>4 DEF Rollout!Init

LEMMA RolloutStep == TypeOK /\ ListInv /\ [Next]_vars => [Rollout!Next]_(Rollout!vars)
<1> SUFFICES ASSUME TypeOK, ListInv, [Next]_vars PROVE [Rollout!Next]_(Rollout!vars)
  OBVIOUS
<1> DEFINE target == IF Running(plan) /\ ~plan.airgap THEN PlanVersion(plan) ELSE NoPlan
           requested == {Desired(i) : i \in exists}
<1>0. PlanStep
  BY EveryStepIsAPlanStep
<1>a. version' = version
  BY <1>0 DEF PlanStep
<1>b. ASSUME exists' = exists PROVE requested' = requested
  BY <1>a, <1>b DEF Desired
<1>c. RollsOut(plan) => target = PlanVersion(plan) /\ target # NoPlan
  <2>1. RollsOut(plan) => PlanVersion(plan) \in K0sVersions
    BY PlanVersionType DEF RollsOut
  <2> QED
    BY <2>1, ConstantsAssumption DEF ConstantsAssumption, RollsOut
<1>d. ~RollsOut(plan) => target = NoPlan
  BY DEF RollsOut
<1>e. ASSUME UNCHANGED <<k0s, requested>>, target # NoPlan, target' = NoPlan
      PROVE  Rollout!End
  BY <1>e DEF Rollout!End
<1>f. ASSUME UNCHANGED <<k0s, requested, target>> PROVE UNCHANGED Rollout!vars
  BY <1>f DEF Rollout!vars
<1>1. CASE KeepsPlan
  <2>1. target' = target
    BY <1>1, <1>a DEF KeepsPlan, Running, PlanVersion, Desired
  <2>2. CASE exists' = exists
    BY <1>1, <1>b, <1>f, <2>1, <2>2 DEF KeepsPlan
  <2>3. ASSUME NEW i \in Installations, exists' = exists \cup {i} PROVE Rollout!Next
    <3>1. requested' = requested \cup {Desired(i)}
      BY <1>a, <2>3 DEF Desired
    <3>2. Desired(i) \in K0sVersions
      BY DesiredType
    <3> QED
      BY <1>1, <2>1, <3>1, <3>2 DEF KeepsPlan, Rollout!Next, Rollout!Request
  <2> QED
    BY <1>1, <2>2, <2>3 DEF KeepsPlan
<1>2. CASE RemovesPlan
  <2>1. target' = NoPlan
    BY <1>2 DEF RemovesPlan, Running
  <2>2. UNCHANGED <<k0s, requested>>
    BY <1>2, <1>b DEF RemovesPlan
  <2> QED
    BY <1>e, <1>f, <2>1, <2>2 DEF Rollout!Next
<1>3. CASE StartsRollout
  <2>0. rec.in \in exists
    BY <1>3 DEF StartsRollout, ListInv, IsNewest
  <2>1. target = NoPlan
    BY <1>3 DEF StartsRollout, Running
  <2>2. target' = Desired(rec.in)
    <3>1. /\ plan' = NewPlan(rec.in, FALSE) /\ plan' # NoPlan
          /\ plan'.owner = rec.in /\ ~plan'.airgap /\ plan'.state = ""
      BY <1>3, NewPlanType DEF StartsRollout
    <3> QED
      BY <1>a, <3>1 DEF Running, PlanVersion, Desired
  <2>3. Desired(rec.in) \in requested
    BY <2>0
  <2>4. UNCHANGED <<k0s, requested>>
    BY <1>3, <1>b DEF StartsRollout
  <2>5. Rollout!Begin
    BY <1>3, <2>1, <2>2, <2>3, <2>4 DEF StartsRollout, Rollout!Begin
  <2> QED
    BY <2>5 DEF Rollout!Next
<1>4. CASE StartsUpload
  <2>1. plan'.airgap
    BY <1>4, NewPlanType DEF StartsUpload
  <2>2. target' = NoPlan /\ target = NoPlan
    BY <1>4, <2>1 DEF StartsUpload, Running
  <2>3. UNCHANGED <<k0s, requested>>
    BY <1>4, <1>b DEF StartsUpload
  <2> QED
    BY <1>f, <2>2, <2>3
<1>5. CASE MovesPlan
  <2>1. UNCHANGED <<k0s, requested>>
    BY <1>5, <1>b DEF MovesPlan
  <2>2. target' \in {target, NoPlan}
    BY <1>5, <1>a, MovedPlan DEF MovesPlan
  <2> QED
    BY <1>e, <1>f, <2>1, <2>2 DEF Rollout!Next
<1>6. CASE UpgradesNode
  <2>1. RollsOut(plan) /\ target' = target /\ requested' = requested
    BY <1>6, <1>a, <1>b DEF UpgradesNode, RollsOut, Running, PlanVersion, Desired
  <2>2. PICK n \in Nodes : /\ n \in Controllers \/ \A c \in Controllers : k0s[c] = target
                           /\ k0s' = [k0s EXCEPT ![n] = target]
    BY <1>6, <1>c, <2>1 DEF UpgradesNode
  <2>3. Rollout!UpgradeNode(n)
    BY <1>c, <2>1, <2>2 DEF Rollout!UpgradeNode
  <2> QED
    BY <2>3 DEF Rollout!Next, Nodes
<1> QED
  BY <1>0, <1>1, <1>2, <1>3, <1>4, <1>5, <1>6 DEF PlanStep

\* Operator, upgrade command and autopilot together: nodes change only in a
\* rollout of a requested release that is not older than every API server, one
\* at a time, controllers before workers.
THEOREM RolloutImplemented == Spec => ImplementsRollout
<1>1. Spec => [](TypeOK /\ ListInv)
  BY TypeCorrect, ListInit, ListStep, PTL DEF Spec
<1>2. Spec => Rollout!Spec
  BY <1>1, RolloutInit, RolloutStep, PTL DEF Spec, Rollout!Spec
<1> QED
  BY <1>2 DEF ImplementsRollout

-------------------------------------------------------------------------------
(* Online, a plan is deleted only once it has ended.  The operator decides *)
(* on a copy; a copy of an ended plan is what the API server has, unless   *)
(* that plan is gone already, because nothing starts another one until the *)
(* copy has gone too.                                                      *)

AirgapSteps == {"ensurePlan", "deletePlan", "waitDelete", "createPlan", "waitPlan"}

EndedCopyInv ==
    planCache # NoPlan /\ HasThePlanEnded(planCache) => plan \in {planCache, NoPlan}

OnlineInv ==
    /\ \A i \in Installations : cli[i] \notin AirgapSteps
    /\ EndedCopyInv

RunningPlanStays == Running(plan) => plan' # NoPlan

LEMMA OnlineInit == Init => OnlineInv
BY DEF Init, OnlineInv, EndedCopyInv, AirgapSteps

LEMMA OnlineReconcileK0sVersion ==
    ASSUME TypeOK, OnlineInv, ReconcileK0sVersion
    PROVE  EndedCopyInv' /\ RunningPlanStays
<1> USE DEF ReconcileK0sVersion, planVars, OnlineInv, EndedCopyInv, RunningPlanStays
<1>1. CASE StartAutopilotUpgrade
  BY <1>1 DEF StartAutopilotUpgrade, Running
<1>2. CASE DeleteEndedPlan
  BY <1>2 DEF DeleteEndedPlan, Running, HasThePlanEnded
<1>3. CASE SingleInstallation \/ MetadataUnavailable \/ RefuseDowngrade \/ K0sUpToDate
           \/ SetStateBasedOnPlan \/ WaitForOtherPlan
  BY <1>3 DEF SingleInstallation, MetadataUnavailable, RefuseDowngrade, K0sUpToDate,
              SetStateBasedOnPlan, WaitForOtherPlan, Running
<1> QED
  BY <1>1, <1>2, <1>3

LEMMA OnlineCli ==
    ASSUME ~AirGap, TypeOK, OnlineInv, NEW i \in Installations, Cli(i)
    PROVE  OnlineInv' /\ UNCHANGED <<plan, planCache>>
<1> USE DEF CliUnchanged, GoTo, AirgapSteps
<1>1. cli[i] \notin AirgapSteps
  BY DEF OnlineInv
<1>2. UNCHANGED <<plan, planCache>>
  BY <1>1 DEF Cli, CliBegin, CliEnsurePlan, CliDeletePlan, CliWaitDelete, CliCreatePlan,
              CliWaitPlan, CliPatchOperatorChart, CliWaitForOperatorChart,
              CliCreateInstallation, CliAbort
<1>3. PICK s \in CliSteps \ AirgapSteps : cli' = [cli EXCEPT ![i] = s]
  BY <1>1 DEF Cli, CliBegin, CliEnsurePlan, CliDeletePlan, CliWaitDelete, CliCreatePlan,
              CliWaitPlan, CliPatchOperatorChart, CliWaitForOperatorChart,
              CliCreateInstallation, CliAbort, CliSteps
<1>4. \A j \in Installations : cli'[j] \notin AirgapSteps
  BY <1>3 DEF OnlineInv, TypeOK
<1> QED
  BY <1>2, <1>4 DEF OnlineInv, EndedCopyInv, HasThePlanEnded

LEMMA OnlineStep ==
    ASSUME ~AirGap
    PROVE  TypeOK /\ OnlineInv /\ [Next]_vars => OnlineInv' /\ RunningPlanStays
<1> SUFFICES ASSUME TypeOK, OnlineInv, [Next]_vars PROVE OnlineInv' /\ RunningPlanStays
  OBVIOUS
<1> USE DEF vars, installVars, planVars, nodeVars, chartVars
<1>1. CASE ReconcileK0sVersion
  BY <1>1, OnlineReconcileK0sVersion DEF ReconcileK0sVersion, OnlineInv
<1>2. CASE Autopilot \/ AutopilotFail
  <2>1. AutopilotUnchanged
    BY <1>2 DEF Autopilot, AutopilotSchedule, AutopilotUpgradeNode, AutopilotComplete,
                AutopilotFail
  <2>2. plan \in Plans /\ ~HasThePlanEnded(plan) /\ plan' \in Plans
    <3>1. Running(plan)
      BY <1>2, AutopilotPlan DEF MovesPlan, UpgradesNode
    <3>2. plan' \in Plans
      BY <1>2, <3>1, AutopilotPlan, PlanVersionType
         DEF MovesPlan, UpgradesNode, Plans, PlanStates
    <3> QED
      BY <3>1, <3>2, PlanVersionType DEF Running, HasThePlanEnded
  <2>3. plan' # NoPlan
    BY <2>2, ConstantsAssumption DEF ConstantsAssumption
  <2>4. ~(planCache # NoPlan /\ HasThePlanEnded(planCache))
    BY <2>2, ConstantsAssumption DEF ConstantsAssumption, OnlineInv, EndedCopyInv
  <2> QED
    BY <2>1, <2>3, <2>4
       DEF AutopilotUnchanged, OnlineInv, EndedCopyInv, HasThePlanEnded, RunningPlanStays
<1>3. ASSUME NEW i \in Installations, Cli(i) PROVE OnlineInv' /\ RunningPlanStays
  BY <1>3, OnlineCli DEF RunningPlanStays, Running
<1>4. CASE SyncPlanCache \/ OperatorRollout
  BY <1>4 DEF SyncPlanCache, OperatorRollout, OnlineInv, EndedCopyInv, RunningPlanStays,
              Running
<1>5. CASE \/ Reconcile \/ ReconcileHelmCharts \/ UpdateStatus \/ DisableOldInstallations
           \/ ReportInstallationChanges \/ ReadClusterConfigFails \/ PrepareAddonsFails
           \/ Abort \/ HelmApply \/ UNCHANGED vars
  <2>1. UNCHANGED <<plan, planCache, cli>>
    BY <1>5 DEF Reconcile, ReconcileHelmCharts, UpdateStatus, DisableOldInstallations,
                ReportInstallationChanges, ReadClusterConfigFails, PrepareAddonsFails,
                Abort, HelmApply
  <2> QED
    BY <2>1 DEF OnlineInv, EndedCopyInv, HasThePlanEnded, RunningPlanStays, Running
<1> QED
  BY <1>1, <1>2, <1>3, <1>4, <1>5 DEF Next, OperatorStep

\* In a cluster that is not air gapped no running plan is ever deleted, however
\* stale the operator's copy of it is.
THEOREM OnlinePlansRunToTheirEnd ==
    ASSUME ~AirGap
    PROVE  Spec => RunningPlanNotDeleted
<1>1. TypeOK /\ OnlineInv /\ [Next]_vars => [RunningPlanStays]_vars
  BY OnlineStep
<1>2. TypeOK /\ OnlineInv /\ [Next]_vars => OnlineInv'
  BY OnlineStep
<1>3. Spec => [][RunningPlanStays]_vars
  BY <1>1, <1>2, TypeCorrect, OnlineInit, PTL DEF Spec
<1> QED
  BY <1>3 DEF RunningPlanNotDeleted, RunningPlanStays

-------------------------------------------------------------------------------
(* In an air gapped cluster an installation appears only when its images   *)
(* are on the nodes.  A command patches the chart only after a plan of its *)
(* installation has completed: its own, which put the images there, or one *)
(* that the operator started, for an installation that exists already.     *)

UploadedSteps == {"chart", "waitChart", "create"}

ImagesInv ==
    AirGap =>
        /\ exists \subseteq images
        /\ \A i \in Installations : cli[i] \in UploadedSteps => i \in images
        /\ plan # NoPlan /\ (plan.airgap => plan.state = "Completed") => plan.owner \in images

LEMMA ImagesInit == Init => ImagesInv
<1> SUFFICES ASSUME Init PROVE ImagesInv
  OBVIOUS
<1>1. exists = images /\ plan = NoPlan
  BY DEF Init
<1>2. \A i \in Installations : cli[i] \notin UploadedSteps
  BY DEF Init, UploadedSteps
<1> QED
  BY <1>1, <1>2 DEF ImagesInv

LEMMA ImagesCli ==
    ASSUME AirGap, TypeOK, ImagesInv, NEW i \in Installations, Cli(i)
    PROVE  ImagesInv'
<1> USE DEF CliUnchanged, GoTo, UploadedSteps
<1>0. /\ exists \subseteq images
      /\ \A j \in Installations : cli[j] \in UploadedSteps => j \in images
      /\ plan # NoPlan /\ (plan.airgap => plan.state = "Completed") => plan.owner \in images
  BY DEF ImagesInv
<1>1. UNCHANGED images
  BY DEF Cli, CliBegin, CliEnsurePlan, CliDeletePlan, CliWaitDelete, CliCreatePlan,
         CliWaitPlan, CliPatchOperatorChart, CliWaitForOperatorChart,
         CliCreateInstallation, CliAbort
<1>2. exists' \subseteq images
  <2>1. CASE CliCreateInstallation(i)
    BY <1>0, <2>1 DEF CliCreateInstallation
  <2>2. CASE ~CliCreateInstallation(i)
    BY <1>0, <2>2 DEF Cli, CliBegin, CliEnsurePlan, CliDeletePlan, CliWaitDelete,
       CliCreatePlan, CliWaitPlan, CliPatchOperatorChart, CliWaitForOperatorChart, CliAbort
  <2> QED
    BY <2>1, <2>2
<1>3. PICK s \in CliSteps : cli' = [cli EXCEPT ![i] = s]
  BY DEF Cli, CliBegin, CliEnsurePlan, CliDeletePlan, CliWaitDelete, CliCreatePlan,
         CliWaitPlan, CliPatchOperatorChart, CliWaitForOperatorChart,
         CliCreateInstallation, CliAbort, CliSteps
<1>4. cli'[i] \in UploadedSteps => i \in images
  <2>1. CASE CliWaitPlan(i)
    BY <1>0, <2>1 DEF CliWaitPlan, LivePlanOf, HasPlanSucceeded, TypeOK
  <2>2. CASE CliPatchOperatorChart(i) \/ CliWaitForOperatorChart(i)
    BY <1>0, <2>2 DEF CliPatchOperatorChart, CliWaitForOperatorChart
  <2>3. CASE \/ CliBegin(i) \/ CliEnsurePlan(i) \/ CliDeletePlan(i) \/ CliWaitDelete(i)
             \/ CliCreatePlan(i) \/ CliCreateInstallation(i) \/ CliAbort(i)
    BY <2>3, AirGap DEF CliBegin, CliEnsurePlan, CliDeletePlan, CliWaitDelete, CliCreatePlan,
       CliCreateInstallation, CliAbort, TypeOK
  <2> QED
    BY <2>1, <2>2, <2>3 DEF Cli
<1>5. \A j \in Installations : cli'[j] \in UploadedSteps => j \in images
  BY <1>0, <1>3, <1>4 DEF TypeOK
<1>6. plan' # NoPlan /\ (plan'.airgap => plan'.state = "Completed") => plan'.owner \in images
  <2>1. CASE CliCreatePlan(i)
    BY <1>0, <2>1, NewPlanType DEF CliCreatePlan
  <2>2. CASE CliDeletePlan(i)
    BY <2>2 DEF CliDeletePlan
  <2>3. CASE \/ CliBegin(i) \/ CliEnsurePlan(i) \/ CliWaitDelete(i) \/ CliWaitPlan(i)
             \/ CliPatchOperatorChart(i) \/ CliWaitForOperatorChart(i)
             \/ CliCreateInstallation(i) \/ CliAbort(i)
    BY <1>0, <2>3 DEF CliBegin, CliEnsurePlan, CliWaitDelete, CliWaitPlan,
       CliPatchOperatorChart, CliWaitForOperatorChart, CliCreateInstallation, CliAbort
  <2> QED
    BY <2>1, <2>2, <2>3 DEF Cli
<1> QED
  BY <1>1, <1>2, <1>5, <1>6 DEF ImagesInv

LEMMA ImagesStep == TypeOK /\ ListInv /\ ImagesInv /\ [Next]_vars => ImagesInv'
<1> SUFFICES ASSUME TypeOK, ListInv, ImagesInv, [Next]_vars, AirGap PROVE ImagesInv'
  BY DEF ImagesInv
<1> USE DEF vars, installVars, planVars, nodeVars, chartVars
<1>0. /\ exists \subseteq images
      /\ \A j \in Installations : cli[j] \in UploadedSteps => j \in images
      /\ plan # NoPlan /\ (plan.airgap => plan.state = "Completed") => plan.owner \in images
  BY DEF ImagesInv
<1>1. CASE ReconcileK0sVersion
  <2>1. UNCHANGED <<exists, images, cli>>
    BY <1>1 DEF ReconcileK0sVersion
  <2>2. plan' \in {plan, NoPlan} \/ plan' = NewPlan(rec.in, FALSE)
    BY <1>1, ReconcileK0sVersionPlan DEF KeepsPlan, RemovesPlan, StartsRollout
  <2>3. rec.in \in Installations /\ rec.in \in images
    BY <1>0, <1>1 DEF ReconcileK0sVersion, ListInv, IsNewest, TypeOK
  <2>4. plan' # NoPlan /\ (plan'.airgap => plan'.state = "Completed") => plan'.owner \in images
    BY <1>0, <2>2, <2>3, NewPlanType
  <2> QED
    BY <1>0, <2>1, <2>4 DEF ImagesInv
<1>2. ASSUME NEW i \in Installations, Cli(i) PROVE ImagesInv'
  BY <1>2, ImagesCli
<1>3. CASE Autopilot \/ AutopilotFail
  <2>1. UNCHANGED <<exists, cli>> /\ images \subseteq images'
    BY <1>3 DEF Autopilot, AutopilotSchedule, AutopilotUpgradeNode, AutopilotComplete,
                AutopilotFail, AutopilotUnchanged
  <2>2. plan \in Plans /\ plan # NoPlan
    <3>1. Running(plan)
      BY <1>3, AutopilotPlan DEF MovesPlan, UpgradesNode
    <3> QED
      BY <3>1, PlanVersionType DEF Running
  <2>3. (plan'.airgap => plan'.state = "Completed") => plan'.owner \in images'
    <3>1. CASE AutopilotComplete
      BY <1>0, <2>2, <3>1 DEF AutopilotComplete, SetPlanState, Plans
    <3>2. CASE AutopilotSchedule \/ AutopilotFail
      <4>1. UNCHANGED images
        BY <3>2 DEF AutopilotSchedule, AutopilotFail
      <4>2. PICK s \in {"SchedulableWait", "ApplyFailed"} : plan' = [plan EXCEPT !.state = s]
        BY <3>2, Zenon DEF AutopilotSchedule, AutopilotFail, SetPlanState
      <4>3. ~plan.airgap => plan.owner \in images
        BY <1>0, <2>2
      <4> QED
        BY <2>2, <4>1, <4>2, <4>3 DEF Plans
    <3>3. ASSUME NEW n \in Nodes, AutopilotUpgradeNode(n) PROVE UNCHANGED <<plan, images>>
      BY <3>3 DEF AutopilotUpgradeNode
    <3> QED
      BY <1>0, <1>3, <2>2, <3>1, <3>2, <3>3 DEF Autopilot
  <2> QED
    BY <1>0, <2>1, <2>3 DEF ImagesInv
<1>4. CASE \/ Reconcile \/ ReconcileHelmCharts \/ UpdateStatus \/ DisableOldInstallations
           \/ ReportInstallationChanges \/ ReadClusterConfigFails \/ PrepareAddonsFails
           \/ Abort \/ SyncPlanCache \/ HelmApply \/ OperatorRollout \/ UNCHANGED vars
  <2>1. UNCHANGED <<exists, plan, images, cli>>
    BY <1>4 DEF Reconcile, ReconcileHelmCharts, UpdateStatus, DisableOldInstallations,
                ReportInstallationChanges, ReadClusterConfigFails, PrepareAddonsFails,
                Abort, SyncPlanCache, HelmApply, OperatorRollout
  <2> QED
    BY <2>1 DEF ImagesInv
<1> QED
  BY <1>1, <1>2, <1>3, <1>4 DEF Next, OperatorStep

\* However commands overlap, fail and are run again, and whoever deletes or
\* replaces their plans, no installation of an air gapped cluster appears before
\* its images.
THEOREM ImagesComeFirst == Spec => []ImagesBeforeInstallation
<1>1. ImagesInv => ImagesBeforeInstallation
  BY DEF ImagesInv, ImagesBeforeInstallation
<1> QED
  BY <1>1, TypeCorrect, ListInit, ListStep, ImagesInit, ImagesStep, PTL DEF Spec
===============================================================================
