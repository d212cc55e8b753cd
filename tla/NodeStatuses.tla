----------------------------- MODULE NodeStatuses -----------------------------
(***************************************************************************)
(* What a reconcile of the installation controller does about the nodes of *)
(* the cluster: it compares them with the statuses it has saved, creates a *)
(* job that copies the host preflight results of every new node, saves the *)
(* statuses, retires older installations and reports the changes to the    *)
(* metrics server.  The environment is the nodes, the job controller, the  *)
(* informer of the installations and the upgrades that create new ones.    *)
(*                                                                         *)
(* Simplifications: a node's hash stands for all that its event reports;   *)
(* `nodes` is the informer's view of the nodes, which are read only once   *)
(* per reconcile; what decides whether the reconcile ends early (an        *)
(* upgrade of k0s, an error of openebs, the registry or the charts) is a   *)
(* choice; the operator is of the newest installation's version            *)
(* (needsUpgrade); the installations are not air gapped.                   *)
(***************************************************************************)
EXTENDS Integers, FiniteSets, Functions

CONSTANTS
    Nodes,
    Hashes,         \* what a node may look like
    Absent,         \* "there is no such node", or no status of it
    Last,           \* installations 1..Last may come to exist
    MaxChanges,     \* bound on the changes of nodes
    MaxFaults       \* bound on failed calls and crashes

ASSUME NodesAssumption ==
    /\ Absent \notin Hashes
    /\ Last \in Nat \ {0}
    /\ MaxChanges \in Nat \ {0}
    /\ MaxFaults \in Nat

VARIABLES
    nodes,          \* the node objects
    newest,         \* the newest installation
    saved,          \* status.nodesStatus of every installation
    obsolete,       \* installations whose state is Obsolete
    cache,          \* the operator's informer copy of these three
    behind,         \* installations that have changed since that copy
    rec,            \* the reconcile in progress
    jobs,           \* nodes whose preflight job exists
    events,         \* how many events about every node were received
    faults

\* Auxiliary variables, for the bounds and the properties.
VARIABLES
    changes,        \* how often every node has changed
    without,        \* the installation whose save last took the node out of the
                    \* statuses; 0 once its job has been created since, NoJobYet
                    \* before its first job
    blind           \* installations that had no statuses of their own when a reconcile
                    \* began on a list in which an older one was behind

installVars == <<newest, saved, obsolete>>
cacheVars   == <<cache, behind>>
jobVars     == <<jobs, without>>
nodeVars    == <<nodes, changes>>
vars == <<nodeVars, installVars, cacheVars, rec, jobVars, events, faults, blind>>

Installations == 1..Last
Statuses == [Nodes -> Hashes \cup {Absent}]
NoStatuses == [n \in Nodes |-> Absent]
NoJobYet == Last + 1
Steps == {"idle", "nodes", "preflights", "k0s", "earlySave", "save", "disable",
          "disableFailed", "report"}

Idle == [step |-> "idle", in |-> 1, items |-> {}, stale |-> {}, before |-> NoStatuses,
         now |-> NoStatuses, todo |-> {}]

TypeOK ==
    /\ nodes \in Statuses
    /\ newest \in Installations
    /\ saved \in [Installations -> Statuses]
    /\ obsolete \in SUBSET Installations
    /\ cache \in [newest : Installations, saved : [Installations -> Statuses],
                  obsolete : SUBSET Installations]
    /\ behind \in SUBSET Installations
    /\ rec \in [step : Steps, in : Installations, items : SUBSET Installations,
                stale : SUBSET Installations, before : Statuses, now : Statuses,
                todo : SUBSET Nodes]
    /\ jobs \in SUBSET Nodes
    /\ events \in [Nodes -> Nat]
    /\ faults \in 0..MaxFaults
    /\ changes \in [Nodes -> Nat]
    /\ without \in [Nodes -> 0..NoJobYet]
    /\ blind \in SUBSET Installations

Stored == [newest |-> newest, saved |-> saved, obsolete |-> obsolete]

Init ==
    /\ nodes \in {s \in Statuses : \E n \in Nodes : {m \in Nodes : s[m] # Absent} = {n}}
    /\ newest = 1
    /\ saved = [i \in Installations |-> NoStatuses]
    /\ obsolete = {}
    /\ cache = [newest |-> 1, saved |-> [i \in Installations |-> NoStatuses], obsolete |-> {}]
    /\ behind = {}
    /\ rec = Idle
    /\ jobs = {}
    /\ events = [n \in Nodes |-> 0]
    /\ faults = 0
    /\ changes = [n \in Nodes |-> IF nodes[n] = Absent THEN 0 ELSE 1]
    /\ without = [n \in Nodes |-> NoJobYet]
    /\ blind = {}

Fault == faults < MaxFaults /\ faults' = faults + 1

-------------------------------------------------------------------------------
(* The reconcile                                                           *)

\* The statuses of the newest of the listed installations that has some.
MutantCoalesceInstallations(items, of) == of[CHOOSE i \in items : \A j \in items : j <= i]
CoalesceInstallations(items, of) ==
    LET with == {i \in items : of[i] # NoStatuses}
    IN  IF with = {} THEN NoStatuses ELSE of[CHOOSE i \in with : \A j \in with : j <= i]

\* The list is the informer's; an installation that is behind has another
\* resource version in the API server.
Reconcile ==
    /\ rec.step = "idle"
    /\ LET items == (1..cache.newest) \ cache.obsolete
           was == CoalesceInstallations(items, cache.saved)
       IN  /\ rec' = [Idle EXCEPT !.step = "nodes", !.in = cache.newest,
                                  !.items = items, !.stale = behind, !.before = was, !.now = was]
           /\ blind' = IF /\ cache.saved[cache.newest] = NoStatuses
                          /\ behind \cap (items \ {cache.newest}) # {}
                       THEN blind \cup {cache.newest}
                       ELSE blind
    /\ UNCHANGED <<nodeVars, installVars, cacheVars, jobVars, events, faults>>

\* An update fails on an object that has changed since it was read.
Conflict == rec.in \in rec.stale

SaveStatuses ==
    /\ saved' = [saved EXCEPT ![rec.in] = rec.now]
    /\ behind' = behind \cup {rec.in}
    /\ without' = [n \in Nodes |-> IF rec.before[n] # Absent /\ rec.now[n] = Absent
                                   THEN rec.in ELSE without[n]]

\* ReadClusterConfigSpecFromSecret fails: the state becomes Failed.
ConfigSecretFails ==
    /\ rec.step = "nodes"
    /\ Fault
    /\ \/ /\ ~Conflict /\ SaveStatuses
          /\ rec' = [rec EXCEPT !.step = "disableFailed"]
       \/ Conflict /\ rec' = Idle /\ UNCHANGED <<saved, behind, without>>
    /\ UNCHANGED <<nodeVars, newest, obsolete, cache, jobs, events, blind>>

MutantReconcileNodeStatuses ==
    /\ rec.step = "nodes"
    /\ rec' = [rec EXCEPT !.step = "preflights",
                          !.now = [n \in Nodes |-> IF nodes[n] = Absent THEN @[n] ELSE nodes[n]],
                          !.todo = {n \in Nodes : rec.before[n] = Absent /\ nodes[n] # Absent}]
    /\ UNCHANGED <<nodeVars, installVars, cacheVars, jobVars, events, faults, blind>>
\* The statuses of nodes that are gone are trimmed.
ReconcileNodeStatuses ==
    /\ rec.step = "nodes"
    /\ rec' = [rec EXCEPT !.step = "preflights", !.now = nodes,
                          !.todo = {n \in Nodes : rec.before[n] = Absent /\ nodes[n] # Absent}]
    /\ UNCHANGED <<nodeVars, installVars, cacheVars, jobVars, events, faults, blind>>

MutantRetryJob(n) == rec' = [rec EXCEPT !.step = "retry"]
MutantJobExists(n) == rec' = [rec EXCEPT !.todo = {}, !.step = "k0s"]
\* Create fails when the node's job exists, and with it the reconcile.
JobExists(n) == rec' = Idle

CopyHostPreflightResultsFromNodes ==
    /\ rec.step = "preflights"
    /\ \/ \E n \in rec.todo :
             \/ /\ n \notin jobs
                /\ jobs' = jobs \cup {n}
                /\ without' = [without EXCEPT ![n] = 0]
                /\ rec' = [rec EXCEPT !.todo = @ \ {n}]
             \/ n \in jobs /\ JobExists(n) /\ UNCHANGED jobVars
       \/ rec.todo = {} /\ rec' = [rec EXCEPT !.step = "k0s"] /\ UNCHANGED jobVars
    /\ UNCHANGED <<nodeVars, installVars, cacheVars, events, faults, blind>>

\* Anything but KubernetesInstalled ends the reconcile once it is saved, and so
\* does a failure of openebs or of the registry.
ReconcileK0sVersion ==
    /\ rec.step = "k0s"
    /\ \E next \in {"earlySave", "save"} : rec' = [rec EXCEPT !.step = next]
    /\ UNCHANGED <<nodeVars, installVars, cacheVars, jobVars, events, faults, blind>>

\* The saves that no report follows.
SaveUnreported ==
    /\ rec.step = "earlySave"
    /\ \/ ~Conflict /\ SaveStatuses
       \/ Conflict /\ UNCHANGED <<saved, behind, without>>
    /\ rec' = Idle
    /\ UNCHANGED <<nodeVars, newest, obsolete, cache, jobs, events, faults, blind>>

UpdateStatus ==
    /\ rec.step = "save"
    /\ \/ ~Conflict /\ SaveStatuses /\ rec' = [rec EXCEPT !.step = "disable"]
       \/ Conflict /\ rec' = Idle /\ UNCHANGED <<saved, behind, without>>
    /\ UNCHANGED <<nodeVars, newest, obsolete, cache, jobs, events, faults, blind>>

\* All that the list has after the newest.
MutantOldInstallations == {i \in rec.items : \E j \in rec.items : i < j /\ j < rec.in}
OldInstallations == rec.items \ {rec.in}

\* Errors are not reported back: what fails is retried by a later reconcile.
DisableOldInstallations ==
    /\ rec.step \in {"disable", "disableFailed"}
    /\ \E done \in SUBSET OldInstallations :
          /\ done \cap rec.stale = {}
          /\ \/ done = OldInstallations \ rec.stale /\ UNCHANGED faults
             \/ done # OldInstallations \ rec.stale /\ Fault
          /\ saved' = [i \in Installations |-> IF i \in done THEN NoStatuses ELSE saved[i]]
          /\ obsolete' = obsolete \cup done
          /\ behind' = behind \cup done
    /\ rec' = IF rec.step = "disable" THEN [rec EXCEPT !.step = "report"] ELSE Idle
    /\ UNCHANGED <<nodeVars, newest, cache, jobVars, events, blind>>

\* The batch of events: the nodes added, updated and removed.
Batch == {n \in Nodes : rec.now[n] # rec.before[n]}

\* A failed call is only logged; a crash loses the rest of the batch.
ReportNodesChanges ==
    /\ rec.step = "report"
    /\ \E received \in SUBSET Batch :
          /\ \/ received = Batch /\ UNCHANGED faults
             \/ received # Batch /\ Fault
          /\ events' = [n \in Nodes |-> events[n] + IF n \in received THEN 1 ELSE 0]
    /\ rec' = Idle
    /\ UNCHANGED <<nodeVars, installVars, cacheVars, jobVars, blind>>

Operator ==
    \/ Reconcile
    \/ ReconcileNodeStatuses
    \/ CopyHostPreflightResultsFromNodes
    \/ ReconcileK0sVersion
    \/ SaveUnreported
    \/ UpdateStatus
    \/ DisableOldInstallations
    \/ ReportNodesChanges

\* A call fails, or the operator crashes, and its informers start anew.
Abort ==
    /\ rec.step # "idle"
    /\ Fault
    /\ rec' = Idle
    /\ \/ UNCHANGED cacheVars
       \/ cache' = Stored /\ behind' = {}
    /\ UNCHANGED <<nodeVars, installVars, jobVars, events, blind>>

-------------------------------------------------------------------------------
(* The environment                                                         *)

Sync ==
    /\ cache # Stored \/ behind # {}
    /\ cache' = Stored
    /\ behind' = {}
    /\ UNCHANGED <<nodeVars, installVars, rec, jobVars, events, faults, blind>>

\* A node joins, is removed, or reports something new of itself; the operator runs
\* on one that stays.
NodeChanges(n) ==
    /\ FoldFunction(LAMBDA a, b : a + b, 0, changes) < MaxChanges
    /\ \E h \in (Hashes \cup {Absent}) \ {nodes[n]} : nodes' = [nodes EXCEPT ![n] = h]
    /\ nodes' # NoStatuses
    /\ changes' = [changes EXCEPT ![n] = @ + 1]
    /\ UNCHANGED <<installVars, cacheVars, rec, jobVars, events, faults, blind>>

\* A finished job is deleted at once.
JobEnds(n) ==
    /\ n \in jobs
    /\ jobs' = jobs \ {n}
    /\ UNCHANGED <<nodeVars, installVars, cacheVars, rec, without, events, faults, blind>>

NewInstallation ==
    /\ newest < Last
    /\ newest' = newest + 1
    /\ UNCHANGED <<nodeVars, saved, obsolete, cacheVars, rec, jobVars, events, faults, blind>>

Next ==
    \/ Operator
    \/ ConfigSecretFails
    \/ Abort
    \/ Sync
    \/ NewInstallation
    \/ \E n \in Nodes : NodeChanges(n) \/ JobEnds(n)

Spec == Init /\ [][Next]_vars

\* Reconciles recur (every hour, and at a change); jobs end.  The work queue
\* retries a failed reconcile ever later, so that an attempt which may begin when no
\* job is left does begin then.
Fairness ==
    /\ WF_vars(Operator)
    /\ SF_vars(jobs = {} /\ Reconcile)
    /\ WF_vars(Sync)
    /\ \A n \in Nodes : WF_vars(JobEnds(n))

FairSpec == Spec /\ Fairness

-------------------------------------------------------------------------------
(* Properties                                                              *)

Active == (1..newest) \ obsolete

\* A change of a node is reported again at most once for every installation that took the
\* statuses over from a list in which older installations were behind, whatever save
\* conflicts or crash comes between; never otherwise (CoalesceInstallations,
\* ReconcileNodeStatuses, UpdateStatus, ReportNodesChanges).
RepeatedOnlyFromOldLists ==
    \A n \in Nodes : events[n] <= changes[n] + Cardinality(blind)

\* A node has a status only if the job that copies its preflight results has been
\* created, and once an installation has dropped the status of a node it has one again
\* only after another job, whenever reconciles fail, conflict or read old copies
\* (CopyHostPreflightResultsFromNodes, whose jobs survive the reconcile).
PreflightsBeforeStatus ==
    \A n \in Nodes, i \in Active :
        saved[i][n] # Absent /\ (\A j \in Active : j > i => saved[j] = NoStatuses)
            => without[n] < i

\* If retries outlast the jobs, the statuses of the newest installation end up as the
\* nodes are, also when no reconcile gets any further than an upgrade of k0s that is in
\* progress or has failed (Reconcile, SaveUnreported).
StatusesFollowNodes ==
    []<>(rec.step = "idle" /\ jobs = {}) => <>[](saved[newest] = nodes)

\* If reconciles go on to get past the upgrade of k0s, in the end only the newest
\* installation is active, whatever updates of the older ones fail (DisableOldInstallations).
OldInstallationsRetired ==
    []<>(rec.step = "disable") => <>[](Active = {newest})

\* No change of a node is reported twice.
NoChangeReportedTwice ==
    \A n \in Nodes : events[n] <= changes[n]

\* A node has a status only if it has had its job since it was last without one.
JobSinceLastWithout ==
    \A n \in Nodes, i \in Active :
        saved[i][n] # Absent /\ (\A j \in Active : j > i => saved[j] = NoStatuses)
            => without[n] = 0

\* installation_controller.go:184 "a batch of events that need to be sent back to
\* the metrics endpoint": when no call fails, every node of the cluster is reported to
\* the metrics server in the end.
NodeEventsAreSent ==
    []<>(rec.step = "idle" /\ jobs = {}) =>
        <>[](\A n \in Nodes : nodes[n] # Absent => events[n] > 0)
===============================================================================
