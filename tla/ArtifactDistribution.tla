------------------------- MODULE ArtifactDistribution -------------------------
(***************************************************************************)
(* How the upgrade command brings the artifacts of an air gapped           *)
(* installation to the nodes (airgapDistributeArtifacts): a job per node   *)
(* pulls them from the registry of the cluster; once the jobs have         *)
(* succeeded an autopilot plan imports the images.  The environment is the *)
(* job controller with the script of the job, autopilot, and nodes that    *)
(* join and leave.                                                         *)
(*                                                                         *)
(* Simplifications: of the artifacts only the file with the images is      *)
(* followed; the artifacts of an installation do not change, so that its   *)
(* name stands for its configuration hash too; the plan is replaced in one *)
(* step (K0sUpgrade has the steps); a node that has left stays away.       *)
(***************************************************************************)
EXTENDS Integers

CONSTANTS
    Nodes,
    JobNames,
    JobOf,          \* JobOf[n]: NameWithLengthLimit of the prefix and the node
    Last,           \* installations 1..Last are upgraded to
    Backoff,        \* attempts after the first before a job fails
    MaxFaults,      \* bound on commands that fail or are run again, and on nodes
                    \* that leave
    None            \* no job, no plan, no node

Installations == 1..Last
Jobs == [owner : Installations, node : Nodes, state : {"active", "succeeded", "failed"},
         attempts : 0..Backoff, deleting : BOOLEAN]
Plans == [owner : Installations, targets : SUBSET Nodes,
          state : {"running", "succeeded", "failed"}]

ASSUME ArtifactsAssumption ==
    /\ JobOf \in [Nodes -> JobNames]
    /\ Last \in Nat \ {0}
    /\ Backoff \in Nat
    /\ MaxFaults \in Nat
    /\ None \notin Jobs \cup Plans \cup Nodes

VARIABLES
    overlap,        \* may a command start while another one is running?
    members,        \* the nodes of the cluster
    left,           \* nodes that were removed
    cmd,            \* the upgrade command of every installation
    jobs,           \* the Job objects
    pods,           \* the script's step in the pod of an installation's job on a node
    download,       \* images-amd64.tar on a node: whose images, or 0
    files,          \* images-amd64-<name>.tar on a node: whose images, or 0
    plan,           \* the autopilot plan
    faults

nodeVars == <<members, left>>
fileVars == <<download, files>>
vars == <<overlap, nodeVars, cmd, jobs, pods, fileVars, plan, faults>>

CmdSteps == {"idle", "get", "delete", "waitDelete", "create", "poll", "plan", "waitPlan",
             "done", "failed"}
Running == CmdSteps \ {"idle", "done", "failed"}

TypeOK ==
    /\ overlap \in BOOLEAN
    /\ members \in SUBSET Nodes /\ left \in SUBSET Nodes
    /\ cmd \in [Installations -> [step : CmdSteps, todo : SUBSET Nodes,
                                  node : Nodes \cup {None}, ready : SUBSET Nodes]]
    /\ jobs \in [JobNames -> Jobs \cup {None}]
    /\ pods \in [Installations -> [Nodes -> {"none", "pull", "mv"}]]
    /\ download \in [Nodes -> {0} \cup Installations]
    /\ files \in [Nodes -> [Installations -> {0} \cup Installations]]
    /\ plan \in Plans \cup {None}
    /\ faults \in 0..MaxFaults

NotRun == [step |-> "idle", todo |-> {}, node |-> None, ready |-> {}]

Init ==
    /\ overlap \in BOOLEAN
    /\ members \in SUBSET Nodes \ {{}} /\ left = {}
    /\ cmd = [i \in Installations |-> NotRun]
    /\ jobs = [j \in JobNames |-> None]
    /\ pods = [i \in Installations |-> [n \in Nodes |-> "none"]]
    /\ download = [n \in Nodes |-> 0]
    /\ files = [n \in Nodes |-> [i \in Installations |-> 0]]
    /\ plan = None
    /\ faults = 0

Fault == faults < MaxFaults /\ faults' = faults + 1

-------------------------------------------------------------------------------
(* The upgrade command of installation i                                   *)

At(i, step) == cmd[i].step = step
GoTo(i, step) == cmd' = [cmd EXCEPT ![i].step = step]
End(i, step) == cmd' = [cmd EXCEPT ![i] = [NotRun EXCEPT !.step = step]]
CmdUnchanged == UNCHANGED <<overlap, nodeVars, pods, fileVars>>

\* The registry secret is copied, the nodes are listed.  Commands start in the
\* order of their installations; one that has failed may be run again.
Start(i) ==
    /\ \A j \in 1..(i - 1) : ~At(j, "idle")
    /\ overlap \/ \A j \in Installations : cmd[j].step \notin Running
    /\ \/ At(i, "idle") /\ UNCHANGED faults
       \/ At(i, "failed") /\ Fault
    /\ cmd' = [cmd EXCEPT ![i] = [step |-> "get", todo |-> members, node |-> None, ready |-> {}]]
    /\ UNCHANGED <<jobs, plan>> /\ CmdUnchanged

\* EnsureObject keeps the installation's job, whatever has become of it.
GetJob(i) ==
    /\ At(i, "get")
    /\ \/ \E n \in cmd[i].todo :
             LET job  == jobs[JobOf[n]]
                 kept == job # None /\ job.owner = i
             IN  cmd' = [cmd EXCEPT ![i] =
                     [cmd[i] EXCEPT !.todo = cmd[i].todo \ {n},
                                    !.node = IF kept THEN None ELSE n,
                                    !.step = CASE kept -> "get"
                                               [] job = None -> "create"
                                               [] ~kept /\ job # None -> "delete"]]
       \/ cmd[i].todo = {} /\ GoTo(i, "poll")
    /\ UNCHANGED <<jobs, plan, faults>> /\ CmdUnchanged

MutantDeletion(name) == jobs' = [jobs EXCEPT ![name] = None]
\* Foreground propagation: the job stays until its pod is gone.
Deletion(name) == jobs' = [jobs EXCEPT ![name].deleting = TRUE]

DeleteJob(i) ==
    /\ At(i, "delete")
    /\ LET name == JobOf[cmd[i].node]
       IN  \/ jobs[name] # None /\ Deletion(name) /\ GoTo(i, "waitDelete")
           \/ jobs[name] = None /\ End(i, "failed") /\ UNCHANGED jobs
    /\ UNCHANGED <<plan, faults>> /\ CmdUnchanged

WaitDelete(i) ==
    /\ At(i, "waitDelete")
    /\ jobs[JobOf[cmd[i].node]] = None
    /\ GoTo(i, "create")
    /\ UNCHANGED <<jobs, plan, faults>> /\ CmdUnchanged

CreateJob(i) ==
    /\ At(i, "create")
    /\ LET name == JobOf[cmd[i].node]
       IN  \/ /\ jobs[name] = None
              /\ jobs' = [jobs EXCEPT ![name] = [owner |-> i, node |-> cmd[i].node,
                              state |-> "active", attempts |-> 0, deleting |-> FALSE]]
              /\ cmd' = [cmd EXCEPT ![i].step = "get", ![i].node = None]
           \/ jobs[name] # None /\ End(i, "failed") /\ UNCHANGED jobs
    /\ UNCHANGED <<plan, faults>> /\ CmdUnchanged

\* Is there a job of this installation for the node, and in which state?
JobIs(i, n, states) ==
    LET job == jobs[JobOf[n]] IN job # None /\ job.owner = i /\ job.state \in states

MutantNotReady(i, n) == FALSE
\* A job that has neither succeeded nor failed is waited for.
NotReady(i, n) == ~JobIs(i, n, {"succeeded"})

MutantJobMissing(i, n) == FALSE
JobMissing(i, n) == ~JobIs(i, n, {"active", "succeeded", "failed"})

\* The nodes are listed anew at every poll.
Poll(i) ==
    /\ At(i, "poll")
    /\ \/ /\ \E n \in members : JobMissing(i, n) \/ JobIs(i, n, {"failed"})
          /\ End(i, "failed")
       \/ /\ ~\E n \in members : NotReady(i, n)
          /\ cmd' = [cmd EXCEPT ![i].step = "plan", ![i].ready = members]
    /\ UNCHANGED <<jobs, plan, faults>> /\ CmdUnchanged

MutantAirgapPlan(i) == [owner |-> i, targets |-> members, state |-> "new"]
\* All nodes there are, wherever the jobs ran.
AirgapPlan(i) == [owner |-> i, targets |-> members, state |-> "running"]

\* The plan of this installation is kept, that of another one replaced.
EnsureAirgapPlan(i) ==
    /\ At(i, "plan")
    /\ plan' = IF plan # None /\ plan.owner = i THEN plan ELSE AirgapPlan(i)
    /\ GoTo(i, "waitPlan")
    /\ UNCHANGED <<jobs, faults>> /\ CmdUnchanged

WaitPlan(i) ==
    /\ At(i, "waitPlan")
    /\ \/ plan.owner = i /\ plan.state = "succeeded" /\ End(i, "done")
       \/ (plan.owner # i \/ plan.state = "failed") /\ End(i, "failed")
    /\ UNCHANGED <<jobs, plan, faults>> /\ CmdUnchanged

\* A call fails, or the command is killed.
CommandFails(i) ==
    /\ cmd[i].step \in Running
    /\ Fault
    /\ End(i, "failed")
    /\ UNCHANGED <<jobs, plan>> /\ CmdUnchanged

Command(i) ==
    \/ GetJob(i) \/ DeleteJob(i) \/ WaitDelete(i) \/ CreateJob(i)
    \/ Poll(i) \/ EnsureAirgapPlan(i) \/ WaitPlan(i)

-------------------------------------------------------------------------------
(* The jobs                                                                *)

PodUnchanged == UNCHANGED <<overlap, nodeVars, cmd, plan>>
Pod(i, n, step) == pods' = [pods EXCEPT ![i][n] = step]

\* The job of installation i that runs on node n, if there is one.
HasJob(i, n) ==
    jobs[JobOf[n]] # None /\ jobs[JobOf[n]].owner = i /\ jobs[JobOf[n]].node = n

StartPod(i, n) ==
    /\ n \in members
    /\ HasJob(i, n)
    /\ jobs[JobOf[n]].state = "active" /\ ~jobs[JobOf[n]].deleting
    /\ pods[i][n] = "none"
    /\ Pod(i, n, "pull")
    /\ UNCHANGED <<jobs, fileVars, faults>> /\ PodUnchanged

Pull(i, n) ==
    /\ pods[i][n] = "pull"
    /\ download' = [download EXCEPT ![n] = i]
    /\ Pod(i, n, "mv")
    /\ UNCHANGED <<jobs, files, faults>> /\ PodUnchanged

JobState(i, n, state) ==
    jobs' = IF HasJob(i, n) THEN [jobs EXCEPT ![JobOf[n]].state = state] ELSE jobs

\* The images of other installations are removed, the download takes its name.
Move(i, n) ==
    /\ pods[i][n] = "mv"
    /\ download[n] # 0
    /\ files' = [files EXCEPT ![n] = [j \in Installations |-> IF j = i THEN download[n] ELSE 0]]
    /\ download' = [download EXCEPT ![n] = 0]
    /\ Pod(i, n, "none")
    /\ JobState(i, n, "succeeded")
    /\ UNCHANGED faults /\ PodUnchanged

\* A failed pod is replaced up to the limit; it may have removed the other images.
PodFails(i, n) ==
    /\ pods[i][n] # "none"
    /\ files' \in {files} \cup (IF pods[i][n] = "mv"
                               THEN {[files EXCEPT ![n] = [j \in Installations |-> 0]]} ELSE {})
    /\ Pod(i, n, "none")
    /\ IF HasJob(i, n) /\ jobs[JobOf[n]].attempts < Backoff
       THEN jobs' = [jobs EXCEPT ![JobOf[n]].attempts = @ + 1]
       ELSE JobState(i, n, "failed")
    /\ UNCHANGED <<download, faults>> /\ PodUnchanged

\* The pod of a job that is being deleted is killed, then the job removed.
FinishDeletion(name) ==
    /\ jobs[name] # None
    /\ jobs[name].deleting
    /\ pods' = [pods EXCEPT ![jobs[name].owner][jobs[name].node] = "none"]
    /\ jobs' = [jobs EXCEPT ![name] = None]
    /\ UNCHANGED <<fileVars, faults>> /\ PodUnchanged

JobController ==
    \/ \E i \in Installations, n \in Nodes :
          StartPod(i, n) \/ Pull(i, n) \/ Move(i, n) \/ PodFails(i, n)
    \/ \E name \in JobNames : FinishDeletion(name)

-------------------------------------------------------------------------------
(* The environment                                                         *)

\* Every node of the plan that is still there fetches the file, or the plan fails.
Autopilot ==
    /\ plan # None
    /\ plan.state = "running"
    /\ plan' = [plan EXCEPT !.state =
           IF \A n \in plan.targets \cap members : files[n][plan.owner] # 0
           THEN "succeeded" ELSE "failed"]
    /\ UNCHANGED <<overlap, nodeVars, cmd, jobs, pods, fileVars, faults>>

Join(n) ==
    /\ n \notin members \cup left
    /\ members' = members \cup {n}
    /\ UNCHANGED <<overlap, left, cmd, jobs, pods, fileVars, plan, faults>>

Leave(n) ==
    /\ n \in members /\ members # {n}
    /\ Fault
    /\ members' = members \ {n}
    /\ left' = left \cup {n}
    /\ pods' = [i \in Installations |-> [pods[i] EXCEPT ![n] = "none"]]
    /\ UNCHANGED <<overlap, cmd, jobs, fileVars, plan>>

Next ==
    \/ \E i \in Installations : Start(i) \/ Command(i) \/ CommandFails(i)
    \/ JobController
    \/ Autopilot
    \/ \E n \in Nodes : Join(n) \/ Leave(n)

Spec == Init /\ [][Next]_vars

\* A command polls until it is done; the job controller and autopilot make progress.
Fairness ==
    /\ \A i \in Installations : WF_vars(Command(i))
    /\ WF_vars(JobController)
    /\ WF_vars(Autopilot)

FairSpec == Spec /\ Fairness

-------------------------------------------------------------------------------
(* Properties                                                              *)

\* The succeeded job of an installation means its images on that node, although
\* commands of two installations delete each other's jobs and every script removes the
\* files of the others (ensureArtifactsJobForNode, the script of copyArtifactsJob).
SucceededMeansImages ==
    \A n \in members, i \in Installations :
        HasJob(i, n) /\ jobs[JobOf[n]].state = "succeeded" => files[n][i] = i

\* While a command that runs alone waits for its plan, the nodes of the plan which it
\* has seen ready have its images (ensureAirgapArtifactsOnNodes,
\* CreateAutopilotAirgapPlanCommand).
ReadyNodesHaveImages ==
    \A i \in Installations :
        ~overlap /\ At(i, "waitPlan") =>
            \A n \in plan.targets \cap cmd[i].ready : files[n][i] = i

\* A command that runs alone ends, whatever becomes of jobs and nodes meanwhile: it
\* never waits for a job that will not come (EnsureObject, ListArtifactsJobForNodes).
EveryCommandEnds ==
    \A i \in Installations :
        ~overlap /\ cmd[i].step \in Running ~> cmd[i].step \in {"done", "failed"}

\* upgrade.go:258 "once all assets are in place we can create the autopilot plan": a
\* plan that a lone command has just created finds the images on each of its nodes.
AssetsInPlace ==
    \A i \in Installations :
        ~overlap /\ At(i, "waitPlan") /\ plan.state = "running" =>
            \A n \in plan.targets \cap members : files[n][i] = i
===============================================================================
