---------------------- MODULE ArtifactDistributionProofs ----------------------
(* Theorems about ArtifactDistribution, for any nodes, job names (shared or    *)
(* not), installations, attempts and faults.                                   *)
EXTENDS ArtifactDistribution, TLAPS

CmdType == [step : CmdSteps, todo : SUBSET Nodes, node : Nodes \cup {None},
            ready : SUBSET Nodes]
PodSteps == {"none", "pull", "mv"}

\* A command that deals with a job does so for a node.
TypeInv ==
    /\ TypeOK
    /\ \A i \in Installations :
          cmd[i].step \in {"delete", "waitDelete", "create"} => cmd[i].node \in Nodes

LEMMA NotRunType == NotRun \in CmdType
BY DEF NotRun, CmdType, CmdSteps

LEMMA InitType == Init => TypeInv
<1> SUFFICES ASSUME Init PROVE TypeInv
  OBVIOUS
<1>1. cmd \in [Installations -> CmdType] /\ \A i \in Installations : cmd[i].step = "idle"
  BY NotRunType DEF Init, NotRun
<1>2. jobs \in [JobNames -> Jobs \cup {None}] /\ plan \in Plans \cup {None}
  BY DEF Init
<1>3. pods \in [Installations -> [Nodes -> PodSteps]]
  BY DEF Init, PodSteps
<1>4. /\ download \in [Nodes -> {0} \cup Installations]
      /\ files \in [Nodes -> [Installations -> {0} \cup Installations]]
  BY DEF Init
<1>5. /\ overlap \in BOOLEAN /\ members \in SUBSET Nodes /\ left \in SUBSET Nodes
      /\ faults \in 0..MaxFaults
  BY ArtifactsAssumption DEF Init, ArtifactsAssumption
<1> QED
  BY <1>1, <1>2, <1>3, <1>4, <1>5 DEF TypeInv, TypeOK, CmdType, PodSteps

\* The variables with a type of their own, as facts to cite.
LEMMA Types ==
    ASSUME TypeInv
    PROVE  /\ cmd \in [Installations -> CmdType]
           /\ jobs \in [JobNames -> Jobs \cup {None}]
           /\ pods \in [Installations -> [Nodes -> PodSteps]]
           /\ download \in [Nodes -> {0} \cup Installations]
           /\ files \in [Nodes -> [Installations -> {0} \cup Installations]]
           /\ plan \in Plans \cup {None}
           /\ members \in SUBSET Nodes
           /\ JobOf \in [Nodes -> JobNames]
           /\ None \notin Jobs
BY ArtifactsAssumption DEF TypeInv, TypeOK, CmdType, PodSteps, ArtifactsAssumption

LEMMA FaultType == ASSUME TypeInv, Fault PROVE faults' \in 0..MaxFaults
BY ArtifactsAssumption DEF TypeInv, TypeOK, Fault, ArtifactsAssumption

\* A command's new record: well typed, and with a node where it needs one.
GoodCmd(c) ==
    /\ c \in CmdType
    /\ c.step \in {"delete", "waitDelete", "create"} => c.node \in Nodes

LEMMA CmdStep ==
    ASSUME TypeInv, NEW i \in Installations, NEW c, GoodCmd(c), cmd' = [cmd EXCEPT ![i] = c]
    PROVE  /\ cmd' \in [Installations -> CmdType]
           /\ \A j \in Installations :
                 cmd'[j].step \in {"delete", "waitDelete", "create"} => cmd'[j].node \in Nodes
<1>1. cmd \in [Installations -> CmdType]
  BY Types
<1> QED
  BY <1>1 DEF GoodCmd, TypeInv

LEMMA EndIsGood ==
    ASSUME NEW step \in {"done", "failed"}
    PROVE  GoodCmd([NotRun EXCEPT !.step = step])
BY DEF NotRun, GoodCmd, CmdType, CmdSteps

\* A step that changes nothing but the place of the command.
LEMMA GoToIsGood ==
    ASSUME TypeInv, NEW i \in Installations, NEW step \in CmdSteps,
           step \in {"delete", "waitDelete", "create"} => cmd[i].node \in Nodes
    PROVE  GoodCmd([cmd[i] EXCEPT !.step = step])
<1>1. cmd[i] \in CmdType
  BY Types
<1> QED
  BY <1>1 DEF GoodCmd, CmdType

\* Every step of a command gives it a good record, and writes jobs and plan of their type.
LEMMA CommandType ==
    ASSUME TypeInv, NEW i \in Installations, Start(i) \/ Command(i) \/ CommandFails(i)
    PROVE  /\ \E c : GoodCmd(c) /\ cmd' = [cmd EXCEPT ![i] = c]
           /\ jobs' \in [JobNames -> Jobs \cup {None}]
           /\ plan' \in Plans \cup {None}
           /\ faults' \in 0..MaxFaults
<1> USE DEF At, GoTo, End
<1>0. cmd[i] \in CmdType /\ faults \in 0..MaxFaults /\ plan \in Plans \cup {None}
  BY Types DEF TypeInv, TypeOK
<1>1. CASE Start(i)
  <2> DEFINE c == [step |-> "get", todo |-> members, node |-> None, ready |-> {}]
  <2>1. GoodCmd(c)
    BY Types DEF GoodCmd, CmdType, CmdSteps
  <2>2. faults' \in 0..MaxFaults
    BY <1>0, <1>1, FaultType DEF Start
  <2> QED
    BY <1>0, <1>1, <2>1, <2>2, Types DEF Start
<1>2. CASE GetJob(i)
  <2>1. UNCHANGED <<jobs, plan, faults>>
    BY <1>2 DEF GetJob
  <2>3. CASE cmd[i].todo = {} /\ GoTo(i, "poll")
    BY <1>0, <2>1, <2>3, GoToIsGood, Types DEF CmdSteps
  <2>4. CASE ~(cmd[i].todo = {} /\ GoTo(i, "poll"))
    <3> DEFINE kept(n) == jobs[JobOf[n]] # None /\ jobs[JobOf[n]].owner = i
               step(n) == CASE kept(n) -> "get"
                            [] jobs[JobOf[n]] = None -> "create"
                            [] ~kept(n) /\ jobs[JobOf[n]] # None -> "delete"
               node(n) == IF kept(n) THEN None ELSE n
               c(n) == [cmd[i] EXCEPT !.todo = cmd[i].todo \ {n}, !.node = node(n), !.step = step(n)]
    <3>1. PICK n \in cmd[i].todo : cmd' = [cmd EXCEPT ![i] = c(n)]
      BY <1>2, <2>4 DEF GetJob
    <3>2. n \in Nodes
      BY <1>0 DEF CmdType
    <3>3. step(n) \in {"get", "create", "delete"} /\ (step(n) # "get" => node(n) = n)
      OBVIOUS
    <3>4. node(n) \in Nodes \cup {None}
      BY <3>2
    <3> HIDE DEF kept, step, node
    <3>5. GoodCmd(c(n))
      BY <1>0, <3>2, <3>3, <3>4 DEF GoodCmd, CmdType, CmdSteps
    <3> HIDE DEF c
    <3> QED
      BY <1>0, <2>1, <3>1, <3>5, Types
  <2> QED
    BY <1>0, <2>1, <2>3, <2>4, Types
<1>3. CASE DeleteJob(i)
  <2>1. UNCHANGED <<plan, faults>> /\ cmd[i].node \in Nodes
    BY <1>3 DEF DeleteJob, TypeInv
  <2>2. CASE Deletion(JobOf[cmd[i].node]) /\ GoTo(i, "waitDelete") /\ jobs[JobOf[cmd[i].node]] # None
    <3> DEFINE name == JobOf[cmd[i].node]
    <3>1. jobs[name] \in Jobs /\ [jobs[name] EXCEPT !.deleting = TRUE] \in Jobs
      BY <2>1, <2>2, Types DEF Jobs
    <3>2. jobs' \in [JobNames -> Jobs \cup {None}]
      BY <2>2, <3>1, Types DEF Deletion
    <3> QED
      BY <1>0, <2>1, <2>2, <3>2, GoToIsGood DEF CmdSteps
  <2>3. CASE End(i, "failed") /\ UNCHANGED jobs
    BY <1>0, <2>1, <2>3, EndIsGood, Types
  <2> QED
    BY <1>3, <2>2, <2>3 DEF DeleteJob
<1>4. CASE WaitDelete(i)
  <2>1. cmd[i].node \in Nodes
    BY <1>4 DEF WaitDelete, TypeInv
  <2> QED
    BY <1>0, <1>4, <2>1, GoToIsGood, Types DEF WaitDelete, CmdSteps
<1>5. CASE CreateJob(i)
  <2> DEFINE name == JobOf[cmd[i].node]
             job  == [owner |-> i, node |-> cmd[i].node,
                      state |-> "active", attempts |-> 0, deleting |-> FALSE]
             c    == [cmd[i] EXCEPT !.step = "get", !.node = None]
  <2>1. UNCHANGED <<plan, faults>> /\ cmd[i].node \in Nodes
    BY <1>5 DEF CreateJob, TypeInv
  <2>2. job \in Jobs
    BY <2>1, ArtifactsAssumption DEF Jobs, ArtifactsAssumption
  <2>3. GoodCmd(c)
    BY <1>0 DEF GoodCmd, CmdType, CmdSteps
  <2>4. CASE jobs' = [jobs EXCEPT ![name] = job]
             /\ cmd' = [cmd EXCEPT ![i].step = "get", ![i].node = None]
    <3>1. jobs' \in [JobNames -> Jobs \cup {None}]
      BY <2>2, <2>4, Types
    <3>2. cmd' = [cmd EXCEPT ![i] = c]
      BY <1>0, <2>4, Types DEF CmdType
    <3> HIDE DEF c, job
    <3> QED
      BY <1>0, <2>1, <2>3, <3>1, <3>2
  <2>5. CASE End(i, "failed") /\ UNCHANGED jobs
    BY <1>0, <2>1, <2>5, EndIsGood, Types
  <2> QED
    BY <1>5, <2>4, <2>5 DEF CreateJob
<1>6. CASE Poll(i)
  <2>1. UNCHANGED <<jobs, plan, faults>>
    BY <1>6 DEF Poll
  <2>2. CASE End(i, "failed")
    BY <1>0, <2>1, <2>2, EndIsGood, Types
  <2>3. CASE cmd' = [cmd EXCEPT ![i].step = "plan", ![i].ready = members]
    <3> DEFINE c == [cmd[i] EXCEPT !.step = "plan", !.ready = members]
    <3>1. GoodCmd(c)
      BY <1>0, Types DEF GoodCmd, CmdType, CmdSteps
    <3>2. cmd' = [cmd EXCEPT ![i] = c]
      BY <1>0, <2>3, Types DEF CmdType
    <3> HIDE DEF c
    <3> QED
      BY <1>0, <2>1, <3>1, <3>2, Types
  <2> QED
    BY <1>6, <2>2, <2>3 DEF Poll
<1>7. CASE EnsureAirgapPlan(i)
  <2>1. AirgapPlan(i) \in Plans
    BY Types DEF AirgapPlan, Plans
  <2>2. plan' \in Plans \cup {None}
    BY <1>0, <1>7, <2>1 DEF EnsureAirgapPlan
  <2> QED
    BY <1>0, <1>7, <2>2, GoToIsGood, Types DEF EnsureAirgapPlan, CmdSteps
<1>8. CASE WaitPlan(i)
  BY <1>0, <1>8, EndIsGood, Types DEF WaitPlan
<1>9. CASE CommandFails(i)
  BY <1>0, <1>9, EndIsGood, FaultType, Types DEF CommandFails
<1> QED
  BY <1>1, <1>2, <1>3, <1>4, <1>5, <1>6, <1>7, <1>8, <1>9 DEF Command

LEMMA PodStep ==
    ASSUME TypeInv, NEW i \in Installations, NEW n \in Nodes, NEW step \in PodSteps,
           Pod(i, n, step)
    PROVE  /\ pods' \in [Installations -> [Nodes -> PodSteps]]
           /\ pods'[i][n] = step
           /\ \A j \in Installations, m \in Nodes :
                 j # i \/ m # n => pods'[j][m] = pods[j][m]
BY Types DEF Pod

\* The end of a job changes its state, and no other job.
LEMMA JobStateStep ==
    ASSUME TypeInv, NEW i \in Installations, NEW n \in Nodes,
           NEW state \in {"active", "succeeded", "failed"}, JobState(i, n, state)
    PROVE  jobs' \in [JobNames -> Jobs \cup {None}]
<1>1. CASE HasJob(i, n)
  <2>1. jobs[JobOf[n]] \in Jobs /\ JobOf[n] \in JobNames
    BY <1>1, Types DEF HasJob
  <2>2. [jobs[JobOf[n]] EXCEPT !.state = state] \in Jobs
    BY <2>1 DEF Jobs
  <2>3. jobs' = [jobs EXCEPT ![JobOf[n]].state = state]
    BY <1>1 DEF JobState
  <2> QED
    BY <2>1, <2>2, <2>3, Types
<1>2. CASE ~HasJob(i, n)
  BY <1>2, Types DEF JobState
<1> QED
  BY <1>1, <1>2

\* What the steps of a pod write has its type.
LEMMA PodType ==
    ASSUME TypeInv, NEW i \in Installations, NEW n \in Nodes,
           StartPod(i, n) \/ Pull(i, n) \/ Move(i, n) \/ PodFails(i, n)
    PROVE  /\ pods' \in [Installations -> [Nodes -> PodSteps]]
           /\ jobs' \in [JobNames -> Jobs \cup {None}]
           /\ download' \in [Nodes -> {0} \cup Installations]
           /\ files' \in [Nodes -> [Installations -> {0} \cup Installations]]
<1>1. CASE StartPod(i, n)
  BY <1>1, PodStep, Types DEF StartPod, PodSteps, fileVars
<1>2. CASE Pull(i, n)
  BY <1>2, PodStep, Types DEF Pull, PodSteps
<1>3. CASE Move(i, n)
  <2>1. jobs' \in [JobNames -> Jobs \cup {None}]
    BY <1>3, JobStateStep DEF Move
  <2>2. pods' \in [Installations -> [Nodes -> PodSteps]]
    BY <1>3, PodStep DEF Move, PodSteps
  <2>3. download[n] \in {0} \cup Installations
    BY Types
  <2>4. [j \in Installations |-> IF j = i THEN download[n] ELSE 0]
            \in [Installations -> {0} \cup Installations]
    BY <2>3
  <2>5. files' \in [Nodes -> [Installations -> {0} \cup Installations]]
    BY <1>3, <2>4, Types DEF Move
  <2> QED
    BY <1>3, <2>1, <2>2, <2>5, Types DEF Move
<1>4. CASE PodFails(i, n)
  <2>1. pods' \in [Installations -> [Nodes -> PodSteps]]
    BY <1>4, PodStep DEF PodFails, PodSteps
  <2>2. files' \in [Nodes -> [Installations -> {0} \cup Installations]]
    <3>1. [j \in Installations |-> 0] \in [Installations -> {0} \cup Installations]
      OBVIOUS
    <3> QED
      BY <1>4, <3>1, Types DEF PodFails
  <2>3. jobs' \in [JobNames -> Jobs \cup {None}]
    <3>1. CASE HasJob(i, n) /\ jobs[JobOf[n]].attempts < Backoff
      <4>1. jobs[JobOf[n]] \in Jobs /\ JobOf[n] \in JobNames
        BY <3>1, Types DEF HasJob
      <4>2. jobs[JobOf[n]].attempts + 1 \in 0..Backoff
        BY <3>1, <4>1, ArtifactsAssumption DEF Jobs, ArtifactsAssumption
      <4>3. [jobs[JobOf[n]] EXCEPT !.attempts = @ + 1] \in Jobs
        BY <4>1, <4>2 DEF Jobs
      <4> QED
        BY <1>4, <3>1, <4>1, <4>3, Types DEF PodFails
    <3>2. CASE ~(HasJob(i, n) /\ jobs[JobOf[n]].attempts < Backoff)
      BY <1>4, <3>2, JobStateStep DEF PodFails
    <3> QED
      BY <3>1, <3>2
  <2> QED
    BY <1>4, <2>1, <2>2, <2>3, Types DEF PodFails
<1> QED
  BY <1>1, <1>2, <1>3, <1>4

LEMMA NextType == TypeInv /\ [Next]_vars => TypeInv'
<1> SUFFICES ASSUME TypeInv, [Next]_vars PROVE TypeInv'
  OBVIOUS
<1> USE DEF nodeVars, fileVars
<1>1. ASSUME NEW i \in Installations, Start(i) \/ Command(i) \/ CommandFails(i)
      PROVE  TypeInv'
  <2>1. PICK c : GoodCmd(c) /\ cmd' = [cmd EXCEPT ![i] = c]
    BY <1>1, CommandType
  <2>2. /\ jobs' \in [JobNames -> Jobs \cup {None}]
        /\ plan' \in Plans \cup {None}
        /\ faults' \in 0..MaxFaults
    BY <1>1, CommandType
  <2>3. /\ cmd' \in [Installations -> CmdType]
        /\ \A j \in Installations :
              cmd'[j].step \in {"delete", "waitDelete", "create"} => cmd'[j].node \in Nodes
    BY <2>1, CmdStep
  <2>4. CmdUnchanged
    BY <1>1 DEF Start, Command, CommandFails, GetJob, DeleteJob, WaitDelete, CreateJob,
                Poll, EnsureAirgapPlan, WaitPlan
  <2> QED
    BY <2>2, <2>3, <2>4 DEF TypeInv, TypeOK, CmdType, CmdUnchanged
<1>2. ASSUME NEW i \in Installations, NEW n \in Nodes,
             StartPod(i, n) \/ Pull(i, n) \/ Move(i, n) \/ PodFails(i, n)
      PROVE  TypeInv'
  <2>1. PodUnchanged /\ UNCHANGED faults
    BY <1>2 DEF StartPod, Pull, Move, PodFails
  <2> QED
    BY <1>2, <2>1, PodType DEF TypeInv, TypeOK, PodSteps, PodUnchanged
<1>3. ASSUME NEW name \in JobNames, FinishDeletion(name)
      PROVE  TypeInv'
  <2>1. jobs[name] \in Jobs
    BY <1>3, Types DEF FinishDeletion
  <2>2. pods' \in [Installations -> [Nodes -> PodSteps]]
    BY <1>3, <2>1, Types DEF FinishDeletion, Jobs, PodSteps
  <2>3. jobs' \in [JobNames -> Jobs \cup {None}]
    BY <1>3, Types DEF FinishDeletion
  <2> QED
    BY <1>3, <2>2, <2>3 DEF FinishDeletion, PodUnchanged, TypeInv, TypeOK, PodSteps
<1>4. CASE Autopilot
  <2>1. plan' \in Plans
    BY <1>4, Types DEF Autopilot, Plans
  <2> QED
    BY <1>4, <2>1 DEF Autopilot, TypeInv, TypeOK
<1>5. ASSUME NEW n \in Nodes, Join(n)
      PROVE  TypeInv'
  BY <1>5 DEF Join, TypeInv, TypeOK
<1>6. ASSUME NEW n \in Nodes, Leave(n)
      PROVE  TypeInv'
  <2>1. pods' \in [Installations -> [Nodes -> PodSteps]]
    BY <1>6, Types DEF Leave, PodSteps
  <2> QED
    BY <1>6, <2>1, FaultType DEF Leave, TypeInv, TypeOK, PodSteps
<1>7. CASE UNCHANGED vars
  BY <1>7 DEF vars, TypeInv, TypeOK
<1> QED
  BY <1>1, <1>2, <1>3, <1>4, <1>5, <1>6, <1>7 DEF Next, JobController

\* The commands, the jobs, the files on the nodes and the plan have their types, and a
\* command about to delete or create a job does so for a node
\* (ensureArtifactsJobForNode).
THEOREM ArtifactsTypeCorrect == Spec => []TypeOK
<1>1. TypeInv => TypeOK
  BY DEF TypeInv
<1> QED
  BY InitType, NextType, <1>1, PTL DEF Spec

-------------------------------------------------------------------------------
\* A pod belongs to an active job, because a job outlives its pod; of the pods on a
\* node only one runs, so that the download a pod renames is its own.
PodsHaveJobs ==
    \A i \in Installations, n \in Nodes :
        pods[i][n] # "none" => HasJob(i, n) /\ jobs[JobOf[n]].state = "active"
OwnDownload ==
    \A i \in Installations, n \in Nodes : pods[i][n] = "mv" => download[n] = i
\* Of every node, so that it does not matter which ones are members.
ImagesOfSucceeded ==
    \A i \in Installations, n \in Nodes :
        HasJob(i, n) /\ jobs[JobOf[n]].state = "succeeded" => files[n][i] = i

PodInv == PodsHaveJobs /\ OwnDownload /\ ImagesOfSucceeded
IndInv == TypeInv /\ PodInv

LEMMA InitInd == Init => IndInv
<1> SUFFICES ASSUME Init PROVE PodInv
  BY InitType DEF IndInv
<1>1. \A n \in Nodes : jobs[JobOf[n]] = None
  BY ArtifactsAssumption DEF Init, ArtifactsAssumption
<1>2. \A i \in Installations, n \in Nodes : pods[i][n] = "none"
  BY DEF Init
<1> QED
  BY <1>1, <1>2 DEF PodInv, PodsHaveJobs, OwnDownload, ImagesOfSucceeded, HasJob

\* Two installations have no pod on the same node, nor one a pod where the job of the
\* other has succeeded.
LEMMA OnePod ==
    ASSUME IndInv, NEW i \in Installations, NEW n \in Nodes, pods[i][n] # "none"
    PROVE  /\ HasJob(i, n) /\ jobs[JobOf[n]].state = "active"
           /\ \A j \in Installations \ {i} : pods[j][n] = "none" /\ ~HasJob(j, n)
BY DEF IndInv, PodInv, PodsHaveJobs, HasJob

\* What a command does to the jobs: nothing, a mark, or a new active job.
LEMMA CommandJobs ==
    ASSUME IndInv, NEW i \in Installations, Start(i) \/ Command(i) \/ CommandFails(i)
    PROVE  \/ UNCHANGED jobs
           \/ \E name \in JobNames : jobs[name] # None /\ Deletion(name)
           \/ \E name \in JobNames, job \in Jobs :
                 /\ jobs[name] = None /\ job.state = "active"
                 /\ jobs' = [jobs EXCEPT ![name] = job]
<1>1. CASE DeleteJob(i)
  <2>1. JobOf[cmd[i].node] \in JobNames
    BY <1>1, Types DEF DeleteJob, At, IndInv, TypeInv
  <2> QED
    BY <1>1, <2>1 DEF DeleteJob
<1>2. CASE CreateJob(i)
  <2> DEFINE name == JobOf[cmd[i].node]
             job  == [owner |-> i, node |-> cmd[i].node,
                      state |-> "active", attempts |-> 0, deleting |-> FALSE]
  <2>1. cmd[i].node \in Nodes
    BY <1>2 DEF CreateJob, At, IndInv, TypeInv
  <2>2. name \in JobNames /\ job \in Jobs
    BY <2>1, Types, ArtifactsAssumption DEF Jobs, IndInv, ArtifactsAssumption
  <2>3. UNCHANGED jobs \/ (jobs[name] = None /\ jobs' = [jobs EXCEPT ![name] = job])
    BY <1>2 DEF CreateJob
  <2>4. job.state = "active"
    OBVIOUS
  <2> HIDE DEF name, job
  <2> QED
    BY <2>2, <2>3, <2>4
<1>3. CASE ~DeleteJob(i) /\ ~CreateJob(i)
  BY <1>3 DEF Start, Command, CommandFails, GetJob, WaitDelete, Poll, EnsureAirgapPlan,
              WaitPlan
<1> QED
  BY <1>1, <1>2, <1>3

LEMMA CommandInd ==
    ASSUME IndInv, NEW i \in Installations, Start(i) \/ Command(i) \/ CommandFails(i)
    PROVE  PodInv'
<1>1. UNCHANGED <<pods, download, files>>
  BY DEF CmdUnchanged, fileVars, Start, Command, CommandFails, GetJob, DeleteJob,
         WaitDelete, CreateJob, Poll, EnsureAirgapPlan, WaitPlan
<1>2. CASE UNCHANGED jobs
  BY <1>1, <1>2 DEF IndInv, PodInv, PodsHaveJobs, OwnDownload, ImagesOfSucceeded, HasJob
<1>3. ASSUME NEW name \in JobNames, jobs[name] # None, Deletion(name)
      PROVE  PodInv'
  <2>1. jobs[name] \in Jobs
    BY <1>3, Types DEF IndInv
  <2>2. jobs' = [jobs EXCEPT ![name] = [jobs[name] EXCEPT !.deleting = TRUE]]
    BY <1>3, <2>1 DEF Deletion
  <2>3. \A j \in Installations, n \in Nodes :
           /\ HasJob(j, n)' <=> HasJob(j, n)
           /\ HasJob(j, n) => jobs'[JobOf[n]].state = jobs[JobOf[n]].state
    <3> SUFFICES ASSUME NEW j \in Installations, NEW n \in Nodes
                 PROVE  /\ HasJob(j, n)' <=> HasJob(j, n)
                        /\ HasJob(j, n) => jobs'[JobOf[n]].state = jobs[JobOf[n]].state
      OBVIOUS
    <3>1. JobOf[n] \in JobNames /\ jobs \in [JobNames -> Jobs \cup {None}] /\ None \notin Jobs
      BY Types DEF IndInv
    <3>2. [jobs[name] EXCEPT !.deleting = TRUE] \in Jobs
      BY <2>1 DEF Jobs
    <3>3. CASE JobOf[n] = name
      BY <1>3, <2>1, <2>2, <3>1, <3>2, <3>3 DEF HasJob, Jobs
    <3>4. CASE JobOf[n] # name
      BY <2>2, <3>1, <3>4 DEF HasJob
    <3> QED
      BY <3>3, <3>4
  <2> QED
    BY <1>1, <2>3 DEF IndInv, PodInv, PodsHaveJobs, OwnDownload, ImagesOfSucceeded
<1>4. ASSUME NEW name \in JobNames, NEW job \in Jobs, jobs[name] = None,
             job.state = "active", jobs' = [jobs EXCEPT ![name] = job]
      PROVE  PodInv'
  <2>1. \A n \in Nodes :
           /\ JobOf[n] \in JobNames
           /\ JobOf[n] # name => jobs'[JobOf[n]] = jobs[JobOf[n]]
           /\ JobOf[n] = name => jobs'[JobOf[n]].state = "active"
    BY <1>4, Types DEF IndInv
  <2>2. \A j \in Installations, n \in Nodes : JobOf[n] = name => ~HasJob(j, n)
    BY <1>4 DEF HasJob
  <2> QED
    BY <1>1, <2>1, <2>2 DEF IndInv, PodInv, PodsHaveJobs, OwnDownload, ImagesOfSucceeded,
                            HasJob
<1> QED
  BY <1>2, <1>3, <1>4, CommandJobs

\* A pod starts or pulls: no job changes, and the download is of the only pod there is.
LEMMA PodRunsInd ==
    ASSUME IndInv, NEW i \in Installations, NEW n \in Nodes, StartPod(i, n) \/ Pull(i, n)
    PROVE  PodInv'
<1>1. UNCHANGED <<jobs, files>>
  BY DEF StartPod, Pull, fileVars
<1>2. ImagesOfSucceeded'
  BY <1>1 DEF IndInv, PodInv, ImagesOfSucceeded, HasJob
<1>3. HasJob(i, n) /\ jobs[JobOf[n]].state = "active"
  BY OnePod DEF StartPod, Pull
<1>4. /\ \A j \in Installations, m \in Nodes : j # i \/ m # n => pods'[j][m] = pods[j][m]
  BY PodStep DEF StartPod, Pull, PodSteps, IndInv
<1>5. PodsHaveJobs'
  BY <1>1, <1>3, <1>4 DEF IndInv, PodInv, PodsHaveJobs, HasJob
<1>6. OwnDownload'
  <2>1. CASE StartPod(i, n)
    <3>1. pods'[i][n] = "pull" /\ UNCHANGED download
      BY <2>1, PodStep DEF StartPod, PodSteps, IndInv, fileVars
    <3> QED
      BY <1>4, <3>1 DEF IndInv, PodInv, OwnDownload
  <2>2. CASE Pull(i, n)
    <3>1. download'[n] = i /\ \A m \in Nodes \ {n} : download'[m] = download[m]
      BY <2>2, Types DEF Pull, IndInv
    <3>2. \A j \in Installations \ {i} : pods[j][n] = "none"
      BY <2>2, OnePod DEF Pull
    <3> QED
      BY <1>4, <3>1, <3>2 DEF IndInv, PodInv, OwnDownload
  <2> QED
    BY <2>1, <2>2
<1> QED
  BY <1>2, <1>5, <1>6 DEF PodInv

\* The script ends: the download has become the images of its installation.
LEMMA MoveInd ==
    ASSUME IndInv, NEW i \in Installations, NEW n \in Nodes, Move(i, n)
    PROVE  PodInv'
<1>1. /\ HasJob(i, n) /\ jobs[JobOf[n]].state = "active" /\ download[n] = i
      /\ \A j \in Installations \ {i} : pods[j][n] = "none" /\ ~HasJob(j, n)
  BY OnePod DEF Move, IndInv, PodInv, OwnDownload
<1>2. /\ pods'[i][n] = "none"
      /\ \A j \in Installations, m \in Nodes : j # i \/ m # n => pods'[j][m] = pods[j][m]
  BY PodStep DEF Move, PodSteps, IndInv
<1>3. /\ files'[n][i] = i
      /\ \A m \in Nodes \ {n} : files'[m] = files[m] /\ download'[m] = download[m]
  BY <1>1, Types DEF Move, IndInv
<1> DEFINE job == [jobs[JobOf[n]] EXCEPT !.state = "succeeded"]
<1>4. /\ job \in Jobs /\ job.owner = i /\ job.node = n
      /\ jobs' = [jobs EXCEPT ![JobOf[n]] = job]
  <2>1. jobs[JobOf[n]] \in Jobs
    BY <1>1, Types DEF HasJob, IndInv
  <2> QED
    BY <1>1, <2>1 DEF Move, JobState, HasJob, Jobs
<1> HIDE DEF job
<1>5. \A j \in Installations, m \in Nodes :
         /\ HasJob(j, m)' <=> HasJob(j, m)
         /\ HasJob(j, m) /\ (j # i \/ m # n) => jobs'[JobOf[m]] = jobs[JobOf[m]]
  BY <1>1, <1>4, Types DEF IndInv, HasJob
<1>6. PodsHaveJobs'
  BY <1>2, <1>5 DEF IndInv, PodInv, PodsHaveJobs
<1>7. OwnDownload'
  BY <1>1, <1>2, <1>3 DEF IndInv, PodInv, OwnDownload
<1>8. ImagesOfSucceeded'
  BY <1>1, <1>3, <1>5 DEF IndInv, PodInv, ImagesOfSucceeded
<1> QED
  BY <1>6, <1>7, <1>8 DEF PodInv

\* A pod that fails takes files from its node only while its job, which is the one
\* job there, has not succeeded.
LEMMA PodFailsInd ==
    ASSUME IndInv, NEW i \in Installations, NEW n \in Nodes, PodFails(i, n)
    PROVE  PodInv'
<1>1. /\ HasJob(i, n) /\ jobs[JobOf[n]].state = "active"
      /\ \A j \in Installations \ {i} : pods[j][n] = "none" /\ ~HasJob(j, n)
  BY OnePod DEF PodFails
<1>2. /\ pods'[i][n] = "none"
      /\ \A j \in Installations, m \in Nodes : j # i \/ m # n => pods'[j][m] = pods[j][m]
  BY PodStep DEF PodFails, PodSteps, IndInv
<1>3. \A m \in Nodes \ {n} : files'[m] = files[m]
  BY Types DEF PodFails, IndInv
<1>4. PICK job \in Jobs :
         /\ job.owner = i /\ job.node = n /\ job.state # "succeeded"
         /\ jobs' = [jobs EXCEPT ![JobOf[n]] = job]
  <2>1. jobs[JobOf[n]] \in Jobs
    BY <1>1, Types DEF HasJob, IndInv
  <2>2. CASE jobs[JobOf[n]].attempts < Backoff
    <3> DEFINE job == [jobs[JobOf[n]] EXCEPT !.attempts = @ + 1]
    <3>1. jobs[JobOf[n]].attempts + 1 \in 0..Backoff
      BY <2>1, <2>2, ArtifactsAssumption DEF Jobs, ArtifactsAssumption
    <3>2. job \in Jobs /\ job.owner = i /\ job.node = n /\ job.state # "succeeded"
      BY <1>1, <2>1, <3>1 DEF HasJob, Jobs
    <3>3. jobs' = [jobs EXCEPT ![JobOf[n]] = job]
      BY <1>1, <2>2 DEF PodFails
    <3> HIDE DEF job
    <3> QED
      BY <3>2, <3>3
  <2>3. CASE ~(jobs[JobOf[n]].attempts < Backoff)
    <3> DEFINE job == [jobs[JobOf[n]] EXCEPT !.state = "failed"]
    <3>1. job \in Jobs /\ job.owner = i /\ job.node = n /\ job.state # "succeeded"
      BY <1>1, <2>1 DEF HasJob, Jobs
    <3>2. jobs' = [jobs EXCEPT ![JobOf[n]] = job]
      BY <1>1, <2>3 DEF PodFails, JobState
    <3> HIDE DEF job
    <3> QED
      BY <3>1, <3>2
  <2> QED
    BY <2>2, <2>3
<1>5. /\ jobs'[JobOf[n]] = job
      /\ \A j \in Installations, m \in Nodes :
            /\ HasJob(j, m)' <=> HasJob(j, m)
            /\ HasJob(j, m) /\ (j # i \/ m # n) => jobs'[JobOf[m]] = jobs[JobOf[m]]
  BY <1>1, <1>4, Types DEF IndInv, HasJob
<1>6. PodsHaveJobs'
  BY <1>2, <1>5 DEF IndInv, PodInv, PodsHaveJobs
<1>7. OwnDownload'
  BY <1>1, <1>2 DEF PodFails, IndInv, PodInv, OwnDownload
<1>8. ImagesOfSucceeded'
  BY <1>1, <1>3, <1>4, <1>5 DEF IndInv, PodInv, ImagesOfSucceeded
<1> QED
  BY <1>6, <1>7, <1>8 DEF PodInv

LEMMA FinishDeletionInd ==
    ASSUME IndInv, NEW name \in JobNames, FinishDeletion(name)
    PROVE  PodInv'
<1> DEFINE i == jobs[name].owner
           n == jobs[name].node
<1>1. i \in Installations /\ n \in Nodes
  BY Types DEF FinishDeletion, IndInv, Jobs
<1>2. /\ pods'[i][n] = "none"
      /\ \A j \in Installations, m \in Nodes : j # i \/ m # n => pods'[j][m] = pods[j][m]
  BY <1>1, Types DEF FinishDeletion, IndInv
<1>3. /\ UNCHANGED <<download, files>>
      /\ jobs'[name] = None
      /\ \A m \in Nodes : JobOf[m] # name => jobs'[JobOf[m]] = jobs[JobOf[m]]
  BY Types DEF FinishDeletion, fileVars, IndInv
<1>4. PodsHaveJobs'
  <2> SUFFICES ASSUME NEW j \in Installations, NEW m \in Nodes, pods'[j][m] # "none"
               PROVE  (HasJob(j, m) /\ jobs[JobOf[m]].state = "active")'
    BY DEF PodsHaveJobs
  <2>1. (j # i \/ m # n) /\ pods[j][m] # "none"
    BY <1>2
  <2>2. HasJob(j, m) /\ jobs[JobOf[m]].state = "active"
    BY <2>1, OnePod
  <2>3. JobOf[m] # name
    BY <2>1, <2>2 DEF HasJob
  <2> QED
    BY <1>3, <2>2, <2>3 DEF HasJob
<1>5. OwnDownload'
  BY <1>2, <1>3 DEF IndInv, PodInv, OwnDownload
<1>6. ImagesOfSucceeded'
  BY <1>3 DEF IndInv, PodInv, ImagesOfSucceeded, HasJob
<1> QED
  BY <1>4, <1>5, <1>6 DEF PodInv

LEMMA NextInd == IndInv /\ [Next]_vars => IndInv'
<1> SUFFICES ASSUME IndInv, [Next]_vars PROVE PodInv'
  BY NextType DEF IndInv
<1>1. ASSUME NEW i \in Installations, Start(i) \/ Command(i) \/ CommandFails(i)
      PROVE  PodInv'
  BY <1>1, CommandInd
<1>2. ASSUME NEW i \in Installations, NEW n \in Nodes,
             StartPod(i, n) \/ Pull(i, n) \/ Move(i, n) \/ PodFails(i, n)
      PROVE  PodInv'
  BY <1>2, PodRunsInd, MoveInd, PodFailsInd
<1>3. ASSUME NEW name \in JobNames, FinishDeletion(name)
      PROVE  PodInv'
  BY <1>3, FinishDeletionInd
<1>4. CASE UNCHANGED <<jobs, pods, download, files>>
  BY <1>4 DEF IndInv, PodInv, PodsHaveJobs, OwnDownload, ImagesOfSucceeded, HasJob
<1>5. ASSUME NEW n \in Nodes, Leave(n)
      PROVE  PodInv'
  <2>1. \A i \in Installations, m \in Nodes : pods'[i][m] \in {pods[i][m], "none"}
    BY <1>5, Types DEF Leave, IndInv
  <2>2. UNCHANGED <<jobs, download, files>>
    BY <1>5 DEF Leave, fileVars
  <2> QED
    BY <2>1, <2>2 DEF IndInv, PodInv, PodsHaveJobs, OwnDownload, ImagesOfSucceeded, HasJob
<1>6. Autopilot \/ (\E n \in Nodes : Join(n)) \/ UNCHANGED vars
         => UNCHANGED <<jobs, pods, download, files>>
  BY DEF Autopilot, Join, vars, fileVars
<1> QED
  BY <1>1, <1>2, <1>3, <1>4, <1>5, <1>6 DEF Next, JobController

\* However many commands of however many installations delete each other's jobs, and
\* whatever scripts and nodes fail: a job that has succeeded means its images on the
\* node (ensureArtifactsJobForNode, the script of copyArtifactsJob).
THEOREM ImagesOfSucceededJobs == Spec => []SucceededMeansImages
<1>1. IndInv => SucceededMeansImages
  BY DEF IndInv, TypeInv, TypeOK, PodInv, ImagesOfSucceeded, SucceededMeansImages
<1> QED
  BY InitInd, NextInd, <1>1, PTL DEF Spec

-------------------------------------------------------------------------------
(* The nodes that a lone command has seen ready                                *)

\* No two nodes share the name of a job.
OwnJobNames == \A m, n \in Nodes : JobOf[m] = JobOf[n] => m = n

NamesInv == \A name \in JobNames : jobs[name] # None => JobOf[jobs[name].node] = name

LoneInv ==
    ~overlap => \A i, j \in Installations :
        i # j /\ cmd[i].step \in Running => cmd[j].step \notin Running

\* The images are there, and no pod can come to remove them: the job of the node has
\* succeeded, or it is gone.
Settled(i, n) ==
    /\ files[n][i] = i
    /\ \/ jobs[JobOf[n]] = None
       \/ HasJob(i, n) /\ jobs[JobOf[n]].state = "succeeded"

ReadySteps == {"plan", "waitPlan"}
ReadyInv ==
    ~overlap => \A i \in Installations :
        cmd[i].step \in ReadySteps => \A n \in cmd[i].ready : Settled(i, n)

LoneCommandInv == IndInv /\ NamesInv /\ LoneInv /\ ReadyInv

LEMMA LoneInit == Init => LoneCommandInv
<1> SUFFICES ASSUME Init PROVE NamesInv /\ LoneInv /\ ReadyInv
  BY InitInd DEF LoneCommandInv
<1>1. \A i \in Installations : cmd[i].step = "idle"
  BY DEF Init, NotRun
<1> QED
  BY <1>1 DEF Init, NamesInv, LoneInv, ReadyInv, Running, CmdSteps, ReadySteps

\* A command is running when it acts, unless it starts; when it has become ready, every
\* member has a job that has succeeded, or it was ready before.
LEMMA CommandEffect ==
    ASSUME TypeInv, NEW i \in Installations, Start(i) \/ Command(i) \/ CommandFails(i)
    PROVE  /\ UNCHANGED <<overlap, files>>
           /\ \A j \in Installations \ {i} : cmd'[j] = cmd[j]
           /\ Start(i) \/ cmd[i].step \in Running
           /\ cmd'[i].step \in ReadySteps =>
                /\ jobs' = jobs
                /\ \/ /\ cmd'[i].ready \subseteq Nodes
                      /\ \A n \in cmd'[i].ready : JobIs(i, n, {"succeeded"})
                   \/ cmd[i].step \in ReadySteps /\ cmd'[i].ready = cmd[i].ready
<1>0. cmd \in [Installations -> CmdType] /\ members \subseteq Nodes
  BY Types
<1>1. UNCHANGED <<overlap, files>>
  BY DEF Start, Command, CommandFails, GetJob, DeleteJob, WaitDelete, CreateJob, Poll,
         EnsureAirgapPlan, WaitPlan, CmdUnchanged, fileVars
<1>2. \A j \in Installations \ {i} : cmd'[j] = cmd[j]
  BY <1>0, CommandType
<1>3. Start(i) \/ cmd[i].step \in Running
  BY DEF Command, CommandFails, GetJob, DeleteJob, WaitDelete, CreateJob, Poll,
         EnsureAirgapPlan, WaitPlan, At, Running, CmdSteps
<1>4. ASSUME NEW step, GoTo(i, step)
      PROVE  cmd'[i].step = step /\ cmd'[i].ready = cmd[i].ready
  BY <1>0, <1>4 DEF GoTo, CmdType
<1>5. ASSUME NEW step, End(i, step) PROVE cmd'[i].step = step
  BY <1>0, <1>5 DEF End, NotRun
<1>6. ASSUME cmd'[i].step \in ReadySteps
      PROVE  /\ jobs' = jobs
             /\ \/ /\ cmd'[i].ready \subseteq Nodes
                   /\ \A n \in cmd'[i].ready : JobIs(i, n, {"succeeded"})
                \/ cmd[i].step \in ReadySteps /\ cmd'[i].ready = cmd[i].ready
  <2>1. CASE Start(i)
    <3>1. cmd'[i].step = "get"
      BY <1>0, <2>1 DEF Start
    <3> QED
      BY <1>6, <3>1 DEF ReadySteps
  <2>2. CASE GetJob(i)
    <3>1. cmd'[i].step \in {"get", "create", "delete", "poll"}
      <4> DEFINE kept(n) == jobs[JobOf[n]] # None /\ jobs[JobOf[n]].owner = i
                 step(n) == CASE kept(n) -> "get"
                              [] jobs[JobOf[n]] = None -> "create"
                              [] ~kept(n) /\ jobs[JobOf[n]] # None -> "delete"
                 node(n) == IF kept(n) THEN None ELSE n
      <4>1. CASE GoTo(i, "poll")
        BY <1>4, <4>1
      <4>2. ASSUME NEW n \in cmd[i].todo,
                   cmd' = [cmd EXCEPT ![i] =
                       [cmd[i] EXCEPT !.todo = cmd[i].todo \ {n}, !.node = node(n), !.step = step(n)]]
            PROVE  cmd'[i].step \in {"get", "create", "delete", "poll"}
        <5>1. step(n) \in {"get", "create", "delete"}
          OBVIOUS
        <5> HIDE DEF kept, step, node
        <5> QED
          BY <1>0, <4>2, <5>1 DEF CmdType
      <4> QED
        BY <2>2, <4>1, <4>2 DEF GetJob
    <3> QED
      BY <1>6, <3>1 DEF ReadySteps
  <2>3. CASE DeleteJob(i) \/ WaitDelete(i)
    <3>1. GoTo(i, "waitDelete") \/ GoTo(i, "create") \/ End(i, "failed")
      BY <2>3 DEF DeleteJob, WaitDelete
    <3>2. cmd'[i].step \in {"waitDelete", "create", "failed"}
      BY <1>4, <1>5, <3>1
    <3> QED
      BY <1>6, <3>2 DEF ReadySteps
  <2>4. CASE CreateJob(i)
    <3>1. \/ cmd' = [cmd EXCEPT ![i].step = "get", ![i].node = None]
          \/ End(i, "failed")
      BY <2>4 DEF CreateJob
    <3>2. cmd'[i].step \in {"get", "failed"}
      BY <1>0, <1>5, <3>1 DEF CmdType
    <3> QED
      BY <1>6, <3>2 DEF ReadySteps
  <2>5. CASE Poll(i)
    <3>1. ~End(i, "failed")
      BY <1>5, <1>6 DEF ReadySteps
    <3>2. /\ cmd' = [cmd EXCEPT ![i].step = "plan", ![i].ready = members]
          /\ \A n \in members : JobIs(i, n, {"succeeded"})
          /\ jobs' = jobs
      BY <2>5, <3>1, Zenon DEF Poll, NotReady
    <3>3. cmd'[i].ready = members
      BY <1>0, <3>2 DEF CmdType
    <3> QED
      BY <1>0, <3>2, <3>3
  <2>6. CASE EnsureAirgapPlan(i)
    BY <1>4, <2>6 DEF EnsureAirgapPlan, At, ReadySteps
  <2>7. CASE WaitPlan(i) \/ CommandFails(i)
    <3>1. End(i, "done") \/ End(i, "failed")
      BY <2>7 DEF WaitPlan, CommandFails
    <3> QED
      BY <1>5, <1>6, <3>1 DEF ReadySteps
  <2> QED
    BY <2>1, <2>2, <2>3, <2>4, <2>5, <2>6, <2>7 DEF Command
<1> QED
  BY <1>1, <1>2, <1>3, <1>6

\* The job of a node succeeds there only, when names are not shared.
LEMMA SucceededIsSettled ==
    ASSUME OwnJobNames, IndInv, NamesInv, NEW i \in Installations, NEW n \in Nodes,
           JobIs(i, n, {"succeeded"})
    PROVE  Settled(i, n)
<1>1. JobOf[n] \in JobNames /\ jobs[JobOf[n]] # None /\ jobs[JobOf[n]] \in Jobs
  BY Types DEF JobIs, IndInv
<1>2. jobs[JobOf[n]].node \in Nodes /\ JobOf[jobs[JobOf[n]].node] = JobOf[n]
  BY <1>1 DEF Jobs, NamesInv
<1>3. HasJob(i, n) /\ jobs[JobOf[n]].state = "succeeded"
  BY <1>1, <1>2 DEF OwnJobNames, HasJob, JobIs
<1> QED
  BY <1>3 DEF Settled, IndInv, PodInv, ImagesOfSucceeded

LEMMA CommandLone ==
    ASSUME OwnJobNames, LoneCommandInv, NEW i \in Installations,
           Start(i) \/ Command(i) \/ CommandFails(i)
    PROVE  NamesInv' /\ LoneInv' /\ ReadyInv'
<1>0. TypeInv /\ IndInv /\ NamesInv /\ LoneInv /\ ReadyInv
  BY DEF LoneCommandInv, IndInv
<1>1. /\ UNCHANGED <<overlap, files>>
      /\ \A j \in Installations \ {i} : cmd'[j] = cmd[j]
      /\ Start(i) \/ cmd[i].step \in Running
      /\ cmd'[i].step \in ReadySteps =>
           /\ jobs' = jobs
           /\ \/ /\ cmd'[i].ready \subseteq Nodes
                 /\ \A n \in cmd'[i].ready : JobIs(i, n, {"succeeded"})
              \/ cmd[i].step \in ReadySteps /\ cmd'[i].ready = cmd[i].ready
  BY <1>0, CommandEffect
\* The other commands do not run, or commands overlap.
<1>2. ~overlap => \A j \in Installations \ {i} : cmd[j].step \notin Running
  BY <1>0, <1>1 DEF LoneInv, Start
<1>3. NamesInv'
  <2>1. CASE UNCHANGED jobs
    BY <1>0, <2>1 DEF NamesInv
  <2>2. CASE DeleteJob(i)
    <3>1. JobOf[cmd[i].node] \in JobNames /\ jobs \in [JobNames -> Jobs \cup {None}]
      BY <1>0, <2>2, Types DEF DeleteJob, At, TypeInv
    <3>2. CASE jobs[JobOf[cmd[i].node]] # None /\ Deletion(JobOf[cmd[i].node])
      BY <1>0, <3>1, <3>2 DEF Deletion, NamesInv, Jobs
    <3> QED
      BY <2>1, <2>2, <3>2 DEF DeleteJob
  <2>3. CASE CreateJob(i)
    <3>1. CASE jobs' = [jobs EXCEPT ![JobOf[cmd[i].node]] = [owner |-> i, node |-> cmd[i].node,
                            state |-> "active", attempts |-> 0, deleting |-> FALSE]]
      BY <1>0, <3>1, Types DEF NamesInv
    <3> QED
      BY <2>1, <2>3, <3>1 DEF CreateJob
  <2>4. CASE ~DeleteJob(i) /\ ~CreateJob(i)
    BY <2>1, <2>4 DEF Start, Command, CommandFails, GetJob, WaitDelete, Poll,
                      EnsureAirgapPlan, WaitPlan
  <2> QED
    BY <2>2, <2>3, <2>4
<1>4. LoneInv'
  BY <1>1, <1>2 DEF LoneInv
<1>5. ReadyInv'
  <2> SUFFICES ASSUME ~overlap, NEW j \in Installations, cmd'[j].step \in ReadySteps,
                      NEW n \in cmd'[j].ready
               PROVE  Settled(j, n)'
    BY <1>1 DEF ReadyInv
  <2>1. j = i
    BY <1>1, <1>2 DEF ReadySteps, Running, CmdSteps
  <2>2. Settled(i, n)
    BY <1>0, <1>1, <2>1, OwnJobNames, SucceededIsSettled DEF ReadyInv
  <2>3. jobs' = jobs /\ files' = files
    BY <1>1, <2>1
  <2> QED
    BY <2>1, <2>2, <2>3 DEF Settled, HasJob
<1> QED
  BY <1>3, <1>4, <1>5

\* Neither the jobs nor the files of a settled node are touched while a pod runs elsewhere.
LEMMA SettledStays ==
    ASSUME IndInv, NEW k \in Installations, NEW m \in Nodes, Settled(k, m),
           NEW i \in Installations, NEW n \in Nodes, pods[i][n] # "none" \/ StartPod(i, n),
           \A d \in Nodes \ {n} : files'[d] = files[d],
           \A name \in JobNames \ {JobOf[n]} : jobs'[name] = jobs[name]
    PROVE  Settled(k, m)'
<1>1. HasJob(i, n) /\ jobs[JobOf[n]].state = "active"
  BY OnePod DEF StartPod
<1>2. m # n /\ JobOf[m] # JobOf[n]
  BY <1>1 DEF Settled, HasJob
<1>3. JobOf[m] \in JobNames
  BY Types DEF IndInv
<1> QED
  BY <1>2, <1>3 DEF Settled, HasJob

LEMMA PodLone ==
    ASSUME LoneCommandInv, NEW i \in Installations, NEW n \in Nodes,
           StartPod(i, n) \/ Pull(i, n) \/ Move(i, n) \/ PodFails(i, n)
    PROVE  NamesInv' /\ LoneInv' /\ ReadyInv'
<1>0. TypeInv /\ IndInv /\ NamesInv /\ LoneInv /\ ReadyInv
  BY DEF LoneCommandInv, IndInv
<1>1. UNCHANGED <<overlap, cmd>> /\ (pods[i][n] # "none" \/ StartPod(i, n))
  BY DEF StartPod, Pull, Move, PodFails, PodUnchanged
<1>2. /\ \A d \in Nodes \ {n} : files'[d] = files[d]
      /\ \/ jobs' = jobs
         \/ \E job \in Jobs : job.node = n /\ jobs' = [jobs EXCEPT ![JobOf[n]] = job]
  <2>1. CASE StartPod(i, n) \/ Pull(i, n)
    BY <2>1 DEF StartPod, Pull, fileVars
  <2>2. HasJob(i, n) => jobs[JobOf[n]] \in Jobs /\ jobs[JobOf[n]].node = n
    BY <1>0, Types DEF HasJob
  <2>3. ASSUME NEW state \in {"succeeded", "failed"}, JobState(i, n, state)
        PROVE  \/ jobs' = jobs
               \/ \E job \in Jobs : job.node = n /\ jobs' = [jobs EXCEPT ![JobOf[n]] = job]
    <3> DEFINE job == [jobs[JobOf[n]] EXCEPT !.state = state]
    <3>1. CASE HasJob(i, n)
      <4>1. job \in Jobs /\ job.node = n
        BY <2>2, <3>1 DEF Jobs
      <4>2. jobs' = [jobs EXCEPT ![JobOf[n]] = job]
        BY <2>3, <3>1 DEF JobState
      <4> HIDE DEF job
      <4> QED
        BY <4>1, <4>2
    <3>2. CASE ~HasJob(i, n)
      BY <2>3, <3>2 DEF JobState
    <3> QED
      BY <3>1, <3>2
  <2>4. CASE Move(i, n)
    <3>1. \A d \in Nodes \ {n} : files'[d] = files[d]
      BY <1>0, <2>4, Types DEF Move
    <3> QED
      BY <2>3, <2>4, <3>1 DEF Move
  <2>5. CASE PodFails(i, n)
    <3>1. \A d \in Nodes \ {n} : files'[d] = files[d]
      BY <1>0, <2>5, Types DEF PodFails
    <3>2. CASE HasJob(i, n) /\ jobs[JobOf[n]].attempts < Backoff
      <4> DEFINE job == [jobs[JobOf[n]] EXCEPT !.attempts = @ + 1]
      <4>1. jobs[JobOf[n]].attempts + 1 \in 0..Backoff
        BY <2>2, <3>2, ArtifactsAssumption DEF Jobs, ArtifactsAssumption
      <4>2. job \in Jobs /\ job.node = n
        BY <2>2, <3>2, <4>1 DEF Jobs
      <4>3. jobs' = [jobs EXCEPT ![JobOf[n]] = job]
        BY <2>5, <3>2 DEF PodFails
      <4> HIDE DEF job
      <4> QED
        BY <3>1, <4>2, <4>3
    <3>3. CASE JobState(i, n, "failed")
      BY <2>3, <3>1, <3>3
    <3> QED
      BY <2>5, <3>2, <3>3 DEF PodFails
  <2> QED
    BY <2>1, <2>4, <2>5
<1>3. NamesInv'
  BY <1>0, <1>2, Types DEF NamesInv
<1>4. LoneInv'
  BY <1>0, <1>1 DEF LoneInv
<1>5. ReadyInv'
  <2>1. \A name \in JobNames \ {JobOf[n]} : jobs'[name] = jobs[name]
    BY <1>0, <1>2, Types
  <2>2. \A k \in Installations : cmd[k] \in CmdType
    BY <1>0, Types
  <2> QED
    BY <1>0, <1>1, <1>2, <2>1, <2>2, SettledStays DEF ReadyInv, CmdType
<1> QED
  BY <1>3, <1>4, <1>5

LEMMA NextLone == ASSUME OwnJobNames PROVE LoneCommandInv /\ [Next]_vars => LoneCommandInv'
<1> SUFFICES ASSUME LoneCommandInv, [Next]_vars PROVE NamesInv' /\ LoneInv' /\ ReadyInv'
  BY NextInd DEF LoneCommandInv
<1>1. ASSUME NEW i \in Installations, Start(i) \/ Command(i) \/ CommandFails(i)
      PROVE  NamesInv' /\ LoneInv' /\ ReadyInv'
  BY <1>1, OwnJobNames, CommandLone
<1>2. ASSUME NEW i \in Installations, NEW n \in Nodes,
             StartPod(i, n) \/ Pull(i, n) \/ Move(i, n) \/ PodFails(i, n)
      PROVE  NamesInv' /\ LoneInv' /\ ReadyInv'
  BY <1>2, PodLone
<1>3. ASSUME NEW name \in JobNames, FinishDeletion(name)
      PROVE  NamesInv' /\ LoneInv' /\ ReadyInv'
  <2>1. UNCHANGED <<overlap, cmd, files>>
    BY <1>3 DEF FinishDeletion, PodUnchanged, fileVars
  <2>2. \A other \in JobNames :
           jobs'[other] = IF other = name THEN None ELSE jobs[other]
    BY <1>3, Types DEF FinishDeletion, LoneCommandInv, IndInv
  <2>3. \A n \in Nodes : JobOf[n] \in JobNames
    BY Types DEF LoneCommandInv, IndInv
  <2>4. ASSUME NEW k \in Installations, NEW m \in Nodes, Settled(k, m) PROVE Settled(k, m)'
    BY <2>1, <2>2, <2>3, <2>4 DEF Settled, HasJob
  <2>5. \A k \in Installations : cmd[k].ready \subseteq Nodes
    BY Types DEF LoneCommandInv, IndInv, CmdType
  <2>6. NamesInv'
    BY <2>2 DEF LoneCommandInv, NamesInv
  <2>7. LoneInv'
    BY <2>1 DEF LoneCommandInv, LoneInv
  <2>8. ReadyInv'
    BY <2>1, <2>4, <2>5 DEF LoneCommandInv, ReadyInv
  <2> QED
    BY <2>6, <2>7, <2>8
<1>4. CASE UNCHANGED <<overlap, cmd, jobs, files>>
  BY <1>4 DEF LoneCommandInv, NamesInv, LoneInv, ReadyInv, Settled, HasJob
<1>5. Autopilot \/ (\E n \in Nodes : Join(n) \/ Leave(n)) \/ UNCHANGED vars
         => UNCHANGED <<overlap, cmd, jobs, files>>
  BY DEF Autopilot, Join, Leave, vars, fileVars
<1> QED
  BY <1>1, <1>2, <1>3, <1>4, <1>5 DEF Next, JobController

\* While a command that runs alone waits for its plan, the nodes that it has seen ready keep
\* the images of its installation, whatever jobs and pods are left of other commands, if no
\* two nodes share the name of a job (ensureAirgapArtifactsOnNodes, NameWithLengthLimit).
THEOREM ImagesStayInPlace ==
    ASSUME OwnJobNames
    PROVE  Spec => []ReadyNodesHaveImages
<1>1. LoneCommandInv => ReadyNodesHaveImages
  BY DEF LoneCommandInv, ReadyInv, Settled, ReadySteps, At, ReadyNodesHaveImages
<1> QED
  BY LoneInit, NextLone, OwnJobNames, <1>1, PTL DEF Spec
===============================================================================
