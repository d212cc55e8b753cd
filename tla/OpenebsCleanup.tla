---------------------------- MODULE OpenebsCleanup ----------------------------
(***************************************************************************)
(* CleanupStatefulPods: pods whose volumes are on the disk of a node that  *)
(* has left the cluster cannot be scheduled any more; at each reconcile    *)
(* the operator finds their claims, deletes the pods that are pending and  *)
(* then volumes and claims, and the controllers of the cluster make new    *)
(* ones.  The environment is those controllers (stateful set, scheduler,   *)
(* provisioner, garbage collection) and the nodes that come and go.        *)
(*                                                                         *)
(* Simplifications: every pod has one claim, of its own name, of the       *)
(* openebs provisioner and in one namespace; of the volume the claim says  *)
(* whether there is one, because a volume being deleted stays until its    *)
(* claim has gone; the order of the claims in a list is any order.         *)
(***************************************************************************)
EXTENDS Naturals, FiniteSets

CONSTANTS
    Nodes,
    Head,           \* the node of the operator, which does not leave
    Pods,           \* the pods, and their claims
    MaxFaults,      \* bound on failed calls
    NoNode,         \* no node selected yet
    NoClaim

Claims == [node : Nodes \cup {NoNode}, bound : BOOLEAN, deleting : BOOLEAN]

ASSUME CleanupAssumption ==
    /\ Head \in Nodes
    /\ MaxFaults \in Nat
    /\ NoNode \notin Nodes
    /\ NoClaim \notin Claims

VARIABLES
    nodes,          \* the nodes of the cluster
    pods,           \* pods[p]: "none", "pending" or "running"
    claims,         \* claims[p]: its selected node, is it bound, is it being deleted
    seen,           \* the operator's informer copies of nodes, pods and claims
    rec,            \* the clean-up: step, stuck claims, pods to delete
    faults

\* Auxiliary variables, for the properties.
VARIABLES
    remade,         \* the pods whose first claim has gone
    steady          \* the nodes that have not left since the operator's copy of the nodes
                    \* was made, and since the one the clean-up has read was made

vars == <<nodes, pods, claims, seen, rec, faults, remade, steady>>

Kinds == {"nodes", "pods", "claims"}
Phases == {"none", "pending", "running"}

TypeOK ==
    /\ nodes \in SUBSET Nodes
    /\ pods \in [Pods -> Phases]
    /\ claims \in [Pods -> Claims \cup {NoClaim}]
    /\ seen \in [nodes : SUBSET Nodes, pods : [Pods -> Phases],
                 claims : [Pods -> Claims \cup {NoClaim}]]
    /\ rec.step \in {"idle", "nodes", "list", "pods", "claims"}
    /\ rec.claims \in [Pods -> Claims \cup {NoClaim}]
    /\ rec.stuck \in SUBSET {p \in Pods : rec.claims[p] # NoClaim /\ rec.claims[p].node # NoNode}
    /\ rec.pods \in SUBSET rec.stuck
    /\ faults \in 0..MaxFaults
    /\ remade \in SUBSET Pods
    /\ steady \in [copy : SUBSET Nodes, list : SUBSET Nodes]

NoClaims == [p \in Pods |-> NoClaim]
Idle == [step |-> "idle", claims |-> NoClaims, stuck |-> {}, pods |-> {}]

Cluster == [nodes |-> nodes, pods |-> pods, claims |-> claims]

Init ==
    /\ nodes \in {N \in SUBSET Nodes : Head \in N}
    /\ claims \in [Pods -> {NoClaim} \cup [node : nodes, bound : {TRUE}, deleting : {FALSE}]]
    /\ pods = [p \in Pods |-> IF claims[p] = NoClaim THEN "none" ELSE "running"]
    /\ seen = Cluster
    /\ rec = Idle
    /\ faults = 0
    /\ remade = {}
    /\ steady = [copy |-> nodes, list |-> {}]

-------------------------------------------------------------------------------
(* The operator                                                            *)

\* findStuckPVCs lists the claims, and then the nodes.
ListClaims ==
    /\ rec.step = "idle"
    /\ rec' = [Idle EXCEPT !.step = "nodes", !.claims = seen.claims]
    /\ UNCHANGED <<nodes, pods, claims, seen, faults, remade, steady>>

MutantIsNodeGone(present, n) == n \notin present
IsNodeGone(present, n) == n \notin present \cup {NoNode}

Stuck(listed, present) ==
    {p \in Pods : listed[p] # NoClaim /\ IsNodeGone(present, listed[p].node)}

FindStuckPVCs ==
    /\ rec.step = "nodes"
    /\ LET stuck == Stuck(rec.claims, seen.nodes)
       IN  rec' = IF stuck = {} THEN Idle
                   ELSE [step |-> "list", stuck |-> stuck, pods |-> {},
                         claims |-> [p \in Pods |-> IF p \in stuck THEN rec.claims[p] ELSE NoClaim]]
    /\ steady' = [steady EXCEPT !.list = steady.copy]
    /\ UNCHANGED <<nodes, pods, claims, seen, faults, remade>>

\* The pods to delete: pending, and mounting one of the stuck claims.
Mounting(listed) == {p \in rec.stuck : listed[p] = "pending"}

ListPods ==
    /\ rec.step = "list"
    /\ rec' = [rec EXCEPT !.step = "pods", !.pods = Mounting(seen.pods)]
    /\ UNCHANGED <<nodes, pods, claims, seen, faults, remade, steady>>

\* Deleted by name, in whatever phase the pod is by now; an error ends the clean-up.
DeletePod(p) ==
    /\ rec.step = "pods"
    /\ p \in rec.pods
    /\ \/ /\ pods[p] # "none"
          /\ pods' = [pods EXCEPT ![p] = "none"]
          /\ rec' = [rec EXCEPT !.pods = @ \ {p}]
       \/ pods[p] = "none" /\ rec' = Idle /\ UNCHANGED pods
    /\ UNCHANGED <<nodes, claims, seen, faults, remade, steady>>

PodsDeleted ==
    /\ rec.step = "pods" /\ rec.pods = {}
    /\ rec' = [rec EXCEPT !.step = "claims"]
    /\ UNCHANGED <<nodes, pods, claims, seen, faults, remade, steady>>

MutantVolumeLookup(p) == IF rec.claims[p].bound THEN {"deleted"} ELSE {"error"}
\* The volume of a claim need not exist; one that went with its claim, and that only the
\* informer still shows, cannot be deleted.
VolumeLookup(p) ==
    IF rec.claims[p].bound /\ claims[p] # rec.claims[p]
    THEN {"deleted", "error"} ELSE {"deleted"}

\* The claim too is deleted by name, whichever claim has the name by now.
DeletePVC(p) ==
    /\ rec.step = "claims"
    /\ p \in rec.stuck
    /\ \E volume \in VolumeLookup(p) :
          \/ /\ volume = "deleted"
             /\ claims[p] # NoClaim
             /\ claims' = [claims EXCEPT ![p].deleting = TRUE]
             /\ rec' = IF rec.stuck = {p} THEN Idle ELSE [rec EXCEPT !.stuck = @ \ {p}]
          \/ /\ volume = "error" \/ claims[p] = NoClaim
             /\ rec' = Idle
             /\ UNCHANGED claims
    /\ UNCHANGED <<nodes, pods, seen, faults, remade, steady>>

Operator ==
    \/ ListClaims
    \/ FindStuckPVCs
    \/ ListPods
    \/ \E p \in Pods : DeletePod(p)
    \/ PodsDeleted
    \/ \E p \in Pods : DeletePVC(p)

\* A call fails, or the operator restarts.
Abort ==
    /\ rec.step # "idle"
    /\ faults < MaxFaults
    /\ faults' = faults + 1
    /\ rec' = Idle
    /\ UNCHANGED <<nodes, pods, claims, seen, remade, steady>>

-------------------------------------------------------------------------------
(* The environment                                                         *)

\* Each informer catches up in its own time.
Sync(kind) ==
    /\ seen[kind] # Cluster[kind]
    /\ seen' = [seen EXCEPT ![kind] = Cluster[kind]]
    /\ steady' = IF kind = "nodes" THEN [steady EXCEPT !.copy = nodes] ELSE steady
    /\ UNCHANGED <<nodes, pods, claims, rec, faults, remade>>

NodeLeaves(n) ==
    /\ n \in nodes \ {Head}
    /\ nodes' = nodes \ {n}
    /\ steady' = [copy |-> steady.copy \ {n}, list |-> steady.list \ {n}]
    /\ UNCHANGED <<pods, claims, seen, rec, faults, remade>>

\* A node that has left may come back.
NodeJoins(n) ==
    /\ n \notin nodes
    /\ nodes' = nodes \cup {n}
    /\ UNCHANGED <<pods, claims, seen, rec, faults, remade, steady>>

\* The pods of a node that has gone are deleted.
PodLost(p) ==
    /\ pods[p] = "running"
    /\ claims[p].node \notin nodes
    /\ pods' = [pods EXCEPT ![p] = "none"]
    /\ UNCHANGED <<nodes, claims, seen, rec, faults, remade, steady>>

\* The stateful set makes the missing claim, and then the missing pod.
MakePod(p) ==
    /\ \/ /\ claims[p] = NoClaim
          /\ claims' = [claims EXCEPT ![p] = [node |-> NoNode, bound |-> FALSE, deleting |-> FALSE]]
       \/ claims[p] # NoClaim /\ ~claims[p].deleting /\ pods[p] = "none" /\ UNCHANGED claims
    /\ pods' = [pods EXCEPT ![p] = IF @ = "none" THEN "pending" ELSE @]
    /\ UNCHANGED <<nodes, seen, rec, faults, remade, steady>>

\* The scheduler selects a node, where the provisioner makes the volume; then the pod
\* runs, there and nowhere else.
Schedule(p) ==
    /\ pods[p] = "pending"
    /\ claims[p] # NoClaim /\ ~claims[p].deleting
    /\ \/ \E n \in nodes : claims[p].node = NoNode /\ claims' = [claims EXCEPT ![p].node = n]
       \/ claims[p].node \in nodes /\ ~claims[p].bound /\ claims' = [claims EXCEPT ![p].bound = TRUE]
    /\ UNCHANGED <<nodes, pods, seen, rec, faults, remade, steady>>

Run(p) ==
    /\ pods[p] = "pending"
    /\ claims[p] # NoClaim /\ ~claims[p].deleting
    /\ claims[p].bound /\ claims[p].node \in nodes
    /\ pods' = [pods EXCEPT ![p] = "running"]
    /\ UNCHANGED <<nodes, claims, seen, rec, faults, remade, steady>>

\* A claim being deleted stays while its pod has a node.
ClaimGone(p) ==
    /\ claims[p] # NoClaim /\ claims[p].deleting
    /\ pods[p] # "running"
    /\ claims' = [claims EXCEPT ![p] = NoClaim]
    /\ remade' = remade \cup {p}
    /\ UNCHANGED <<nodes, pods, seen, rec, faults, steady>>

Controllers(p) == PodLost(p) \/ MakePod(p) \/ Schedule(p) \/ Run(p) \/ ClaimGone(p)

Next ==
    \/ Operator
    \/ Abort
    \/ \E kind \in Kinds : Sync(kind)
    \/ \E n \in Nodes : NodeLeaves(n) \/ NodeJoins(n)
    \/ \E p \in Pods : Controllers(p)

Spec == Init /\ [][Next]_vars

\* Reconciles recur, the informers catch up and the controllers of the cluster do
\* their work.
Fairness ==
    /\ WF_vars(Operator)
    /\ \A kind \in Kinds : WF_vars(Sync(kind))
    /\ \A p \in Pods : WF_vars(Controllers(p))

FairSpec == Spec /\ Fairness

-------------------------------------------------------------------------------
(* Properties                                                              *)

\* The first claim of a pod, which holds its data, is deleted only if its node was not in
\* the nodes' copy that the clean-up has read, or has left since: not while it is on a node
\* that this copy shows and that stays, even if nodes leave, join and return and pods are
\* scheduled during the clean-up, and however old its lists are (findStuckPVCs, deletePVC).
SteadyNodesKeepClaims ==
    [][\A p \in Pods \ remade :
        claims[p] # NoClaim /\ ~claims[p].deleting /\ claims'[p].deleting
            => claims[p].node \notin steady.list]_vars

\* openebs.go:18 "were running on nodes that no longer exist": the first claim of a pod is
\* deleted only while its node is not in the cluster.
FirstClaimsKept ==
    [][\A p \in Pods \ remade :
        claims[p] # NoClaim /\ ~claims[p].deleting /\ claims'[p].deleting
            => claims[p].node \notin nodes]_vars

\* openebs.go:18 "checks if any pods with pvcs in a pending state were running on nodes
\* that no longer exist and deletes them": a pod that runs on a node of the cluster is
\* not deleted.
RunningPodsKept ==
    [][\A p \in Pods : pods[p] = "running" /\ claims[p].node \in nodes
            => pods'[p] = "running"]_vars

\* A stateful pod whose node has left runs again in the end, whatever fails and wherever
\* the clean-up was interrupted, whether or not its volume had been made and whether or not
\* the node has come back (CleanupStatefulPods), once no more nodes leave and join.
PodsRecover == \A p \in Pods : (<>[][nodes' = nodes]_vars) => []<>(pods[p] = "running")
===============================================================================
