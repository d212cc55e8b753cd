------------------------ MODULE OpenebsCleanupProofs ------------------------
(* Theorems about OpenebsCleanup, for any nodes, pods and number of faults.  *)
EXTENDS OpenebsCleanup, TLAPS

RecType == [step : {"idle", "nodes", "list", "pods", "claims"},
            claims : [Pods -> Claims \cup {NoClaim}], stuck : SUBSET Pods, pods : SUBSET Pods]
SeenType == [nodes : SUBSET Nodes, pods : [Pods -> Phases],
             claims : [Pods -> Claims \cup {NoClaim}]]

\* TypeOK speaks of the fields of rec; this is what they are fields of.  Claims are
\* deleted when no pod is left to delete.
TypeInv ==
    /\ TypeOK
    /\ rec \in RecType
    /\ rec.step = "claims" => rec.pods = {}

LEMMA IdleType == Idle \in RecType
BY DEF Idle, NoClaims, RecType

LEMMA InitType == Init => TypeInv
<1> SUFFICES ASSUME Init PROVE TypeInv
  OBVIOUS
<1>1. /\ nodes \in SUBSET Nodes /\ steady \in [copy : SUBSET Nodes, list : SUBSET Nodes]
      /\ remade \in SUBSET Pods /\ faults \in 0..MaxFaults
  BY CleanupAssumption DEF Init, CleanupAssumption
<1>2. claims \in [Pods -> Claims \cup {NoClaim}]
  BY <1>1 DEF Init, Claims
<1>3. pods \in [Pods -> Phases]
  BY DEF Init, Phases
<1>4. seen \in SeenType
  BY <1>1, <1>2, <1>3 DEF Init, Cluster, SeenType
<1>5. rec \in RecType /\ rec = Idle
  BY IdleType DEF Init
<1>6. rec.stuck = {} /\ rec.pods = {}
  BY <1>5 DEF Idle
<1> QED
  BY <1>1, <1>2, <1>3, <1>4, <1>5, <1>6 DEF TypeInv, TypeOK, SeenType, RecType

\* What the operator does to its own record, and to the pods and claims.
LEMMA OperatorType ==
    ASSUME TypeInv, Operator \/ (rec' = Idle /\ UNCHANGED <<pods, claims>>)
    PROVE  /\ rec' \in RecType
           /\ rec'.stuck \in SUBSET {p \in Pods : rec'.claims[p] # NoClaim
                                                    /\ rec'.claims[p].node # NoNode}
           /\ rec'.pods \in SUBSET rec'.stuck
           /\ rec'.step = "claims" => rec'.pods = {}
           /\ pods' \in [Pods -> Phases]
           /\ claims' \in [Pods -> Claims \cup {NoClaim}]
<1> DEFINE Good(r) == /\ r \in RecType
                      /\ r.stuck \in SUBSET {p \in Pods : r.claims[p] # NoClaim
                                                            /\ r.claims[p].node # NoNode}
                      /\ r.pods \in SUBSET r.stuck
                      /\ r.step = "claims" => r.pods = {}
<1>0. Good(rec) /\ pods \in [Pods -> Phases] /\ claims \in [Pods -> Claims \cup {NoClaim}]
      /\ seen \in SeenType
  BY DEF TypeInv, TypeOK, SeenType
<1>i. Good(Idle)
  BY IdleType DEF Idle
<1>1. CASE rec' = Idle /\ UNCHANGED <<pods, claims>>
  BY <1>0, <1>i, <1>1
<1>2. CASE ListClaims
  <2>1. rec' = [step |-> "nodes", claims |-> seen.claims, stuck |-> {}, pods |-> {}]
    BY <1>2 DEF ListClaims, Idle
  <2>2. seen.claims \in [Pods -> Claims \cup {NoClaim}]
    BY <1>0 DEF SeenType
  <2>3. Good(rec')
    BY <2>1, <2>2 DEF RecType
  <2> QED
    BY <1>0, <1>2, <2>3 DEF ListClaims
<1>3. CASE FindStuckPVCs
  <2> DEFINE stuck == Stuck(rec.claims, seen.nodes)
  <2>1. stuck \subseteq {p \in Pods : rec.claims[p] # NoClaim /\ rec.claims[p].node # NoNode}
    BY DEF Stuck, IsNodeGone
  <2>2. CASE stuck = {}
    BY <1>0, <1>3, <1>i, <2>2 DEF FindStuckPVCs
  <2>3. CASE stuck # {}
    <3> DEFINE kept == [p \in Pods |-> IF p \in stuck THEN rec.claims[p] ELSE NoClaim]
    <3>1. rec' = [step |-> "list", stuck |-> stuck, pods |-> {}, claims |-> kept]
      BY <1>3, <2>3 DEF FindStuckPVCs
    <3>2. kept \in [Pods -> Claims \cup {NoClaim}]
      BY <1>0 DEF RecType
    <3>3. \A p \in stuck : kept[p] = rec.claims[p]
      BY <2>1
    <3> HIDE DEF kept, stuck
    <3> QED
      BY <1>0, <1>3, <2>1, <3>1, <3>2, <3>3 DEF FindStuckPVCs, RecType
  <2> QED
    BY <2>2, <2>3
<1>4. CASE ListPods
  BY <1>0, <1>4 DEF ListPods, Mounting, RecType
<1>5. CASE \E p \in Pods : DeletePod(p)
  <2> PICK p \in Pods : DeletePod(p)
    BY <1>5
  <2>1. CASE pods[p] = "none"
    BY <1>0, <1>i, <2>1 DEF DeletePod
  <2>2. CASE pods[p] # "none"
    BY <1>0, <2>2 DEF DeletePod, RecType, Phases
  <2> QED
    BY <2>1, <2>2
<1>6. CASE PodsDeleted
  BY <1>0, <1>6 DEF PodsDeleted, RecType
<1>7. CASE \E p \in Pods : DeletePVC(p)
  <2> PICK p \in Pods : DeletePVC(p)
    BY <1>7
  <2>0. rec.step = "claims" /\ UNCHANGED pods
    BY DEF DeletePVC
  <2>1. claims' \in [Pods -> Claims \cup {NoClaim}]
    <3>1. CASE UNCHANGED claims
      BY <1>0, <3>1
    <3>2. CASE claims[p] # NoClaim /\ claims' = [claims EXCEPT ![p].deleting = TRUE]
      BY <1>0, <3>2 DEF Claims
    <3> QED
      BY <3>1, <3>2 DEF DeletePVC
  <2>2. CASE rec' = Idle
    BY <1>0, <1>i, <2>0, <2>1, <2>2
  <2>3. CASE rec' = [rec EXCEPT !.stuck = @ \ {p}]
    BY <1>0, <2>0, <2>1, <2>3 DEF RecType
  <2> QED
    BY <2>2, <2>3 DEF DeletePVC
<1> QED
  BY <1>1, <1>2, <1>3, <1>4, <1>5, <1>6, <1>7 DEF Operator

\* What the controllers of the cluster do to pods and claims.
LEMMA ControllersType ==
    ASSUME TypeInv, NEW p \in Pods, Controllers(p)
    PROVE  /\ pods' \in [Pods -> Phases]
           /\ claims' \in [Pods -> Claims \cup {NoClaim}]
           /\ remade' \in SUBSET Pods
<1>0. /\ pods \in [Pods -> Phases] /\ claims \in [Pods -> Claims \cup {NoClaim}]
      /\ remade \in SUBSET Pods /\ nodes \in SUBSET Nodes
  BY DEF TypeInv, TypeOK
<1>1. CASE PodLost(p)
  BY <1>0, <1>1 DEF PodLost, Phases
<1>2. CASE MakePod(p)
  <2>1. pods' \in [Pods -> Phases]
    BY <1>0, <1>2 DEF MakePod, Phases
  <2>2. claims' \in [Pods -> Claims \cup {NoClaim}]
    <3>1. [node |-> NoNode, bound |-> FALSE, deleting |-> FALSE] \in Claims
      BY DEF Claims
    <3> QED
      BY <1>0, <1>2, <3>1 DEF MakePod
  <2> QED
    BY <1>0, <1>2, <2>1, <2>2 DEF MakePod
<1>3. CASE Schedule(p)
  <2>1. claims[p] \in Claims /\ UNCHANGED <<pods, remade>>
    BY <1>0, <1>3 DEF Schedule
  <2>2. PICK c \in Claims : claims' = [claims EXCEPT ![p] = c]
    <3>1. CASE \E n \in nodes : claims' = [claims EXCEPT ![p].node = n]
      <4> PICK n \in nodes : claims' = [claims EXCEPT ![p].node = n]
        BY <3>1
      <4>1. [claims[p] EXCEPT !.node = n] \in Claims
        BY <1>0, <2>1 DEF Claims
      <4> QED
        BY <4>1
    <3>2. CASE claims' = [claims EXCEPT ![p].bound = TRUE]
      <4>1. [claims[p] EXCEPT !.bound = TRUE] \in Claims
        BY <2>1 DEF Claims
      <4> QED
        BY <3>2, <4>1
    <3> QED
      BY <1>3, <3>1, <3>2 DEF Schedule
  <2> QED
    BY <1>0, <2>1, <2>2
<1>4. CASE Run(p)
  BY <1>0, <1>4 DEF Run, Phases
<1>5. CASE ClaimGone(p)
  BY <1>0, <1>5 DEF ClaimGone
<1> QED
  BY <1>1, <1>2, <1>3, <1>4, <1>5 DEF Controllers

LEMMA NextType == TypeInv /\ [Next]_vars => TypeInv'
<1> SUFFICES ASSUME TypeInv, [Next]_vars PROVE TypeInv'
  OBVIOUS
<1> USE DEF TypeInv
<1>0. /\ nodes \in SUBSET Nodes /\ steady \in [copy : SUBSET Nodes, list : SUBSET Nodes]
      /\ seen \in SeenType
      /\ pods \in [Pods -> Phases] /\ claims \in [Pods -> Claims \cup {NoClaim}]
      /\ remade \in SUBSET Pods /\ faults \in 0..MaxFaults /\ MaxFaults \in Nat
  BY CleanupAssumption DEF TypeOK, SeenType, CleanupAssumption
<1>1. CASE Operator
  <2>1. UNCHANGED <<nodes, seen, remade, faults>>
    BY <1>1 DEF Operator, ListClaims, FindStuckPVCs, ListPods, DeletePod, PodsDeleted, DeletePVC
  <2>2. steady' = steady \/ steady' = [steady EXCEPT !.list = steady.copy]
    BY <1>1 DEF Operator, ListClaims, FindStuckPVCs, ListPods, DeletePod, PodsDeleted, DeletePVC
  <2>3. steady' \in [copy : SUBSET Nodes, list : SUBSET Nodes]
    BY <1>0, <2>2
  <2> QED
    BY <1>1, <2>1, <2>3, OperatorType DEF TypeOK, RecType
<1>2. CASE Abort
  <2>1. faults' \in 0..MaxFaults
    BY <1>0, <1>2 DEF Abort
  <2>2. rec' = Idle /\ UNCHANGED <<nodes, pods, claims, seen, remade, steady>>
    BY <1>2 DEF Abort
  <2> QED
    BY <2>1, <2>2, OperatorType DEF TypeOK, RecType
<1>3. CASE \E kind \in Kinds : Sync(kind)
  <2> PICK kind \in Kinds : Sync(kind)
    BY <1>3
  <2>1. seen' \in SeenType
    BY <1>0 DEF Sync, Kinds, Cluster, SeenType
  <2>2. UNCHANGED <<nodes, pods, claims, rec, remade, faults>>
    BY DEF Sync
  <2>3. steady' \in [copy : SUBSET Nodes, list : SUBSET Nodes]
    BY <1>0 DEF Sync
  <2> QED
    BY <2>1, <2>2, <2>3 DEF TypeOK, SeenType
<1>4. CASE \E n \in Nodes : NodeLeaves(n) \/ NodeJoins(n)
  <2> PICK n \in Nodes : NodeLeaves(n) \/ NodeJoins(n)
    BY <1>4
  <2>1. nodes' \in SUBSET Nodes
    BY <1>0 DEF NodeLeaves, NodeJoins
  <2>2. UNCHANGED <<pods, claims, seen, rec, remade, faults>>
    BY DEF NodeLeaves, NodeJoins
  <2>3. steady' \in [copy : SUBSET Nodes, list : SUBSET Nodes]
    BY <1>0 DEF NodeLeaves, NodeJoins
  <2> QED
    BY <2>1, <2>2, <2>3 DEF TypeOK
<1>5. CASE \E p \in Pods : Controllers(p)
  <2> PICK p \in Pods : Controllers(p)
    BY <1>5
  <2>1. UNCHANGED <<nodes, seen, rec, faults, steady>>
    BY DEF Controllers, PodLost, MakePod, Schedule, Run, ClaimGone
  <2> QED
    BY <2>1, ControllersType DEF TypeOK
<1>6. CASE UNCHANGED vars
  BY <1>6 DEF vars, TypeOK
<1> QED
  BY <1>1, <1>2, <1>3, <1>4, <1>5, <1>6 DEF Next

\* Every reachable state of the clean-up is well typed; a pod that is to be deleted
\* mounts a stuck claim, and a stuck claim has a node (CleanupStatefulPods).
THEOREM CleanupTypeCorrect == Spec => []TypeOK
<1>1. TypeInv => TypeOK
  BY DEF TypeInv
<1> QED
  BY <1>1, InitType, NextType, PTL DEF Spec

-------------------------------------------------------------------------------
(* The first claims                                                          *)

\* A copy of a claim that was not made anew since.
CopyOf(copy, claim) ==
    copy # NoClaim =>
        /\ claim # NoClaim
        /\ copy.node # NoNode => claim.node = copy.node

\* The operator's copy of the nodes shows those that are steady since it was made; copies
\* of a first claim show the node it still has; a stuck first claim is on none of the nodes
\* that are steady since the copy that the clean-up has read.
FirstInv ==
    /\ steady.copy \subseteq seen.nodes
    /\ \A p \in Pods \ remade : CopyOf(seen.claims[p], claims[p])
    /\ \A p \in Pods \ remade : CopyOf(rec.claims[p], claims[p])
    /\ \A p \in rec.stuck \ remade : rec.claims[p].node \notin steady.list

LEMMA FirstInit == Init => FirstInv
<1> SUFFICES ASSUME Init PROVE FirstInv
  OBVIOUS
<1>1. rec.stuck = {} /\ \A p \in Pods : rec.claims[p] = NoClaim
  BY DEF Init, Idle, NoClaims
<1>2. seen.nodes = nodes /\ seen.claims = claims /\ steady.copy = nodes
  BY DEF Init, Cluster
<1> QED
  BY <1>1, <1>2 DEF FirstInv, CopyOf

\* The operator's steps that change its record only.
LEMMA RecordSteps ==
    ASSUME TypeInv, FirstInv, UNCHANGED <<claims, seen, remade, steady>>,
           \/ rec' = Idle
           \/ ListClaims
           \/ rec'.claims = rec.claims /\ rec'.stuck \subseteq rec.stuck
    PROVE  FirstInv'
<1>1. CASE rec' = Idle
  BY <1>1 DEF Idle, NoClaims, CopyOf, FirstInv
<1>2. CASE ListClaims
  BY <1>2 DEF ListClaims, Idle, FirstInv
<1>3. CASE rec'.claims = rec.claims /\ rec'.stuck \subseteq rec.stuck
  BY <1>3 DEF FirstInv
<1> QED
  BY <1>1, <1>2, <1>3

\* A claim is stuck when the copy of the nodes does not show its node.
LEMMA FindFirst ==
    ASSUME TypeInv, FirstInv, FindStuckPVCs
    PROVE  FirstInv'
<1> DEFINE stuck == Stuck(rec.claims, seen.nodes)
<1>0. steady \in [copy : SUBSET Nodes, list : SUBSET Nodes]
  BY DEF TypeInv, TypeOK
<1>1. steady'.copy = steady.copy /\ steady'.list = steady.copy
  BY <1>0 DEF FindStuckPVCs
<1>2. UNCHANGED <<nodes, pods, claims, seen, faults, remade>>
  BY DEF FindStuckPVCs
<1>3. CASE stuck = {}
  <2>1. rec' = Idle
    BY <1>3 DEF FindStuckPVCs
  <2> QED
    BY <1>1, <1>2, <2>1 DEF Idle, NoClaims, CopyOf, FirstInv
<1>4. CASE stuck # {}
  <2>1. /\ rec'.stuck = stuck
        /\ rec'.claims = [p \in Pods |-> IF p \in stuck THEN rec.claims[p] ELSE NoClaim]
    BY <1>4 DEF FindStuckPVCs
  <2>2. \A p \in stuck : p \in Pods /\ rec.claims[p].node \notin steady.copy
    BY DEF Stuck, IsNodeGone, FirstInv
  <2> HIDE DEF stuck
  <2> QED
    BY <1>1, <1>2, <2>1, <2>2 DEF FirstInv, CopyOf
<1> QED
  BY <1>3, <1>4

\* A claim may change as long as it keeps its node and does not go, unless it is none
\* or has no node yet.
LEMMA ClaimSteps ==
    ASSUME TypeInv, FirstInv, UNCHANGED <<seen, remade, steady>>,
           NEW p \in Pods, NEW c \in Claims, claims' = [claims EXCEPT ![p] = c],
           claims[p] # NoClaim /\ claims[p].node # NoNode => c.node = claims[p].node,
           \/ UNCHANGED rec
           \/ rec' = Idle
           \/ rec'.claims = rec.claims /\ rec'.stuck \subseteq rec.stuck
    PROVE  FirstInv'
<1>0. /\ claims \in [Pods -> Claims \cup {NoClaim}]
      /\ rec.stuck \subseteq Pods
      /\ c # NoClaim
  BY CleanupAssumption DEF TypeInv, TypeOK, RecType, CleanupAssumption
<1>1. claims'[p] = c /\ \A q \in Pods \ {p} : claims'[q] = claims[q]
  BY <1>0
<1>2. ASSUME NEW q \in Pods, NEW copy, CopyOf(copy, claims[q]) PROVE CopyOf(copy, claims'[q])
  BY <1>0, <1>1, <1>2 DEF CopyOf
<1>3. \A q \in Pods \ remade : CopyOf(seen.claims[q], claims'[q]) /\ CopyOf(rec.claims[q], claims'[q])
  BY <1>2 DEF FirstInv
<1>4. CASE UNCHANGED rec
  BY <1>3, <1>4 DEF FirstInv
<1>5. CASE rec' = Idle
  BY <1>3, <1>5 DEF FirstInv, Idle, NoClaims, CopyOf
<1>6. CASE rec'.claims = rec.claims /\ rec'.stuck \subseteq rec.stuck
  BY <1>3, <1>6 DEF FirstInv
<1> QED
  BY <1>4, <1>5, <1>6

LEMMA OperatorFirst ==
    ASSUME TypeInv, FirstInv, Operator
    PROVE  FirstInv'
<1>0. rec \in RecType /\ claims \in [Pods -> Claims \cup {NoClaim}]
  BY DEF TypeInv, TypeOK
<1>1. CASE ListClaims
  BY <1>1, RecordSteps DEF ListClaims
<1>2. CASE FindStuckPVCs
  BY <1>2, FindFirst
<1>3. CASE ListPods \/ PodsDeleted \/ \E p \in Pods : DeletePod(p)
  <2>1. UNCHANGED <<claims, seen, remade, steady>>
    BY <1>3 DEF ListPods, PodsDeleted, DeletePod
  <2>2. rec' = Idle \/ (rec'.claims = rec.claims /\ rec'.stuck = rec.stuck)
    BY <1>0, <1>3 DEF ListPods, PodsDeleted, DeletePod, RecType
  <2> QED
    BY <2>1, <2>2, RecordSteps
<1>4. CASE \E p \in Pods : DeletePVC(p)
  <2> PICK p \in Pods : DeletePVC(p)
    BY <1>4
  <2>1. UNCHANGED <<seen, remade, steady>>
    BY DEF DeletePVC
  <2>2. rec' = Idle \/ (rec'.claims = rec.claims /\ rec'.stuck \subseteq rec.stuck)
    BY <1>0 DEF DeletePVC, RecType
  <2>3. CASE UNCHANGED claims
    BY <2>1, <2>2, <2>3, RecordSteps
  <2>4. CASE claims[p] # NoClaim /\ claims' = [claims EXCEPT ![p].deleting = TRUE]
    <3> DEFINE c == [claims[p] EXCEPT !.deleting = TRUE]
    <3>1. claims[p] \in Claims
      BY <1>0, <2>4
    <3>2. c \in Claims /\ c.node = claims[p].node
      BY <3>1 DEF Claims
    <3>3. claims' = [claims EXCEPT ![p] = c]
      BY <2>4
    <3> HIDE DEF c
    <3> QED
      BY <2>1, <2>2, <3>2, <3>3, ClaimSteps
  <2> QED
    BY <2>3, <2>4 DEF DeletePVC
<1> QED
  BY <1>1, <1>2, <1>3, <1>4 DEF Operator

LEMMA ControllersFirst ==
    ASSUME TypeInv, FirstInv, NEW p \in Pods, Controllers(p)
    PROVE  FirstInv'
<1>0. /\ claims \in [Pods -> Claims \cup {NoClaim}] /\ nodes \in SUBSET Nodes
      /\ rec.stuck \subseteq Pods
  BY DEF TypeInv, TypeOK, RecType
<1>1. CASE PodLost(p) \/ Run(p)
  BY <1>1 DEF PodLost, Run, FirstInv
<1>2. CASE MakePod(p)
  <2> DEFINE c == [node |-> NoNode, bound |-> FALSE, deleting |-> FALSE]
  <2>1. UNCHANGED <<seen, rec, remade, steady>>
    BY <1>2 DEF MakePod
  <2>2. CASE UNCHANGED claims
    BY <2>1, <2>2 DEF FirstInv
  <2>3. CASE claims[p] = NoClaim /\ claims' = [claims EXCEPT ![p] = c]
    <3>1. c \in Claims
      BY DEF Claims
    <3> HIDE DEF c
    <3> QED
      BY <2>1, <2>3, <3>1, ClaimSteps
  <2> QED
    BY <1>2, <2>2, <2>3 DEF MakePod
<1>3. CASE Schedule(p)
  <2>1. UNCHANGED <<seen, rec, remade, steady>> /\ claims[p] # NoClaim /\ claims[p] \in Claims
    BY <1>0, <1>3 DEF Schedule
  <2>2. CASE \E n \in nodes : claims[p].node = NoNode /\ claims' = [claims EXCEPT ![p].node = n]
    <3> PICK n \in nodes : claims[p].node = NoNode /\ claims' = [claims EXCEPT ![p].node = n]
      BY <2>2
    <3> DEFINE c == [claims[p] EXCEPT !.node = n]
    <3>1. c \in Claims /\ claims' = [claims EXCEPT ![p] = c]
      BY <1>0, <2>1 DEF Claims
    <3> HIDE DEF c
    <3> QED
      BY <2>1, <3>1, ClaimSteps
  <2>3. CASE claims' = [claims EXCEPT ![p].bound = TRUE]
    <3> DEFINE c == [claims[p] EXCEPT !.bound = TRUE]
    <3>1. c \in Claims /\ c.node = claims[p].node /\ claims' = [claims EXCEPT ![p] = c]
      BY <2>1, <2>3 DEF Claims
    <3> HIDE DEF c
    <3> QED
      BY <2>1, <3>1, ClaimSteps
  <2> QED
    BY <1>3, <2>2, <2>3 DEF Schedule
<1>4. CASE ClaimGone(p)
  <2>1. /\ UNCHANGED <<seen, rec, steady>>
        /\ remade' = remade \cup {p}
        /\ claims' = [claims EXCEPT ![p] = NoClaim]
    BY <1>4 DEF ClaimGone
  <2>2. \A q \in Pods \ {p} : claims'[q] = claims[q]
    BY <1>0, <2>1
  <2>3. \A q \in Pods \ remade' : q # p /\ q \in Pods \ remade
    BY <2>1
  <2> QED
    BY <1>0, <2>1, <2>2, <2>3 DEF FirstInv
<1> QED
  BY <1>1, <1>2, <1>3, <1>4 DEF Controllers

LEMMA FirstNext == TypeInv /\ FirstInv /\ [Next]_vars => FirstInv'
<1> SUFFICES ASSUME TypeInv, FirstInv, [Next]_vars PROVE FirstInv'
  OBVIOUS
<1>0. /\ seen \in SeenType /\ steady \in [copy : SUBSET Nodes, list : SUBSET Nodes]
      /\ rec.stuck \subseteq Pods
  BY DEF TypeInv, TypeOK, SeenType, RecType
<1>1. CASE Operator
  BY <1>1, OperatorFirst
<1>2. CASE Abort
  BY <1>2, RecordSteps DEF Abort
<1>3. CASE \E kind \in Kinds : Sync(kind)
  <2> PICK kind \in Kinds : Sync(kind)
    BY <1>3
  <2>1. UNCHANGED <<nodes, claims, rec, remade>>
    BY DEF Sync
  <2>2. seen'.claims = seen.claims \/ seen'.claims = claims
    BY <1>0 DEF Sync, Kinds, Cluster, SeenType
  <2>3. steady'.list = steady.list /\ steady'.copy \subseteq seen'.nodes
    BY <1>0 DEF Sync, Kinds, Cluster, SeenType, FirstInv
  <2> QED
    BY <2>1, <2>2, <2>3 DEF FirstInv, CopyOf
<1>4. CASE \E n \in Nodes : NodeLeaves(n) \/ NodeJoins(n)
  <2> PICK n \in Nodes : NodeLeaves(n) \/ NodeJoins(n)
    BY <1>4
  <2>1. steady'.copy \subseteq steady.copy /\ steady'.list \subseteq steady.list
    BY DEF NodeLeaves, NodeJoins
  <2>2. UNCHANGED <<claims, seen, rec, remade>>
    BY DEF NodeLeaves, NodeJoins
  <2> QED
    BY <2>1, <2>2 DEF FirstInv
<1>5. CASE \E p \in Pods : Controllers(p)
  BY <1>5, ControllersFirst
<1>6. CASE UNCHANGED vars
  BY <1>6 DEF vars, FirstInv
<1> QED
  BY <1>1, <1>2, <1>3, <1>4, <1>5, <1>6 DEF Next

\* The step in which a first claim begins to be deleted is DeletePVC, of a claim that
\* FirstInv knows to be on none of the steady nodes.
LEMMA FirstStep ==
    ASSUME TypeInv, FirstInv, Next, NEW p \in Pods \ remade,
           claims[p] # NoClaim, ~claims[p].deleting, claims'[p].deleting
    PROVE  claims[p].node \notin steady.list
<1>0. claims \in [Pods -> Claims \cup {NoClaim}] /\ claims[p] \in Claims
  BY DEF TypeInv, TypeOK
<1>1. claims'[p] # claims[p]
  OBVIOUS
<1>2. ~UNCHANGED claims
  BY <1>1
<1>3. CASE Operator
  <2>1. PICK q \in Pods : DeletePVC(q)
    BY <1>2, <1>3 DEF Operator, ListClaims, FindStuckPVCs, ListPods, DeletePod, PodsDeleted
  <2>2. q \in rec.stuck /\ claims' = [claims EXCEPT ![q].deleting = TRUE]
    BY <1>2, <2>1 DEF DeletePVC
  <2>3. q = p
    BY <1>0, <1>1, <2>2
  <2>4. rec.claims[p].node \notin steady.list /\ CopyOf(rec.claims[p], claims[p])
    BY <2>2, <2>3 DEF FirstInv
  <2>5. rec.claims[p] # NoClaim /\ rec.claims[p].node # NoNode
    BY <2>2, <2>3 DEF TypeInv, TypeOK
  <2> QED
    BY <1>0, <2>4, <2>5 DEF CopyOf
<1>4. CASE \E q \in Pods : Controllers(q)
  <2>1. PICK q \in Pods : MakePod(q) \/ Schedule(q) \/ ClaimGone(q)
    BY <1>2, <1>4 DEF Controllers, PodLost, Run
  <2>2. CASE MakePod(q)
    BY <1>0, <1>1, <1>2, <2>2 DEF MakePod
  <2>3. CASE Schedule(q)
    BY <1>0, <1>1, <2>3 DEF Schedule, Claims
  <2>4. CASE ClaimGone(q)
    BY <1>0, <1>1, <2>4 DEF ClaimGone
  <2> QED
    BY <2>1, <2>2, <2>3, <2>4
<1> QED
  BY <1>2, <1>3, <1>4 DEF Next, Abort, Sync, NodeLeaves, NodeJoins

\* The first claim of a pod is not deleted while it is on a node that the clean-up's copy of
\* the nodes shows and that stays, for any nodes, pods and faults, however old the copies
\* are and whichever nodes leave, join and return (findStuckPVCs, deletePVC).
THEOREM FirstClaimsAreKept == Spec => SteadyNodesKeepClaims
<1> DEFINE Kept == \A p \in Pods \ remade :
                      claims[p] # NoClaim /\ ~claims[p].deleting /\ claims'[p].deleting
                          => claims[p].node \notin steady.list
<1>1. TypeInv /\ FirstInv /\ [Next]_vars => (TypeInv /\ FirstInv)'
  BY NextType, FirstNext
<1>2. TypeInv /\ FirstInv /\ [Next]_vars => [Kept]_vars
  BY FirstStep
<1>3. Init => TypeInv /\ FirstInv
  BY InitType, FirstInit
<1> QED
  BY <1>1, <1>2, <1>3, PTL DEF Spec, SteadyNodesKeepClaims
=============================================================================
