-------------------------- MODULE NodeStatusesProofs --------------------------
(* Theorems about NodeStatuses, for any nodes, hashes, installations and       *)
(* faults.                                                                     *)
EXTENDS NodeStatuses, FiniteSetTheorems, WellFoundedInduction, TLAPS

-------------------------------------------------------------------------------
(* CoalesceInstallations                                                       *)

LEMMA LeastNatural ==
    ASSUME NEW S, S \subseteq Nat, S # {}
    PROVE  \E m \in S : \A n \in S : m <= n
<1>1. PICK m \in S : \A n \in S : <<n, m>> \notin OpToRel(<, Nat)
  BY WFMin, NatLessThanWellFounded, Zenon
<1>2. \A n \in S : ~(n < m)
  BY <1>1, Zenon DEF OpToRel
<1> QED
  BY <1>2

LEMMA NewestOf ==
    ASSUME NEW S, S \subseteq Installations, S # {}
    PROVE  \E m \in S : \A n \in S : n <= m
<1> DEFINE ages == {Last - i : i \in S}
<1>1. ages \subseteq Nat /\ ages # {}
  <2>1. \A i \in S : i \in Int /\ i <= Last /\ Last \in Int
    BY NodesAssumption DEF NodesAssumption, Installations
  <2>2. \A i \in S : Last - i \in Nat
    BY <2>1
  <2> QED
    BY <2>2
<1>2. PICK a \in ages : \A b \in ages : a <= b
  BY <1>1, LeastNatural
<1>3. PICK m \in S : a = Last - m
  BY <1>2
<1>4. \A n \in S : Last - m <= Last - n
  BY <1>2, <1>3
<1>5. \A n \in S : n <= m
  BY <1>4, NodesAssumption DEF NodesAssumption, Installations
<1> QED
  BY <1>5

\* The statuses of the newest installation that has some, if there is one.
LEMMA Coalesced ==
    ASSUME NEW items \in SUBSET Installations, NEW of
    PROVE  \/ /\ \A i \in items : of[i] = NoStatuses
              /\ CoalesceInstallations(items, of) = NoStatuses
           \/ \E m \in items : /\ of[m] # NoStatuses
                               /\ \A i \in items : i > m => of[i] = NoStatuses
                               /\ CoalesceInstallations(items, of) = of[m]
<1> DEFINE with == {i \in items : of[i] # NoStatuses}
           newestWith == CHOOSE i \in with : \A j \in with : j <= i
<1>1. CASE with = {}
  BY <1>1 DEF CoalesceInstallations
<1>2. CASE with # {}
  <2>1. \E i \in with : \A j \in with : j <= i
    BY <1>2, NewestOf
  <2>2. newestWith \in with /\ \A j \in with : j <= newestWith
    BY <2>1
  <2>3. CoalesceInstallations(items, of) = of[newestWith]
    BY <1>2 DEF CoalesceInstallations
  <2> HIDE DEF newestWith
  <2>4. \A i \in items : i > newestWith => of[i] = NoStatuses
    BY <2>2 DEF Installations
  <2> QED
    BY <2>2, <2>3, <2>4
<1> QED
  BY <1>1, <1>2

LEMMA CoalescedIsNewest ==
    ASSUME NEW items \in SUBSET Installations, NEW of, NEW m \in items,
           of[m] # NoStatuses, \A i \in items : i > m => of[i] = NoStatuses
    PROVE  CoalesceInstallations(items, of) = of[m]
<1>1. PICK k \in items : /\ of[k] # NoStatuses
                         /\ \A i \in items : i > k => of[i] = NoStatuses
                         /\ CoalesceInstallations(items, of) = of[k]
  BY Coalesced
<1>2. k = m
  BY <1>1 DEF Installations
<1> QED
  BY <1>1, <1>2

LEMMA CoalescedNone ==
    ASSUME NEW items \in SUBSET Installations, NEW of, \A i \in items : of[i] = NoStatuses
    PROVE  CoalesceInstallations(items, of) = NoStatuses
BY Coalesced

LEMMA CoalescedType ==
    ASSUME NEW items \in SUBSET Installations, NEW of \in [Installations -> Statuses]
    PROVE  CoalesceInstallations(items, of) \in Statuses
<1>1. NoStatuses \in Statuses
  BY DEF NoStatuses, Statuses
<1> QED
  BY <1>1, Coalesced

\* Installations without statuses may be added.
LEMMA CoalescedMore ==
    ASSUME NEW items \in SUBSET Installations, NEW more \in SUBSET Installations, NEW of,
           items \subseteq more, \A i \in more \ items : of[i] = NoStatuses
    PROVE  CoalesceInstallations(more, of) = CoalesceInstallations(items, of)
<1>1. CASE \A i \in items : of[i] = NoStatuses
  BY <1>1, CoalescedNone
<1>2. CASE ~\A i \in items : of[i] = NoStatuses
  <2>1. PICK m \in items : /\ of[m] # NoStatuses
                           /\ \A i \in items : i > m => of[i] = NoStatuses
                           /\ CoalesceInstallations(items, of) = of[m]
    BY <1>2, Coalesced
  <2>2. m \in more /\ \A i \in more : i > m => of[i] = NoStatuses
    BY <2>1
  <2> QED
    BY <2>1, <2>2, CoalescedIsNewest
<1> QED
  BY <1>1, <1>2

-------------------------------------------------------------------------------
(* Types                                                                       *)

RecType == [step : Steps, in : Installations, items : SUBSET Installations,
            stale : SUBSET Installations, before : Statuses, now : Statuses,
            todo : SUBSET Nodes]
CacheType == [newest : Installations, saved : [Installations -> Statuses],
              obsolete : SUBSET Installations]

LEMMA FirstInstallation == 1 \in Installations
BY NodesAssumption DEF NodesAssumption, Installations

LEMMA IdleType == NoStatuses \in Statuses /\ Idle \in RecType
<1>1. NoStatuses \in Statuses
  BY DEF NoStatuses, Statuses
<1> QED
  BY <1>1, FirstInstallation DEF Idle, RecType, Steps

\* The variables with a type of their own, as facts to cite.
LEMMA Types ==
    ASSUME TypeOK
    PROVE  /\ nodes \in Statuses
           /\ newest \in Installations
           /\ saved \in [Installations -> Statuses]
           /\ obsolete \in SUBSET Installations
           /\ cache \in CacheType
           /\ behind \in SUBSET Installations
           /\ rec \in RecType
           /\ jobs \in SUBSET Nodes /\ without \in [Nodes -> 0..NoJobYet]
           /\ changes \in [Nodes -> Nat] /\ events \in [Nodes -> Nat]
           /\ faults \in 0..MaxFaults
           /\ blind \in SUBSET Installations
BY DEF TypeOK, CacheType, RecType

LEMMA FromTypes ==
    ASSUME nodes' \in Statuses,
           newest' \in Installations,
           saved' \in [Installations -> Statuses],
           obsolete' \in SUBSET Installations,
           cache' \in CacheType,
           behind' \in SUBSET Installations,
           rec' \in RecType,
           jobs' \in SUBSET Nodes, without' \in [Nodes -> 0..NoJobYet],
           changes' \in [Nodes -> Nat], events' \in [Nodes -> Nat],
           faults' \in 0..MaxFaults,
           blind' \in SUBSET Installations
    PROVE  TypeOK'
BY DEF TypeOK, CacheType, RecType

LEMMA FaultType == ASSUME TypeOK, Fault PROVE faults' \in 0..MaxFaults
BY NodesAssumption DEF TypeOK, Fault, NodesAssumption

LEMMA InitType == Init => TypeOK
<1> SUFFICES ASSUME Init PROVE TypeOK
  OBVIOUS
<1>1. cache \in CacheType /\ saved \in [Installations -> Statuses]
  BY FirstInstallation, IdleType DEF Init, CacheType
<1>2. changes \in [Nodes -> Nat] /\ events \in [Nodes -> Nat]
  BY DEF Init
<1>3. nodes \in Statuses /\ rec \in RecType /\ without \in [Nodes -> 0..NoJobYet]
  BY IdleType, NodesAssumption DEF Init, NoJobYet, NodesAssumption
<1>4. newest \in Installations /\ faults \in 0..MaxFaults
  BY FirstInstallation, NodesAssumption DEF Init, NodesAssumption
<1> QED
  BY <1>1, <1>2, <1>3, <1>4 DEF Init, TypeOK, CacheType, RecType

LEMMA SaveType ==
    ASSUME TypeOK, SaveStatuses
    PROVE  /\ saved' \in [Installations -> Statuses]
           /\ behind' \in SUBSET Installations
           /\ without' \in [Nodes -> 0..NoJobYet]
BY Types, NodesAssumption
   DEF SaveStatuses, RecType, Installations, NoJobYet, NodesAssumption

LEMMA StoredType == ASSUME TypeOK PROVE Stored \in CacheType
BY Types DEF Stored, CacheType

\* A change of a node, without the bound on changes.
LEMMA NodeChange ==
    ASSUME NEW n \in Nodes, NodeChanges(n)
    PROVE  /\ \E h \in (Hashes \cup {Absent}) \ {nodes[n]} : nodes' = [nodes EXCEPT ![n] = h]
           /\ nodes' # NoStatuses
           /\ changes' = [changes EXCEPT ![n] = @ + 1]
           /\ UNCHANGED <<installVars, cacheVars, rec, jobVars, events, faults, blind>>
BY Zenon DEF NodeChanges

LEMMA NextType == TypeOK /\ [Next]_vars => TypeOK'
<1> SUFFICES ASSUME TypeOK, [Next]_vars PROVE TypeOK'
  OBVIOUS
<1> USE DEF nodeVars, installVars, cacheVars, jobVars
<1>0. Idle \in RecType
  BY IdleType
<1>1. CASE Reconcile
  <2> DEFINE items == (1..cache.newest) \ cache.obsolete
             was   == CoalesceInstallations(items, cache.saved)
  <2>1. cache.newest \in Installations /\ items \in SUBSET Installations
    BY Types, NodesAssumption DEF CacheType, Installations, NodesAssumption
  <2>2. was \in Statuses
    BY <2>1, Types, CoalescedType DEF CacheType
  <2>3. rec' \in RecType
    <3> HIDE DEF items, was
    <3>1. rec' = [Idle EXCEPT !.step = "nodes", !.in = cache.newest, !.items = items,
                              !.stale = behind, !.before = was, !.now = was]
      BY <1>1 DEF Reconcile, items, was
    <3> QED
      BY <1>0, <2>1, <2>2, <3>1, Types DEF RecType, Steps
  <2>4. blind' \in SUBSET Installations
    BY <1>1, <2>1, Types DEF Reconcile
  <2> QED
    BY <1>1, <2>3, <2>4, Types, FromTypes DEF Reconcile
<1>2. CASE ReconcileNodeStatuses
  <2>1. rec' \in RecType
    BY <1>2, Types DEF ReconcileNodeStatuses, RecType, Steps
  <2> QED
    BY <1>2, <2>1, Types, FromTypes DEF ReconcileNodeStatuses
<1>3. CASE CopyHostPreflightResultsFromNodes
  <2>1. rec' \in RecType
    BY <1>0, <1>3, Types DEF CopyHostPreflightResultsFromNodes, JobExists, RecType, Steps
  <2>2. jobs' \in SUBSET Nodes /\ without' \in [Nodes -> 0..NoJobYet]
    BY <1>3, Types, NodesAssumption
       DEF CopyHostPreflightResultsFromNodes, RecType, NoJobYet, NodesAssumption
  <2> QED
    BY <1>3, <2>1, <2>2, Types, FromTypes DEF CopyHostPreflightResultsFromNodes
<1>4. CASE ReconcileK0sVersion
  <2>1. rec' \in RecType
    BY <1>4, Types DEF ReconcileK0sVersion, RecType, Steps
  <2> QED
    BY <1>4, <2>1, Types, FromTypes DEF ReconcileK0sVersion
<1>5. CASE SaveUnreported
  BY <1>0, <1>5, SaveType, Types, FromTypes DEF SaveUnreported
<1>6. CASE UpdateStatus
  <2>1. rec' \in RecType
    BY <1>0, <1>6, Types DEF UpdateStatus, RecType, Steps
  <2> QED
    BY <1>6, <2>1, SaveType, Types, FromTypes DEF UpdateStatus
<1>7. CASE DisableOldInstallations
  <2>1. rec' \in RecType
    BY <1>0, <1>7, Types DEF DisableOldInstallations, RecType, Steps
  <2>2. PICK done \in SUBSET (rec.items \ {rec.in}) :
           /\ saved' = [i \in Installations |-> IF i \in done THEN NoStatuses ELSE saved[i]]
           /\ obsolete' = obsolete \cup done
           /\ behind' = behind \cup done
           /\ UNCHANGED faults \/ Fault
    BY <1>7 DEF DisableOldInstallations, OldInstallations
  <2>3. done \in SUBSET Installations
    BY Types DEF RecType
  <2>4. saved' \in [Installations -> Statuses]
    BY <2>2, Types, IdleType
  <2> QED
    BY <1>7, <2>1, <2>2, <2>3, <2>4, Types, FromTypes, FaultType DEF DisableOldInstallations
<1>8. CASE ReportNodesChanges
  <2>1. events' \in [Nodes -> Nat]
    BY <1>8, Types DEF ReportNodesChanges
  <2>2. faults' \in 0..MaxFaults
    BY <1>8, Types, FaultType DEF ReportNodesChanges
  <2> QED
    BY <1>0, <1>8, <2>1, <2>2, Types, FromTypes DEF ReportNodesChanges
<1>9. CASE ConfigSecretFails
  <2>1. rec' \in RecType
    BY <1>0, <1>9, Types DEF ConfigSecretFails, RecType, Steps
  <2> QED
    BY <1>9, <2>1, SaveType, Types, FromTypes, FaultType DEF ConfigSecretFails
<1>10. CASE Abort
  BY <1>0, <1>10, StoredType, Types, FromTypes, FaultType DEF Abort
<1>11. CASE Sync
  BY <1>11, StoredType, Types, FromTypes DEF Sync
<1>12. CASE NewInstallation
  <2>1. newest' \in Installations
    BY <1>12, Types, NodesAssumption DEF NewInstallation, Installations, NodesAssumption
  <2> QED
    BY <1>12, <2>1, Types, FromTypes DEF NewInstallation
<1>13. ASSUME NEW n \in Nodes, NodeChanges(n)
       PROVE  TypeOK'
  <2>1. nodes' \in Statuses /\ changes' \in [Nodes -> Nat]
    BY <1>13, NodeChange, Types DEF Statuses
  <2> QED
    BY <1>13, <2>1, NodeChange, Types, FromTypes
<1>14. ASSUME NEW n \in Nodes, JobEnds(n)
       PROVE  TypeOK'
  BY <1>14, Types, FromTypes DEF JobEnds
<1>15. CASE UNCHANGED vars
  BY <1>15, Types, FromTypes DEF vars
<1> QED
  BY <1>1, <1>2, <1>3, <1>4, <1>5, <1>6, <1>7, <1>8, <1>9, <1>10, <1>11, <1>12, <1>13,
     <1>14, <1>15 DEF Next, Operator

\* Statuses, the informer's copy, the reconcile in progress and the jobs have their
\* types; the copy never shows an installation that cannot exist (Reconcile).
THEOREM StatusesTypeCorrect == Spec => []TypeOK
BY InitType, NextType, PTL DEF Spec

-------------------------------------------------------------------------------
(* The inductive invariant                                                     *)

Deciding == {"nodes", "preflights", "k0s", "earlySave", "save"}
Decided  == {"disable", "disableFailed", "report"}

\* The save of the reconcile in progress would not conflict.
UpToDate == rec.step \in Deciding /\ rec.in \notin rec.stale

\* No later installation has statuses.
LastWith(i) == \A j \in Installations : j > i => saved[j] = NoStatuses

\* The statuses that an installation without its own takes over from an up-to-date list.
Held == CoalesceInstallations(Installations, saved)

\* The copy shows what it does not lag behind.  Only installations older than the newest
\* it shows are obsolete, and no later one has statuses.
CopyInv ==
    /\ \A i \in Installations \ behind :
          cache.saved[i] = saved[i] /\ (i \in cache.obsolete <=> i \in obsolete)
    /\ cache.newest <= newest
    /\ LastWith(cache.newest)
    /\ \A i \in obsolete : i < cache.newest /\ saved[i] = NoStatuses
    /\ cache.obsolete \subseteq obsolete
    /\ \A i \in blind : i <= cache.newest

\* A reconcile works on what was the newest installation when it began, and takes over
\* the statuses of an older one only if that had none.
RecInv ==
    rec.step # "idle" =>
        /\ rec.in <= cache.newest
        /\ \A i \in rec.items : i <= rec.in
        /\ LastWith(rec.in)
        /\ \A i \in obsolete : i < rec.in
        /\ \A i \in blind : i <= rec.in
        /\ rec.before = NoStatuses /\ (rec.step \in Deciding \/ rec.now = NoStatuses) =>
               \A i \in rec.items \ rec.stale : saved[i] = NoStatuses
        /\ UpToDate /\ (saved[rec.in] # NoStatuses \/ rec.in = 1) =>
               rec.before = saved[rec.in]

\* What it would save or has saved.
NowInv ==
    /\ nodes # NoStatuses
    /\ rec.step \in {"nodes", "disableFailed"} => rec.now = rec.before
    /\ rec.step \notin {"idle", "nodes", "disableFailed"} => rec.now # NoStatuses
    /\ rec.step \in Decided => saved[rec.in] = rec.now

Differ(a, b) == IF a = b THEN 0 ELSE 1

\* The event of a change that is saved is still to be sent.
Pending(n) == IF rec.step \in Decided THEN Differ(rec.before[n], rec.now[n]) ELSE 0

\* A node has changed once for every event but one for every blind installation: once if the
\* statuses held are not the node's, once for the change that the reconcile in progress may
\* report, and once for what a blind installation without statuses may still take over.
CountInv ==
    \A n \in Nodes :
        /\ events[n] + Differ(Held[n], nodes[n]) + Pending(n) <= changes[n] + Cardinality(blind)
        /\ \A i \in blind :
              saved[i] = NoStatuses /\ LastWith(i) =>
                  events[n] + 1 + Pending(n) <= changes[n] + Cardinality(blind)
        /\ UpToDate =>
              events[n] + Differ(rec.before[n], rec.now[n]) + Differ(rec.now[n], nodes[n])
                  <= changes[n] + Cardinality(blind)

\* The preflight job of the node is still to be created by the reconcile in progress.
ToCopy(n) == rec.step = "preflights" /\ n \in rec.todo

\* A node that has a status anywhere has had a job; an installation that takes a node out
\* of the statuses keeps some; and the last statuses are never those of an installation
\* that took the node out, or of an older one.
JobInv ==
    \A n \in Nodes :
        /\ \A i \in Installations :
              saved[i][n] # Absent \/ cache.saved[i][n] # Absent => without[n] <= Last
        /\ rec.step # "idle" /\ (rec.before[n] # Absent \/ (rec.now[n] # Absent /\ ~ToCopy(n)))
              => without[n] <= Last
        /\ without[n] \in Installations =>
              \E j \in Installations : j >= without[n] /\ saved[j] # NoStatuses
        /\ \A i \in Installations :
              saved[i][n] # Absent /\ LastWith(i) => without[n] < i
        /\ UpToDate /\ rec.now[n] # Absent => ToCopy(n) \/ without[n] < rec.in

ViewInv == CopyInv /\ RecInv /\ NowInv
IndInv == TypeOK /\ ViewInv /\ CountInv /\ JobInv

\* The types the arithmetic needs.
LEMMA Numbers ==
    ASSUME TypeOK
    PROVE  /\ rec.in \in Installations /\ cache.newest \in Installations
           /\ newest \in Installations
           /\ \A i \in Installations : i \in Nat /\ 1 <= i /\ i <= Last
           /\ Last \in Nat
           /\ \A n \in Nodes : /\ events[n] \in Nat /\ changes[n] \in Nat
                               /\ without[n] \in Nat
BY Types, NodesAssumption DEF RecType, CacheType, Installations, NoJobYet, NodesAssumption

LEMMA BlindCount ==
    ASSUME TypeOK
    PROVE  /\ IsFiniteSet(blind) /\ Cardinality(blind) \in Nat
           /\ \A i \in Installations :
                 Cardinality(blind \cup {i}) =
                     IF i \in blind THEN Cardinality(blind) ELSE Cardinality(blind) + 1
<1>1. IsFiniteSet(Installations)
  BY NodesAssumption, FS_Interval DEF Installations, NodesAssumption
<1>2. IsFiniteSet(blind)
  BY <1>1, Types, FS_Subset
<1> QED
  BY <1>2, FS_CardinalityType, FS_AddElement

\* Only the last statuses are held.
LEMMA HeldLast ==
    ASSUME NEW i \in Installations, LastWith(i), saved[i] # NoStatuses
    PROVE  Held = saved[i]
BY CoalescedIsNewest DEF Held, LastWith

LEMMA HeldSame ==
    ASSUME \A i \in Installations : saved'[i] = saved[i]
    PROVE  Held' = Held
<1>1. CASE \A i \in Installations : saved[i] = NoStatuses
  BY <1>1, CoalescedNone DEF Held
<1>2. CASE ~\A i \in Installations : saved[i] = NoStatuses
  <2>1. PICK m \in Installations :
           /\ saved[m] # NoStatuses
           /\ \A i \in Installations : i > m => saved[i] = NoStatuses
           /\ CoalesceInstallations(Installations, saved) = saved[m]
    BY <1>2, Coalesced
  <2>2. CoalesceInstallations(Installations, saved') = saved'[m]
    BY <2>1, CoalescedIsNewest
  <2> QED
    BY <2>1, <2>2 DEF Held
<1> QED
  BY <1>1, <1>2

LEMMA NoStatus == \A n \in Nodes : NoStatuses[n] = Absent
BY DEF NoStatuses

LEMMA IdleStep == Idle.step = "idle"
BY DEF Idle

-------------------------------------------------------------------------------
(* What the steps do to the invariant                                          *)

\* The reconcile ends or is given up, and has saved nothing in this step; the informer
\* may start anew.
LEMMA EndInd ==
    ASSUME IndInv, UNCHANGED <<nodes, changes, installVars, without, events, blind>>,
           UNCHANGED cacheVars \/ (cache' = Stored /\ behind' = {}),
           rec' = Idle
    PROVE  ViewInv' /\ CountInv' /\ JobInv'
<1>1. CopyInv'
  <2>1. CASE UNCHANGED cacheVars
    BY <2>1 DEF IndInv, ViewInv, CopyInv, LastWith, installVars, cacheVars
  <2>2. CASE cache' = Stored /\ behind' = {}
    <3>1. obsolete \in SUBSET Installations /\ blind \in SUBSET Installations
      BY Types DEF IndInv
    <3> QED
      BY <2>2, <3>1, Numbers
         DEF IndInv, ViewInv, CopyInv, LastWith, installVars, Stored, Installations
  <2> QED
    BY <2>1, <2>2
<1>2. rec'.step = "idle" /\ ~UpToDate'
  BY IdleStep DEF UpToDate, Deciding
<1>3. RecInv' /\ NowInv'
  BY <1>2 DEF IndInv, ViewInv, RecInv, NowInv, Deciding, Decided
<1>4. CountInv'
  <2>1. /\ Held' = Held
        /\ \A i \in Installations : LastWith(i)' <=> LastWith(i)
        /\ \A n \in Nodes : Pending(n)' = 0 /\ Pending(n) \in {0, 1}
        /\ \A n \in Nodes : Differ(Held[n], nodes[n]) \in {0, 1}
    BY <1>2, HeldSame DEF LastWith, Pending, Decided, Differ, installVars
  <2> QED
    BY <1>2, <2>1, Numbers, BlindCount, Types DEF IndInv, CountInv, installVars
<1>5. JobInv'
  BY <1>2 DEF IndInv, JobInv, LastWith, Stored, installVars, cacheVars
<1> QED
  BY <1>1, <1>3, <1>4, <1>5 DEF ViewInv

\* The list from which a reconcile takes the statuses over.
LEMMA Listed ==
    ASSUME IndInv, NEW items, items = (1..cache.newest) \ cache.obsolete,
           NEW was, was = CoalesceInstallations(items, cache.saved)
    PROVE  /\ items \in SUBSET Installations
           /\ cache.newest \in items /\ \A i \in items : i <= cache.newest
           /\ was = NoStatuses => \A i \in items \ behind : saved[i] = NoStatuses
           /\ was # NoStatuses => \E i \in items : was = cache.saved[i]
           /\ cache.newest \notin behind
                  /\ (saved[cache.newest] # NoStatuses \/ cache.newest = 1)
              => was = saved[cache.newest]
           /\ behind \cap items = {} => was = Held
<1>1. /\ cache.newest \in Installations
      /\ items \in SUBSET Installations /\ \A i \in items : i <= cache.newest
      /\ cache.newest = 1 => items \subseteq {1}
  BY Numbers DEF IndInv, Installations
<1>2. cache.newest \in items
  BY <1>1 DEF IndInv, ViewInv, CopyInv, Installations
<1>3. \/ (\A i \in items : cache.saved[i] = NoStatuses) /\ was = NoStatuses
      \/ \E m \in items : cache.saved[m] # NoStatuses /\ was = cache.saved[m]
  BY <1>1, Coalesced
<1>4. \A i \in items \ behind : cache.saved[i] = saved[i]
  BY <1>1 DEF IndInv, ViewInv, CopyInv
<1>5. ASSUME cache.newest \notin behind, saved[cache.newest] # NoStatuses
      PROVE  was = saved[cache.newest]
  <2>1. \A i \in items : ~(i > cache.newest)
    BY <1>1 DEF Installations
  <2> QED
    BY <1>1, <1>2, <1>4, <1>5, <2>1, CoalescedIsNewest
<1>6. ASSUME cache.newest \notin behind, cache.newest = 1
      PROVE  was = saved[cache.newest]
  BY <1>1, <1>2, <1>3, <1>4, <1>6
<1>7. ASSUME behind \cap items = {}
      PROVE  was = Held
  <2>1. ASSUME NEW i \in Installations, i \notin items
        PROVE  saved[i] = NoStatuses
    <3>1. i > cache.newest \/ i \in obsolete
      BY <2>1, Numbers DEF IndInv, ViewInv, CopyInv, Installations
    <3> QED
      BY <3>1 DEF IndInv, ViewInv, CopyInv, LastWith
  <2>2. \A i \in items : cache.saved[i] = saved[i]
    BY <1>4, <1>7
  <2>3. CoalesceInstallations(items, saved) = Held
    BY <1>1, <2>1, CoalescedMore DEF Held
  <2>4. CASE \A i \in items : saved[i] = NoStatuses
    BY <1>1, <2>2, <2>3, <2>4, CoalescedNone
  <2>5. CASE ~\A i \in items : saved[i] = NoStatuses
    <3>1. PICK m \in items : /\ saved[m] # NoStatuses
                             /\ \A i \in items : i > m => saved[i] = NoStatuses
                             /\ CoalesceInstallations(items, saved) = saved[m]
      BY <1>1, <2>5, Coalesced
    <3>2. was = cache.saved[m]
      BY <1>1, <2>2, <3>1, CoalescedIsNewest
    <3> QED
      BY <2>2, <2>3, <3>1, <3>2
  <2> QED
    BY <2>4, <2>5
<1> QED
  BY <1>1, <1>2, <1>3, <1>4, <1>5, <1>6, <1>7

LEMMA ReconcileInd ==
    ASSUME IndInv, Reconcile
    PROVE  ViewInv' /\ CountInv' /\ JobInv'
<1> DEFINE items == (1..cache.newest) \ cache.obsolete
           was   == CoalesceInstallations(items, cache.saved)
<1>1. /\ rec' = [Idle EXCEPT !.step = "nodes", !.in = cache.newest, !.items = items,
                             !.stale = behind, !.before = was, !.now = was]
      /\ blind' = IF /\ cache.saved[cache.newest] = NoStatuses
                   /\ behind \cap (items \ {cache.newest}) # {}
                THEN blind \cup {cache.newest}
                ELSE blind
      /\ UNCHANGED <<nodeVars, installVars, cacheVars, jobVars, events>>
  BY DEF Reconcile
<1>2. /\ rec'.step = "nodes" /\ rec'.in = cache.newest /\ rec'.items = items
      /\ rec'.stale = behind /\ rec'.before = was /\ rec'.now = was
  BY <1>1 DEF Idle
<1>3. /\ items \in SUBSET Installations
      /\ cache.newest \in items /\ \A i \in items : i <= cache.newest
      /\ was = NoStatuses => \A i \in items \ behind : saved[i] = NoStatuses
      /\ was # NoStatuses => \E i \in items : was = cache.saved[i]
      /\ cache.newest \notin behind /\ (saved[cache.newest] # NoStatuses \/ cache.newest = 1)
             => was = saved[cache.newest]
      /\ behind \cap items = {} => was = Held
  BY Listed
<1> HIDE DEF items, was
<1>4. /\ UNCHANGED <<nodes, changes, newest, saved, obsolete, cache, behind, without, events>>
      /\ Held' = Held
  BY <1>1, HeldSame DEF nodeVars, installVars, cacheVars, jobVars
<1>5. /\ LastWith(cache.newest) /\ cache.newest \in Installations
      /\ \A i \in Installations : LastWith(i)' <=> LastWith(i)
  BY <1>4, Numbers DEF IndInv, ViewInv, CopyInv, LastWith
<1>6. UpToDate' => cache.newest \notin behind
  BY <1>2 DEF UpToDate
<1>7. \A i \in blind' : i <= cache.newest
  BY <1>1, Numbers DEF IndInv, ViewInv, CopyInv
<1>8. CopyInv'
  BY <1>4, <1>7 DEF IndInv, ViewInv, CopyInv, LastWith
<1>9. RecInv'
  <2>1. LastWith(rec.in)'
    BY <1>2, <1>4, <1>5 DEF LastWith
  <2>2. cache.newest <= cache.newest
    BY Numbers DEF IndInv
  <2> QED
    BY <1>2, <1>3, <1>4, <1>6, <1>7, <2>1, <2>2 DEF IndInv, ViewInv, CopyInv, RecInv
<1>10. NowInv'
  BY <1>2, <1>4 DEF IndInv, ViewInv, NowInv, Decided
<1>11. CountInv'
  <2>1. /\ Cardinality(blind) \in Nat /\ Cardinality(blind') \in Nat
        /\ Cardinality(blind') >= Cardinality(blind)
        /\ \A i \in blind' \ blind : Cardinality(blind') = Cardinality(blind) + 1
        /\ blind' \ blind \subseteq {cache.newest}
    BY <1>1, <1>5, BlindCount DEF IndInv
  <2> SUFFICES ASSUME NEW n \in Nodes
               PROVE  /\ events[n] + Differ(Held[n], nodes[n]) + 0
                             <= changes[n] + Cardinality(blind')
                      /\ \A i \in blind' :
                            saved[i] = NoStatuses /\ LastWith(i) =>
                                events[n] + 1 + 0 <= changes[n] + Cardinality(blind')
                      /\ UpToDate' =>
                            events[n] + Differ(was[n], was[n]) + Differ(was[n], nodes[n])
                                <= changes[n] + Cardinality(blind')
    <3>1. blind' \subseteq Installations
      BY <1>1, <1>5, Types DEF IndInv
    <3> QED
      BY <1>2, <1>4, <1>5, <3>1 DEF CountInv, Decided, Pending
  <2>2. /\ events[n] \in Nat /\ changes[n] \in Nat /\ Pending(n) = 0
        /\ events[n] + Differ(Held[n], nodes[n]) + Pending(n) <= changes[n] + Cardinality(blind)
        /\ \A i \in blind :
              saved[i] = NoStatuses /\ LastWith(i) =>
                  events[n] + 1 + Pending(n) <= changes[n] + Cardinality(blind)
    BY Numbers DEF IndInv, CountInv, Reconcile, Pending, Decided
  <2>3. /\ Differ(Held[n], nodes[n]) \in {0, 1} /\ Differ(was[n], nodes[n]) \in {0, 1}
        /\ Differ(was[n], was[n]) = 0
    BY DEF Differ
  <2>4. \A i \in blind' : saved[i] = NoStatuses /\ LastWith(i) =>
            events[n] + 1 <= changes[n] + Cardinality(blind')
    BY <2>1, <2>2, <2>3
  <2>5. ASSUME UpToDate', was # Held
        PROVE  events[n] + 1 <= changes[n] + Cardinality(blind')
    <3>1. saved[cache.newest] = NoStatuses
      BY <1>3, <1>5, <1>6, <2>5, HeldLast
    <3>2. cache.saved[cache.newest] = NoStatuses
      BY <1>5, <1>6, <2>5, <3>1 DEF IndInv, ViewInv, CopyInv
    <3>3. behind \cap (items \ {cache.newest}) # {}
      BY <1>3, <1>6, <2>5
    <3>4. cache.newest \in blind'
      BY <1>1, <3>2, <3>3
    <3> QED
      BY <1>5, <2>4, <3>1, <3>4
  <2> QED
    BY <2>1, <2>2, <2>3, <2>4, <2>5
<1>12. JobInv'
  <2> SUFFICES ASSUME NEW n \in Nodes, was[n] # Absent
               PROVE  /\ without[n] <= Last
                      /\ cache.newest \notin behind => without[n] < cache.newest
    BY <1>2, <1>4, <1>5, <1>6 DEF IndInv, JobInv, ToCopy
  <2>1. without[n] <= Last
    BY <1>3, NoStatus DEF IndInv, JobInv
  <2>2. ASSUME cache.newest \notin behind, saved[cache.newest] # NoStatuses
        PROVE  without[n] < cache.newest
    BY <1>3, <1>5, <2>2 DEF IndInv, JobInv
  <2>3. ASSUME saved[cache.newest] = NoStatuses, ~(without[n] < cache.newest)
        PROVE  FALSE
    <3>1. without[n] \in Installations /\ without[n] >= cache.newest
      BY <2>1, <2>3, Numbers DEF IndInv, Installations
    <3>2. PICK j \in Installations : j >= without[n] /\ saved[j] # NoStatuses
      BY <3>1 DEF IndInv, JobInv
    <3> QED
      BY <1>5, <2>3, <3>1, <3>2, Numbers DEF IndInv, LastWith
  <2> QED
    BY <2>1, <2>2, <2>3
<1> QED
  BY <1>8, <1>9, <1>10, <1>11, <1>12 DEF ViewInv

LEMMA ReconcileNodeStatusesInd ==
    ASSUME IndInv, ReconcileNodeStatuses
    PROVE  ViewInv' /\ CountInv' /\ JobInv'
<1>1. rec \in RecType /\ nodes \in Statuses
  BY Types DEF IndInv
<1>2. /\ rec.step = "nodes"
      /\ rec'.step = "preflights" /\ rec'.in = rec.in /\ rec'.items = rec.items
      /\ rec'.stale = rec.stale /\ rec'.before = rec.before /\ rec'.now = nodes
      /\ rec'.todo = {n \in Nodes : rec.before[n] = Absent /\ nodes[n] # Absent}
      /\ UNCHANGED <<nodes, changes, newest, saved, obsolete, cache, behind, without, events, blind>>
  BY <1>1 DEF ReconcileNodeStatuses, RecType, nodeVars, installVars, cacheVars, jobVars
<1>3. (UpToDate' <=> UpToDate) /\ \A i \in Installations : LastWith(i)' <=> LastWith(i)
  BY <1>2 DEF UpToDate, Deciding, LastWith
<1>4. CopyInv'
  BY <1>2 DEF IndInv, ViewInv, CopyInv, LastWith
<1>5. RecInv'
  BY <1>2, <1>3 DEF IndInv, ViewInv, RecInv, LastWith, Deciding
<1>6. rec.now = rec.before /\ NowInv'
  BY <1>2 DEF IndInv, ViewInv, NowInv, Decided
<1>7. CountInv'
  <2>1. /\ Held' = Held /\ \A n \in Nodes : Pending(n)' = Pending(n)
        /\ blind \subseteq Installations
    BY <1>2, HeldSame, Types DEF IndInv, Pending, Decided
  <2> SUFFICES ASSUME NEW n \in Nodes, UpToDate
               PROVE  events[n] + Differ(rec.before[n], nodes[n]) + Differ(nodes[n], nodes[n])
                          <= changes[n] + Cardinality(blind)
    BY <1>2, <1>3, <2>1 DEF IndInv, CountInv
  <2>2. events[n] + Differ(rec.before[n], rec.before[n]) + Differ(rec.before[n], nodes[n])
            <= changes[n] + Cardinality(blind)
    BY <1>6 DEF IndInv, CountInv
  <2> QED
    BY <2>2, Numbers DEF IndInv, Differ
<1>8. JobInv'
  <2>1. \A n \in Nodes : rec'.now[n] # Absent /\ ~ToCopy(n)' => rec.before[n] # Absent
    BY <1>2 DEF ToCopy
  <2>2. \A n \in Nodes : ~ToCopy(n)
    BY <1>2 DEF ToCopy
  <2> QED
    BY <1>2, <1>3, <1>6, <2>1, <2>2 DEF IndInv, JobInv
<1> QED
  BY <1>4, <1>5, <1>6, <1>7, <1>8 DEF ViewInv

\* The steps between the comparison and the save.
LEMMA PrepareInd ==
    ASSUME IndInv, CopyHostPreflightResultsFromNodes \/ ReconcileK0sVersion
    PROVE  ViewInv' /\ CountInv' /\ JobInv'
<1>1. rec \in RecType /\ without \in [Nodes -> 0..NoJobYet]
  BY Types DEF IndInv
<1>2. UNCHANGED <<nodes, changes, newest, saved, obsolete, cache, behind, events, blind>>
  BY DEF CopyHostPreflightResultsFromNodes, ReconcileK0sVersion, nodeVars, installVars,
         cacheVars
<1>3. CASE rec' = Idle
  <2>1. UNCHANGED without
    BY <1>1, <1>3 DEF CopyHostPreflightResultsFromNodes, ReconcileK0sVersion, jobVars, Idle,
                      RecType
  <2> QED
    BY <1>2, <1>3, <2>1, EndInd DEF IndInv, installVars, cacheVars
<1>4. CASE rec' # Idle
  <2>1. /\ rec.step \in {"preflights", "k0s"}
        /\ rec'.step \in {"preflights", "k0s", "earlySave", "save"}
        /\ rec'.in = rec.in /\ rec'.items = rec.items /\ rec'.stale = rec.stale
        /\ rec'.before = rec.before /\ rec'.now = rec.now
    BY <1>1, <1>4 DEF CopyHostPreflightResultsFromNodes, ReconcileK0sVersion, JobExists,
                      RecType
  <2>2. \A n \in Nodes : /\ without'[n] \in {without[n], 0}
                         /\ ToCopy(n) => ToCopy(n)' \/ without'[n] = 0
    BY <1>1, <1>4, <2>1
       DEF CopyHostPreflightResultsFromNodes, ReconcileK0sVersion, JobExists, RecType,
           jobVars, ToCopy
  <2>3. (UpToDate' <=> UpToDate) /\ \A i \in Installations : LastWith(i)' <=> LastWith(i)
    BY <1>2, <2>1 DEF UpToDate, Deciding, LastWith
  <2>4. CopyInv'
    BY <1>2 DEF IndInv, ViewInv, CopyInv, LastWith
  <2>5. RecInv'
    BY <1>2, <2>1, <2>3 DEF IndInv, ViewInv, RecInv, LastWith, Deciding
  <2>6. NowInv'
    BY <1>2, <2>1 DEF IndInv, ViewInv, NowInv, Decided
  <2>7. CountInv'
    <3>1. /\ Held' = Held /\ \A n \in Nodes : Pending(n)' = Pending(n)
          /\ blind \subseteq Installations
      BY <1>2, <2>1, HeldSame, Types DEF IndInv, Pending, Decided
    <3> QED
      BY <1>2, <2>1, <2>3, <3>1 DEF IndInv, CountInv
  <2>8. JobInv'
    <3> SUFFICES ASSUME NEW n \in Nodes
                 PROVE  /\ \A i \in Installations :
                              saved[i][n] # Absent \/ cache.saved[i][n] # Absent =>
                                  without'[n] <= Last
                        /\ rec.before[n] # Absent \/ (rec.now[n] # Absent /\ ~ToCopy(n)')
                              => without'[n] <= Last
                        /\ without'[n] \in Installations =>
                              \E j \in Installations :
                                  j >= without'[n] /\ saved[j] # NoStatuses
                        /\ \A i \in Installations :
                              saved[i][n] # Absent /\ LastWith(i) => without'[n] < i
                        /\ UpToDate /\ rec.now[n] # Absent =>
                              ToCopy(n)' \/ without'[n] < rec.in
      BY <1>2, <2>1, <2>3 DEF JobInv
    <3>1. CASE without'[n] = 0
      BY <3>1, Numbers DEF IndInv
    <3>2. CASE without'[n] = without[n] /\ without'[n] # 0
      BY <2>1, <2>2, <3>2 DEF IndInv, JobInv
    <3> QED
      BY <2>2, <3>1, <3>2
  <2> QED
    BY <2>4, <2>5, <2>6, <2>7, <2>8 DEF ViewInv
<1> QED
  BY <1>3, <1>4

\* A save that does not conflict, whatever the reconcile does next.
LEMMA SaveInd ==
    ASSUME IndInv, rec.step \in {"nodes", "earlySave", "save"}, ~Conflict, SaveStatuses,
           UNCHANGED <<nodeVars, newest, obsolete, cache, events, blind>>,
           \/ rec' = Idle
           \/ /\ rec'.step \in {"disable", "disableFailed"}
              /\ rec'.step = "disableFailed" <=> rec.step = "nodes"
              /\ rec'.in = rec.in /\ rec'.items = rec.items /\ rec'.stale = rec.stale
              /\ rec'.before = rec.before /\ rec'.now = rec.now
    PROVE  ViewInv' /\ CountInv' /\ JobInv'
<1>1. /\ rec.step # "idle" /\ rec.step \notin Decided /\ UpToDate
      /\ rec.in \in Installations /\ LastWith(rec.in)
      /\ \A n \in Nodes : ~ToCopy(n)
  BY Numbers DEF IndInv, ViewInv, RecInv, Conflict, UpToDate, Deciding, Decided, ToCopy
<1>2. /\ saved'[rec.in] = rec.now /\ behind' = behind \cup {rec.in}
      /\ \A i \in Installations \ {rec.in} : saved'[i] = saved[i]
      /\ \A n \in Nodes : without'[n] = IF rec.before[n] # Absent /\ rec.now[n] = Absent
                                        THEN rec.in ELSE without[n]
      /\ UNCHANGED <<nodes, changes, newest, obsolete, cache, events, blind>>
  BY <1>1, Types DEF IndInv, SaveStatuses, nodeVars
<1>3. ~UpToDate' /\ \A n \in Nodes : ~ToCopy(n)'
  BY IdleStep DEF UpToDate, Deciding, ToCopy
<1>4. ASSUME rec.now = NoStatuses
      PROVE  /\ rec.before = rec.now
             /\ \A i \in Installations : saved'[i] = saved[i]
             /\ \A i \in Installations : LastWith(i)' <=> LastWith(i)
             /\ \A n \in Nodes : without'[n] = without[n]
  <2>1. rec.before = rec.now
    BY <1>4 DEF IndInv, ViewInv, NowInv
  <2>2. saved[rec.in] = NoStatuses
    BY <1>1, <1>4, <2>1 DEF IndInv, ViewInv, RecInv
  <2> QED
    BY <1>2, <1>4, <2>1, <2>2 DEF LastWith
<1>5. ASSUME rec.now # NoStatuses, NEW i \in Installations, LastWith(i)'
      PROVE  i = rec.in \/ (i > rec.in /\ saved'[i] = NoStatuses)
  BY <1>1, <1>2, <1>5, Numbers DEF IndInv, LastWith
<1>6. \A i \in Installations : i > rec.in => saved'[i] = NoStatuses
  BY <1>1, <1>2, Numbers DEF IndInv, LastWith
<1>7. CopyInv'
  <2>1. /\ rec.in <= cache.newest /\ cache.newest \in Installations
        /\ \A i \in obsolete : i # rec.in /\ i \in Installations
    BY <1>1, Numbers, Types DEF IndInv, ViewInv, RecInv
  <2>2. LastWith(cache.newest)'
    BY <1>2, <1>6, <2>1, Numbers DEF IndInv, LastWith
  <2> QED
    BY <1>1, <1>2, <2>1, <2>2 DEF IndInv, ViewInv, CopyInv
<1>8. RecInv'
  <2> SUFFICES ASSUME rec'.step # "idle" PROVE RecInv'
    BY DEF RecInv
  <2>1. /\ rec'.step \in Decided /\ rec'.in = rec.in /\ rec'.items = rec.items
        /\ rec'.stale = rec.stale /\ rec'.before = rec.before /\ rec'.now = rec.now
    BY IdleStep DEF Decided
  <2>2. LastWith(rec.in)'
    BY <1>6, <2>1 DEF LastWith
  <2>3. rec.now = NoStatuses =>
           \A i \in rec.items \ rec.stale : rec.before = NoStatuses => saved'[i] = NoStatuses
    BY <1>1, <1>4, Types DEF IndInv, ViewInv, RecInv, RecType, UpToDate
  <2> QED
    BY <1>1, <1>2, <1>3, <2>1, <2>2, <2>3
       DEF IndInv, ViewInv, RecInv, Decided, Deciding
<1>9. NowInv'
  BY <1>2, IdleStep DEF IndInv, ViewInv, NowInv, Decided
<1>10. CountInv'
  <2> SUFFICES ASSUME NEW n \in Nodes
               PROVE  /\ events[n] + Differ(Held'[n], nodes[n])
                             + Differ(rec.before[n], rec.now[n])
                             <= changes[n] + Cardinality(blind)
                      /\ \A i \in blind :
                            saved'[i] = NoStatuses /\ LastWith(i)' =>
                                events[n] + 1 + Differ(rec.before[n], rec.now[n])
                                    <= changes[n] + Cardinality(blind)
    <3>1. /\ \A n \in Nodes : Pending(n)' \in {0, Differ(rec.before[n], rec.now[n])}
          /\ \A n \in Nodes : Differ(Held'[n], nodes[n]) \in {0, 1}
          /\ \A n \in Nodes : Differ(rec.before[n], rec.now[n]) \in {0, 1}
          /\ Cardinality(blind) \in Nat
      BY BlindCount, IdleStep DEF IndInv, Pending, Decided, Differ
    <3> QED
      BY <1>2, <1>3, <3>1, Numbers DEF IndInv, CountInv
  <2>1. /\ events[n] + Differ(Held[n], nodes[n]) + 0 <= changes[n] + Cardinality(blind)
        /\ \A i \in blind : saved[i] = NoStatuses /\ LastWith(i) =>
               events[n] + 1 + 0 <= changes[n] + Cardinality(blind)
        /\ events[n] + Differ(rec.before[n], rec.now[n]) + Differ(rec.now[n], nodes[n])
               <= changes[n] + Cardinality(blind)
        /\ events[n] \in Nat /\ changes[n] \in Nat /\ Cardinality(blind) \in Nat
        /\ \A i \in blind : i \in Installations /\ i <= rec.in
    BY <1>1, Numbers, BlindCount, Types
       DEF IndInv, CountInv, Pending, ViewInv, RecInv
  <2>2. CASE rec.now = NoStatuses
    <3>1. Held' = Held /\ Differ(rec.before[n], rec.now[n]) = 0
      BY <1>4, <2>2, HeldSame DEF Differ
    <3> QED
      BY <1>4, <2>1, <2>2, <3>1
  <2>3. CASE rec.now # NoStatuses
    <3>1. CoalesceInstallations(Installations, saved') = saved'[rec.in]
      BY <1>1, <1>2, <1>6, <2>3, CoalescedIsNewest
    <3>2. Held' = rec.now
      BY <1>2, <3>1 DEF Held
    <3>3. \A i \in blind : ~(saved'[i] = NoStatuses /\ LastWith(i)')
      BY <1>1, <1>2, <1>5, <2>1, <2>3, Numbers DEF IndInv
    <3>4. /\ Differ(rec.before[n], rec.now[n]) \in {0, 1}
          /\ Differ(rec.now[n], nodes[n]) \in {0, 1}
      BY DEF Differ
    <3> QED
      BY <2>1, <3>2, <3>3, <3>4
  <2> QED
    BY <2>2, <2>3
<1>11. JobInv'
  <2> SUFFICES ASSUME NEW n \in Nodes
               PROVE  /\ \A i \in Installations :
                            saved'[i][n] # Absent \/ cache.saved[i][n] # Absent =>
                                without'[n] <= Last
                      /\ rec.before[n] # Absent \/ rec.now[n] # Absent => without'[n] <= Last
                      /\ without'[n] \in Installations =>
                            \E j \in Installations :
                                j >= without'[n] /\ saved'[j] # NoStatuses
                      /\ \A i \in Installations :
                            saved'[i][n] # Absent /\ LastWith(i)' => without'[n] < i
    BY <1>2, <1>3, IdleStep DEF JobInv
  <2>1. /\ rec.before[n] # Absent \/ rec.now[n] # Absent => without[n] <= Last
        /\ \A i \in Installations :
              saved[i][n] # Absent \/ cache.saved[i][n] # Absent => without[n] <= Last
    BY <1>1 DEF IndInv, JobInv
  <2>2. without[n] <= Last => without'[n] <= Last
    BY <1>1, <1>2, Numbers DEF IndInv
  <2>3. \A i \in Installations : saved'[i][n] # Absent =>
                                     saved[i][n] # Absent \/ rec.now[n] # Absent
    BY <1>2
  <2>4. ASSUME without'[n] \in Installations
        PROVE  \E j \in Installations : j >= without'[n] /\ saved'[j] # NoStatuses
    <3>1. CASE rec.now = NoStatuses
      BY <1>4, <2>4, <3>1 DEF IndInv, JobInv
    <3>2. CASE rec.now # NoStatuses /\ without'[n] = rec.in
      <4>1. rec.in >= without'[n]
        BY <1>1, <3>2, Numbers DEF IndInv
      <4> QED
        BY <1>1, <1>2, <3>2, <4>1
    <3>3. CASE rec.now # NoStatuses /\ without'[n] = without[n]
      <4>1. PICK j \in Installations : j >= without[n] /\ saved[j] # NoStatuses
        BY <2>4, <3>3 DEF IndInv, JobInv
      <4>2. saved'[j] # NoStatuses
        BY <1>2, <3>3, <4>1
      <4> QED
        BY <3>3, <4>1, <4>2
    <3> QED
      BY <1>2, <3>1, <3>2, <3>3
  <2>5. ASSUME NEW i \in Installations, saved'[i][n] # Absent, LastWith(i)'
        PROVE  without'[n] < i
    <3>1. CASE rec.now = NoStatuses
      BY <1>4, <2>5, <3>1 DEF IndInv, JobInv
    <3>2. CASE rec.now # NoStatuses
      <4>1. i = rec.in
        BY <1>5, <2>5, <3>2, NoStatus
      <4>2. rec.now[n] # Absent /\ without'[n] = without[n]
        BY <1>2, <2>5, <4>1
      <4> QED
        BY <1>1, <4>1, <4>2 DEF IndInv, JobInv
    <3> QED
      BY <3>1, <3>2
  <2> QED
    BY <2>1, <2>2, <2>3, <2>4, <2>5
<1> QED
  BY <1>7, <1>8, <1>9, <1>10, <1>11 DEF ViewInv

LEMMA SavesInd ==
    ASSUME IndInv, ConfigSecretFails \/ SaveUnreported \/ UpdateStatus
    PROVE  ViewInv' /\ CountInv' /\ JobInv'
<1>1. rec \in RecType
  BY Types DEF IndInv
<1>2. UNCHANGED <<nodeVars, newest, obsolete, cache, events, blind>>
  BY DEF ConfigSecretFails, SaveUnreported, UpdateStatus
<1>3. CASE Conflict
  <2>1. rec' = Idle /\ UNCHANGED <<saved, behind, without>>
    BY <1>3 DEF ConfigSecretFails, SaveUnreported, UpdateStatus
  <2> QED
    BY <1>2, <2>1, EndInd DEF nodeVars, installVars, cacheVars
<1>4. CASE ~Conflict
  <2>1. rec.step \in {"nodes", "earlySave", "save"} /\ SaveStatuses
    BY <1>4 DEF ConfigSecretFails, SaveUnreported, UpdateStatus
  <2>2. \/ rec' = Idle
        \/ /\ rec'.step \in {"disable", "disableFailed"}
           /\ rec'.step = "disableFailed" <=> rec.step = "nodes"
           /\ rec'.in = rec.in /\ rec'.items = rec.items /\ rec'.stale = rec.stale
           /\ rec'.before = rec.before /\ rec'.now = rec.now
    BY <1>1, <1>4 DEF ConfigSecretFails, SaveUnreported, UpdateStatus, RecType
  <2> QED
    BY <1>2, <1>4, <2>1, <2>2, SaveInd
<1> QED
  BY <1>3, <1>4

LEMMA DisableInd ==
    ASSUME IndInv, DisableOldInstallations
    PROVE  ViewInv' /\ CountInv' /\ JobInv'
<1>1. PICK done \in SUBSET (rec.items \ {rec.in}) :
         /\ done \cap rec.stale = {}
         /\ saved' = [i \in Installations |-> IF i \in done THEN NoStatuses ELSE saved[i]]
         /\ obsolete' = obsolete \cup done
         /\ behind' = behind \cup done
  BY DEF DisableOldInstallations, OldInstallations
<1>2. /\ rec.step \in {"disable", "disableFailed"}
      /\ rec' = IF rec.step = "disable" THEN [rec EXCEPT !.step = "report"] ELSE Idle
      /\ UNCHANGED <<nodes, changes, newest, cache, without, events, blind>>
  BY DEF DisableOldInstallations, jobVars, nodeVars
<1>3. /\ rec'.step \in {"idle", "report"}
      /\ rec'.step = "report" =>
            /\ rec.step = "disable"
            /\ rec'.in = rec.in /\ rec'.items = rec.items /\ rec'.stale = rec.stale
            /\ rec'.before = rec.before /\ rec'.now = rec.now
  BY <1>2, IdleStep, Types DEF IndInv, RecType
<1>4. /\ rec.in \in Installations /\ cache.newest \in Installations
      /\ done \in SUBSET Installations /\ obsolete \in SUBSET Installations
      /\ rec.in <= cache.newest /\ LastWith(rec.in) /\ saved[rec.in] = rec.now
      /\ \A i \in done : i < rec.in
  BY <1>2, Types, Numbers
     DEF IndInv, RecType, ViewInv, RecInv, NowInv, Decided, Installations
<1>5. /\ \A i \in Installations : saved'[i] = IF i \in done THEN NoStatuses ELSE saved[i]
      /\ \A i \in Installations : i >= rec.in => saved'[i] = saved[i]
  BY <1>1, <1>4, Numbers DEF IndInv
<1>6. ASSUME rec.now = NoStatuses
      PROVE  \A i \in Installations : saved'[i] = saved[i]
  <2>1. rec.before = NoStatuses
    BY <1>2, <1>6 DEF IndInv, ViewInv, NowInv
  <2>2. \A i \in done : saved[i] = NoStatuses
    BY <1>1, <1>2, <1>6, <2>1 DEF IndInv, ViewInv, RecInv
  <2> QED
    BY <1>5, <2>2
\* The statuses that are last with something are those they were.
<1>7. ASSUME NEW i \in Installations, LastWith(i)'
      PROVE  LastWith(i) /\ saved'[i] = saved[i]
  <2>1. CASE rec.now = NoStatuses
    BY <1>6, <1>7, <2>1 DEF LastWith
  <2>2. CASE rec.now # NoStatuses
    <3>1. i >= rec.in
      BY <1>4, <1>5, <1>7, <2>2, Numbers DEF IndInv, LastWith
    <3>2. \A j \in Installations : j > i => saved'[j] = saved[j]
      BY <1>4, <1>5, <3>1, Numbers DEF IndInv
    <3> QED
      BY <1>5, <1>7, <3>1, <3>2 DEF LastWith
  <2> QED
    BY <2>1, <2>2
<1>8. CopyInv'
  <2>1. LastWith(cache.newest)'
    BY <1>2, <1>4, <1>5 DEF IndInv, ViewInv, CopyInv, LastWith
  <2>2. \A i \in done : i < cache.newest
    BY <1>4, Numbers DEF IndInv
  <2> QED
    BY <1>1, <1>2, <1>4, <1>5, <2>1, <2>2 DEF IndInv, ViewInv, CopyInv
<1>9. RecInv'
  <2>1. LastWith(rec.in)' \/ rec'.step = "idle"
    BY <1>3, <1>4, <1>5 DEF LastWith
  <2>2. rec'.step = "report" => rec.now # NoStatuses
    BY <1>3 DEF IndInv, ViewInv, NowInv
  <2> QED
    BY <1>1, <1>2, <1>3, <1>4, <2>1, <2>2 DEF IndInv, ViewInv, RecInv, UpToDate, Deciding
<1>10. NowInv'
  BY <1>2, <1>3, <1>4, <1>5, Numbers DEF IndInv, ViewInv, NowInv, Decided
<1>11. CountInv'
  <2>1. Held' = Held
    <3>1. CASE rec.now = NoStatuses
      BY <1>6, <3>1, HeldSame
    <3>2. CASE rec.now # NoStatuses
      <4>1. \A i \in Installations : i > rec.in => saved'[i] = NoStatuses
        BY <1>4, <1>5, Numbers DEF IndInv, LastWith
      <4>2. saved'[rec.in] = rec.now
        BY <1>4, <1>5, Numbers DEF IndInv
      <4>3. CoalesceInstallations(Installations, saved') = rec.now
        BY <1>4, <3>2, <4>1, <4>2, CoalescedIsNewest
      <4>4. Held = rec.now
        BY <1>4, <3>2, HeldLast
      <4> QED
        BY <4>3, <4>4 DEF Held
    <3> QED
      BY <3>1, <3>2
  <2>2. \A n \in Nodes : /\ Pending(n) = Differ(rec.before[n], rec.now[n])
                         /\ Pending(n) \in {0, 1} /\ Pending(n)' \in {0, Pending(n)}
                         /\ Differ(Held[n], nodes[n]) \in {0, 1}
    BY <1>2, <1>3 DEF Pending, Decided, Differ
  <2>3. ~UpToDate' /\ Cardinality(blind) \in Nat /\ blind \subseteq Installations
    BY <1>3, BlindCount, Types DEF UpToDate, Deciding, IndInv
  <2> QED
    BY <1>2, <1>7, <2>1, <2>2, <2>3, Numbers DEF IndInv, CountInv
<1>12. JobInv'
  <2> SUFFICES ASSUME NEW n \in Nodes
               PROVE  /\ \A i \in Installations :
                            saved'[i][n] # Absent \/ cache.saved[i][n] # Absent =>
                                without[n] <= Last
                      /\ rec.before[n] # Absent \/ rec.now[n] # Absent => without[n] <= Last
                      /\ without[n] \in Installations =>
                            \E j \in Installations : j >= without[n] /\ saved'[j] # NoStatuses
                      /\ \A i \in Installations :
                            saved'[i][n] # Absent /\ LastWith(i)' => without[n] < i
    BY <1>2, <1>3 DEF JobInv, UpToDate, Deciding, ToCopy
  <2>1. \A i \in Installations : saved'[i][n] # Absent => saved[i][n] # Absent
    BY <1>5, NoStatus
  <2>2. rec.before[n] # Absent \/ rec.now[n] # Absent => without[n] <= Last
    BY <1>2 DEF IndInv, JobInv, ToCopy
  <2>3. ASSUME without[n] \in Installations
        PROVE  \E j \in Installations : j >= without[n] /\ saved'[j] # NoStatuses
    <3>1. PICK j \in Installations : j >= without[n] /\ saved[j] # NoStatuses
      BY <2>3 DEF IndInv, JobInv
    <3>2. CASE saved'[j] # NoStatuses
      BY <3>1, <3>2
    <3>3. CASE saved'[j] = NoStatuses
      <4>1. rec.now # NoStatuses /\ j < rec.in
        BY <1>4, <1>5, <1>6, <3>1, <3>3
      <4>2. saved'[rec.in] # NoStatuses /\ rec.in >= without[n]
        BY <1>4, <1>5, <2>3, <3>1, <4>1, Numbers DEF IndInv
      <4> QED
        BY <1>4, <4>2
    <3> QED
      BY <3>2, <3>3
  <2> QED
    BY <1>7, <2>1, <2>2, <2>3 DEF IndInv, JobInv
<1> QED
  BY <1>8, <1>9, <1>10, <1>11, <1>12 DEF ViewInv

\* An event is received for a change that is saved and was counted before.
LEMMA ReportInd ==
    ASSUME IndInv, ReportNodesChanges
    PROVE  ViewInv' /\ CountInv' /\ JobInv'
<1>1. PICK received \in SUBSET Batch :
         events' = [n \in Nodes |-> events[n] + IF n \in received THEN 1 ELSE 0]
  BY DEF ReportNodesChanges
<1>2. /\ rec.step = "report" /\ rec' = Idle /\ rec'.step = "idle" /\ ~UpToDate'
      /\ UNCHANGED <<nodes, changes, newest, saved, obsolete, cache, behind, without, blind>>
  BY IdleStep DEF ReportNodesChanges, nodeVars, installVars, cacheVars, jobVars, UpToDate,
                  Deciding
<1>3. CopyInv' /\ RecInv' /\ NowInv'
  BY <1>2 DEF IndInv, ViewInv, CopyInv, RecInv, NowInv, LastWith, Decided
<1>4. CountInv'
  <2>1. /\ Held' = Held /\ blind \subseteq Installations
        /\ \A i \in Installations : LastWith(i)' <=> LastWith(i)
        /\ Cardinality(blind) \in Nat
        /\ \A n \in Nodes : Pending(n)' = 0 /\ Differ(Held[n], nodes[n]) \in {0, 1}
    BY <1>2, HeldSame, BlindCount, Types DEF IndInv, LastWith, Pending, Decided, Differ
  <2>2. ASSUME NEW n \in Nodes
        PROVE  events'[n] \in Nat /\ events'[n] <= events[n] + Pending(n)
    <3>1. /\ events'[n] = events[n] + IF n \in received THEN 1 ELSE 0
          /\ n \in received => rec.now[n] # rec.before[n]
      BY <1>1 DEF Batch
    <3> QED
      BY <1>2, <3>1, Numbers DEF IndInv, Pending, Decided, Differ
  <2>3. \A n \in Nodes : Pending(n) \in {0, 1}
    BY DEF Pending, Differ
  <2> QED
    BY <1>2, <2>1, <2>2, <2>3, Numbers DEF IndInv, CountInv
<1>5. JobInv'
  BY <1>2 DEF IndInv, JobInv, LastWith
<1> QED
  BY <1>3, <1>4, <1>5 DEF ViewInv

LEMMA SyncInd ==
    ASSUME IndInv, Sync
    PROVE  ViewInv' /\ CountInv' /\ JobInv'
<1>1. /\ cache' = Stored /\ behind' = {}
      /\ UNCHANGED <<nodes, changes, newest, saved, obsolete, rec, without, events, blind>>
  BY DEF Sync, nodeVars, installVars, jobVars
<1>2. /\ cache'.newest = newest /\ cache'.saved = saved /\ cache'.obsolete = obsolete
      /\ cache.newest <= newest /\ obsolete \in SUBSET Installations
  BY <1>1, Types DEF Stored, IndInv, ViewInv, CopyInv
<1>3. CopyInv'
  <2>1. /\ LastWith(newest)
        /\ \A i \in obsolete : i < newest
        /\ \A i \in blind : i <= newest
    BY <1>2, Numbers, Types DEF IndInv, ViewInv, CopyInv, LastWith, Installations
  <2> QED
    BY <1>1, <1>2, <2>1, Numbers DEF IndInv, ViewInv, CopyInv, LastWith
<1>4. RecInv'
  BY <1>1, <1>2, Numbers DEF IndInv, ViewInv, RecInv, LastWith, UpToDate
<1>5. NowInv'
  BY <1>1 DEF IndInv, ViewInv, NowInv
<1>6. CountInv'
  <2>1. Held' = Held
    BY <1>1, HeldSame
  <2> QED
    BY <1>1, <2>1 DEF IndInv, CountInv, LastWith, Pending, UpToDate
<1>7. JobInv'
  BY <1>1, <1>2 DEF IndInv, JobInv, LastWith, UpToDate, ToCopy
<1> QED
  BY <1>3, <1>4, <1>5, <1>6, <1>7 DEF ViewInv

LEMMA NodeChangesInd ==
    ASSUME IndInv, NEW n \in Nodes, NodeChanges(n)
    PROVE  ViewInv' /\ CountInv' /\ JobInv'
<1>1. /\ nodes' \in Statuses /\ \A m \in Nodes \ {n} : nodes'[m] = nodes[m]
      /\ nodes' # NoStatuses
      /\ changes' = [changes EXCEPT ![n] = @ + 1]
      /\ UNCHANGED <<newest, saved, obsolete, cache, behind, rec, without, events, blind>>
  BY NodeChange, Types DEF IndInv, Statuses, installVars, cacheVars, jobVars
<1>2. CountInv'
  <2>1. /\ Held' = Held /\ \A m \in Nodes : Pending(m)' = Pending(m)
        /\ Cardinality(blind) \in Nat
        /\ UpToDate' <=> UpToDate
    BY <1>1, HeldSame, BlindCount DEF IndInv, Pending, UpToDate
  <2> SUFFICES ASSUME NEW m \in Nodes
               PROVE  /\ events[m] + Differ(Held[m], nodes'[m]) + Pending(m)
                             <= changes'[m] + Cardinality(blind)
                      /\ \A i \in blind :
                            saved[i] = NoStatuses /\ LastWith(i) =>
                                events[m] + 1 + Pending(m) <= changes'[m] + Cardinality(blind)
                      /\ UpToDate =>
                            events[m] + Differ(rec.before[m], rec.now[m])
                                + Differ(rec.now[m], nodes'[m])
                            <= changes'[m] + Cardinality(blind)
    BY <1>1, <2>1 DEF CountInv, LastWith
  <2>2. CASE m = n
    <3>1. changes'[m] = changes[m] + 1
      BY <1>1, <2>2, Types DEF IndInv
    <3>2. Pending(m) \in {0, 1}
      BY DEF Pending, Differ
    <3> QED
      BY <2>1, <3>1, <3>2, Numbers DEF IndInv, CountInv, Differ
  <2>3. CASE m # n
    <3>1. changes'[m] = changes[m] /\ nodes'[m] = nodes[m]
      BY <1>1, <2>3, Types DEF IndInv
    <3> QED
      BY <3>1 DEF IndInv, CountInv
  <2> QED
    BY <2>2, <2>3
<1>3. JobInv'
  BY <1>1 DEF IndInv, JobInv, LastWith, UpToDate, ToCopy
<1>4. CopyInv' /\ RecInv' /\ NowInv'
  BY <1>1 DEF IndInv, ViewInv, CopyInv, RecInv, NowInv, LastWith, UpToDate
<1> QED
  BY <1>2, <1>3, <1>4 DEF ViewInv

\* Nothing that the invariant speaks of, but for the newest installation, which is new.
LEMMA UnchangedInd ==
    ASSUME IndInv, UNCHANGED <<nodes, changes, saved, obsolete, cache, behind, rec, without,
                               events, blind>>,
           newest' \in {newest, newest + 1}
    PROVE  ViewInv' /\ CountInv' /\ JobInv'
<1>1. cache.newest <= newest'
  BY Numbers DEF IndInv, ViewInv, CopyInv
<1>2. Held' = Held
  BY HeldSame
<1> QED
  BY <1>1, <1>2 DEF IndInv, ViewInv, CopyInv, RecInv, NowInv, CountInv, JobInv, LastWith,
                    Pending, UpToDate, ToCopy

LEMMA InitInd == Init => IndInv
<1> SUFFICES ASSUME Init PROVE IndInv
  OBVIOUS
<1>1. TypeOK
  BY InitType
<1>2. rec.step = "idle" /\ ~UpToDate /\ \A i \in Installations : saved[i] = NoStatuses
  BY IdleStep DEF Init, UpToDate, Deciding
<1>3. nodes # NoStatuses
  <2>1. PICK n \in Nodes : {m \in Nodes : nodes[m] # Absent} = {n}
    BY DEF Init
  <2>2. nodes[n] # Absent
    BY <2>1
  <2> QED
    BY <2>2 DEF NoStatuses
<1>4. ViewInv
  BY <1>2, <1>3, FirstInstallation
     DEF Init, ViewInv, CopyInv, RecInv, NowInv, LastWith, Decided
<1>5. CountInv
  <2>1. Held = NoStatuses /\ Cardinality(blind) \in Nat /\ blind = {}
    BY <1>1, <1>2, CoalescedNone, BlindCount DEF Init, Held
  <2>2. \A n \in Nodes : /\ events[n] = 0 /\ Pending(n) = 0
                         /\ changes[n] = IF nodes[n] = Absent THEN 0 ELSE 1
    BY <1>2 DEF Init, Pending, Decided
  <2> QED
    BY <1>2, <2>1, <2>2, NoStatus DEF CountInv, Differ
<1>6. JobInv
  <2>1. \A n \in Nodes : without[n] \notin Installations
    BY NodesAssumption DEF Init, NoJobYet, Installations, NodesAssumption
  <2> QED
    BY <1>2, <2>1, NoStatus DEF Init, JobInv
<1> QED
  BY <1>1, <1>4, <1>5, <1>6 DEF IndInv

LEMMA NextInd == IndInv /\ [Next]_vars => IndInv'
<1> SUFFICES ASSUME IndInv, [Next]_vars PROVE ViewInv' /\ CountInv' /\ JobInv'
  BY NextType DEF IndInv
<1>1. CASE Abort
  BY <1>1, EndInd DEF Abort, nodeVars, jobVars
<1>2. CASE NewInstallation
  BY <1>2, UnchangedInd DEF NewInstallation, nodeVars, cacheVars, jobVars
<1>3. CASE \E n \in Nodes : JobEnds(n)
  BY <1>3, UnchangedInd DEF JobEnds, nodeVars, installVars, cacheVars
<1>4. CASE UNCHANGED vars
  BY <1>4, UnchangedInd DEF vars, nodeVars, installVars, cacheVars, jobVars
<1> QED
  BY <1>1, <1>2, <1>3, <1>4, ReconcileInd, ReconcileNodeStatusesInd, PrepareInd, SavesInd,
     DisableInd, ReportInd, SyncInd, NodeChangesInd DEF Next, Operator

\* A change of a node is reported again only once for every installation that took the
\* statuses over from a list in which older ones were behind, for any number of nodes,
\* installations, conflicts, crashes and old copies (CoalesceInstallations,
\* ReconcileNodeStatuses, ReportNodesChanges).
THEOREM ChangesRepeatedOnlyFromOldLists == Spec => []RepeatedOnlyFromOldLists
<1>1. IndInv => RepeatedOnlyFromOldLists
  <2> SUFFICES ASSUME IndInv, NEW n \in Nodes
               PROVE  events[n] <= changes[n] + Cardinality(blind)
    BY DEF RepeatedOnlyFromOldLists
  <2>1. /\ events[n] + Differ(Held[n], nodes[n]) + Pending(n) <= changes[n] + Cardinality(blind)
        /\ Differ(Held[n], nodes[n]) \in {0, 1} /\ Pending(n) \in {0, 1}
    BY DEF IndInv, CountInv, Differ, Pending
  <2> QED
    BY <2>1, Numbers, BlindCount DEF IndInv
<1> QED
  BY InitInd, NextInd, <1>1, PTL DEF Spec

\* A node has a status only if its preflight job has been created, and has one again only
\* after another job, once an installation has dropped it; whatever the nodes, reconciles,
\* conflicts and old copies (CopyHostPreflightResultsFromNodes).
THEOREM PreflightsComeFirst == Spec => []PreflightsBeforeStatus
<1>1. IndInv => PreflightsBeforeStatus
  <2> SUFFICES ASSUME IndInv, NEW n \in Nodes, NEW i \in Active, saved[i][n] # Absent,
                      \A j \in Active : j > i => saved[j] = NoStatuses
               PROVE  without[n] < i
    BY DEF PreflightsBeforeStatus
  <2>1. i \in Installations
    BY Numbers DEF IndInv, Active, Installations
  <2>2. LastWith(i)
    <3> SUFFICES ASSUME NEW j \in Installations, j > i PROVE saved[j] = NoStatuses
      BY DEF LastWith
    <3>1. CASE j \in Active
      BY <3>1
    <3>2. CASE j \in obsolete
      BY <3>2 DEF IndInv, ViewInv, CopyInv
    <3>3. CASE j > newest
      BY <3>3, Numbers DEF IndInv, ViewInv, CopyInv, LastWith
    <3> QED
      BY <3>1, <3>2, <3>3, Numbers DEF IndInv, Active, Installations
  <2> QED
    BY <2>1, <2>2 DEF IndInv, JobInv
<1> QED
  BY InitInd, NextInd, <1>1, PTL DEF Spec
===============================================================================
