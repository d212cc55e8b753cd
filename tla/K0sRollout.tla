------------------------------ MODULE K0sRollout ------------------------------
(***************************************************************************)
(* What the operator promises about the k0s binaries of a cluster, without *)
(* installations, plans, caches or the upgrade command:                    *)
(*                                                                         *)
(*   - a node changes its k0s version only during a rollout, and only to   *)
(*     the version that is being rolled out;                               *)
(*   - one rollout runs at a time, to a version somebody asked for, and    *)
(*     never to one older than what every API server already runs;         *)
(*   - the workers move only after all the controllers have moved.         *)
(*                                                                         *)
(* K0sUpgrade.tla implements this specification.                           *)
(***************************************************************************)
EXTENDS Integers

CONSTANTS
    K0sVersions,    \* the k0s releases, records with a kube and a build number
    Controllers,    \* the nodes that run an API server
    Workers,        \* the other nodes
    None            \* "no rollout"

VARIABLES
    k0s,            \* the release each node runs
    target,         \* the release being rolled out, or None
    requested       \* the releases asked for so far

vars == <<k0s, target, requested>>

Init ==
    /\ requested \in SUBSET K0sVersions
    /\ \E v \in requested : k0s = [n \in Controllers \cup Workers |-> v]
    /\ target = None

Request ==
    /\ \E v \in K0sVersions : requested' = requested \cup {v}
    /\ UNCHANGED <<k0s, target>>

Begin ==
    /\ target = None
    /\ \E v \in requested :
        /\ \E c \in Controllers : k0s[c].kube <= v.kube
        /\ target' = v
    /\ UNCHANGED <<k0s, requested>>

UpgradeNode(n) ==
    /\ target # None
    /\ n \in Controllers \/ \A c \in Controllers : k0s[c] = target
    /\ k0s' = [k0s EXCEPT ![n] = target]
    /\ UNCHANGED <<target, requested>>

End ==
    /\ target # None
    /\ target' = None
    /\ UNCHANGED <<k0s, requested>>

Next == Request \/ Begin \/ End \/ \E n \in Controllers \cup Workers : UpgradeNode(n)

Spec == Init /\ [][Next]_vars
===============================================================================
