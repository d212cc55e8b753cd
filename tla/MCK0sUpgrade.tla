----------------------------- MODULE MCK0sUpgrade -----------------------------
(* Values of the constants of K0sUpgrade for TLC: three versions, the first *)
(* two of which differ only in the k0s build.                               *)
EXTENDS K0sUpgrade, TLC

CONSTANTS c1, c2, w1

MCVersions == {"1.0", "1.1", "2.0"}

MCK0s ==
    "1.0" :> [kube |-> 1, build |-> 0] @@
    "1.1" :> [kube |-> 1, build |-> 1] @@
    "2.0" :> [kube |-> 2, build |-> 0]

\* two versions are enough where the build number plays no part
MCTwoVersions == {"1.0", "2.0"}

MCTwoK0s ==
    "1.0" :> [kube |-> 1, build |-> 0] @@
    "2.0" :> [kube |-> 2, build |-> 0]

OneController == {c1}
TwoControllers == {c1, c2}
OneWorker == {w1}
===============================================================================
