------------------------ MODULE MCArtifactDistribution ------------------------
(* Values of the constants of ArtifactDistribution for TLC.                *)
EXTENDS ArtifactDistribution, TLC

CONSTANTS n1, n2, j1, j2

OwnJobs == (n1 :> j1) @@ (n2 :> j2)
\* Two long names that differ in the middle only are shortened to the same name.
SharedJob == (n1 :> j1) @@ (n2 :> j1)
===============================================================================
