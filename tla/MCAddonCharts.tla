---------------------------- MODULE MCAddonCharts ----------------------------
(* Values of the constants of AddonCharts for TLC: the registry r and two  *)
(* other charts.                                                           *)
EXTENDS AddonCharts, TLC

CONSTANTS r, a, b

\* The first two installations are of one embedded cluster version.
MCVersionOf == <<1, 1, 2>>
\* The second installation brings a chart that cannot be installed; the third
\* removes it and updates another.
MCRelease == << (r :> 1) @@ (a :> 1) @@ (b :> 0),
                (r :> 1) @@ (a :> 1) @@ (b :> 1),
                (r :> 2) @@ (a :> 2) @@ (b :> 0) >>
\* The third does nothing but remove it.
RemovalOnly == << (r :> 1) @@ (a :> 1) @@ (b :> 0),
                  (r :> 1) @@ (a :> 1) @@ (b :> 1),
                  (r :> 1) @@ (a :> 1) @@ (b :> 0) >>
\* The third takes a chart back to what the first had.
Returning == << (r :> 1) @@ (a :> 1) @@ (b :> 0),
                (r :> 1) @@ (a :> 2) @@ (b :> 0),
                (r :> 1) @@ (a :> 1) @@ (b :> 0) >>
MCBroken == {<<b, 1>>}
\* Every chart has a repository of its own.
MCRepository == (r :> r) @@ (a :> a) @@ (b :> b)
===============================================================================
