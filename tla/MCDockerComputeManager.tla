----------------------- MODULE MCDockerComputeManager -----------------------
(* Small instances of DockerComputeManager for TLC.                             *)
EXTENDS DockerComputeManager, TLC

CONSTANTS a, b, c, s1

Three == {a, b, c}
Two == {a, b}
One == {s1}

\* One event of three manifests, in an order that satisfies their dependencies.
ChainBatch == s1 :> <<a, b, c>>

\* One pass may promote both b and c.
FanDeps == a :> {{}} @@ b :> {{a}} @@ c :> {{a}}

\* A failed sort is only logged: a manifest may precede the one it depends on.
SmallBatch == s1 :> <<a, b>>
SmallDeps == a :> {{}, {b}} @@ b :> {{a}, {}}

\* The same event when b depends on a.
EdgeDeps == a :> {{}} @@ b :> {{a}}
=============================================================================
