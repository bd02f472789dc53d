------------------------- MODULE MCDockerOperations -------------------------
(* Small instances of DockerOperations for TLC.                                 *)
EXTENDS DockerOperations, TLC

CONSTANTS a, b, s1

Two == {a, b}
One == {s1}

\* Termination and Status only write and read statuses: they are looked at apart.
AtOnce == {{"terminate"}, {"status"}, {"monitor"}}

\* One event of two manifests, the second of which depends on the first.
ChainBatch == s1 :> <<a, b>>
ChainDeps == a :> {{}} @@ b :> {{a}}
=============================================================================
