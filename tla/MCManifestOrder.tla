-------------------------- MODULE MCManifestOrder --------------------------
(* Events of up to three manifests, with every dependency relation among them   *)
(* and on a fourth manifest that belongs to another event.                      *)
EXTENDS ManifestOrder

CONSTANTS m1, m2, m3, m4

Four == {m1, m2, m3, m4}
UpToThree == {<<m1>>, <<m1, m2>>, <<m3, m1, m2>>}
=============================================================================
