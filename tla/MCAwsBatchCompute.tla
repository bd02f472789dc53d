------------------------- MODULE MCAwsBatchCompute -------------------------
(* Three jobs in two events, and a fourth that cannot be submitted.            *)
EXTENDS AwsBatchCompute, TLC

CONSTANTS a, b, c, d, e1, e2

Four == {a, b, c, d}
Both == {e1, e2}

TwoEvents == e1 :> <<a, b>> @@ e2 :> <<c, d>>

\* The last job depends on a manifest that is not of its event.
Deps == a :> {} @@ b :> {a} @@ c :> {} @@ d :> {a}

NoneRetried == [j \in Four |-> 0]
OneRetried  == [NoneRetried EXCEPT ![c] = 1]
=============================================================================
