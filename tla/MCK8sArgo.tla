----------------------------- MODULE MCK8sArgo -----------------------------
(* Two events of one compute, of two jobs and one. The identifier of the first *)
(* is any of up to two or three characters, or a longer one with runs of       *)
(* others; that of the second is a digit or two words. Or the events are two   *)
(* of an array that goes from -1 to 1.                                         *)
EXTENDS K8sArgo

CONSTANTS a, b, c, e1, e2, id, p1, p2

Three == {a, b, c}
Both == {e1, e2}

TwoEvents == e1 :> <<a, b>> @@ e2 :> <<c>>
Plugin == a :> p1 @@ b :> p2 @@ c :> p1
SameID == [e \in Both |-> id]

NoDeps == [j \in Three |-> {}]
OneDep == [NoDeps EXCEPT ![b] = {a}]

UpTo(n, chars) == UNION {[1 .. k -> chars] : k \in 1 .. n}

Long == {<<"_", "-", "A", "_", "-", "b", "-", "_">>, <<"a", "-", "-", "_", "1">>}

Names == UpTo(2, {"a", "B", "1", "_"}) \cup UpTo(3, {"A", "_"}) \cup Long

FirstInputs ==
    {[identifier |-> s, loop |-> 0, deps |-> NoDeps] : s \in Names}
    \cup {[identifier |-> <<"1">>, loop |-> 0, deps |-> OneDep]}

SecondInputs ==
    {[identifier |-> s, loop |-> n, deps |-> NoDeps] :
        s \in {<<"1">>, <<"A", "-", "1">>}, n \in 0 .. 1}

EventInputs == e1 :> FirstInputs @@ e2 :> SecondInputs

ArrayInputs ==
    e1 :> {[identifier |-> <<"-", "1">>, loop |-> 0, deps |-> NoDeps]}
    @@ e2 :> {[identifier |-> <<"1">>, loop |-> 0, deps |-> NoDeps]}
=============================================================================
