--------------------------- MODULE ManifestOrder ---------------------------
(***************************************************************************)
(* Ordering the manifests of one event (sort.go): TopoSort, the two callers *)
(* that rearrange the event with its result (SortManifests, called by       *)
(* RunParallel, and NewArrayEventGenerator), and the errors each ignores.   *)
(***************************************************************************)
EXTENDS Naturals, FiniteSets, SequencesExt

CONSTANTS
    Manifest,   \* the manifests, of this event and of others
    Listings,   \* the events: sequences of manifests
    Zero        \* the zero value ComputeManifest{}

ASSUME ManifestAssumption == IsFiniteSet(Manifest) /\ Zero \notin Manifest

\* Manifest identifiers are unique within an event.
ASSUME ListingAssumption ==
    /\ Listings \subseteq Seq(Manifest)
    /\ \A l \in Listings : \A m, n \in DOMAIN l : l[m] = l[n] => m = n

VARIABLES
    caller,     \* who orders the event: SortManifests or the array generator
    listing,    \* the manifests of the event, in the order they were given
    deps,       \* ComputeManifest.Dependencies of each manifest
    pc,
    indegree,   \* indegrees of TopologicalSort (0 also stands for "no entry")
    stack,      \* its queue, used as a stack
    order,      \* the identifiers it returns
    cyclic,     \* it returned the error "not a DAG"
    placed,     \* orderedManifests as far as it is filled
    event       \* e.Manifests

vars == <<caller, listing, deps, pc, indegree, stack, order, cyclic, placed, event>>

TypeOK ==
    /\ caller \in {"SortManifests", "Array"}
    /\ listing \in Listings
    /\ deps \in [Manifest -> SUBSET Manifest]
    /\ pc \in {"start", "pop", "place", "done", "failed", "panicked"}
    /\ indegree \in [Manifest -> Nat]
    /\ stack \in Seq(Manifest)
    /\ order \in Seq(Manifest)
    /\ cyclic \in BOOLEAN
    /\ placed \in Seq(Manifest \cup {Zero})
    /\ event \in Seq(Manifest \cup {Zero})

Init ==
    /\ caller \in {"SortManifests", "Array"}
    /\ listing \in Listings
    /\ deps \in [Manifest -> SUBSET Manifest]
    /\ \A m \in Manifest \ Range(listing) : deps[m] = {}
    /\ pc = "start"
    /\ indegree = [v \in Manifest |-> 0]
    /\ stack = <<>>
    /\ order = <<>>
    /\ cyclic = FALSE
    /\ placed = <<>>
    /\ event = listing

-----------------------------------------------------------------------------
\* The nodes of the graph that depsToGraph builds: whatever something depends on.
Keys == UNION {deps[m] : m \in Manifest}

\* Mutation: everything that is depended on is pushed at the start.
EveryKey == Keys

Sources == {u \in Keys : deps[u] = {}}

\* A single manifest is not sorted.
SingleManifest ==
    /\ pc = "start"
    /\ Len(listing) <= 1
    /\ pc' = "done"
    /\ UNCHANGED <<caller, listing, deps, indegree, stack, order, cyclic, placed, event>>

\* An empty graph is an error. SortManifests returns it; the array generator logs
\* it and goes on with no identifiers.
NoDependencies ==
    /\ pc = "start"
    /\ Len(listing) > 1
    /\ Keys = {}
    /\ pc' = IF caller = "Array" THEN "place" ELSE "failed"
    /\ UNCHANGED <<caller, listing, deps, indegree, stack, order, cyclic, placed, event>>

\* Mutation: a node has one incoming edge however many dependencies it has.
BuildGraphCountingOnce ==
    /\ pc = "start"
    /\ Len(listing) > 1
    /\ Keys # {}
    /\ indegree' = [v \in Manifest |-> IF deps[v] = {} THEN 0 ELSE 1]
    /\ stack' \in SetToSeqs(Sources)
    /\ pc' = "pop"
    /\ UNCHANGED <<caller, listing, deps, order, cyclic, placed, event>>

\* The sources are found by ranging over a map: in any order.
BuildGraph ==
    /\ pc = "start"
    /\ Len(listing) > 1
    /\ Keys # {}
    /\ indegree' = [v \in Manifest |-> Cardinality(deps[v])]
    /\ stack' \in SetToSeqs(Sources)
    /\ pc' = "pop"
    /\ UNCHANGED <<caller, listing, deps, order, cyclic, placed, event>>

\* Where a manifest of the event is listed.
Place(m) == CHOOSE i \in DOMAIN listing : listing[i] = m

\* The members of S are pushed one after another, as they are listed.
Push(under, S) ==
    \E pushed \in SetToSeqs(S) :
        /\ \A g, h \in DOMAIN pushed : g < h => Place(pushed[g]) < Place(pushed[h])
        /\ stack' = under \o pushed

\* Mutation: the manifests for which u is the first dependency to be placed.
FreedEarly(u) ==
    {v \in Range(listing) : u \in deps[v] /\ indegree[v] = Cardinality(deps[v])}

\* The manifests that wait for nothing but u.
Freed(u) == {v \in Range(listing) : u \in deps[v] /\ indegree[v] = 1}

\* The top of the stack comes next; the manifests that depend on it lose one
\* incoming edge and are pushed when none is left.
Pop ==
    /\ pc = "pop"
    /\ stack # <<>>
    /\ LET u == Last(stack)
       IN  /\ Push(Front(stack), Freed(u))
           /\ indegree' = [v \in Manifest |->
                              IF u \in deps[v] THEN indegree[v] - 1 ELSE indegree[v]]
           /\ order' = Append(order, u)
    /\ UNCHANGED <<caller, listing, deps, pc, cyclic, placed, event>>

\* Mutation: an order that leaves out a manifest of the event is "not a DAG".
FinishSortByLength ==
    /\ pc = "pop"
    /\ stack = <<>>
    /\ cyclic' = (Len(order) < Len(listing))
    /\ pc' = IF cyclic' /\ caller = "SortManifests" THEN "failed" ELSE "place"
    /\ UNCHANGED <<caller, listing, deps, indegree, stack, order, placed, event>>

\* Mutation: the loop goes on until no edge is left.
FinishSortWithoutEdges ==
    /\ pc = "pop"
    /\ stack = <<>>
    /\ \A v \in Manifest : indegree[v] = 0
    /\ cyclic' = FALSE
    /\ pc' = "place"
    /\ UNCHANGED <<caller, listing, deps, indegree, stack, order, placed, event>>

\* An edge is left: not a DAG. SortManifests gives up, the array generator goes on
\* with the identifiers found so far.
FinishSort ==
    /\ pc = "pop"
    /\ stack = <<>>
    /\ cyclic' = \E v \in Manifest : indegree[v] > 0
    /\ pc' = IF cyclic' /\ caller = "SortManifests" THEN "failed" ELSE "place"
    /\ UNCHANGED <<caller, listing, deps, indegree, stack, order, placed, event>>

-----------------------------------------------------------------------------
(* orderedManifests[i] = getManifest(e.Manifests, orderedIds[i]) *)

Position == Len(placed) + 1

PlaceManifest ==
    /\ pc = "place"
    /\ Position <= Len(order)
    /\ Position <= Len(listing)
    /\ order[Position] \in Range(listing)
    /\ placed' = Append(placed, order[Position])
    /\ UNCHANGED <<caller, listing, deps, pc, indegree, stack, order, cyclic, event>>

\* Mutation: SortManifests, too, goes on with a zero manifest.
PlaceForeignAsZero ==
    /\ pc = "place"
    /\ Position <= Len(order)
    /\ Position <= Len(listing)
    /\ order[Position] \notin Range(listing)
    /\ placed' = Append(placed, Zero)
    /\ UNCHANGED <<caller, listing, deps, pc, indegree, stack, order, cyclic, event>>

\* A manifest of another event is not found: an error for SortManifests, a zero
\* manifest for the array generator.
PlaceForeign ==
    /\ pc = "place"
    /\ Position <= Len(order)
    /\ Position <= Len(listing)
    /\ order[Position] \notin Range(listing)
    /\ IF caller = "Array"
       THEN placed' = Append(placed, Zero) /\ UNCHANGED pc
       ELSE pc' = "failed" /\ UNCHANGED placed
    /\ UNCHANGED <<caller, listing, deps, indegree, stack, order, cyclic, event>>

\* The index is past the end of orderedManifests.
PlacePastEnd ==
    /\ pc = "place"
    /\ Position <= Len(order)
    /\ Position > Len(listing)
    /\ pc' = "panicked"
    /\ UNCHANGED <<caller, listing, deps, indegree, stack, order, cyclic, placed, event>>

\* What was not placed stays the zero value.
Rearrange ==
    /\ pc = "place"
    /\ Position > Len(order)
    /\ event' = placed \o [i \in 1 .. (Len(listing) - Len(placed)) |-> Zero]
    /\ pc' = "done"
    /\ UNCHANGED <<caller, listing, deps, indegree, stack, order, cyclic, placed>>

Next ==
    \/ SingleManifest \/ NoDependencies \/ BuildGraph
    \/ Pop \/ FinishSort
    \/ PlaceManifest \/ PlaceForeign \/ PlacePastEnd \/ Rearrange

Spec == Init /\ [][Next]_vars

FairSpec == Spec /\ WF_vars(Next)

-----------------------------------------------------------------------------
\* Every node is placed once, after all it depends on, at every moment of the sort
\* and whatever order the map yields the sources in.
OrderRespectsDeps ==
    \A i \in DOMAIN order :
        /\ \A u \in deps[order[i]] : \E h \in 1 .. (i - 1) : order[h] = u
        /\ \A h \in 1 .. (i - 1) : order[h] # order[i]

\* A cycle: a set of manifests each of which depends on another of the set.
HasCycle == \E S \in (SUBSET Manifest) \ {{}} : \A m \in S : deps[m] \cap S # {}

\* The error "not a DAG" is given for the graphs that are not one, and only those.
CyclesFound == pc \notin {"start", "pop"} /\ Len(listing) > 1 => (cyclic <=> HasCycle)

\* SortManifests stops at the first unknown identifier, always before the slice
\* runs out; the array generator runs past its end only with a manifest of another
\* event among the dependencies.
SortStaysInBounds ==
    pc = "panicked" => caller = "Array" /\ ~(Keys \subseteq Range(listing))

\* An ordering that is not an error leaves no manifest ahead of one it depends on,
\* and loses none that takes part in a dependency.
EventOrdered ==
    pc = "done" /\ caller = "SortManifests" /\ Len(listing) > 1 =>
        /\ \A i, h \in DOMAIN event :
              event[i] # Zero /\ event[h] \in deps[event[i]] => h < i
        /\ \A m \in Range(listing) : m \in Keys \/ deps[m] # {} => m \in Range(event)

\* The steps the sort still has to take, at most: manifests to be placed in the order
\* and again in the event, and the steps between.
StepsLeft ==
    LET N == Cardinality(Manifest)
    IN  CASE pc = "start" -> 2 * N + 3
          [] pc = "pop"   -> 2 * N + 2 - Len(order)
          [] pc = "place" -> Len(order) + 1 - Len(placed)
          [] OTHER        -> 0

\* Every step brings the sort nearer to its end, on graphs with cycles and on orders
\* with strangers too: neither loop goes round without a manifest to show for it, and
\* there are no more of these than StepsLeft counts.
SortAdvances == [][0 <= StepsLeft' /\ StepsLeft' < StepsLeft]_vars

\* The sort comes to an end on every graph.
SortEnds == <>(pc \in {"done", "failed", "panicked"})

-----------------------------------------------------------------------------
(* Why these hold: an inductive invariant *)

\* The graph is built, or was found empty.
Sorting == pc # "start" /\ Len(listing) > 1

\* What the graph knows.
Nodes == Keys \cup {m \in Manifest : deps[m] # {}}

DepsOwn == \A m \in Manifest \ Range(listing) : deps[m] = {}

\* Nothing has happened before the graph is built, nor to a single manifest.
Untouched ==
    /\ Len(listing) <= 1 => pc \in {"start", "done"}
    /\ ~Sorting => /\ stack = <<>> /\ order = <<>> /\ placed = <<>> /\ event = listing
                   /\ ~cyclic /\ \A v \in Manifest : indegree[v] = 0

\* The edges left are those from what is not placed yet.
Counted == Sorting => \A v \in Manifest : indegree[v] = Cardinality(deps[v] \ Range(order))

\* The stack holds, once each, nodes that are not placed and wait for nothing,
Waiting ==
    /\ \A i, h \in DOMAIN stack : stack[i] = stack[h] => i = h
    /\ \A i \in DOMAIN stack : stack[i] \notin Range(order) /\ deps[stack[i]] \subseteq Range(order)

\* and no node that waits for nothing is forgotten.
Remembered ==
    Sorting => \A v \in Nodes :
        deps[v] \subseteq Range(order) => v \in Range(stack) \cup Range(order)

Known == Range(stack) \cup Range(order) \subseteq Nodes

\* A member of a cycle is never placed.
CyclesLeft ==
    \A S \in SUBSET Manifest :
        (\A m \in S : deps[m] \cap S # {}) => Range(order) \cap S = {}

\* The sort is over: the stack is empty, the error is given for the edges left, and
\* SortManifests does not go on after it.
SortOver ==
    Sorting /\ pc # "pop" =>
        /\ stack = <<>>
        /\ cyclic <=> \E v \in Manifest : indegree[v] > 0
        /\ caller = "SortManifests" /\ pc # "failed" => ~cyclic

\* What is placed follows the order as far as it goes.
PlacedInOrder ==
    /\ pc = "pop" => placed = <<>>
    /\ Len(placed) <= Len(order) /\ Len(placed) <= Len(listing)
    /\ \A i \in DOMAIN placed :
          \/ order[i] \in Range(listing) /\ placed[i] = order[i]
          \/ order[i] \notin Range(listing) /\ placed[i] = Zero /\ caller = "Array"

\* What is done holds all that was ordered.
AllPlaced ==
    Sorting /\ pc = "done" =>
        /\ Len(placed) = Len(order)
        /\ event = placed \o [i \in 1 .. (Len(listing) - Len(placed)) |-> Zero]

SortInv ==
    /\ TypeOK /\ DepsOwn /\ Untouched /\ OrderRespectsDeps
    /\ Counted /\ Waiting /\ Remembered /\ Known
    /\ CyclesLeft /\ SortOver /\ PlacedInOrder /\ AllPlaced /\ SortStaysInBounds
=============================================================================
