------------------------ MODULE ManifestOrder_proofs ------------------------
(***************************************************************************)
(* Theorems about ManifestOrder, for any manifests, events and             *)
(* dependencies.                                                           *)
(***************************************************************************)
EXTENDS ManifestOrder, FiniteSetTheorems, SequenceTheorems, TLAPS

\* A sequence of as many different members as a finite set has holds all of them.
LEMMA AllMembers ==
  ASSUME NEW S, IsFiniteSet(S), NEW f \in [1 .. Cardinality(S) -> S],
         \A i, h \in 1 .. Cardinality(S) : f[i] = f[h] => i = h
  PROVE  Range(f) = S
<1>1. Cardinality(S) \in Nat
  BY FS_CardinalityType
<1>2. f \in Injection(1 .. Cardinality(S), S)
  BY DEF Injection, IsInjective
<1>3. Cardinality(1 .. Cardinality(S)) = Cardinality(S)
  BY <1>1, FS_Interval
<1>4. f \in Surjection(1 .. Cardinality(S), S)
  BY <1>2, <1>3, FS_Injection
<1> QED
  BY <1>4 DEF Surjection, Range

LEMMA ManifestSets ==
  ASSUME NEW S, S \subseteq Manifest
  PROVE  IsFiniteSet(S) /\ Cardinality(S) \in Nat /\ (Cardinality(S) = 0 <=> S = {})
BY ManifestAssumption, FS_Subset, FS_CardinalityType, FS_EmptySet

\* A listing of n manifests names n different ones.
LEMMA ListingSize ==
  ASSUME listing \in Listings
  PROVE  /\ listing \in Seq(Manifest) /\ Len(listing) \in Nat
         /\ Range(listing) \subseteq Manifest
         /\ Cardinality(Range(listing)) = Len(listing)
<1>1. listing \in Seq(Manifest) /\ \A i, h \in DOMAIN listing : listing[i] = listing[h] => i = h
  BY ListingAssumption
<1>2. Len(listing) \in Nat /\ listing \in [1 .. Len(listing) -> Manifest]
  BY <1>1
<1>3. listing \in Bijection(1 .. Len(listing), Range(listing))
  BY <1>1, <1>2 DEF Bijection, Injection, IsInjective, Surjection, Range
<1>4. Cardinality(1 .. Len(listing)) = Len(listing) /\ IsFiniteSet(1 .. Len(listing))
  BY <1>2, FS_Interval
<1> QED
  BY <1>1, <1>2, <1>3, <1>4, FS_Bijection DEF ExistsBijection, Range

\* What pushing a set adds to the stack.
LEMMA PushAdds ==
  ASSUME NEW S, S \subseteq Manifest, NEW under \in Seq(Manifest), Push(under, S)
  PROVE  /\ stack' \in Seq(Manifest)
         /\ Range(stack') = Range(under) \cup S
         /\ (\A i, h \in DOMAIN under : under[i] = under[h] => i = h)
            /\ Range(under) \cap S = {}
            => \A i, h \in DOMAIN stack' : stack'[i] = stack'[h] => i = h
<1>1. PICK pushed \in SetToSeqs(S) : stack' = under \o pushed
  BY DEF Push
<1>2. IsFiniteSet(S) /\ Cardinality(S) \in Nat
  BY ManifestSets
<1>3. /\ pushed \in [1 .. Cardinality(S) -> S]
      /\ \A i, h \in 1 .. Cardinality(S) : pushed[i] = pushed[h] => i = h
  BY <1>1 DEF SetToSeqs
<1>4. Range(pushed) = S
  BY <1>2, <1>3, AllMembers
<1>5. pushed \in Seq(Manifest) /\ Len(pushed) = Cardinality(S)
  BY <1>2, <1>3
<1>6. stack' \in Seq(Manifest) /\ Range(stack') = Range(under) \cup S
  BY <1>1, <1>4, <1>5, ConcatProperties, RangeConcatenation
<1>7. ASSUME \A i, h \in DOMAIN under : under[i] = under[h] => i = h,
             Range(under) \cap S = {},
             NEW i \in DOMAIN stack', NEW h \in DOMAIN stack', stack'[i] = stack'[h]
      PROVE  i = h
  <2>1. /\ Len(under) \in Nat /\ DOMAIN under = 1 .. Len(under)
        /\ DOMAIN stack' = 1 .. (Len(under) + Cardinality(S))
        /\ \A k \in 1 .. (Len(under) + Cardinality(S)) :
              stack'[k] = IF k <= Len(under) THEN under[k] ELSE pushed[k - Len(under)]
    BY <1>1, <1>2, <1>5, <1>6, ConcatProperties
  <2>2. \A k \in DOMAIN stack' : k > Len(under) =>
          k - Len(under) \in 1 .. Cardinality(S) /\ stack'[k] \in S
    BY <1>2, <1>3, <2>1
  <2>3. \A k \in DOMAIN stack' : k <= Len(under) =>
          k \in DOMAIN under /\ stack'[k] \in Range(under)
    BY <2>1 DEF Range
  <2>4. CASE i <= Len(under) /\ h <= Len(under)
    BY <1>7, <2>1, <2>3, <2>4
  <2>5. CASE i > Len(under) /\ h > Len(under)
    <3>1. i - Len(under) = h - Len(under)
      BY <1>3, <1>7, <2>1, <2>2, <2>5
    <3> QED
      BY <2>1, <3>1
  <2> QED
    BY <1>7, <2>1, <2>2, <2>3, <2>4, <2>5
<1> QED
  BY <1>6, <1>7

LEMMA InitSort == Init => SortInv
<1> SUFFICES ASSUME Init PROVE SortInv
  OBVIOUS
<1>1. listing \in Seq(Manifest) /\ Len(listing) \in Nat
  BY ListingSize DEF Init
<1>2. listing \in Seq(Manifest \cup {Zero})
  BY <1>1
<1>3. Range(<<>>) = {} /\ Len(<<>>) = 0 /\ DOMAIN <<>> = {}
  BY DEF Range
<1>4. TypeOK
  <2>1. <<>> \in Seq(Manifest) /\ <<>> \in Seq(Manifest \cup {Zero})
    OBVIOUS
  <2>2. indegree \in [Manifest -> Nat] /\ deps \in [Manifest -> SUBSET Manifest]
    BY DEF Init
  <2>3. /\ stack = <<>> /\ order = <<>> /\ placed = <<>> /\ event = listing
        /\ caller \in {"SortManifests", "Array"} /\ pc = "start" /\ cyclic = FALSE
        /\ listing \in Listings
    BY DEF Init
  <2> QED
    BY <1>2, <2>1, <2>2, <2>3 DEF TypeOK
<1>5. DepsOwn /\ Untouched /\ OrderRespectsDeps
  BY <1>3 DEF Init, DepsOwn, Untouched, OrderRespectsDeps, Sorting
<1>6. Counted /\ Waiting /\ Remembered /\ Known /\ CyclesLeft
  BY <1>3 DEF Init, Counted, Waiting, Remembered, Known, CyclesLeft, Sorting
<1>7. SortOver /\ PlacedInOrder /\ AllPlaced /\ SortStaysInBounds
  BY <1>1, <1>3 DEF Init, SortOver, PlacedInOrder, AllPlaced, SortStaysInBounds, Sorting
<1> QED
  BY <1>4, <1>5, <1>6, <1>7 DEF SortInv

\* What the top of the stack is, and what its removal leaves.
LEMMA TopOfStack ==
  ASSUME SortInv, stack # <<>>
  PROVE  /\ Front(stack) \in Seq(Manifest) /\ Last(stack) \in Manifest
         /\ Last(stack) \in Range(stack)
         /\ Range(Front(stack)) = Range(stack) \ {Last(stack)}
         /\ \A i, h \in DOMAIN Front(stack) :
               Front(stack)[i] = Front(stack)[h] => i = h
<1>1. /\ stack \in Seq(Manifest)
      /\ \A i, h \in DOMAIN stack : stack[i] = stack[h] => i = h
  BY DEF SortInv, TypeOK, Waiting
<1>2. Len(stack) \in Nat \ {0} /\ DOMAIN stack = 1 .. Len(stack)
  BY <1>1
<1>3. /\ Front(stack) \in Seq(Manifest) /\ DOMAIN Front(stack) = 1 .. (Len(stack) - 1)
      /\ \A i \in 1 .. (Len(stack) - 1) : Front(stack)[i] = stack[i]
  BY <1>1, <1>2 DEF Front
<1>4. Last(stack) = stack[Len(stack)] /\ Last(stack) \in Manifest
  BY <1>1, <1>2 DEF Last
<1>5. Range(Front(stack)) = Range(stack) \ {Last(stack)}
  <2>1. ASSUME NEW v \in Range(Front(stack)) PROVE v \in Range(stack) \ {Last(stack)}
    BY <1>1, <1>2, <1>3, <1>4, <2>1 DEF Range
  <2>2. ASSUME NEW v \in Range(stack) \ {Last(stack)} PROVE v \in Range(Front(stack))
    <3>1. PICK i \in 1 .. Len(stack) : stack[i] = v
      BY <1>2 DEF Range
    <3>2. i \in 1 .. (Len(stack) - 1)
      BY <1>2, <1>4, <2>2, <3>1
    <3> QED
      BY <1>3, <3>1, <3>2 DEF Range
  <2> QED
    BY <2>1, <2>2
<1> QED
  BY <1>1, <1>2, <1>3, <1>4, <1>5 DEF Range

\* The order grows by one.
LEMMA OrderGrows ==
  ASSUME order \in Seq(Manifest), NEW u \in Manifest, order' = Append(order, u)
  PROVE  /\ order' \in Seq(Manifest) /\ Range(order') = Range(order) \cup {u}
         /\ Len(order) \in Nat /\ DOMAIN order = 1 .. Len(order)
         /\ DOMAIN order' = 1 .. (Len(order) + 1)
         /\ \A i \in 1 .. Len(order) : order'[i] = order[i]
         /\ order'[Len(order) + 1] = u
<1>1. /\ Len(order) \in Nat /\ DOMAIN order = 1 .. Len(order)
      /\ order' \in Seq(Manifest) /\ DOMAIN order' = 1 .. (Len(order) + 1)
      /\ \A i \in 1 .. Len(order) : order'[i] = order[i]
      /\ order'[Len(order) + 1] = u
  OBVIOUS
<1>2. ASSUME NEW v PROVE v \in Range(order') <=> v \in Range(order) \/ v = u
  BY <1>1 DEF Range
<1> QED
  BY <1>1, <1>2

\* The manifests freed by u wait for nothing once u is placed, and are not on the
\* stack or in the order yet.
LEMMA FreedByTop ==
  ASSUME SortInv, Sorting, stack # <<>>
  PROVE  LET u == Last(stack)
         IN  /\ u \notin Range(order) /\ deps[u] \subseteq Range(order)
             /\ Freed(u) = {v \in Manifest : u \in deps[v] /\ deps[v] \subseteq Range(order) \cup {u}}
             /\ Freed(u) \cap (Range(stack) \cup Range(order)) = {}
<1> DEFINE u == Last(stack)
<1>1. u \in Manifest /\ u \in Range(stack)
  BY TopOfStack
<1>2. \A v \in Range(stack) : v \notin Range(order) /\ deps[v] \subseteq Range(order)
  BY DEF SortInv, Waiting, Range
<1>3. \A v \in Range(order) : deps[v] \subseteq Range(order)
  <2> SUFFICES ASSUME NEW i \in DOMAIN order, NEW w \in deps[order[i]]
               PROVE  w \in Range(order)
    BY DEF Range
  <2>1. PICK h \in 1 .. (i - 1) : order[h] = w
    BY DEF SortInv, OrderRespectsDeps
  <2>2. order \in Seq(Manifest) /\ i \in 1 .. Len(order) /\ Len(order) \in Nat
    BY DEF SortInv, TypeOK
  <2>3. h \in DOMAIN order
    BY <2>2
  <2> QED
    BY <2>1, <2>3 DEF Range
<1>4. \A v \in Manifest : /\ deps[v] \subseteq Manifest
                          /\ indegree[v] = Cardinality(deps[v] \ Range(order))
                          /\ deps[v] # {} => v \in Range(listing)
  BY DEF SortInv, TypeOK, Counted, DepsOwn
<1>5. ASSUME NEW v \in Manifest, u \in deps[v]
      PROVE  indegree[v] = 1 <=> deps[v] \subseteq Range(order) \cup {u}
  <2> DEFINE left == deps[v] \ Range(order)
  <2>1. left \subseteq Manifest /\ u \in left
    BY <1>1, <1>2, <1>4, <1>5
  <2>2. IsFiniteSet(left) /\ IsFiniteSet(left \ {u}) /\ Cardinality(left) \in Nat
        /\ Cardinality(left \ {u}) \in Nat
        /\ (Cardinality(left \ {u}) = 0 <=> left \ {u} = {})
    BY <2>1, ManifestSets
  <2>3. Cardinality(left \ {u}) = Cardinality(left) - 1
    BY <2>1, <2>2, FS_RemoveElement
  <2>4. indegree[v] = 1 <=> left \ {u} = {}
    BY <1>4, <2>2, <2>3
  <2> QED
    BY <2>4
<1>6. Freed(u) = {v \in Manifest : u \in deps[v] /\ deps[v] \subseteq Range(order) \cup {u}}
  <2>1. Range(listing) \subseteq Manifest
    BY ListingSize DEF SortInv, TypeOK
  <2> QED
    BY <1>4, <1>5, <2>1 DEF Freed
<1>7. Freed(u) \cap (Range(stack) \cup Range(order)) = {}
  BY <1>1, <1>2, <1>3, <1>6
<1> QED
  BY <1>1, <1>2, <1>6, <1>7
LEMMA PopKeeps ==
  ASSUME SortInv, Pop
  PROVE  SortInv'
<1> DEFINE u == Last(stack)
<1>1. /\ pc = "pop" /\ stack # <<>> /\ Push(Front(stack), Freed(u))
      /\ indegree' = [v \in Manifest |-> IF u \in deps[v] THEN indegree[v] - 1 ELSE indegree[v]]
      /\ order' = Append(order, u)
      /\ UNCHANGED <<caller, listing, deps, pc, cyclic, placed, event>>
  BY DEF Pop
<1>2. /\ Sorting /\ Sorting' /\ Len(listing) > 1 /\ placed = <<>>
      /\ order \in Seq(Manifest) /\ indegree \in [Manifest -> Nat]
      /\ \A v \in Manifest : deps[v] \subseteq Manifest
  <2>1. Len(listing) \in Nat
    BY ListingSize DEF SortInv, TypeOK
  <2> QED
    BY <1>1, <2>1 DEF SortInv, TypeOK, Untouched, Sorting, PlacedInOrder
<1>3. /\ u \notin Range(order) /\ deps[u] \subseteq Range(order)
      /\ Freed(u) = {v \in Manifest : u \in deps[v] /\ deps[v] \subseteq Range(order) \cup {u}}
      /\ Freed(u) \cap (Range(stack) \cup Range(order)) = {}
  BY <1>1, <1>2, FreedByTop
<1>4. /\ u \in Manifest /\ u \in Range(stack)
      /\ Front(stack) \in Seq(Manifest) /\ Range(Front(stack)) = Range(stack) \ {u}
      /\ \A i, h \in DOMAIN Front(stack) : Front(stack)[i] = Front(stack)[h] => i = h
  BY <1>1, TopOfStack
<1>5. /\ stack' \in Seq(Manifest) /\ Range(stack') = (Range(stack) \ {u}) \cup Freed(u)
      /\ \A i, h \in DOMAIN stack' : stack'[i] = stack'[h] => i = h
  <2>1. Freed(u) \subseteq Manifest /\ Range(Front(stack)) \cap Freed(u) = {}
    BY <1>3, <1>4
  <2> QED
    BY <1>1, <1>4, <2>1, PushAdds
<1> HIDE DEF u
<1>6. /\ order' \in Seq(Manifest) /\ Range(order') = Range(order) \cup {u}
      /\ Len(order) \in Nat /\ DOMAIN order = 1 .. Len(order)
      /\ DOMAIN order' = 1 .. (Len(order) + 1)
      /\ \A i \in 1 .. Len(order) : order'[i] = order[i]
      /\ order'[Len(order) + 1] = u
  BY <1>1, <1>2, <1>4, OrderGrows
<1>7. \A v \in Manifest : indegree[v] = Cardinality(deps[v] \ Range(order))
  BY <1>2 DEF SortInv, Counted
<1>8. \A v \in Manifest :
        indegree'[v] = Cardinality(deps'[v] \ Range(order')) /\ indegree'[v] \in Nat
  <2> SUFFICES ASSUME NEW v \in Manifest
               PROVE  /\ indegree'[v] = Cardinality(deps[v] \ (Range(order) \cup {u}))
                      /\ indegree'[v] \in Nat
    BY <1>1, <1>6
  <2> DEFINE left == deps[v] \ Range(order)
  <2>1. CASE u \in deps[v]
    <3>1. deps[v] \ (Range(order) \cup {u}) = left \ {u} /\ u \in left /\ left \subseteq Manifest
      BY <1>2, <1>3, <2>1
    <3>2. /\ IsFiniteSet(left) /\ Cardinality(left \ {u}) \in Nat
          /\ Cardinality(left) \in Nat
      BY <3>1, ManifestSets
    <3>3. Cardinality(left \ {u}) = Cardinality(left) - 1
      BY <3>1, <3>2, FS_RemoveElement
    <3>4. indegree'[v] = Cardinality(left) - 1
      BY <1>1, <1>7, <2>1
    <3> QED
      BY <3>1, <3>2, <3>3, <3>4
  <2>2. CASE u \notin deps[v]
    <3>1. deps[v] \ (Range(order) \cup {u}) = left
      BY <2>2
    <3>2. indegree'[v] = indegree[v]
      BY <1>1, <2>2
    <3> QED
      BY <1>2, <1>7, <3>1, <3>2
  <2> QED
    BY <2>1, <2>2
<1>9. TypeOK'
  <2>1. indegree' \in [Manifest -> Nat]
    BY <1>1, <1>8
  <2> QED
    BY <1>1, <1>5, <1>6, <2>1 DEF SortInv, TypeOK
<1>10. DepsOwn' /\ Untouched' /\ Counted'
  BY <1>1, <1>2, <1>8 DEF SortInv, DepsOwn, Untouched, Counted
<1>11. OrderRespectsDeps'
  <2> SUFFICES ASSUME NEW i \in DOMAIN order'
               PROVE  /\ \A w \in deps[order'[i]] : \E h \in 1 .. (i - 1) : order'[h] = w
                      /\ \A h \in 1 .. (i - 1) : order'[h] # order'[i]
    BY <1>1 DEF OrderRespectsDeps
  <2>1. CASE i \in 1 .. Len(order)
    <3>1. /\ \A w \in deps[order[i]] : \E h \in 1 .. (i - 1) : order[h] = w
          /\ \A h \in 1 .. (i - 1) : order[h] # order[i]
      BY <1>6, <2>1 DEF SortInv, OrderRespectsDeps
    <3>2. \A h \in 1 .. (i - 1) : order'[h] = order[h]
      BY <1>6, <2>1
    <3> QED
      BY <1>6, <2>1, <3>1, <3>2
  <2>2. CASE i = Len(order) + 1
    <3>1. 1 .. (i - 1) = 1 .. Len(order) /\ order'[i] = u
      BY <1>6, <2>2
    <3>2. \A w \in Range(order) : \E h \in 1 .. Len(order) : order[h] = w
      BY <1>6 DEF Range
    <3>3. \A h \in 1 .. Len(order) : order[h] \in Range(order)
      BY <1>6 DEF Range
    <3> QED
      BY <1>3, <1>6, <3>1, <3>2, <3>3
  <2> QED
    BY <1>6, <2>1, <2>2
<1>12. Waiting'
  <2>1. \A v \in Range(stack) : v \notin Range(order) /\ deps[v] \subseteq Range(order)
    BY DEF SortInv, Waiting, Range
  <2>2. \A v \in Range(stack') : v \notin Range(order') /\ deps[v] \subseteq Range(order')
    BY <1>3, <1>4, <1>5, <1>6, <2>1
  <2>3. \A i \in DOMAIN stack' : stack'[i] \in Range(stack')
    BY DEF Range
  <2> QED
    BY <1>1, <1>5, <2>2, <2>3 DEF Waiting
<1>13. Remembered' /\ Known'
  <2>1. Nodes' = Nodes /\ Nodes \subseteq Manifest
    BY <1>1, <1>2 DEF Nodes, Keys
  <2>2. ASSUME NEW v \in Nodes, deps[v] \subseteq Range(order')
        PROVE  v \in Range(stack') \cup Range(order')
    <3>1. CASE u \in deps[v]
      BY <1>3, <1>5, <1>6, <2>1, <2>2, <3>1
    <3>2. CASE u \notin deps[v]
      <4>1. v \in Range(stack) \cup Range(order)
        BY <1>2, <1>6, <2>2, <3>2 DEF SortInv, Remembered
      <4> QED
        BY <1>5, <1>6, <4>1
    <3> QED
      BY <3>1, <3>2
  <2>3. Freed(u) \subseteq Nodes
    BY <1>3 DEF Nodes
  <2>4. Range(stack) \cup Range(order) \subseteq Nodes
    BY DEF SortInv, Known
  <2> QED
    BY <1>1, <1>4, <1>5, <1>6, <2>1, <2>2, <2>3, <2>4 DEF Remembered, Known
<1>14. CyclesLeft'
  <2> SUFFICES ASSUME NEW S \in SUBSET Manifest, \A m \in S : deps[m] \cap S # {}
               PROVE  Range(order') \cap S = {}
    BY <1>1 DEF CyclesLeft
  <2>1. Range(order) \cap S = {}
    BY DEF SortInv, CyclesLeft
  <2> QED
    BY <1>3, <1>6, <2>1
<1>15. PlacedInOrder'
  <2>1. Len(placed) = 0 /\ DOMAIN placed = {} /\ Len(listing) \in Nat /\ Len(order') \in Nat
    BY <1>2, <1>6, ListingSize DEF SortInv, TypeOK
  <2> QED
    BY <1>1, <1>2, <2>1 DEF PlacedInOrder
<1>16. SortOver' /\ AllPlaced' /\ SortStaysInBounds'
  BY <1>1 DEF SortOver, AllPlaced, SortStaysInBounds
<1> QED
  BY <1>9, <1>10, <1>11, <1>12, <1>13, <1>14, <1>15, <1>16 DEF SortInv

\* The steps before the sort.
LEMMA StartKeeps ==
  ASSUME SortInv, SingleManifest \/ NoDependencies \/ BuildGraph
  PROVE  SortInv'
<1>1. /\ pc = "start" /\ UNCHANGED <<caller, listing, deps, order, cyclic, placed, event>>
      /\ pc' \in {"done", "place", "failed", "pop"}
  BY DEF SingleManifest, NoDependencies, BuildGraph
<1>2. /\ stack = <<>> /\ order = <<>> /\ placed = <<>> /\ event = listing /\ ~cyclic
      /\ \A v \in Manifest : indegree[v] = 0
  BY <1>1 DEF SortInv, Untouched, Sorting
<1>3. /\ order' = <<>> /\ placed' = <<>> /\ Range(order') = {} /\ Range(<<>>) = {}
      /\ DOMAIN order' = {} /\ DOMAIN placed' = {} /\ DOMAIN <<>> = {}
      /\ Len(placed') = 0 /\ Len(order') = 0 /\ Len(listing) \in Nat
  BY <1>1, <1>2, ListingSize DEF SortInv, TypeOK, Range
<1>4. \A v \in Manifest : deps[v] \subseteq Manifest /\ IsFiniteSet(deps[v])
                          /\ Cardinality(deps[v]) \in Nat
  BY ManifestSets DEF SortInv, TypeOK
<1>5. DepsOwn' /\ OrderRespectsDeps' /\ CyclesLeft' /\ PlacedInOrder'
  BY <1>1, <1>3 DEF SortInv, DepsOwn, OrderRespectsDeps, CyclesLeft, PlacedInOrder
<1>6. SortStaysInBounds'
  BY <1>1 DEF SortStaysInBounds
<1>7. CASE SingleManifest
  <2>1. /\ Len(listing) <= 1 /\ pc' = "done" /\ UNCHANGED <<indegree, stack>>
    BY <1>7 DEF SingleManifest
  <2>2. ~Sorting'
    BY <1>1, <1>3, <2>1 DEF Sorting
  <2>3. TypeOK'
    BY <1>1, <2>1 DEF SortInv, TypeOK
  <2>4. Untouched' /\ Counted' /\ Remembered' /\ SortOver' /\ AllPlaced'
    BY <1>1, <1>2, <2>1, <2>2 DEF Untouched, Counted, Remembered, SortOver, AllPlaced
  <2>5. Waiting' /\ Known'
    BY <1>2, <1>3, <2>1 DEF Waiting, Known
  <2> QED
    BY <1>5, <1>6, <2>3, <2>4, <2>5 DEF SortInv
<1>8. CASE NoDependencies
  <2>1. /\ Len(listing) > 1 /\ Keys = {} /\ UNCHANGED <<indegree, stack>>
        /\ pc' = IF caller = "Array" THEN "place" ELSE "failed"
    BY <1>8 DEF NoDependencies
  <2>2. Sorting' /\ Keys' = {} /\ \A v \in Manifest : deps[v] = {}
    BY <1>1, <2>1 DEF Sorting, Keys
  <2>3. Nodes' = {}
    BY <1>1, <2>2 DEF Nodes
  <2>4. TypeOK'
    BY <1>1, <2>1 DEF SortInv, TypeOK
  <2>5. Untouched' /\ AllPlaced'
    BY <1>1, <1>3, <2>1, <2>2 DEF Untouched, AllPlaced
  <2>6. Counted'
    BY <1>1, <1>2, <2>1, <2>2, FS_EmptySet DEF Counted
  <2>7. SortOver'
    BY <1>1, <1>2, <2>1 DEF SortOver
  <2>8. Remembered' /\ Waiting' /\ Known'
    BY <1>2, <1>3, <2>1, <2>3 DEF Remembered, Waiting, Known
  <2> QED
    BY <1>5, <1>6, <2>4, <2>5, <2>6, <2>7, <2>8 DEF SortInv
<1>9. CASE BuildGraph
  <2>1. /\ Len(listing) > 1 /\ pc' = "pop" /\ stack' \in SetToSeqs(Sources)
        /\ indegree' = [v \in Manifest |-> Cardinality(deps[v])]
    BY <1>9 DEF BuildGraph
  <2>2. Sources \subseteq Manifest /\ Sources \subseteq Nodes /\ Nodes' = Nodes
    BY <1>1, <1>4 DEF Sources, Keys, Nodes
  <2>3. IsFiniteSet(Sources) /\ Cardinality(Sources) \in Nat
    BY <2>2, ManifestSets
  <2>4. /\ stack' \in [1 .. Cardinality(Sources) -> Sources]
        /\ \A i, h \in 1 .. Cardinality(Sources) : stack'[i] = stack'[h] => i = h
    BY <2>1 DEF SetToSeqs
  <2>5. /\ Range(stack') = Sources /\ stack' \in Seq(Manifest)
        /\ \A i, h \in DOMAIN stack' : stack'[i] = stack'[h] => i = h
        /\ \A i \in DOMAIN stack' : stack'[i] \in Sources
    BY <2>2, <2>3, <2>4, AllMembers
  <2>6. Sorting' /\ Len(listing') > 1
    BY <1>1, <2>1 DEF Sorting
  <2>7. TypeOK'
    BY <1>1, <1>4, <2>1, <2>5 DEF SortInv, TypeOK
  <2>8. Untouched' /\ SortOver' /\ AllPlaced'
    BY <1>1, <1>3, <2>1, <2>6 DEF Untouched, SortOver, AllPlaced
  <2>9. Counted'
    <3>1. \A v \in Manifest : deps'[v] \ Range(order') = deps[v]
      BY <1>1, <1>3
    <3> QED
      BY <2>1, <3>1 DEF Counted
  <2>10. Waiting'
    BY <1>1, <1>3, <2>5 DEF Waiting, Sources
  <2>11. Remembered'
    <3>1. ASSUME NEW v \in Nodes, deps[v] \subseteq {} PROVE v \in Sources
      BY <3>1 DEF Nodes, Sources
    <3> QED
      BY <1>1, <1>3, <2>2, <2>5, <3>1 DEF Remembered
  <2>12. Known'
    BY <1>3, <2>2, <2>5 DEF Known
  <2> QED
    BY <1>5, <1>6, <2>7, <2>8, <2>9, <2>10, <2>11, <2>12 DEF SortInv
<1> QED
  BY <1>7, <1>8, <1>9

\* Steps after the graph is built that leave the order and the stack alone.
LEMMA SortedKeeps ==
  ASSUME SortInv, Sorting, Sorting',
         UNCHANGED <<caller, listing, deps, indegree, stack, order>>
  PROVE  /\ DepsOwn' /\ OrderRespectsDeps' /\ CyclesLeft'
         /\ Untouched' \/ Len(listing) <= 1
         /\ Counted' /\ Waiting' /\ Remembered' /\ Known'
<1>1. Len(listing) \in Nat
  BY ListingSize DEF SortInv, TypeOK
<1>2. Nodes' = Nodes
  BY DEF Nodes, Keys
<1>3. DepsOwn' /\ OrderRespectsDeps' /\ CyclesLeft' /\ Waiting'
  BY DEF SortInv, DepsOwn, OrderRespectsDeps, CyclesLeft, Waiting
<1>4. Untouched' \/ Len(listing) <= 1
  BY <1>1 DEF Untouched
<1>5. Counted' /\ Remembered' /\ Known'
  BY <1>2 DEF SortInv, Counted, Remembered, Known
<1> QED
  BY <1>3, <1>4, <1>5

LEMMA FinishKeeps ==
  ASSUME SortInv, FinishSort
  PROVE  SortInv'
<1>1. /\ pc = "pop" /\ stack = <<>> /\ cyclic' = \E v \in Manifest : indegree[v] > 0
      /\ pc' = IF cyclic' /\ caller = "SortManifests" THEN "failed" ELSE "place"
      /\ UNCHANGED <<caller, listing, deps, indegree, stack, order, placed, event>>
  BY DEF FinishSort
<1>2. Len(listing) > 1 /\ Len(listing) \in Nat /\ Sorting /\ Sorting' /\ placed = <<>>
  BY <1>1, ListingSize DEF SortInv, TypeOK, Untouched, Sorting, PlacedInOrder
<1>3. /\ DepsOwn' /\ OrderRespectsDeps' /\ CyclesLeft' /\ Untouched'
      /\ Counted' /\ Waiting' /\ Remembered' /\ Known'
  BY <1>1, <1>2, SortedKeeps
<1>4. cyclic' \in BOOLEAN
  BY <1>1
<1>5. TypeOK'
  BY <1>1, <1>4 DEF SortInv, TypeOK
<1>6. SortOver'
  BY <1>1 DEF SortOver
<1>7. PlacedInOrder' /\ AllPlaced' /\ SortStaysInBounds'
  BY <1>1 DEF SortInv, PlacedInOrder, AllPlaced, SortStaysInBounds
<1> QED
  BY <1>3, <1>5, <1>6, <1>7 DEF SortInv

\* The next entry of the rearranged event.
LEMMA PlaceKeeps ==
  ASSUME SortInv, PlaceManifest \/ PlaceForeign
  PROVE  SortInv'
<1>1. /\ pc = "place" /\ Position <= Len(order) /\ Position <= Len(listing)
      /\ UNCHANGED <<caller, listing, deps, indegree, stack, order, cyclic, event>>
      /\ \/ /\ pc' = "place"
            /\ \/ order[Position] \in Range(listing) /\ placed' = Append(placed, order[Position])
               \/ /\ order[Position] \notin Range(listing) /\ caller = "Array"
                  /\ placed' = Append(placed, Zero)
         \/ pc' = "failed" /\ placed' = placed
  BY DEF PlaceManifest, PlaceForeign
<1>2. /\ placed \in Seq(Manifest \cup {Zero}) /\ order \in Seq(Manifest)
      /\ Len(placed) \in Nat /\ Len(order) \in Nat /\ Len(listing) \in Nat
      /\ DOMAIN placed = 1 .. Len(placed)
  BY ListingSize DEF SortInv, TypeOK
<1>3. Position = Len(placed) + 1 /\ Position \in 1 .. Len(order) /\ order[Position] \in Manifest
  BY <1>1, <1>2 DEF Position
<1>4. Len(listing) > 1 /\ Sorting /\ Sorting'
  BY <1>1, <1>2 DEF SortInv, Untouched, Sorting
<1>5. /\ DepsOwn' /\ OrderRespectsDeps' /\ CyclesLeft' /\ Untouched'
      /\ Counted' /\ Waiting' /\ Remembered' /\ Known'
  BY <1>1, <1>2, <1>4, SortedKeeps
<1>6. TypeOK' /\ PlacedInOrder'
  <2>1. CASE placed' = placed
    BY <1>1, <2>1 DEF SortInv, TypeOK, PlacedInOrder
  <2>2. ASSUME NEW m \in Manifest \cup {Zero}, placed' = Append(placed, m), pc' = "place",
               \/ order[Position] \in Range(listing) /\ m = order[Position]
               \/ order[Position] \notin Range(listing) /\ m = Zero /\ caller = "Array"
        PROVE  TypeOK' /\ PlacedInOrder'
    <3>1. /\ placed' \in Seq(Manifest \cup {Zero}) /\ Len(placed') = Len(placed) + 1
          /\ DOMAIN placed' = 1 .. (Len(placed) + 1)
          /\ \A i \in 1 .. Len(placed) : placed'[i] = placed[i]
          /\ placed'[Len(placed) + 1] = m
      BY <1>2, <2>2
    <3>2. TypeOK'
      BY <1>1, <2>2, <3>1 DEF SortInv, TypeOK
    <3>3. Len(placed') <= Len(order') /\ Len(placed') <= Len(listing')
      BY <1>1, <1>3, <3>1
    <3>4. \A i \in DOMAIN placed' :
            \/ order[i] \in Range(listing) /\ placed'[i] = order[i]
            \/ order[i] \notin Range(listing) /\ placed'[i] = Zero /\ caller = "Array"
      <4>1. \A i \in 1 .. Len(placed) :
              \/ order[i] \in Range(listing) /\ placed[i] = order[i]
              \/ order[i] \notin Range(listing) /\ placed[i] = Zero /\ caller = "Array"
        BY <1>2 DEF SortInv, PlacedInOrder
      <4>2. \A i \in 1 .. (Len(placed) + 1) : i \in 1 .. Len(placed) \/ i = Len(placed) + 1
        BY <1>2
      <4> QED
        BY <1>3, <2>2, <3>1, <4>1, <4>2
    <3> QED
      BY <1>1, <2>2, <3>2, <3>3, <3>4 DEF PlacedInOrder
  <2> QED
    BY <1>1, <1>3, <2>1, <2>2
<1>7. SortOver' /\ AllPlaced' /\ SortStaysInBounds'
  BY <1>1, <1>4 DEF SortInv, SortOver, AllPlaced, SortStaysInBounds
<1> QED
  BY <1>5, <1>6, <1>7 DEF SortInv

\* The end of orderedManifests is passed only if a manifest of another event takes
\* part, and by the array generator: were all before it manifests of the event, they
\* would be all of them, and none would be left to depend on what comes after.
LEMMA PastEndKeeps ==
  ASSUME SortInv, PlacePastEnd
  PROVE  SortInv'
<1> DEFINE n == Len(listing)
<1>1. /\ pc = "place" /\ Position <= Len(order) /\ Position > n /\ pc' = "panicked"
      /\ UNCHANGED <<caller, listing, deps, indegree, stack, order, cyclic, placed, event>>
  BY DEF PlacePastEnd
<1>2. /\ listing \in Seq(Manifest) /\ n \in Nat /\ Cardinality(Range(listing)) = n
      /\ Range(listing) \subseteq Manifest /\ IsFiniteSet(Range(listing))
  BY ListingSize, ManifestSets DEF SortInv, TypeOK
<1>3. /\ order \in Seq(Manifest) /\ Len(order) \in Nat /\ DOMAIN order = 1 .. Len(order)
      /\ placed \in Seq(Manifest \cup {Zero}) /\ Len(placed) \in Nat
      /\ DOMAIN placed = 1 .. Len(placed)
  BY DEF SortInv, TypeOK
<1>4. Len(placed) = n /\ n + 1 \in 1 .. Len(order)
  BY <1>1, <1>2, <1>3 DEF SortInv, PlacedInOrder, Position
<1> HIDE DEF n
<1>5. \A i, h \in 1 .. Len(order) : order[i] = order[h] => i = h
  <2>1. \A i \in 1 .. Len(order) : \A h \in 1 .. (i - 1) : order[h] # order[i]
    BY <1>3 DEF SortInv, OrderRespectsDeps
  <2> SUFFICES ASSUME NEW i \in 1 .. Len(order), NEW h \in 1 .. Len(order), i # h
               PROVE  order[i] # order[h]
    OBVIOUS
  <2>2. i \in 1 .. (h - 1) \/ h \in 1 .. (i - 1)
    BY <1>3
  <2> QED
    BY <2>1, <2>2
<1>6. ~(\A i \in 1 .. n : order[i] \in Range(listing))
  <2> SUFFICES ASSUME \A i \in 1 .. n : order[i] \in Range(listing) PROVE FALSE
    OBVIOUS
  <2> DEFINE first == [i \in 1 .. n |-> order[i]]
             m == order[n + 1]
  <2>1. first \in [1 .. Cardinality(Range(listing)) -> Range(listing)]
    BY <1>2 DEF n
  <2>2. \A i, h \in 1 .. Cardinality(Range(listing)) : first[i] = first[h] => i = h
    <3>1. 1 .. Cardinality(Range(listing)) = 1 .. n /\ 1 .. n \subseteq 1 .. Len(order)
      BY <1>2, <1>3, <1>4 DEF n
    <3> QED
      BY <1>5, <3>1
  <2>3. Range(first) = Range(listing)
    BY <1>2, <2>1, <2>2, AllMembers
  <2>4. \A k \in Range(listing) : \E i \in 1 .. n : order[i] = k
    BY <2>3 DEF Range
  <2>5. m \notin Range(listing)
    <3>1. \A i \in 1 .. n : i \in 1 .. Len(order) /\ i # n + 1
      BY <1>2, <1>3, <1>4 DEF n
    <3> QED
      BY <1>4, <1>5, <2>4, <3>1
  <2>6. m \in Manifest /\ m \in Nodes
    BY <1>3, <1>4 DEF SortInv, Known, Range
  <2>7. PICK k \in Manifest : m \in deps[k]
    BY <2>5, <2>6 DEF SortInv, DepsOwn, Nodes, Keys
  <2>8. k \in Range(listing)
    BY <2>7 DEF SortInv, DepsOwn
  <2>9. PICK i \in 1 .. n : order[i] = k
    BY <2>4, <2>8
  <2>10. PICK h \in 1 .. (i - 1) : order[h] = m
    <3>1. i \in DOMAIN order
      BY <1>2, <1>3, <1>4 DEF n
    <3> QED
      BY <2>7, <2>9, <3>1 DEF SortInv, OrderRespectsDeps
  <2>11. h \in 1 .. Len(order) /\ h # n + 1
    BY <1>2, <1>3, <1>4 DEF n
  <2> QED
    BY <1>4, <1>5, <2>10, <2>11
<1>7. PICK i \in 1 .. n : order[i] \notin Range(listing)
  BY <1>6
<1>8. i \in DOMAIN placed /\ i \in DOMAIN order
  BY <1>2, <1>3, <1>4 DEF n
<1>9. caller = "Array"
  BY <1>7, <1>8 DEF SortInv, PlacedInOrder
<1>10. ~(Keys \subseteq Range(listing))
  <2>1. order[i] \in Manifest /\ order[i] \in Nodes
    BY <1>3, <1>8 DEF SortInv, Known, Range
  <2>2. order[i] \in Keys
    BY <1>7, <2>1 DEF SortInv, DepsOwn, Nodes
  <2> QED
    BY <1>7, <2>2
<1>11. Len(listing) > 1 /\ Sorting /\ Sorting'
  BY <1>1, <1>2 DEF SortInv, Untouched, Sorting, n
<1>12. /\ DepsOwn' /\ OrderRespectsDeps' /\ CyclesLeft' /\ Untouched'
       /\ Counted' /\ Waiting' /\ Remembered' /\ Known'
  BY <1>1, <1>2, <1>11, SortedKeeps DEF n
<1>13. TypeOK' /\ PlacedInOrder'
  BY <1>1 DEF SortInv, TypeOK, PlacedInOrder
<1>14. SortOver' /\ AllPlaced'
  BY <1>1, <1>11 DEF SortInv, SortOver, AllPlaced
<1>15. SortStaysInBounds'
  BY <1>1, <1>9, <1>10 DEF SortStaysInBounds, Keys
<1> QED
  BY <1>12, <1>13, <1>14, <1>15 DEF SortInv

LEMMA RearrangeKeeps ==
  ASSUME SortInv, Rearrange
  PROVE  SortInv'
<1> DEFINE left == Len(listing) - Len(placed)
           zeros == [i \in 1 .. left |-> Zero]
<1>1. /\ pc = "place" /\ Position > Len(order) /\ pc' = "done" /\ event' = placed \o zeros
      /\ UNCHANGED <<caller, listing, deps, indegree, stack, order, cyclic, placed>>
  BY DEF Rearrange
<1>2. /\ placed \in Seq(Manifest \cup {Zero}) /\ Len(placed) \in Nat
      /\ Len(order) \in Nat /\ Len(listing) \in Nat
  BY ListingSize DEF SortInv, TypeOK
<1>3. Len(placed) = Len(order) /\ left \in Nat
  BY <1>1, <1>2 DEF SortInv, PlacedInOrder, Position
<1>4. zeros \in Seq(Manifest \cup {Zero})
  BY <1>3
<1>5. event' \in Seq(Manifest \cup {Zero})
  BY <1>1, <1>2, <1>4, ConcatProperties
<1>6. Len(listing) > 1 /\ Sorting /\ Sorting'
  BY <1>1, <1>2 DEF SortInv, Untouched, Sorting
<1>7. /\ DepsOwn' /\ OrderRespectsDeps' /\ CyclesLeft' /\ Untouched'
      /\ Counted' /\ Waiting' /\ Remembered' /\ Known'
  BY <1>1, <1>2, <1>6, SortedKeeps
<1>8. TypeOK' /\ PlacedInOrder'
  BY <1>1, <1>5 DEF SortInv, TypeOK, PlacedInOrder
<1>9. AllPlaced'
  BY <1>1, <1>3 DEF AllPlaced
<1>10. SortOver' /\ SortStaysInBounds'
  BY <1>1, <1>6 DEF SortInv, SortOver, SortStaysInBounds
<1> QED
  BY <1>7, <1>8, <1>9, <1>10 DEF SortInv

\* Nothing else is needed for any step to keep the inductive invariant: no manifest
\* is placed or pushed twice, none that waits for nothing is forgotten, and what is
\* left over waits for a cycle.
THEOREM SortInvariant == Spec => []SortInv
<1>1. SortInv /\ [Next]_vars => SortInv'
  <2> SUFFICES ASSUME SortInv, [Next]_vars PROVE SortInv'
    OBVIOUS
  <2>1. CASE UNCHANGED vars
    <3> USE <2>1 DEF vars
    <3>1. TypeOK' /\ DepsOwn' /\ Untouched' /\ OrderRespectsDeps'
      BY DEF SortInv, TypeOK, DepsOwn, Untouched, Sorting, OrderRespectsDeps
    <3>2. Counted' /\ Waiting' /\ CyclesLeft'
      BY DEF SortInv, Counted, Sorting, Waiting, CyclesLeft
    <3>3. Remembered' /\ Known'
      BY DEF SortInv, Remembered, Sorting, Known, Nodes, Keys
    <3>4. SortOver' /\ PlacedInOrder' /\ AllPlaced' /\ SortStaysInBounds'
      BY DEF SortInv, Sorting, SortOver, PlacedInOrder, AllPlaced, SortStaysInBounds, Keys
    <3> QED
      BY <3>1, <3>2, <3>3, <3>4 DEF SortInv
  <2>2. CASE SingleManifest \/ NoDependencies \/ BuildGraph
    BY <2>2, StartKeeps
  <2>3. CASE Pop
    BY <2>3, PopKeeps
  <2>4. CASE FinishSort
    BY <2>4, FinishKeeps
  <2>5. CASE PlaceManifest \/ PlaceForeign
    BY <2>5, PlaceKeeps
  <2>6. CASE PlacePastEnd
    BY <2>6, PastEndKeeps
  <2>7. CASE Rearrange
    BY <2>7, RearrangeKeeps
  <2> QED
    BY <2>1, <2>2, <2>3, <2>4, <2>5, <2>6, <2>7 DEF Next
<1> QED
  BY <1>1, InitSort, PTL DEF Spec

\* The state of the sort is well formed: no count of incoming edges falls below zero,
\* and all that is ordered and placed are manifests.
THEOREM SortTypes == Spec => []TypeOK
<1>1. SortInv => TypeOK
  BY DEF SortInv
<1> QED
  BY <1>1, SortInvariant, PTL

\* Every node is placed once, after all it depends on (TopologicalSort).
THEOREM DepsFirst == Spec => []OrderRespectsDeps
<1>1. SortInv => OrderRespectsDeps
  BY DEF SortInv
<1> QED
  BY <1>1, SortInvariant, PTL

\* The slice of SortManifests is never too short, that of the array generator only
\* when a manifest depends on one of another event.
THEOREM BoundsHold == Spec => []SortStaysInBounds
<1>1. SortInv => SortStaysInBounds
  BY DEF SortInv
<1> QED
  BY <1>1, SortInvariant, PTL

\* The error "not a DAG" is given exactly for the graphs with a cycle, and those on
\* which something waits that is in none.
THEOREM CyclesReported == Spec => []CyclesFound
<1>1. ASSUME SortInv, pc \notin {"start", "pop"}, Len(listing) > 1
      PROVE  cyclic <=> HasCycle
  <2>1. /\ Sorting /\ stack = <<>> /\ Range(stack) = {}
        /\ cyclic <=> \E v \in Manifest : indegree[v] > 0
    BY <1>1 DEF SortInv, SortOver, Sorting, Range
  <2>2. \A v \in Manifest : /\ deps[v] \subseteq Manifest
                            /\ indegree[v] > 0 <=> ~(deps[v] \subseteq Range(order))
    <3> SUFFICES ASSUME NEW v \in Manifest
                 PROVE  /\ deps[v] \subseteq Manifest
                        /\ indegree[v] > 0 <=> ~(deps[v] \subseteq Range(order))
      OBVIOUS
    <3>1. /\ deps[v] \subseteq Manifest
          /\ indegree[v] = Cardinality(deps[v] \ Range(order))
      BY <1>1, <2>1 DEF SortInv, TypeOK, Counted
    <3>2. /\ Cardinality(deps[v] \ Range(order)) \in Nat
          /\ Cardinality(deps[v] \ Range(order)) = 0 <=> deps[v] \ Range(order) = {}
      BY <3>1, ManifestSets
    <3>3. indegree[v] > 0 <=> deps[v] \ Range(order) # {}
      BY <3>1, <3>2
    <3> QED
      BY <3>1, <3>3
  <2>3. ASSUME HasCycle PROVE cyclic
    <3>1. PICK S \in (SUBSET Manifest) \ {{}} : \A m \in S : deps[m] \cap S # {}
      BY <2>3 DEF HasCycle
    <3>2. Range(order) \cap S = {}
      BY <1>1, <3>1 DEF SortInv, CyclesLeft
    <3>3. PICK m \in S : deps[m] \cap S # {}
      BY <3>1
    <3> QED
      BY <2>1, <2>2, <3>1, <3>2, <3>3
  <2>4. ASSUME cyclic PROVE HasCycle
    <3> DEFINE S == {v \in Manifest : ~(deps[v] \subseteq Range(order))}
    <3>1. S # {} /\ S \in SUBSET Manifest
      BY <2>1, <2>2, <2>4
    <3>2. ASSUME NEW m \in S PROVE deps[m] \cap S # {}
      <4>1. PICK w \in deps[m] : w \notin Range(order)
        BY <3>2
      <4>2. w \in Manifest /\ w \in Nodes
        BY <2>2, <3>2 DEF Nodes, Keys
      <4>3. ~(deps[w] \subseteq Range(order))
        BY <1>1, <2>1, <4>1, <4>2 DEF SortInv, Remembered
      <4> QED
        BY <4>2, <4>3
    <3> QED
      BY <3>1, <3>2 DEF HasCycle
  <2> QED
    BY <2>3, <2>4
<1>2. SortInv => CyclesFound
  BY <1>1 DEF CyclesFound
<1> QED
  BY <1>2, SortInvariant, PTL

\* An ordering of SortManifests that is not an error leaves no manifest ahead of one
\* it depends on, and loses none that takes part in a dependency.
THEOREM EventsOrdered == Spec => []EventOrdered
<1>1. ASSUME SortInv, pc = "done", caller = "SortManifests", Len(listing) > 1
      PROVE  /\ \A i, h \in DOMAIN event :
                   event[i] # Zero /\ event[h] \in deps[event[i]] => h < i
             /\ \A m \in Range(listing) : m \in Keys \/ deps[m] # {} => m \in Range(event)
  <2>1. /\ Sorting /\ stack = <<>> /\ Range(stack) = {}
        /\ \A v \in Manifest : ~(indegree[v] > 0)
    BY <1>1 DEF SortInv, SortOver, Sorting, Range
  <2>2. /\ order \in Seq(Manifest) /\ placed \in Seq(Manifest \cup {Zero})
        /\ Len(placed) = Len(order) /\ Len(order) \in Nat /\ Len(listing) \in Nat
        /\ Len(placed) <= Len(listing)
        /\ DOMAIN order = 1 .. Len(order) /\ DOMAIN placed = 1 .. Len(order)
    BY <1>1, <2>1, ListingSize DEF SortInv, TypeOK, AllPlaced, PlacedInOrder
  <2> DEFINE zeros == [i \in 1 .. (Len(listing) - Len(placed)) |-> Zero]
  <2>3. /\ event = placed \o zeros /\ zeros \in Seq(Manifest \cup {Zero})
        /\ Len(zeros) = Len(listing) - Len(placed)
    <3>1. event = placed \o zeros
      BY <1>1, <2>1 DEF SortInv, AllPlaced
    <3>2. Len(listing) - Len(placed) \in Nat
      BY <2>2
    <3>3. zeros \in [1 .. (Len(listing) - Len(placed)) -> Manifest \cup {Zero}]
      OBVIOUS
    <3> QED
      BY <3>1, <3>2, <3>3
  <2>4. /\ DOMAIN event = 1 .. Len(listing)
        /\ \A i \in 1 .. Len(listing) : event[i] = IF i <= Len(order) THEN order[i] ELSE Zero
    <3>1. /\ DOMAIN event = 1 .. Len(listing)
          /\ \A i \in 1 .. Len(listing) :
                event[i] = IF i <= Len(placed) THEN placed[i] ELSE zeros[i - Len(placed)]
      <4>1. /\ placed \o zeros \in Seq(Manifest \cup {Zero})
            /\ Len(placed \o zeros) = Len(listing)
            /\ \A i \in 1 .. Len(listing) : (placed \o zeros)[i] =
                  IF i <= Len(placed) THEN placed[i] ELSE zeros[i - Len(placed)]
        <5> HIDE DEF zeros
        <5>1. Len(placed) + Len(zeros) = Len(listing)
          BY <2>2, <2>3
        <5>2. /\ placed \o zeros \in Seq(Manifest \cup {Zero})
              /\ Len(placed \o zeros) = Len(placed) + Len(zeros)
              /\ \A i \in 1 .. Len(placed) + Len(zeros) : (placed \o zeros)[i] =
                    IF i <= Len(placed) THEN placed[i] ELSE zeros[i - Len(placed)]
          <6>1. placed \in Seq(Manifest \cup {Zero}) /\ zeros \in Seq(Manifest \cup {Zero})
            BY <2>2, <2>3
          <6> QED
            BY ONLY <6>1, ConcatProperties
        <5> QED
          BY <5>1, <5>2, Zenon
      <4> HIDE DEF zeros
      <4> QED
        BY <2>2, <2>3, <4>1
    <3>2. \A i \in 1 .. Len(order) : placed[i] = order[i]
      BY <1>1, <2>2 DEF SortInv, PlacedInOrder
    <3> QED
      <4>1. ASSUME NEW i \in 1 .. Len(listing), i > Len(placed)
            PROVE  zeros[i - Len(placed)] = Zero
        <5>1. i - Len(placed) \in 1 .. (Len(listing) - Len(placed))
          BY <2>2, <4>1
        <5> QED
          BY <5>1
      <4> HIDE DEF zeros
      <4> QED
        BY <2>2, <3>1, <3>2, <4>1
  <2> HIDE DEF zeros
  <2>5. ASSUME NEW i \in DOMAIN event, NEW h \in DOMAIN event,
               event[i] # Zero, event[h] \in deps[event[i]]
        PROVE  h < i
    <3>1. i \in 1 .. Len(order) /\ event[i] = order[i] /\ order[i] \in Manifest
      BY <2>2, <2>4, <2>5
    <3>2. event[h] \in Manifest
      BY <1>1, <2>5, <3>1 DEF SortInv, TypeOK
    <3>3. h \in 1 .. Len(order) /\ event[h] = order[h]
      BY <2>2, <2>4, <3>2, ManifestAssumption
    <3>4. PICK k \in 1 .. (i - 1) : order[k] = order[h]
      BY <1>1, <2>2, <2>5, <3>1, <3>3 DEF SortInv, OrderRespectsDeps
    <3>5. ~(k \in 1 .. (h - 1))
      BY <1>1, <2>2, <3>3, <3>4 DEF SortInv, OrderRespectsDeps
    <3> QED
      BY <2>2, <3>1, <3>3, <3>4, <3>5
  <2>6. ASSUME NEW m \in Range(listing), m \in Keys \/ deps[m] # {}
        PROVE  m \in Range(event)
    <3>1. m \in Manifest /\ m \in Nodes
      BY <1>1, <2>6, ListingSize DEF SortInv, TypeOK, Nodes
    <3>2. deps[m] \subseteq Manifest /\ indegree[m] = Cardinality(deps[m] \ Range(order))
      BY <1>1, <2>1, <3>1 DEF SortInv, TypeOK, Counted
    <3>3. deps[m] \ Range(order) = {}
      <4>1. /\ Cardinality(deps[m] \ Range(order)) \in Nat
            /\ Cardinality(deps[m] \ Range(order)) = 0 <=> deps[m] \ Range(order) = {}
        BY <3>2, ManifestSets
      <4> QED
        BY <2>1, <3>1, <3>2, <4>1
    <3>4. m \in Range(order)
      BY <1>1, <2>1, <3>1, <3>3 DEF SortInv, Remembered
    <3>5. PICK i \in 1 .. Len(order) : order[i] = m
      BY <2>2, <3>4 DEF Range
    <3>6. i \in DOMAIN event /\ event[i] = m
      BY <2>2, <2>4, <3>5
    <3> QED
      BY <3>6 DEF Range
  <2> QED
    BY <2>5, <2>6
<1>2. SortInv => EventOrdered
  BY <1>1 DEF EventOrdered
<1> QED
  BY <1>2, SortInvariant, PTL


-----------------------------------------------------------------------------
(* The sort ends: what is left to do shrinks with every step *)

\* Manifests in an order that repeats none are no more than there are.
LEMMA OrderFits ==
  ASSUME NEW s \in Seq(Manifest), \A i \in DOMAIN s : \A h \in 1 .. (i - 1) : s[h] # s[i]
  PROVE  Len(s) <= Cardinality(Manifest)
<1>1. /\ Len(s) \in Nat /\ DOMAIN s = 1 .. Len(s)
      /\ IsFiniteSet(Manifest) /\ Cardinality(Manifest) \in Nat
  BY ManifestSets
<1>2. \A i, h \in 1 .. Len(s) : s[i] = s[h] => i = h
  <2> SUFFICES ASSUME NEW i \in 1 .. Len(s), NEW h \in 1 .. Len(s), i # h
               PROVE  s[i] # s[h]
    OBVIOUS
  <2>1. i \in 1 .. (h - 1) \/ h \in 1 .. (i - 1)
    BY <1>1
  <2> QED
    BY <1>1, <2>1
<1>3. s \in Injection(1 .. Len(s), Manifest)
  BY <1>1, <1>2 DEF Injection, IsInjective
<1>4. IsFiniteSet(1 .. Len(s)) /\ Cardinality(1 .. Len(s)) = Len(s)
  <2> DEFINE n == Len(s)
  <2>1. n \in Nat
    BY <1>1
  <2> HIDE DEF n
  <2>2. IsFiniteSet(1 .. n) /\ Cardinality(1 .. n) = n
    BY <2>1, FS_Interval
  <2> QED
    BY <2>2 DEF n
<1> QED
  BY <1>1, <1>3, <1>4, FS_Injection

\* Every step of the sort, of any graph, brings it nearer to its end: it takes no more
\* than twice as many steps as there are manifests, and three.
THEOREM SortStepsCounted == Spec => SortAdvances
<1> DEFINE N == Cardinality(Manifest)
<1>1. N \in Nat
  BY ManifestSets
<1>2. ASSUME SortInv, SortInv', Next
      PROVE  0 <= StepsLeft' /\ StepsLeft' < StepsLeft
  <2> HIDE DEF N
  <2>1. /\ Len(order) \in Nat /\ Len(placed) \in Nat /\ Len(placed) <= Len(order)
        /\ Len(order) <= N /\ order \in Seq(Manifest) /\ placed \in Seq(Manifest \cup {Zero})
        /\ pc = "pop" => placed = <<>>
    <3>1. /\ order \in Seq(Manifest) /\ placed \in Seq(Manifest \cup {Zero})
          /\ \A i \in DOMAIN order : \A h \in 1 .. (i - 1) : order[h] # order[i]
          /\ Len(placed) <= Len(order)
          /\ pc = "pop" => placed = <<>>
      BY <1>2 DEF SortInv, TypeOK, OrderRespectsDeps, PlacedInOrder
    <3>2. Len(order) <= N
      BY <3>1, OrderFits DEF N
    <3> QED
      BY <3>1, <3>2
  <2>2. /\ Len(order') \in Nat /\ Len(placed') \in Nat /\ Len(placed') <= Len(order')
        /\ Len(order') <= N
    <3>1. /\ order' \in Seq(Manifest) /\ placed' \in Seq(Manifest \cup {Zero})
          /\ \A i \in DOMAIN order' : \A h \in 1 .. (i - 1) : order'[h] # order'[i]
          /\ Len(placed') <= Len(order')
      BY <1>2 DEF SortInv, TypeOK, OrderRespectsDeps, PlacedInOrder
    <3> QED
      BY <3>1, OrderFits DEF N
  <2>3. StepsLeft = CASE pc = "start" -> 2 * N + 3
                      [] pc = "pop"   -> 2 * N + 2 - Len(order)
                      [] pc = "place" -> Len(order) + 1 - Len(placed)
                      [] OTHER        -> 0
    BY DEF StepsLeft, N
  <2>4. StepsLeft' = CASE pc' = "start" -> 2 * N + 3
                       [] pc' = "pop"   -> 2 * N + 2 - Len(order')
                       [] pc' = "place" -> Len(order') + 1 - Len(placed')
                       [] OTHER         -> 0
    BY DEF StepsLeft, N
  <2>5. CASE SingleManifest
    BY <1>1, <2>3, <2>4, <2>5 DEF SingleManifest
  <2>6. CASE NoDependencies
    <3>1. order = <<>> /\ placed = <<>>
      BY <1>2, <2>6 DEF NoDependencies, SortInv, Untouched, Sorting
    <3> QED
      BY <1>1, <2>3, <2>4, <2>6, <3>1 DEF NoDependencies
  <2>7. CASE BuildGraph
    BY <1>1, <2>1, <2>3, <2>4, <2>7 DEF BuildGraph
  <2>8. CASE Pop
    <3>1. /\ pc = "pop" /\ pc' = "pop" /\ Last(stack) \in Manifest
          /\ order' = Append(order, Last(stack))
      BY <1>2, <2>8, TopOfStack DEF Pop
    <3>2. Len(order') = Len(order) + 1
      BY <2>1, <3>1
    <3> QED
      BY <1>1, <2>1, <2>2, <2>3, <2>4, <3>1, <3>2
  <2>9. CASE FinishSort
    BY <1>1, <2>1, <2>3, <2>4, <2>9 DEF FinishSort
  <2>10. CASE PlaceManifest \/ PlaceForeign
    <3>1. /\ pc = "place" /\ UNCHANGED order /\ Len(placed) + 1 <= Len(order)
          /\ \/ pc' = "place" /\ Len(placed') = Len(placed) + 1
             \/ pc' = "failed"
      BY <2>1, <2>10 DEF PlaceManifest, PlaceForeign, Position
    <3> QED
      BY <1>1, <2>1, <2>2, <2>3, <2>4, <3>1
  <2>11. CASE PlacePastEnd
    BY <1>1, <2>1, <2>3, <2>4, <2>11 DEF PlacePastEnd
  <2>12. CASE Rearrange
    BY <1>1, <2>1, <2>3, <2>4, <2>12 DEF Rearrange
  <2> QED
    BY <1>2, <2>5, <2>6, <2>7, <2>8, <2>9, <2>10, <2>11, <2>12 DEF Next
<1>3. SortInv /\ SortInv' /\ [Next]_vars
        => [0 <= StepsLeft' /\ StepsLeft' < StepsLeft]_vars
  BY <1>2
<1> QED
  BY <1>3, SortInvariant, PTL DEF Spec, SortAdvances
=============================================================================
