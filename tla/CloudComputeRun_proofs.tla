----------------------- MODULE CloudComputeRun_proofs -----------------------
(***************************************************************************)
(* Theorems about CloudComputeRun, for any set of computes, any number of  *)
(* events at a time and any failures.                                      *)
(***************************************************************************)
EXTENDS CloudComputeRun, FiniteSetTheorems, SequenceTheorems, WellFoundedInduction, TLAPS

-----------------------------------------------------------------------------
(* Computes *)

LEMMA ComputeFacts ==
  ASSUME TypeOK
  PROVE  /\ compute \in Computes
         /\ compute.kind \in {"streaming", "array", "list", "batch"}
         /\ PerIdentifier(compute) \in Nat \ {0}
         /\ compute.loops \in Nat
         /\ Len(compute.tokens) \in Nat
         /\ \A i \in 1 .. Len(compute.tokens) : compute.tokens[i] \in Token
         /\ compute.first \in Int /\ LastValue(compute) \in Int
         /\ compute.first <= LastValue(compute)
         /\ MostEvents(compute) \in Nat
         /\ Concurrency \in Nat
         /\ 1 .. MostEvents(compute) \subseteq Event
         /\ Manifests = 1 .. LastManifest /\ LastManifest \in Nat \ {0}
         /\ Manifests \subseteq Manifest
         /\ LastSlot \in {4, 5}
         /\ Event \subseteq Nat \ {0} /\ Manifest \subseteq Nat \ {0}
<1>1. compute \in Computes
  BY DEF TypeOK
<1>2. /\ compute.kind \in {"streaming", "array", "list", "batch"}
      /\ compute.loops \in Nat
      /\ compute.first \in Int /\ LastValue(compute) \in Int
      /\ compute.first <= LastValue(compute)
  <2>1. /\ compute.kind \in {"streaming", "array", "list", "batch"}
        /\ compute.loops \in Nat /\ compute.first \in Int /\ compute.last \in Int
    BY <1>1, GeneratorAssumption
  <2> QED
    BY <2>1 DEF LastValue
<1>3. compute.tokens \in Seq({compute.tokens[i] : i \in DOMAIN compute.tokens})
  BY <1>1, GeneratorAssumption
<1>4. Len(compute.tokens) \in Nat /\ DOMAIN compute.tokens = 1 .. Len(compute.tokens)
  BY <1>3
<1>5. \A i \in 1 .. Len(compute.tokens) : compute.tokens[i] \in Token
  BY <1>1, <1>4 DEF Token, Range
<1>6. PerIdentifier(compute) \in Nat \ {0}
  BY <1>2 DEF PerIdentifier
<1>7. MostEvents(compute) \in Nat
  <2>1. \A a, b \in Nat : a * b \in Nat
    OBVIOUS
  <2> QED
    BY <1>2, <1>4, <1>6, <2>1 DEF MostEvents
<1>8. 1 .. MostEvents(compute) \subseteq Event
  BY <1>1 DEF Event
<1>9. compute.payloads \in Seq(BOOLEAN) \ {<<>>}
  BY <1>1, ManifestAssumption
<1>10. Manifests = 1 .. LastManifest /\ LastManifest \in Nat \ {0}
  BY <1>9 DEF Manifests, LastManifest
<1>11. Manifests \subseteq Manifest
  BY <1>1 DEF Manifests, Manifest
<1>12. LastSlot \in {4, 5}
  BY DEF LastSlot
<1>13. Event \subseteq Nat \ {0}
  BY DEF Event
<1>14. Manifest \subseteq Nat \ {0}
  <2> SUFFICES ASSUME NEW c \in Computes PROVE DOMAIN c.payloads \subseteq Nat \ {0}
    BY DEF Manifest
  <2>1. c.payloads \in Seq(BOOLEAN)
    BY ManifestAssumption
  <2> QED
    BY <2>1
<1>15. Concurrency \in Nat
  BY <1>1, ManifestAssumption DEF Concurrency
<1> QED
  BY <1>1, <1>2, <1>4, <1>5, <1>6, <1>7, <1>8, <1>10, <1>11, <1>12, <1>13, <1>14, <1>15

\* What depends on the compute alone does not change.
LEMMA SameCompute ==
  ASSUME compute' = compute
  PROVE  /\ Manifests' = Manifests /\ LastManifest' = LastManifest /\ LastSlot' = LastSlot
         /\ Entries' = Entries /\ Concurrency' = Concurrency
         /\ EventsShareTags' = EventsShareTags /\ TagsApart' = TagsApart
         /\ ArraysKept' = ArraysKept /\ ArraysApart' = ArraysApart
         /\ \A i : NeedsPayload(i)' = NeedsPayload(i)
         /\ \A n : TagsEvent(n)' = TagsEvent(n)
         /\ \A n : ArrayEvent(n)' = ArrayEvent(n)
         /\ \A i : ArrayManifest(i)' = ArrayManifest(i)
<1>1. /\ Manifests' = Manifests /\ LastManifest' = LastManifest /\ LastSlot' = LastSlot
      /\ Concurrency' = Concurrency
      /\ \A i : NeedsPayload(i)' = NeedsPayload(i)
  BY DEF Manifests, LastManifest, LastSlot, Concurrency, NeedsPayload
<1>2. Entries' = Entries
  BY <1>1 DEF Entries
<1>3. EventsShareTags' = EventsShareTags /\ EventsShareArrays' = EventsShareArrays
  BY DEF EventsShareTags, EventsShareArrays, OneSliceOfManifests, Batch
<1>4. ManifestsShareArrays' = ManifestsShareArrays
  BY <1>1 DEF ManifestsShareArrays, Batch
<1>5. TagsApart' = TagsApart
  BY <1>1, <1>3 DEF TagsApart
<1>6. ArraysKept' = ArraysKept
  BY <1>3, <1>4 DEF ArraysKept, Fits, Room
<1>7. ArraysApart' = ArraysApart
  BY <1>1, <1>4, <1>6 DEF ArraysApart
<1>8. /\ \A n : TagsEvent(n)' = TagsEvent(n)
      /\ \A n : ArrayEvent(n)' = ArrayEvent(n)
      /\ \A i : ArrayManifest(i)' = ArrayManifest(i)
  BY <1>3, <1>4 DEF TagsEvent, ArrayEvent, ArrayManifest
<1> QED
  BY <1>1, <1>2, <1>3, <1>5, <1>6, <1>7, <1>8

-----------------------------------------------------------------------------
(* The identifiers of a stream *)

\* Induction, for sets of numbers.
LEMMA Induction ==
  ASSUME NEW S, 0 \in S, \A k \in Nat : k \in S => k + 1 \in S
  PROVE  Nat \subseteq S
<1> DEFINE T == Nat \ S
<1>1. SUFFICES ASSUME T # {} PROVE FALSE
  OBVIOUS
<1>2. T \subseteq Nat
  OBVIOUS
<1> HIDE DEF T
<1>3. PICK x \in T : \A y \in T : <<y, x>> \notin OpToRel(<, Nat)
  BY <1>1, <1>2, NatLessThanWellFounded, WFMin
<1>4. x \in Nat /\ x # 0
  BY <1>2 DEF T
<1>5. x - 1 \in Nat /\ x - 1 < x /\ x = (x - 1) + 1
  BY <1>4
<1>6. <<x - 1, x>> \in OpToRel(<, Nat)
  BY <1>4, <1>5 DEF OpToRel
<1>7. x - 1 \in S
  BY <1>3, <1>5, <1>6 DEF T
<1> QED
  BY <1>3, <1>5, <1>7 DEF T

\* The recursive definition of Kept defines a function: it is extended number by number.
LEMMA KeptDef ==
  ASSUME NEW c, Len(c.tokens) \in Nat
  PROVE  Kept(c) = [n \in 0 .. Len(c.tokens) |->
                      IF n = 0 THEN <<>>
                      ELSE IF c.tokens[n] = Empty THEN Kept(c)[n - 1]
                      ELSE Append(Kept(c)[n - 1], c.tokens[n])]
<1> DEFINE Upto(m, f) == f = [n \in 0 .. m |->
                                IF n = 0 THEN <<>>
                                ELSE IF c.tokens[n] = Empty THEN f[n - 1]
                                ELSE Append(f[n - 1], c.tokens[n])]
           S == {m \in Nat : \E f : Upto(m, f)}
<1>1. 0 \in S
  <2> DEFINE f == [n \in 0 .. 0 |-> <<>>]
  <2>1. Upto(0, f)
    OBVIOUS
  <2> QED
    BY <2>1
<1>2. ASSUME NEW m \in Nat, m \in S PROVE m + 1 \in S
  <2>1. PICK f : Upto(m, f)
    BY <1>2
  <2> DEFINE new == IF c.tokens[m + 1] = Empty THEN f[m] ELSE Append(f[m], c.tokens[m + 1])
             g == [n \in 0 .. (m + 1) |-> IF n = m + 1 THEN new ELSE f[n]]
  <2>2. ASSUME NEW n \in 0 .. (m + 1)
        PROVE  g[n] = IF n = 0 THEN <<>>
                      ELSE IF c.tokens[n] = Empty THEN g[n - 1]
                      ELSE Append(g[n - 1], c.tokens[n])
    <3>1. CASE n = m + 1
      <4>1. g[n] = new /\ g[n - 1] = f[m]
        BY <3>1
      <4> QED
        BY <3>1, <4>1
    <3>2. CASE n # m + 1 /\ n # 0
      <4>1. n \in 0 .. m /\ n - 1 \in 0 .. m /\ n - 1 \in 0 .. (m + 1) /\ n - 1 # m + 1
        BY <3>2
      <4>2. g[n] = f[n] /\ g[n - 1] = f[n - 1]
        BY <4>1, <3>2
      <4>3. f[n] = IF c.tokens[n] = Empty THEN f[n - 1] ELSE Append(f[n - 1], c.tokens[n])
        BY <2>1, <4>1, <3>2
      <4> QED
        BY <4>2, <4>3, <3>2
    <3>3. CASE n = 0
      <4>1. f[0] = <<>>
        BY <2>1
      <4>2. n # m + 1 /\ g[n] = f[n]
        BY <3>3
      <4> QED
        BY <3>3, <4>1, <4>2
    <3> QED
      BY <3>1, <3>2, <3>3
  <2>3. Upto(m + 1, g)
    <3> HIDE DEF g
    <3>1. g = [n \in 0 .. (m + 1) |-> g[n]]
      BY DEF g
    <3> QED
      BY <2>2, <3>1
  <2> HIDE DEF g, Upto
  <2>4. \E h : Upto(m + 1, h)
    BY <2>3
  <2> QED
    BY <2>4
<1> HIDE DEF S
<1>3. Len(c.tokens) \in S
  BY <1>1, <1>2, Induction
<1> QED
  BY <1>3 DEF S, Kept

\* What is kept grows with what is read: a token that is not empty comes last, and what
\* was kept before stays ahead of it.
LEMMA KeptGrows ==
  ASSUME NEW c \in Computes
  PROVE  \A n \in 0 .. Len(c.tokens) :
            /\ Kept(c)[n] \in Seq({c.tokens[i] : i \in DOMAIN c.tokens})
            /\ \A m \in 0 .. n :
                  /\ Len(Kept(c)[m]) \in 0 .. Len(Kept(c)[n])
                  /\ \A i \in 1 .. Len(Kept(c)[m]) : Kept(c)[n][i] = Kept(c)[m][i]
            /\ Len(Kept(c)[n]) <= n
            /\ n > 0 /\ c.tokens[n] = Empty => Kept(c)[n] = Kept(c)[n - 1]
            /\ n > 0 /\ c.tokens[n] # Empty =>
                  /\ Len(Kept(c)[n]) = Len(Kept(c)[n - 1]) + 1
                  /\ Kept(c)[n][Len(Kept(c)[n - 1]) + 1] = c.tokens[n]
<1> DEFINE T == {c.tokens[i] : i \in DOMAIN c.tokens}
           k == Kept(c)
           Grows(n) ==
              /\ k[n] \in Seq(T)
              /\ \A m \in 0 .. n : /\ Len(k[m]) \in 0 .. Len(k[n])
                                   /\ \A i \in 1 .. Len(k[m]) : k[n][i] = k[m][i]
              /\ Len(k[n]) <= n
              /\ n > 0 /\ c.tokens[n] = Empty => k[n] = k[n - 1]
              /\ n > 0 /\ c.tokens[n] # Empty =>
                    /\ Len(k[n]) = Len(k[n - 1]) + 1
                    /\ k[n][Len(k[n - 1]) + 1] = c.tokens[n]
           S == {n \in Nat : n <= Len(c.tokens) => Grows(n)}
<1>1. c.tokens \in Seq(T)
  BY GeneratorAssumption
<1>2. /\ Len(c.tokens) \in Nat
      /\ \A i \in 1 .. Len(c.tokens) : c.tokens[i] \in T
  BY <1>1
<1>3. k = [n \in 0 .. Len(c.tokens) |->
             IF n = 0 THEN <<>>
             ELSE IF c.tokens[n] = Empty THEN k[n - 1]
             ELSE Append(k[n - 1], c.tokens[n])]
  BY <1>2, KeptDef
<1> HIDE DEF k, T
<1>4. 0 \in S
  <2>1. k[0] = <<>>
    BY <1>2, <1>3
  <2>2. k[0] \in Seq(T) /\ Len(k[0]) = 0
    <3>1. <<>> \in Seq(T) /\ Len(<<>>) = 0
      OBVIOUS
    <3> QED
      BY <2>1, <3>1
  <2>3. \A m \in 0 .. 0 : m = 0
    OBVIOUS
  <2>4. Grows(0)
    BY <2>2, <2>3
  <2> HIDE DEF Grows
  <2> QED
    BY <2>4
<1>5. ASSUME NEW n \in Nat, n \in S PROVE n + 1 \in S
  <2> SUFFICES ASSUME n + 1 <= Len(c.tokens) PROVE Grows(n + 1)
    OBVIOUS
  <2>1. Grows(n)
    BY <1>2, <1>5
  <2>2. /\ n + 1 \in 1 .. Len(c.tokens) /\ (n + 1) - 1 = n
        /\ k[n] \in Seq(T) /\ Len(k[n]) \in Nat /\ Len(k[n]) <= n
        /\ \A m \in 0 .. n : /\ Len(k[m]) \in 0 .. Len(k[n])
                             /\ \A i \in 1 .. Len(k[m]) : k[n][i] = k[m][i]
    BY <1>2, <2>1
  <2>3. \A m \in 0 .. n : Len(k[m]) \in Nat
    BY <2>2
  <2> HIDE DEF Grows
  <2>4. k[n + 1] = IF c.tokens[n + 1] = Empty THEN k[n] ELSE Append(k[n], c.tokens[n + 1])
    <3>1. n + 1 \in 0 .. Len(c.tokens) /\ n + 1 # 0 /\ (n + 1) - 1 = n
      BY <1>2
    <3> QED
      BY <1>3, <3>1
  <2>5. CASE c.tokens[n + 1] = Empty
    <3>1. k[n + 1] = k[n]
      BY <2>4, <2>5
    <3>2. \A m \in 0 .. (n + 1) : m \in 0 .. n \/ m = n + 1
      OBVIOUS
    <3> QED
      BY <2>2, <2>5, <3>1, <3>2 DEF Grows
  <2>6. CASE c.tokens[n + 1] # Empty
    <3>1. /\ k[n + 1] \in Seq(T) /\ Len(k[n + 1]) = Len(k[n]) + 1
          /\ \A i \in 1 .. Len(k[n]) : k[n + 1][i] = k[n][i]
          /\ k[n + 1][Len(k[n]) + 1] = c.tokens[n + 1]
      <4>1. k[n + 1] = Append(k[n], c.tokens[n + 1]) /\ c.tokens[n + 1] \in T
        BY <1>2, <2>2, <2>4, <2>6
      <4> QED
        BY <2>2, <4>1, AppendProperties
    <3>2. ASSUME NEW m \in 0 .. (n + 1)
          PROVE  /\ Len(k[m]) \in 0 .. Len(k[n + 1])
                 /\ \A i \in 1 .. Len(k[m]) : k[n + 1][i] = k[m][i]
      <4>1. CASE m = n + 1
        BY <2>2, <3>1, <4>1
      <4>2. CASE m \in 0 .. n
        BY <2>2, <2>3, <3>1, <4>2
      <4> QED
        BY <4>1, <4>2
    <3> QED
      BY <2>2, <2>6, <3>1, <3>2 DEF Grows
  <2> QED
    BY <2>5, <2>6
<1> HIDE DEF S
<1>6. Nat \subseteq S
  BY <1>4, <1>5, Induction
<1>7. ASSUME NEW n \in 0 .. Len(c.tokens) PROVE Grows(n)
  <2> HIDE DEF Grows
  <2>1. n \in Nat /\ n <= Len(c.tokens)
    BY <1>2
  <2> QED
    BY <1>6, <2>1 DEF S
<1> QED
  BY <1>7 DEF k, T

-----------------------------------------------------------------------------
(* The generator *)

Generator == [pos : Int, loop : Nat, token : Token, more : BOOLEAN]

\* Scanning reads one token, or leaves none.
LEMMA ScanFacts ==
  ASSUME NEW c \in Computes, NEW g \in Generator, g.pos \in 0 .. Len(c.tokens)
  PROVE  /\ ScanNext(c, g) \in Generator
         /\ ScanNext(c, g).loop = g.loop
         /\ ScanNext(c, g).pos \in 0 .. Len(c.tokens)
         /\ \/ ScanNext(c, g).token = Empty /\ ScanNext(c, g).pos = g.pos
            \/ ScanNext(c, g).more /\ ScanNext(c, g).pos = g.pos + 1
<1>1. c.tokens \in Seq({c.tokens[i] : i \in DOMAIN c.tokens})
  BY GeneratorAssumption
<1>2. Len(c.tokens) \in Nat /\ DOMAIN c.tokens = 1 .. Len(c.tokens)
  BY <1>1
<1>3. Empty \in Token /\ \A i \in 1 .. Len(c.tokens) : c.tokens[i] \in Token
  <2>1. \A i \in 1 .. Len(c.tokens) : c.tokens[i] \in Range(c.tokens)
    BY <1>2 DEF Range
  <2> QED
    BY <2>1 DEF Token
<1>4. CASE g.pos < Len(c.tokens)
  <2>1. g.pos + 1 \in 1 .. Len(c.tokens)
    BY <1>2, <1>4
  <2>2. ScanNext(c, g) = [g EXCEPT !.pos = @ + 1, !.token = c.tokens[g.pos + 1], !.more = TRUE]
    BY <1>4 DEF ScanNext
  <2>3. ScanNext(c, g) = [pos |-> g.pos + 1, loop |-> g.loop, token |-> c.tokens[g.pos + 1],
                          more |-> TRUE]
    BY <2>2 DEF Generator
  <2>4. g.pos + 1 \in Int /\ g.loop \in Nat /\ c.tokens[g.pos + 1] \in Token
    BY <1>3, <2>1 DEF Generator
  <2> QED
    BY <2>1, <2>3, <2>4, <1>2 DEF Generator
<1>5. CASE ~(g.pos < Len(c.tokens))
  <2>1. ScanNext(c, g) = [g EXCEPT !.token = Empty, !.more = FALSE]
    BY <1>5 DEF ScanNext
  <2> QED
    BY <1>3, <2>1 DEF Generator
<1> QED
  BY <1>4, <1>5

\* Scanning leaves at most the token just read to be returned, and says that there is
\* no more at the end only.
LEMMA ScanKept ==
  ASSUME NEW c \in Computes, NEW g \in Generator, g.pos \in 0 .. Len(c.tokens),
         NEW h, h = ScanNext(c, g)
  PROVE  /\ h.token # Empty => h.pos \in 1 .. Len(c.tokens) /\ h.token = c.tokens[h.pos]
         /\ Past(h) \in 0 .. Len(c.tokens)
         /\ Len(Kept(c)[Past(h)]) = Len(Kept(c)[g.pos])
         /\ ~h.more => g.pos = Len(c.tokens)
<1>1. Len(c.tokens) \in Nat
  <2>1. c.tokens \in Seq({c.tokens[i] : i \in DOMAIN c.tokens})
    BY GeneratorAssumption
  <2> QED
    BY <2>1
<1>2. CASE g.pos < Len(c.tokens)
  <2>1. h = [pos |-> g.pos + 1, loop |-> g.loop, token |-> c.tokens[g.pos + 1], more |-> TRUE]
    BY <1>2 DEF ScanNext, Generator
  <2>2. g.pos + 1 \in 1 .. Len(c.tokens) /\ (g.pos + 1) - 1 = g.pos
    BY <1>1, <1>2
  <2>3. CASE c.tokens[g.pos + 1] = Empty
    <3>1. Past(h) = g.pos + 1 /\ h.token = Empty /\ h.more
      BY <2>1, <2>3 DEF Past
    <3>2. Kept(c)[g.pos + 1] = Kept(c)[g.pos]
      <4>1. PICK n \in 0 .. Len(c.tokens) : n = g.pos + 1 /\ n > 0 /\ n - 1 = g.pos
        BY <1>1, <2>2
      <4>2. Kept(c)[n] = Kept(c)[n - 1]
        BY <2>3, <4>1, KeptGrows
      <4> QED
        BY <4>1, <4>2
    <3> QED
      BY <2>2, <3>1, <3>2
  <2>4. CASE c.tokens[g.pos + 1] # Empty
    <3>1. Past(h) = g.pos /\ h.pos = g.pos + 1 /\ h.token = c.tokens[g.pos + 1] /\ h.more
      BY <2>1, <2>2, <2>4 DEF Past
    <3> QED
      BY <2>2, <3>1
  <2> QED
    BY <2>3, <2>4
<1>3. CASE ~(g.pos < Len(c.tokens))
  <2>1. h = [pos |-> g.pos, loop |-> g.loop, token |-> Empty, more |-> FALSE]
    BY <1>3 DEF ScanNext, Generator
  <2>2. Past(h) = g.pos /\ h.token = Empty /\ g.pos = Len(c.tokens)
    BY <1>1, <1>3, <2>1 DEF Past
  <2> QED
    BY <2>2
<1> QED
  BY <1>2, <1>3

LEMMA InitGenerator ==
  ASSUME NEW c \in Computes
  PROVE  /\ InitialGenerator(c) \in Generator
         /\ InitialGenerator(c).loop = 0
         /\ c.kind = "array" => InitialGenerator(c).pos = c.first
         /\ c.kind \in {"list", "batch"} => InitialGenerator(c).pos = 0
         /\ c.kind = "streaming" =>
               /\ InitialGenerator(c).pos \in 0 .. Len(c.tokens)
               /\ InitialGenerator(c).token # Empty =>
                     InitialGenerator(c).more /\ InitialGenerator(c).pos = 1
<1> DEFINE g == [pos |-> IF c.kind = "array" THEN c.first ELSE 0,
                 loop |-> 0, token |-> Empty, more |-> TRUE]
<1>1. c.first \in Int /\ Empty \in Token
  BY GeneratorAssumption DEF Token
<1>2. g \in Generator
  BY <1>1 DEF Generator
<1>3. /\ g.loop = 0 /\ g.pos = (IF c.kind = "array" THEN c.first ELSE 0)
  OBVIOUS
<1>4. InitialGenerator(c) = IF c.kind = "streaming" THEN ScanNext(c, g) ELSE g
  BY DEF InitialGenerator
<1>5. c.tokens \in Seq({c.tokens[i] : i \in DOMAIN c.tokens})
  BY GeneratorAssumption
<1>6. Len(c.tokens) \in Nat
  BY <1>5
<1> HIDE DEF g
<1>7. CASE c.kind = "streaming"
  BY <1>2, <1>3, <1>4, <1>6, <1>7, ScanFacts
<1>8. CASE c.kind # "streaming"
  BY <1>2, <1>3, <1>4, <1>8
<1> QED
  BY <1>7, <1>8

LEMMA InitRun == Init => RunInv
<1> SUFFICES ASSUME Init PROVE RunInv
  OBVIOUS
<1>1. /\ compute \in Computes /\ gen = InitialGenerator(compute)
      /\ loop = (IF Concurrency < 1 THEN "refused" ELSE "next")
      /\ fetched = <<>> /\ dispatched = <<>> /\ semaphore = 0 /\ waited = 0
      /\ written = {} /\ submitted = {} /\ saved = {} /\ crashed = FALSE
  BY DEF Init
<1>2. /\ pc = [n \in Event |-> "idle"] /\ man = [n \in Event |-> 1]
      /\ slot = [n \in Event |-> 0]
      /\ tags = [o \in Event |-> [i \in Manifest |-> Nobody]]
      /\ array = [o \in Event |-> [i \in Manifest |-> [k \in Slot |-> Unwritten]]]
      /\ env = [n \in Event |-> [i \in Manifest |-> <<>>]]
      /\ tagged = [n \in Event |-> [i \in Manifest |-> Nobody]]
  BY DEF Init
<1>3. 1 \in Manifest /\ 1 \in Manifests
  <2>1. compute.payloads \in Seq(BOOLEAN) \ {<<>>}
    BY <1>1, ManifestAssumption
  <2> QED
    BY <1>1, <2>1 DEF Manifest, Manifests
<1>4. TypeOK
  <2>1. gen \in [pos : Int, loop : Nat, token : Token, more : BOOLEAN]
    BY <1>1, InitGenerator DEF Generator
  <2>2. pc \in [Event -> PC] /\ man \in [Event -> Manifest] /\ slot \in [Event -> {0} \cup Slot]
    BY <1>2, <1>3 DEF PC
  <2>3. /\ tags \in [Event -> [Manifest -> Writers]]
        /\ tagged \in [Event -> [Manifest -> Writers]]
        /\ array \in [Event -> [Manifest -> [Slot -> Entry]]]
        /\ env \in [Event -> [Manifest -> [Slot -> Entry] \cup {<<>>}]]
    <3>1. Nobody \in Writers /\ Unwritten \in Entry
      BY DEF Writers, Entry
    <3>2. [i \in Manifest |-> Nobody] \in [Manifest -> Writers]
      BY <3>1
    <3>3. [k \in Slot |-> Unwritten] \in [Slot -> Entry]
      BY <3>1
    <3>4. [i \in Manifest |-> [k \in Slot |-> Unwritten]] \in [Manifest -> [Slot -> Entry]]
      BY <3>3
    <3>5. [i \in Manifest |-> <<>>] \in [Manifest -> [Slot -> Entry] \cup {<<>>}]
      OBVIOUS
    <3> QED
      BY <1>2, <3>2, <3>4, <3>5
  <2>4. semaphore \in 0 .. Concurrency /\ waited \in 0 .. semaphore
    <3>1. Concurrency \in Nat
      BY <1>1, ManifestAssumption DEF Concurrency
    <3> QED
      BY <1>1, <3>1
  <2>5. dispatched \in Seq(Occurrence)
    BY <1>1
  <2> QED
    BY <1>1, <2>1, <2>2, <2>3, <2>4, <2>5 DEF TypeOK
<1>5. EventsBounded
  <2>1. Returns = 0
    BY <1>1 DEF Returns
  <2>2. /\ PerIdentifier(compute) \in Nat \ {0}
        /\ compute.first \in Int /\ compute.first <= LastValue(compute)
    BY <1>4, ComputeFacts
  <2>4. (compute.first - compute.first) * PerIdentifier(compute) + 0 = 0
        /\ (1 - 1) * PerIdentifier(compute) + 0 = 0
    BY <2>2
  <2>5. \A p \in Nat : p * PerIdentifier(compute) + 0 >= 0
    BY <2>2
  <2>6. /\ gen.loop = 0
        /\ compute.kind = "array" => gen.pos = compute.first
        /\ compute.kind \in {"list", "batch"} => gen.pos = 0
        /\ compute.kind = "streaming" =>
              /\ gen.pos \in 0 .. Len(compute.tokens)
              /\ gen.token # Empty => gen.more /\ gen.pos = 1
    BY <1>1, InitGenerator
  <2>7. Len(compute.tokens) \in Nat
    BY <1>4, ComputeFacts
  <2>8. compute.kind = "streaming" =>
          0 <= (IF gen.token # Empty THEN gen.pos - 1 ELSE gen.pos) * PerIdentifier(compute)
                  + gen.loop
    <3> SUFFICES ASSUME compute.kind = "streaming"
                 PROVE  0 <= (IF gen.token # Empty THEN gen.pos - 1 ELSE gen.pos)
                                 * PerIdentifier(compute) + gen.loop
      OBVIOUS
    <3>1. (IF gen.token # Empty THEN gen.pos - 1 ELSE gen.pos) \in Nat
      BY <2>6, <2>7
    <3> QED
      BY <3>1, <2>5, <2>6
  <2>9. loop \in {"refused", "next"}
    BY <1>1
  <2>10. compute.kind = "array" => Returns = (gen.pos - compute.first) * PerIdentifier(compute)
                                               + gen.loop
    BY <2>1, <2>4, <2>6
  <2>11. gen.loop < PerIdentifier(compute)
    BY <2>2, <2>6
  <2>12. compute.kind = "streaming" =>
           /\ gen.token # Empty => gen.more /\ gen.pos > 0
           /\ gen.pos \in 0 .. Len(compute.tokens)
    BY <2>6
  <2> QED
    BY <2>1, <2>2, <2>6, <2>8, <2>9, <2>10, <2>11, <2>12 DEF EventsBounded
<1>6. TokensCounted
  <2>1. Busy = {}
    BY <1>2 DEF Busy
  <2> QED
    BY <1>1, <1>4, <2>1, FS_EmptySet, ComputeFacts DEF TokensCounted
<1>7. ASSUME NEW n \in Event PROVE GoroutineInv(n)
  <2>1. pc[n] = "idle" /\ man[n] = 1 /\ slot[n] = 0 /\ \A i \in Manifest : env[n][i] = <<>>
    BY <1>2
  <2>2. \A i : ~Built(n, i)
    BY <1>1, <2>1 DEF Built, Building
  <2>3. StartsClean(n) /\ JobsInOrder(n)
    BY <1>1, <1>3, <2>1 DEF StartsClean, JobsInOrder
  <2>4. PayloadsNamed(n)
    BY <2>1, <2>2 DEF PayloadsNamed
  <2>5. EntriesOwned(n)
    BY <1>1, <2>1 DEF EntriesOwned, AtWork, Building
  <2> QED
    BY <2>3, <2>4, <2>5 DEF GoroutineInv
<1> QED
  BY <1>4, <1>5, <1>6, <1>7 DEF RunInv

-----------------------------------------------------------------------------
(* The goroutines *)

\* A step of goroutine n leaves the jobs of the others as they are, unless they
\* share what it writes.
LEMMA OtherGoroutine ==
  ASSUME TypeOK, NEW m \in Event, GoroutineInv(m),
         UNCHANGED <<compute, dispatched>>,
         pc'[m] = pc[m], man'[m] = man[m], slot'[m] = slot[m],
         env'[m] = env[m], tagged'[m] = tagged[m],
         m \in submitted' => m \in submitted, m \in submitted => m \in submitted',
         written \subseteq written',
         TagsApart /\ m \in Busy => tags'[TagsEvent(m)] = tags[TagsEvent(m)],
         ArraysKept => array'[ArrayEvent(m)] = array[ArrayEvent(m)],
         ArraysApart /\ m \in Busy => array'[ArrayEvent(m)] = array[ArrayEvent(m)]
  PROVE  GoroutineInv(m)'
<1>1. StartsClean(m)'
  BY DEF GoroutineInv, StartsClean
<1>2. JobsInOrder(m)'
  BY SameCompute DEF GoroutineInv, JobsInOrder
<1>3. \A i : Built(m, i)' = Built(m, i) /\ AtWork(m, i)' = AtWork(m, i)
  BY DEF Built, AtWork
<1>4. PayloadsNamed(m)'
  <2>1. pc[m] \in {"env", "clone"} => m \in Busy
    BY DEF Busy
  <2> QED
    BY <1>3, <2>1, SameCompute DEF GoroutineInv, PayloadsNamed
<1>5. ArraysKept \/ (ArraysApart /\ m \in Busy)
        => \A i : Environment(m, i)' = Environment(m, i)
  BY SameCompute DEF Environment
<1>6. EntriesOwned(m)'
  <2>1. EntriesOwned(m)
    BY DEF GoroutineInv
  <2>2. \A i : AtWork(m, i) \/ pc[m] \in Building => m \in Busy
    BY DEF Busy, AtWork, Building
  <2>3. /\ Manifests' = Manifests /\ Entries' = Entries
        /\ ArraysKept' = ArraysKept /\ ArraysApart' = ArraysApart
    BY SameCompute
  <2> SUFFICES ASSUME NEW i \in Manifests
               PROVE  /\ (ArraysKept /\ m \in submitted') \/ (ArraysApart /\ AtWork(m, i)')
                            => \A k \in Entries : Environment(m, i)'[k] = <<m, i>>
                      /\ ArraysApart /\ pc'[m] \in Building /\ man'[m] = i =>
                            \A k \in Entries \cap (1 .. slot'[m]) :
                                Environment(m, i)'[k] = <<m, i>>
                      /\ pc'[m] \in Building /\ (i > man'[m] \/ (i = man'[m] /\ slot'[m] = 0))
                            => env'[m][i] = <<>>
    BY <2>3, Zenon DEF EntriesOwned
  <2>4. /\ (ArraysKept /\ m \in submitted) \/ (ArraysApart /\ AtWork(m, i))
              => \A k \in Entries : Environment(m, i)[k] = <<m, i>>
        /\ ArraysApart /\ pc[m] \in Building /\ man[m] = i =>
              \A k \in Entries \cap (1 .. slot[m]) : Environment(m, i)[k] = <<m, i>>
        /\ pc[m] \in Building /\ (i > man[m] \/ (i = man[m] /\ slot[m] = 0))
              => env[m][i] = <<>>
    BY <2>1 DEF EntriesOwned
  <2> QED
    BY <1>3, <1>5, <2>2, <2>4
<1> QED
  BY <1>1, <1>2, <1>4, <1>6 DEF GoroutineInv

\* A goroutine that has not ended has been given an event, so finitely many have not.
LEMMA BusyFinite ==
  ASSUME TypeOK, \A n \in Event : GoroutineInv(n)
  PROVE  /\ IsFiniteSet(Busy) /\ Cardinality(Busy) \in Nat
         /\ \A n \in Event : pc[n] # "idle" => n \in 1 .. Len(dispatched)
<1>1. Len(dispatched) \in Nat
  BY DEF TypeOK
<1>2. \A n \in Event : n \in Nat \ {0}
  BY DEF Event
<1>3. \A n \in Event : pc[n] # "idle" => n \in 1 .. Len(dispatched)
  BY <1>1, <1>2 DEF GoroutineInv, StartsClean
<1>4. IsFiniteSet(1 .. Len(dispatched))
  BY <1>1, FS_Interval
<1>5. Busy \subseteq 1 .. Len(dispatched)
  BY <1>3 DEF Busy
<1>6. IsFiniteSet(Busy)
  BY <1>4, <1>5, FS_Subset
<1> QED
  BY <1>3, <1>6, FS_CardinalityType

\* With one token there is one goroutine at work.
LEMMA OneAtWork ==
  ASSUME RunInv, NEW n \in Busy, NEW m \in Busy, n # m
  PROVE  Concurrency # 1
<1>1. TypeOK /\ TokensCounted /\ \A o \in Event : GoroutineInv(o)
  BY DEF RunInv
<1>2. IsFiniteSet(Busy) /\ Cardinality(Busy) \in Nat
  BY <1>1, BusyFinite
<1>3. IsFiniteSet(Busy \ {n}) /\ Cardinality(Busy \ {n}) = Cardinality(Busy) - 1
  BY <1>2, FS_RemoveElement
<1>4. Cardinality(Busy \ {n}) # 0
  BY <1>3, FS_EmptySet
<1>5. Cardinality(Busy) \notin {0, 1}
  BY <1>2, <1>3, <1>4, FS_EmptySet
<1>6. /\ semaphore = Cardinality(Busy) + waited /\ semaphore \in 0 .. Concurrency
      /\ waited \in 0 .. semaphore
  BY <1>1 DEF TokensCounted, TypeOK
<1> QED
  BY <1>1, <1>2, <1>5, <1>6, ComputeFacts

\* The event that owns a Tags map or an array is one of the events.
LEMMA OwnerFacts ==
  ASSUME TypeOK, NEW n \in Event
  PROVE  /\ TagsEvent(n) \in Event /\ ArrayEvent(n) \in Event
         /\ ~EventsShareTags => TagsEvent(n) = n
         /\ ~EventsShareArrays => ArrayEvent(n) = n
<1>1. 1 \in Event
  <2>1. PICK c \in Computes : n \in 1 .. MostEvents(c)
    BY DEF Event
  <2>2. CASE MostEvents(c) \in Int
    BY <2>1, <2>2 DEF Event
  <2>3. MostEvents(c) \in Int
    <3>1. /\ c.first \in Int /\ LastValue(c) \in Int /\ c.loops \in Nat
          /\ c.tokens \in Seq({c.tokens[i] : i \in DOMAIN c.tokens})
      BY GeneratorAssumption DEF LastValue
    <3>2. PerIdentifier(c) \in Int /\ Len(c.tokens) \in Int /\ LastValue(c) - c.first + 1 \in Int
      BY <3>1 DEF PerIdentifier
    <3>3. \A a, b \in Int : a * b \in Int
      OBVIOUS
    <3> QED
      BY <3>2, <3>3 DEF MostEvents
  <2> QED
    BY <2>2, <2>3
<1> QED
  BY <1>1 DEF TagsEvent, ArrayEvent

\* The first manifest is one of the manifests, and the array of a manifest is one.
LEMMA ArrayManifestFacts ==
  ASSUME TypeOK, NEW i \in Manifest
  PROVE  /\ ArrayManifest(i) \in Manifest
         /\ ~ManifestsShareArrays => ArrayManifest(i) = i
<1>1. 1 \in Manifest
  BY ComputeFacts
<1> QED
  BY <1>1 DEF ArrayManifest

\* The invariant holds after a step of goroutine n that leaves the others' state
\* alone, when its own part of it does.
LEMMA GoroutineStep ==
  ASSUME RunInv, NEW n \in Event, TypeOK', TokensCounted', GoroutineInv(n)',
         UNCHANGED loopVars, pc[n] \notin {"idle", "done"},
         \A m \in Event \ {n} :
            /\ pc'[m] = pc[m] /\ man'[m] = man[m] /\ slot'[m] = slot[m]
            /\ env'[m] = env[m] /\ tagged'[m] = tagged[m]
            /\ m \in submitted' => m \in submitted
            /\ m \in submitted => m \in submitted'
            /\ ~EventsShareTags => tags'[m] = tags[m]
            /\ ArraysKept => array'[ArrayEvent(m)] = array[ArrayEvent(m)],
         written \subseteq written'
  PROVE  RunInv'
<1>1. ASSUME NEW m \in Event PROVE GoroutineInv(m)'
  <2>1. CASE m = n
    BY <2>1
  <2>2. CASE m # n
    <3>1. GoroutineInv(m) /\ TypeOK /\ UNCHANGED <<compute, dispatched>>
      BY DEF RunInv, loopVars
    <3>2. m \in Busy => Concurrency # 1
      BY <2>2, OneAtWork DEF Busy
    <3>3. TagsApart /\ m \in Busy => tags'[TagsEvent(m)] = tags[TagsEvent(m)]
      BY <2>2, <3>1, <3>2, OwnerFacts DEF TagsApart
    <3>4. ArraysKept => array'[ArrayEvent(m)] = array[ArrayEvent(m)]
      BY <2>2
    <3>5. ArraysApart /\ m \in Busy => ArraysKept
      BY <3>2 DEF ArraysApart
    <3> QED
      BY <2>2, <3>1, <3>3, <3>4, <3>5, OtherGoroutine
  <2> QED
    BY <2>1, <2>2
<1>2. EventsBounded'
  BY DEF RunInv, EventsBounded, Returns, loopVars, MostEvents, LastValue, PerIdentifier
<1> QED
  BY <1>1, <1>2 DEF RunInv

\* A goroutine that goes on keeps its token.
LEMMA KeepsToken ==
  ASSUME TypeOK, TokensCounted, UNCHANGED <<compute, loop, semVars>>,
         \A m \in Event : pc'[m] \in {"idle", "done"} <=> pc[m] \in {"idle", "done"}
  PROVE  TokensCounted'
<1>1. Busy' = Busy
  BY DEF Busy
<1> QED
  BY <1>1 DEF TokensCounted, Concurrency, semVars

LEMMA ProcessStep ==
  ASSUME RunInv, NEW n \in Event, Process(n)
  PROVE  RunInv'
<1>1. /\ pc[n] = "process" /\ pc' = [pc EXCEPT ![n] = "manifest"]
      /\ UNCHANGED <<loopVars, semVars, jobVars, outVars, crashed>>
  BY DEF Process, Go
<1>2. TypeOK /\ TokensCounted /\ GoroutineInv(n)
  BY DEF RunInv
<1>3. /\ pc' \in [Event -> PC] /\ pc'[n] = "manifest"
      /\ \A m \in Event \ {n} : pc'[m] = pc[m]
  BY <1>1, <1>2 DEF TypeOK, PC
<1>4. TypeOK'
  BY <1>1, <1>2, <1>3 DEF TypeOK, loopVars, semVars, jobVars, outVars, Writers, Entry, Concurrency
<1>5. TokensCounted'
  BY <1>1, <1>2, <1>3, KeepsToken DEF loopVars
<1>6. n \notin submitted /\ man[n] = 1 /\ slot[n] = 0 /\ \A i \in Manifest : env[n][i] = <<>>
  BY <1>1, <1>2 DEF GoroutineInv, StartsClean, JobsInOrder
<1>7. /\ Manifests' = Manifests /\ Manifests \subseteq Manifest
      /\ \A i \in Manifests : i \in Nat \ {0}
  BY <1>1, <1>2, ComputeFacts, SameCompute DEF loopVars
<1>8. \A i \in Manifests : ~Built(n, i)'
  BY <1>1, <1>3, <1>6, <1>7 DEF Built, Building, outVars, jobVars
<1>9. StartsClean(n)' /\ JobsInOrder(n)'
  BY <1>1, <1>2, <1>3, <1>6, <1>7 DEF GoroutineInv, StartsClean, JobsInOrder, loopVars, jobVars, outVars
<1>10. PayloadsNamed(n)'
  BY <1>3, <1>7, <1>8 DEF PayloadsNamed
<1>11. EntriesOwned(n)'
  <2>1. n \notin submitted' /\ man'[n] = 1 /\ slot'[n] = 0 /\ env' = env
    BY <1>1, <1>6 DEF jobVars, outVars
  <2>2. \A i \in Manifests : ~AtWork(n, i)'
    BY <1>3, <1>7, <2>1 DEF AtWork
  <2>3. 1 .. slot'[n] = {} /\ \A i \in Manifests : env'[n][i] = <<>>
    BY <1>6, <1>7, <2>1
  <2> QED
    BY <1>7, <2>1, <2>2, <2>3 DEF EntriesOwned
<1> QED
  BY <1>1, <1>3, <1>4, <1>5, <1>9, <1>10, <1>11, GoroutineStep DEF GoroutineInv, jobVars, outVars

\* What has been appended stays the event's own while the job is not yet made and
\* nothing is appended.
LEMMA EntriesStay ==
  ASSUME TypeOK, NEW n \in Event, EntriesOwned(n), compute' = compute,
         pc[n] \in Building, pc'[n] \in Building,
         UNCHANGED <<man, slot, env, array, submitted>>
  PROVE  /\ \A i : Built(n, i)' = Built(n, i)
         /\ EntriesOwned(n)'
<1>1. \A i : Built(n, i)' = Built(n, i) /\ AtWork(n, i)' = AtWork(n, i)
  BY DEF Built, AtWork, Building
<1>2. \A i : Environment(n, i)' = Environment(n, i)
  BY SameCompute DEF Environment
<1>3. /\ Manifests' = Manifests /\ Entries' = Entries
      /\ ArraysKept' = ArraysKept /\ ArraysApart' = ArraysApart
  BY SameCompute
<1> QED
  BY <1>1, <1>2, <1>3 DEF EntriesOwned

LEMMA NoPayloadStep ==
  ASSUME RunInv, NEW n \in Event, NoPayload(n)
  PROVE  RunInv'
<1>1. /\ pc[n] = "manifest" /\ ~NeedsPayload(man[n]) /\ pc' = [pc EXCEPT ![n] = "env"]
      /\ UNCHANGED <<loopVars, semVars, jobVars, outVars, crashed>>
  BY DEF NoPayload, Go
<1>2. TypeOK /\ TokensCounted /\ GoroutineInv(n)
  BY DEF RunInv
<1>3. /\ pc' \in [Event -> PC] /\ pc'[n] = "env"
      /\ \A m \in Event \ {n} : pc'[m] = pc[m]
  BY <1>1, <1>2 DEF TypeOK, PC
<1>4. TypeOK'
  BY <1>1, <1>2, <1>3 DEF TypeOK, loopVars, semVars, jobVars, outVars, Writers, Entry, Concurrency
<1>5. TokensCounted'
  BY <1>1, <1>2, <1>3, KeepsToken DEF loopVars
<1>6. /\ Manifests' = Manifests /\ LastSlot' = LastSlot /\ LastSlot > 0
      /\ TagsApart' = TagsApart /\ \A i : NeedsPayload(i)' = NeedsPayload(i)
      /\ \A m : TagsEvent(m)' = TagsEvent(m)
  BY <1>1, <1>2, ComputeFacts, SameCompute DEF loopVars
<1>7. StartsClean(n)' /\ JobsInOrder(n)'
  BY <1>1, <1>2, <1>3, <1>6 DEF GoroutineInv, StartsClean, JobsInOrder, loopVars, jobVars, outVars
<1>8. EntriesOwned(n)' /\ \A i : Built(n, i)' = Built(n, i)
  BY <1>1, <1>2, <1>3, EntriesStay DEF GoroutineInv, Building, loopVars, jobVars, outVars
<1>9. PayloadsNamed(n)'
  BY <1>1, <1>2, <1>3, <1>6, <1>8 DEF GoroutineInv, PayloadsNamed, jobVars, outVars
<1> QED
  BY <1>1, <1>3, <1>4, <1>5, <1>7, <1>8, <1>9, GoroutineStep DEF GoroutineInv, jobVars, outVars

LEMMA WritePayloadStep ==
  ASSUME RunInv, NEW n \in Event, WritePayload(n)
  PROVE  RunInv'
<1>1. /\ pc[n] = "manifest" /\ written' = written \cup {<<n, man[n]>>}
      /\ \/ pc' = [pc EXCEPT ![n] = "writing"] /\ crashed' = crashed
         \/ pc' = pc /\ crashed' = TRUE
      /\ UNCHANGED <<loopVars, semVars, jobVars, submitted, saved>>
  BY DEF WritePayload, Go
<1>2. TypeOK /\ TokensCounted /\ GoroutineInv(n)
  BY DEF RunInv
<1>3. /\ pc' \in [Event -> PC] /\ pc'[n] \in {"manifest", "writing"}
      /\ \A m \in Event \ {n} : pc'[m] = pc[m]
  BY <1>1, <1>2 DEF TypeOK, PC
<1>4. TypeOK'
  <2>1. <<n, man[n]>> \in Event \X Manifest
    BY <1>2 DEF TypeOK
  <2>2. written' \subseteq Event \X Manifest
    BY <1>1, <1>2, <2>1 DEF TypeOK
  <2>3. crashed' \in BOOLEAN
    BY <1>1, <1>2 DEF TypeOK
  <2> QED
    BY <1>1, <1>2, <1>3, <2>2, <2>3 DEF TypeOK, loopVars, semVars, jobVars, Writers, Entry, Concurrency
<1>5. TokensCounted'
  BY <1>1, <1>2, <1>3, KeepsToken DEF loopVars
<1>6. /\ Manifests' = Manifests
      /\ TagsApart' = TagsApart /\ \A i : NeedsPayload(i)' = NeedsPayload(i)
      /\ \A m : TagsEvent(m)' = TagsEvent(m)
  BY <1>1, <1>2, SameCompute DEF loopVars
<1>7. StartsClean(n)' /\ JobsInOrder(n)'
  BY <1>1, <1>2, <1>3, <1>6 DEF GoroutineInv, StartsClean, JobsInOrder, loopVars, jobVars
<1>8. EntriesOwned(n)' /\ \A i : Built(n, i)' = Built(n, i)
  BY <1>1, <1>2, <1>3, EntriesStay DEF GoroutineInv, Building, loopVars, jobVars
<1>9. PayloadsNamed(n)'
  BY <1>1, <1>2, <1>3, <1>6, <1>8 DEF GoroutineInv, PayloadsNamed, jobVars
<1> QED
  BY <1>1, <1>3, <1>4, <1>5, <1>7, <1>8, <1>9, GoroutineStep DEF GoroutineInv, jobVars

LEMMA TagPayloadStep ==
  ASSUME RunInv, NEW n \in Event, TagPayload(n)
  PROVE  RunInv'
<1>1. /\ pc[n] = "writing" /\ tags' = [tags EXCEPT ![TagsEvent(n)][man[n]] = n]
      /\ pc' = [pc EXCEPT ![n] = "env"]
      /\ UNCHANGED <<loopVars, semVars, man, slot, array, env, tagged, outVars, crashed>>
  BY DEF TagPayload, Go
<1>2. TypeOK /\ TokensCounted /\ GoroutineInv(n)
  BY DEF RunInv
<1>3. /\ pc' \in [Event -> PC] /\ pc'[n] = "env"
      /\ \A m \in Event \ {n} : pc'[m] = pc[m]
  BY <1>1, <1>2 DEF TypeOK, PC
<1>4. TagsEvent(n) \in Event /\ man[n] \in Manifest /\ n \in Writers
      /\ (~EventsShareTags => TagsEvent(n) = n)
  BY <1>2, OwnerFacts DEF TypeOK, Writers, Entry, Concurrency
<1>5. /\ tags' \in [Event -> [Manifest -> Writers]]
      /\ tags'[TagsEvent(n)][man[n]] = n
      /\ \A i \in Manifest \ {man[n]} : tags'[TagsEvent(n)][i] = tags[TagsEvent(n)][i]
      /\ \A o \in Event \ {TagsEvent(n)} : tags'[o] = tags[o]
  <2>1. tags \in [Event -> [Manifest -> Writers]]
    BY <1>2 DEF TypeOK
  <2>2. PICK t : t = [tags[TagsEvent(n)] EXCEPT ![man[n]] = n]
    OBVIOUS
  <2>3. tags' = [tags EXCEPT ![TagsEvent(n)] = t]
    BY <1>1, <2>2
  <2>4. t \in [Manifest -> Writers] /\ t[man[n]] = n
        /\ \A i \in Manifest \ {man[n]} : t[i] = tags[TagsEvent(n)][i]
    BY <1>4, <2>1, <2>2
  <2> QED
    BY <1>4, <2>1, <2>3, <2>4
<1>6. TypeOK'
  BY <1>1, <1>2, <1>3, <1>5 DEF TypeOK, loopVars, semVars, outVars, Writers, Entry, Concurrency
<1>7. TokensCounted'
  BY <1>1, <1>2, <1>3, KeepsToken DEF loopVars
<1>8. /\ Manifests' = Manifests /\ LastSlot' = LastSlot /\ LastSlot > 0
      /\ Manifests \subseteq Manifest
      /\ TagsApart' = TagsApart /\ \A i : NeedsPayload(i)' = NeedsPayload(i)
      /\ \A m : TagsEvent(m)' = TagsEvent(m)
  BY <1>1, <1>2, ComputeFacts, SameCompute DEF loopVars
<1>9. StartsClean(n)' /\ JobsInOrder(n)'
  BY <1>1, <1>2, <1>3, <1>8 DEF GoroutineInv, StartsClean, JobsInOrder, loopVars, outVars
<1>10. EntriesOwned(n)' /\ \A i : Built(n, i)' = Built(n, i)
  BY <1>1, <1>2, <1>3, EntriesStay DEF GoroutineInv, Building, loopVars, outVars
<1>11. PayloadsNamed(n)'
  BY <1>1, <1>2, <1>3, <1>4, <1>5, <1>8, <1>10 DEF GoroutineInv, PayloadsNamed, outVars
<1> QED
  BY <1>1, <1>3, <1>4, <1>5, <1>6, <1>7, <1>9, <1>10, <1>11, GoroutineStep
  DEF GoroutineInv, outVars

\* A slice that no longer has room for an entry is copied with those before it.
LEMMA ExtendedFacts ==
  ASSUME NEW entries \in [Slot -> Entry], NEW e \in Entry, NEW k \in Slot
  PROVE  /\ Extended(entries, e, k) \in [Slot -> Entry]
         /\ Extended(entries, e, k) # <<>>
         /\ Extended(entries, e, k)[k] = e
         /\ \A j \in 1 .. (k - 1) : Extended(entries, e, k)[j] = entries[j]
<1>1. \A j \in Slot : Extended(entries, e, k)[j] \in Entry
  BY DEF Extended, Entry
<1>2. Extended(entries, e, k) \in [Slot -> Entry]
  BY <1>1 DEF Extended
<1>3. DOMAIN Extended(entries, e, k) = Slot /\ 1 \in Slot /\ 1 \notin DOMAIN <<>>
  BY DEF Extended, Slot
<1>4. Extended(entries, e, k) # <<>>
  BY <1>3
<1>5. \A j \in 1 .. (k - 1) : j \in Slot /\ j < k /\ j # k
  BY DEF Slot
<1> QED
  BY <1>2, <1>4, <1>5 DEF Extended

\* The next entry is one of the entries, and those it skips are none.
LEMMA NextSlotFacts ==
  ASSUME TypeOK, NEW j \in {0} \cup Slot, j < LastSlot
  PROVE  /\ NextSlot(j) \in Slot /\ NextSlot(j) > j /\ NextSlot(j) <= LastSlot
         /\ \A l \in Entries \cap (1 .. NextSlot(j)) : l = NextSlot(j) \/ l \in 1 .. j
         /\ Fits(NextSlot(j)) => Fits(1)
<1>1. LastSlot \in {4, 5} /\ compute.spare \in Nat
  BY ComputeFacts, ManifestAssumption DEF TypeOK
<1>2. j \in 0 .. 4
  BY <1>1 DEF Slot
<1>3. CASE j = 1 /\ "event" \in compute.named
  <2>1. NextSlot(j) = 4 /\ Entries = (1 .. LastSlot) \ {2, 3}
    BY <1>3 DEF NextSlot, Entries
  <2>2. Room(4) = 3 /\ Room(1) = 2
    BY <1>3 DEF Room
  <2>3. Fits(4) => Fits(1)
    BY <1>1, <2>2 DEF Fits
  <2>4. ASSUME NEW l \in Entries \cap (1 .. 4) PROVE l = 4 \/ l = 1
    BY <1>1, <2>1
  <2> QED
    BY <1>1, <1>3, <2>1, <2>3, <2>4 DEF Slot
<1>4. CASE ~(j = 1 /\ "event" \in compute.named)
  <2>1. NextSlot(j) = j + 1
    BY <1>4 DEF NextSlot
  <2>2. Room(1) = 2
    BY DEF Room
  <2>3. Room(j + 1) >= 2
    <3>1. CASE j = 0
      BY <3>1 DEF Room
    <3>2. CASE j \in {1, 2}
      BY <3>2 DEF Room
    <3>3. CASE j = 3
      BY <3>3 DEF Room
    <3>4. CASE j = 4
      BY <3>4 DEF Room
    <3> QED
      BY <1>2, <3>1, <3>2, <3>3, <3>4
  <2>4. Room(j + 1) \in Int
    BY <1>2 DEF Room
  <2>5. Fits(j + 1) => Fits(1)
    BY <1>1, <2>2, <2>3, <2>4 DEF Fits
  <2>6. ASSUME NEW l \in 1 .. (j + 1) PROVE l = j + 1 \/ l \in 1 .. j
    BY <1>2
  <2> QED
    BY <1>1, <1>2, <2>1, <2>5, <2>6 DEF Slot
<1> QED
  BY <1>3, <1>4

\* append: the entry is the event's own, and those before it stay.
LEMMA AppendFacts ==
  ASSUME TypeOK, NEW n \in Event, NEW i0 \in Manifest, NEW k \in Slot,
         man[n] = i0, NextSlot(slot[n]) = k, Fits(k) => Fits(1), AppendEnv(n)
  PROVE  /\ array' \in [Event -> [Manifest -> [Slot -> Entry]]]
         /\ env' \in [Event -> [Manifest -> [Slot -> Entry] \cup {<<>>}]]
         /\ \A m \in Event \ {n} : env'[m] = env[m]
         /\ \A o \in Event \ {ArrayEvent(n)} : array'[o] = array[o]
         /\ array' # array => Fits(1)
         /\ \A i \in Manifest \ {i0} :
               /\ env'[n][i] = env[n][i]
               /\ ArraysApart => Environment(n, i)' = Environment(n, i)
         /\ Environment(n, i0)'[k] = <<n, i0>>
         /\ \A j \in 1 .. (k - 1) : Environment(n, i0)'[j] = Environment(n, i0)[j]
<1>1. PICK o0 \in Event : ArrayEvent(n) = o0
  BY OwnerFacts
<1>2. PICK a0 \in Manifest : ArrayManifest(i0) = a0
  BY ArrayManifestFacts
<1>3. PICK e0 \in Entry : e0 = <<n, i0>>
  BY DEF Entry
<1>4. /\ env \in [Event -> [Manifest -> [Slot -> Entry] \cup {<<>>}]]
      /\ array \in [Event -> [Manifest -> [Slot -> Entry]]]
  BY DEF TypeOK
<1>5. \A i : Environment(n, i) = (IF env[n][i] = <<>> THEN array[o0][ArrayManifest(i)]
                                 ELSE env[n][i])
  BY <1>1 DEF Environment
<1>6. \A i : Environment(n, i)' = (IF env'[n][i] = <<>> THEN array'[o0][ArrayManifest(i)]
                                  ELSE env'[n][i])
  <2>1. compute' = compute
    BY DEF AppendEnv, loopVars
  <2> QED
    BY <1>1, <2>1, SameCompute DEF Environment
<1>7. ArraysApart /\ Fits(1) => \A i \in Manifest : ArrayManifest(i) = i
  BY ArrayManifestFacts DEF ArraysApart, ArraysKept
<1>8. CASE env[n][i0] = <<>> /\ Fits(k)
  <2>1. array' = [array EXCEPT ![o0][a0][k] = e0] /\ env' = env
    BY <1>1, <1>2, <1>3, <1>8 DEF AppendEnv
  <2>2. PICK e : e = [array[o0][a0] EXCEPT ![k] = e0]
    OBVIOUS
  <2>3. PICK a : a = [array[o0] EXCEPT ![a0] = e]
    OBVIOUS
  <2>4. array' = [array EXCEPT ![o0] = a]
    BY <2>1, <2>2, <2>3
  <2>5. e \in [Slot -> Entry] /\ e[k] = e0 /\ \A j \in Slot \ {k} : e[j] = array[o0][a0][j]
    BY <1>4, <2>2
  <2>6. /\ a \in [Manifest -> [Slot -> Entry]] /\ a[a0] = e
        /\ \A i \in Manifest \ {a0} : a[i] = array[o0][i]
    BY <1>4, <2>3, <2>5
  <2>7. /\ array' \in [Event -> [Manifest -> [Slot -> Entry]]] /\ array'[o0] = a
        /\ \A o \in Event \ {o0} : array'[o] = array[o]
    BY <1>4, <2>4, <2>6
  <2>8. \A j \in 1 .. (k - 1) : j \in Slot \ {k}
    BY DEF Slot
  <2>9. \A i \in Manifest \ {i0} : env'[n][i] = env[n][i]
    BY <2>1
  <2>10. ASSUME NEW i \in Manifest \ {i0}, ArraysApart
         PROVE  Environment(n, i)' = Environment(n, i)
    <3>1. ArrayManifest(i) = i /\ a0 = i0
      BY <1>2, <1>7, <1>8, <2>10
    <3>2. array'[o0][i] = array[o0][i]
      BY <2>6, <2>7, <3>1
    <3> QED
      BY <1>5, <1>6, <2>9, <3>1, <3>2
  <2>11. Environment(n, i0)' = e /\ Environment(n, i0) = array[o0][a0]
    BY <1>2, <1>5, <1>6, <1>8, <2>1, <2>6, <2>7
  <2>12. \A j \in 1 .. (k - 1) : Environment(n, i0)'[j] = Environment(n, i0)[j]
    BY <2>5, <2>8, <2>11
  <2> QED
    BY <1>1, <1>3, <1>4, <1>8, <2>1, <2>5, <2>7, <2>9, <2>10, <2>11, <2>12
<1>9. CASE ~(env[n][i0] = <<>> /\ Fits(k))
  <2>1. /\ array' = array
        /\ env' = [env EXCEPT ![n][i0] = Extended(IF @ = <<>> THEN array[o0][a0] ELSE @, e0, k)]
    BY <1>1, <1>2, <1>3, <1>9 DEF AppendEnv
  <2>2. Environment(n, i0) \in [Slot -> Entry]
    <3>1. env[n][i0] \in [Slot -> Entry] \cup {<<>>} /\ array[o0][a0] \in [Slot -> Entry]
      BY <1>4
    <3> QED
      BY <1>2, <1>5, <3>1
  <2>3. PICK e : e = Extended(Environment(n, i0), e0, k)
    OBVIOUS
  <2>4. /\ e \in [Slot -> Entry] /\ e # <<>> /\ e[k] = e0
        /\ \A j \in 1 .. (k - 1) : e[j] = Environment(n, i0)[j]
    BY <2>2, <2>3, ExtendedFacts
  <2>5. PICK a : a = [env[n] EXCEPT ![i0] = e]
    OBVIOUS
  <2>6. env' = [env EXCEPT ![n] = a]
    BY <1>2, <1>4, <1>5, <2>1, <2>3, <2>5
  <2>7. /\ a \in [Manifest -> [Slot -> Entry] \cup {<<>>}] /\ a[i0] = e
        /\ \A i \in Manifest \ {i0} : a[i] = env[n][i]
    BY <1>4, <2>4, <2>5
  <2>8. /\ env' \in [Event -> [Manifest -> [Slot -> Entry] \cup {<<>>}]] /\ env'[n] = a
        /\ \A m \in Event \ {n} : env'[m] = env[m]
    BY <1>4, <2>6, <2>7
  <2>9. \A i \in Manifest \ {i0} : env'[n][i] = env[n][i]
    BY <2>7, <2>8
  <2>10. \A i \in Manifest \ {i0} : Environment(n, i)' = Environment(n, i)
    BY <1>5, <1>6, <2>1, <2>9
  <2>11. Environment(n, i0)' = e
    BY <1>6, <2>4, <2>7, <2>8
  <2> QED
    <3>1. array' \in [Event -> [Manifest -> [Slot -> Entry]]]
      BY <1>4, <2>1
    <3>2. Environment(n, i0)'[k] = <<n, i0>>
          /\ \A j \in 1 .. (k - 1) : Environment(n, i0)'[j] = Environment(n, i0)[j]
      BY <1>3, <2>4, <2>11
    <3> QED
      BY <2>1, <2>8, <2>9, <2>10, <3>1, <3>2
<1> QED
  BY <1>8, <1>9

LEMMA AppendEnvStep ==
  ASSUME RunInv, NEW n \in Event, AppendEnv(n)
  PROVE  RunInv'
<1>1. TypeOK /\ TokensCounted /\ GoroutineInv(n)
  BY DEF RunInv
<1>2. PICK i0 \in Manifest : man[n] = i0
  BY <1>1 DEF TypeOK
<1>3. LastSlot \in {4, 5} /\ slot[n] \in {0} \cup Slot /\ pc[n] = "env"
  BY <1>1, ComputeFacts DEF TypeOK, AppendEnv
<1>4. slot[n] < LastSlot
  BY <1>1, <1>3 DEF GoroutineInv, JobsInOrder
<1>5. PICK k \in Slot : NextSlot(slot[n]) = k
  BY <1>1, <1>3, <1>4, NextSlotFacts
<1>6. /\ k > slot[n] /\ k <= LastSlot /\ k \in 1 .. 5 /\ slot[n] \in 0 .. 5
      /\ \A l \in Entries \cap (1 .. k) : l = k \/ l \in 1 .. slot[n]
      /\ Fits(k) => Fits(1)
  BY <1>1, <1>3, <1>4, <1>5, NextSlotFacts DEF Slot
<1>7. PICK where \in {"env", "clone"} :
        /\ where = (IF k < LastSlot THEN "env" ELSE "clone")
        /\ pc' = [pc EXCEPT ![n] = where]
        /\ slot' = [slot EXCEPT ![n] = k]
        /\ UNCHANGED <<loopVars, semVars, man, tags, tagged, outVars, crashed>>
  BY <1>5 DEF AppendEnv, Go
<1>8. /\ pc' \in [Event -> PC] /\ pc'[n] = where
      /\ \A m \in Event \ {n} : pc'[m] = pc[m]
      /\ slot' \in [Event -> {0} \cup Slot] /\ slot'[n] = k
      /\ \A m \in Event \ {n} : slot'[m] = slot[m]
  BY <1>1, <1>7 DEF TypeOK, PC
<1>9. /\ array' \in [Event -> [Manifest -> [Slot -> Entry]]]
      /\ env' \in [Event -> [Manifest -> [Slot -> Entry] \cup {<<>>}]]
      /\ \A m \in Event \ {n} : env'[m] = env[m]
      /\ \A o \in Event \ {ArrayEvent(n)} : array'[o] = array[o]
      /\ array' # array => Fits(1)
      /\ \A i \in Manifest \ {i0} :
            /\ env'[n][i] = env[n][i]
            /\ ArraysApart => Environment(n, i)' = Environment(n, i)
      /\ Environment(n, i0)'[k] = <<n, i0>>
      /\ \A j \in 1 .. (k - 1) : Environment(n, i0)'[j] = Environment(n, i0)[j]
  BY <1>1, <1>2, <1>5, <1>6, AppendFacts
<1>10. TypeOK'
  BY <1>1, <1>7, <1>8, <1>9, SameCompute
  DEF TypeOK, loopVars, semVars, outVars, Writers, Entry, Concurrency
<1>11. TokensCounted'
  BY <1>1, <1>3, <1>7, <1>8, KeepsToken DEF loopVars
<1>12. /\ Manifests' = Manifests /\ LastSlot' = LastSlot /\ Manifests \subseteq Manifest
       /\ Entries' = Entries /\ TagsApart' = TagsApart
       /\ ArraysKept' = ArraysKept /\ ArraysApart' = ArraysApart
       /\ \A i : NeedsPayload(i)' = NeedsPayload(i)
       /\ \A m : TagsEvent(m)' = TagsEvent(m)
  BY <1>1, <1>7, ComputeFacts, SameCompute DEF loopVars
<1>13. StartsClean(n)'
  BY <1>1, <1>3, <1>7, <1>8 DEF GoroutineInv, StartsClean, loopVars
<1>14. JobsInOrder(n)'
  <2>1. /\ where = "env" => k < LastSlot
        /\ where = "clone" => k = LastSlot
    BY <1>3, <1>6, <1>7
  <2>2. /\ man[n] \in Manifests
        /\ n \in submitted => pc[n] \in {"save", "release", "done"}
    BY <1>1 DEF GoroutineInv, JobsInOrder
  <2>3. man' = man /\ submitted' = submitted
    BY <1>7 DEF outVars
  <2> QED
    BY <1>3, <1>8, <1>12, <2>1, <2>2, <2>3 DEF JobsInOrder
<1>15. \A i : Built(n, i)' = Built(n, i) /\ AtWork(n, i)' = AtWork(n, i)
  BY <1>3, <1>7, <1>8 DEF Built, AtWork, Building, outVars
<1>16. PayloadsNamed(n)'
  BY <1>1, <1>3, <1>7, <1>8, <1>12, <1>15 DEF GoroutineInv, PayloadsNamed, outVars
<1>17. EntriesOwned(n)'
  <2> SUFFICES ASSUME NEW i \in Manifests
               PROVE  /\ (ArraysKept /\ n \in submitted') \/ (ArraysApart /\ AtWork(n, i)')
                            => \A j \in Entries : Environment(n, i)'[j] = <<n, i>>
                      /\ ArraysApart /\ pc'[n] \in Building /\ man'[n] = i =>
                            \A j \in Entries \cap (1 .. slot'[n]) :
                                Environment(n, i)'[j] = <<n, i>>
                      /\ pc'[n] \in Building /\ (i > man'[n] \/ (i = man'[n] /\ slot'[n] = 0))
                            => env'[n][i] = <<>>
    BY <1>12, Zenon DEF EntriesOwned
  <2>1. /\ ArraysApart /\ AtWork(n, i)
              => \A j \in Entries : Environment(n, i)[j] = <<n, i>>
        /\ ArraysApart /\ pc[n] \in Building /\ man[n] = i =>
              \A j \in Entries \cap (1 .. slot[n]) : Environment(n, i)[j] = <<n, i>>
        /\ pc[n] \in Building /\ (i > man[n] \/ (i = man[n] /\ slot[n] = 0))
              => env[n][i] = <<>>
    BY <1>1 DEF GoroutineInv, EntriesOwned
  <2>2. i0 \in Nat /\ i \in Nat /\ man'[n] = i0
    BY <1>1, <1>2, <1>7, <1>12, ComputeFacts
  <2>3. Building = {"manifest", "writing", "env", "clone"} /\ pc[n] \in Building
    BY <1>3 DEF Building
  <2>4. n \notin submitted'
    BY <1>1, <1>3, <1>7 DEF GoroutineInv, JobsInOrder, outVars
  <2>5. CASE i = i0
    <3>1. ~AtWork(n, i)
      BY <1>2, <1>3, <2>2, <2>5 DEF AtWork
    <3>2. ArraysApart => \A j \in Entries \cap (1 .. slot[n]) : Environment(n, i)[j] = <<n, i>>
      BY <1>2, <2>1, <2>3, <2>5
    <3>3. ASSUME ArraysApart, NEW j \in Entries \cap (1 .. k)
          PROVE  Environment(n, i)'[j] = <<n, i>>
      <4>1. j = k \/ j \in Entries \cap (1 .. slot[n])
        BY <1>6
      <4>2. j \in 1 .. slot[n] => j \in 1 .. (k - 1)
        BY <1>6
      <4> QED
        BY <1>9, <2>5, <3>2, <3>3, <4>1, <4>2
    <3>4. k # 0 /\ ~(i > i0)
      BY <1>6, <2>2, <2>5
    <3> QED
      BY <1>8, <1>15, <2>2, <2>4, <3>1, <3>3, <3>4
  <2>6. CASE i # i0
    <3>1. env'[n][i] = env[n][i] /\ (ArraysApart => Environment(n, i)' = Environment(n, i))
      BY <1>9, <1>12, <2>6
    <3> QED
      BY <1>2, <1>15, <2>1, <2>2, <2>3, <2>4, <2>6, <3>1
  <2> QED
    BY <2>5, <2>6
<1>18. ASSUME ArraysKept, NEW m \in Event \ {n}
       PROVE  array'[ArrayEvent(m)] = array[ArrayEvent(m)]
  <2>1. CASE array' = array
    BY <2>1
  <2>2. CASE array' # array
    <3>1. ~EventsShareArrays
      BY <1>9, <1>18, <2>2 DEF ArraysKept
    <3> QED
      BY <1>1, <1>9, <3>1, OwnerFacts
  <2> QED
    BY <2>1, <2>2
<1> QED
  BY <1>3, <1>7, <1>8, <1>9, <1>10, <1>11, <1>13, <1>14, <1>16, <1>17, <1>18, GoroutineStep
  DEF GoroutineInv, outVars

LEMMA CloneTagsStep ==
  ASSUME RunInv, NEW n \in Event, CloneTags(n)
  PROVE  RunInv'
<1>1. TypeOK /\ TokensCounted /\ GoroutineInv(n)
  BY DEF RunInv
<1>2. PICK i0 \in Manifest : man[n] = i0
  BY <1>1 DEF TypeOK
<1>3. /\ Manifests = 1 .. LastManifest /\ LastManifest \in Nat \ {0}
      /\ Manifests \subseteq Manifest /\ LastSlot \in {4, 5}
  BY <1>1, ComputeFacts
<1>4. i0 \in Manifests /\ pc[n] = "clone" /\ slot[n] = LastSlot /\ n \notin submitted
  BY <1>1, <1>2 DEF GoroutineInv, JobsInOrder, CloneTags
<1>5. PICK next \in Manifests, where \in {"manifest", "submit"} :
        /\ \/ i0 < LastManifest /\ next = i0 + 1 /\ where = "manifest"
           \/ i0 = LastManifest /\ next = 1 /\ where = "submit"
        /\ man' = [man EXCEPT ![n] = next] /\ pc' = [pc EXCEPT ![n] = where]
  <2>1. CASE i0 < LastManifest
    <3>1. i0 + 1 \in Manifests
      BY <1>3, <1>4, <2>1
    <3>2. man' = [man EXCEPT ![n] = i0 + 1] /\ pc' = [pc EXCEPT ![n] = "manifest"]
      BY <1>2, <2>1 DEF CloneTags, Go
    <3> QED
      BY <2>1, <3>1, <3>2
  <2>2. CASE ~(i0 < LastManifest)
    <3>1. 1 \in Manifests /\ i0 = LastManifest
      BY <1>3, <1>4, <2>2
    <3>2. man' = [man EXCEPT ![n] = 1] /\ pc' = [pc EXCEPT ![n] = "submit"]
      BY <1>2, <2>2 DEF CloneTags, Go
    <3> QED
      BY <3>1, <3>2
  <2> QED
    BY <2>1, <2>2
<1>6. PICK t : t = tags[TagsEvent(n)][i0]
  OBVIOUS
<1>7. /\ tagged' = [tagged EXCEPT ![n][i0] = t] /\ slot' = [slot EXCEPT ![n] = 0]
      /\ UNCHANGED <<loopVars, semVars, tags, array, env, outVars, crashed>>
  BY <1>2, <1>6 DEF CloneTags
<1>8. /\ pc' \in [Event -> PC] /\ pc'[n] = where
      /\ \A m \in Event \ {n} : pc'[m] = pc[m]
      /\ man' \in [Event -> Manifest] /\ man'[n] = next
      /\ \A m \in Event \ {n} : man'[m] = man[m]
      /\ slot' \in [Event -> {0} \cup Slot] /\ slot'[n] = 0
      /\ \A m \in Event \ {n} : slot'[m] = slot[m]
  BY <1>1, <1>3, <1>5, <1>7 DEF TypeOK, PC
<1>9. /\ tagged' \in [Event -> [Manifest -> Writers]] /\ tagged'[n][i0] = t
      /\ \A i \in Manifest \ {i0} : tagged'[n][i] = tagged[n][i]
      /\ \A m \in Event \ {n} : tagged'[m] = tagged[m]
  <2>1. tagged \in [Event -> [Manifest -> Writers]] /\ t \in Writers
    BY <1>1, <1>2, <1>6, OwnerFacts DEF TypeOK
  <2>2. PICK a : a = [tagged[n] EXCEPT ![i0] = t]
    OBVIOUS
  <2>3. tagged' = [tagged EXCEPT ![n] = a]
    BY <1>7, <2>2
  <2>4. a \in [Manifest -> Writers] /\ a[i0] = t
        /\ \A i \in Manifest \ {i0} : a[i] = tagged[n][i]
    BY <2>1, <2>2
  <2> QED
    BY <2>1, <2>3, <2>4
<1>10. TypeOK'
  BY <1>1, <1>7, <1>8, <1>9 DEF TypeOK, loopVars, semVars, outVars, Writers, Entry, Concurrency
<1>11. TokensCounted'
  BY <1>1, <1>4, <1>7, <1>8, KeepsToken DEF loopVars
<1>12. /\ Manifests' = Manifests /\ LastSlot' = LastSlot /\ Manifests \subseteq Manifest
       /\ Entries' = Entries /\ TagsApart' = TagsApart
       /\ ArraysKept' = ArraysKept /\ ArraysApart' = ArraysApart
       /\ \A i : NeedsPayload(i)' = NeedsPayload(i)
       /\ \A m : TagsEvent(m)' = TagsEvent(m)
       /\ \A i \in Manifests : i \in Nat \ {0}
  BY <1>1, <1>7, ComputeFacts, SameCompute DEF loopVars
<1>13. StartsClean(n)' /\ JobsInOrder(n)'
  BY <1>1, <1>4, <1>7, <1>8, <1>12
  DEF GoroutineInv, StartsClean, JobsInOrder, loopVars, outVars
<1>14. \A i \in Manifests : /\ Built(n, i)' => Built(n, i) \/ i = i0
                            /\ AtWork(n, i)' => AtWork(n, i) \/ i = i0
  <2> SUFFICES ASSUME NEW i \in Manifests, Built(n, i)' \/ AtWork(n, i)', i # i0 PROVE i < i0
    BY <1>2, <1>4 DEF Built, AtWork, Building
  <2>1. where = "submit" \/ i < next
    BY <1>4, <1>7, <1>8 DEF Built, AtWork, Building, outVars
  <2> QED
    BY <1>3, <1>4, <1>5, <2>1
<1>15. PayloadsNamed(n)'
  <2> SUFFICES ASSUME TagsApart, NEW i \in Manifests, NeedsPayload(i), Built(n, i)'
               PROVE  tagged'[n][i] = n /\ <<n, i>> \in written
    BY <1>7, <1>8, <1>12 DEF PayloadsNamed, outVars
  <2>1. CASE i = i0
    BY <1>1, <1>2, <1>4, <1>6, <1>9, <1>12, <2>1 DEF GoroutineInv, PayloadsNamed
  <2>2. CASE i # i0
    BY <1>1, <1>3, <1>9, <1>14, <2>2 DEF GoroutineInv, PayloadsNamed
  <2> QED
    BY <2>1, <2>2
<1>16. EntriesOwned(n)'
  <2>1. \A i : Environment(n, i)' = Environment(n, i)
    BY <1>7, SameCompute DEF Environment, loopVars
  <2> SUFFICES ASSUME NEW i \in Manifests
               PROVE  /\ (ArraysKept /\ n \in submitted') \/ (ArraysApart /\ AtWork(n, i)')
                            => \A j \in Entries : Environment(n, i)'[j] = <<n, i>>
                      /\ ArraysApart /\ pc'[n] \in Building /\ man'[n] = i =>
                            \A j \in Entries \cap (1 .. slot'[n]) :
                                Environment(n, i)'[j] = <<n, i>>
                      /\ pc'[n] \in Building /\ (i > man'[n] \/ (i = man'[n] /\ slot'[n] = 0))
                            => env'[n][i] = <<>>
    BY <1>12, Zenon DEF EntriesOwned
  <2>2. /\ ArraysApart /\ AtWork(n, i) => \A j \in Entries : Environment(n, i)[j] = <<n, i>>
        /\ ArraysApart /\ i0 = i =>
              \A j \in Entries \cap (1 .. LastSlot) : Environment(n, i)[j] = <<n, i>>
        /\ i > i0 => env[n][i] = <<>>
    BY <1>1, <1>2, <1>4 DEF GoroutineInv, EntriesOwned, Building
  <2>3. Entries \cap (1 .. LastSlot) = Entries /\ 1 .. slot'[n] = {}
    BY <1>8 DEF Entries
  <2>4. ArraysApart /\ AtWork(n, i)' => \A j \in Entries : Environment(n, i)[j] = <<n, i>>
    BY <1>14, <2>2, <2>3
  <2>5. pc'[n] \in Building /\ (i > man'[n] \/ (i = man'[n] /\ slot'[n] = 0)) => i > i0
    BY <1>3, <1>4, <1>5, <1>8 DEF Building
  <2>6. n \notin submitted'
    BY <1>4, <1>7 DEF outVars
  <2> QED
    BY <1>7, <2>1, <2>2, <2>3, <2>4, <2>5, <2>6
<1> QED
  BY <1>4, <1>7, <1>8, <1>9, <1>10, <1>11, <1>13, <1>15, <1>16, GoroutineStep
  DEF GoroutineInv, outVars

\* A job that has been made stays as it is, whether it is submitted, saved or given up.
LEMMA JobsStay ==
  ASSUME TypeOK, NEW n \in Event, GoroutineInv(n), compute' = compute,
         pc'[n] \in {"save", "release", "done"},
         \A i \in Manifests : Built(n, i)' => Built(n, i),
         \A i \in Manifests : AtWork(n, i)' => AtWork(n, i),
         n \in submitted' => n \in submitted \/ pc[n] = "submit",
         UNCHANGED <<env, array, tagged, written>>
  PROVE  PayloadsNamed(n)' /\ EntriesOwned(n)'
<1>1. \A i : Environment(n, i)' = Environment(n, i)
  BY SameCompute DEF Environment
<1>2. /\ Manifests' = Manifests /\ Entries' = Entries /\ TagsApart' = TagsApart
      /\ ArraysKept' = ArraysKept /\ ArraysApart' = ArraysApart
      /\ \A i : NeedsPayload(i)' = NeedsPayload(i)
  BY SameCompute
<1>3. PayloadsNamed(n)'
  BY <1>2 DEF GoroutineInv, PayloadsNamed
<1>4. EntriesOwned(n)'
  <2>1. ArraysKept => ArraysApart
    BY DEF ArraysApart
  <2>2. \A i : pc[n] = "submit" => AtWork(n, i)
    BY DEF AtWork
  <2>3. pc'[n] \notin Building
    BY DEF Building
  <2> QED
    BY <1>1, <1>2, <2>1, <2>2, <2>3 DEF GoroutineInv, EntriesOwned
<1> QED
  BY <1>3, <1>4

LEMMA SubmitJobsStep ==
  ASSUME RunInv, NEW n \in Event, SubmitJobs(n)
  PROVE  RunInv'
<1>1. /\ pc[n] = "submit" /\ submitted' = submitted \cup {n}
      /\ pc' = [pc EXCEPT ![n] = "save"]
      /\ UNCHANGED <<loopVars, semVars, jobVars, written, saved, crashed>>
  BY DEF SubmitJobs, Go
<1>2. TypeOK /\ TokensCounted /\ GoroutineInv(n)
  BY DEF RunInv
<1>3. /\ pc' \in [Event -> PC] /\ pc'[n] = "save"
      /\ \A m \in Event \ {n} : pc'[m] = pc[m]
  BY <1>1, <1>2 DEF TypeOK, PC
<1>4. TypeOK'
  BY <1>1, <1>2, <1>3 DEF TypeOK, loopVars, semVars, jobVars, Writers, Entry, Concurrency
<1>5. TokensCounted'
  BY <1>1, <1>2, <1>3, KeepsToken DEF loopVars
<1>6. StartsClean(n)' /\ JobsInOrder(n)'
  BY <1>1, <1>2, <1>3, SameCompute
  DEF GoroutineInv, StartsClean, JobsInOrder, loopVars, jobVars
<1>7. \A i \in Manifests : Built(n, i) /\ AtWork(n, i)
  BY <1>1 DEF Built, AtWork
<1>8. PayloadsNamed(n)' /\ EntriesOwned(n)'
  BY <1>1, <1>2, <1>3, <1>7, JobsStay DEF loopVars, jobVars
<1> QED
  BY <1>1, <1>3, <1>4, <1>5, <1>6, <1>8, GoroutineStep DEF GoroutineInv, jobVars

LEMMA SaveJobStep ==
  ASSUME RunInv, NEW n \in Event, SaveJob(n)
  PROVE  RunInv'
<1>1. /\ pc[n] = "save" /\ saved' = saved \cup {<<n, man[n]>>}
      /\ \/ /\ man[n] < LastManifest
            /\ man' = [man EXCEPT ![n] = man[n] + 1] /\ pc' = pc
         \/ pc' = [pc EXCEPT ![n] = "release"] /\ man' = man
      /\ UNCHANGED <<loopVars, semVars, slot, tags, array, env, tagged, written, submitted,
                     crashed>>
  BY DEF SaveJob, Go
<1>2. TypeOK /\ TokensCounted /\ GoroutineInv(n)
  BY DEF RunInv
<1>3. /\ Manifests = 1 .. LastManifest /\ LastManifest \in Nat \ {0}
      /\ Manifests \subseteq Manifest /\ Manifests' = Manifests
  BY <1>1, <1>2, ComputeFacts, SameCompute DEF loopVars
<1>4. man[n] \in Manifests
  BY <1>2 DEF GoroutineInv, JobsInOrder
<1>5. /\ pc' \in [Event -> PC] /\ pc'[n] \in {"save", "release"}
      /\ \A m \in Event \ {n} : pc'[m] = pc[m]
      /\ man' \in [Event -> Manifest] /\ man'[n] \in Manifests
      /\ \A m \in Event \ {n} : man'[m] = man[m]
  <2>1. CASE man[n] < LastManifest /\ man' = [man EXCEPT ![n] = man[n] + 1] /\ pc' = pc
    <3>1. man[n] + 1 \in Manifests
      BY <1>3, <1>4, <2>1
    <3> QED
      BY <1>1, <1>2, <1>3, <2>1, <3>1 DEF TypeOK
  <2>2. CASE pc' = [pc EXCEPT ![n] = "release"] /\ man' = man
    BY <1>2, <1>4, <2>2 DEF TypeOK, PC
  <2> QED
    BY <1>1, <2>1, <2>2
<1>6. TypeOK'
  <2>1. <<n, man[n]>> \in Event \X Manifest
    BY <1>2 DEF TypeOK
  <2>2. saved' \subseteq Event \X Manifest
    BY <1>1, <1>2, <2>1 DEF TypeOK
  <2> QED
    BY <1>1, <1>2, <1>5, <2>2 DEF TypeOK, loopVars, semVars, Writers, Entry, Concurrency
<1>7. TokensCounted'
  BY <1>1, <1>2, <1>5, KeepsToken DEF loopVars
<1>8. StartsClean(n)' /\ JobsInOrder(n)'
  BY <1>1, <1>2, <1>3, <1>5 DEF GoroutineInv, StartsClean, JobsInOrder, loopVars
<1>9. \A i \in Manifests : (Built(n, i)' => Built(n, i)) /\ (AtWork(n, i)' => AtWork(n, i))
  BY <1>1, <1>5 DEF Built, AtWork, Building
<1>10. PayloadsNamed(n)' /\ EntriesOwned(n)'
  BY <1>1, <1>2, <1>5, <1>9, JobsStay DEF loopVars
<1> QED
  BY <1>1, <1>5, <1>6, <1>7, <1>8, <1>10, GoroutineStep DEF GoroutineInv

LEMMA StepFailsStep ==
  ASSUME RunInv, NEW n \in Event, StepFails(n)
  PROVE  RunInv'
<1>1. /\ pc[n] \in {"process", "manifest", "submit", "save"}
      /\ pc' = [pc EXCEPT ![n] = "release"]
      /\ UNCHANGED <<loopVars, semVars, jobVars, outVars, crashed>>
  BY DEF StepFails, Go
<1>2. TypeOK /\ TokensCounted /\ GoroutineInv(n)
  BY DEF RunInv
<1>3. /\ pc' \in [Event -> PC] /\ pc'[n] = "release"
      /\ \A m \in Event \ {n} : pc'[m] = pc[m]
  BY <1>1, <1>2 DEF TypeOK, PC
<1>4. TypeOK'
  BY <1>1, <1>2, <1>3 DEF TypeOK, loopVars, semVars, jobVars, outVars, Writers, Entry, Concurrency
<1>5. TokensCounted'
  BY <1>1, <1>2, <1>3, KeepsToken DEF loopVars
<1>6. StartsClean(n)' /\ JobsInOrder(n)'
  BY <1>1, <1>2, <1>3, SameCompute
  DEF GoroutineInv, StartsClean, JobsInOrder, loopVars, jobVars, outVars
<1>7. \A i \in Manifests : (Built(n, i)' => Built(n, i)) /\ (AtWork(n, i)' => AtWork(n, i))
  BY <1>1, <1>3 DEF Built, AtWork, Building, outVars
<1>8. PayloadsNamed(n)' /\ EntriesOwned(n)'
  BY <1>1, <1>2, <1>3, <1>7, JobsStay DEF loopVars, jobVars, outVars
<1> QED
  BY <1>1, <1>3, <1>4, <1>5, <1>6, <1>8, GoroutineStep DEF GoroutineInv, jobVars, outVars

LEMMA ReleaseStep ==
  ASSUME RunInv, NEW n \in Event, Release(n)
  PROVE  RunInv'
<1>1. /\ pc[n] = "release" /\ semaphore' = semaphore - 1
      /\ pc' = [pc EXCEPT ![n] = "done"]
      /\ UNCHANGED <<loopVars, waited, jobVars, outVars, crashed>>
  BY DEF Release, Go
<1>2. TypeOK /\ TokensCounted /\ GoroutineInv(n) /\ \A m \in Event : GoroutineInv(m)
  BY DEF RunInv
<1>3. /\ pc' \in [Event -> PC] /\ pc'[n] = "done"
      /\ \A m \in Event \ {n} : pc'[m] = pc[m]
  BY <1>1, <1>2 DEF TypeOK, PC
<1>4. n \in Busy /\ Busy' = Busy \ {n}
  BY <1>1, <1>3 DEF Busy
<1>5. IsFiniteSet(Busy) /\ Cardinality(Busy) \in Nat
  BY <1>2, BusyFinite
<1>6. Cardinality(Busy') = Cardinality(Busy) - 1 /\ Cardinality(Busy) >= 1
  BY <1>4, <1>5, FS_RemoveElement, FS_EmptySet
<1>7. semaphore' \in 0 .. Concurrency /\ waited \in 0 .. semaphore'
  <2>1. semaphore = Cardinality(Busy) + waited
    BY <1>2 DEF TokensCounted
  <2>2. semaphore \in 0 .. Concurrency /\ waited \in 0 .. semaphore /\ Concurrency \in Nat
    BY <1>2, ComputeFacts DEF TypeOK
  <2> QED
    BY <1>1, <1>5, <1>6, <2>1, <2>2
<1>8. TypeOK'
  BY <1>1, <1>2, <1>3, <1>7 DEF TypeOK, loopVars, jobVars, outVars, Writers, Entry, Concurrency
<1>9. TokensCounted'
  BY <1>1, <1>2, <1>5, <1>6 DEF TokensCounted, TypeOK, Concurrency, loopVars
<1>10. StartsClean(n)' /\ JobsInOrder(n)'
  BY <1>1, <1>2, <1>3, SameCompute
  DEF GoroutineInv, StartsClean, JobsInOrder, loopVars, jobVars, outVars
<1>11. \A i \in Manifests : (Built(n, i)' => Built(n, i)) /\ (AtWork(n, i)' => AtWork(n, i))
  BY <1>1, <1>3 DEF Built, AtWork, Building, outVars
<1>12. PayloadsNamed(n)' /\ EntriesOwned(n)'
  BY <1>1, <1>2, <1>3, <1>11, JobsStay DEF loopVars, jobVars, outVars
<1> QED
  BY <1>1, <1>3, <1>8, <1>9, <1>10, <1>12, GoroutineStep DEF GoroutineInv, jobVars, outVars

LEMMA AnyEventStep ==
  ASSUME RunInv, NEW n \in Event, EventStep(n)
  PROVE  RunInv'
BY ProcessStep, NoPayloadStep, WritePayloadStep, TagPayloadStep, AppendEnvStep, CloneTagsStep,
   SubmitJobsStep, SaveJobStep, StepFailsStep, ReleaseStep DEF EventStep

-----------------------------------------------------------------------------
(* The loop *)

LEMMA Products ==
  ASSUME NEW p \in Nat, NEW a \in Int, NEW b \in Int
  PROVE  /\ a * p \in Int
         /\ (a + 1) * p = a * p + p
         /\ a <= b => a * p <= b * p
         /\ p * a = a * p
OBVIOUS

\* What NextEvent does to the generator keeps the count of what it has returned.
LEMMA ErrorFacts ==
  ASSUME TypeOK, EventsBounded, loop = "next", NextEvent(compute, gen).outcome = "error",
         NEW g \in Generator, g = NextEvent(compute, gen).gen
  PROVE  /\ g.loop = gen.loop
         /\ compute.kind \in {"streaming", "batch"}
         /\ compute.kind = "batch" => g = gen
         /\ compute.kind = "streaming" =>
               /\ gen.token = Empty
               /\ g.pos \in 0 .. Len(compute.tokens)
               /\ \/ g.token = Empty /\ g.pos = gen.pos
                  \/ g.more /\ g.pos = gen.pos + 1
<1>1. compute \in Computes /\ gen \in Generator
      /\ compute.kind \in {"streaming", "array", "list", "batch"}
  BY ComputeFacts DEF TypeOK, Generator
<1>2. CASE compute.kind = "array"
  BY <1>2 DEF NextEvent, NextArray, Returned
<1>3. CASE compute.kind = "list"
  BY <1>3 DEF NextEvent, NextList, Returned, Panicked
<1>4. CASE compute.kind = "batch"
  BY <1>4 DEF NextEvent, NextBatch, Returned, Panicked, Failed
<1>5. CASE compute.kind = "streaming"
  <2>1. NextEvent(compute, gen) = NextStreaming(compute, gen)
    BY <1>5 DEF NextEvent
  <2>2. gen.token = Empty /\ g = ScanNext(compute, gen)
    BY <2>1 DEF NextStreaming, Returned, Failed
  <2>3. gen.pos \in 0 .. Len(compute.tokens)
    BY <1>5 DEF EventsBounded
  <2> QED
    BY <1>1, <1>5, <2>2, <2>3, ScanFacts
<1> QED
  BY <1>1, <1>2, <1>3, <1>4, <1>5

\* The event that NextEvent returns, and the generator it leaves.
LEMMA ReturnFacts ==
  ASSUME TypeOK, EventsBounded, loop = "next", NextEvent(compute, gen).outcome = "event",
         NEW g, g = NextEvent(compute, gen).gen
  PROVE  /\ g \in Generator
         /\ NextEvent(compute, gen).event \in Occurrence
         /\ NextEvent(compute, gen).more \in BOOLEAN
         /\ compute.kind \in {"streaming", "array"} =>
               g.loop = (IF LoopEnds(compute, gen) THEN 0 ELSE gen.loop + 1)
         /\ compute.kind = "array" =>
               /\ g.pos = (IF LoopEnds(compute, gen) THEN gen.pos + 1 ELSE gen.pos)
               /\ LoopEnds(compute, gen) /\ NextEvent(compute, gen).more
                     => gen.pos < LastValue(compute)
         /\ compute.kind = "list" => gen.pos < Len(compute.tokens)
         /\ compute.kind \in {"list", "batch"} =>
               g.loop = gen.loop /\ g.pos = gen.pos + 1 /\ gen.pos + 1 <= Len(compute.tokens)
         /\ compute.kind = "streaming" =>
               /\ gen.token # Empty
               /\ g.pos \in 0 .. Len(compute.tokens)
               /\ ~LoopEnds(compute, gen) =>
                     g.pos = gen.pos /\ g.token = gen.token /\ g.more = gen.more
               /\ LoopEnds(compute, gen) =>
                     \/ g.token = Empty /\ g.pos = gen.pos
                     \/ g.more /\ g.pos = gen.pos + 1
<1>1. /\ compute \in Computes /\ gen \in Generator
      /\ compute.kind \in {"streaming", "array", "list", "batch"}
      /\ compute.loops \in Nat /\ Len(compute.tokens) \in Nat
      /\ \A i \in 1 .. Len(compute.tokens) : compute.tokens[i] \in Token
  BY ComputeFacts DEF TypeOK, Generator
<1> DEFINE h == NextLoop(compute, gen)
<1>2. /\ h \in Generator /\ h.pos = gen.pos /\ h.token = gen.token /\ h.more = gen.more
      /\ h.loop = (IF LoopEnds(compute, gen) THEN 0 ELSE gen.loop + 1)
  <2>1. PICK l \in Nat : l = (IF LoopEnds(compute, gen) THEN 0 ELSE gen.loop + 1)
    BY <1>1 DEF Generator
  <2>2. h = [gen EXCEPT !.loop = l]
    BY <2>1 DEF NextLoop
  <2> QED
    BY <1>1, <2>1, <2>2 DEF Generator
<1>3. Token \subseteq Token \cup Int /\ Int \subseteq Token \cup Int
  OBVIOUS
<1> HIDE DEF h
<1>4. CASE compute.kind = "array"
  <2>1. PICK k \in Int : k = (IF LoopEnds(compute, gen) THEN gen.pos + 1 ELSE gen.pos)
    BY <1>1 DEF Generator
  <2>2. /\ NextEvent(compute, gen).event = <<gen.pos, gen.loop>>
        /\ NextEvent(compute, gen).more = (IF LoopEnds(compute, gen) THEN gen.pos < compute.last
                                                                    ELSE TRUE)
        /\ g = (IF LoopEnds(compute, gen) THEN [h EXCEPT !.pos = @ + 1] ELSE h)
    BY <1>4 DEF NextEvent, NextArray, Returned, h
  <2>3. g \in Generator /\ g.pos = k /\ g.loop = h.loop
    <3>1. CASE LoopEnds(compute, gen)
      <4>1. g = [h EXCEPT !.pos = k]
        BY <1>2, <2>1, <2>2, <3>1
      <4> QED
        BY <1>2, <4>1 DEF Generator
    <3>2. CASE ~LoopEnds(compute, gen)
      BY <1>2, <2>1, <2>2, <3>2
    <3> QED
      BY <3>1, <3>2
  <2>4. <<gen.pos, gen.loop>> \in Occurrence
    BY <1>1 DEF Occurrence, Generator
  <2>5. NextEvent(compute, gen).more \in BOOLEAN
    <3>1. (gen.pos < compute.last) \in BOOLEAN
      OBVIOUS
    <3> QED
      BY <2>2, <3>1, Zenon
  <2>6. LoopEnds(compute, gen) /\ NextEvent(compute, gen).more => gen.pos < LastValue(compute)
    <3>1. compute.first \in Int /\ compute.last \in Int /\ gen.pos \in Int
      BY <1>1, GeneratorAssumption DEF Generator
    <3> QED
      <4>1. LoopEnds(compute, gen) /\ NextEvent(compute, gen).more => gen.pos < compute.last
        BY <2>2
      <4>2. gen.pos < compute.last => gen.pos < LastValue(compute)
        BY <3>1 DEF LastValue
      <4> QED
        BY <4>1, <4>2
  <2>7. NextEvent(compute, gen).event \in Occurrence
    BY <2>2, <2>4
  <2> QED
    BY <1>2, <1>4, <2>1, <2>3, <2>5, <2>6, <2>7
<1>5. CASE compute.kind \in {"list", "batch"}
  <2>1. gen.pos \in Nat
    BY <1>5 DEF EventsBounded, Returns, TypeOK
  <2>2. /\ gen.pos < Len(compute.tokens)
        /\ NextEvent(compute, gen).event \in
              {<<ListIdentifier(compute, gen.pos + 1), 0>>, <<compute.tokens[gen.pos + 1], 0>>}
        /\ NextEvent(compute, gen).more \in BOOLEAN
        /\ g = [gen EXCEPT !.pos = @ + 1]
    <3>1. CASE compute.kind = "list"
      <4>1. NextEvent(compute, gen) = NextList(compute, gen)
        BY <3>1 DEF NextEvent
      <4>2. ~(gen.pos >= Len(compute.tokens))
        BY <4>1 DEF NextList, Panicked
      <4>3. NextEvent(compute, gen) =
              Returned(ListIdentifier(compute, gen.pos + 1), 0,
                       gen.pos < Len(compute.tokens) - 1, [gen EXCEPT !.pos = @ + 1])
        BY <4>1, <4>2 DEF NextList
      <4>4. (gen.pos < Len(compute.tokens) - 1) \in BOOLEAN /\ gen.pos < Len(compute.tokens)
        BY <1>1, <2>1, <4>2
      <4> QED
        BY <4>3, <4>4 DEF Returned
    <3>2. CASE compute.kind = "batch"
      <4>1. NextEvent(compute, gen) = NextBatch(compute, gen)
        BY <3>2 DEF NextEvent
      <4>2. /\ (gen.pos + 1 <= Len(compute.tokens)) = TRUE
            /\ gen.pos + 1 \notin compute.lacking /\ gen.pos + 1 \notin compute.unmergeable
        BY <4>1 DEF NextBatch, Panicked, Failed
      <4>3. NextEvent(compute, gen) =
              Returned(compute.tokens[gen.pos + 1], 0, TRUE, [gen EXCEPT !.pos = @ + 1])
        BY <4>1, <4>2 DEF NextBatch
      <4>4. gen.pos < Len(compute.tokens)
        BY <1>1, <2>1, <4>2
      <4> QED
        BY <4>3, <4>4 DEF Returned
    <3> QED
      BY <1>5, <3>1, <3>2
  <2>3. g \in Generator /\ g.loop = gen.loop /\ g.pos = gen.pos + 1
    BY <1>1, <2>2 DEF Generator
  <2>4. gen.pos + 1 \in 1 .. Len(compute.tokens)
    BY <1>1, <2>1, <2>2
  <2>5. ListIdentifier(compute, gen.pos + 1) \in Token \cup Int
    BY <1>1, <2>1, <2>4 DEF ListIdentifier
  <2>6. NextEvent(compute, gen).event \in Occurrence
    BY <1>1, <2>2, <2>4, <2>5 DEF Occurrence
  <2> QED
    BY <1>1, <1>5, <2>1, <2>2, <2>3, <2>6
<1>6. CASE compute.kind = "streaming"
  <2>1. NextEvent(compute, gen) = NextStreaming(compute, gen)
    BY <1>6 DEF NextEvent
  <2>2. gen.token # Empty
    BY <2>1 DEF NextStreaming, Failed
  <2>3. PICK f : f = (IF LoopEnds(compute, gen) THEN ScanNext(compute, h) ELSE h)
    OBVIOUS
  <2>4. NextEvent(compute, gen) = Returned(gen.token, gen.loop, f.more, f)
    BY <2>1, <2>2, <2>3 DEF NextStreaming, h
  <2>5. gen.pos \in 0 .. Len(compute.tokens)
    BY <1>6 DEF EventsBounded
  <2>6. /\ f \in Generator /\ f.loop = h.loop /\ f.pos \in 0 .. Len(compute.tokens)
        /\ ~LoopEnds(compute, gen) => f = h
        /\ LoopEnds(compute, gen) =>
              \/ f.token = Empty /\ f.pos = gen.pos
              \/ f.more /\ f.pos = gen.pos + 1
    <3>1. CASE LoopEnds(compute, gen)
      <4>1. f = ScanNext(compute, h) /\ h.pos \in 0 .. Len(compute.tokens)
        BY <1>2, <2>3, <2>5, <3>1
      <4>2. /\ ScanNext(compute, h) \in Generator /\ ScanNext(compute, h).loop = h.loop
            /\ ScanNext(compute, h).pos \in 0 .. Len(compute.tokens)
            /\ \/ ScanNext(compute, h).token = Empty /\ ScanNext(compute, h).pos = h.pos
               \/ ScanNext(compute, h).more /\ ScanNext(compute, h).pos = h.pos + 1
        BY <1>1, <1>2, <4>1, ScanFacts
      <4>3. /\ f \in Generator /\ f.loop = h.loop /\ f.pos \in 0 .. Len(compute.tokens)
            /\ \/ f.token = Empty /\ f.pos = h.pos
               \/ f.more /\ f.pos = h.pos + 1
        BY <4>1, <4>2, Zenon
      <4> QED
        BY <1>2, <3>1, <4>3, Zenon
    <3>2. CASE ~LoopEnds(compute, gen)
      BY <1>2, <2>3, <2>5, <3>2
    <3> QED
      BY <3>1, <3>2
  <2>7. g = f /\ NextEvent(compute, gen).more = f.more
        /\ NextEvent(compute, gen).event = <<gen.token, gen.loop>>
    BY <2>4 DEF Returned
  <2>8. <<gen.token, gen.loop>> \in Occurrence
    BY <1>1 DEF Occurrence, Generator
  <2>9. f.more \in BOOLEAN
    BY <2>6 DEF Generator
  <2> QED
    BY <1>2, <1>6, <2>2, <2>6, <2>7, <2>8, <2>9
<1> QED
  BY <1>1, <1>4, <1>5, <1>6

\* A step that touches no goroutine keeps what holds of them.
LEMMA GoroutinesStay ==
  ASSUME TypeOK, \A m \in Event : GoroutineInv(m),
         UNCHANGED <<compute, dispatched, pc, jobVars, outVars>>
  PROVE  \A m \in Event : GoroutineInv(m)'
<1> SUFFICES ASSUME NEW m \in Event PROVE GoroutineInv(m)'
  OBVIOUS
<1>1. GoroutineInv(m)
  OBVIOUS
<1> QED
  BY <1>1, OtherGoroutine DEF jobVars, outVars

LEMMA EventErrorStep ==
  ASSUME RunInv, EventError
  PROVE  RunInv'
<1>1. TypeOK /\ EventsBounded /\ TokensCounted /\ \A m \in Event : GoroutineInv(m)
  BY DEF RunInv
<1>2. /\ loop = "next" /\ NextEvent(compute, gen).outcome = "error"
      /\ gen' = NextEvent(compute, gen).gen
      /\ UNCHANGED <<compute, loop, fetched, dispatched, semVars, pc, jobVars, outVars, crashed>>
  BY DEF EventError
<1>3. gen' \in Generator
  <2>1. /\ compute \in Computes /\ gen \in Generator
        /\ compute.kind \in {"streaming", "array", "list", "batch"}
    BY <1>1, ComputeFacts DEF TypeOK, Generator
  <2>2. CASE compute.kind = "streaming"
    <3>1. gen' = ScanNext(compute, gen)
      BY <1>2, <2>2 DEF NextEvent, NextStreaming, Returned, Failed
    <3>2. gen.pos \in 0 .. Len(compute.tokens)
      BY <1>1, <2>2 DEF EventsBounded
    <3> QED
      BY <2>1, <3>1, <3>2, ScanFacts
  <2>3. CASE compute.kind = "array"
    BY <1>2, <2>3 DEF NextEvent, NextArray, Returned
  <2>4. CASE compute.kind = "list"
    BY <1>2, <2>4 DEF NextEvent, NextList, Returned, Panicked
  <2>5. CASE compute.kind = "batch"
    BY <1>2, <2>1, <2>5 DEF NextEvent, NextBatch, Returned, Panicked, Failed
  <2> QED
    BY <2>1, <2>2, <2>3, <2>4, <2>5
<1>4. PICK g \in Generator : g = gen'
  BY <1>3
<1>5. /\ g.loop = gen.loop
      /\ compute.kind \in {"streaming", "batch"}
      /\ compute.kind = "batch" => g = gen
      /\ compute.kind = "streaming" =>
            /\ gen.token = Empty
            /\ g.pos \in 0 .. Len(compute.tokens)
            /\ \/ g.token = Empty /\ g.pos = gen.pos
               \/ g.more /\ g.pos = gen.pos + 1
  BY <1>1, <1>2, <1>4, ErrorFacts
<1>6. TypeOK'
  BY <1>1, <1>2, <1>3 DEF TypeOK, semVars, jobVars, outVars, Writers, Entry, Concurrency, Generator
<1>7. TokensCounted'
  BY <1>1, <1>2 DEF TokensCounted, Concurrency, Busy, semVars
<1>8. EventsBounded'
  <2>1. Returns' = Returns /\ MostEvents(compute)' = MostEvents(compute)
        /\ PerIdentifier(compute)' = PerIdentifier(compute)
    BY <1>2 DEF Returns, MostEvents, LastValue, PerIdentifier
  <2>2. CASE compute.kind = "batch"
    BY <1>1, <1>2, <1>4, <1>5, <2>1, <2>2 DEF EventsBounded
  <2>3. CASE compute.kind = "streaming"
    <3> DEFINE p == PerIdentifier(compute)
    <3>1. /\ gen.pos \in 0 .. Len(compute.tokens) /\ gen.loop < p
          /\ Returns <= gen.pos * p + gen.loop
      BY <1>1, <1>5, <2>3 DEF EventsBounded
    <3>2. p \in Nat /\ Len(compute.tokens) \in Nat /\ gen.loop \in Nat /\ Returns \in Int
      BY <1>1, <1>2, ComputeFacts DEF TypeOK, Returns
    <3>3. g.pos > 0 => g.pos \in Nat
      BY <1>5, <2>3, <3>2
    <3>4. Returns <= (IF g.token # Empty THEN g.pos - 1 ELSE g.pos) * p + g.loop
      <4>1. CASE g.token # Empty
        <5>1. g.pos - 1 = gen.pos
          <6>1. g.pos = gen.pos + 1 /\ gen.pos \in Int
            BY <1>5, <2>3, <3>1, <3>2, <4>1
          <6> QED
            BY <6>1
        <5> QED
          BY <1>5, <3>1, <4>1, <5>1
      <4>2. CASE g.token = Empty
        <5>1. gen.pos \in Int /\ g.pos \in Int /\ gen.pos <= g.pos
          BY <1>5, <2>3, <3>1, <3>2
        <5>2. gen.pos * p <= g.pos * p /\ gen.pos * p \in Int /\ g.pos * p \in Int
          BY <3>2, <5>1, Products
        <5> HIDE DEF p
        <5> QED
          BY <1>5, <3>1, <3>2, <4>2, <5>2
      <4> QED
        BY <4>1, <4>2
    <3>5. g.token # Empty => g.more /\ g.pos > 0
      BY <1>5, <2>3, <3>1, <3>2
    <3>6. g.loop < p /\ g.pos \in 0 .. Len(compute.tokens)
      BY <1>5, <2>3, <3>1
    <3> QED
      BY <1>2, <1>4, <2>1, <2>3, <3>4, <3>5, <3>6 DEF EventsBounded
  <2> QED
    BY <1>5, <2>2, <2>3
<1> QED
  BY <1>1, <1>2, <1>6, <1>7, <1>8, GoroutinesStay DEF RunInv

LEMMA FetchEventStep ==
  ASSUME RunInv, FetchEvent
  PROVE  RunInv'
<1>1. TypeOK /\ EventsBounded /\ TokensCounted /\ \A m \in Event : GoroutineInv(m)
  BY DEF RunInv
<1>2. /\ loop = "next" /\ NextEvent(compute, gen).outcome = "event"
      /\ gen' = NextEvent(compute, gen).gen /\ loop' = "acquire"
      /\ fetched' = [event |-> NextEvent(compute, gen).event, more |-> NextEvent(compute, gen).more]
      /\ UNCHANGED <<compute, dispatched, semVars, pc, jobVars, outVars, crashed>>
  BY DEF FetchEvent
<1>3. PICK g : g = gen'
  OBVIOUS
<1>4. /\ g \in Generator
      /\ NextEvent(compute, gen).event \in Occurrence
      /\ NextEvent(compute, gen).more \in BOOLEAN
      /\ compute.kind \in {"streaming", "array"} =>
            g.loop = (IF LoopEnds(compute, gen) THEN 0 ELSE gen.loop + 1)
      /\ compute.kind = "array" =>
            /\ g.pos = (IF LoopEnds(compute, gen) THEN gen.pos + 1 ELSE gen.pos)
            /\ LoopEnds(compute, gen) /\ NextEvent(compute, gen).more
                  => gen.pos < LastValue(compute)
      /\ compute.kind \in {"list", "batch"} =>
            g.loop = gen.loop /\ g.pos = gen.pos + 1 /\ gen.pos + 1 <= Len(compute.tokens)
      /\ compute.kind = "streaming" =>
            /\ gen.token # Empty
            /\ g.pos \in 0 .. Len(compute.tokens)
            /\ ~LoopEnds(compute, gen) =>
                  g.pos = gen.pos /\ g.token = gen.token /\ g.more = gen.more
            /\ LoopEnds(compute, gen) =>
                  \/ g.token = Empty /\ g.pos = gen.pos
                  \/ g.more /\ g.pos = gen.pos + 1
  BY <1>1, <1>2, <1>3, ReturnFacts
<1>5. TypeOK'
  <2>1. fetched' \in [event : Occurrence, more : BOOLEAN]
    BY <1>2, <1>4
  <2> QED
    BY <1>1, <1>2, <1>3, <1>4, <2>1 DEF TypeOK, semVars, jobVars, outVars, Writers, Entry, Concurrency, Generator
<1>6. TokensCounted'
  BY <1>1, <1>2 DEF TokensCounted, Concurrency, Busy, semVars
<1> DEFINE p == PerIdentifier(compute)
<1>7. /\ p \in Nat \ {0} /\ Len(compute.tokens) \in Nat /\ compute.loops \in Nat
      /\ p = (IF compute.loops = 0 THEN 1 ELSE compute.loops)
      /\ gen.loop \in Nat /\ gen.loop < p /\ gen.pos \in Int
      /\ compute.first \in Int /\ LastValue(compute) \in Int
      /\ Returns \in Nat /\ Returns' = Returns + 1 /\ fetched' # <<>>
      /\ fetched'.more = NextEvent(compute, gen).more
      /\ compute.kind \in {"streaming", "array", "list", "batch"}
      /\ MostEvents(compute)' = MostEvents(compute) /\ PerIdentifier(compute)' = p
  <2>1. fetched'.more = NextEvent(compute, gen).more /\ fetched' # <<>>
    BY <1>2
  <2>2. Returns \in Nat /\ Returns' = Returns + 1
    BY <1>1, <1>2 DEF Returns, TypeOK
  <2>3. MostEvents(compute)' = MostEvents(compute) /\ PerIdentifier(compute)' = p
    BY <1>2 DEF MostEvents, LastValue, PerIdentifier
  <2>4. p = (IF compute.loops = 0 THEN 1 ELSE compute.loops)
    BY DEF PerIdentifier
  <2>5. gen.loop \in Nat /\ gen.loop < p /\ gen.pos \in Int
    BY <1>1 DEF TypeOK, EventsBounded
  <2> QED
    BY <1>1, <2>1, <2>2, <2>3, <2>4, <2>5, ComputeFacts
<1>8. LoopEnds(compute, gen) => gen.loop + 1 = p
  BY <1>7 DEF LoopEnds
<1>9. ~LoopEnds(compute, gen) => gen.loop + 1 < p
  BY <1>7 DEF LoopEnds
<1> HIDE DEF p
<1>10. gen.loop + 1 <= p /\ p \in Nat /\ gen.loop \in Nat /\ Returns' \in Nat
  BY <1>7
<1>11. EventsBounded'
  <2>1. CASE compute.kind = "array"
    <3>1. /\ Returns = (gen.pos - compute.first) * p + gen.loop /\ gen.pos <= LastValue(compute)
      BY <1>1, <1>2, <2>1 DEF EventsBounded, p
    <3>2. /\ MostEvents(compute) = (LastValue(compute) - compute.first + 1) * p
      BY <1>7, <2>1, Products DEF MostEvents, p
    <3>3. PICK a \in Int : a = gen.pos - compute.first
      BY <1>7
    <3>4. (a + 1) * p = a * p + p /\ a * p \in Int
      BY <1>7, <3>3, Products
    <3>5. (a + 1) * p <= (LastValue(compute) - compute.first + 1) * p
          /\ (a + 1) * p \in Int /\ (LastValue(compute) - compute.first + 1) * p \in Int
      <4>1. a + 1 \in Int /\ LastValue(compute) - compute.first + 1 \in Int
            /\ a + 1 <= LastValue(compute) - compute.first + 1
        BY <1>7, <3>1, <3>3
      <4> QED
        BY <1>7, <4>1, Products
    <3>6. PICK x \in Int : x = a * p /\ x + p = (a + 1) * p
      BY <3>4
    <3>7. Returns' = x + gen.loop + 1
      BY <1>7, <3>1, <3>3, <3>6
    <3>8. Returns' <= (a + 1) * p
      BY <1>10, <3>7, <3>6
    <3>9. Returns' <= MostEvents(compute)
      BY <1>7, <3>2, <3>4, <3>5, <3>7, <3>8
    <3>10. Returns' = (g.pos - compute.first) * p + g.loop /\ g.loop < p
      <4>1. CASE LoopEnds(compute, gen)
        <5>1. g.pos - compute.first = a + 1 /\ g.loop = 0
          BY <1>4, <1>7, <2>1, <3>3, <4>1
        <5>2. Returns' = (a + 1) * p
          BY <1>8, <1>10, <3>7, <3>6, <4>1
        <5> QED
          BY <1>7, <3>4, <3>5, <5>1, <5>2
      <4>2. CASE ~LoopEnds(compute, gen)
        <5>1. g.pos - compute.first = a /\ g.loop = gen.loop + 1
          BY <1>4, <1>7, <2>1, <3>3, <4>2
        <5>2. Returns' = a * p + (gen.loop + 1)
          BY <1>10, <3>7, <3>6
        <5> QED
          BY <1>9, <4>2, <5>1, <5>2
      <4> QED
        BY <4>1, <4>2
    <3>11. fetched'.more => g.pos <= LastValue(compute)
      BY <1>4, <1>7, <2>1, <3>1
    <3> QED
      BY <1>2, <1>3, <1>7, <2>1, <3>9, <3>10, <3>11 DEF EventsBounded
  <2>2. CASE compute.kind \in {"list", "batch"}
    <3>1. Returns = gen.pos
      BY <1>1, <2>2 DEF EventsBounded
    <3>2. Returns' = g.pos /\ g.loop < p
      BY <1>4, <1>7, <2>2, <3>1
    <3>3. MostEvents(compute) = Len(compute.tokens)
      <4>1. compute.loops = 0
        BY <1>1, <2>2, GeneratorAssumption DEF TypeOK
      <4>2. p = 1
        BY <1>7, <4>1
      <4> QED
        BY <1>7, <2>2, <4>2 DEF MostEvents, p
    <3>4. Returns' <= MostEvents(compute)
      BY <1>4, <1>7, <2>2, <3>1, <3>3
    <3> QED
      BY <1>2, <1>3, <1>7, <2>2, <3>2, <3>4 DEF EventsBounded
  <2>3. CASE compute.kind = "streaming"
    <3>1. /\ gen.token # Empty /\ gen.pos > 0 /\ gen.pos \in 0 .. Len(compute.tokens)
          /\ Returns <= (gen.pos - 1) * p + gen.loop /\ gen.more
      BY <1>1, <1>4, <2>3 DEF EventsBounded, p
    <3>2. MostEvents(compute) = Len(compute.tokens) * p
      BY <1>7, <2>3, Products DEF MostEvents, p
    <3>3. PICK a \in Int : a = gen.pos - 1
      BY <1>7
    <3>4. (a + 1) * p = a * p + p /\ a * p \in Int /\ (a + 1) * p \in Int
      BY <1>7, <3>3, Products
    <3>5. (a + 1) * p <= Len(compute.tokens) * p /\ Len(compute.tokens) * p \in Int
      <4>1. a + 1 \in Int /\ a + 1 <= Len(compute.tokens)
        BY <1>7, <3>1, <3>3
      <4> QED
        BY <1>7, <4>1, Products
    <3>6. \A b \in Int : a + 1 <= b => (a + 1) * p <= b * p /\ b * p \in Int
      BY <1>7, <3>3, Products
    <3>7. PICK x \in Int : x = a * p /\ x + p = (a + 1) * p
      BY <3>4
    <3>8. Returns' <= x + gen.loop + 1
      BY <1>7, <3>1, <3>3, <3>7
    <3>9. Returns' <= (a + 1) * p
      BY <1>10, <3>8, <3>7
    <3>10. Returns' <= MostEvents(compute)
      BY <1>7, <3>2, <3>4, <3>5, <3>9
    <3>11. CASE LoopEnds(compute, gen)
      <4>1. /\ g.loop = 0 /\ g.pos \in 0 .. Len(compute.tokens)
            /\ \/ g.token = Empty /\ g.pos = gen.pos
               \/ g.more /\ g.pos = gen.pos + 1
        BY <1>4, <2>3, <3>11
      <4>2. PICK b \in Int : b = (IF g.token # Empty THEN g.pos - 1 ELSE g.pos)
        BY <1>7, <4>1
      <4>3. a + 1 <= b
        BY <1>7, <3>3, <4>1, <4>2
      <4>4. Returns' <= b * p + 0
        <5>1. PICK y \in Int : y = b * p /\ (a + 1) * p <= y
          BY <3>6, <4>3
        <5> QED
          BY <1>10, <3>4, <3>9, <5>1
      <4>5. Returns' <= (IF g.token # Empty THEN g.pos - 1 ELSE g.pos) * p + g.loop
        BY <4>1, <4>2, <4>4
      <4>6. g.token # Empty => g.more /\ g.pos > 0
        BY <1>7, <3>1, <4>1
      <4>7. g.loop < p
        BY <1>7, <4>1
      <4> QED
        BY <1>2, <1>3, <1>7, <2>3, <3>10, <4>1, <4>5, <4>6, <4>7 DEF EventsBounded
    <3>12. CASE ~LoopEnds(compute, gen)
      <4>1. /\ g.loop = gen.loop + 1 /\ g.pos = gen.pos /\ g.token = gen.token /\ g.more = gen.more
        BY <1>4, <2>3, <3>12
      <4>2. Returns' <= (IF g.token # Empty THEN g.pos - 1 ELSE g.pos) * p + g.loop
        <5>1. Returns' <= a * p + (gen.loop + 1)
          BY <1>10, <3>8, <3>7
        <5> QED
          BY <3>1, <3>3, <4>1, <5>1
      <4>3. g.loop < p
        BY <1>7, <1>9, <3>12, <4>1
      <4> QED
        BY <1>2, <1>3, <1>7, <2>3, <3>1, <3>10, <4>1, <4>2, <4>3 DEF EventsBounded
    <3> QED
      BY <3>11, <3>12
  <2> QED
    BY <1>7, <2>1, <2>2, <2>3
<1> QED
  BY <1>1, <1>2, <1>5, <1>6, <1>11, GoroutinesStay DEF RunInv

LEMMA DispatchStep ==
  ASSUME RunInv, Dispatch
  PROVE  RunInv'
<1>1. TypeOK /\ EventsBounded /\ TokensCounted /\ \A m \in Event : GoroutineInv(m)
  BY DEF RunInv
<1>2. PICK n : n = Len(dispatched) + 1
  OBVIOUS
<1>3. /\ loop = "acquire" /\ semaphore < Concurrency /\ semaphore' = semaphore + 1
      /\ dispatched' = Append(dispatched, fetched.event)
      /\ pc' = [pc EXCEPT ![n] = "process"]
      /\ loop' = (IF fetched.more THEN "next" ELSE "wait")
      /\ UNCHANGED <<compute, gen, fetched, waited, jobVars, outVars, crashed>>
  BY <1>2 DEF Dispatch
<1>4. Len(dispatched) \in Nat /\ dispatched \in Seq(Occurrence)
  BY <1>1 DEF TypeOK
<1>5. Returns = n /\ n \in Event
  <2>1. Returns = n /\ n <= MostEvents(compute)
    BY <1>1, <1>2, <1>3 DEF Returns, EventsBounded
  <2>2. n \in 1 .. MostEvents(compute)
    BY <1>1, <1>2, <1>4, <2>1, ComputeFacts
  <2> QED
    BY <1>1, <2>1, <2>2, ComputeFacts
<1>6. fetched \in [event : Occurrence, more : BOOLEAN]
  BY <1>1, <1>3 DEF TypeOK, EventsBounded
<1>7. Len(dispatched') = n /\ dispatched' \in Seq(Occurrence) /\ loop' \in {"next", "wait"}
  BY <1>2, <1>3, <1>4, <1>6
<1>8. pc[n] = "idle"
  BY <1>1, <1>2, <1>4, <1>5 DEF GoroutineInv, StartsClean
<1>9. /\ pc' \in [Event -> PC] /\ pc'[n] = "process"
      /\ \A m \in Event \ {n} : pc'[m] = pc[m]
  BY <1>1, <1>3, <1>5 DEF TypeOK, PC
<1>10. TypeOK'
  <2>1. semaphore' \in 0 .. Concurrency /\ waited' \in 0 .. semaphore'
    BY <1>1, <1>3, ComputeFacts DEF TypeOK
  <2>2. loop' \in {"refused", "next", "acquire", "wait", "returned"}
    BY <1>7
  <2> QED
    BY <1>1, <1>3, <1>7, <1>9, <2>1, <2>2 DEF TypeOK, jobVars, outVars, Writers, Entry, Concurrency
<1>11. TokensCounted'
  <2>1. n \notin Busy /\ Busy' = Busy \cup {n}
    BY <1>5, <1>8, <1>9 DEF Busy
  <2>2. IsFiniteSet(Busy) /\ Cardinality(Busy) \in Nat
    BY <1>1, BusyFinite
  <2>3. Cardinality(Busy') = Cardinality(Busy) + 1
    <3>1. Cardinality(Busy \cup {n}) =
             (IF n \in Busy THEN Cardinality(Busy) ELSE Cardinality(Busy) + 1)
      BY <2>2, FS_AddElement
    <3> QED
      BY <2>1, <3>1
  <2>4. /\ semaphore = Cardinality(Busy) + waited /\ waited = 0 /\ Concurrency > 0
        /\ waited' = waited /\ semaphore' = semaphore + 1
    BY <1>1, <1>3 DEF TokensCounted
  <2>5. semaphore' = Cardinality(Busy') + waited'
    BY <2>2, <2>3, <2>4
  <2>6. Concurrency' = Concurrency
    BY <1>3, SameCompute
  <2> QED
    BY <1>7, <2>4, <2>5, <2>6 DEF TokensCounted
<1>12. EventsBounded'
  <2>1. Returns' = Returns
    BY <1>2, <1>5, <1>7 DEF Returns
  <2>2. MostEvents(compute)' = MostEvents(compute) /\ PerIdentifier(compute)' = PerIdentifier(compute)
    BY <1>3 DEF MostEvents, LastValue, PerIdentifier
  <2>3. loop' = "next" => fetched.more
    BY <1>3
  <2> QED
    BY <1>1, <1>3, <1>7, <2>1, <2>2, <2>3 DEF EventsBounded
<1>13. ASSUME NEW m \in Event PROVE GoroutineInv(m)'
  <2>1. GoroutineInv(m)
    BY <1>1
  <2>2. /\ Manifests' = Manifests /\ LastSlot' = LastSlot
        /\ Entries' = Entries /\ TagsApart' = TagsApart
        /\ ArraysKept' = ArraysKept /\ ArraysApart' = ArraysApart
        /\ \A i : NeedsPayload(i)' = NeedsPayload(i)
        /\ TagsEvent(m)' = TagsEvent(m)
        /\ \A i : Environment(m, i)' = Environment(m, i)
    BY <1>3, SameCompute DEF Environment, jobVars
  <2>3. CASE m # n
    <3>1. /\ pc'[m] = pc[m]
          /\ \A i : Built(m, i)' = Built(m, i) /\ AtWork(m, i)' = AtWork(m, i)
      BY <1>3, <1>9, <2>3 DEF Built, AtWork, jobVars, outVars
    <3>2. m > Len(dispatched') => m > Len(dispatched)
      <4>1. m \in Nat /\ Len(dispatched') = Len(dispatched) + 1
        BY <1>1, <1>2, <1>7, ComputeFacts
      <4> QED
        BY <1>4, <4>1
    <3>3. StartsClean(m)' /\ JobsInOrder(m)'
      BY <1>3, <2>1, <2>2, <3>1, <3>2 DEF GoroutineInv, StartsClean, JobsInOrder, jobVars, outVars
    <3>4. PayloadsNamed(m)'
      BY <1>3, <2>1, <2>2, <3>1 DEF GoroutineInv, PayloadsNamed, jobVars, outVars
    <3>5. EntriesOwned(m)'
      BY <1>3, <2>1, <2>2, <3>1 DEF GoroutineInv, EntriesOwned, jobVars, outVars
    <3> QED
      BY <3>3, <3>4, <3>5 DEF GoroutineInv
  <2>4. CASE m = n
    <3>1. man[n] = 1 /\ slot[n] = 0 /\ (\A i \in Manifest : env[n][i] = <<>>) /\ n \notin submitted
          /\ man[n] \in Manifests
      BY <1>8, <2>1, <2>4 DEF GoroutineInv, StartsClean, JobsInOrder
    <3>2. ~(n > Len(dispatched'))
      <4>1. n \in Nat /\ Len(dispatched') = n
        BY <1>2, <1>4, <1>7
      <4> QED
        BY <4>1
    <3>3. StartsClean(n)' /\ JobsInOrder(n)'
      BY <1>3, <1>9, <2>2, <3>1, <3>2 DEF StartsClean, JobsInOrder, jobVars, outVars
    <3>4. n \notin submitted' /\ \A i : ~Built(n, i)' /\ ~AtWork(n, i)'
      BY <1>3, <1>9, <3>1 DEF Built, AtWork, Building, outVars
    <3>5. PayloadsNamed(n)' /\ EntriesOwned(n)'
      BY <1>9, <3>4 DEF PayloadsNamed, EntriesOwned, Building
    <3> QED
      BY <2>4, <3>3, <3>5 DEF GoroutineInv
  <2> QED
    BY <2>3, <2>4
<1> QED
  BY <1>10, <1>11, <1>12, <1>13 DEF RunInv

LEMMA WaitStep ==
  ASSUME RunInv, Wait
  PROVE  RunInv'
<1>1. TypeOK /\ EventsBounded /\ TokensCounted /\ \A m \in Event : GoroutineInv(m)
  BY DEF RunInv
<1>2. /\ loop = "wait" /\ semaphore < Concurrency /\ semaphore' = semaphore + 1
      /\ waited' = waited + 1
      /\ loop' = (IF waited' = Concurrency THEN "returned" ELSE "wait")
      /\ UNCHANGED <<compute, gen, fetched, dispatched, pc, jobVars, outVars, crashed>>
  BY DEF Wait
<1>3. /\ semaphore \in 0 .. Concurrency /\ waited \in 0 .. semaphore /\ Concurrency \in Nat
      /\ semaphore = Cardinality(Busy) + waited /\ waited < Concurrency /\ Concurrency > 0
  BY <1>1, <1>2, ComputeFacts DEF TypeOK, TokensCounted
<1>4. loop' \in {"wait", "returned"}
  BY <1>2
<1>5. TypeOK'
  <2>1. semaphore' \in 0 .. Concurrency /\ waited' \in 0 .. semaphore'
    BY <1>2, <1>3
  <2>2. loop' \in {"refused", "next", "acquire", "wait", "returned"}
    BY <1>4
  <2> QED
    BY <1>1, <1>2, <2>1, <2>2 DEF TypeOK, jobVars, outVars, Writers, Entry, Concurrency
<1>6. TokensCounted'
  <2>1. Busy' = Busy /\ Cardinality(Busy) \in Nat
    BY <1>1, <1>2, BusyFinite DEF Busy
  <2>2. semaphore' = Cardinality(Busy') + waited'
    BY <1>2, <1>3, <2>1
  <2>3. loop' = "wait" => waited' < Concurrency
    BY <1>2, <1>3
  <2>4. loop' = "returned" => waited' = Concurrency
    BY <1>2
  <2>5. Concurrency' = Concurrency
    BY <1>2, SameCompute
  <2> QED
    BY <1>3, <1>4, <2>2, <2>3, <2>4, <2>5 DEF TokensCounted
<1>7. EventsBounded'
  BY <1>1, <1>2, <1>4 DEF EventsBounded, Returns, MostEvents, LastValue, PerIdentifier
<1> QED
  BY <1>1, <1>2, <1>5, <1>6, <1>7, GoroutinesStay DEF RunInv

\* A crash changes nothing else.
LEMMA OnlyCrash ==
  ASSUME RunInv, UNCHANGED <<loopVars, semVars, pc, jobVars, outVars>>, crashed' \in BOOLEAN
  PROVE  RunInv'
<1>1. TypeOK /\ EventsBounded /\ TokensCounted /\ \A m \in Event : GoroutineInv(m)
  BY DEF RunInv
<1>2. TypeOK'
  BY <1>1 DEF TypeOK, loopVars, semVars, jobVars, outVars, Writers, Entry, Concurrency
<1>3. TokensCounted'
  BY <1>1 DEF TokensCounted, Concurrency, Busy, loopVars, semVars
<1>4. EventsBounded'
  BY <1>1 DEF EventsBounded, Returns, MostEvents, LastValue, PerIdentifier, loopVars
<1> QED
  BY <1>1, <1>2, <1>3, <1>4, GoroutinesStay DEF RunInv, loopVars

LEMMA RunStep ==
  ASSUME RunInv, [Next]_vars
  PROVE  RunInv'
<1>1. CASE EventError
  BY <1>1, EventErrorStep
<1>2. CASE GeneratorPanics \/ MapRace \/ MergeRace
  BY <1>2, OnlyCrash DEF GeneratorPanics, MapRace, MergeRace
<1>3. CASE FetchEvent
  BY <1>3, FetchEventStep
<1>4. CASE Dispatch
  BY <1>4, DispatchStep
<1>5. CASE Wait
  BY <1>5, WaitStep
<1>6. ASSUME NEW n \in Event, EventStep(n) PROVE RunInv'
  BY <1>6, AnyEventStep
<1>7. CASE UNCHANGED vars
  <2>1. crashed' \in BOOLEAN
    BY <1>7 DEF vars, RunInv, TypeOK
  <2> QED
    BY <1>7, <2>1, OnlyCrash DEF vars
<1> QED
  BY <1>1, <1>2, <1>3, <1>4, <1>5, <1>6, <1>7 DEF Next, LoopStep

-----------------------------------------------------------------------------
(* Theorems *)

\* The bookkeeping of RunParallel holds in every run: tokens and goroutines
\* correspond, a goroutine goes through its manifests in order, and what it appends,
\* writes and tags stays its own while no other event works on the same map or array.
THEOREM RunInvariant == Spec => []RunInv
<1>1. Init => RunInv
  BY InitRun
<1>2. RunInv /\ [Next]_vars => RunInv'
  BY RunStep
<1> QED
  BY <1>1, <1>2, PTL DEF Spec

\* Every variable of RunParallel keeps its type: the semaphore never holds more than
\* its capacity, and there is a goroutine for every event.
THEOREM RunTypes == Spec => []TypeOK
<1>1. RunInv => TypeOK
  BY DEF RunInv
<1> QED
  BY <1>1, RunInvariant, PTL

\* If the events share no Tags map, or if they run one at a time, the tags of their jobs
\* name the payloads written for them (WritePayload).
THEOREM PayloadsOwned == Spec => []JobsOwnPayload
<1>1. RunInv => JobsOwnPayload
  <2> SUFFICES ASSUME RunInv, TagsApart, NEW n \in submitted, NEW i \in Manifests,
                      NeedsPayload(i)
               PROVE  tagged[n][i] = n /\ <<n, i>> \in written
    BY DEF JobsOwnPayload
  <2>1. n \in Event
    BY DEF RunInv, TypeOK
  <2>2. PayloadsNamed(n) /\ Built(n, i)
    BY <2>1 DEF RunInv, GoroutineInv, Built
  <2> QED
    BY <2>2 DEF PayloadsNamed
<1> QED
  BY <1>1, RunInvariant, PTL

\* Events that share no Environment with room for what is appended, or that run one at
\* a time, are submitted with their own entries; the former keep them.
THEOREM EnvironmentsOwned == Spec => []JobsOwnEnvironment
<1>1. RunInv => JobsOwnEnvironment
  <2> SUFFICES ASSUME RunInv, NEW n \in Event,
                      \/ n \in submitted /\ ArraysKept
                      \/ pc[n] \in {"submit", "save"} /\ ArraysApart,
                      NEW i \in Manifests, NEW k \in Entries
               PROVE  Environment(n, i)[k] = <<n, i>>
    BY DEF JobsOwnEnvironment
  <2>1. EntriesOwned(n)
    BY DEF RunInv, GoroutineInv
  <2>2. pc[n] \in {"submit", "save"} => AtWork(n, i)
    BY DEF AtWork
  <2> QED
    BY <2>1, <2>2 DEF EntriesOwned
<1> QED
  BY <1>1, RunInvariant, PTL

-----------------------------------------------------------------------------
(* What a stream has returned *)

LEMMA InitStream == Init => StreamRead
<1> SUFFICES ASSUME Init, compute.kind = "streaming" PROVE StreamRead
  BY DEF StreamRead
<1> DEFINE g == [pos |-> 0, loop |-> 0, token |-> Empty, more |-> TRUE]
<1>1. compute \in Computes /\ gen = ScanNext(compute, g) /\ Returns = 0
  <2>1. dispatched = <<>> /\ loop # "acquire" /\ compute \in Computes
    BY DEF Init
  <2>2. gen = ScanNext(compute, g)
    BY DEF Init, InitialGenerator
  <2> QED
    BY <2>1, <2>2 DEF Returns
<1>2. /\ Len(compute.tokens) \in Nat /\ PerIdentifier(compute) \in Nat
  <2>1. compute.tokens \in Seq({compute.tokens[i] : i \in DOMAIN compute.tokens})
        /\ compute.loops \in Nat
    BY <1>1, GeneratorAssumption
  <2> QED
    BY <2>1 DEF PerIdentifier
<1>3. g \in Generator /\ g.pos = 0 /\ g.loop = 0
  <2>1. Empty \in Token
    BY DEF Token
  <2> QED
    BY <2>1 DEF Generator
<1> HIDE DEF g
<1>4. /\ gen.token # Empty => gen.token = compute.tokens[gen.pos]
      /\ Len(Kept(compute)[Past(gen)]) = Len(Kept(compute)[0]) /\ gen.loop = 0
  <2>1. g.pos \in 0 .. Len(compute.tokens)
    BY <1>2, <1>3
  <2>2. /\ gen.token # Empty => gen.token = compute.tokens[gen.pos]
        /\ Len(Kept(compute)[Past(gen)]) = Len(Kept(compute)[g.pos])
    BY <1>1, <1>3, <2>1, ScanKept
  <2>3. gen.loop = g.loop
    BY <1>1, <1>3, <2>1, ScanFacts
  <2> QED
    BY <1>3, <2>2, <2>3
<1>5. Len(Kept(compute)[0]) = 0
  BY <1>2, KeptDef
<1> QED
  BY <1>1, <1>2, <1>4, <1>5 DEF StreamRead

\* The counts by which a stream goes on.
LEMMA StreamCounts ==
  ASSUME TypeOK, EventsBounded, StreamRead, compute.kind = "streaming"
  PROVE  /\ compute \in Computes /\ gen \in Generator
         /\ gen.pos \in 0 .. Len(compute.tokens) /\ Len(compute.tokens) \in Nat
         /\ PerIdentifier(compute) \in Nat \ {0}
         /\ gen.loop \in 0 .. (PerIdentifier(compute) - 1)
         /\ Past(gen) \in 0 .. Len(compute.tokens)
         /\ Len(Kept(compute)[Past(gen)]) \in Nat
         /\ gen.token = Empty => Past(gen) = gen.pos
         /\ gen.token # Empty =>
               /\ Past(gen) + 1 = gen.pos
               /\ Len(Kept(compute)[gen.pos]) = Len(Kept(compute)[Past(gen)]) + 1
               /\ Kept(compute)[gen.pos][Len(Kept(compute)[Past(gen)]) + 1] = gen.token
<1>1. /\ compute \in Computes /\ gen \in Generator /\ Len(compute.tokens) \in Nat
      /\ PerIdentifier(compute) \in Nat \ {0}
  BY ComputeFacts DEF TypeOK, Generator
<1>2. /\ gen.pos \in 0 .. Len(compute.tokens) /\ gen.loop < PerIdentifier(compute)
      /\ gen.token # Empty => gen.pos > 0 /\ gen.token = compute.tokens[gen.pos]
  BY DEF EventsBounded, StreamRead
<1>3. gen.loop \in 0 .. (PerIdentifier(compute) - 1)
  BY <1>1, <1>2 DEF Generator
<1>4. CASE gen.token = Empty
  <2>1. Past(gen) = gen.pos
    BY <1>4 DEF Past
  <2>2. Len(Kept(compute)[gen.pos]) \in Nat
    BY <1>1, <1>2, KeptGrows
  <2> QED
    BY <1>1, <1>2, <1>3, <1>4, <2>1, <2>2
<1>5. CASE gen.token # Empty
  <2>1. PICK n \in 0 .. Len(compute.tokens) : n = gen.pos /\ n > 0 /\ n - 1 = Past(gen)
    BY <1>1, <1>2, <1>5 DEF Past
  <2>2. n - 1 \in 0 .. Len(compute.tokens) /\ n - 1 \in 0 .. n /\ (n - 1) + 1 = n
    BY <1>1, <2>1
  <2>3. /\ Len(Kept(compute)[n]) = Len(Kept(compute)[n - 1]) + 1
        /\ Kept(compute)[n][Len(Kept(compute)[n - 1]) + 1] = compute.tokens[n]
    BY <1>1, <1>2, <1>5, <2>1, KeptGrows
  <2>4. Len(Kept(compute)[n - 1]) \in Nat
    BY <1>1, <2>2, KeptGrows
  <2> QED
    BY <1>1, <1>2, <1>3, <1>5, <2>1, <2>2, <2>3, <2>4
<1> QED
  BY <1>4, <1>5

LEMMA StreamStep ==
  ASSUME RunInv, StreamRead, [Next]_vars
  PROVE  StreamRead'
<1>1. TypeOK /\ EventsBounded
  BY DEF RunInv
<1>2. compute' = compute
  BY DEF Next, LoopStep, EventError, GeneratorPanics, FetchEvent, Dispatch, Wait, MapRace, MergeRace,
         EventStep, Process, NoPayload, WritePayload, TagPayload, AppendEnv, CloneTags, SubmitJobs,
         SaveJob, StepFails, Release, vars, loopVars
<1> SUFFICES ASSUME compute.kind = "streaming" PROVE StreamRead'
  BY <1>2 DEF StreamRead
<1> DEFINE p == PerIdentifier(compute)  k == Kept(compute)
<1>3. SUFFICES /\ gen'.token # Empty => gen'.token = compute.tokens[gen'.pos]
               /\ Returns' = Len(k[Past(gen')]) * p + gen'.loop
  BY <1>2 DEF StreamRead, Past, PerIdentifier
<1>4. /\ gen.token # Empty => gen.token = compute.tokens[gen.pos]
      /\ Returns = Len(k[Past(gen)]) * p + gen.loop
  BY DEF StreamRead
<1>5. /\ compute \in Computes /\ gen \in Generator
      /\ gen.pos \in 0 .. Len(compute.tokens) /\ p \in Nat \ {0} /\ gen.loop \in 0 .. (p - 1)
      /\ Len(k[Past(gen)]) \in Nat
      /\ gen.token = Empty => Past(gen) = gen.pos
      /\ gen.token # Empty => Len(k[gen.pos]) = Len(k[Past(gen)]) + 1
  BY <1>1, StreamCounts
<1>6. Len(dispatched) \in Nat /\ dispatched \in Seq(Occurrence)
  BY <1>1 DEF TypeOK
<1> HIDE DEF k
<1>7. CASE EventError
  <2>1. /\ loop = "next" /\ NextEvent(compute, gen).outcome = "error"
        /\ gen' = NextEvent(compute, gen).gen /\ UNCHANGED <<loop, dispatched>>
    BY <1>7 DEF EventError
  <2>2. gen.token = Empty /\ gen' = ScanNext(compute, gen)
    BY <2>1 DEF NextEvent, NextStreaming, Returned, Failed
  <2>3. /\ gen'.token # Empty => gen'.token = compute.tokens[gen'.pos]
        /\ Len(k[Past(gen')]) = Len(k[gen.pos]) /\ gen'.loop = gen.loop
    BY <1>5, <2>2, ScanKept, ScanFacts DEF k
  <2>4. Returns' = Returns
    BY <2>1 DEF Returns
  <2> QED
    BY <1>4, <1>5, <2>2, <2>3, <2>4
<1>8. CASE FetchEvent
  <2>1. /\ loop = "next" /\ NextEvent(compute, gen).outcome = "event"
        /\ gen' = NextEvent(compute, gen).gen /\ loop' = "acquire" /\ dispatched' = dispatched
    BY <1>8 DEF FetchEvent
  <2>2. Returns' = Returns + 1
    BY <1>6, <2>1 DEF Returns
  <2> DEFINE h == NextLoop(compute, gen)
  <2>3. /\ gen.token # Empty
        /\ gen' = IF LoopEnds(compute, gen) THEN ScanNext(compute, h) ELSE h
    BY <2>1 DEF NextEvent, NextStreaming, Returned, Failed
  <2>4. /\ h \in Generator /\ h.pos = gen.pos /\ h.token = gen.token
        /\ h.loop = (IF LoopEnds(compute, gen) THEN 0 ELSE gen.loop + 1)
    <3>1. PICK l \in Nat : l = (IF LoopEnds(compute, gen) THEN 0 ELSE gen.loop + 1)
      BY <1>5 DEF Generator
    <3>2. h = [gen EXCEPT !.loop = l]
      BY <3>1 DEF NextLoop
    <3> QED
      BY <1>5, <3>1, <3>2 DEF Generator
  <2> HIDE DEF h
  <2>5. CASE LoopEnds(compute, gen)
    <3>1. gen.loop + 1 = p
      <4>1. compute.loops \in Nat
        BY <1>5, GeneratorAssumption
      <4> QED
        BY <1>5, <2>5, <4>1 DEF LoopEnds, PerIdentifier
    <3>2. /\ gen'.token # Empty => gen'.token = compute.tokens[gen'.pos]
          /\ Len(k[Past(gen')]) = Len(k[gen.pos]) /\ gen'.loop = 0
      <4>1. gen' = ScanNext(compute, h) /\ h.pos \in 0 .. Len(compute.tokens)
        BY <1>5, <2>3, <2>4, <2>5
      <4>2. /\ gen'.token # Empty => gen'.token = compute.tokens[gen'.pos]
            /\ Len(Kept(compute)[Past(gen')]) = Len(Kept(compute)[h.pos])
        BY <1>5, <2>4, <4>1, ScanKept
      <4>3. gen'.loop = h.loop
        BY <1>5, <2>4, <4>1, ScanFacts
      <4> QED
        BY <2>4, <2>5, <4>2, <4>3 DEF k
    <3>3. PICK n \in Nat : n = Len(k[Past(gen)]) /\ Len(k[Past(gen')]) = n + 1
      BY <1>5, <2>3, <3>2
    <3> HIDE DEF p
    <3>4. PICK x \in Int : x = n * p /\ (n + 1) * p = x + p
      <4>1. n * p \in Int /\ (n + 1) * p = n * p + p
        BY <1>5, <3>3, Products
      <4> QED
        BY <4>1
    <3>5. Returns + 1 = (n + 1) * p
      <4>1. Returns = x + gen.loop
        BY <1>4, <3>3, <3>4
      <4> QED
        BY <1>5, <3>1, <3>4, <4>1
    <3> QED
      BY <1>5, <2>2, <3>2, <3>3, <3>4, <3>5
  <2>6. CASE ~LoopEnds(compute, gen)
    <3>1. gen' = h /\ Past(gen') = Past(gen) /\ gen'.loop = gen.loop + 1
      BY <2>3, <2>4, <2>6 DEF Past
    <3>2. PICK x \in Int : x = Len(k[Past(gen)]) * p
      BY <1>5
    <3>3. gen'.token = compute.tokens[gen'.pos]
      BY <1>4, <2>3, <2>4, <3>1
    <3> QED
      BY <1>4, <1>5, <2>2, <3>1, <3>2, <3>3
  <2> QED
    BY <2>5, <2>6
<1>9. CASE Dispatch
  <2>1. /\ loop = "acquire" /\ dispatched' = Append(dispatched, fetched.event)
        /\ loop' # "acquire" /\ gen' = gen
    BY <1>9 DEF Dispatch
  <2>2. fetched.event \in Occurrence
    BY <1>1, <2>1 DEF TypeOK, EventsBounded
  <2>3. Returns' = Returns
    BY <1>6, <2>1, <2>2 DEF Returns
  <2> QED
    BY <1>4, <2>1, <2>3
<1>10. CASE Wait
  <2>1. gen' = gen /\ Returns' = Returns
    BY <1>10 DEF Wait, Returns
  <2> QED
    BY <1>4, <2>1
<1>11. CASE UNCHANGED <<loop, gen, dispatched>>
  <2>1. gen' = gen /\ Returns' = Returns
    BY <1>11 DEF Returns
  <2> QED
    BY <1>4, <2>1
<1>12. EventError \/ FetchEvent \/ Dispatch \/ Wait \/ UNCHANGED <<loop, gen, dispatched>>
  BY DEF Next, LoopStep, GeneratorPanics, MapRace, MergeRace,
         EventStep, Process, NoPayload, WritePayload, TagPayload, AppendEnv, CloneTags, SubmitJobs,
         SaveJob, StepFails, Release, vars, loopVars
<1> QED
  BY <1>7, <1>8, <1>9, <1>10, <1>11, <1>12

-----------------------------------------------------------------------------
(* The promise *)

LEMMA UniqueQuotient ==
  ASSUME NEW p \in Nat \ {0}, NEW a \in Int, NEW b \in Int,
         NEW l \in 0 .. (p - 1), NEW m \in 0 .. (p - 1), a * p + l = b * p + m
  PROVE  a = b /\ l = m
<1>1. CASE a < b
  <2>1. (a + 1) * p <= b * p /\ (a + 1) * p = a * p + p
    BY <1>1, Products
  <2> QED
    BY <2>1
<1>2. CASE b < a
  <2>1. (b + 1) * p <= a * p /\ (b + 1) * p = b * p + p
    BY <1>2, Products
  <2> QED
    BY <2>1
<1> QED
  BY <1>1, <1>2

LEMMA QuotientAndRest ==
  ASSUME NEW p \in Nat \ {0}, NEW a \in Int, NEW l \in 0 .. (p - 1)
  PROVE  (a * p + l) \div p = a /\ (a * p + l) % p = l
<1>1. a * p + l \in Int
  OBVIOUS
<1>2. \A n \in Int : n = p * (n \div p) + (n % p) /\ (n % p) \in 0 .. (p - 1) /\ n \div p \in Int
  OBVIOUS
<1> QED
  BY <1>1, <1>2, UniqueQuotient

\* A generator promises, for each of its identifiers, one event for each position of
\* the loop: no more than it may return, and as many unless it is a stream.
LEMMA PromisedFacts ==
  ASSUME NEW c \in Computes
  PROVE  /\ Len(Identifiers(c)) \in Nat
         /\ Len(Promised(c)) = Len(Identifiers(c)) * PerIdentifier(c)
         /\ Len(Promised(c)) \in Nat /\ MostEvents(c) \in Nat
         /\ Len(Promised(c)) <= MostEvents(c)
         /\ c.kind # "streaming" => Len(Promised(c)) = MostEvents(c)
         /\ \A i \in 1 .. Len(Promised(c)) : i \in DOMAIN Promised(c)
         /\ Promised(c) \in Seq({Promised(c)[i] : i \in DOMAIN Promised(c)})
         /\ \A a \in 0 .. (Len(Identifiers(c)) - 1), l \in 0 .. (PerIdentifier(c) - 1) :
               Promised(c)[a * PerIdentifier(c) + l + 1] = <<Identifiers(c)[a + 1], l>>
<1> DEFINE p == PerIdentifier(c)  ids == Identifiers(c)
<1>1. /\ c.kind \in {"streaming", "array", "list", "batch"} /\ c.loops \in Nat
      /\ c.first \in Int /\ LastValue(c) \in Int /\ c.first <= LastValue(c)
      /\ c.tokens \in Seq({c.tokens[i] : i \in DOMAIN c.tokens})
      /\ c.kind \in {"list", "batch"} => c.loops = 0
  <2>1. /\ c.first \in Int /\ c.last \in Int /\ c.loops \in Nat
        /\ c.kind \in {"streaming", "array", "list", "batch"}
        /\ c.kind \in {"list", "batch"} => c.loops = 0
    BY GeneratorAssumption
  <2>2. c.tokens \in Seq({c.tokens[i] : i \in DOMAIN c.tokens})
    BY GeneratorAssumption
  <2>3. LastValue(c) \in Int /\ c.first <= LastValue(c)
    BY <2>1 DEF LastValue
  <2> QED
    BY <2>1, <2>2, <2>3
<1>2. p \in Nat \ {0} /\ (c.loops = 0 => p = 1)
  BY <1>1 DEF PerIdentifier
<1>3. /\ Len(ids) \in Nat /\ MostEvents(c) \in Nat
      /\ Len(ids) * p <= MostEvents(c)
      /\ c.kind # "streaming" => Len(ids) * p = MostEvents(c)
  <2>1. CASE c.kind = "array"
    <3>1. ids = [i \in 1 .. (LastValue(c) - c.first + 1) |-> c.first + i - 1]
      BY <2>1 DEF Identifiers
    <3>2. LastValue(c) - c.first + 1 \in Nat \ {0}
      BY <1>1
    <3>3. Len(ids) = LastValue(c) - c.first + 1
      BY <3>1, <3>2
    <3>4. MostEvents(c) = p * (LastValue(c) - c.first + 1)
      BY <2>1 DEF MostEvents
    <3>5. PICK n \in Nat : n = Len(ids)
      BY <3>2, <3>3
    <3> HIDE DEF p
    <3>6. PICK x \in Int : x = n * p /\ x >= 0 /\ p * n = x
      <4>1. n * p \in Int /\ p * n = n * p /\ 0 * p <= n * p
        <5>1. 0 \in Int /\ n \in Int /\ 0 <= n /\ p \in Nat
          BY <1>2, <3>5
        <5> QED
          BY <5>1, Products
      <4> QED
        BY <1>2, <4>1
    <3> QED
      BY <2>1, <3>3, <3>4, <3>5, <3>6
  <2>2. CASE c.kind \in {"list", "batch"}
    <3>1. Len(c.tokens) \in Nat /\ DOMAIN c.tokens = 1 .. Len(c.tokens)
      BY <1>1, <2>2
    <3>2. Len(ids) = Len(c.tokens)
      <4>1. CASE c.kind = "list"
        <5>1. ids = [i \in DOMAIN c.tokens |-> ListIdentifier(c, i)]
          BY <4>1 DEF Identifiers
        <5> QED
          BY <3>1, <5>1
      <4>2. CASE c.kind = "batch"
        BY <4>2 DEF Identifiers
      <4> QED
        BY <2>2, <4>1, <4>2
    <3>3. MostEvents(c) = p * Len(c.tokens) /\ p = 1
      BY <1>1, <1>2, <2>2 DEF MostEvents
    <3> QED
      BY <3>1, <3>2, <3>3
  <2>3. CASE c.kind = "streaming"
    <3>1. Len(c.tokens) \in Nat
      BY <1>1
    <3>2. ids = Kept(c)[Len(c.tokens)]
      BY <2>3 DEF Identifiers
    <3>3. Len(ids) \in Nat /\ Len(ids) <= Len(c.tokens)
      <4>1. PICK n \in 0 .. Len(c.tokens) : n = Len(c.tokens)
        BY <3>1
      <4>2. Kept(c)[n] \in Seq({c.tokens[i] : i \in DOMAIN c.tokens}) /\ Len(Kept(c)[n]) <= n
        BY KeptGrows
      <4>3. Len(Kept(c)[n]) \in Nat
        BY <4>2
      <4> QED
        BY <3>2, <4>1, <4>2, <4>3
    <3>4. MostEvents(c) = p * Len(c.tokens)
      BY <2>3 DEF MostEvents
    <3>5. PICK n \in Nat, m \in Nat : n = Len(ids) /\ m = Len(c.tokens) /\ n <= m
      BY <3>1, <3>3
    <3> HIDE DEF p
    <3>6. PICK x \in Int, y \in Int :
            x = n * p /\ x >= 0 /\ y = m * p /\ p * m = y /\ x <= y
      <4>1. /\ n * p \in Int /\ m * p \in Int /\ p * m = m * p /\ 0 * p <= n * p
            /\ n * p <= m * p
        <5>1. /\ 0 \in Int /\ n \in Int /\ m \in Int /\ 0 <= n /\ n <= m
              /\ p \in Nat
          BY <1>2, <3>5
        <5> QED
          BY <5>1, Products
      <4> QED
        BY <1>2, <4>1
    <3> QED
      BY <2>3, <3>4, <3>5, <3>6
  <2> QED
    BY <1>1, <2>1, <2>2, <2>3
<1> HIDE DEF p, ids
<1>4. PICK k \in Nat : k = Len(ids) * p
  BY <1>2, <1>3, Products
<1>5. Promised(c) = [i \in 1 .. k |-> <<ids[((i - 1) \div p) + 1], (i - 1) % p>>]
  BY <1>4 DEF Promised, p, ids
<1>6. Len(Promised(c)) = k /\ DOMAIN Promised(c) = 1 .. k
  BY <1>5
<1>7. Promised(c) \in Seq({Promised(c)[i] : i \in DOMAIN Promised(c)})
  <2>1. \A i \in 1 .. k : Promised(c)[i] \in {Promised(c)[j] : j \in DOMAIN Promised(c)}
    BY <1>6
  <2>2. Promised(c) \in [1 .. k -> {Promised(c)[j] : j \in DOMAIN Promised(c)}]
    BY <1>5, <2>1
  <2> QED
    BY <2>2
<1>8. ASSUME NEW a \in 0 .. (Len(ids) - 1), NEW l \in 0 .. (p - 1)
      PROVE  Promised(c)[a * p + l + 1] = <<ids[a + 1], l>>
  <2>1. a \in Nat /\ a + 1 \in Int /\ a + 1 <= Len(ids) /\ 0 <= a
    BY <1>3
  <2>2. /\ (a + 1) * p <= Len(ids) * p /\ (a + 1) * p = a * p + p /\ a * p \in Int
        /\ 0 * p <= a * p
    BY <1>2, <1>3, <2>1, Products
  <2>3. PICK x \in Int : x = a * p /\ x >= 0 /\ x + p <= k
    BY <1>2, <1>4, <2>2
  <2>4. x + l + 1 \in 1 .. k /\ (x + l + 1) - 1 = x + l
    BY <1>2, <2>3
  <2>5. (x + l) \div p = a /\ (x + l) % p = l
    BY <1>2, <2>1, <2>3, QuotientAndRest
  <2> QED
    BY <1>5, <2>3, <2>4, <2>5
<1> QED
  BY <1>3, <1>4, <1>6, <1>7, <1>8 DEF p, ids

\* The event that a generator returns next is the next one promised, and when it says
\* that there is no more there is none.
LEMMA NextPromised ==
  ASSUME RunInv, loop = "next", NextEvent(compute, gen).outcome = "event",
         compute.kind # "streaming"
  PROVE  /\ NextEvent(compute, gen).event = Promised(compute)[Returns + 1]
         /\ ~NextEvent(compute, gen).more => Returns + 1 = Len(Promised(compute))
<1> DEFINE p == PerIdentifier(compute)  ids == Identifiers(compute)
<1>1. TypeOK /\ EventsBounded
  BY DEF RunInv
<1>2. /\ compute \in Computes /\ compute.kind \in {"array", "list", "batch"}
      /\ p \in Nat \ {0} /\ gen.loop \in 0 .. (p - 1) /\ gen.pos \in Int
      /\ compute.first \in Int /\ LastValue(compute) \in Int
      /\ Len(compute.tokens) \in Nat /\ Returns \in Nat
      /\ compute.loops \in Nat
  <2>1. gen.loop \in Nat /\ gen.loop < p /\ gen.pos \in Int
    BY <1>1 DEF TypeOK, EventsBounded
  <2>2. Returns \in Nat
    BY <1>1 DEF TypeOK, Returns
  <2> QED
    BY <1>1, <2>1, <2>2, ComputeFacts
<1>3. /\ Len(ids) \in Nat /\ Len(Promised(compute)) = Len(ids) * p
      /\ \A a \in 0 .. (Len(ids) - 1), l \in 0 .. (p - 1) :
             Promised(compute)[a * p + l + 1] = <<ids[a + 1], l>>
  BY <1>2, PromisedFacts
<1>4. CASE compute.kind = "array"
  <2>1. PICK a \in Int : a = gen.pos - compute.first
    BY <1>2
  <2>2. Returns = a * p + gen.loop /\ gen.pos <= LastValue(compute)
    BY <1>1, <1>4, <2>1 DEF EventsBounded
  <2>3. /\ ids = [i \in 1 .. (LastValue(compute) - compute.first + 1) |-> compute.first + i - 1]
        /\ Len(ids) = LastValue(compute) - compute.first + 1
    <3>1. LastValue(compute) - compute.first + 1 \in Nat
      BY <1>1, <1>2, ComputeFacts
    <3>2. ids = [i \in 1 .. (LastValue(compute) - compute.first + 1) |-> compute.first + i - 1]
      BY <1>4 DEF Identifiers
    <3> QED
      BY <3>1, <3>2
  <2> HIDE DEF ids, p
  <2>4. a \in 0 .. (Len(ids) - 1)
    <3>1. a >= 0
      <4> SUFFICES ASSUME a + 1 <= 0 PROVE FALSE
        BY <2>1
      <4>1. (a + 1) * p <= 0 * p /\ (a + 1) * p = a * p + p /\ a * p \in Int
        <5>1. p \in Nat /\ a \in Int /\ a + 1 \in Int /\ 0 \in Int
          BY <1>2, <2>1
        <5>2. (a + 1) * p <= 0 * p
          BY <5>1, Products
        <5>3. (a + 1) * p = a * p + p /\ a * p \in Int
          BY <5>1, Products
        <5> QED
          BY <5>2, <5>3
      <4>2. PICK x \in Int : x = a * p /\ x + p <= 0
        BY <1>2, <4>1
      <4>3. Returns = x + gen.loop
        BY <2>2, <4>2
      <4>4. p \in Nat /\ Returns \in Nat /\ gen.loop \in Int /\ gen.loop < p
        BY <1>2
      <4> QED
        BY <4>2, <4>3, <4>4
    <3>2. gen.pos <= LastValue(compute)
      BY <2>2
    <3>3. a <= Len(ids) - 1
      <4>1. Len(ids) - 1 = LastValue(compute) - compute.first
        <5>1. Len(ids) = LastValue(compute) - compute.first + 1
          BY <2>3
        <5> QED
          BY <1>2, <5>1
      <4>2. a <= LastValue(compute) - compute.first
        BY <1>2, <2>1, <3>2
      <4> QED
        BY <4>1, <4>2
    <3> QED
      BY <1>3, <2>1, <3>1, <3>3
  <2>5. ids[a + 1] = gen.pos
    <3>1. a + 1 \in 1 .. (LastValue(compute) - compute.first + 1)
      <4>1. LastValue(compute) - compute.first + 1 = Len(ids) /\ Len(ids) \in Nat
        BY <1>3, <2>3
      <4> QED
        BY <2>4, <4>1
    <3>2. ids[a + 1] = compute.first + (a + 1) - 1
      BY <2>3, <3>1
    <3> QED
      BY <1>2, <2>1, <3>2
  <2>6. Promised(compute)[Returns + 1] = <<gen.pos, gen.loop>>
    BY <1>2, <1>3, <2>2, <2>4, <2>5
  <2>7. /\ NextEvent(compute, gen).event = <<gen.pos, gen.loop>>
        /\ NextEvent(compute, gen).more = (IF LoopEnds(compute, gen) THEN gen.pos < compute.last
                                                                    ELSE TRUE)
    BY <1>4 DEF NextEvent, NextArray, Returned
  <2>8. ASSUME ~NextEvent(compute, gen).more PROVE Returns + 1 = Len(Promised(compute))
    <3>1. LoopEnds(compute, gen) /\ ~(gen.pos < LastValue(compute))
      <4>1. LoopEnds(compute, gen) /\ ~(gen.pos < compute.last)
        BY <2>7, <2>8
      <4>2. gen.pos >= compute.first /\ compute.first \in Int /\ compute.last \in Int
        <5>1. compute.first \in Int /\ compute.last \in Int
          BY <1>2, GeneratorAssumption
        <5> QED
          BY <1>2, <1>3, <2>1, <2>4, <5>1
      <4> QED
        BY <1>2, <4>1, <4>2 DEF LastValue
    <3>2. gen.loop + 1 = p
      BY <1>2, <3>1 DEF LoopEnds, PerIdentifier, p
    <3>3. a + 1 = Len(ids)
      <4>1. gen.pos = LastValue(compute)
        BY <1>2, <2>2, <3>1
      <4>2. Len(ids) = LastValue(compute) - compute.first + 1
        BY <2>3
      <4> QED
        BY <1>2, <2>1, <4>1, <4>2
    <3>4. PICK x \in Int : x = a * p /\ (a + 1) * p = x + p
      BY <1>2, <2>1, Products
    <3>5. Returns + 1 = x + p
      BY <1>2, <2>2, <3>2, <3>4
    <3> QED
      BY <1>3, <3>3, <3>4, <3>5
  <2> QED
    BY <2>6, <2>7, <2>8
<1>5. CASE compute.kind \in {"list", "batch"}
  <2>1. Returns = gen.pos /\ gen.pos \in Nat
    BY <1>1, <1>2, <1>5 DEF EventsBounded
  <2>2. p = 1 /\ gen.loop = 0
    <3>1. compute.loops = 0
      BY <1>2, <1>5, GeneratorAssumption
    <3>2. p = 1
      BY <3>1 DEF PerIdentifier
    <3> QED
      BY <1>2, <3>2
  <2>3. Len(ids) = Len(compute.tokens) /\ DOMAIN compute.tokens = 1 .. Len(compute.tokens)
        /\ \A i \in 1 .. Len(compute.tokens) :
              ids[i] = IF compute.kind = "list" THEN ListIdentifier(compute, i) ELSE compute.tokens[i]
    <3>1. compute.tokens \in Seq({compute.tokens[i] : i \in DOMAIN compute.tokens})
      BY <1>2, GeneratorAssumption
    <3>2. DOMAIN compute.tokens = 1 .. Len(compute.tokens)
      BY <3>1
    <3>3. CASE compute.kind = "list"
      <4>1. ids = [i \in DOMAIN compute.tokens |-> ListIdentifier(compute, i)]
        BY <3>3 DEF Identifiers
      <4> QED
        BY <1>2, <3>2, <3>3, <4>1
    <3>4. CASE compute.kind = "batch"
      BY <3>2, <3>4 DEF Identifiers
    <3> QED
      BY <1>5, <3>3, <3>4
  <2> HIDE DEF ids, p
  <2>4. ASSUME gen.pos < Len(compute.tokens)
        PROVE  Promised(compute)[gen.pos + 1] = <<ids[gen.pos + 1], 0>>
    <3>1. gen.pos \in 0 .. (Len(ids) - 1) /\ 0 \in 0 .. (p - 1)
      BY <1>2, <2>1, <2>2, <2>3, <2>4
    <3>2. Promised(compute)[gen.pos * p + 0 + 1] = <<ids[gen.pos + 1], 0>>
      BY <1>3, <3>1
    <3> QED
      BY <2>1, <2>2, <3>2
  <2>5. Len(Promised(compute)) = Len(compute.tokens)
    BY <1>2, <1>3, <2>2, <2>3
  <2>6. CASE compute.kind = "list"
    <3>1. NextEvent(compute, gen) = NextList(compute, gen)
      BY <2>6 DEF NextEvent
    <3>2. gen.pos < Len(compute.tokens)
      <4>1. ~(gen.pos >= Len(compute.tokens))
        BY <3>1 DEF NextList, Panicked
      <4> QED
        BY <1>2, <2>1, <4>1
    <3>3. NextEvent(compute, gen) =
            Returned(ListIdentifier(compute, gen.pos + 1), 0,
                     gen.pos < Len(compute.tokens) - 1, [gen EXCEPT !.pos = @ + 1])
      BY <1>2, <2>1, <3>1, <3>2 DEF NextList
    <3>4. ids[gen.pos + 1] = ListIdentifier(compute, gen.pos + 1)
      BY <1>2, <2>1, <2>3, <2>6, <3>2
    <3>5. NextEvent(compute, gen).event = Promised(compute)[Returns + 1]
      BY <2>1, <2>4, <3>2, <3>3, <3>4 DEF Returned
    <3>6. NextEvent(compute, gen).more = (gen.pos < Len(compute.tokens) - 1)
      BY <3>3 DEF Returned
    <3>7. ASSUME ~NextEvent(compute, gen).more PROVE Returns + 1 = Len(Promised(compute))
      <4>1. ~(gen.pos < Len(compute.tokens) - 1)
        BY <3>6, <3>7
      <4> QED
        BY <1>2, <2>1, <2>5, <3>2, <4>1
    <3> QED
      BY <3>5, <3>7
  <2>7. CASE compute.kind = "batch"
    <3>1. NextEvent(compute, gen) = NextBatch(compute, gen)
      BY <2>7 DEF NextEvent
    <3>2. /\ (gen.pos + 1 <= Len(compute.tokens)) = TRUE
          /\ gen.pos + 1 \notin compute.lacking /\ gen.pos + 1 \notin compute.unmergeable
      BY <3>1 DEF NextBatch, Panicked, Failed
    <3>3. NextEvent(compute, gen) =
            Returned(compute.tokens[gen.pos + 1], 0, TRUE, [gen EXCEPT !.pos = @ + 1])
      BY <3>1, <3>2 DEF NextBatch
    <3>4. gen.pos < Len(compute.tokens)
      BY <1>2, <2>1, <3>2
    <3>5. ids[gen.pos + 1] = compute.tokens[gen.pos + 1]
      BY <1>2, <2>1, <2>3, <2>7, <3>4
    <3> QED
      BY <2>1, <2>4, <3>3, <3>4, <3>5 DEF Returned
  <2> QED
    BY <1>5, <2>6, <2>7
<1> QED
  BY <1>2, <1>4, <1>5

\* So is that of a stream: it is of the token in hand, the first one kept that it has
\* not done with.
LEMMA NextOfStream ==
  ASSUME RunInv, StreamRead, loop = "next", NextEvent(compute, gen).outcome = "event",
         compute.kind = "streaming"
  PROVE  /\ Returns + 1 <= Len(Promised(compute))
         /\ NextEvent(compute, gen).event = Promised(compute)[Returns + 1]
         /\ ~NextEvent(compute, gen).more => Returns + 1 = Len(Promised(compute))
<1> DEFINE p == PerIdentifier(compute)
           ids == Identifiers(compute)
           k == Kept(compute)
           a == Len(k[Past(gen)])
           h == NextLoop(compute, gen)
<1>1. TypeOK /\ EventsBounded
  BY DEF RunInv
<1>2. /\ gen.token # Empty
      /\ NextEvent(compute, gen).event = <<gen.token, gen.loop>>
      /\ NextEvent(compute, gen).more =
            IF LoopEnds(compute, gen) THEN ScanNext(compute, h).more ELSE h.more
  BY DEF NextEvent, NextStreaming, Returned, Failed
<1>3. /\ compute \in Computes /\ gen \in Generator
      /\ gen.pos \in 0 .. Len(compute.tokens) /\ Len(compute.tokens) \in Nat
      /\ p \in Nat \ {0} /\ gen.loop \in 0 .. (p - 1) /\ a \in Nat
      /\ Len(k[gen.pos]) = a + 1 /\ k[gen.pos][a + 1] = gen.token
  BY <1>1, <1>2, StreamCounts
<1>4. Returns = a * p + gen.loop
  BY DEF StreamRead
<1>5. ids = k[Len(compute.tokens)]
  BY DEF Identifiers
<1>6. /\ Len(ids) \in Nat /\ Len(Promised(compute)) = Len(ids) * p
      /\ \A b \in 0 .. (Len(ids) - 1), l \in 0 .. (p - 1) :
             Promised(compute)[b * p + l + 1] = <<ids[b + 1], l>>
  BY <1>3, PromisedFacts
<1>7. a + 1 <= Len(ids) /\ ids[a + 1] = gen.token
  <2>1. PICK n \in 0 .. Len(compute.tokens) : n = Len(compute.tokens)
    BY <1>3
  <2>2. gen.pos \in 0 .. n
    BY <1>3, <2>1
  <2>3. /\ Len(k[gen.pos]) \in 0 .. Len(k[n])
        /\ \A i \in 1 .. Len(k[gen.pos]) : k[n][i] = k[gen.pos][i]
    BY <1>3, <2>1, <2>2, KeptGrows
  <2> HIDE DEF a, k, ids
  <2> QED
    BY <1>3, <1>5, <1>6, <2>1, <2>3
<1> HIDE DEF p, ids, k, a
<1>8. PICK x \in Int : x = a * p /\ x + p = (a + 1) * p
  <2>1. a * p \in Int /\ (a + 1) * p = a * p + p
    BY <1>3, Products
  <2> QED
    BY <2>1
<1>9. x + p <= Len(Promised(compute))
  <2>1. (a + 1) * p <= Len(ids) * p
    <3>1. a + 1 \in Int /\ Len(ids) \in Int /\ p \in Nat
      BY <1>3, <1>6
    <3> QED
      BY <1>7, <3>1, Products
  <2> QED
    BY <1>6, <1>8, <2>1
<1>10. Returns = x + gen.loop
  BY <1>4, <1>8
<1>11. Promised(compute)[Returns + 1] = <<gen.token, gen.loop>>
  <2>1. a \in 0 .. (Len(ids) - 1)
    BY <1>3, <1>6, <1>7
  <2>2. Promised(compute)[a * p + gen.loop + 1] = <<ids[a + 1], gen.loop>>
    BY <1>3, <1>6, <2>1
  <2> QED
    BY <1>4, <1>7, <2>2
<1>12. Returns + 1 <= Len(Promised(compute))
  <2>1. Len(Promised(compute)) \in Nat
    BY <1>3, PromisedFacts
  <2> QED
    BY <1>3, <1>8, <1>9, <1>10, <2>1
<1>13. ASSUME ~NextEvent(compute, gen).more PROVE Returns + 1 = Len(Promised(compute))
  <2>1. h \in Generator /\ h.pos = gen.pos /\ h.more
    <3>1. PICK l \in Nat : l = (IF LoopEnds(compute, gen) THEN 0 ELSE gen.loop + 1)
      BY <1>3 DEF Generator
    <3>2. h = [gen EXCEPT !.loop = l]
      BY <3>1 DEF NextLoop
    <3>3. gen.more
      BY <1>1, <1>2 DEF EventsBounded
    <3> QED
      BY <1>3, <3>1, <3>2, <3>3 DEF Generator
  <2> HIDE DEF h
  <2>2. LoopEnds(compute, gen) /\ ~ScanNext(compute, h).more
    BY <1>2, <1>13, <2>1
  <2>3. gen.pos = Len(compute.tokens)
    BY <1>3, <2>1, <2>2, ScanKept
  <2>4. gen.loop + 1 = p
    <3>1. compute.loops \in Nat
      BY <1>3, GeneratorAssumption
    <3> QED
      BY <1>3, <2>2, <3>1 DEF LoopEnds, PerIdentifier, p
  <2>5. Len(ids) = a + 1
    BY <1>3, <1>5, <2>3
  <2> QED
    BY <1>3, <1>6, <1>8, <1>10, <2>4, <2>5
<1> QED
  BY <1>2, <1>11, <1>12, <1>13

LEMMA PromiseStep ==
  ASSUME RunInv, StreamRead, PromiseKept, [Next]_vars
  PROVE  PromiseKept'
<1>1. TypeOK /\ EventsBounded
  BY DEF RunInv
<1>2. compute' = compute
  BY DEF Next, LoopStep, EventError, GeneratorPanics, FetchEvent, Dispatch, Wait, MapRace, MergeRace,
         EventStep, Process, NoPayload, WritePayload, TagPayload, AppendEnv, CloneTags, SubmitJobs,
         SaveJob, StepFails, Release, vars, loopVars
<1>3. /\ Promised(compute)' = Promised(compute) /\ compute \in Computes
      /\ Len(Promised(compute)) \in Nat
      /\ Len(dispatched) \in Nat /\ dispatched \in Seq(Occurrence)
  <2>1. compute \in Computes /\ dispatched \in Seq(Occurrence)
    BY <1>1 DEF TypeOK
  <2>2. Promised(compute)' = Promised(compute)
    BY <1>2
  <2>3. Len(Promised(compute)) \in Nat
    BY <2>1, PromisedFacts
  <2>4. Len(dispatched) \in Nat
    BY <2>1
  <2> QED
    BY <2>1, <2>2, <2>3, <2>4
<1> DEFINE promised == Promised(compute)
<1>4. /\ Len(dispatched) <= Len(promised)
      /\ \A i \in 1 .. Len(dispatched) : dispatched[i] = promised[i]
      /\ loop = "acquire" =>
            /\ Returns <= Len(promised)
            /\ fetched.event = promised[Returns]
            /\ ~fetched.more => Returns = Len(promised)
      /\ loop \in {"wait", "returned"} => Len(dispatched) = Len(promised)
  BY DEF PromiseKept
<1>5. SUFFICES
        /\ Len(dispatched') <= Len(promised)
        /\ \A i \in 1 .. Len(dispatched') : dispatched'[i] = promised[i]
        /\ loop' = "acquire" =>
              /\ Returns' <= Len(promised)
              /\ fetched'.event = promised[Returns']
              /\ ~fetched'.more => Returns' = Len(promised)
        /\ loop' \in {"wait", "returned"} => Len(dispatched') = Len(promised)
  BY <1>2, <1>3 DEF PromiseKept
<1> HIDE DEF promised
<1>6. CASE FetchEvent
  <2>1. /\ loop = "next" /\ NextEvent(compute, gen).outcome = "event" /\ loop' = "acquire"
        /\ fetched' = [event |-> NextEvent(compute, gen).event, more |-> NextEvent(compute, gen).more]
        /\ dispatched' = dispatched
    BY <1>6 DEF FetchEvent
  <2>2. Returns' = Returns + 1
    BY <1>3, <2>1 DEF Returns
  <2>3. /\ Returns + 1 <= Len(promised)
        /\ NextEvent(compute, gen).event = promised[Returns + 1]
        /\ ~NextEvent(compute, gen).more => Returns + 1 = Len(promised)
    <3>1. CASE compute.kind = "streaming"
      BY <2>1, <3>1, NextOfStream DEF promised
    <3>2. CASE compute.kind # "streaming"
      <4>1. Returns' <= MostEvents(compute)
        BY <1>2, <2>1, RunStep DEF RunInv, EventsBounded, Returns
      <4>2. Len(promised) = MostEvents(compute)
        BY <1>3, <3>2, PromisedFacts DEF promised
      <4> QED
        BY <2>1, <2>2, <3>2, <4>1, <4>2, NextPromised DEF promised
    <3> QED
      BY <3>1, <3>2
  <2> QED
    BY <1>4, <2>1, <2>2, <2>3
<1>7. CASE Dispatch
  <2>1. /\ loop = "acquire" /\ dispatched' = Append(dispatched, fetched.event)
        /\ loop' = (IF fetched.more THEN "next" ELSE "wait")
    BY <1>7 DEF Dispatch
  <2>2. Returns = Len(dispatched) + 1 /\ Returns <= Len(promised)
    BY <1>4, <2>1 DEF Returns
  <2>3. /\ Len(dispatched') = Len(dispatched) + 1
        /\ \A i \in 1 .. Len(dispatched) : dispatched'[i] = dispatched[i]
        /\ dispatched'[Len(dispatched) + 1] = fetched.event
    <3>1. fetched.event \in Occurrence
      BY <1>1, <2>1 DEF TypeOK, EventsBounded
    <3> QED
      BY <1>3, <2>1, <3>1
  <2>4. \A i \in 1 .. Len(dispatched') : dispatched'[i] = promised[i]
    <3> SUFFICES ASSUME NEW i \in 1 .. Len(dispatched') PROVE dispatched'[i] = promised[i]
      OBVIOUS
    <3>1. i \in 1 .. Len(dispatched) \/ i = Len(dispatched) + 1
      BY <1>3, <2>3
    <3> QED
      BY <1>4, <2>1, <2>2, <2>3, <3>1
  <2>5. Len(dispatched') <= Len(promised)
    BY <2>2, <2>3
  <2>6. loop' \in {"wait", "returned"} => ~fetched.more
    BY <2>1
  <2>7. loop' # "acquire"
    BY <2>1
  <2> QED
    BY <1>4, <2>1, <2>2, <2>3, <2>4, <2>5, <2>6, <2>7
<1>8. CASE Wait
  <2>1. loop = "wait" /\ loop' \in {"wait", "returned"} /\ dispatched' = dispatched
    BY <1>8 DEF Wait
  <2> QED
    BY <1>4, <2>1
<1>9. CASE UNCHANGED <<loop, fetched, dispatched>>
  <2>1. Returns' = Returns
    BY <1>9 DEF Returns
  <2> QED
    BY <1>4, <1>9, <2>1
<1>10. FetchEvent \/ Dispatch \/ Wait \/ UNCHANGED <<loop, fetched, dispatched>>
  BY DEF Next, LoopStep, EventError, GeneratorPanics, MapRace, MergeRace,
         EventStep, Process, NoPayload, WritePayload, TagPayload, AppendEnv, CloneTags, SubmitJobs,
         SaveJob, StepFails, Release, vars, loopVars
<1> QED
  BY <1>6, <1>7, <1>8, <1>9, <1>10

LEMMA InitPromise == Init => PromiseKept
<1> SUFFICES ASSUME Init PROVE PromiseKept
  OBVIOUS
<1>1. dispatched = <<>> /\ loop \in {"refused", "next"} /\ compute \in Computes
  BY DEF Init
<1>2. Len(Promised(compute)) \in Nat
  BY <1>1, PromisedFacts
<1> QED
  BY <1>1, <1>2 DEF PromiseKept

LEMMA PrefixOf ==
  ASSUME NEW S, NEW T, NEW s \in Seq(S), NEW t \in Seq(T), Len(s) <= Len(t),
         \A i \in 1 .. Len(s) : s[i] = t[i]
  PROVE  SubSeq(s, 1, Len(s)) = SubSeq(t, 1, Len(s))
<1>1. SubSeq(s, 1, Len(s)) = s
  BY SubSeqFull
<1>2. PICK n \in Nat : n = Len(s)
  OBVIOUS
<1>3. PICK u : u = SubSeq(t, 1, n)
  OBVIOUS
<1>4. n \in Int /\ \A i \in 1 .. n : t[i] \in T
  BY <1>2
<1>5. /\ u \in Seq(T) /\ Len(u) = (IF 1 <= n THEN n - 1 + 1 ELSE 0)
      /\ \A i \in 1 .. n - 1 + 1 : u[i] = t[1 + i - 1]
  BY <1>3, <1>4, SubSeqProperties
<1>6. Len(u) = n /\ \A i \in 1 .. n : u[i] = t[i]
  BY <1>2, <1>5
<1>7. u = s
  BY <1>2, <1>5, <1>6
<1> QED
  BY <1>1, <1>2, <1>3, <1>7

\* RunParallel takes every event of its generator once and in order, of a stream those
\* of the tokens that are not empty, and leaves its loop only after the last one.
THEOREM EveryEventTaken == Spec => []EveryEventOnce
<1>1. Init => RunInv /\ StreamRead /\ PromiseKept
  BY InitRun, InitStream, InitPromise
<1>2. RunInv /\ StreamRead /\ PromiseKept /\ [Next]_vars
        => RunInv' /\ StreamRead' /\ PromiseKept'
  BY RunStep, StreamStep, PromiseStep
<1>3. RunInv /\ PromiseKept => EveryEventOnce
  <2> SUFFICES ASSUME RunInv, PromiseKept PROVE EveryEventOnce
    OBVIOUS
  <2> DEFINE promised == Promised(compute)
  <2>1. compute \in Computes /\ dispatched \in Seq(Occurrence)
    BY DEF RunInv, TypeOK
  <2>2. /\ Len(dispatched) \in Nat /\ Len(promised) \in Nat
        /\ DOMAIN promised = 1 .. Len(promised) /\ DOMAIN dispatched = 1 .. Len(dispatched)
        /\ promised \in Seq({promised[i] : i \in DOMAIN promised})
    <3>1. promised \in Seq({promised[i] : i \in DOMAIN promised})
      BY <2>1, PromisedFacts
    <3> HIDE DEF promised
    <3> QED
      BY <2>1, <3>1
  <2>3. /\ Len(dispatched) <= Len(promised)
        /\ \A i \in 1 .. Len(dispatched) : dispatched[i] = promised[i]
        /\ loop \in {"wait", "returned"} => Len(dispatched) = Len(promised)
    BY <2>1 DEF PromiseKept
  <2> HIDE DEF promised
  <2>4. SubSeq(dispatched, 1, Len(dispatched)) = SubSeq(promised, 1, Len(dispatched))
    BY <2>1, <2>2, <2>3, PrefixOf
  <2>5. IsPrefix(dispatched, promised)
    BY <2>3, <2>4 DEF IsPrefix
  <2>6. Len(dispatched) = Len(promised) => dispatched = promised
    BY <2>1, <2>2, <2>3
  <2> QED
    BY <2>3, <2>5, <2>6 DEF EveryEventOnce, promised
<1> QED
  BY <1>1, <1>2, <1>3, PTL DEF Spec

\* Apart from its release, a goroutine neither begins nor ends by a step of its own.
LEMMA GoesOn ==
  ASSUME TypeOK, NEW n \in Event, EventStep(n), ~Release(n)
  PROVE  Busy' = Busy /\ UNCHANGED loopVars
<1>1. PICK where \in PC \ {"idle", "done"} :
        /\ pc[n] \notin {"idle", "done"}
        /\ pc' = pc \/ pc' = [pc EXCEPT ![n] = where]
        /\ UNCHANGED loopVars
  <2>1. CASE Process(n)
    BY <2>1 DEF Process, Go, PC
  <2>2. CASE NoPayload(n)
    BY <2>2 DEF NoPayload, Go, PC
  <2>3. CASE WritePayload(n)
    BY <2>3 DEF WritePayload, Go, PC
  <2>4. CASE TagPayload(n)
    BY <2>4 DEF TagPayload, Go, PC
  <2>5. CASE AppendEnv(n)
    <3>1. PICK w \in {"env", "clone"} : Go(n, w)
      BY <2>5 DEF AppendEnv
    <3> QED
      BY <2>5, <3>1 DEF AppendEnv, Go, PC
  <2>6. CASE CloneTags(n)
    BY <2>6 DEF CloneTags, Go, PC
  <2>7. CASE SubmitJobs(n)
    BY <2>7 DEF SubmitJobs, Go, PC
  <2>8. CASE SaveJob(n)
    BY <2>8 DEF SaveJob, Go, PC
  <2>9. CASE StepFails(n)
    BY <2>9 DEF StepFails, Go, PC
  <2> QED
    BY <2>1, <2>2, <2>3, <2>4, <2>5, <2>6, <2>7, <2>8, <2>9 DEF EventStep
<1>2. \A m \in Event : pc'[m] \in {"idle", "done"} <=> pc[m] \in {"idle", "done"}
  BY <1>1 DEF TypeOK
<1> QED
  BY <1>1, <1>2 DEF Busy

\* RunParallel, with its semaphore and its goroutines, does no more than was promised:
\* every event once, at most Concurrency at a time, and it returns only when all are
\* over, whichever of their steps fail.
THEOREM RunKeepsPromise == Spec => ImplementsPromise
<1>1. Init => RunInv /\ StreamRead /\ PromiseKept
  BY InitRun, InitStream, InitPromise
<1>2. RunInv /\ StreamRead /\ PromiseKept /\ [Next]_vars
        => RunInv' /\ StreamRead' /\ PromiseKept'
  BY RunStep, StreamStep, PromiseStep
<1>3. Init => Promise!Init
  <2> SUFFICES ASSUME Init PROVE Promise!Init
    OBVIOUS
  <2>1. Len(Promised(compute)) \in Nat
    BY PromisedFacts DEF Init
  <2>2. {n \in Event : pc[n] \notin {"idle", "done"}} = {}
    BY DEF Init
  <2>3. Concurrency \in Nat
    BY ManifestAssumption DEF Init, Concurrency
  <2> QED
    BY <2>1, <2>2, <2>3 DEF Init, Promise!Init
<1>4. RunInv /\ PromiseKept /\ [Next]_vars => [Promise!Next]_Promise!vars
  <2> SUFFICES ASSUME RunInv, PromiseKept, [Next]_vars
               PROVE  Promise!Next \/ UNCHANGED Promise!vars
    OBVIOUS
  <2>1. /\ TypeOK /\ EventsBounded /\ TokensCounted /\ \A m \in Event : GoroutineInv(m)
        /\ compute \in Computes
    BY DEF RunInv, TypeOK
  <2>2. /\ Len(Promised(compute)) \in Nat /\ MostEvents(compute) \in Nat
        /\ Len(Promised(compute)) <= MostEvents(compute)
        /\ Len(dispatched) \in Nat
    <3>1. dispatched \in Seq(Occurrence)
      BY <2>1 DEF TypeOK
    <3>2. Len(dispatched) \in Nat
      BY <3>1
    <3>3. /\ Len(Promised(compute)) \in Nat /\ MostEvents(compute) \in Nat
          /\ Len(Promised(compute)) <= MostEvents(compute)
      BY <2>1, PromisedFacts
    <3> QED
      BY <3>2, <3>3
  <2>3. {n \in Event : pc[n] \notin {"idle", "done"}} = Busy
        /\ {n \in Event : pc'[n] \notin {"idle", "done"}} = Busy'
    BY DEF Busy
  <2>4. IsFiniteSet(Busy) /\ Cardinality(Busy) \in Nat
    BY <2>1, BusyFinite
  <2>5. compute' = compute => Promised(compute)' = Promised(compute) /\ Concurrency' = Concurrency
    BY SameCompute
  <2>6. CASE Dispatch
    <3>1. PICK n : n = Len(dispatched) + 1
      OBVIOUS
    <3>2. /\ loop = "acquire" /\ semaphore < Concurrency /\ compute' = compute
          /\ dispatched' = Append(dispatched, fetched.event)
          /\ pc' = [pc EXCEPT ![n] = "process"] /\ loop' # "returned"
      BY <2>6, <3>1 DEF Dispatch
    <3>3. Returns = n /\ n <= Len(Promised(compute))
      BY <3>1, <3>2 DEF Returns, PromiseKept
    <3>4. n \in Event
      <4>1. n \in 1 .. MostEvents(compute)
        BY <2>2, <3>1, <3>3
      <4> QED
        BY <2>1, <4>1, ComputeFacts
    <3>5. Busy' = Busy \cup {n}
      BY <2>1, <3>2, <3>4 DEF Busy, TypeOK
    <3>6. Len(dispatched') = n
      <4>1. fetched.event \in Occurrence
        BY <2>1, <3>2 DEF TypeOK, EventsBounded
      <4> QED
        BY <2>1, <3>1, <3>2, <4>1 DEF TypeOK
    <3>7. Cardinality(Busy) < Concurrency
      BY <2>1, <2>4, <3>2, ComputeFacts DEF TokensCounted, TypeOK
    <3>8. Len(dispatched) < Len(Promised(compute))
      BY <2>2, <3>1, <3>3
    <3>9. Promise!Take
      <4>1. /\ (loop = "returned") = FALSE /\ (loop' = "returned") = FALSE
            /\ Len(Promised(compute))' = Len(Promised(compute))
            /\ Concurrency' = Concurrency
        BY <2>5, <3>2
      <4>2. Promise!Cardinality(Busy) = Cardinality(Busy)
        BY DEF Promise!Cardinality, Cardinality
      <4> QED
        BY <2>3, <3>1, <3>5, <3>6, <3>7, <3>8, <4>1, <4>2 DEF Promise!Take
    <3> QED
      BY <3>9 DEF Promise!Next
  <2>7. CASE Wait
    <3>1. /\ loop = "wait" /\ semaphore < Concurrency /\ semaphore' = semaphore + 1
          /\ waited' = waited + 1 /\ UNCHANGED <<compute, dispatched, pc>>
          /\ loop' = (IF waited' = Concurrency THEN "returned" ELSE "wait")
      BY <2>7 DEF Wait
    <3>2. Busy' = Busy
      BY <3>1 DEF Busy
    <3>3. CASE waited + 1 = Concurrency
      <4>1. Busy = {}
        <5>1. Cardinality(Busy) = 0
          BY <2>1, <2>4, <3>1, <3>3, ComputeFacts DEF TokensCounted, TypeOK
        <5> QED
          BY <2>4, <5>1, FS_EmptySet
      <4>2. Len(dispatched) = Len(Promised(compute))
        BY <2>1, <3>1 DEF PromiseKept
      <4>3. Promise!Return
        BY <2>3, <2>5, <3>1, <3>2, <3>3, <4>1, <4>2 DEF Promise!Return
      <4> QED
        BY <4>3 DEF Promise!Next
    <3>4. CASE waited + 1 # Concurrency
      <4>1. loop' = "wait"
        BY <3>1, <3>4
      <4> QED
        BY <2>3, <2>5, <3>1, <3>2, <4>1 DEF Promise!vars
    <3> QED
      BY <3>3, <3>4
  <2>8. ASSUME NEW n \in Event, Release(n) PROVE Promise!Next
    <3>1. /\ pc[n] = "release" /\ pc' = [pc EXCEPT ![n] = "done"]
          /\ UNCHANGED <<compute, loop, dispatched>>
      BY <2>8 DEF Release, Go, loopVars
    <3>2. n \in Busy /\ Busy' = Busy \ {n}
      BY <2>1, <3>1 DEF Busy, TypeOK
    <3>3. Promise!Complete
      BY <2>3, <2>5, <3>1, <3>2 DEF Promise!Complete
    <3> QED
      BY <3>3 DEF Promise!Next
  <2>9. CASE /\ UNCHANGED <<compute, dispatched, pc>>
             /\ (loop # "returned" /\ loop' # "returned") \/ loop' = loop
    <3>1. Busy' = Busy /\ (loop' = "returned") = (loop = "returned")
      BY <2>9 DEF Busy
    <3> QED
      BY <2>3, <2>5, <2>9, <3>1 DEF Promise!vars
  <2>10. CASE EventError \/ GeneratorPanics \/ FetchEvent \/ MapRace \/ MergeRace
               \/ UNCHANGED vars
    BY <2>9, <2>10
    DEF EventError, GeneratorPanics, FetchEvent, MapRace, MergeRace, vars, loopVars
  <2>11. ASSUME NEW n \in Event, EventStep(n), ~Release(n) PROVE UNCHANGED Promise!vars
    <3>1. Busy' = Busy /\ UNCHANGED <<compute, loop, dispatched>>
      BY <2>1, <2>11, GoesOn DEF loopVars
    <3> QED
      BY <2>3, <2>5, <3>1 DEF Promise!vars
  <2> QED
    BY <2>6, <2>7, <2>8, <2>10, <2>11 DEF Next, LoopStep
<1> QED
  BY <1>1, <1>2, <1>3, <1>4, PTL DEF Spec, ImplementsPromise, Promise!Spec

-----------------------------------------------------------------------------
(* What is left to do shrinks with every step *)

\* A step of a goroutine that does not end the process brings its event nearer to
\* its end, and touches no other.
LEMMA EventAdvances ==
  ASSUME RunInv, NEW n \in Event, EventStep(n), ~crashed'
  PROVE  /\ EventStage(n) < EventStage(n)'
         /\ \A m \in Event \ {n} : EventStage(m)' = EventStage(m)
         /\ UNCHANGED loopVars /\ waited' = waited
<1>1. TypeOK /\ GoroutineInv(n)
  BY DEF RunInv
<1>2. PICK p \in PC, i \in Manifest, k \in {0} \cup Slot, last \in Nat \ {0}, entries \in {4, 5} :
         p = pc[n] /\ i = man[n] /\ k = slot[n] /\ last = LastManifest /\ entries = LastSlot
  <2>1. pc[n] \in PC /\ man[n] \in Manifest /\ slot[n] \in {0} \cup Slot
    BY <1>1 DEF TypeOK
  <2>2. LastManifest \in Nat \ {0} /\ LastSlot \in {4, 5}
    BY <1>1, ComputeFacts
  <2> QED
    BY <2>1, <2>2
<1>3. /\ i \in 1 .. last /\ k \in 0 .. 5
      /\ p = "env" => k < entries
      /\ Manifests = 1 .. last
  <2>1. Manifests = 1 .. last
    BY <1>1, <1>2, ComputeFacts
  <2> QED
    BY <1>1, <1>2, <2>1 DEF GoroutineInv, JobsInOrder, Slot
<1>4. PICK q \in PC, h \in 1 .. last, j \in 0 .. 5 :
        /\ pc' = [pc EXCEPT ![n] = q]
        /\ man' = [man EXCEPT ![n] = h]
        /\ slot' = [slot EXCEPT ![n] = j]
        /\ UNCHANGED loopVars /\ waited' = waited
        /\ \/ p = "process" /\ q = "manifest"
           \/ p = "manifest" /\ q \in {"writing", "env"} /\ h = i
           \/ p = "writing" /\ q = "env" /\ h = i
           \/ p = "env" /\ q = "env" /\ h = i /\ j > k
           \/ p = "env" /\ q = "clone" /\ h = i
           \/ p = "clone" /\ q = "manifest" /\ h = i + 1
           \/ p = "clone" /\ q = "submit"
           \/ p = "submit" /\ q = "save"
           \/ p = "save" /\ q = "save" /\ h = i + 1
           \/ p \in {"process", "manifest", "submit", "save"} /\ q = "release"
           \/ p = "release" /\ q = "done"
  <2>1. /\ man = [man EXCEPT ![n] = i] /\ slot = [slot EXCEPT ![n] = k]
        /\ pc = [pc EXCEPT ![n] = p]
    BY <1>1, <1>2 DEF TypeOK
  <2>2. CASE Process(n)
    BY <1>2, <1>3, <2>1, <2>2 DEF Process, Go, PC, semVars, jobVars
  <2>3. CASE NoPayload(n)
    BY <1>2, <1>3, <2>1, <2>3 DEF NoPayload, Go, PC, semVars, jobVars
  <2>4. CASE WritePayload(n)
    BY <1>2, <1>3, <2>1, <2>4 DEF WritePayload, Go, PC, semVars, jobVars
  <2>5. CASE TagPayload(n)
    BY <1>2, <1>3, <2>1, <2>5 DEF TagPayload, Go, PC, semVars
  <2>6. CASE AppendEnv(n)
    <3>1. PICK l \in 0 .. 5 : l = NextSlot(k) /\ l > k
      BY <1>1, <1>2, <1>3, <2>6, NextSlotFacts DEF AppendEnv, Slot
    <3>2. /\ p = "env" /\ slot' = [slot EXCEPT ![n] = l] /\ man' = man
          /\ pc' = [pc EXCEPT ![n] = IF l < entries THEN "env" ELSE "clone"]
          /\ UNCHANGED loopVars /\ waited' = waited
      BY <1>2, <2>6, <3>1 DEF AppendEnv, Go, semVars
    <3>3. CASE l < entries
      <4>1. pc' = [pc EXCEPT ![n] = "env"]
        BY <3>2, <3>3
      <4> QED
        BY <1>3, <2>1, <3>1, <3>2, <4>1 DEF PC
    <3>4. CASE ~(l < entries)
      <4>1. pc' = [pc EXCEPT ![n] = "clone"]
        BY <3>2, <3>4
      <4> QED
        BY <1>3, <2>1, <3>1, <3>2, <4>1 DEF PC
    <3> QED
      BY <3>3, <3>4
  <2>7. CASE CloneTags(n)
    <3>1. /\ p = "clone" /\ slot' = [slot EXCEPT ![n] = 0]
          /\ UNCHANGED loopVars /\ waited' = waited
          /\ IF i < last THEN man' = [man EXCEPT ![n] = i + 1] /\ pc' = [pc EXCEPT ![n] = "manifest"]
                         ELSE man' = [man EXCEPT ![n] = 1] /\ pc' = [pc EXCEPT ![n] = "submit"]
      BY <1>2, <2>7 DEF CloneTags, Go, semVars
    <3>2. CASE i < last
      <4>1. man' = [man EXCEPT ![n] = i + 1] /\ pc' = [pc EXCEPT ![n] = "manifest"]
        BY <3>1, <3>2
      <4>2. i + 1 \in 1 .. last
        BY <1>3, <3>2
      <4>3. p = "clone" /\ slot' = [slot EXCEPT ![n] = 0] /\ UNCHANGED loopVars /\ waited' = waited
        BY <3>1
      <4>4. "manifest" \in PC /\ 0 \in 0 .. 5
        BY DEF PC
      <4> QED
        BY <4>1, <4>2, <4>3, <4>4
    <3>3. CASE ~(i < last)
      <4>1. man' = [man EXCEPT ![n] = 1] /\ pc' = [pc EXCEPT ![n] = "submit"]
        BY <3>1, <3>3
      <4>2. 1 \in 1 .. last
        BY <1>2
      <4>3. p = "clone" /\ slot' = [slot EXCEPT ![n] = 0] /\ UNCHANGED loopVars /\ waited' = waited
        BY <3>1
      <4>4. "submit" \in PC /\ 0 \in 0 .. 5
        BY DEF PC
      <4> QED
        BY <4>1, <4>2, <4>3, <4>4
    <3> QED
      BY <3>2, <3>3
  <2>8. CASE SubmitJobs(n)
    BY <1>2, <1>3, <2>1, <2>8 DEF SubmitJobs, Go, PC, semVars, jobVars
  <2>9. CASE SaveJob(n)
    <3>1. /\ p = "save" /\ slot' = slot /\ UNCHANGED loopVars /\ waited' = waited
          /\ IF i < last THEN man' = [man EXCEPT ![n] = i + 1] /\ pc' = pc
                         ELSE man' = man /\ pc' = [pc EXCEPT ![n] = "release"]
      BY <1>2, <2>9 DEF SaveJob, Go, semVars
    <3>2. CASE i < last
      <4>1. man' = [man EXCEPT ![n] = i + 1] /\ pc' = [pc EXCEPT ![n] = "save"]
        BY <2>1, <3>1, <3>2
      <4>2. i + 1 \in 1 .. last
        BY <1>3, <3>2
      <4> QED
        BY <1>3, <2>1, <3>1, <4>1, <4>2 DEF PC
    <3>3. CASE ~(i < last)
      <4>1. man' = [man EXCEPT ![n] = i] /\ pc' = [pc EXCEPT ![n] = "release"]
        BY <2>1, <3>1, <3>3
      <4> QED
        BY <1>3, <2>1, <3>1, <4>1 DEF PC
    <3> QED
      BY <3>2, <3>3
  <2>10. CASE StepFails(n)
    BY <1>2, <1>3, <2>1, <2>10 DEF StepFails, Go, PC, semVars, jobVars
  <2>11. CASE Release(n)
    BY <1>2, <1>3, <2>1, <2>11 DEF Release, Go, PC, jobVars
  <2> QED
    BY <2>2, <2>3, <2>4, <2>5, <2>6, <2>7, <2>8, <2>9, <2>10, <2>11 DEF EventStep
<1>5. compute' = compute /\ LastManifest' = last
  BY <1>2, <1>4 DEF loopVars, LastManifest
<1>6. EventStage(n) =
        CASE p = "idle"      -> 0
          [] p = "process"   -> 1
          [] p \in Building  -> 2 + 8 * (i - 1) + (CASE p = "manifest" -> 0
                                                     [] p = "writing"  -> 1
                                                     [] p = "env"      -> 2 + k
                                                     [] p = "clone"    -> 7)
          [] p = "submit"    -> 2 + 8 * last
          [] p = "save"      -> 2 + 8 * last + i
          [] p = "release"   -> 3 + 9 * last
          [] p = "done"      -> 4 + 9 * last
  BY <1>2 DEF EventStage, JobStage
<1>7. EventStage(n)' =
        CASE q = "idle"      -> 0
          [] q = "process"   -> 1
          [] q \in Building  -> 2 + 8 * (h - 1) + (CASE q = "manifest" -> 0
                                                     [] q = "writing"  -> 1
                                                     [] q = "env"      -> 2 + j
                                                     [] q = "clone"    -> 7)
          [] q = "submit"    -> 2 + 8 * last
          [] q = "save"      -> 2 + 8 * last + h
          [] q = "release"   -> 3 + 9 * last
          [] q = "done"      -> 4 + 9 * last
  <2>1. pc'[n] = q /\ man'[n] = h /\ slot'[n] = j
    BY <1>1, <1>4 DEF TypeOK
  <2> QED
    BY <1>5, <2>1 DEF EventStage, JobStage
<1>8. EventStage(n) < EventStage(n)'
  <2>1. /\ \/ p = "process" /\ q = "manifest"
           \/ p = "manifest" /\ q \in {"writing", "env"} /\ h = i
           \/ p = "writing" /\ q = "env" /\ h = i
           \/ p = "env" /\ q = "env" /\ h = i /\ j > k
           \/ p = "env" /\ q = "clone" /\ h = i
           \/ p = "clone" /\ q = "manifest" /\ h = i + 1
           \/ p = "clone" /\ q = "submit"
           \/ p = "submit" /\ q = "save"
           \/ p = "save" /\ q = "save" /\ h = i + 1
           \/ p \in {"process", "manifest", "submit", "save"} /\ q = "release"
           \/ p = "release" /\ q = "done"
        /\ i \in Int /\ 1 <= i /\ i <= last /\ h \in Int /\ 1 <= h /\ h <= last
        /\ last \in Int /\ k \in Int /\ 0 <= k /\ j \in Int /\ 0 <= j
        /\ p = "env" => k <= 4
    BY <1>2, <1>3, <1>4
  <2>2. CASE p \in {"process", "submit", "release"}
    BY <1>6, <1>7, <2>1, <2>2 DEF Building
  <2>3. CASE p = "save"
    BY <1>6, <1>7, <2>1, <2>3 DEF Building
  <2>4. CASE p \in {"manifest", "writing"}
    BY <1>6, <1>7, <2>1, <2>4 DEF Building
  <2>5. CASE p = "env"
    BY <1>6, <1>7, <2>1, <2>5 DEF Building
  <2>6. CASE p = "clone"
    BY <1>6, <1>7, <2>1, <2>6 DEF Building
  <2>7. p \in {"process", "manifest", "writing", "env", "clone", "submit", "save", "release"}
    BY <2>1
  <2> QED
    BY <2>2, <2>3, <2>4, <2>5, <2>6, <2>7
<1>9. \A m \in Event \ {n} : EventStage(m)' = EventStage(m)
  <2>1. \A m \in Event \ {n} : pc'[m] = pc[m] /\ man'[m] = man[m] /\ slot'[m] = slot[m]
    BY <1>1, <1>4 DEF TypeOK
  <2> QED
    BY <1>2, <1>5, <2>1 DEF EventStage, JobStage
<1> QED
  BY <1>4, <1>8, <1>9

\* No event has further to go than its manifests say, nor has the loop.
LEMMA StagesBounded ==
  ASSUME RunInv, PromiseKept
  PROVE  /\ LoopStage \in 0 .. LastLoopStage
         /\ \A n \in Event : EventStage(n) \in 0 .. (4 + 9 * LastManifest)
<1>1. /\ TypeOK /\ compute \in Computes /\ dispatched \in Seq(Occurrence)
      /\ waited \in 0 .. semaphore /\ semaphore \in 0 .. Concurrency
  BY DEF RunInv, TypeOK
<1>2. Len(dispatched) \in Nat /\ Len(Promised(compute)) \in Nat /\ Concurrency \in Nat
  BY <1>1, PromisedFacts, ComputeFacts
<1>3. LoopStage \in 0 .. LastLoopStage
  <2>1. /\ Len(dispatched) <= Len(Promised(compute))
        /\ loop = "acquire" => Returns <= Len(Promised(compute))
    BY DEF PromiseKept
  <2>2. Returns \in Nat /\ Returns <= Len(Promised(compute))
    BY <1>2, <2>1 DEF Returns
  <2>3. waited \in Nat /\ waited <= Concurrency
    BY <1>1, <1>2
  <2> QED
    BY <1>2, <2>1, <2>2, <2>3 DEF LoopStage, LastLoopStage
<1>4. ASSUME NEW n \in Event
      PROVE  EventStage(n) \in 0 .. (4 + 9 * LastManifest)
  <2>1. /\ LastManifest \in Nat \ {0} /\ Manifests = 1 .. LastManifest
        /\ pc[n] \in PC /\ slot[n] \in 0 .. 5
    BY <1>1, ComputeFacts DEF TypeOK, Slot
  <2>2. man[n] \in 1 .. LastManifest
    BY <2>1 DEF RunInv, GoroutineInv, JobsInOrder
  <2>3. CASE pc[n] \in Building
    <3>1. PICK x \in 0 .. 7 : x = JobStage(n)
      BY <2>1, <2>3 DEF JobStage, Building
    <3>2. EventStage(n) = 2 + 8 * (man[n] - 1) + x
      BY <2>3, <3>1 DEF EventStage, Building
    <3> QED
      BY <2>1, <2>2, <3>2
  <2>4. CASE pc[n] \notin Building
    BY <2>1, <2>2, <2>4 DEF EventStage, PC, Building
  <2> QED
    BY <2>3, <2>4
<1> QED
  BY <1>3, <1>4

\* As long as the generator does not fail, every step brings the loop or an event
\* nearer to its end: RunParallel, of any number of events, goes on for no more than
\* so many steps.
THEOREM RunStepsCounted == Spec => RunAdvances
<1> DEFINE Bounded ==
      /\ LoopStage \in 0 .. LastLoopStage
      /\ \A n \in Event : EventStage(n) \in 0 .. (4 + 9 * LastManifest)
<1>1. Init => RunInv /\ StreamRead /\ PromiseKept
  BY InitRun, InitStream, InitPromise
<1>2. RunInv /\ StreamRead /\ PromiseKept /\ [Next]_vars
        => RunInv' /\ StreamRead' /\ PromiseKept'
  BY RunStep, StreamStep, PromiseStep
<1>3. RunInv /\ PromiseKept => Bounded
  BY StagesBounded
<1> DEFINE Fails == loop = "next" /\ NextEvent(compute, gen).outcome = "error"
           Further ==
             /\ LoopStage <= LoopStage' /\ LoopStage' <= LastLoopStage
             /\ \A n \in Event : /\ EventStage(n) <= EventStage(n)'
                                 /\ EventStage(n)' <= 4 + 9 * LastManifest
             /\ LoopStage < LoopStage' \/ \E n \in Event : EventStage(n) < EventStage(n)'
<1>4. ASSUME RunInv, Bounded, Bounded', Next
      PROVE  crashed' \/ Fails \/ Further
  <2>1. TypeOK
    BY <1>4 DEF RunInv
  <2>2. /\ LastManifest \in Nat \ {0} /\ LastLoopStage \in Int
        /\ Len(dispatched) \in Nat /\ waited \in Nat
    <3>1. compute \in Computes /\ dispatched \in Seq(Occurrence) /\ waited \in 0 .. semaphore
      BY <2>1 DEF TypeOK
    <3>2. Len(Promised(compute)) \in Nat /\ Concurrency \in Nat
      BY <2>1, <3>1, PromisedFacts, ComputeFacts
    <3>3. LastManifest \in Nat \ {0}
      BY <2>1, ComputeFacts
    <3> QED
      BY <3>1, <3>2, <3>3 DEF LastLoopStage
  <2>3. ASSUME compute' = compute
        PROVE  LastManifest' = LastManifest /\ LastLoopStage' = LastLoopStage
    <3>1. Promised(compute)' = Promised(compute) /\ Concurrency' = Concurrency
      BY <2>3, SameCompute
    <3> QED
      BY <2>3, <3>1 DEF LastManifest, LastLoopStage
  <2>4. /\ LoopStage \in Int /\ LoopStage' \in Int
        /\ \A n \in Event : EventStage(n) \in Int /\ EventStage(n)' \in Int
    BY <1>4
  <2>5. ASSUME compute' = compute
        PROVE  /\ LoopStage' <= LastLoopStage
               /\ \A n \in Event : EventStage(n)' <= 4 + 9 * LastManifest
    BY <1>4, <2>2, <2>3, <2>5
  <2>6. ASSUME UNCHANGED <<compute, pc, man, slot>>
        PROVE  \A n \in Event : EventStage(n)' = EventStage(n)
    BY <2>3, <2>6 DEF EventStage, JobStage
  <2>7. CASE EventError
    BY <2>7 DEF EventError
  <2>8. CASE GeneratorPanics \/ MapRace \/ MergeRace
    BY <2>8 DEF GeneratorPanics, MapRace, MergeRace
  <2>9. CASE FetchEvent
    <3>1. /\ loop = "next" /\ loop' = "acquire"
          /\ UNCHANGED <<compute, dispatched, waited, pc, man, slot>>
      BY <2>9 DEF FetchEvent, semVars, jobVars
    <3>2. LoopStage' = LoopStage + 1
      BY <2>2, <3>1 DEF LoopStage, Returns
    <3> QED
      BY <2>4, <2>5, <2>6, <3>1, <3>2
  <2>10. CASE Wait
    <3>1. /\ loop = "wait" /\ loop' # "acquire" /\ waited' = waited + 1
          /\ UNCHANGED <<compute, dispatched, pc, man, slot>>
      BY <2>10 DEF Wait, jobVars
    <3>2. LoopStage' = LoopStage + 1
      BY <2>2, <3>1 DEF LoopStage, Returns
    <3> QED
      BY <2>4, <2>5, <2>6, <3>1, <3>2
  <2>11. CASE Dispatch
    <3>1. PICK d \in Nat : d = Len(dispatched) + 1
      BY <2>2
    <3>2. /\ loop = "acquire" /\ loop' # "acquire" /\ dispatched' = Append(dispatched, fetched.event)
          /\ pc' = [pc EXCEPT ![d] = "process"]
          /\ UNCHANGED <<compute, waited, man, slot>>
      BY <2>11, <3>1 DEF Dispatch, jobVars
    <3>3. Len(dispatched') = Len(dispatched) + 1
      <4>1. fetched.event \in Occurrence
        BY <1>4, <2>1, <3>2 DEF RunInv, TypeOK, EventsBounded
      <4> QED
        BY <2>1, <3>2, <4>1 DEF TypeOK
    <3>4. LoopStage' = LoopStage + 1
      BY <2>2, <3>2, <3>3 DEF LoopStage, Returns
    <3>5. ASSUME NEW n \in Event PROVE EventStage(n) <= EventStage(n)'
      <4>1. CASE n = d
        <5>1. pc[n] = "idle" /\ pc'[n] = "process"
          <6>1. n > Len(dispatched) /\ StartsClean(n)
            BY <1>4, <2>2, <3>1, <4>1 DEF RunInv, GoroutineInv
          <6>2. pc[n] = "idle"
            BY <6>1 DEF StartsClean
          <6>3. pc' = [pc EXCEPT ![n] = "process"] /\ pc \in [Event -> PC]
            BY <2>1, <3>2, <4>1 DEF TypeOK
          <6> QED
            BY <6>2, <6>3
        <5>2. EventStage(n) = 0 /\ EventStage(n)' = 1
          BY <5>1 DEF EventStage, Building
        <5> QED
          BY <5>2
      <4>2. CASE n # d
        <5>1. pc'[n] = pc[n] /\ man'[n] = man[n] /\ slot'[n] = slot[n]
          BY <2>1, <3>2, <4>2 DEF TypeOK
        <5>2. EventStage(n)' = EventStage(n)
          BY <2>3, <3>2, <5>1 DEF EventStage, JobStage
        <5> QED
          BY <2>4, <5>2
      <4> QED
        BY <4>1, <4>2
    <3> QED
      BY <2>4, <2>5, <3>2, <3>4, <3>5
  <2>12. ASSUME NEW n \in Event, EventStep(n), ~crashed' PROVE Further
    <3>1. /\ EventStage(n) < EventStage(n)'
          /\ \A m \in Event \ {n} : EventStage(m)' = EventStage(m)
          /\ UNCHANGED <<compute, loop, dispatched, waited>>
      BY <1>4, <2>12, EventAdvances DEF loopVars
    <3>2. LoopStage' = LoopStage
      BY <3>1 DEF LoopStage, Returns
    <3> QED
      BY <2>4, <2>5, <3>1, <3>2
  <2> QED
    BY <1>4, <2>7, <2>8, <2>9, <2>10, <2>11, <2>12 DEF Next, LoopStep
<1>5. RunInv /\ Bounded /\ Bounded' /\ [Next]_vars => [crashed' \/ Fails \/ Further]_vars
  BY <1>4
<1> HIDE DEF Bounded
<1> QED
  BY <1>1, <1>2, <1>3, <1>5, PTL DEF Spec, RunAdvances
=============================================================================
