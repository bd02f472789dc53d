-------------------------- MODULE EventGenerators --------------------------
(***************************************************************************)
(* The event generators (eventgenerator.go). Each holds its mutex for the   *)
(* whole of NextEvent and RunParallel alone calls it, so a call is one      *)
(* function of the generator's state: what it returns and the state left.   *)
(* An event is its identifier and its PerEventLoopNum.                      *)
(***************************************************************************)
EXTENDS Integers, Sequences

CONSTANTS
    Empty,      \* the empty identifier
    Computes    \* the computes that may be run: their generators and manifests

\* The generator of a compute c:
\*   c.kind         "streaming", "array", "list" or "batch"
\*   c.tokens       the stream's trimmed tokens, or the identifiers of a list or batch
\*   c.loops        len(perEventLoopData); only a stream or an array has such a loop
\*   c.first, c.last   the bounds of an array
\*   c.unmergeable  the items of a batch whose overrides cannot be merged
\*   c.lacking      the items of a batch with fewer Actions than the manifests
\* A list or a batch may be empty, and an array may end before it starts.
ASSUME GeneratorAssumption ==
    \A c \in Computes :
        /\ c.kind \in {"streaming", "array", "list", "batch"}
        /\ c.tokens \in Seq({c.tokens[i] : i \in DOMAIN c.tokens})
        /\ c.loops \in Nat
        /\ c.kind \in {"list", "batch"} => c.loops = 0
        /\ c.first \in Int /\ c.last \in Int
        /\ c.unmergeable \subseteq DOMAIN c.tokens
        /\ c.lacking \subseteq DOMAIN c.tokens

-----------------------------------------------------------------------------
(* The state of a generator: pos is the array's position, the index of a list  *)
(* or a batch, or the number of tokens read; loop is perEventLoopPosition.      *)

\* At the end of the stream Scan returns false and leaves no text; scanning again
\* changes nothing.
ScanNext(c, g) ==
    IF g.pos < Len(c.tokens)
    THEN [g EXCEPT !.pos = @ + 1, !.token = c.tokens[g.pos + 1], !.more = TRUE]
    ELSE [g EXCEPT !.token = Empty, !.more = FALSE]

\* The constructors: a streaming generator has read its first token.
InitialGenerator(c) ==
    LET g == [pos |-> IF c.kind = "array" THEN c.first ELSE 0,
              loop |-> 0, token |-> Empty, more |-> TRUE]
    IN  IF c.kind = "streaming" THEN ScanNext(c, g) ELSE g

\* PerEventLooper.Next moves on to the next event after its last position.
LoopEnds(c, g) == g.loop >= c.loops - 1

NextLoop(c, g) == [g EXCEPT !.loop = IF LoopEnds(c, g) THEN 0 ELSE @ + 1]

Returned(id, loop, more, g) ==
    [outcome |-> "event", event |-> <<id, loop>>, more |-> more, gen |-> g]

Failed(more, g) == [outcome |-> "error", event |-> <<>>, more |-> more, gen |-> g]

Panicked(g) == [outcome |-> "panic", event |-> <<>>, more |-> FALSE, gen |-> g]

\* An empty token is an error, and is passed over.
NextStreaming(c, g) ==
    IF g.token = Empty
    THEN Failed(ScanNext(c, g).more, ScanNext(c, g))
    ELSE LET h == IF LoopEnds(c, g) THEN ScanNext(c, NextLoop(c, g)) ELSE NextLoop(c, g)
         IN  Returned(g.token, g.loop, h.more, h)

\* Mutation: whether there is more is asked after every position of the loop.
NextArrayIgnoringLoop(c, g) ==
    LET h == NextLoop(c, g)
    IN  IF LoopEnds(c, g)
        THEN Returned(g.pos, g.loop, g.pos < c.last, [h EXCEPT !.pos = @ + 1])
        ELSE Returned(g.pos, g.loop, g.pos < c.last, h)

NextArray(c, g) ==
    LET h == NextLoop(c, g)
    IN  IF LoopEnds(c, g)
        THEN Returned(g.pos, g.loop, g.pos < c.last, [h EXCEPT !.pos = @ + 1])
        ELSE Returned(g.pos, g.loop, TRUE, h)

\* The identifier of an event that has none is its index.
ListIdentifier(c, i) == IF c.tokens[i] = Empty THEN i - 1 ELSE c.tokens[i]

NextList(c, g) ==
    IF g.pos >= Len(c.tokens)
    THEN Panicked(g)
    ELSE Returned(ListIdentifier(c, g.pos + 1), 0, g.pos < Len(c.tokens) - 1,
                  [g EXCEPT !.pos = @ + 1])

\* hasNext counts the item about to be returned, so that it never ends the loop; a
\* merge that fails leaves the index where it is, and one that looks for an Action
\* the item does not have is a panic.
NextBatch(c, g) ==
    LET more == g.pos + 1 <= Len(c.tokens)
    IN  IF ~more \/ g.pos + 1 \in c.lacking THEN Panicked(g)
        ELSE IF g.pos + 1 \in c.unmergeable THEN Failed(more, g)
        ELSE Returned(c.tokens[g.pos + 1], 0, more, [g EXCEPT !.pos = @ + 1])

NextEvent(c, g) ==
    CASE c.kind = "streaming" -> NextStreaming(c, g)
      [] c.kind = "array"     -> NextArray(c, g)
      [] c.kind = "list"      -> NextList(c, g)
      [] c.kind = "batch"     -> NextBatch(c, g)

-----------------------------------------------------------------------------
(* What docs/EVENT-GENERATOR.md promises of a generator *)

\* The tokens that are not empty among the first n.
Kept(c) ==
    LET kept[n \in 0 .. Len(c.tokens)] ==
            IF n = 0 THEN <<>>
            ELSE IF c.tokens[n] = Empty THEN kept[n - 1]
            ELSE Append(kept[n - 1], c.tokens[n])
    IN  kept

\* The end of an array is compared with a value once it is returned: an array that
\* ends before it starts has its start for its only value.
LastValue(c) == IF c.first <= c.last THEN c.last ELSE c.first

\* One identifier for every array value from the start to the last one, every token
\* that is not empty, and every event of a list or a batch.
Identifiers(c) ==
    CASE c.kind = "array" -> [i \in 1 .. (LastValue(c) - c.first + 1) |-> c.first + i - 1]
      [] c.kind = "streaming" -> Kept(c)[Len(c.tokens)]
      [] c.kind = "list" -> [i \in DOMAIN c.tokens |-> ListIdentifier(c, i)]
      [] c.kind = "batch" -> c.tokens

PerIdentifier(c) == IF c.loops = 0 THEN 1 ELSE c.loops

\* The events promised, in order: every identifier with every loop position.
Promised(c) ==
    [i \in 1 .. (Len(Identifiers(c)) * PerIdentifier(c)) |->
        <<Identifiers(c)[((i - 1) \div PerIdentifier(c)) + 1], (i - 1) % PerIdentifier(c)>>]
=============================================================================
