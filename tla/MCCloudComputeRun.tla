--------------------------- MODULE MCCloudComputeRun ---------------------------
(* Small instances of RunParallel: a few events of one or two manifests.        *)
EXTENDS CloudComputeRun

CONSTANTS t1, t2

\* A list of two events, one of them without a name, whose two manifests do not both
\* need a payload.
AList ==
    [kind |-> "list", tokens |-> <<t1, Empty>>, loops |-> 0, first |-> 1, last |-> 1,
     unmergeable |-> {}, lacking |-> {}, concurrency |-> 2, payloads |-> <<TRUE, FALSE>>,
     has |-> {"tags", "env"}, brings |-> {}, spare |-> 5, named |-> {}, prewritten |-> FALSE]

\* Lists that RunParallel refuses, that are empty, and whose manifests have no Tags.
RefusedList == [AList EXCEPT !.concurrency = 0]

EmptyList == [AList EXCEPT !.tokens = <<>>]

UntaggedList == [AList EXCEPT !.tokens = <<t1>>, !.payloads = <<TRUE>>, !.has = {}]

\* A batch whose events share all that the base event has, and find room in it.
ABatch == [AList EXCEPT !.kind = "batch", !.tokens = <<t1, t2>>, !.payloads = <<TRUE>>]

\* One event at a time, while attributes are merged into those of the base event.
MergedBatch ==
    [ABatch EXCEPT !.concurrency = 1, !.has = {"tags", "env", "attributes"},
                   !.brings = {"tags", "attributes"}, !.payloads = <<TRUE, FALSE>>]

\* Items that bring the Tags and the Environment that the base event does not have.
BringingBatch ==
    [ABatch EXCEPT !.has = {}, !.brings = {"tags", "env"}, !.payloads = <<TRUE>>]

\* The last item has fewer Actions than the manifests, which share the Environment
\* that their item brings.
LackingBatch ==
    [ABatch EXCEPT !.lacking = {2}, !.has = {"tags"}, !.brings = {"env"},
                   !.payloads = <<TRUE, FALSE>>]

\* An array of two values with a loop of two, and capacity that is not enough for
\* the two entries that are appended together.
AnArray == [AList EXCEPT !.kind = "array", !.tokens = <<>>, !.loops = 2, !.last = 2,
                         !.payloads = <<TRUE>>, !.spare = 1]

\* One event at a time, with room for the first entries, in an Environment that has the
\* variable of the event identifier or that of the loop.
NamedArray == [AnArray EXCEPT !.concurrency = 1, !.spare = 2, !.named = {"event"}]

LoopArray == [AnArray EXCEPT !.concurrency = 1, !.last = 1, !.spare = 5, !.named = {"loop"}]

\* An array that ends before it starts.
BackwardArray == [AnArray EXCEPT !.first = 2, !.last = 1, !.spare = 5]

\* A stream whose payloads are written beforehand, with empty tokens before others.
AStream == [AList EXCEPT !.kind = "streaming", !.tokens = <<Empty, t1, Empty, t2>>,
                         !.payloads = <<TRUE>>, !.spare = 0, !.prewritten = TRUE]

SeveralComputes ==
    {AList, RefusedList, EmptyList, UntaggedList, ABatch, MergedBatch, BringingBatch,
     LackingBatch, AnArray, NamedArray, LoopArray, BackwardArray, AStream}

\* The last token of this stream is empty.
EmptyTail == {[AStream EXCEPT !.concurrency = 1, !.tokens = <<t1, Empty>>]}

\* An array of two values, one at a time, whose environments have room for what is
\* appended.
RoomyArray == {[AnArray EXCEPT !.concurrency = 1, !.loops = 0, !.spare = 5]}
=============================================================================
