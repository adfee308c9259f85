------------------------------ MODULE MCLoader ------------------------------
(* Calls of one or two threads on the stores of a few sample files.           *)
EXTENDS Loader

Samples == INSTANCE SampleFiles WITH None <- Absent

CONSTANTS r1, r2

OneReader == {r1}
TwoReaders == {r1, r2}
Threads == Permutations(TwoReaders)

(* Two checkpoints of one layout, and one shorter file of another.            *)
ReplacedContents == {Samples!Tied("old"), Samples!Tied("new"), Samples!FlatEmbedding}

(* Every shape of store, each read by itself.                                 *)
EveryStore ==
    {Samples!Tied("old"), Samples!Tied("new"), Samples!Untied, Samples!FlatEmbedding,
     Samples!Duplicate, Samples!Inconsistent}

MCReadSizes == {4, 20}
MCWidth == Samples!SampleWidth
MCBlockElements == Samples!SampleBlockElements
MCBlockBytes == Samples!SampleBlockBytes
MCMaxU32 == Samples!SampleMaxU32
MCMaxU64 == Samples!SampleMaxU64
MCLayerIndices == {"0", "00", "1"}
=============================================================================
