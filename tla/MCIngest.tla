------------------------------ MODULE MCIngest ------------------------------
(* One ingest of every sample file, while the path changes once.       *)
EXTENDS Ingest

Samples == INSTANCE SampleFiles WITH None <- Absent

MCContents ==
    {Samples!Tied("old"), Samples!Tied("new"), Samples!Untied, Samples!FlatEmbedding,
     Samples!Duplicate, Samples!Inconsistent} \cup Samples!Refused

MCWidth == Samples!SampleWidth
MCBlockElements == Samples!SampleBlockElements
MCBlockBytes == Samples!SampleBlockBytes
MCMaxU32 == Samples!SampleMaxU32
MCMaxU64 == Samples!SampleMaxU64
MCLayerIndices == {"0", "00", "1"}
=============================================================================
