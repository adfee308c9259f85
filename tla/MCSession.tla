------------------------------ MODULE MCSession ------------------------------
(* A session on files with and without a vocabulary, the path changed twice.  *)
EXTENDS Session

Samples == INSTANCE SampleFiles WITH None <- Absent

MCContents == Samples!WithVocabulary \cup {Samples!Malformed}

MCWidth == Samples!SampleWidth
MCBlockElements == Samples!SampleBlockElements
MCBlockBytes == Samples!SampleBlockBytes
MCMaxU32 == Samples!SampleMaxU32
MCMaxU64 == Samples!SampleMaxU64
=============================================================================
