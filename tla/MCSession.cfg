SPECIFICATION SessionSpec
CONSTANTS
    Absent = Absent
    Contents <- MCContents
    MaxChanges = 2
    InPlace = FALSE
    LayerIndices = {"0"}
    Width <- MCWidth
    BlockElements <- MCBlockElements
    BlockBytes <- MCBlockBytes
    MaxU32 <- MCMaxU32
    MaxU64 <- MCMaxU64
INVARIANTS
    TokenizerFitsEmbedding
    SpecialsAgree
    LoadsFollowManifest
CHECK_DEADLOCK FALSE
