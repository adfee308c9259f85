SPECIFICATION Spec
CONSTANTS
    Absent = Absent
    Contents <- MCContents
    MaxChanges = 1
    InPlace = FALSE
    LayerIndices <- MCLayerIndices
    Width <- MCWidth
    BlockElements <- MCBlockElements
    BlockBytes <- MCBlockBytes
    MaxU32 <- MCMaxU32
    MaxU64 <- MCMaxU64
INVARIANTS
    TypeOK
    NamesUnambiguous
    EntriesAddressable
    DeclaredOrientation
    SidesMatchManifest
    VocabularyAgrees
    HeadIsPublished
PROPERTY
    IngestEnds
CHECK_DEADLOCK FALSE
