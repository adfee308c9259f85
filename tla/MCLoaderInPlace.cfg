SPECIFICATION LoaderSpec
CONSTANTS
    Absent = Absent
    r1 = r1
    r2 = r2
    Readers <- OneReader
    MaxRequests = 2
    ReadSizes <- MCReadSizes
    Contents <- EveryStore
    MaxChanges = 1
    InPlace = TRUE
    LayerIndices <- MCLayerIndices
    Width <- MCWidth
    BlockElements <- MCBlockElements
    BlockBytes <- MCBlockBytes
    MaxU32 <- MCMaxU32
    MaxU64 <- MCMaxU64
INVARIANTS
    VerifiedReads
    ManifestReadable
PROPERTIES
    ImplementsTensorStore
    CallsAdvance
    CallsReturn
CHECK_DEADLOCK FALSE
