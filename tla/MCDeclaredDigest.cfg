SPECIFICATION LoaderSpec
CONSTANTS
    Absent = Absent
    r1 = r1
    r2 = r2
    Readers <- OneReader
    MaxRequests = 1
    ReadSizes = {20}
    Contents <- ReplacedContents
    MaxChanges = 1
    InPlace = FALSE
    LayerIndices <- MCLayerIndices
    Width <- MCWidth
    BlockElements <- MCBlockElements
    BlockBytes <- MCBlockBytes
    MaxU32 <- MCMaxU32
    MaxU64 <- MCMaxU64
INVARIANT DeclaredDigestsAreVerified
CHECK_DEADLOCK FALSE
