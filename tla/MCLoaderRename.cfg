SPECIFICATION LoaderSpec
CONSTANTS
    Absent = Absent
    r1 = r1
    r2 = r2
    Readers <- TwoReaders
    MaxRequests = 1
    ReadSizes = {20}
    Contents <- ReplacedContents
    MaxChanges = 2
    InPlace = FALSE
    LayerIndices <- MCLayerIndices
    Width <- MCWidth
    BlockElements <- MCBlockElements
    BlockBytes <- MCBlockBytes
    MaxU32 <- MCMaxU32
    MaxU64 <- MCMaxU64
INVARIANTS
    ReadersTypeOK
    VerifiedReads
PROPERTIES
    ImplementsTensorStore
SYMMETRY Threads
CHECK_DEADLOCK FALSE
