SPECIFICATION Spec
CONSTANTS
    Absent = Absent
    Contents <- MCContents
    MaxChanges = 0
    InPlace = FALSE
    LayerIndices <- MCLayerIndices
    Width <- MCWidth
    BlockElements <- MCBlockElements
    BlockBytes <- MCBlockBytes
    MaxU32 <- MCMaxU32
    MaxU64 <- MCMaxU64
INVARIANT TiedHeadIsAppended
CHECK_DEADLOCK FALSE
