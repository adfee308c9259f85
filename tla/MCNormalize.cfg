SPECIFICATION Spec
CONSTANTS
    Absent = Absent
    Metadata <- MCMetadata
    VocabSizes <- MCVocabSizes
    MaxU32 <- MCMaxU32
    MaxU64 <- MCMaxU64
INVARIANTS
    HeadsPartition
    TokenIdsAreDeclared
CHECK_DEADLOCK FALSE
