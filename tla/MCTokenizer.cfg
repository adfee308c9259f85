SPECIFICATION Spec
CONSTANTS
    Absent = Absent
    MaxU32 = 7
    MaxU64 = 63
    Metadata <- MCMetadata
    ExpectedSizes <- MCExpectedSizes
    Limits = {0, 1, 2, 3}
    MaxPieces = 4
    MaxIds = 1
INVARIANTS
    EncodedIdsAddressRows
    OffsetsBelongToIds
    DecodeUndoesEncode
    SpecialsAreDeclared
CHECK_DEADLOCK FALSE
