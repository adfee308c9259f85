SPECIFICATION Spec
CONSTANT RawLengths <- MCRawLengths
INVARIANTS
    EveryBitServesOnce
    FollowsFormat
    HalfIsExact
PROPERTY HalfReturns
CHECK_DEADLOCK FALSE
