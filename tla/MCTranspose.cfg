SPECIFICATION Spec
CONSTANTS
    Sides <- MCSides
    Widths <- MCWidths
    MaxLength <- MCMaxLength
    MaxU64 <- MCMaxU64
    Zeroed <- MCZeroed
INVARIANTS
    TypeOK
    NeverPanics
    MatchesClosedForm
PROPERTIES
    WritesOnce
    EndsInTime
    ImplementsTranspose
    Terminates
CHECK_DEADLOCK FALSE
