SPECIFICATION Spec
CONSTANTS
    Lengths <- MCLengths
    Sizes <- MCSizes
    Overlaps <- MCOverlaps
INVARIANTS
    TypeOK
    Coverage
    WellSized
    OverlapExact
    CountIsClosedForm
PROPERTIES
    MovesForward
CHECK_DEADLOCK FALSE
