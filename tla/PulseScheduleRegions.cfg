\* Regions of three blocks without explicit starts, of two with some or all.
SPECIFICATION MCSpec
CONSTANTS
    Claims = {c1, c2}
    Durations <- MCDurations
    ExplicitTimes <- MCExplicitTimes
    BoundaryTimes <- MCBoundaryTimes
    Epsilon = 1
    NoStart = NoStart
    MaxBlocks = 3
    CandidateStarts <- MCCandidateStarts
INVARIANTS
    ReservationsExclusive
    WithinRegion
    PlacedBest
PROPERTIES
    PlacementContract
    Returns
CHECK_DEADLOCK FALSE
