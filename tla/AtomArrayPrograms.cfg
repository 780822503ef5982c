\* Channels; with and without loss on gates, movement and loading; single-site resets.
SPECIFICATION Spec
CONSTANTS
    s0 = s0
    s1 = s1
    s2 = s2
    c0 = c0
    NoClbit = NoClbit
    Sites = {s0, s1, s2}
    Clbits = {c0}
    ChannelOn <- MCNoisy
    Programs <- MCPrograms
    InitialDigits <- MCDigits
    InitialOccupancies <- MCOccupancies
INVARIANTS
    EmptySitesGround
    ForecastExact
PROPERTIES
    ImplementsSemantics
CHECK_DEADLOCK FALSE
