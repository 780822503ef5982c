\* Schedules whose rounding errors stay below TIME_EPSILON.
SPECIFICATION Spec
CONSTANTS
    q1 = q1
    q2 = q2
    Frames <- MCFrames
    Library <- MCLibrary
    Clocks <- MCShortClocks
    Precision = 8
    MaxExponent = 4
    Epsilon = 3
    MaxBlocks = 3
INVARIANTS
    BindingFollowsSource
PROPERTIES
    LedgerFollowsSourceOrder
CHECK_DEADLOCK FALSE
