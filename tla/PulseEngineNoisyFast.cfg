\* A density-matrix runner with background noise: the fast path is taken.
SPECIFICATION Spec
CONSTANTS
    q0 = q0
    q1 = q1
    c0 = c0
    NoClbit = NoClbit
    Subsystems = {q0, q1}
    Clbits = {c0}
    Shots = 1
    Plans <- MCPlans
    Groups <- MCGroups
    Runners <- MCNoisyRunner
INVARIANTS
    OutcomesInSourceOrder
CHECK_DEADLOCK FALSE
