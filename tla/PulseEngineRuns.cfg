\* Every entry point: a coherent runner driven in place, and noisy trajectories.
SPECIFICATION Spec
CONSTANTS
    q0 = q0
    q1 = q1
    c0 = c0
    NoClbit = NoClbit
    Subsystems = {q0, q1}
    Clbits = {c0}
    Shots = 2
    Plans <- MCPlans
    Groups <- MCGroups
    Runners <- MCRunners
INVARIANTS
    SourceStaysUnmeasured
PROPERTIES
    ImplementsSemantics
CHECK_DEADLOCK FALSE
