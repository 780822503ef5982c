\* Gate lists from stages to a verified plan, on two small zones.
SPECIFICATION PlanSpec
CONSTANTS
    Atoms <- MCAtoms
    MaxGates = 4
    Unplaced = Unplaced
    MaxSeparate = 4
    Inputs <- MCInputs
    Architectures <- MCArchitectures
INVARIANTS
    JointIsAsap
    PairLayersKept
    BatchesProceed
    PlanSound
PROPERTIES
    CompilationSucceeds
