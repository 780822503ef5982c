\* Short programs of every gate, longer ones that cancel, routed programs,
\* programs that are refused, exported programs and hand-written texts.
SPECIFICATION Spec
CONSTANTS
    Fresh = Fresh
    Unbound <- MCUnbound
    Quantum <- MCQuantum
    Classical <- MCClassical
    Reserved <- MCReserved
    Couplings <- MCCouplings
    MaxSwaps = 2
    MaxNesting = 4
    Families <- MCFamilies
INVARIANTS
    MeaningPreserved
    CompilesToNormalForm
    TextsAreFaithful
CHECK_DEADLOCK FALSE
