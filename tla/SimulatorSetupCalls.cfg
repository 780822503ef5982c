SPECIFICATION Spec
CONSTANTS
    NoiseCalls <- MCNoiseCalls
    RuleCalls <- MCRuleCalls
    Removable <- MCRemovable
    Occurrences <- MCOccurrences
    Layout <- MCLayout
    DimOf <- MCDimOf
    DefaultRules <- MCDefaultRules
    MaxEdits = 2
    MaxHeld = 1
INVARIANTS
    MapsAreTheirEdits
    DeclarationsUnambiguous
    ValidationSuffices
    OperatorsMeanDeclarations
CHECK_DEADLOCK FALSE
