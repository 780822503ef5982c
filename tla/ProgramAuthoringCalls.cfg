SPECIFICATION Spec
CONSTANTS
    Registers <- Regs
    Layouts <- MCLayouts
    Adds <- MCAdds
    Measures <- MCMeasures
    Mappings <- MCMappings
    Batches <- MCBatches
    MaxLength = 3
    MaxTotal = 3
INVARIANTS
    InstructionsAreCalls
    OccurrencesDisjoint
    SweepRowsBindColumns
    DagOrdersShared
