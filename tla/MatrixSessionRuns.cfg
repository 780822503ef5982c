SPECIFICATION Spec
CONSTANTS
    Sessions <- MCSessions
    MinSizeToThread = 8
    ThreadCapacity = 2
    MinSizeToFuse = 16
    Grain = 16
    BatchRows = 2
    BaseRows = 2
    MinRun = 2
    RunTile = 4
    RunScratch = 16
    SmallScratch = 8
    MaxRunDense = 4
    RunOrderMin = 8
    DenseKnee = 2
    MaxFusedMonomial = 8
    MaxFusedDense = 4
    AmplitudesPerRow = 2
    TableRows = 2
INVARIANTS
    ResultsExact
    OddsExact
    ExpectationExact
    WorkersApart
    CachesFresh
    AcceptedCallsComplete
