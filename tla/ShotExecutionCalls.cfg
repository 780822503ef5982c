\* Counts of three shots by every strategy; every output for fewer shots.
SPECIFICATION MCSpec
CONSTANTS
    sa = sa
    sb = sb
    ca = ca
    cb = cb
    None = None
    Subsystems = {sa, sb}
    Clbits = {ca, cb}
    Draws <- MCDraws
    Plans <- MCPlans
    Starts <- MCStarts
    Wants <- MCAllWants
    ShotNumbers = {1, 2, 3}
    Engines = {"numpy_sv", "numba_sv", "dm"}
    Asks = {"auto", "serial", "threads", "processes"}
    WorkerCeilings = {1, 2}
    ParallelMinShots = 2
INVARIANTS
    SeedDecidesRow
PROPERTIES
    ImplementsContract
CHECK_DEADLOCK FALSE
