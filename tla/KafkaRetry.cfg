\* Two goroutines, channels of one place, every failure.
SPECIFICATION RetrySpec

CONSTANTS
    d1 = d1
    d2 = d2
    g1 = g1
    g2 = g2
    Docs = {d1, d2}
    Goroutines = {g1, g2}
    BufferSize = 1
    MaxBatch = 2
    MaxRuns = 2
    Faults = {"mongo", "kafka", "decode", "cancel"}

SYMMETRY RetrySymmetry

\* Nobody has to ask for another run.
CHECK_DEADLOCK FALSE

INVARIANTS
    RetryTypeOK
    FlaggedWerePublished
    PublishedPerRun
    ResponseComplete
