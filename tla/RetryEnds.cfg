\* One run, whatever fails in it and whenever its client goes away.
SPECIFICATION FairRetrySpec

CONSTANTS
    d1 = d1
    d2 = d2
    g1 = g1
    g2 = g2
    Docs = {d1, d2}
    Goroutines = {g1, g2}
    BufferSize = 1
    MaxBatch = 1
    MaxRuns = 1
    Faults = {"mongo", "kafka", "cancel"}

\* Nobody has to ask for another run.
CHECK_DEADLOCK FALSE

PROPERTIES
    RunEnds
