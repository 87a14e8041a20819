CONSTANTS
    w1 = w1
    w2 = w2
    NoWorker = NoWorker
    Workers <- TwoWorkers
    MaxJobs = 2
    Priority <- RunPriority
    MaxAttempts = 2
    Disturbances = {"crash"}
    MaxFaults = 1
    MaxDays = 2
    MaxBatches = 2
    MaxChecks = 1
SYMMETRY WorkerSymmetry
SPECIFICATION SystemSpec
CHECK_DEADLOCK FALSE
INVARIANTS
    PageTellsTheTruth
    RetriesStayOnTheirBatch
PROPERTIES
    Promise
