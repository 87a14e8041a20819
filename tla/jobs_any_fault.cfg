CONSTANTS
    w1 = w1
    w2 = w2
    w3 = w3
    NoWorker = NoWorker
    Workers <- ThreeWorkers
    MaxJobs = 1
    Priority <- LaterFirst
    MaxAttempts = 3
    Disturbances = {"crash", "stop", "db_error", "ack_lost", "late_heartbeat", "slow_transaction"}
    MaxFaults = 2
SPECIFICATION FairSpec
CHECK_DEADLOCK FALSE
INVARIANTS
    TypeOK
    OneHome
    AttemptsAreFenced
    WorkIsDoneOnce
    TimelyAttempts
    RepeatsCostFaults
PROPERTIES
    JobsSettle
