CONSTANTS
    exception = exception
    job1 = job1
    job2 = job2
    daily = daily
    retried = retried
    Rows = {exception, job1, job2}
    Exceptions = {exception}
    Archivers = {daily, retried}
    MaxMonth = 2
    MaxAccidents = 1
SPECIFICATION FairSpec
CHECK_DEADLOCK FALSE
INVARIANTS
    TypeOK
    OneTable
PROPERTIES
    OldRowsAreArchived
