CONSTANTS
    k1 = k1
    k2 = k2
    NoKey = NoKey
    Keys = {k1, k2}
    MaxRequests = 4
    AccidentKinds = {"crash", "db_error", "ack_lost"}
    MaxAccidents = 2
SPECIFICATION FairSpec
CHECK_DEADLOCK FALSE
INVARIANTS
    EffectsOnce
    ReplaysAreTrue
PROPERTIES
    KeysSettle
    Promise
