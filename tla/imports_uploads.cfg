CONSTANTS
    statement = statement
    correction = correction
    ledger = ledger
    garbled = garbled
    r1 = r1
    r2 = r2
    NoFile = NoFile
    Files = {statement, correction, ledger, garbled}
    Ledgers = {ledger}
    Malformed = {garbled}
    References = {r1, r2}
    Contents <- FourContents
    MaxUploads = 3
    AccidentKinds = {"crash", "db_error", "ack_lost"}
    MaxAccidents = 2
SPECIFICATION Spec
CHECK_DEADLOCK FALSE
INVARIANTS
    TypeOK
    CompletedIsWhole
    AcknowledgedStays
    ReferencesOnce
