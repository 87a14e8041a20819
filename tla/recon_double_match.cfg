CONSTANTS
    acc = acc
    other = other
    usd = usd
    approver = approver
    analyst = analyst
    NoUser = NoUser
    Users = {}
    Approvers = {}
    LedgerTxn <- MixedTxns
    StatementLine <- MixedLines
    ToleranceRules <- OnePercent
    MaxRuns = 2
    MaxInFlight = 2
SPECIFICATION Spec
CHECK_DEADLOCK FALSE
INVARIANTS
    TxnsMatchedOnce
