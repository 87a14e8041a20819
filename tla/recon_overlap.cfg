CONSTANTS
    acc = acc
    other = other
    usd = usd
    approver = approver
    analyst = analyst
    NoUser = NoUser
    Users = {analyst}
    Approvers = {}
    LedgerTxn <- FullTxns
    StatementLine <- FullLines
    ToleranceRules <- OnePercent
    MaxRuns = 2
    MaxInFlight = 2
SPECIFICATION Spec
CHECK_DEADLOCK FALSE
INVARIANTS
    TypeOK
    EveryDueItemAccounted
    GroupsBalance
    MatchedOnce
    ExceptedOnce
    ExceptionsAreUnmatched
PROPERTIES
    Promise
