CONSTANTS
    analyst = analyst
    approver = approver
    admin = admin
    NoUser = NoUser
    Users = {analyst, approver}
    Approvers = {approver}
    RowSecurity = TRUE
    MaxVersion = 6
SPECIFICATION FairSpec
CHECK_DEADLOCK FALSE
PROPERTIES
    AssigneesSeeTheirs
