CONSTANTS
    analyst = analyst
    approver = approver
    admin = admin
    NoUser = NoUser
    Users = {analyst, approver, admin}
    Approvers = {approver, admin}
    RowSecurity = FALSE
    MaxVersion = 7
SPECIFICATION Spec
CHECK_DEADLOCK FALSE
INVARIANTS
    TypeOK
    Informed
PROPERTIES
    Promise
