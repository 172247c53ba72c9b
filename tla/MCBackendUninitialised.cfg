CONSTANTS
    NumTenants = 2
    NoRequest = NoRequest
    Arbiter = Arbiter
    Nobody = Nobody
    Packets <- MCNoReports
SPECIFICATION Spec
INVARIANT NeverAborts
CHECK_DEADLOCK FALSE
