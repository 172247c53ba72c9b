CONSTANTS
    NumTenants = 2
    NoRequest = NoRequest
    Arbiter = Arbiter
    Nobody = Nobody
    Packets <- MCReportOfTenant1
SPECIFICATION ZeroedFairSpec
PROPERTY EveryRequestAnswered
CHECK_DEADLOCK FALSE
