CONSTANTS
    NumTenants = 2
    NoRequest = NoRequest
    Arbiter = Arbiter
    Nobody = Nobody
    Packets <- MCPackets
SPECIFICATION ZeroedSpec
INVARIANT TypeOK
INVARIANT NeverAborts
INVARIANT DecisionsMatchRequests
INVARIANT OneMessageUnderWay
INVARIANT MeasurementsKept
PROPERTY LeakStopsEveryTenant
PROPERTY ImplementsArbitration
CHECK_DEADLOCK FALSE
