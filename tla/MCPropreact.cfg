CONSTANTS
    NumTenants = 2
    NoGrid = NoGrid
    Grids <- MCGrids
    Batches <- MCBatches
    PacketRecords = 2
    MaxReadings = 1
    NoRequest = NoRequest
    Arbiter = Arbiter
    Nobody = Nobody
    Packets <- MCPackets
SPECIFICATION FairProgramSpec
INVARIANT MeasurementsDelivered
PROPERTY ImplementsLibrary
PROPERTY LaunchReturnsUnlessStuck
CHECK_DEADLOCK FALSE
