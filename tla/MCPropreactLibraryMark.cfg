CONSTANTS
    NumTenants = 2
    NoGrid = NoGrid
    Grids <- MCGrids
    Batches <- MCNoBatches
    PacketRecords = 2
    MaxReadings = 0
    NoRequest = NoRequest
    Arbiter = Arbiter
    Nobody = Nobody
    Packets <- MCSilentTenant1
SPECIFICATION FairProgramSpec
PROPERTY EveryLaunchReturns
CHECK_DEADLOCK FALSE
