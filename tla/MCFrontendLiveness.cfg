CONSTANTS
    NumTenants = 1
    NoGrid = NoGrid
    Grids <- MCGrids
    Batches <- MCBatches
    PacketRecords = 1
    MaxReadings = 1
SPECIFICATION FairSpec
PROPERTY LaunchReturns
CHECK_DEADLOCK FALSE
