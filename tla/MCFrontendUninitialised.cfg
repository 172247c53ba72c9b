CONSTANTS
    NumTenants = 1
    NoGrid = NoGrid
    Grids <- MCGrids
    Batches <- MCBatches
    PacketRecords = 1
    MaxReadings = 1
SPECIFICATION Spec
PROPERTY ReturnsSettled
CHECK_DEADLOCK FALSE
