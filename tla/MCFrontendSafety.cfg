CONSTANTS
    NumTenants = 1
    NoGrid = NoGrid
    Grids <- MCGrids
    Batches <- MCBatches
    PacketRecords = 1
    MaxReadings = 3
SPECIFICATION ZeroedSpec
INVARIANT TypeOK
INVARIANT HandlesThisLaunch
INVARIANT WindowRaceFree
INVARIANT PredCrashOnlyByOverflow
INVARIANT MeasurementsOnce
PROPERTY LaunchTakesReading
PROPERTY ImplementsLaunch
CHECK_DEADLOCK FALSE
