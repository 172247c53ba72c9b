CONSTANTS
    Threads = {t1, t2, t3}
    NoGrid = NoGrid
    Grids <- MCGrids
\* A request the backend drops stops everybody.
CHECK_DEADLOCK FALSE
SPECIFICATION FairSpec
INVARIANT TypeOK
INVARIANT NoSpareRelease
INVARIANT NotEveryoneLost
PROPERTY SomeoneReturns
