CONSTANTS
    Kernels <- MCKernels
    Wrap = 32
    Long = 128
    MaxEarly = 1
    MaxBatch = 5
    MaxReadings = 2
SPECIFICATION FairSpec
INVARIANT TypeOK
INVARIANT SerialExact
INVARIANT SerialDefined
INVARIANT OverlapDefined
INVARIANT KernelOnce
INVARIANT GapsReal
INVARIANT WindowShortest
PROPERTY ReadingEnds
\* The application stops reading; process has no step behind a vector's end.
CHECK_DEADLOCK FALSE
