CONSTANTS
    NumTenants = 2
    NoRequest = NoRequest
    Arbiter = Arbiter
    Nobody = Nobody
    Packets <- MCFewPackets
    MaxRestarts <- MCMaxRestarts
SPECIFICATION FairRestartSpec
INVARIANT AnswersShiftByRestartsOnly
PROPERTY AnsweredUnlessStuck
CHECK_DEADLOCK FALSE
