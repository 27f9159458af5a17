SPECIFICATION FairSpec
CONSTANTS
    Run = {r1, r2}
    AttemptsArgs <- MCAttemptsArgs
    MaxHopsArgs <- MCMaxHopsArgs
INVARIANTS HtlcsWithinAttempts RoutesWithinMaxHops ReportCountsHtlcs PreimagesBounded
PROPERTIES NewCommandsFireNothing EveryRunEnds
