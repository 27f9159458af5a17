SPECIFICATION FairSpec
CONSTANTS
    Ours = {p1}
    Foreign = {q1}
    BufferSize = 1
    MaxCrashes = 2
INVARIANTS
    RefusedOnlyExpired
    SettledNotReusable
PROPERTIES
    NoLateResolve
    EveryAttemptEnds
    SuccessesRecorded
    MarkersConsumed
