SPECIFICATION FairSpec
CONSTANTS
    Process = {g1, g2}
    NoProcess = NoProcess
    Sections <- CandidateSections
CHECK_DEADLOCK FALSE
PROPERTIES
    PeersRefreshed
