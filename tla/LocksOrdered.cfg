SPECIFICATION FairSpec
CONSTANTS
    Process = {g1, g2, g3}
    NoProcess = NoProcess
    Sections <- OrderedSections
INVARIANTS OnlyValidatePeersRaces LocksInOrder
PROPERTY SectionsEnd
