SPECIFICATION FairSearchSpec
CONSTANTS
    s = s
    a = a
    b = b
    d = d
    self = self
    Node = {s, a, b, d, self}
    Self = self
    Graphs <- MCGraphs
    OutChannels <- MCOutChannels
    InChannels <- MCInChannels
    Amount <- MCAmount
    MaxPPM = 3
    MaxHopsArgs = {3, 4, 5}
    MaxDistance <- MCMaxDistance
INVARIANTS HopsFormPaths RouteIsCircle FeesAreCovered CheapestWithoutLimit OnlySamePeerPanics
PROPERTY SearchEnds
CHECK_DEADLOCK FALSE
