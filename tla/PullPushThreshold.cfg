SPECIFICATION PSpec
CONSTANTS
    c1 = c1
    c2 = c2
    p1 = p1
    p2 = p2
    p3 = p3
    Channel = {c1, c2}
    NoChannel = NoChannel
    Worker = {w1, w2}
    CandidateLists <- ListsOfChannels
    AmountArgs = {200000}
    SplitAmountArgs = {0}
    SplitsArgs <- SomeSplits
    MaxAttempts = 1
    Peer = {p1, p2}
    Excluded = Excluded
    ChannelsOf <- ChannelOfPeer
    Lists <- SomeLists
    NoList = NoList
    FeeOut <- FeesOut
    FeeIn <- FeesIn
    MaxPPM = 10
    Fees = {0}
    OutPPMArgs = {0, 5, 100}
    PercentArgs = {0, 150}
    UpToArgs = {0}
    Total = 1000000
    Balances = {250000, 300000}
    Word = 1000000000
    NoAnswer = NoAnswer
    MaxLate = 0
    MaxRefreshes = 0
PROPERTIES
    LeavesThreshold
