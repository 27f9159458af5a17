SPECIFICATION FairSpec
CONSTANTS
    Channel = {t, c1}
    Target = t
    NoChannel = NoChannel
    Pull = {p1, p2}
    Push = {q1}
    Job = {j1}
    Unknown = Unknown
    Size = 3
    Fees = {1}
    Total = 8
    Balances = {5}
    Threshold = 3
    Word = 17
    MaxParts = 3
    MaxForwards = 1
    MaxSwitches = 1
INVARIANTS AccountExact
PROPERTY TableConverges
