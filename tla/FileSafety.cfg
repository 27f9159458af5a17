SPECIFICATION Spec
CONSTANTS
    Job = {j1}
    NoJob = NoJob
    Inode = {n1, n2, n3, n4}
    NoFile = NoFile
    MaxVersion = 3
    MaxCrashes = 3
INVARIANTS AlwaysLoadable
PROPERTY ImplementsDurableGraph
