SPECIFICATION Spec
CONSTANTS
    Job = {j1, j2}
    NoJob = NoJob
    Inode = {n1, n2, n3, n4, n5}
    NoFile = NoFile
    MaxVersion = 2
    MaxCrashes = 1
INVARIANT StoredWhenJobsOverlap
SYMMETRY Symmetry
