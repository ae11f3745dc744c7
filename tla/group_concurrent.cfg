\* Two threads whose reads and writes interleave.
SPECIFICATION Spec
CONSTANTS
    Identities = {i1, i2, i3}
    Threads = {t1, t2}
    MaxCopies = 1
    MaxGroupSize = 2
    Times = {1}
    MaxCommits = 2
    NoManifest = NoManifest
    NoCall = NoCall
SYMMETRY Symmetry
INVARIANTS PendingWithinRank SizeBounded EpochWithinCommits
PROPERTIES NoOwnerIsFinal
