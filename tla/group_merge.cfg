\* Two machines with clocks that never agree.
SPECIFICATION FairSpec
CONSTANTS
    r1 = r1
    r2 = r2
    Identities = {i1, i2}
    MaxCopies = 1
    MaxGroupSize = 2
    Replicas = {r1, r2}
    ClockOf <- DistinctClocks
    CreatedAt = 0
    MaxEpoch = 2
INVARIANTS MergeCommutes
PROPERTIES VersionsAdvance Converges
