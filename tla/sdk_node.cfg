\* A device: a process that is started and stopped, and each of its services.
SPECIFICATION NodeSpec
CONSTANTS
    Threads = {t1, t2}
    Sectors = {s1, s2, s3}
    Capacity = 1
    MaxAttempt = 2
    Times = {1}
    NoEntry = NoEntry
    NoCall = NoCall
    ka = ka
    kb = kb
    stranger = stranger
    NeuralKey = {ka, kb, stranger}
    Stranger = stranger
    keyed_hash <- Hashes
    MAX_SHARES = 3
    NotAShare = NotAShare
    KeyThreads = {a1, a2}
    Requests <- AnyRequest
    KnownBits = {1, 2}
    MaxKeys = 2
    Idle = Idle
    Plaintexts = {x}
    NoId = NoId
    U16 = 4
    MAX_LABEL = 1
    Scopes <- NearScopes
    Peers <- PeerIds
    Labels = {1, 2}
    MaxSectorId = 3
    MaxRotations = 1
    Workloads <- FourWorkloads
    NotRunning = NotRunning
    NoShares = NoShares
INVARIANTS BoundedOvershoot ListedAsIssued SealCoversReturned OpensAsSealed OnlySealedOpens
PROPERTIES AttemptsNeverDecrease ImplementsAccountStore
