\* The sender stops anywhere, twice, and comes back; nothing else fails.
SPECIFICATION FairSpec
CHECK_DEADLOCK FALSE
CONSTANTS
    alice = alice
    bob = bob
    tb = tb
    Nodes = {alice, bob}
    Peer <- MCPeer
    Msgs = {m1}
    Author <- FromAlice
    AppThreads = {ta, tb}
    Home <- MCHome
    KnownPeers = {alice}
    OUTBOX_CAPACITY = 4
    DEDUPE_CAPACITY = 1
    Restartable = {alice}
    MaxRestarts = 2
    MaxFaults = 0
    NoConversation = NoConversation
    NoSector = NoSector
    NoCall = NoCall
PROPERTIES Monotonic EventuallyStored EventuallyDelivered
