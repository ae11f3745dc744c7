\* A faulty network, two threads at the sender, outboxes for one sector, a stop of
\* either node.
SPECIFICATION Spec
CHECK_DEADLOCK FALSE
CONSTANTS
    alice = alice
    bob = bob
    tb = tb
    Nodes = {alice, bob}
    Peer <- MCPeer
    Msgs = {m1}
    Author <- FromAlice
    AppThreads = {ta, tb, tc}
    Home <- MCHome
    KnownPeers = {alice, bob}
    OUTBOX_CAPACITY = 1
    DEDUPE_CAPACITY = 1
    Restartable = {alice, bob}
    MaxRestarts = 1
    MaxFaults = 2
    NoConversation = NoConversation
    NoSector = NoSector
    NoCall = NoCall
SYMMETRY Symmetry
INVARIANTS NoPhantomReceipts LastSectorWasQueued
PROPERTIES ImplementsLifecycle
