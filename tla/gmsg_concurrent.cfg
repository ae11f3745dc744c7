\* Two threads send, receive and mark messages of one group while its manifest
\* changes, an epoch that is persisted twice included.  The clock can advance twice
\* between the two readings of one send_message.
SPECIFICATION Spec
CONSTANTS
    Threads = {t1, t2}
    Identities = {a}
    MaxTime = 3
    IdsPerMs = 1
    Inbound <- PeerSecond
    Marked <- OfPeer
    MaxEpoch = 2
    MaxReceipts = 2
    NoMessage = NoMessage
    NoCall = NoCall
SYMMETRY ThreadSymmetry
INVARIANTS ReceiptOnce SentByMemberOfEpoch PagesSkipNothing
PROPERTIES StatusForward
CHECK_DEADLOCK FALSE
