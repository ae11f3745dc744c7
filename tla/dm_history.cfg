\* Three conversations with neighbouring keys, stored while one is read.
SPECIFICATION HistorySpec
CONSTANTS
    DmConversations <- ThreeConversations
    MaxByte = 2
    MessageIds = {0, 1, 2}
    Limits = {0, 1, 2}
    None = None
INVARIANTS WalkComplete
PROPERTIES PagesDescend
CHECK_DEADLOCK FALSE
