\* Two threads and crashes: calls race for a conversation or are cut short.
SPECIFICATION InboxSpec
CONSTANTS
    InboxThreads = {t1, t2}
    InboxConversations = {1, 2}
    MaxTs = 1
    MaxUnread = 1
    NoEntry = NoEntry
    NoInboxCall = NoInboxCall
SYMMETRY ThreadSymmetry
INVARIANTS OneEntryPerConversation IndexShowsLatest ListsNewestFirst
