\* A dial through a relay, then two callers that share a command channel of one
\* place; the service may refuse and the loop may end.
SPECIFICATION FairSpec
CONSTANTS
    Callers = {p1, p2}
    Topics = {x}
    Peers = {relay, dest}
    Target = dest
    NoPeer = NoPeer
    Capacity = 1
    MaxChannels = 2
    Refusals = {"Publish", "Subscribe", "Unsubscribe"}
    NoCall = NoCall
INVARIANTS ConnectedToTarget NothingDropped
PROPERTIES SubscribersKept CallsReturn
CHECK_DEADLOCK FALSE
