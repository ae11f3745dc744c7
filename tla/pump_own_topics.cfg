\* Two payloads, each on a topic of its own; up to two replaced pumps.
SPECIFICATION Spec
CONSTANTS
    p1 = p1
    p2 = p2
    a = a
    b = b
    Payloads = {p1, p2}
    Topics = {a, b}
    TopicOf <- TwoTopics
    RETRY_INITIAL_DELAY = 2
    RETRY_BACKOFF_MULTIPLIER = 2
    RETRY_MAX_ATTEMPTS = 4
    RETRY_CAP = 6
    MaxRestarts = 2
    NoEntry = NoEntry
INVARIANTS AttemptBudget
PROPERTIES PublishedOnce RetryWaits Settles
