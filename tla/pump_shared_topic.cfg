\* Two payloads on one topic.
SPECIFICATION Spec
CONSTANTS
    p1 = p1
    p2 = p2
    a = a
    b = b
    Payloads = {p1, p2}
    Topics = {a, b}
    TopicOf <- OneTopic
    RETRY_INITIAL_DELAY = 2
    RETRY_BACKOFF_MULTIPLIER = 2
    RETRY_MAX_ATTEMPTS = 5
    RETRY_CAP = 8
    MaxRestarts = 0
    NoEntry = NoEntry
PROPERTIES AckRemovesPublished
