\* What a request answers when the pool stays full.
SPECIFICATION Spec
CONSTANTS
    u1 = u1
    u2 = u2
    u3 = u3
    c1 = c1
    c2 = c2
    Uploads = {u1, u2, u3}
    Contents = {c1, c2}
    ContentOf <- TwoAlike
    NoDocument = NoDocument
    PoolSize = 1
PROPERTY PoolTimeoutIsUnavailable
CHECK_DEADLOCK FALSE
