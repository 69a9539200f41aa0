\* Two uploads of one content, one question, one read, one connection.
SPECIFICATION FairSpec
CONSTANTS
    u1 = u1
    u2 = u2
    c1 = c1
    q1 = q1
    r1 = r1
    Uploads = {u1, u2}
    Contents = {c1}
    ContentOf <- OneContent
    NoDocument = NoDocument
    Questions = {q1}
    Score <- BothClear
    MinScore = 2
    TopK = 1
    MaxRetries = 1
    OutputRetries = 0
    Replies <- FewReplies
    Reads = {r1}
    PoolSize = 1
INVARIANTS
    NothingIsUnseen
    ConnectionsOnlyInScopes
PROPERTY EveryRequestEnds
CHECK_DEADLOCK FALSE
