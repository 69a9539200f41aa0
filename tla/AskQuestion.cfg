\* One question, a library that grows under it, every reply of the model, both retry layers.
SPECIFICATION FairSpec
CONSTANTS
    q1 = q1
    a = a
    b = b
    c = c
    Questions = {q1}
    Chunks = {a, b, c}
    Score <- Scores
    MinScore = 2
    TopK = 2
    PoolSize = 1
    MaxRetries = 3
    OutputRetries = 2
    Replies <- EveryReply
INVARIANTS
    AnswersAreGrounded
    RefusesOnlyWithoutEvidence
    CallsAreBounded
PROPERTIES
    AnswersAsPromised
    EveryQuestionEnds
CHECK_DEADLOCK FALSE
