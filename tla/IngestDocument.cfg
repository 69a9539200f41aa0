\* Two uploads of one content and one of another, on a pool of two, with every failure.
SPECIFICATION FairSpec
CONSTANTS
    u1 = u1
    u2 = u2
    u3 = u3
    c1 = c1
    c2 = c2
    Uploads = {u1, u2, u3}
    Contents = {c1, c2}
    ContentOf <- TwoAlike
    NoDocument = NoDocument
    PoolSize = 2
INVARIANTS
    OneDocumentPerContent
    DocumentsAreWhole
    AnswersAreTrue
    RaceIsAlwaysRecovered
    NoDefiniteAnswerWhileOpen
PROPERTIES
    KeepsPromise
    EveryUploadEnds
CHECK_DEADLOCK FALSE
