\* Every way paragraphs can be short, fitting, long and much too long.
SPECIFICATION FairSpec
CONSTANTS
    Lengths = {1, 2, 4, 9, 13}
    MaxParagraphs = 3
    Texts <- MCTexts
    Parameters <- MCParameters
INVARIANTS
    NothingIsLost
    ChunksOverlap
    EveryChunkAddsText
    ChunksAreBounded
    FailsOnlyOnLongBlanks
PROPERTIES
    EveryStepCounts
    Terminates
CHECK_DEADLOCK FALSE
