\* Two cases over two documents, every list of at most three hits, every mode and failure.
SPECIFICATION RunSpec
CONSTANTS
    CaseCount = 2
    Documents = {1, 2}
    Scores = {2, 4}
    MaxHits = 3
    Bar = 4
    Percents = {55, 100}
INVARIANTS
    CalibrationIsBest
    RankCountsDocuments
    ReportsPassedTheGate
    NothingLeftRunning
CHECK_DEADLOCK FALSE
