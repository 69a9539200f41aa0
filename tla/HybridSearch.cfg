SPECIFICATION Spec
CONSTANTS
  Chunks = {1, 2, 3}
  Distances = {0, 1}
  Relevances = {0, 1, 2}
  FetchLimits = {1, 2, 3}
  RrfKs = {1, 60}
  Limits = {1, 2, 5}
  Bar <- DefaultBar
  MaxSearches = 2
INVARIANTS PrelimitKeepsRanks SameQuestionSameAnswer ConsensusFirst BarNeedsConsensus
CHECK_DEADLOCK FALSE
