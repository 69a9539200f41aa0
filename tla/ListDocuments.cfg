SPECIFICATION Spec
CONSTANTS
  Documents = {1, 2, 3, 4}
  Instants = {1, 2}
  PageSizes = {1, 2}
  MaxFailures = 1
INVARIANTS NoDocumentIsSkipped RepeatsAreCommits TotalCoversPage
CHECK_DEADLOCK FALSE
