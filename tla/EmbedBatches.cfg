\* Up to five texts in batches of three, with a partial last batch.
SPECIFICATION Spec
CONSTANTS
    TextCounts = {0, 1, 3, 5}
    BatchSize = 3
    MaxRetries = 3
INVARIANTS
    EmbeddingsMatchTexts
    CallsAreAccountedFor
CHECK_DEADLOCK FALSE
