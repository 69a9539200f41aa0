\* Two languages, shutdowns cancelled up to twice.
SPECIFICATION FairSpec
CONSTANTS
    Languages = {"english", "spanish"}
    MaxCancels = 2
INVARIANTS
    SchemaMatchesRevision
    NothingLeftOpen
PROPERTIES
    FlushedUnlessCutShort
    ServesOnlyItsLanguage
    ServesInTheEnd
