\* Runs on two refs, one of which may be cancelled or have a call fail; a
\* search for each id may overlook an issue once.
SPECIFICATION FairSpec
CONSTANTS
    Refs = {"main", "feature"}
    Main = "main"
    Records <- FourRecords
    Ids <- AllIds
    OwnId <- OwnNames
    CveAlias <- CveNames
    Fixable <- FirstThree
    Within <- Substrings
    MaxScans = 3
    MaxBlind = 1
    MaxFailures = 2
INVARIANTS
    TypeOK
    DuplicatesBounded
    OncePerRun
PROPERTIES
    GreenMeansTracked
    FixableGetsTracked
