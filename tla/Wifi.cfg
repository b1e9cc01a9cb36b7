SPECIFICATION FairSpec
CONSTANTS
    Own = "own"
    Old = "old"
    MaxEvents = 4
INVARIANTS
    TypeOK
    FlagCatchesUp
PROPERTIES
    LoopTellsTheTruth
