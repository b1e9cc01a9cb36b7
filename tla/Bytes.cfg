SPECIFICATION Spec
CONSTANTS
    Card <- MCCard
    BadCard <- MCBadCard
    NoCard = NoCard
    CutUid = CutUid
    Data <- MCData
    Cuts <- MCCuts
INVARIANTS
    TypeOK
    SentAsMeant
    FramesStandForBytes
    TextEnds
    PrintedIsAuthenticated
    CommandFits
PROPERTIES
    OnlyStraysReachBeyond
