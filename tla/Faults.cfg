SPECIFICATION Spec
CONSTANTS
    Card = {c1, c2, bad}
    BadCard = {bad}
    NoCard = NoCard
    CutUid = CutUid
    MaxFaults = 2
    Builds = {"uid", "reading", "writing", "leds"}
    SwiftIn <- Anywhere
SYMMETRY GoodCards
INVARIANTS
    TypeOK
    FreshUid
    ReportedThenReady
    HandlerNotNested
PROPERTIES
    LoopKeepsGoing
