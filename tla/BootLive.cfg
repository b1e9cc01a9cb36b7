SPECIFICATION FairSpec
CONSTANTS
    Card = {c1}
    BadCard = {}
    NoCard = NoCard
    CutUid = CutUid
    MaxFaults = 5
    Builds = {"uid", "leds"}
    SwiftIn <- Anywhere
INVARIANTS
    BootGoesOn
PROPERTIES
    CallbacksEnd
    BootCompletes
