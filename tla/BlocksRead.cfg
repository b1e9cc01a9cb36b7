SPECIFICATION Spec
CONSTANTS
    Card = {c1, c2}
    BadCard = {}
    NoCard = NoCard
    CutUid = CutUid
    MaxFaults = 0
    Builds = {"reading"}
    SwiftIn <- Nowhere
PROPERTIES
    AuthenticatedIsRead
