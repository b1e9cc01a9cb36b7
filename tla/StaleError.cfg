SPECIFICATION Spec
CONSTANTS
    Card = {c1}
    BadCard = {}
    NoCard = NoCard
    CutUid = CutUid
    MaxFaults = 1
    Builds = {"uid"}
    SwiftIn <- Nowhere
INVARIANTS
    TransactionsStartClean
