SPECIFICATION FairSpec
CONSTANTS
    Card = {c1, c2, bad}
    BadCard = {bad}
    NoCard = NoCard
    CutUid = CutUid
    MaxFaults = 0
    Builds = {"uid", "reading", "writing", "leds"}
    SwiftIn <- NotInHandlers
INVARIANTS
    NeverDeaf
    AnswerMatchesHandler
    BlocksOfReportedCard
PROPERTIES
    OneReportPerReady
    CardRead
    Heartbeat
    KeepsPromise
