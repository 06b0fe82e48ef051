SPECIFICATION ServicesSpec
CONSTANTS
    User = {ann, p, q}
    CustomRole = {"desk"}
    Grantable = {"admin", "desk"}
    Code = {code}
    Limit = 1
    MaxFailures = 2
    Window = 4
    Visitor = {p, q}
    MaxCount = 2
    Call = {p, q}
    MaxCalls = 3
    MaxTurns = 3
    MaxToolCalls = 2
    MaxTokens = 2
    Token = {t1}
    Confirm = {p, q}
    MaxBatch = 2
    MaxCost = 2
    MaxStreams = 2
    Capacity = 2
    Period = 3
    Caller = {p, q}
    Horizon = 7
    MaxDelay = 1
    hithink = hithink
    xuangutong = xuangutong
    NamedOrders <- NamedOrdersValue
    Capability = {pool, bars}
    RealSource = {hithink, xuangutong}
    FakeFallback = FALSE
    MaxAttempts = 2
    Editor = {e1}
    MaxEdits = 2
    Stock = {p, q}
    CycleState = {repair, retreat}
    MaxRuns = 3
    Run = {p, q}
    Release = {4, 10, 11}
    VersionWidth = 32
    Judgement <- JudgementValue
    Switched = {"dragon"}
    Finding = {"auction_grab", "dragon", "lianban_a"}
    MaxPhaseRuns = 2
SYMMETRY ServicesSymmetry
INVARIANTS
    ServicesTypeOK
    AdministrationHolds
    InvitationsServeOnce
    LimitsHold
    ConfirmedOnce
    TranscriptsAreTrue
    RateIsKept
    SourcesFollowTheOrders
    TablesHoldTheLastBatch
    AnnouncedCycleIsStored
    QuotesSurvive
    EndedRunsAreFinal
    ServedTablesFit
    SucceededPhasesAreWhole
CHECK_DEADLOCK FALSE
