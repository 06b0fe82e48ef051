SPECIFICATION Spec
CONSTANTS
    Order <- MCOrder
    Window <- MCWindow
    Interval <- MCInterval
    Rounds <- MCRounds
    Derived = {"daily_bars", "opening_match"}
    Feeders = {"limit_up_pool"}
    CalendarTask = "trading_calendar"
    OpeningMatch = "opening_match"
    Auction = {0}
    Postmarket = {2}
    Horizon = 2
    MaxFaults = 1
    MaxCrashes = 1
    MaxTriggers = 1
INVARIANTS
    TypeOK
    OncePerDay
    TaskEventsFollowCommits
    SuccessIsStored
    NoOrphanedJob
    TickServesEveryTask
PROPERTIES
    SuccessIsFinal
    ImplementsRegister
CHECK_DEADLOCK FALSE
