SPECIFICATION FairSpec
CONSTANTS
    Order <- LiveOrder
    Window <- LiveWindow
    Interval <- LiveInterval
    Rounds <- LiveRounds
    Derived = {"daily_bars", "opening_match"}
    Feeders = {}
    CalendarTask = "trading_calendar"
    OpeningMatch = "opening_match"
    Auction = {0}
    Postmarket = {1}
    Horizon = 1
    MaxFaults = 2
    MaxCrashes = 1
    MaxTriggers = 0
PROPERTIES
    EveryTickEnds
    OneShotsEventuallySucceed
    HolidayFallsQuiet
CHECK_DEADLOCK FALSE
