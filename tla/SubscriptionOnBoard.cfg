SPECIFICATION Spec
CONSTANTS
    c1 = c1
    c2 = c2
    Controllers = {c1, c2}
    Subs = {1, 2}
    Params = {"param"}
    Objects = {"object"}
    Events = {"Boot", "Event"}
    BootEvent = "Boot"
    Values = {0, 1}
    NoValue = NoValue
    None = None
    Offers <- MCOffers
    Tables <- NoRows
    OnBoarding = {c1, c2}
    Periods = {0, 3}
    PollPeriod = 2
    MinWait = 1
    Multiplier = 2000
    RetryCap = 2
    MaxInputs = 2
    Timers <- MCTimers
    Never = 6
PROPERTY OnBoardKept
