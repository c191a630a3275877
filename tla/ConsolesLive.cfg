SPECIFICATION LiveSpec
CONSTANTS
    SERVICES = {"gateway", "opa"}
    FEED_MAX = 2
    HOUR = 2
    FIVE_MINUTES = 1
    HOURS = 2
    ALERT_ROWS = 2
    REVOCATION_ROWS = 1
    SESSION_ROWS = 2
    SUSPICIOUS_ABOVE = 70
    Polls = {1, 2}
    EVENT_FETCH_LIMIT = 3
    ANM_HISTORY = 2
    EventKinds <- MCEventKinds
    MetricAnswers <- MCMetricAnswers
    HealthAnswers <- MCHealthAnswers
    MaxLog = 1
    MaxNow = 4
    Listed <- MCListed
    Controllers = {"doughnut", "line"}
    Replays = {1, 2}
    MaxVisits = 2
    Searches = {1, 2}
    Values = {"s1", "r1"}
    Recorded <- MCListed
    Incidents = {"r1"}
    Tabs = {1, 2}
    Scripts <- MCScripts
    LOG_MAX = 1
    MaxRuns = 2
    MaxOutput = 1
    MaxWire = 2
    Absent = Absent
    SessionIds <- MCSessionIds
    Generated <- MCGenerated
    FEED_LIMIT = 2
    ShortId = ShortId
    LongId = "s1"
    Word = "policy"
    Calls = {1, 2}
    MaxMounts = 1
    LINES = 2
    MaxExercises = 3
    TOAST_LIMIT = 1
    Hosts = {1}
    MaxToasts = 3
    Events = {"revocation", "evaluation"}
    ATTEMPTS = 2
    WORKERS = 1
    Type <- MCType
    InSession = {"evaluation"}
    Trainers = {"scheduler", "manual"}
    MaxClock = 2
    MaxMishaps = 1
PROPERTIES
    SplashEnds
    FeedSettles
    SimulationEnds
    AcceptedIsSettled
    ModelSettles
CHECK_DEADLOCK FALSE
