CONSTANTS
    h1 = h1
    h2 = h2
    Visits = {v1, v2, v3, v4}
    Linked = {v1, v2, v3}
    MaxBatch = 2
    MaxInFlight = 1
    Utms = {"u1", "u2"}
    Others = {"k"}
    Texts = {"", "a", "b"}
    Hosts = {h1, h2}
    Requests = {1, 2}
    TTL = 2
    QueryTime = 1
    MaxEntries = 1
    SiteRows <- MCSiteRows
    LinkRows <- MCLinkRows
    MaxTime = 3
    MaxEdits = 2
    Clicks = {1, 2}
    Folders = {1, 2}
    DayTicks = 4
    MonthDays = 1
    Recent = 3
    Retention = 4
    MaxLate = 1
    MaxOutage = 1
    MaxTicks = 8
    Editions <- MCEditions
    Week = 3
    Rebuild = 2
    MaxGeoTime = 7
    MaxLosses = 2
    Cycle = 720
    Ceiling = 500
    SampleWindow = 2
    Moments = {0, 1, 24, 360, 719, 720, 721}
    Costs = {0, 1, 401, 501}
    Ranked <- MCRanked
    MaxBuckets = 2
    TopCount = 1
    RawFrom = 1
SPECIFICATION EdgeSpec
INVARIANTS
    EdgeTypeOK
    ClicksAreSafe
    AnswersAreFresh
    DaysSettle
    LookupStaysCurrent
    VisitorsFillGaps
    PanelAgreesWithEdge
    GeoReadsWhatIsWritten
    ProjectionHolds
    ReportsAddUp
PROPERTIES
    Implements
    FallsOnlyOverlapped
    KeepsWhatItHas
    ShutdownEnds
CHECK_DEADLOCK FALSE
