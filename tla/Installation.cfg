CONSTANTS
    Emails = {"a", "b", "c"}
    Tabs = {1, 2}
    Teams <- MCTeams
    MaxUsers = 4
    MaxInvites = 2
    MaxAsked = 3
    Browsers = {b1, b2}
    IdleDays = 2
    AbsoluteDays = 3
    MaxDay = 4
    AttemptKeys = {k1, k2}
    Forms = {f1, f2}
    MaxAttempts = 2
    WindowTicks = 1
    MaxTracked = 1
    MaxMinute = 3
    Containers = {"new", "old"}
    Ships <- MCShips
    MaxFaults = 2
    Jobs = {1, 2}
    Visitors = {w1}
    Plan <- MCPlan
    MaxConcurrent = 1
    PendingTtl = 0
    Ttl = 0
    MaxAge = 1
    Plain = {"panel", "go", "www", "acme", "com"}
    Broken = {""}
    Sites = {"one", "two"}
    Slugs = {"x"}
    Texts = {"old", "new"}
    People = {"ana", "bo"}
    Databases <- MCDatabases
    MaxLinks = 3
    MaxChanges = 2
    MaxMoves = 1
    Releases = {1, 2}
    Tolerance = 2
    MonthDays = 10
    Today = 42
SPECIFICATION InstallationSpec
INVARIANTS
    RestoreMerges
    InstallationTypeOK
    AloneKeepsOneOwner
    GuessesBounded
    LandsWhole
    RunsEndClean
    PlanIsSafe
    ServicesAreOrdered
    DoctorIsRight
    NextStepsHeal
PROPERTIES
    OwnershipFlows
    InvitesAreSeats
    SessionsEnd
    BootsEventually
    JobsEnd
CHECK_DEADLOCK FALSE
