CONSTANTS
    t1 = t1
    t2 = t2
    h1 = h1
    h2 = h2
    s1 = s1
    Tabs = {t1, t2}
    Hosts = {h1}
    Siblings = {s1}
    JobIds = {1, 2}
    TTL = 1
    Listed = 10
    Found = {"none", "proxied", s1}
    MaxEvents = 1
SPECIFICATION Spec
INVARIANTS
    TypeOK
    DoneIsRecorded
    DnsOkMeansPointed
    TieBreakLeavesOne
PROPERTY ZonePromise
SYMMETRY Symmetry
CHECK_DEADLOCK FALSE
