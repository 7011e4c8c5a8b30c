CONSTANTS
    t1 = t1
    t2 = t2
    h1 = h1
    h2 = h2
    s1 = s1
    Tabs = {t1}
    Hosts = {h1}
    Siblings = {s1}
    JobIds = {1, 2}
    TTL = 1
    Listed = 10
    Found = {"none", "address", "foreign", "own", "proxied", s1}
    MaxEvents = 3
SPECIFICATION FairSpec
PROPERTY JobEnds
CHECK_DEADLOCK FALSE
