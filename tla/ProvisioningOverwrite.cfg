CONSTANTS
    t1 = t1
    t2 = t2
    h1 = h1
    h2 = h2
    s1 = s1
    Tabs = {t1, t2}
    Hosts = {h1, h2}
    Siblings = {s1}
    JobIds = {1, 2}
    TTL = 1
    Listed = 10
    Found = {s1}
    MaxEvents = 0
SPECIFICATION Spec
INVARIANT OverwriteIsInformed
CHECK_DEADLOCK FALSE
