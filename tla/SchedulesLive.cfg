CONSTANTS
    r1 = r1
    r2 = r2
    o1 = o1
    o2 = o2
    s1 = s1
    s2 = s2
    Links = {1, 2, 3}
    Columns = {"target", "active"}
    Values = {"a", "b", "c"}
    Schedules = {s2}
    Runners = {r1, r2}
    Operators = {o1, o2}
    Slug <- MCSlug
    Patch <- MCPatch
    FireAt <- MCFireAt
    Wanted <- MCWanted
    Start <- MCStart
    Batch = 1
    Changes <- MCTrash
    Selections = {{3}, {1, 2}, {2, 3}}
    MaxEvents = 3
SPECIFICATION FairSpec
PROPERTY DueFires
CHECK_DEADLOCK FALSE
