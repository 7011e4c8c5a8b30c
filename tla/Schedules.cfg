CONSTANTS
    r1 = r1
    r2 = r2
    o1 = o1
    o2 = o2
    s1 = s1
    s2 = s2
    Links = {1, 2, 3}
    Columns = {"target", "active"}
    Values = {"a", "b", "c"}
    Schedules = {s1, s2}
    Runners = {r1, r2}
    Operators = {o1, o2}
    Slug <- MCSlug
    Patch <- MCPatch
    FireAt <- MCFireAt
    Wanted <- MCWanted
    Start <- MCStart
    Batch = 1
    Changes <- MCChanges
    Selections = {{3}, {1, 2}, {1, 3}, {2, 3}, {1, 2, 3}}
    MaxEvents = 2
SPECIFICATION Spec
INVARIANTS
    TypeOK
    RowsNeverDeadlock
    FiresOnAllLive
PROPERTY FiresAtomically
SYMMETRY Symmetry
CHECK_DEADLOCK FALSE
