CONSTANTS
    Browsers = {b1}
    IdleDays = 7
    AbsoluteDays = 30
    MaxDay = 31
SPECIFICATION SessionsSpec
INVARIANT CookieFollowsRow
CHECK_DEADLOCK FALSE
