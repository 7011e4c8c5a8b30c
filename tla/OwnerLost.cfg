CONSTANTS
    Emails = {"a", "b", "c"}
    Tabs = {1, 2}
    Teams <- MCTeams
    MaxUsers = 4
    MaxInvites = 1
    MaxAsked = 2
SPECIFICATION AccountsSpec
INVARIANT OwnerRemains
CHECK_DEADLOCK FALSE
