\* One user, with or without a legacy row, and two invocations at a time.
CONSTANTS
    u1 = u1
    u2 = u2
    w1 = w1
    w2 = w2
    None = None
    Users = {u1}
    Workers = {w1, w2}
    Deadline = 2
    MaxRotations = 1
SPECIFICATION FairSpec
INVARIANTS TypeOK
PROPERTIES AutoLogoutJust CredsNeverGoBack InvalidCredsLeave
