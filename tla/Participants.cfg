SPECIFICATION FairSpec
CONSTANTS
    u1 = u1
    u2 = u2
    n1 = n1
    w1 = w1
    w2 = w2
    Users = {u1, u2}
    Names = {n1}
    NoName = NoName
    Workers = {w1, w2}
    Cron = w1
    MaxIncidents = 2
    MaxInFlight = 2
    None = None
INVARIANTS
    TypeOK
    RefreshRepairs
PROPERTIES
    NamesSettle
