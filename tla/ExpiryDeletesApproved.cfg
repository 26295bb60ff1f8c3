CONSTANTS
    alice = alice
    bob = bob
    adm = adm
    w1 = w1
    w2 = w2
    NoMatch = NoMatch
    NoJob = NoJob
    Users = {alice, bob, adm}
    Admins = {adm}
    Pairings <- OnePairing
    Workers = {w1}
    MaxMatches = 1
    Backend = "ydb"
    Serial = FALSE
    MaxFaults = 0
SPECIFICATION Spec
PROPERTIES OnlyPendingRemoved
