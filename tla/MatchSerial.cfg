CONSTANTS
    alice = alice
    bob = bob
    adm = adm
    w1 = w1
    w2 = w2
    NoMatch = NoMatch
    NoJob = NoJob
    Users = {alice, bob, adm}
    Admins = {adm}
    Pairings <- SomePairings
    Workers = {w1}
    MaxMatches = 2
    Backend = "mem"
    Serial = TRUE
    MaxFaults = 0
SPECIFICATION Spec
INVARIANTS NoOrphans CardTruthful
PROPERTIES OnlyPendingRemoved TwoStepUndo ImplementsLedger
