CONSTANTS
    alice = alice
    bob = bob
    adm = adm
    w1 = w1
    w2 = w2
    NoMatch = NoMatch
    NoJob = NoJob
    Users = {alice, bob, adm}
    Admins = {adm}
    Pairings <- OnePairing
    Workers = {w1, w2}
    MaxMatches = 1
    Backend = "mem"
    Serial = FALSE
    MaxFaults = 0
SYMMETRY WorkerSymmetry
SPECIFICATION Spec
INVARIANTS TypeOK ApprovalNeedsConsent NoLostConfirmation ExpiryNoticeTruthful
PROPERTIES NeverRevived
