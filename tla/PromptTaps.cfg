CONSTANTS
    None = None
    w1 = w1
    w2 = w2
    c1 = c1
    d1 = d1
    d2 = d2
    bob = bob
    carol = carol
    Workers = {w1, w2}
    Containers = {c1}
    DraftIds = {d1, d2}
    Opponents = {bob}
    Scores = {0, 1}
    Pressed <- FewPressed
    Overlap = "taps"
    Evictions = FALSE
    MaxRegistered = 0
    MaxFaults = 1
SPECIFICATION FairSpec
INVARIANTS FastClicksSerialize MutexHeldByWorkingTap
PROPERTIES TapsAnswered
CHECK_DEADLOCK FALSE
