CONSTANTS
    None = None
    w1 = w1
    w2 = w2
    c1 = c1
    d1 = d1
    d2 = d2
    bob = bob
    carol = carol
    Workers = {w1}
    Containers = {c1}
    DraftIds = {d1, d2}
    Opponents = {bob, carol}
    Scores = {0, 1}
    Pressed <- AllPressed
    Overlap = "none"
    Evictions = TRUE
    MaxRegistered = 2
    MaxFaults = 0
SPECIFICATION Spec
INVARIANTS TypeOK HeaderMirrorsDraft RegisteredAsShown OneMatchPerPrompt
CHECK_DEADLOCK FALSE
