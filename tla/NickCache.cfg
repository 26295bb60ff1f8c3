\* Three users for two places, one of whom changes the nickname, and two lookups at a time.
CONSTANTS
    t1 = t1
    t2 = t2
    t3 = t3
    c1 = c1
    c2 = c2
    w1 = w1
    w2 = w2
    None = None
    Tids = {t1, t2, t3}
    Renamers = {t1}
    Containers = {c1}
    Workers = {w1, w2}
    MaxEntries = 2
    LocalTTL = 1
    DurableTTL = 1
    MaxChanges = 1
SYMMETRY CacheSymmetry
SPECIFICATION Spec
INVARIANTS TypeOK StaleBound DurableNeverBehind MapAndListAgree
PROPERTIES LeastRecentlyUsedGoes
