\* Two handlers or refreshes that overlap, two topics, three events and a fault.
CONSTANTS
    w1 = w1
    w2 = w2
    NoRow = NoRow
    NoJob = NoJob
    Workers = {w1, w2}
    Topics = {1, 2}
    MaxEvents = 3
    MaxFaults = 1
SYMMETRY WorkerSymmetry
SPECIFICATION Spec
INVARIANTS TypeOK NamesOwnMessages ReportedTopicsKept
PROPERTIES SelfHeals
CHECK_DEADLOCK FALSE
