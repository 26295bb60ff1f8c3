SPECIFICATION Spec
CONSTANTS
    ann = ann
    bob = bob
    cleo = cleo
    Players = {ann, bob, cleo}
    MaxMatches = 3
    Times = {1, 2, 5}
    Inputs <- MCInputs
    PeriodDays = {0, 2}
    DayLength = 2
    MaxDuration = 7
    KThreshold = 2
    DefaultRating <- NoRating
    EloFormula <- EloTerm
    GlickoFormula <- GlickoTerm
    Inflated <- InflatedTerm
INVARIANTS
    TypeOK
    EnginesKeepRecord
    GroupsByCalendar
    RatedPerPeriod
    EffectsFlowForward
PROPERTIES
    EveryStepDescends
