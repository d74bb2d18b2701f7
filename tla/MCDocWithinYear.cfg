SPECIFICATION Spec
CONSTANTS
    Camps <- TwoSeasons
    KnownCamps <- OldSeason
    Year = 8
    Grace = 3
    FirstDay = 2
    LastDay = 20
    MaxForms = 3
    OfficerLeads = TRUE
    SeasonBySeason = TRUE
INVARIANT
    NobodyShutOut
CHECK_DEADLOCK FALSE
