SPECIFICATION Spec
CONSTANTS
    Queued = {b1, b2, b3, b4}
    MaxPlaces = 3
INVARIANTS
    OutcomeIsCutoff
    RankingRespected
CHECK_DEADLOCK FALSE
