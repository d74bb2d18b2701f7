SPECIFICATION Spec
CONSTANTS
    anna1 = anna1
    anna2 = anna2
    ben = ben
    carl = carl
    dora = dora
    c1 = c1
    c2 = c2
    Bookings = {anna1, anna2, ben, carl}
    CamperOf <- Camper
    FamilyOf <- Family
    CampOf <- Camp
    SexOf <- Sex
    Tiebreaker <- Lottery
    Pasts <- OnePast
    MaxPlaces <- TwoPlaces
    MaxEdits = 1
INVARIANTS
    TypeOK
    AllocationDecided
PROPERTIES
    FirstPlaceFirst
    LateJoinsBelow
    OrderKept
    SiblingsCountOn
