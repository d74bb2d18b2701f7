SPECIFICATION Spec
CONSTANTS
    anna = anna
    ben = ben
    Bookings = {anna, ben}
    Forms <- AnnaAndBen
    AgeLimits <- Ages
    PriceLists <- TwoLists
    Agreed = {1}
    MaxEdits = 2
INVARIANTS
    NeedsOnFile
    ToldIsApproved
PROPERTIES
    JoinsOnlyBookable
    BookedAsShown
    AgreedAmountKept
CHECK_DEADLOCK FALSE
