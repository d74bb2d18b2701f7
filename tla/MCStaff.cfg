SPECIFICATION Spec
CONSTANTS
    b1 = b1
    b2 = b2
    b3 = b3
    a1 = a1
    a2 = a2
    c1 = c1
    c2 = c2
    Bookings = {b1, b2}
    Accounts = {a1, a2}
    Camps = {c1}
    AccountOf <- Siblings
    HasEmail = {}
    MaxPlacesOf <- TwoPlaces
    LimitChoices <- StaffLimits
    DetailChoices <- BoysOnOneCamp
    AdminStates = {"booked", "info_complete"}
    MaxDeclined = 1
    CronScheduled = TRUE
SYMMETRY Alike
PROPERTIES
    AllocationKeepsLimits
