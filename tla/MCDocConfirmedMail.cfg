SPECIFICATION QueueSpec
CONSTANTS
    b1 = b1
    b2 = b2
    b3 = b3
    a1 = a1
    a2 = a2
    c1 = c1
    c2 = c2
    Bookings = {b1, b2, b3}
    Accounts = {a1, a2}
    Camps = {c1}
    AccountOf <- Siblings
    HasEmail = {a1}
    MaxPlacesOf <- ThreePlaces
    LimitChoices = {}
    DetailChoices <- OneCamp
    AdminStates = {}
    MaxDeclined = 2
    CronScheduled = TRUE
INVARIANT
    ConfirmedMailIsFinal
