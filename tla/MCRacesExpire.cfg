SPECIFICATION Spec
CONSTANTS
    b1 = b1
    b2 = b2
    w1 = w1
    w2 = w2
    Bookings = {b1, b2}
    Workers = {w1, w2}
    KindsOf <- AcceptAndExpire
    MaxPlaces = 1
    MaxDeclined = 1
    Mortal = {}
SYMMETRY Alike
INVARIANT
    ConfirmedIsBooked
