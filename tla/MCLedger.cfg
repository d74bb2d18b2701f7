SPECIFICATION Spec
CONSTANTS
    a1 = a1
    a2 = a2
    i1 = i1
    i2 = i2
    m1 = m1
    t1 = t1
    w1 = w1
    w2 = w2
    Accounts = {a1, a2}
    Sources = {i1, i2, t1}
    KindOf <- KindsMixed
    StatusOf <- StatusMixed
    FromOf <- FromMixed
    ToOf <- ToMixed
    AmountOf <- AmountMixed
    Workers = {w1, w2}
    Mortal = {w1}
    MaxPayment = 6
INVARIANTS
    TotalIsSum
    CreditedOnce
    NothingForgotten
    TransfersBalance
PROPERTY
    PassCreditsAllItFound
CHECK_DEADLOCK FALSE
