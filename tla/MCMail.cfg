SPECIFICATION FairSpec
CONSTANTS
    w1 = w1
    w2 = w2
    m1 = m1
    m2 = m2
    closed = closed
    talk = talk
    leaders = leaders
    empty = empty
    u1 = u1
    u2 = u2
    u3 = u3
    u4 = u4
    Messages = {m1, m2}
    Workers = {w1, w2}
    To <- ToThree
    KindOf <- Kind
    Members <- People
    NoAddress = {u3}
    Garbled <- Bad
    OwnReplyTo = {m2}
    MaxNotices = 2
    MaxTroubles = 1
INVARIANTS
    OneHandlerAtATime
    OverlapNeededToRepeat
    RepliesReachSender
    DoneReachedEverybody
PROPERTY
    HandledUnlessCutShort
CHECK_DEADLOCK FALSE
