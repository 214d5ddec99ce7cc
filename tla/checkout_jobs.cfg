SPECIFICATION FairSpec
CONSTANTS
    o1 = o1
    o2 = o2
    Bookings = {b1}
    Orders = {o1}
    Procs = {p1}
    Workers = {w1, w2}
    Events <- MCOutOfOrder
    MaxAttempts = 2
    NoBooking = NoBooking
    NoOrder = NoOrder
PROPERTY JobsFinish
