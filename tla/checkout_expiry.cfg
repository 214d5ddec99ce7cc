SPECIFICATION OrderlySpec
CONSTANTS
    o1 = o1
    o2 = o2
    Bookings = {b1}
    Orders = {o1}
    Procs = {p1}
    Workers = {w1}
    Events <- MCNoEvents
    MaxAttempts = 1
    NoBooking = NoBooking
    NoOrder = NoOrder
PROPERTY ExpiresOnlyUnpaid
