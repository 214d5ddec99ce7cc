SPECIFICATION SmoothSpec
CONSTANTS
    b1 = b1
    b2 = b2
    b3 = b3
    u1 = u1
    u2 = u2
    Bookings = {b1, b2, b3}
    Users = {u1, u2}
    Owner <- MCOwner
    Tours = {b2}
    Procs = {p1}
    MaxCap = 2
    MaxPerUser = 2
    NoBooking = NoBooking
    NoUser = NoUser
SYMMETRY MCSymmetry
CHECK_DEADLOCK FALSE
INVARIANT CountIsExact
