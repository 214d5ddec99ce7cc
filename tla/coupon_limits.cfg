SPECIFICATION Spec
CONSTANTS
    b1 = b1
    b2 = b2
    b3 = b3
    u1 = u1
    u2 = u2
    Bookings = {b1, b2, b3}
    Users = {u1, u2}
    Owner <- MCOwner
    Tours = {b2}
    Procs = {p1, p2}
    MaxCap = 1
    MaxPerUser = 1
    NoBooking = NoBooking
    NoUser = NoUser
SYMMETRY MCSymmetry
INVARIANT CapBound
INVARIANT UserBound
INVARIANT LiveAreCounted
