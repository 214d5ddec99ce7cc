SPECIFICATION Spec
CONSTANTS
    Bookings = {b1, b2, b3}
    Procs = {p1, p2}
    MaxCap = 2
    MaxParty = 2
    LastDay = 3
    NoBooking = NoBooking
SYMMETRY MCSymmetry
INVARIANTS
    SeatBound
    DayBound
    NoOrphan
CHECK_DEADLOCK FALSE
