SPECIFICATION Spec
CONSTANTS
    Bookings = {b1, b2, b3}
    Procs = {p1, p2}
    Nights = {1}
    Ranges <- MCOneNight
    MaxRooms = 1
    Capacity = 1
    NoBooking = NoBooking
SYMMETRY MCSymmetry
INVARIANT TypeOK
INVARIANT OversellBound
PROPERTY LifecycleSpec
