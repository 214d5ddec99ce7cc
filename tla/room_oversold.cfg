SPECIFICATION BookingSpec
CONSTANTS
    Bookings = {b1, b2}
    Procs = {p1, p2}
    Nights = {1, 2}
    Ranges <- MCRanges
    MaxRooms = 1
    Capacity = 1
    NoBooking = NoBooking
INVARIANT NeverOversold
