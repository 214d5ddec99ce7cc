SPECIFICATION OrderlySpec
CONSTANTS
    Bookings = {b1, b2}
    Procs = {p1, p2}
    Nights = {1, 2}
    Ranges <- MCAllRanges
    MaxRooms = 2
    Capacity = 2
    NoBooking = NoBooking
INVARIANT NeverOversold
INVARIANT NoPhantomRoom
INVARIANT NoRoomLost
PROPERTY LedgerSpec
PROPERTY DecidedOnce
PROPERTY AwaitingEnds
