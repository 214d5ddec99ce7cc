SPECIFICATION Spec
CONSTANTS
    o1 = o1
    o2 = o2
    Bookings = {b1}
    Orders = {o1, o2}
    Procs = {p1}
    Workers = {w1, w2}
    Events <- MCTwoOrders
    MaxAttempts = 1
    NoBooking = NoBooking
    NoOrder = NoOrder
INVARIANT OutcomeIsReal
INVARIANT RecordsMatchGateway
PROPERTY LifecycleSpec
