SPECIFICATION Spec
CONSTANTS
    Procs = {p1, p2}
    Things = {t1, t2, t3}
    Pair = {x, y}
    Nothing = Nothing
    MaxRooms = 2
    LastDay = 2
    MaxPrice = 2
    MaxTags = 2
    MaxStars = 2
    MaxQuantity = 2
    MaxPlace = 1
    MaxMails = 2
    Terms <- MCTerms
    Orders <- MCOrders
SYMMETRY MCSymmetry
INVARIANTS
    TypeOK
    NightsCovered
    CatalogueSound
    RatingIsTrue
    DocumentsFirst
    RolesSound
    PendingHasItems
    DiscountSound
    OrderKept
    WaitlistSound
    ResetsSound
CHECK_DEADLOCK FALSE
