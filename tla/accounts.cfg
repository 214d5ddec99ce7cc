SPECIFICATION FairSpec
CONSTANTS
    Users = {u1}
    Mails = {m1, m2}
    Sessions = {s1}
    Procs = {p1, p2}
    NoUser = NoUser
    NoMail = NoMail
INVARIANTS
    CacheForgets
    SessionsEnd
    VerifiedIsProven
PROPERTIES
    LockedOut
