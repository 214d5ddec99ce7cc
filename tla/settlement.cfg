SPECIFICATION Spec
CONSTANTS
    Amount = 2
    Refunds = {r1, r2}
    Payouts = {k1, k2, k3}
    Procs = {p1, p2}
    Workers = {w1}
    NoRefund = NoRefund
    NoPayout = NoPayout
SYMMETRY MCSymmetry
INVARIANTS
    RefundedIsCovered
    NeverOverRefunded
    PayoutsAreFew
    FullRefundShown
PROPERTIES
    PaidStays
