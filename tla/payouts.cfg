CONSTANTS
    e1 = e1
    e2 = e2
    e3 = e3
    w1 = w1
    w2 = w2
    Earnings = {e1, e2, e3}
    Owners = {w1, w2}
    OwnerOf <- MCOwnerOf
    Amount <- MCAmount
    Payouts = {p1, p2, p3}
    Runs = {j1, j2}
    MaxFaults = 1
    NoPayout = NoPayout
    NoOwner = NoOwner
SPECIFICATION FairSpec
INVARIANTS PayoutIsItsEarnings
PROPERTIES ImplementsLedger BatchPays NoRowDropped
CHECK_DEADLOCK FALSE
