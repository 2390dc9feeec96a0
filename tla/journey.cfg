CONSTANTS
    Orders = {o1}
    Riders = {r1}
    RzpIds = {z1}
    Sessions = {s1, s2}
    Methods = {"RAZORPAY", "COD"}
    MaxFaults = 0
    MaxRiderTimers = 1
    NoOrder = NoOrder
    NoRider = NoRider
    NoRzp = NoRzp
SPECIFICATION Spec
SYMMETRY Symmetry
INVARIANTS NoStageSkipped CashCollected DeliveriesWithinLedger
PROPERTIES ImplementsJourney
CHECK_DEADLOCK FALSE
