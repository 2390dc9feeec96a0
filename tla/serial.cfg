CONSTANTS
    Orders = {o1, o2}
    Riders = {r1, r2}
    RzpIds = {z1}
    Sessions = {s1}
    Methods = {"RAZORPAY", "COD"}
    MaxFaults = 1
    MaxRiderTimers = 1
    NoOrder = NoOrder
    NoRider = NoRider
    NoRzp = NoRzp
SPECIFICATION Spec
SYMMETRY Symmetry
INVARIANTS UnpaidHoldsNoMoney DeliveriesAreCounted
PROPERTIES PaidIsNotFailed OrderKeepsItsRider
CHECK_DEADLOCK FALSE
