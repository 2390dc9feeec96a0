CONSTANTS
    Orders = {o1, o2}
    Riders = {r1}
    RzpIds = {}
    Sessions = {s1}
    Methods = {"COD"}
    MaxFaults = 0
    MaxRiderTimers = 1
    NoOrder = NoOrder
    NoRider = NoRider
    NoRzp = NoRzp
SPECIFICATION PreparingSpec
INVARIANTS RiderHasOneOrder
CHECK_DEADLOCK FALSE
