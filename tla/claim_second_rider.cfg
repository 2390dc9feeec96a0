CONSTANTS
    Orders = {o1}
    Riders = {r1, r2}
    RzpIds = {}
    Sessions = {s1, s2}
    Methods = {"COD"}
    MaxFaults = 0
    MaxRiderTimers = 1
    NoOrder = NoOrder
    NoRider = NoRider
    NoRzp = NoRzp
SPECIFICATION PreparingSpec
PROPERTIES OrderKeepsItsRider
CHECK_DEADLOCK FALSE
