CONSTANTS
    Orders = {o1}
    Riders = {}
    RzpIds = {}
    Sessions = {s1, s2}
    Methods = {"COD"}
    MaxFaults = 0
    MaxRiderTimers = 1
    NoOrder = NoOrder
    NoRider = NoRider
    NoRzp = NoRzp
SPECIFICATION FairSpec
PROPERTIES UnassignedIsCancelled
CHECK_DEADLOCK FALSE
