CONSTANTS
    Orders = {o1}
    Riders = {}
    RzpIds = {z1}
    Sessions = {s1, s2}
    Methods = {"RAZORPAY"}
    MaxFaults = 0
    MaxRiderTimers = 1
    NoOrder = NoOrder
    NoRider = NoRider
    NoRzp = NoRzp
SPECIFICATION Spec
PROPERTIES CaptureProcessedOnce
CHECK_DEADLOCK FALSE
