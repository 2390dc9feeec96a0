CONSTANTS
    Orders = {o1}
    Riders = {}
    RzpIds = {z1}
    Sessions = {s1, s2}
    Methods = {"RAZORPAY"}
    MaxFaults = 1
    MaxRiderTimers = 1
    NoOrder = NoOrder
    NoRider = NoRider
    NoRzp = NoRzp
SPECIFICATION FairSpec
PROPERTIES AwaitingPaymentEnds CaptureReachesOrder
CHECK_DEADLOCK FALSE
