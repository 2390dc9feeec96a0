CONSTANTS
    Orders = {o1}
    Riders = {}
    RzpIds = {z1, z2}
    Sessions = {s1, s2}
    Methods = {"RAZORPAY", "STRIPE", "COD"}
    MaxFaults = 1
    MaxRiderTimers = 1
    NoOrder = NoOrder
    NoRider = NoRider
    NoRzp = NoRzp
SPECIFICATION Spec
SYMMETRY Symmetry
INVARIANTS TypeOK PlacedWasPaid BooksMatchRazorpay RefundedWasPlaced WaitingIsWatched
CHECK_DEADLOCK FALSE
