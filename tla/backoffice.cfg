CONSTANTS
  s1 = s1  s2 = s2
  Sessions = {s1, s2}
  Kitchens = {"trattoria", "diner"}
  Slugs = {"thai", "bengali"}
  LastRow = 5
  Partners = {1, 2}
  Rides = {1, 2}
  Emails = {"e1", "e2"}
  Phones = {"p1", "p2"}
  Names = {"n1", "n2"}
  LastCode = 3
  Delivered = {1, 2, 3}
  Ratings = {1, 5}
  Sockets = {1, 2, 3}
  Notes = {1}
  Places = {1, 2, 3}
  Shops = {1, 2}
  Stars = {1, 2, 3}
  MaxShifts = 2
  Limit = 2
  MaxStored = 1
  FreeRadius = 2000
  FarThreshold = 5000
  NearRate = 800
  FarRate = 1200
  MaxFee = 15000
  Horizon = 16000
SPECIFICATION Spec
INVARIANTS TypeOK MappingsResolve OnePrimaryCuisine ApprovedOwnsRole SubmittedIsComplete OneActiveApplication CodesAreSpent RatingsAreEarned PushReachesListeners SteadyShown FeeGrowsWithDistance
PROPERTIES DefaultRemains
SYMMETRY Interchangeable
CHECK_DEADLOCK FALSE
