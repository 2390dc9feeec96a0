CONSTANTS
  s1 = s1  s2 = s2
  Sessions = {s1, s2}
  r1 = r1  r2 = r2
  Restaurants = {r1, r2}
  Closures = {1, 2}
  Shifts <- MCShifts
  c1 = c1  c2 = c2  c3 = c3
  Categories = {c1, c2, c3}
  i1 = i1  i2 = i2  i3 = i3
  Items = {i1, i2, i3}
  RestaurantOf <- MCRestaurantOf
  HomeOf <- MCHomeOf
  Prices = {2, 3}
  MaxPosition = 3
  CartIds = {1, 2}
  OrderIds = {1}
  MaxQuantity = 2
  LastKey = 3
  MaxFiles = 2
  ImageCap <- MCImageCap
SPECIFICATION Spec
INVARIANTS TypeOK ActivationComesFirst ScheduleStaysComplete MenuIsOrdered CartOfOneRestaurant OrderAddsUp RowsHaveObjects
PROPERTIES StaleEnds
CHECK_DEADLOCK FALSE
