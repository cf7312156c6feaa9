SPECIFICATION Spec
CONSTANTS
  m1 = m1
  u1 = u1
  u2 = u2
  h1 = h1
  h2 = h2
  k1 = k1
  k2 = k2
  k3 = k3
  NoUser = NoUser
  Absent = Absent
  Monitors = {m1}
  Users = {u1, u2}
  Updates = {h1, h2}
  Spellings <- Spelt
  Normalize <- Lowered
  Requests <- Asked
  Checks = {k1, k2}
  RegionOf <- OneEach
  PageSize = 1
  Day = 2
  Week = 3
  Month = 4
  Horizon = 4
INVARIANTS TypeOK  UptimeAnswered UptimeCountsStoredChecks ResultsOfOwner 
PROPERTIES DeletedStaysDeleted
SYMMETRY UserSymmetry
