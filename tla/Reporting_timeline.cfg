SPECIFICATION Spec
CONSTANTS
  m1 = m1
  u1 = u1
  u2 = u2
  h1 = h1
  h2 = h2
  k1 = k1
  k2 = k2
  k3 = k3
  NoUser = NoUser
  Absent = Absent
  Monitors = {m1}
  Users = {u1}
  Updates = {h1}
  Spellings <- Spelt
  Normalize <- Lowered
  Requests <- Asked
  Checks = {k1, k2, k3}
  RegionOf <- AllEu
  PageSize = 1
  Day = 2
  Week = 2
  Month = 4
  Horizon = 2
INVARIANT Timeline30dAnswered
