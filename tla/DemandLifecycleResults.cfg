SPECIFICATION FairSpec
CONSTANTS
  Cabinets = {c1}
  Statuses = {"SUBMITTED", "IN_PROGRESS", "RESOLVED"}
  NONE = NONE
  KEEP = KEEP
  Demands = {d1, d2}
  Users = {u1}
  Admins = {}
  Members = {m1}
  Results = {x1, x2}
  Ratings = {1}
  Requests = {r1, r2}
  MaxRequests = 2
  MayCrash = FALSE
  UserOf <- MCUserOf
  CabinetOf <- MCCabinetOf
  StartStatus <- MCStartStatus
  c1 = c1
  c2 = c2
  d1 = d1
  m1 = m1
  m2 = m2
  u1 = u1
  u2 = u2
INVARIANTS
  LinksAreOwn
PROPERTIES
  DeletedResultReopens
CHECK_DEADLOCK FALSE
