SPECIFICATION Spec
CONSTANTS
  Cabinets = {c1, c2}
  Statuses = {"SUBMITTED", "IN_PROGRESS", "RESOLVED"}
  NONE = NONE
  KEEP = KEEP
  Demands = {d1}
  Users = {u1, u2}
  Admins = {u2}
  Members = {m1}
  Results = {x1}
  Ratings = {1}
  Requests = {r1, r2}
  MaxRequests = 3
  MayCrash = TRUE
  UserOf <- MCUserOf
  CabinetOf <- MCCabinetOf
  StartStatus <- MCStartStatus
  c1 = c1
  c2 = c2
  d1 = d1
  m1 = m1
  m2 = m2
  u1 = u1
  u2 = u2
SYMMETRY RequestSymmetry
INVARIANTS
  TypeOK
  ScoreCoversCounts
PROPERTIES
  DeletionIsFinal
CHECK_DEADLOCK FALSE
