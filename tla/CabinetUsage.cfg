SPECIFICATION MCSpec
CONSTANTS
  Cabinets = {c1}
  Plans = {p1}
  Features = {f1}
  NONE = NONE
  LimitChoices <- MCLimits
  Desks = {s1, s2}
  MaxTime = 1
  MaxChanges = 4
  Demands = {d1, d2}
  Results = {x1}
  Jobs = {j1, j2}
  Readers = {r1, r2}
  MaxKeys = 2
  SizeOf <- MCSizeOf
SYMMETRY Symmetry
INVARIANTS
  TypeOK
  PageAgreesWithGuard
  SubscriptionsAreSingle
  FilesMatchRows
PROPERTIES
  LimitsHold
CHECK_DEADLOCK FALSE
