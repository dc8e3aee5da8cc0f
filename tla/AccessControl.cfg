SPECIFICATION MCSpec
CONSTANTS
  Users = {u1}
  Cabinets = {c1, c2}
  Demands = {d1}
  Results = {x1}
  NONE = NONE
  MaxRequests = 1
  MaxChanges = 2
SYMMETRY Symmetry
INVARIANTS
  OnlyTheEntitledAreServed
  DisabledAccountsAreShutOut
CHECK_DEADLOCK FALSE
