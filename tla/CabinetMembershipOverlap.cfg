SPECIFICATION Spec
CONSTANTS
  Users = {u1, u2}
  Cabinets = {c1}
  Emails = {e1, e2, e9}
  AddressOf <- MCAddressOf
  Exact = {e1, e2}
  MaxMembers = 2
  Requests = {r1, r2}
  NONE = NONE
  MaxRequests = 4
  MayAbort = TRUE
  u1 = u1
  u2 = u2
  u3 = u3
  e1 = e1
  e2 = e2
  e3 = e3
  e9 = e9
INVARIANTS
  TypeOK
PROPERTIES
  JoinsAreOffered
SYMMETRY RequestSymmetry
CHECK_DEADLOCK FALSE
