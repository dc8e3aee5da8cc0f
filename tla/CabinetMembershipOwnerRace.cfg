SPECIFICATION Spec
CONSTANTS
  Users = {u1, u2}
  Cabinets = {c1}
  Emails = {e1, e2}
  AddressOf <- MCAddressOf
  Exact = {e1, e2}
  MaxMembers = 2
  Requests = {r1, r2}
  NONE = NONE
  MaxRequests = 2
  MayAbort = FALSE
  u1 = u1
  u2 = u2
  u3 = u3
  e1 = e1
  e2 = e2
  e3 = e3
  e9 = e9
PROPERTIES
  OwnerStays
CHECK_DEADLOCK FALSE
