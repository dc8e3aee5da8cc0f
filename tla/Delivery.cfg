SPECIFICATION Spec
CONSTANTS
  u1 = u1
  u2 = u2
  e1 = e1
  e2 = e2
  NONE = NONE
  Users = {u1, u2}
  Emails = {e1, e2}
  AddressOf <- MCAddressOf
  Clients = {c1}
  PageSize = 1
  MaxEvents = 2
  MaxRestarts = 1
  Jobs = {j1, j2}
  HttpKinds = {k1, k2}
  JobKinds = {k3}
  MaxAttempts = 2
  MaxStalls = 1
  DedupTtl = 2
  MaxClock = 2
  MaxCrashes = 2
INVARIANTS
  TypeOK
  NothingIsMissed
  ReportersAreMailed
  AttemptsAreAccountedFor
PROPERTIES
  EventsAreTold
  MailsSettle
  FailuresAreHeard
CHECK_DEADLOCK FALSE
