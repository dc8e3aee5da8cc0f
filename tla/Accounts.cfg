SPECIFICATION Spec
CONSTANTS
  Users = {u1, u2}
  Places = {l1, l2, l3, l4}
  NONE = NONE
  Tabs = {t1, t2}
  MaxNeighborhoods = 2
  MaxOpened = 4
  Emails = {e1, e2}
  Mailbox <- MCMailbox
  Passwords = {p1}
  Demands = {d1}
  Slots = {s1, s2}
  LinkLife = 1
  SessionLife = 2
  MaxRequests = 3
  MaxTime = 2
SYMMETRY Symmetry
INVARIANTS
  TypeOK
  NeighborhoodsAreTidy
  SessionsAreSound
  LinksWorkAndOnce
  GuestDemandsComeHome
CHECK_DEADLOCK FALSE
