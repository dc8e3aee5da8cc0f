SPECIFICATION MCSpec
CONSTANTS
  Demands = {d1}
  Users = {u1, u2}
  Cabinets = {c1, c2}
  Requests = {r1, r2}
  NONE = NONE
  NULL = NULL
  MaxRequests = 3
  MaxSteps = 4
  MayCrash = TRUE
  Filings = {f1, f2, f3}
  Statuses = {"SUBMITTED", "RESOLVED", "CANCELED"}
  Categories = {k1, k2}
  DayLength = 2
  MonthLength = 2
  DailyLimit = 1
  WeeklyLimit = 2
  Week = 2
  TrendDays = 2
  TrendMonths = 1
  MaxInstant = 4
  MaxWrites = 1
  MaxReadings = 1
SYMMETRY Symmetry
INVARIANTS
  MCTypeOK
  LikesFollowAnswers
  ReviewIsHeeded
  DeletionSettlesReports
  AnswersComeFromTheCabinet
  SharesMakeAWhole
  FiguresAgree
CHECK_DEADLOCK FALSE
