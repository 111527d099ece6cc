CONSTANTS
  Requests = {r1, r2}
  Sessions = {s1, s2}
  Texts = {x}
  None = None
  NoTurn = NoTurn
  MaxFollowUps = 0
  MaxEdits = 0
  TurnIndices <- AllIndexed
  Contracts = {2}
  Operations = {"start", "answer", "reattempt", "coaching", "abandon"}
  MaxProbes = 2
  Jobs = {j1, j2, j3}
  NoJob = NoJob
  JobKinds = {"score", "import", "question"}
  Modes = {"shadow", "primary"}
  DailyLimit = 3
  ImportLimit = 1
  Outputs2 <- MCOutputs
  MaxReviews = 1
  MaxCrashes = 1
SPECIFICATION MCScoringSpec
SYMMETRY ScoringSymmetry
INVARIANTS ScheduleIsReviewHistory ReplayedResultIsOriginal AuditIsTrue RulesHold
PROPERTIES MasteryFromLatestReview
CHECK_DEADLOCK FALSE
