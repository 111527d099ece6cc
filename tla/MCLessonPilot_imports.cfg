CONSTANTS
  Sources = {s1, s2}
  Workers = {w1, w2}
  Confirms = {c1, c2}
  Topics = {t1, t2}
  Drafts = {d1, d2}
  Paths = {"plan", "lesson"}
  None = None
  Attempts = 2
  MaxFaults = 1
  Operations = {"retry", "edit", "delete", "topic"}
  Concepts = {1, 2}
  Fields = {f, g}
  OptionalFields = {g}
  Spans = {1, 2}
  l1 = l1
  l2 = l2
  seed1 = seed1
  seed2 = seed2
  Lessons = {l1, l2}
  PairOf <- MCPairOf
  Seeds = {seed1, seed2}
  PlanOf <- MCPlanOf
  Packs <- MCPacks
  Reviews <- MCReviews
  Issued <- MCIssued
  Studied = l1
  Submits = {w1, w2}
  Processes = {t1, t2}
  NoProcess = NoProcess
  Answers = {d1, d2}
  NoAnswer = NoAnswer
  Holds = {1, 2}
  TransferDelay = 2
  MaxTime = 4
  MaxEvaluations = 2
  MaxDeaths = 1
SPECIFICATION MCImportSpec
SYMMETRY ImportSymmetry
INVARIANTS TypeOK OneCardPerTopic
PROPERTIES PilotIsSound
CHECK_DEADLOCK FALSE
