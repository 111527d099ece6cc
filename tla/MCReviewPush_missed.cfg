CONSTANTS
  Cards = {c1}
  Polls = {p1}
  Sweeps = {s1, s2}
  Tokens = {t}
  NoOne = NoOne
  DayLength = 3
  Windows <- Overlapping
  Budgets = {2}
  Zones = {0}
  MissedAfter = 1
  RecallDelay = 1
  MaxTime = 6
  Operations = {"session", "learn", "crash"}
SPECIFICATION FairSpec
PROPERTIES MissIsDeserved PushesSettle
