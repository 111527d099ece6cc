CONSTANTS
  Cards = {c1, c2}
  Polls = {p1, p2}
  Sweeps = {}
  Tokens = {t}
  NoOne = NoOne
  DayLength = 4
  Windows <- Neighbours
  Budgets = {1, 2}
  Zones = {0, 3}
  MissedAfter = 1
  RecallDelay = 1
  MaxTime = 6
  Operations = {"session", "lifecycle", "settings", "tokens"}
SPECIFICATION Spec
SYMMETRY Symmetry
INVARIANTS TypeOK PushesAreLimited CandidateStaysOfferable
